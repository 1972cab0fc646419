----------------------------- MODULE Attachments -----------------------------
(***************************************************************************)
(* The outcome attachments of a complaint: the card of the outcome report, *)
(* the carousel inside it, the list of the store both read, and the object *)
(* store (COMS) that keeps the files.  The card remembers the files to add *)
(* and the attachments to delete until it is saved; a save then deletes    *)
(* them, uploads the files, each image with a thumbnail made in the        *)
(* browser, reads the list again and only then forgets what it remembered. *)
(* While a request is under way the loader covers the page; while the      *)
(* browser makes a thumbnail it does not.                                  *)
(***************************************************************************)
EXTENDS Naturals, Sequences

CONSTANTS
    Documents, Images,   \* names of files without and with a thumbnail
    Decode,              \* of a name: what decodeURIComponent makes of it
    Malformed,           \* no text: decodeURIComponent throws
    Firsts,              \* what COMS may hold at first: sequences of objects
    MaxEvents            \* bound: what the officer and other pages do

Names == Documents \cup Images

\* `from` is the choice an object was uploaded from, 0 if it was there at first.
Object(image, from) == [image |-> image, from |-> from, here |-> TRUE, thumb |-> FALSE]

ASSUME AttachmentsAssumption ==
    /\ MaxEvents \in Nat /\ Documents \cap Images = {}
    /\ DOMAIN Decode = Names /\ Malformed \notin Names
    /\ \A s \in Firsts :
          /\ s \in Seq([image : BOOLEAN, from : {0}, here : BOOLEAN, thumb : BOOLEAN])
          /\ \A i \in DOMAIN s : s[i].thumb => s[i].image

VARIABLES
    coms,       \* the objects of this complaint, by id, with their thumbnails
    files,      \* the files chosen so far, by number of the choice
    card,       \* the card: "gone", "display" or "edit"
    list,       \* outcomeAttachments of the store
    slides,     \* what the carousel shows
    toAdd,      \* attachmentsToAdd of the card: choices, uploaded in any order
    toDelete,   \* attachmentsToDelete of the card
    choosing,   \* selections whose slides the browser is still drawing
    jobs,       \* saves and reloads under way
    events,
    sent,       \* the choices some save has taken
    dropped,    \* the choices removed before any save took them
    asked       \* the attachments removed since the card was last settled

history == <<events, sent, dropped, asked>>
vars == <<coms, files, card, list, slides, toAdd, toDelete, choosing, jobs, history>>

Init ==
    /\ coms \in Firsts /\ files = <<>>
    /\ card = "gone" /\ list = {} /\ slides = {} /\ toAdd = {} /\ toDelete = <<>>
    /\ choosing = {} /\ jobs = {}
    /\ events = 0 /\ sent = {} /\ dropped = {} /\ asked = {}

-----------------------------------------------------------------------------
(* The store and the carousel.                                             *)

Held == {i \in DOMAIN coms : coms[i].here}

\* `icon`: the slide knows the id of the thumbnail.
Saved(i, icon) == [what |-> "saved", n |-> i, icon |-> icon]
New(c)         == [what |-> "new", n |-> c, icon |-> FALSE]

\* A new list replaces the slides and, empty or not, decides how the card is shown.
Show(l) ==
    /\ list' = l
    /\ IF card = "gone" THEN UNCHANGED <<slides, card>>
       ELSE /\ slides' = l
            /\ card' = IF l = {} THEN "edit" ELSE "display"

NothingShown == slides = {}

Nothing == slides = {} /\ list = {}

\* isInEdit.attachments: the section keeps the complaint from being closed.
Flagged == card = "edit" /\ ~Nothing

-----------------------------------------------------------------------------
(* What saves and reloads do.  A job goes through `del`, then `add`, then  *)
(* reads the list; `resets`: it then clears what its card remembers.       *)

Requests == {"delete", "deleteThumb", "put", "putThumb", "list", "icons"}
Loading  == \E j \in jobs : j.at \in Requests

Stage(del, add) ==
    CASE del # <<>> -> "delete" [] del = <<>> /\ add # {} -> "put" [] OTHER -> "list"

\* `n`, the event that started it, tells one job from another.
Job(del, add, resets) ==
    [n |-> events, at |-> Stage(del, add), del |-> del, add |-> add, resets |-> resets,
     id |-> 0, got |-> {}]

Moves(j, k) == jobs' = (jobs \ {j}) \cup {k}
NextDelete(j) ==
    Moves(j, [j EXCEPT !.del = Tail(@), !.at = Stage(Tail(j.del), j.add)])
\* After the upload of choice c, or after its thumbnail.
NextPut(j, c) == Moves(j, [j EXCEPT !.add = @ \ {c}, !.at = Stage(<<>>, j.add \ {c})])
NextAfterThumb(j) == Moves(j, [j EXCEPT !.at = Stage(<<>>, j.add)])

Remembers == <<toAdd, toDelete, asked>>

EndsOfAdding(j) ==
    /\ jobs' = jobs \ {j}
    /\ IF j.resets THEN toAdd' = {} /\ asked' = {} /\ UNCHANGED toDelete ELSE UNCHANGED Remembers

\* The last thing a save does is to forget: what it saved, and what was chosen since.
Ends(j) ==
    /\ jobs' = jobs \ {j}
    /\ IF j.resets THEN toAdd' = {} /\ toDelete' = <<>> /\ asked' = {}
       ELSE UNCHANGED Remembers

Delete(j) ==
    LET i == Head(j.del).n IN
    /\ j.at = "delete"
    /\ UNCHANGED <<files, toAdd, toDelete, choosing, history>>
    /\ \/ /\ coms[i].here
          /\ coms' = [coms EXCEPT ![i].here = FALSE]
          /\ Show({s \in list : s.n # i})
          /\ IF coms[i].image THEN Moves(j, [j EXCEPT !.at = "deleteThumb"]) ELSE NextDelete(j)
       \/ \* It fails, or its answer is lost: the next one.
          /\ \/ coms' = [coms EXCEPT ![i].here = FALSE]
             \/ UNCHANGED coms
          /\ NextDelete(j) /\ UNCHANGED <<list, slides, card>>

\* Without the id of its thumbnail the request asks for object "undefined" and fails.
DeleteThumb(j) ==
    LET d == Head(j.del) IN
    /\ j.at = "deleteThumb" /\ NextDelete(j)
    /\ \/ d.icon /\ coms' = [coms EXCEPT ![d.n].thumb = FALSE]
       \/ UNCHANGED coms
    /\ UNCHANGED <<files, card, list, slides, toAdd, toDelete, choosing, history>>

Put(j, c) ==
    LET image == files[c].name \in Images
        id == Len(coms) + 1
    IN  /\ j.at = "put"
        /\ UNCHANGED <<files, toAdd, toDelete, choosing, history>>
        /\ \/ /\ coms' = Append(coms, Object(image, c))
              /\ Show(list \cup {Saved(id, FALSE)})
              /\ IF image THEN Moves(j, [j EXCEPT !.add = @ \ {c}, !.at = "makeThumb", !.id = id])
                 ELSE NextPut(j, c)
           \/ \* It fails, as a duplicate or otherwise, or its answer is lost.
              /\ \/ coms' = Append(coms, Object(image, c))
                 \/ UNCHANGED coms
              /\ NextPut(j, c) /\ UNCHANGED <<list, slides, card>>

\* No request is under way while the browser scales the image.
MakeThumb(j) ==
    /\ j.at = "makeThumb"
    /\ \/ Moves(j, [j EXCEPT !.at = "putThumb"])
       \/ NextAfterThumb(j)
    /\ UNCHANGED <<coms, files, card, list, slides, toAdd, toDelete, choosing, history>>

PutThumb(j) ==
    /\ j.at = "putThumb" /\ NextAfterThumb(j)
    /\ \/ coms' = [coms EXCEPT ![j.id].thumb = TRUE]
       \/ UNCHANGED coms
    /\ UNCHANGED <<files, card, list, slides, toAdd, toDelete, choosing, history>>

\* An empty answer leaves the list as it is; images are asked for one by one.
ReadList(j) ==
    /\ j.at = "list"
    /\ UNCHANGED <<coms, files, choosing, events, sent, dropped>>
    /\ \/ /\ Held = {} /\ Ends(j) /\ UNCHANGED <<list, slides, card>>
       \/ /\ Held # {} /\ \A i \in Held : ~coms[i].image
          /\ Show({Saved(i, FALSE) : i \in Held}) /\ Ends(j)
       \/ /\ \E i \in Held : coms[i].image
          /\ Moves(j, [j EXCEPT !.at = "icons", !.got = Held])
          /\ UNCHANGED <<list, slides, card, Remembers>>
       \/ /\ Ends(j) /\ UNCHANGED <<list, slides, card>>

\* The thumbnails are taken as they are when the last of them answers.
ReadIcons(j) ==
    /\ j.at = "icons" /\ Ends(j)
    /\ UNCHANGED <<coms, files, choosing, events, sent, dropped>>
    /\ \/ Show({Saved(i, coms[i].thumb) : i \in j.got})
       \/ UNCHANGED <<list, slides, card>>

Work(j) ==
    \/ Delete(j) \/ DeleteThumb(j) \/ (\E c \in j.add : Put(j, c)) \/ MakeThumb(j) \/ PutThumb(j)
    \/ ReadList(j) \/ ReadIcons(j)

-----------------------------------------------------------------------------
(* What the officer does with the card, when the loader does not cover it. *)

Acts == events < MaxEvents /\ events' = events + 1
Clicks == ~Loading /\ Acts

\* A new card draws what the list of the store still holds and reads it again.
Open ==
    /\ card = "gone" /\ Clicks
    /\ card' = (IF list = {} THEN "edit" ELSE "display") /\ slides' = list
    /\ jobs' = jobs \cup {Job(<<>>, {}, FALSE)}
    /\ UNCHANGED <<coms, files, list, Remembers, choosing, sent, dropped>>

\* A save goes on without the card it came from.
Leave ==
    /\ card # "gone" /\ Clicks
    /\ card' = "gone" /\ list' = {} /\ slides' = {} /\ choosing' = {}
    /\ toAdd' = {} /\ toDelete' = <<>> /\ asked' = {}
    /\ jobs' = {[j EXCEPT !.resets = FALSE] : j \in jobs}
    /\ UNCHANGED <<coms, files, sent, dropped>>

Edit ==
    /\ card = "display" /\ Clicks /\ card' = "edit"
    /\ UNCHANGED <<coms, files, list, slides, Remembers, choosing, jobs, sent, dropped>>

\* A file that is too large gets a slide and is not remembered.  The other
\* slides are those of the moment the file was chosen.
Draws(c, base, fits) ==
    /\ slides' = base \cup {New(c)}
    /\ toAdd' = IF fits THEN toAdd \cup {c} ELSE toAdd

Choose(name, fits) ==
    LET c == Len(files) + 1 IN
    /\ card = "edit" /\ Clicks
    /\ files' = Append(files, [name |-> name, fits |-> fits])
    /\ IF name \in Images
       THEN choosing' = choosing \cup {[c |-> c, base |-> slides]} /\ UNCHANGED <<slides, toAdd>>
       ELSE Draws(c, slides, fits) /\ UNCHANGED choosing
    /\ UNCHANGED <<coms, card, list, toDelete, asked, jobs, sent, dropped>>

\* The browser has drawn the slide of an image.
Drawn(s) ==
    /\ choosing' = choosing \ {s} /\ Draws(s.c, s.base, files[s.c].fits)
    /\ UNCHANGED <<coms, files, card, list, toDelete, jobs, history>>

\* The files to add without those of the name of choice c.  The name of a slide is
\* encoded and decoded again, that of a file is decoded as it is.
WithoutNone(c) == toAdd

Without(c) == {d \in toAdd : Decode[files[d].name] # files[c].name}

Throws == \E d \in toAdd : Decode[files[d].name] = Malformed

\* An attachment is to be deleted; a file that was only chosen is forgotten.
Remove(s) ==
    /\ card = "edit" /\ Clicks
    /\ slides' = {t \in slides : t.what # s.what \/ t.n # s.n}
    /\ \/ /\ s.what = "saved"
          /\ toDelete' = Append(toDelete, s) /\ asked' = asked \cup {s.n}
          /\ UNCHANGED <<toAdd, dropped>>
       \/ /\ s.what = "new" /\ ~Throws
          /\ toAdd' = Without(s.n)
          /\ dropped' = dropped \cup ({s.n} \ sent)
          /\ UNCHANGED <<toDelete, asked>>
    /\ UNCHANGED <<coms, files, card, list, choosing, jobs, sent>>

\* The error boundary takes the place of the whole page, and the page is loaded again,
\* before or after an earlier save has made its last thumbnail.
RemoveThrows(s) ==
    /\ card = "edit" /\ Clicks /\ s.what = "new" /\ Throws
    /\ card' = "gone" /\ list' = {} /\ slides' = {} /\ choosing' = {}
    /\ toAdd' = {} /\ toDelete' = <<>> /\ asked' = {}
    /\ \/ jobs' = {[j EXCEPT !.resets = FALSE] : j \in jobs}
       \/ jobs' = {}
    /\ dropped' = dropped \cup ({s.n} \ sent)
    /\ UNCHANGED <<coms, files, sent>>

Save ==
    /\ card = "edit" /\ Clicks
    /\ \/ Nothing /\ UNCHANGED <<card, jobs, sent>>
       \/ /\ ~Nothing
          /\ jobs' = jobs \cup {Job(toDelete, toAdd, TRUE)}
          /\ card' = (IF slides = {} THEN "edit" ELSE "display")
          /\ sent' = sent \cup toAdd
    /\ UNCHANGED <<coms, files, list, slides, Remembers, choosing, dropped>>

\* Confirmed in its modal.  clearAttachments is dispatched without being
\* called: the list stays until the reload answers.
Cancel ==
    /\ card = "edit" /\ Clicks
    /\ \/ Nothing /\ UNCHANGED <<card, slides, toAdd, toDelete, jobs>>
       \/ /\ ~Nothing
          /\ toAdd' = (IF slides = {} THEN toAdd ELSE {})
          /\ slides' = {} /\ toDelete' = <<>>
          /\ card' = (IF list = {} THEN "edit" ELSE "display")
          /\ jobs' = jobs \cup {Job(<<>>, {}, FALSE)}
    /\ asked' = {}
    /\ UNCHANGED <<coms, files, list, choosing, sent, dropped>>

\* Another page deletes an attachment, with its thumbnail.
Elsewhere(i) ==
    /\ Acts /\ coms' = [coms EXCEPT ![i].here = FALSE, ![i].thumb = FALSE]
    /\ UNCHANGED <<files, card, list, slides, Remembers, choosing, jobs, sent, dropped>>

Next ==
    \/ Open \/ Leave \/ Edit \/ Save \/ Cancel
    \/ \E name \in Names, fits \in BOOLEAN : Choose(name, fits)
    \/ \E s \in choosing : Drawn(s)
    \/ \E s \in slides : Remove(s) \/ RemoveThrows(s)
    \/ \E i \in Held : Elsewhere(i)
    \/ \E j \in jobs : Work(j)

Spec == Init /\ [][Next]_vars

-----------------------------------------------------------------------------
(* Properties.                                                             *)

Item == [what : {"saved"}, n : DOMAIN coms, icon : BOOLEAN]
Slide == Item \cup [what : {"new"}, n : DOMAIN files, icon : BOOLEAN]

\* What is shown, remembered and under way names objects and choices there are.
TypeOK ==
    /\ coms \in Seq([image : BOOLEAN, from : 0..Len(files), here : BOOLEAN, thumb : BOOLEAN])
    /\ files \in Seq([name : Names, fits : BOOLEAN])
    /\ card \in {"gone", "display", "edit"} /\ list \in SUBSET Item /\ slides \in SUBSET Slide
    /\ toAdd \subseteq DOMAIN files /\ toDelete \in Seq(Item)
    /\ \A s \in choosing : s.c \in DOMAIN files /\ s.base \subseteq Slide
    /\ \A j \in jobs :
          /\ j.at \in Requests \cup {"makeThumb"} /\ j.add \subseteq DOMAIN files
          /\ j.del \in Seq(Item) /\ j.resets \in BOOLEAN /\ j.got \subseteq DOMAIN coms
          /\ j.id \in {0} \cup DOMAIN coms /\ j.n \in 0..MaxEvents
    /\ events \in 0..MaxEvents /\ sent \cup dropped \subseteq DOMAIN files
    /\ asked \subseteq DOMAIN coms

\* "Let's make sure this file isn't uploaded" (attachment-utils.ts:24): what was
\* removed before a save took it, or is too large, is not in the object store,
\* whichever slides a selection brought back.  Left out openly: a removed file whose
\* name decodeURIComponent changes ("a%20b.txt"); the filter compares the changed name
\* and lets the file through.
UploadsAreWanted ==
    \A i \in DOMAIN coms : LET c == coms[i].from IN
        c # 0 => /\ files[c].fits
                 /\ c \in dropped => Decode[files[c].name] # files[c].name

\* What a save starts to delete, and the object store still holds, was removed
\* on this card, and since then no cancel ("Your changes will be lost",
\* hwcr-file-attachments.tsx:121), no end of an earlier save and no new card
\* came between.
DeletesAreAsked ==
    [][\A j \in jobs' : j.n = events =>
          \A k \in DOMAIN j.del : j.del[k].n \in Held => j.del[k].n \in asked]_vars

\* Neither the early returns of save and cancel nor the closing of the complaint
\* (change-status-modal.tsx reads isInEdit.attachments) pass over an attachment
\* that was removed on the card and is still there.
RemovalsAreFlagged ==
    (card = "edit" /\ \E k \in DOMAIN toDelete : toDelete[k].n \in Held) => Flagged
=============================================================================
