-------------------------- MODULE AttachmentsProofs --------------------------
(***************************************************************************)
(* What the outcome attachments keep true for any files, any number of     *)
(* saves that go on at once and whatever fails: no upload and no deletion  *)
(* that the officer took back, and no removal that is passed over.  Two    *)
(* facts carry it.  A file that was removed before a save took it is in no *)
(* selection still being drawn and, if decodeURIComponent leaves its name  *)
(* as it is, in no list of files to upload.  What                          *)
(* was removed and is still there is in the list of the store: an answer   *)
(* under way cannot lack it, because nobody clicks while it is.            *)
(***************************************************************************)
EXTENDS Attachments, TLAPS

\* Items, slides, objects, selections and jobs when there are n objects and f choices.
SavedOn(n)       == [what : {"saved"}, n : 1..n, icon : BOOLEAN]
SlideOn(n, f)    == SavedOn(n) \cup [what : {"new"}, n : 1..f, icon : BOOLEAN]
ObjectOn(f)      == [image : BOOLEAN, from : 0..f, here : BOOLEAN, thumb : BOOLEAN]
ChoosingOn(n, f) == [c : 1..f, base : SUBSET SlideOn(n, f)]
JobOn(n, f) ==
    [n : Nat, at : Requests \cup {"makeThumb"}, del : Seq(SavedOn(n)), add : SUBSET (1..f),
     resets : BOOLEAN, id : 0..n, got : SUBSET (1..n)]

\* A job that deletes has something left to delete.
Ready(j) == /\ j.at \in {"delete", "deleteThumb"} => j.del # <<>>
            /\ j.at \in {"makeThumb", "putThumb"} => j.id # 0

Types ==
    /\ files \in Seq([name : Names, fits : BOOLEAN])
    /\ coms \in Seq(ObjectOn(Len(files)))
    /\ card \in {"gone", "display", "edit"}
    /\ list \subseteq SavedOn(Len(coms)) /\ slides \subseteq SlideOn(Len(coms), Len(files))
    /\ toAdd \subseteq 1..Len(files) /\ toDelete \in Seq(SavedOn(Len(coms)))
    /\ choosing \subseteq ChoosingOn(Len(coms), Len(files))
    /\ jobs \subseteq JobOn(Len(coms), Len(files)) /\ \A j \in jobs : Ready(j)
    /\ events \in 0..MaxEvents /\ sent \subseteq 1..Len(files) /\ dropped \subseteq 1..Len(files)
    /\ asked \subseteq 1..Len(coms)
    /\ card = "gone" => slides = {} /\ choosing = {} /\ toDelete = <<>>

HeldIn(cm)         == {i \in 1..Len(cm) : cm[i].here}
Mentions(S, i)     == \E s \in S : s.what = "saved" /\ s.n = i
Marked(i, td, ch)  == \/ \E k \in 1..Len(td) : td[k].n = i
                      \/ \E s \in ch : Mentions(s.base, i)

\* Its name is the one its slide has after it was encoded and decoded.
Plain(fl, c) == Decode[fl[c].name] = fl[c].name

\* What may be uploaded was chosen, fits and, if its name is plain, was not removed; nor will the end of a
\* selection bring back what was removed.
UploadInv(cm, fl, sl, ta, ch, js, se, dr) ==
    /\ \A c \in ta : fl[c].fits /\ (Plain(fl, c) => c \notin dr)
    /\ \A s \in ch : /\ s.c \notin dr
                     /\ \A t \in sl : t.what = "new" => t.n # s.c
                     /\ \A r \in ch : /\ r.c = s.c => r = s
                                      /\ \A t \in r.base : t.what = "new" => t.n # s.c
    /\ \A j \in js : j.add \subseteq se /\ \A c \in j.add : fl[c].fits
    /\ \A c \in se : Plain(fl, c) => c \notin dr
    /\ \A i \in 1..Len(cm) : cm[i].from # 0 => cm[i].from \in se /\ fl[cm[i].from].fits

\* What the officer can see or has removed, and COMS still holds, is in the list;
\* so it is in a list under way, for nobody clicks while that is.
DeleteInv(cm, li, sl, td, ch, js, ask, ev) ==
    /\ \A i \in HeldIn(cm) : Mentions(sl, i) \/ Marked(i, td, ch) => Mentions(li, i)
    /\ \A j \in js : j.at = "icons" => \A i \in HeldIn(cm) : Marked(i, td, ch) => i \in j.got
    /\ \A k \in 1..Len(td) : td[k].n \in HeldIn(cm) => td[k].n \in ask
    /\ \A j \in js : j.n < ev

IInv ==
    /\ Types
    /\ UploadInv(coms, files, slides, toAdd, choosing, jobs, sent, dropped)
    /\ DeleteInv(coms, list, slides, toDelete, choosing, jobs, asked, events)

-----------------------------------------------------------------------------
(* Facts about the types.                                                  *)

\* More objects and choices leave everything its type.
LEMMA TypesGrow ==
    ASSUME NEW n \in Nat, NEW n2 \in Nat, NEW f \in Nat, NEW f2 \in Nat, n <= n2, f <= f2
    PROVE  /\ SavedOn(n) \subseteq SavedOn(n2) /\ SlideOn(n, f) \subseteq SlideOn(n2, f2)
           /\ Seq(SavedOn(n)) \subseteq Seq(SavedOn(n2)) /\ ObjectOn(f) \subseteq ObjectOn(f2)
           /\ ChoosingOn(n, f) \subseteq ChoosingOn(n2, f2) /\ JobOn(n, f) \subseteq JobOn(n2, f2)
<1>1. SavedOn(n) \subseteq SavedOn(n2)
  BY DEF SavedOn
<1>2. SlideOn(n, f) \subseteq SlideOn(n2, f2)
  <2>1. [what : {"new"}, n : 1..f, icon : BOOLEAN] \subseteq [what : {"new"}, n : 1..f2, icon : BOOLEAN]
    OBVIOUS
  <2> QED
    BY <1>1, <2>1 DEF SlideOn
<1>3. ASSUME NEW s \in Seq(SavedOn(n)) PROVE s \in Seq(SavedOn(n2))
  BY <1>1
<1>4. ObjectOn(f) \subseteq ObjectOn(f2)
  BY DEF ObjectOn
<1>5. ChoosingOn(n, f) \subseteq ChoosingOn(n2, f2)
  BY <1>2 DEF ChoosingOn
<1>6. JobOn(n, f) \subseteq JobOn(n2, f2)
  <2> SUFFICES ASSUME NEW j \in JobOn(n, f) PROVE j \in JobOn(n2, f2)
    OBVIOUS
  <2>1. j.del \in Seq(SavedOn(n2))
    BY <1>3 DEF JobOn
  <2>2. j.add \in SUBSET (1..f2) /\ j.got \in SUBSET (1..n2) /\ j.id \in 0..n2
    BY DEF JobOn
  <2> QED
    BY <2>1, <2>2 DEF JobOn
<1> QED
  BY <1>1, <1>2, <1>3, <1>4, <1>5, <1>6

LEMMA Lengths ==
    ASSUME Types
    PROVE  /\ Len(coms) \in Nat /\ Len(files) \in Nat /\ Len(toDelete) \in Nat
           /\ DOMAIN coms = 1..Len(coms) /\ DOMAIN files = 1..Len(files)
           /\ DOMAIN toDelete = 1..Len(toDelete) /\ Held = HeldIn(coms)
<1>1. /\ Len(coms) \in Nat /\ Len(files) \in Nat /\ Len(toDelete) \in Nat
      /\ DOMAIN coms = 1..Len(coms) /\ DOMAIN files = 1..Len(files)
      /\ DOMAIN toDelete = 1..Len(toDelete)
  BY DEF Types
<1> QED
  BY <1>1 DEF Held, HeldIn

LEMMA InitOK == Init => IInv
<1> SUFFICES ASSUME Init PROVE IInv
  OBVIOUS
<1> DEFINE First == [image : BOOLEAN, from : {0}, here : BOOLEAN, thumb : BOOLEAN]
<1>1. coms \in Seq(First) /\ Len(files) = 0 /\ files = <<>>
  BY AttachmentsAssumption DEF Init
<1>2. \A o \in First : o \in ObjectOn(0) /\ o.from = 0
  BY DEF ObjectOn
<1> HIDE DEF First
<1>3. coms \in Seq(ObjectOn(Len(files)))
  <2>1. Len(coms) \in Nat /\ \A i \in 1..Len(coms) : coms[i] \in ObjectOn(0)
    BY <1>1, <1>2
  <2> QED
    BY <1>1, <2>1
<1>4. Types
  BY <1>1, <1>3, AttachmentsAssumption DEF Init, Types
<1>5. \A i \in 1..Len(coms) : coms[i].from = 0
  BY <1>1, <1>2
<1>6. UploadInv(coms, files, slides, toAdd, choosing, jobs, sent, dropped)
  BY <1>5 DEF Init, UploadInv
<1>7. DeleteInv(coms, list, slides, toDelete, choosing, jobs, asked, events)
  BY DEF Init, DeleteInv, Mentions, Marked
<1> QED
  BY <1>4, <1>6, <1>7 DEF IInv

-----------------------------------------------------------------------------
(* Steps of saves and reloads.                                             *)

\* Objects come and go; none comes back.
Grown(c, c2, f) ==
    /\ c2 \in Seq(ObjectOn(f)) /\ Len(c) <= Len(c2)
    /\ \A i \in 1..Len(c) : c2[i].from = c[i].from /\ (c2[i].here => c[i].here)

\* The list stays, or a new one has everything that was removed and is still there.
Lists(l) ==
    \/ UNCHANGED <<list, slides, card>> /\ l = list
    \/ /\ Show(l) /\ l \subseteq SavedOn(Len(coms'))
       /\ \A i \in HeldIn(coms') : Marked(i, toDelete, choosing) => Mentions(l, i)

Forgets == UNCHANGED Remembers \/ (toAdd' = {} /\ toDelete' = <<>> /\ asked' = {})

\* What every step of a job j that becomes k, or ends, keeps.
LEMMA WorkKeeps ==
    ASSUME IInv, NEW j \in jobs, NEW k, NEW l,
           Grown(coms, coms', Len(files)),
           \A i \in 1..Len(coms') : i > Len(coms) => coms'[i].from \in j.add,
           UNCHANGED <<files, choosing, events, sent, dropped>>,
           jobs' \subseteq (jobs \ {j}) \cup {k},
           k \in JobOn(Len(coms'), Len(files)), Ready(k), k.n = j.n, k.add \subseteq j.add,
           k.at = "icons" => \A i \in HeldIn(coms') : Marked(i, toDelete, choosing) => i \in k.got,
           Lists(l), Forgets
    PROVE  IInv'
<1> USE DEF IInv
<1>1. /\ Len(coms) \in Nat /\ Len(files) \in Nat /\ Len(coms') \in Nat
      /\ Len(coms) <= Len(coms') /\ coms' \in Seq(ObjectOn(Len(files)))
  BY Lengths DEF Grown
<1>2. /\ SavedOn(Len(coms)) \subseteq SavedOn(Len(coms'))
      /\ SlideOn(Len(coms), Len(files)) \subseteq SlideOn(Len(coms'), Len(files))
      /\ Seq(SavedOn(Len(coms))) \subseteq Seq(SavedOn(Len(coms')))
      /\ ChoosingOn(Len(coms), Len(files)) \subseteq ChoosingOn(Len(coms'), Len(files))
      /\ JobOn(Len(coms), Len(files)) \subseteq JobOn(Len(coms'), Len(files))
  BY <1>1, TypesGrow
<1>3. HeldIn(coms') \cap 1..Len(coms) \subseteq HeldIn(coms)
  BY <1>1 DEF HeldIn, Grown
<1>4. /\ list' = l /\ list' \subseteq SavedOn(Len(coms'))
      /\ slides' \in {slides, {}, list'} /\ card' \in {"gone", "display", "edit"}
      /\ card' = "gone" <=> card = "gone"
      /\ card' = "gone" => slides' = {}
      /\ (list' = list /\ slides' = slides) \/ slides' \in {{}, list'}
  BY <1>2 DEF Lists, Show, Types
<1>5. /\ toAdd' \in {toAdd, {}} /\ toDelete' \in {toDelete, <<>>} /\ asked' \in {asked, {}}
      /\ toDelete' = <<>> \/ asked' = asked
  BY DEF Forgets, Remembers
<1>6. Types'
  <2>1. slides' \subseteq SlideOn(Len(coms'), Len(files))
    BY <1>2, <1>4 DEF Types, SlideOn
  <2>2. toDelete' \in Seq(SavedOn(Len(coms')))
    <3>1. toDelete \in Seq(SavedOn(Len(coms'))) /\ <<>> \in Seq(SavedOn(Len(coms')))
      BY <1>2 DEF Types
    <3> QED
      BY <1>5, <3>1
  <2>3. asked' \subseteq 1..Len(coms')
    BY <1>1, <1>5 DEF Types
  <2>4. jobs' \subseteq JobOn(Len(coms'), Len(files)) /\ \A i \in jobs' : Ready(i)
    BY <1>2 DEF Types
  <2>5. choosing' \subseteq ChoosingOn(Len(coms'), Len(files))
    BY <1>2 DEF Types
  <2> QED
    BY <1>1, <1>4, <1>5, <2>1, <2>2, <2>3, <2>4, <2>5 DEF Types
<1>7. UploadInv(coms, files, slides, toAdd, choosing, jobs, sent, dropped)'
  <2>1. \A t \in slides' : t.what = "new" => t \in slides
    <3>1. \A t \in list' : t.what = "saved"
      BY <1>4 DEF SavedOn
    <3> QED
      BY <1>4, <3>1
  <2>2. \A i \in jobs' : i.add \subseteq sent /\ \A c \in i.add : files[c].fits
    BY DEF UploadInv
  <2>3. ASSUME NEW i \in 1..Len(coms'), coms'[i].from # 0
        PROVE  coms'[i].from \in sent /\ files[coms'[i].from].fits
    <3>1. CASE i <= Len(coms)
      BY <1>1, <2>3, <3>1 DEF Grown, UploadInv
    <3>2. CASE i > Len(coms)
      BY <3>2 DEF UploadInv
    <3> QED
      BY <1>1, <3>1, <3>2
  <2> QED
    BY <1>5, <2>1, <2>2, <2>3 DEF UploadInv
<1>8. DeleteInv(coms, list, slides, toDelete, choosing, jobs, asked, events)'
  <2>1. \A i : Marked(i, toDelete', choosing) => Marked(i, toDelete, choosing)
    BY <1>5 DEF Marked
  <2>2. \A i : Marked(i, toDelete, choosing) \/ Mentions(slides, i) => i \in 1..Len(coms)
    <3>1. ASSUME NEW i, NEW S \in SUBSET SlideOn(Len(coms), Len(files)), Mentions(S, i)
          PROVE  i \in 1..Len(coms)
      BY <3>1 DEF Mentions, SlideOn, SavedOn
    <3>2. ASSUME NEW m \in 1..Len(toDelete) PROVE toDelete[m].n \in 1..Len(coms)
      <4>1. toDelete[m] \in SavedOn(Len(coms))
        BY DEF Types
      <4> QED
        BY <4>1 DEF SavedOn
    <3>3. \A s \in choosing : s.base \in SUBSET SlideOn(Len(coms), Len(files))
      BY DEF Types, ChoosingOn
    <3> QED
      BY <3>1, <3>2, <3>3 DEF Marked, Types
  <2>3. ASSUME NEW i \in HeldIn(coms'), Mentions(slides', i) \/ Marked(i, toDelete', choosing)
        PROVE  Mentions(list', i)
    <3>1. CASE UNCHANGED <<list, slides, card>> /\ l = list
      BY <1>3, <2>1, <2>2, <2>3, <3>1 DEF DeleteInv
    <3>2. CASE Show(l) /\ \A m \in HeldIn(coms') : Marked(m, toDelete, choosing) => Mentions(l, m)
      <4>1. slides' = {} \/ slides' = list'
        BY <3>2 DEF Show, Types
      <4>2. ~Mentions({}, i)
        BY DEF Mentions
      <4> QED
        BY <1>4, <2>1, <2>3, <3>2, <4>1, <4>2
    <3> QED
      BY <3>1, <3>2 DEF Lists
  <2>4. ASSUME NEW h \in jobs', h.at = "icons", NEW i \in HeldIn(coms'),
               Marked(i, toDelete', choosing)
        PROVE  i \in h.got
    <3>1. CASE h = k
      BY <2>1, <2>4, <3>1
    <3>2. CASE h \in jobs
      BY <1>3, <2>1, <2>2, <2>4, <3>2 DEF DeleteInv
    <3> QED
      BY <3>1, <3>2
  <2>5. ASSUME NEW m \in 1..Len(toDelete'), toDelete'[m].n \in HeldIn(coms')
        PROVE  toDelete'[m].n \in asked'
    <3>1. toDelete' = toDelete /\ asked' = asked
      BY <1>5, <2>5
    <3>2. toDelete[m].n \in 1..Len(coms)
      BY <2>2, <2>5, <3>1 DEF Marked
    <3> QED
      BY <1>3, <2>5, <3>1, <3>2 DEF DeleteInv
  <2>6. \A h \in jobs' : h.n < events
    BY DEF DeleteInv
  <2> QED
    BY <2>3, <2>4, <2>5, <2>6 DEF DeleteInv
<1> QED
  BY <1>6, <1>7, <1>8

\* The next stage of a job: something to delete is left, or not.
LEMMA StageOK ==
    ASSUME NEW del, NEW add
    PROVE  /\ Stage(del, add) \in {"delete", "put", "list"}
           /\ Stage(del, add) = "delete" => del # <<>>
  BY DEF Stage

AfterDelete(j) == [j EXCEPT !.del = Tail(@), !.at = Stage(Tail(j.del), j.add)]
AfterPut(j, c) == [j EXCEPT !.add = @ \ {c}, !.at = Stage(<<>>, j.add \ {c})]
AfterThumb(j)  == [j EXCEPT !.at = Stage(<<>>, j.add)]

\* A job that goes on after a deletion, an upload or a thumbnail.
LEMMA DeletesNext ==
    ASSUME NEW n \in Nat, NEW f \in Nat, NEW j \in JobOn(n, f), j.del # <<>>
    PROVE  AfterDelete(j) \in JobOn(n, f) /\ Ready(AfterDelete(j)) /\ AfterDelete(j).n = j.n
           /\ AfterDelete(j).add = j.add /\ AfterDelete(j).at # "icons"
<1> DEFINE del == Tail(j.del)
           at == Stage(del, j.add)
<1>1. del \in Seq(SavedOn(n))
  BY DEF JobOn
<1>2. at \in {"delete", "put", "list"} /\ (at = "delete" => del # <<>>)
  BY StageOK
<1>3. AfterDelete(j) = [j EXCEPT !.del = del, !.at = at]
  BY DEF AfterDelete
<1> HIDE DEF del, at
<1> QED
  BY <1>1, <1>2, <1>3 DEF JobOn, Requests, Ready

LEMMA PutsNext ==
    ASSUME NEW n \in Nat, NEW f \in Nat, NEW j \in JobOn(n, f), NEW c
    PROVE  /\ AfterPut(j, c) \in JobOn(n, f) /\ Ready(AfterPut(j, c))
           /\ AfterPut(j, c).n = j.n /\ AfterPut(j, c).add \subseteq j.add
           /\ AfterPut(j, c).at # "icons"
<1> DEFINE add == j.add \ {c}
           at == Stage(<<>>, add)
<1>1. add \in SUBSET (1..f) /\ add \subseteq j.add
  BY DEF JobOn
<1>2. at \in {"put", "list"}
  BY DEF Stage
<1>3. AfterPut(j, c) = [j EXCEPT !.add = add, !.at = at]
  BY DEF AfterPut
<1> HIDE DEF add, at
<1> QED
  BY <1>1, <1>2, <1>3 DEF JobOn, Requests, Ready

LEMMA ThumbsNext ==
    ASSUME NEW n \in Nat, NEW f \in Nat, NEW j \in JobOn(n, f)
    PROVE  AfterThumb(j) \in JobOn(n, f) /\ Ready(AfterThumb(j)) /\ AfterThumb(j).n = j.n
           /\ AfterThumb(j).add = j.add /\ AfterThumb(j).at # "icons"
<1> DEFINE at == Stage(<<>>, j.add)
<1>1. at \in {"put", "list"}
  BY DEF Stage
<1>2. AfterThumb(j) = [j EXCEPT !.at = at]
  BY DEF AfterThumb
<1> HIDE DEF at
<1> QED
  BY <1>1, <1>2 DEF JobOn, Requests, Ready

LEMMA SavedOK ==
    ASSUME NEW n \in Nat, NEW i \in 1..n, NEW icon \in BOOLEAN
    PROVE  Saved(i, icon) \in SavedOn(n) /\ Saved(i, icon).what = "saved" /\ Saved(i, icon).n = i
  BY DEF Saved, SavedOn

\* The objects after a deletion, an upload, a thumbnail, or none of them.
LEMMA ObjectsGrow ==
    ASSUME Types
    PROVE  /\ Grown(coms, coms, Len(files))
           /\ \A i \in 1..Len(coms) :
                 /\ Len([coms EXCEPT ![i].here = FALSE]) = Len(coms)
                 /\ Grown(coms, [coms EXCEPT ![i].here = FALSE], Len(files))
                 /\ ~[coms EXCEPT ![i].here = FALSE][i].here
                 /\ Len([coms EXCEPT ![i].here = FALSE, ![i].thumb = FALSE]) = Len(coms)
                 /\ Grown(coms, [coms EXCEPT ![i].here = FALSE, ![i].thumb = FALSE], Len(files))
                 /\ \A b \in BOOLEAN :
                       /\ Len([coms EXCEPT ![i].thumb = b]) = Len(coms)
                       /\ Grown(coms, [coms EXCEPT ![i].thumb = b], Len(files))
           /\ \A c \in 1..Len(files), image \in BOOLEAN :
                 LET d == Append(coms, Object(image, c))
                 IN  /\ Grown(coms, d, Len(files)) /\ Len(d) = Len(coms) + 1
                     /\ d[Len(d)].from = c
<1>1. coms \in Seq(ObjectOn(Len(files))) /\ Len(coms) \in Nat /\ Len(files) \in Nat
  BY Lengths DEF Types
<1>2. Grown(coms, coms, Len(files))
  BY <1>1 DEF Grown
<1>3. ASSUME NEW i \in 1..Len(coms), NEW o \in ObjectOn(Len(files)), o.from = coms[i].from,
             o.here => coms[i].here
      PROVE  Len([coms EXCEPT ![i] = o]) = Len(coms) /\ Grown(coms, [coms EXCEPT ![i] = o], Len(files))
             /\ [coms EXCEPT ![i] = o][i] = o
  <2>1. [coms EXCEPT ![i] = o] \in Seq(ObjectOn(Len(files)))
        /\ Len([coms EXCEPT ![i] = o]) = Len(coms)
    BY <1>1
  <2>2. \A k \in 1..Len(coms) : [coms EXCEPT ![i] = o][k] = IF k = i THEN o ELSE coms[k]
    BY <1>1
  <2> QED
    BY <1>1, <1>3, <2>1, <2>2 DEF Grown
<1>4. ASSUME NEW i \in 1..Len(coms), NEW b \in BOOLEAN
      PROVE  /\ [coms[i] EXCEPT !.here = FALSE] \in ObjectOn(Len(files))
             /\ [coms[i] EXCEPT !.here = FALSE].from = coms[i].from
             /\ ~[coms[i] EXCEPT !.here = FALSE].here
             /\ [coms[i] EXCEPT !.here = FALSE, !.thumb = FALSE] \in ObjectOn(Len(files))
             /\ [coms[i] EXCEPT !.here = FALSE, !.thumb = FALSE].from = coms[i].from
             /\ ~[coms[i] EXCEPT !.here = FALSE, !.thumb = FALSE].here
             /\ [coms[i] EXCEPT !.thumb = b] \in ObjectOn(Len(files))
             /\ [coms[i] EXCEPT !.thumb = b].from = coms[i].from
             /\ [coms[i] EXCEPT !.thumb = b].here = coms[i].here
  <2>1. coms[i] \in ObjectOn(Len(files))
    BY <1>1
  <2> QED
    BY <2>1 DEF ObjectOn
<1>5. ASSUME NEW i \in 1..Len(coms)
      PROVE  /\ Len([coms EXCEPT ![i].here = FALSE]) = Len(coms)
             /\ Grown(coms, [coms EXCEPT ![i].here = FALSE], Len(files))
             /\ ~[coms EXCEPT ![i].here = FALSE][i].here
  <2> DEFINE o == [coms[i] EXCEPT !.here = FALSE]
  <2>1. o \in ObjectOn(Len(files)) /\ o.from = coms[i].from /\ ~o.here
    BY <1>4
  <2>2. [coms EXCEPT ![i].here = FALSE] = [coms EXCEPT ![i] = o]
    BY <1>1
  <2> HIDE DEF o
  <2> QED
    BY <1>3, <2>1, <2>2
<1>6. ASSUME NEW i \in 1..Len(coms)
      PROVE  /\ Len([coms EXCEPT ![i].here = FALSE, ![i].thumb = FALSE]) = Len(coms)
             /\ Grown(coms, [coms EXCEPT ![i].here = FALSE, ![i].thumb = FALSE], Len(files))
  <2> DEFINE o == [coms[i] EXCEPT !.here = FALSE, !.thumb = FALSE]
  <2>1. o \in ObjectOn(Len(files)) /\ o.from = coms[i].from /\ ~o.here
    BY <1>4
  <2>2. [coms EXCEPT ![i].here = FALSE, ![i].thumb = FALSE] = [coms EXCEPT ![i] = o]
    BY <1>1
  <2> HIDE DEF o
  <2> QED
    BY <1>3, <2>1, <2>2
<1>7. ASSUME NEW i \in 1..Len(coms), NEW b \in BOOLEAN
      PROVE  /\ Len([coms EXCEPT ![i].thumb = b]) = Len(coms)
             /\ Grown(coms, [coms EXCEPT ![i].thumb = b], Len(files))
  <2> DEFINE o == [coms[i] EXCEPT !.thumb = b]
  <2>1. o \in ObjectOn(Len(files)) /\ o.from = coms[i].from /\ (o.here => coms[i].here)
    BY <1>4
  <2>2. [coms EXCEPT ![i].thumb = b] = [coms EXCEPT ![i] = o]
    BY <1>1
  <2> HIDE DEF o
  <2> QED
    BY <1>3, <2>1, <2>2
<1>8. ASSUME NEW c \in 1..Len(files), NEW image \in BOOLEAN
      PROVE  LET d == Append(coms, Object(image, c))
             IN  /\ Grown(coms, d, Len(files)) /\ Len(d) = Len(coms) + 1
                 /\ d[Len(d)].from = c
  <2> DEFINE o == Object(image, c)
             d == Append(coms, o)
  <2>1. o \in ObjectOn(Len(files)) /\ o.from = c
    BY <1>1 DEF Object, ObjectOn
  <2> HIDE DEF o
  <2>2. /\ d \in Seq(ObjectOn(Len(files))) /\ Len(d) = Len(coms) + 1 /\ d[Len(coms) + 1] = o
        /\ \A k \in 1..Len(coms) : d[k] = coms[k]
    BY <1>1, <2>1
  <2>3. Grown(coms, d, Len(files)) /\ Len(d) = Len(coms) + 1 /\ d[Len(d)].from = c
    BY <1>1, <2>1, <2>2 DEF Grown
  <2> QED
    BY <2>3 DEF o
<1> QED
  BY <1>2, <1>5, <1>6, <1>7, <1>8

LEMMA JobFacts ==
    ASSUME IInv, NEW j \in jobs
    PROVE  /\ Types /\ Len(coms) \in Nat /\ Len(files) \in Nat
           /\ j \in JobOn(Len(coms), Len(files)) /\ Ready(j) /\ j.n < events
           /\ j.add \in SUBSET (1..Len(files)) /\ j.del \in Seq(SavedOn(Len(coms)))
           /\ j.got \in SUBSET (1..Len(coms)) /\ j.id \in 0..Len(coms)
           /\ j.del # <<>> => Head(j.del).n \in 1..Len(coms) /\ Head(j.del).icon \in BOOLEAN
<1>1. /\ Types /\ Len(coms) \in Nat /\ Len(files) \in Nat
      /\ j \in JobOn(Len(coms), Len(files)) /\ Ready(j) /\ j.n < events
  BY Lengths DEF IInv, Types, DeleteInv
<1>2. /\ j.add \in SUBSET (1..Len(files)) /\ j.del \in Seq(SavedOn(Len(coms)))
      /\ j.got \in SUBSET (1..Len(coms)) /\ j.id \in 0..Len(coms)
  BY <1>1 DEF JobOn
<1>3. j.del # <<>> => Head(j.del) \in SavedOn(Len(coms))
  BY <1>2
<1> QED
  BY <1>1, <1>2, <1>3 DEF SavedOn

\* An officer's or a page's removals are known to the list, whatever COMS lost meanwhile.
LEMMA MarkedAreListed ==
    ASSUME IInv, NEW i \in HeldIn(coms), Marked(i, toDelete, choosing)
    PROVE  Mentions(list, i)
  BY DEF IInv, DeleteInv

LEMMA DeleteOK == ASSUME IInv, NEW j \in jobs, Delete(j) PROVE IInv'
<1> DEFINE i == Head(j.del).n
           k == AfterDelete(j)
           h == [j EXCEPT !.at = "deleteThumb"]
           gone == [coms EXCEPT ![i].here = FALSE]
           l == {s \in list : s.n # i}
<1>1. /\ Types /\ Len(coms) \in Nat /\ Len(files) \in Nat
      /\ j \in JobOn(Len(coms), Len(files)) /\ j.del # <<>> /\ i \in 1..Len(coms)
  BY JobFacts DEF Delete, Ready
<1>2. k \in JobOn(Len(coms), Len(files)) /\ Ready(k) /\ k.n = j.n /\ k.add = j.add /\ k.at # "icons"
  BY <1>1, DeletesNext
<1>3. h \in JobOn(Len(coms), Len(files)) /\ Ready(h) /\ h.n = j.n /\ h.add = j.add /\ h.at # "icons"
  BY <1>1 DEF JobOn, Requests, Ready
<1>4. Grown(coms, coms, Len(files)) /\ Grown(coms, gone, Len(files)) /\ Len(gone) = Len(coms)
      /\ ~gone[i].here
  BY <1>1, ObjectsGrow
<1>5. /\ UNCHANGED <<files, choosing, events, sent, dropped>>
      /\ Forgets
      /\ coms' \in {coms, gone}
      /\ \/ UNCHANGED <<list, slides, card>> /\ jobs' = (jobs \ {j}) \cup {k}
         \/ /\ Show(l) /\ coms' = gone
            /\ jobs' = (jobs \ {j}) \cup {k} \/ jobs' = (jobs \ {j}) \cup {h}
  <2>1. UNCHANGED <<files, choosing, events, sent, dropped>> /\ Forgets
    BY DEF Delete, history, Forgets, Remembers
  <2> QED
    BY <2>1 DEF Delete, NextDelete, Moves, AfterDelete
<1> HIDE DEF k, h, l, gone
<1>6. Len(coms') = Len(coms) /\ Grown(coms, coms', Len(files))
      /\ \A m \in 1..Len(coms') : m > Len(coms) => coms'[m].from \in j.add
  BY <1>1, <1>4, <1>5
<1>7. CASE UNCHANGED <<list, slides, card>> /\ jobs' = (jobs \ {j}) \cup {k}
  <2>1. Lists(list)
    BY <1>7 DEF Lists
  <2> QED
    BY <1>2, <1>5, <1>6, <1>7, <2>1, WorkKeeps
<1>8. CASE /\ Show(l) /\ coms' = gone
           /\ jobs' = (jobs \ {j}) \cup {k} \/ jobs' = (jobs \ {j}) \cup {h}
  <2>1. l \subseteq SavedOn(Len(coms'))
    BY <1>1, <1>6 DEF Types, l
  <2>2. ASSUME NEW m \in HeldIn(coms'), Marked(m, toDelete, choosing) PROVE Mentions(l, m)
    <3>1. m \in HeldIn(coms) /\ m # i
      BY <1>1, <1>4, <1>6, <1>8 DEF HeldIn, Grown
    <3>2. Mentions(list, m)
      BY <2>2, <3>1, MarkedAreListed
    <3> QED
      BY <3>1, <3>2 DEF Mentions, l
  <2>3. Lists(l)
    BY <1>8, <2>1, <2>2 DEF Lists
  <2> QED
    BY <1>2, <1>3, <1>5, <1>6, <1>8, <2>3, WorkKeeps
<1> QED
  BY <1>5, <1>7, <1>8

LEMMA ThumbsOK == ASSUME IInv, NEW j \in jobs, DeleteThumb(j) \/ MakeThumb(j) \/ PutThumb(j) PROVE IInv'
<1> DEFINE k == AfterDelete(j)
           h == AfterThumb(j)
           p == [j EXCEPT !.at = "putThumb"]
<1>1. /\ Types /\ Len(coms) \in Nat /\ Len(files) \in Nat
      /\ j \in JobOn(Len(coms), Len(files)) /\ Ready(j)
  BY JobFacts
<1>2. CASE DeleteThumb(j)
  <2>1. j.del # <<>> /\ Head(j.del).n \in 1..Len(coms)
    BY <1>1, <1>2, JobFacts DEF DeleteThumb, Ready
  <2>2. k \in JobOn(Len(coms), Len(files)) /\ Ready(k) /\ k.n = j.n /\ k.add = j.add /\ k.at # "icons"
    BY <1>1, <2>1, DeletesNext
  <2>3. Grown(coms, coms', Len(files)) /\ Len(coms') = Len(coms)
    <3>1. coms' \in {coms, [coms EXCEPT ![Head(j.del).n].thumb = FALSE]}
      BY <1>2 DEF DeleteThumb
    <3> QED
      BY <1>1, <2>1, <3>1, ObjectsGrow
  <2>4. jobs' = (jobs \ {j}) \cup {k} /\ UNCHANGED <<files, choosing, events, sent, dropped>>
        /\ Forgets /\ Lists(list)
    BY <1>2 DEF DeleteThumb, NextDelete, AfterDelete, Moves, history, Forgets, Remembers, Lists
  <2> HIDE DEF k
  <2> QED
    BY <1>1, <2>2, <2>3, <2>4, WorkKeeps
<1>3. CASE MakeThumb(j) \/ PutThumb(j)
  <2>1. h \in JobOn(Len(coms), Len(files)) /\ Ready(h) /\ h.n = j.n /\ h.add = j.add /\ h.at # "icons"
    BY <1>1, ThumbsNext
  <2>2. MakeThumb(j) => p \in JobOn(Len(coms), Len(files)) /\ Ready(p) /\ p.n = j.n /\ p.add = j.add
                        /\ p.at # "icons"
    BY <1>1 DEF MakeThumb, JobOn, Requests, Ready
  <2>3. Grown(coms, coms', Len(files)) /\ Len(coms') = Len(coms)
    <3>1. coms' = coms \/ (coms' = [coms EXCEPT ![j.id].thumb = TRUE] /\ j.at = "putThumb")
      BY <1>3 DEF MakeThumb, PutThumb
    <3>2. j.at = "putThumb" => j.id \in 1..Len(coms)
      BY <1>1, JobFacts DEF Ready
    <3> QED
      BY <1>1, <3>1, <3>2, ObjectsGrow
  <2>4. /\ UNCHANGED <<files, choosing, events, sent, dropped>> /\ Forgets /\ Lists(list)
        /\ jobs' = (jobs \ {j}) \cup {h} \/ (jobs' = (jobs \ {j}) \cup {p} /\ MakeThumb(j))
    BY <1>3 DEF MakeThumb, PutThumb, NextAfterThumb, AfterThumb, Moves, history, Forgets, Remembers, Lists
  <2> HIDE DEF h, p
  <2> QED
    BY <1>1, <2>1, <2>2, <2>3, <2>4, WorkKeeps
<1> QED
  BY <1>2, <1>3

LEMMA PutOK == ASSUME IInv, NEW j \in jobs, NEW c \in j.add, Put(j, c) PROVE IInv'
<1> DEFINE image == (files[c].name \in Images)
           d == Append(coms, Object(image, c))
           k == AfterPut(j, c)
           h == [j EXCEPT !.add = @ \ {c}, !.at = "makeThumb", !.id = Len(coms) + 1]
           e == Saved(Len(coms) + 1, FALSE)
           l == list \cup {e}
<1>1. /\ Types /\ Len(coms) \in Nat /\ Len(files) \in Nat /\ c \in 1..Len(files)
      /\ j \in JobOn(Len(coms), Len(files)) /\ Ready(j) /\ image \in BOOLEAN
  BY JobFacts
<1>2. k \in JobOn(Len(coms), Len(files)) /\ Ready(k) /\ k.n = j.n /\ k.add \subseteq j.add
      /\ k.at # "icons"
  BY <1>1, PutsNext
<1>3. JobOn(Len(coms), Len(files)) \subseteq JobOn(Len(coms) + 1, Len(files))
      /\ SavedOn(Len(coms)) \subseteq SavedOn(Len(coms) + 1)
  BY <1>1, TypesGrow
<1>4. h \in JobOn(Len(coms) + 1, Len(files)) /\ Ready(h) /\ h.n = j.n /\ h.add \subseteq j.add
      /\ h.at # "icons"
  <2>1. j \in JobOn(Len(coms) + 1, Len(files)) /\ Len(coms) + 1 \in 0..(Len(coms) + 1) /\ Len(coms) + 1 # 0
    BY <1>1, <1>3
  <2> QED
    BY <2>1 DEF JobOn, Requests, Ready
<1>5. Grown(coms, coms, Len(files)) /\ Grown(coms, d, Len(files)) /\ Len(d) = Len(coms) + 1
      /\ d[Len(d)].from = c
  <2> HIDE DEF image
  <2> QED
    BY <1>1, ObjectsGrow
<1>6. /\ UNCHANGED <<files, choosing, events, sent, dropped>> /\ Forgets
      /\ coms' \in {coms, d}
      /\ \/ UNCHANGED <<list, slides, card>> /\ jobs' = (jobs \ {j}) \cup {k}
         \/ /\ Show(l) /\ coms' = d
            /\ jobs' = (jobs \ {j}) \cup {k} \/ jobs' = (jobs \ {j}) \cup {h}
  <2>1. UNCHANGED <<files, choosing, events, sent, dropped>> /\ Forgets
    BY DEF Put, history, Forgets, Remembers
  <2> QED
    BY <2>1 DEF Put, NextPut, AfterPut, Moves
<1> HIDE DEF k, h, l, d, e
<1>10. e \in SavedOn(Len(coms) + 1) /\ e.what = "saved" /\ e.n = Len(coms) + 1
  <2> DEFINE b == FALSE
  <2>1. b \in BOOLEAN /\ e = Saved(Len(coms) + 1, b) /\ Len(coms) + 1 \in 1..(Len(coms) + 1)
    BY <1>1 DEF e
  <2> HIDE DEF b
  <2> QED
    BY <1>1, <2>1, SavedOK
<1>7. /\ Grown(coms, coms', Len(files))
      /\ \A m \in 1..Len(coms') : m > Len(coms) => coms'[m].from \in j.add
      /\ k \in JobOn(Len(coms'), Len(files))
      /\ coms' = d => h \in JobOn(Len(coms'), Len(files))
  BY <1>1, <1>2, <1>3, <1>4, <1>5, <1>6
<1>8. CASE UNCHANGED <<list, slides, card>> /\ jobs' = (jobs \ {j}) \cup {k}
  <2>1. Lists(list)
    BY <1>8 DEF Lists
  <2> QED
    BY <1>2, <1>6, <1>7, <1>8, <2>1, WorkKeeps
<1>9. CASE /\ Show(l) /\ coms' = d
           /\ jobs' = (jobs \ {j}) \cup {k} \/ jobs' = (jobs \ {j}) \cup {h}
  <2>1. l \subseteq SavedOn(Len(coms'))
    BY <1>1, <1>3, <1>5, <1>9, <1>10 DEF Types, l
  <2>2. ASSUME NEW m \in HeldIn(coms'), Marked(m, toDelete, choosing) PROVE Mentions(l, m)
    <3>1. CASE m = Len(coms) + 1
      BY <1>10, <3>1 DEF Mentions, l
    <3>2. CASE m # Len(coms) + 1
      <4>1. m \in HeldIn(coms)
        BY <1>1, <1>5, <1>9, <3>2 DEF HeldIn, Grown
      <4> QED
        BY <2>2, <4>1, MarkedAreListed DEF Mentions, l
    <3> QED
      BY <3>1, <3>2
  <2>3. Lists(l)
    BY <1>9, <2>1, <2>2 DEF Lists
  <2> QED
    BY <1>2, <1>4, <1>6, <1>7, <1>9, <2>3, WorkKeeps
<1> QED
  BY <1>6, <1>8, <1>9

LEMMA ReadListOK == ASSUME IInv, NEW j \in jobs, ReadList(j) PROVE IInv'
<1> DEFINE l == {Saved(i, FALSE) : i \in Held}
           k == [j EXCEPT !.at = "icons", !.got = Held]
<1>1. /\ Types /\ Len(coms) \in Nat /\ Len(files) \in Nat /\ Held = HeldIn(coms)
      /\ j \in JobOn(Len(coms), Len(files)) /\ Ready(j) /\ Held \in SUBSET (1..Len(coms))
  BY JobFacts, Lengths DEF HeldIn
<1>2. Grown(coms, coms, Len(files))
  BY <1>1, ObjectsGrow
<1>3. l \subseteq SavedOn(Len(coms)) /\ \A i \in Held : Mentions(l, i)
  <2> DEFINE b == FALSE
  <2>1. b \in BOOLEAN /\ l = {Saved(i, b) : i \in Held}
    OBVIOUS
  <2> HIDE DEF b, l
  <2>2. ASSUME NEW i \in Held
        PROVE  Saved(i, b) \in SavedOn(Len(coms)) /\ Saved(i, b).what = "saved" /\ Saved(i, b).n = i
    BY <1>1, <2>1, SavedOK
  <2> QED
    BY <2>1, <2>2 DEF Mentions
<1>4. k \in JobOn(Len(coms), Len(files)) /\ Ready(k) /\ k.n = j.n /\ k.add = j.add /\ k.got = Held
  BY <1>1 DEF JobOn, Requests, Ready
<1>5. j.at = "list" /\ UNCHANGED <<coms, files, choosing, events, sent, dropped>>
  BY DEF ReadList
<1>6. \/ /\ UNCHANGED <<list, slides, card>> \/ Show(l)
         /\ jobs' = jobs \ {j} /\ Forgets
      \/ /\ jobs' = (jobs \ {j}) \cup {k}
         /\ UNCHANGED <<list, slides, card, Remembers>>
  BY DEF ReadList, Ends, Forgets, Moves
<1> HIDE DEF l, k
<1>7. CASE jobs' = jobs \ {j} /\ Forgets /\ (UNCHANGED <<list, slides, card>> \/ Show(l))
  <2>1. PICK v \in {list, l} : Lists(v)
    <3>1. UNCHANGED <<list, slides, card>> => Lists(list)
      BY DEF Lists
    <3>2. Show(l) => Lists(l)
      BY <1>1, <1>3, <1>5 DEF Lists
    <3> QED
      BY <1>7, <3>1, <3>2
  <2> QED
    BY <1>1, <1>2, <1>5, <1>7, <2>1, WorkKeeps
<1>8. CASE jobs' = (jobs \ {j}) \cup {k} /\ UNCHANGED <<list, slides, card, Remembers>>
  <2>1. Lists(list) /\ Forgets
    BY <1>8 DEF Lists, Forgets
  <2> QED
    BY <1>1, <1>2, <1>4, <1>5, <1>8, <2>1, WorkKeeps
<1> QED
  BY <1>6, <1>7, <1>8

LEMMA ReadIconsOK == ASSUME IInv, NEW j \in jobs, ReadIcons(j) PROVE IInv'
<1> DEFINE l == {Saved(i, coms[i].thumb) : i \in j.got}
<1>1. /\ Types /\ Len(coms) \in Nat /\ Len(files) \in Nat
      /\ j \in JobOn(Len(coms), Len(files)) /\ Ready(j) /\ j.got \in SUBSET (1..Len(coms))
      /\ \A i \in 1..Len(coms) : coms[i].thumb \in BOOLEAN
  <2>1. Types
    BY JobFacts
  <2>2. \A i \in 1..Len(coms) : coms[i] \in ObjectOn(Len(files))
    BY <2>1 DEF Types
  <2>3. \A i \in 1..Len(coms) : coms[i].thumb \in BOOLEAN
    BY <2>2 DEF ObjectOn
  <2> QED
    BY <2>1, <2>3, JobFacts
<1>2. Grown(coms, coms, Len(files))
  BY <1>1, ObjectsGrow
<1>3. l \subseteq SavedOn(Len(coms)) /\ \A i \in j.got : Mentions(l, i)
  <2>1. ASSUME NEW i \in j.got
        PROVE  /\ Saved(i, coms[i].thumb) \in SavedOn(Len(coms))
               /\ Saved(i, coms[i].thumb).what = "saved" /\ Saved(i, coms[i].thumb).n = i
    BY <1>1, SavedOK
  <2> QED
    BY <2>1 DEF Mentions
<1>4. j.at = "icons" /\ UNCHANGED <<coms, files, choosing, events, sent, dropped>>
      /\ jobs' = jobs \ {j} /\ Forgets /\ (UNCHANGED <<list, slides, card>> \/ Show(l))
  BY DEF ReadIcons, Ends, Forgets
<1>5. \A i \in HeldIn(coms) : Marked(i, toDelete, choosing) => i \in j.got
  BY <1>4 DEF IInv, DeleteInv
<1> HIDE DEF l
<1>6. PICK v \in {list, l} : Lists(v)
  <2>1. UNCHANGED <<list, slides, card>> => Lists(list)
    BY DEF Lists
  <2>2. Show(l) => Lists(l)
    BY <1>1, <1>3, <1>4, <1>5 DEF Lists
  <2> QED
    BY <1>4, <2>1, <2>2
<1> QED
  BY <1>1, <1>2, <1>4, <1>5, <1>6, WorkKeeps

LEMMA WorkOK == ASSUME IInv, NEW j \in jobs, Work(j) PROVE IInv'
  BY DeleteOK, ThumbsOK, PutOK, ReadListOK, ReadIconsOK DEF Work

-----------------------------------------------------------------------------
(* Steps of the officer and of other pages.                                *)

LEMMA Quiet ==
    ASSUME IInv, Clicks
    PROVE  /\ Types /\ Len(coms) \in Nat /\ Len(files) \in Nat
           /\ events \in Nat /\ events' \in 0..MaxEvents /\ events' = events + 1
           /\ \A j \in jobs : j.at # "icons" /\ j.n < events /\ j.n < events'
           /\ jobs \subseteq JobOn(Len(coms), Len(files)) /\ \A j \in jobs : Ready(j)
<1>1. Types /\ Len(coms) \in Nat /\ Len(files) \in Nat
  BY Lengths DEF IInv
<1>2. events \in Nat /\ events' \in 0..MaxEvents /\ events' = events + 1
  BY <1>1, AttachmentsAssumption DEF Types, Clicks, Acts
<1>3. \A j \in jobs : j.at # "icons" /\ j.n < events
  BY DEF Clicks, Loading, Requests, IInv, DeleteInv
<1>4. \A j \in jobs : j.n \in Nat
  BY <1>1 DEF Types, JobOn
<1> QED
  BY <1>1, <1>2, <1>3, <1>4 DEF Types

\* A new job, of a save or a reload.
LEMMA JobOK ==
    ASSUME NEW n \in Nat, NEW f \in Nat, NEW del \in Seq(SavedOn(n)), NEW add \in SUBSET (1..f),
           NEW resets \in BOOLEAN, events \in Nat
    PROVE  /\ Job(del, add, resets) \in JobOn(n, f) /\ Ready(Job(del, add, resets))
           /\ Job(del, add, resets).n = events /\ Job(del, add, resets).at # "icons"
           /\ Job(del, add, resets).add = add /\ Job(del, add, resets).del = del
<1> DEFINE at == Stage(del, add)
           none == {}
           j == [n |-> events, at |-> at, del |-> del, add |-> add, resets |-> resets,
                 id |-> 0, got |-> none]
<1>1. at \in {"delete", "put", "list"} /\ (at = "delete" => del # <<>>)
  BY StageOK
<1>2. none \in SUBSET (1..n) /\ 0 \in 0..n
  OBVIOUS
<1>3. Job(del, add, resets) = j
  BY DEF Job
<1>4. j \in JobOn(n, f) /\ Ready(j) /\ j.n = events /\ j.at # "icons" /\ j.add = add /\ j.del = del
  <2> HIDE DEF at, none
  <2> QED
    BY <1>1, <1>2 DEF JobOn, Requests, Ready
<1> QED
  BY <1>3, <1>4

LEMMA ReloadOK ==
    ASSUME NEW n \in Nat, NEW f \in Nat, events \in Nat
    PROVE  /\ Job(<<>>, {}, FALSE) \in JobOn(n, f) /\ Ready(Job(<<>>, {}, FALSE))
           /\ Job(<<>>, {}, FALSE).n = events /\ Job(<<>>, {}, FALSE).at # "icons"
           /\ Job(<<>>, {}, FALSE).add = {} /\ Job(<<>>, {}, FALSE).del = <<>>
<1> DEFINE del == <<>>
           add == {}
           resets == FALSE
<1>1. del \in Seq(SavedOn(n)) /\ add \in SUBSET (1..f) /\ resets \in BOOLEAN
  OBVIOUS
<1> DEFINE at == "list"
           j == [n |-> events, at |-> at, del |-> del, add |-> add, resets |-> resets,
                 id |-> 0, got |-> add]
<1>2. Job(<<>>, {}, FALSE) = j
  BY DEF Job, Stage
<1>3. add \in SUBSET (1..n) /\ 0 \in 0..n
  OBVIOUS
<1>4. j \in JobOn(n, f) /\ Ready(j) /\ j.n = events /\ j.at # "icons" /\ j.add = add /\ j.del = del
  <2> HIDE DEF del, add, resets
  <2> QED
    BY <1>1, <1>3 DEF JobOn, Requests, Ready
<1> QED
  BY <1>2, <1>4

LEMMA OpenOK == ASSUME IInv, Open PROVE IInv'
<1> DEFINE k == Job(<<>>, {}, FALSE)
<1>1. /\ Types /\ Len(coms) \in Nat /\ Len(files) \in Nat
      /\ events \in Nat /\ events' \in 0..MaxEvents /\ events' = events + 1
      /\ \A j \in jobs : j.at # "icons" /\ j.n < events'
  BY Quiet DEF Open
<1>2. /\ k \in JobOn(Len(coms), Len(files)) /\ Ready(k) /\ k.n = events /\ k.at # "icons"
      /\ k.add = {}
  BY <1>1, ReloadOK
<1>3. /\ jobs' = jobs \cup {k} /\ slides' = list /\ card' \in {"edit", "display"}
      /\ UNCHANGED <<coms, files, list, toAdd, toDelete, asked, choosing, sent, dropped>>
      /\ choosing = {} /\ toDelete = <<>>
  BY <1>1 DEF Open, Remembers, Types
<1> HIDE DEF k
<1>4. Types'
  BY <1>1, <1>2, <1>3 DEF Types, SlideOn
<1>5. UploadInv(coms, files, slides, toAdd, choosing, jobs, sent, dropped)'
  BY <1>2, <1>3 DEF IInv, UploadInv
<1>6. DeleteInv(coms, list, slides, toDelete, choosing, jobs, asked, events)'
  <2>1. \A j \in jobs' : j.at # "icons" /\ j.n < events'
    <3>1. k.n < events'
      BY <1>1, <1>2
    <3>2. ASSUME NEW h \in jobs' PROVE h = k \/ h \in jobs
      BY <1>3
    <3>3. ASSUME NEW h \in jobs' PROVE h.at # "icons" /\ h.n < events'
      BY <1>1, <1>2, <3>1, <3>2
    <3> QED
      BY <3>3
  <2>2. \A i : ~Marked(i, toDelete', choosing')
    BY <1>3 DEF Marked
  <2> QED
    BY <1>3, <2>1, <2>2 DEF DeleteInv
<1> QED
  BY <1>4, <1>5, <1>6 DEF IInv

LEMMA LeaveOK == ASSUME IInv, Leave PROVE IInv'
<1>1. /\ Types /\ Len(coms) \in Nat /\ Len(files) \in Nat
      /\ events \in Nat /\ events' \in 0..MaxEvents /\ events' = events + 1
      /\ \A j \in jobs : j.at # "icons" /\ j.n < events
  BY Quiet DEF Leave
<1> DEFINE off == FALSE
<1>2. /\ card' = "gone" /\ list' = {} /\ slides' = {} /\ choosing' = {}
      /\ toAdd' = {} /\ toDelete' = <<>> /\ asked' = {}
      /\ jobs' = {[j EXCEPT !.resets = off] : j \in jobs}
      /\ UNCHANGED <<coms, files, sent, dropped>>
  BY DEF Leave
<1>3. off \in BOOLEAN
  OBVIOUS
<1> HIDE DEF off
<1>4. ASSUME NEW h \in jobs'
      PROVE  /\ h \in JobOn(Len(coms), Len(files)) /\ Ready(h) /\ h.n < events /\ h.at # "icons"
             /\ h.add \subseteq sent /\ \A c \in h.add : files[c].fits
  <2>1. PICK j \in jobs : h = [j EXCEPT !.resets = off]
    BY <1>2
  <2>2. j \in JobOn(Len(coms), Len(files)) /\ Ready(j)
    BY <1>1 DEF Types
  <2>3. h \in JobOn(Len(coms), Len(files))
    BY <1>3, <2>1, <2>2 DEF JobOn
  <2>4. h.n = j.n /\ h.at = j.at /\ h.del = j.del /\ h.id = j.id /\ h.add = j.add
    BY <2>1, <2>2 DEF JobOn
  <2> QED
    BY <1>1, <2>2, <2>3, <2>4 DEF Ready, IInv, UploadInv
<1>5. Types'
  <2>1. toDelete' \in Seq(SavedOn(Len(coms')))
    BY <1>2
  <2> QED
    BY <1>1, <1>2, <1>4, <2>1 DEF Types
<1>6. UploadInv(coms, files, slides, toAdd, choosing, jobs, sent, dropped)'
  BY <1>2, <1>4 DEF IInv, UploadInv
<1>7. DeleteInv(coms, list, slides, toDelete, choosing, jobs, asked, events)'
  <2>1. \A j \in jobs' : j.n < events' /\ j.at # "icons"
    <3>1. ASSUME NEW j \in jobs' PROVE j.n < events' /\ j.at # "icons"
      <4>1. j.n \in Nat /\ j.n < events /\ j.at # "icons"
        BY <1>4 DEF JobOn
      <4> QED
        BY <1>1, <4>1
    <3> QED
      BY <3>1
  <2>2. \A i : ~Mentions({}, i) /\ ~Marked(i, <<>>, {})
    BY DEF Mentions, Marked
  <2> QED
    BY <1>2, <2>1, <2>2 DEF DeleteInv
<1> QED
  BY <1>5, <1>6, <1>7 DEF IInv

LEMMA EditOK == ASSUME IInv, Edit PROVE IInv'
<1>1. /\ Types /\ Len(coms) \in Nat /\ Len(files) \in Nat
      /\ events \in Nat /\ events' \in 0..MaxEvents /\ events' = events + 1
      /\ \A j \in jobs : j.at # "icons" /\ j.n < events
      /\ jobs \subseteq JobOn(Len(coms), Len(files))
  BY Quiet DEF Edit
<1>2. card' = "edit"
      /\ UNCHANGED <<coms, files, list, slides, toAdd, toDelete, asked, choosing, jobs, sent, dropped>>
  BY DEF Edit, Remembers
<1>3. Types'
  BY <1>1, <1>2 DEF Types
<1>4. \A j \in jobs' : j.n < events'
  BY <1>1, <1>2 DEF JobOn
<1> QED
  BY <1>2, <1>3, <1>4 DEF IInv, UploadInv, DeleteInv

\* One more choice.
LEMMA ChoiceOK ==
    ASSUME Types, NEW name \in Names, NEW fits \in BOOLEAN,
           files' = Append(files, [name |-> name, fits |-> fits])
    PROVE  /\ files' \in Seq([name : Names, fits : BOOLEAN]) /\ Len(files') = Len(files) + 1
           /\ files'[Len(files) + 1].fits = fits
           /\ \A c \in 1..Len(files) : files'[c] = files[c]
<1> DEFINE r == [name |-> name, fits |-> fits]
<1>1. r \in [name : Names, fits : BOOLEAN] /\ r.fits = fits
  OBVIOUS
<1>2. files \in Seq([name : Names, fits : BOOLEAN]) /\ files' = Append(files, r)
  BY DEF Types
<1> HIDE DEF r
<1> QED
  BY <1>1, <1>2

LEMMA NewOK ==
    ASSUME NEW n \in Nat, NEW f \in Nat, NEW c \in 1..f
    PROVE  New(c) \in SlideOn(n, f) /\ New(c).what = "new" /\ New(c).n = c
<1> DEFINE off == FALSE
           r == [what |-> "new", n |-> c, icon |-> off]
<1>1. New(c) = r /\ off \in BOOLEAN
  BY DEF New
<1> HIDE DEF off
<1>2. r \in [what : {"new"}, n : 1..f, icon : BOOLEAN] /\ r.what = "new" /\ r.n = c
  BY <1>1
<1> QED
  BY <1>1, <1>2 DEF SlideOn

LEMMA ChooseOK == ASSUME IInv, NEW name \in Names, NEW fits \in BOOLEAN, Choose(name, fits) PROVE IInv'
<1> DEFINE c == Len(files) + 1
           n == Len(coms)
           s == [c |-> c, base |-> slides]
<1>1. /\ Types /\ n \in Nat /\ Len(files) \in Nat /\ c \in Nat
      /\ events \in Nat /\ events' \in 0..MaxEvents /\ events' = events + 1
      /\ \A j \in jobs : j.at # "icons" /\ j.n < events'
  BY Quiet DEF Choose
<1>2. /\ files' \in Seq([name : Names, fits : BOOLEAN]) /\ Len(files') = c
      /\ files'[c].fits = fits /\ \A d \in 1..Len(files) : files'[d] = files[d]
  BY <1>1, ChoiceOK DEF Choose
<1>3. /\ card = "edit"
      /\ UNCHANGED <<coms, card, list, toDelete, asked, jobs, sent, dropped>>
      /\ \/ choosing' = choosing \cup {s} /\ UNCHANGED <<slides, toAdd>>
         \/ /\ slides' = slides \cup {New(c)} /\ UNCHANGED choosing
            /\ toAdd' = IF fits THEN toAdd \cup {c} ELSE toAdd
  BY DEF Choose, Draws
<1>4. New(c) \in SlideOn(n, c) /\ New(c).what = "new" /\ New(c).n = c
  BY <1>1, NewOK
<1>5. /\ SavedOn(n) \subseteq SavedOn(n) /\ SlideOn(n, Len(files)) \subseteq SlideOn(n, c)
      /\ ObjectOn(Len(files)) \subseteq ObjectOn(c) /\ ChoosingOn(n, Len(files)) \subseteq ChoosingOn(n, c)
      /\ JobOn(n, Len(files)) \subseteq JobOn(n, c)
  BY <1>1, TypesGrow
<1>6. s \in ChoosingOn(n, c) /\ s.c = c /\ s.base = slides
  <2>1. slides \in SUBSET SlideOn(n, c) /\ c \in 1..c
    BY <1>1, <1>5 DEF Types
  <2> QED
    BY <2>1 DEF ChoosingOn
<1>7. \A t \in slides : t.what = "new" => t.n \in 1..Len(files)
  BY <1>1 DEF Types, SlideOn, SavedOn
<1>8. \A r \in choosing : /\ r.c \in 1..Len(files)
                          /\ \A t \in r.base : t.what = "new" => t.n \in 1..Len(files)
  BY <1>1 DEF Types, ChoosingOn, SlideOn, SavedOn
<1>9. c \notin 1..Len(files) /\ toAdd \subseteq 1..Len(files) /\ sent \subseteq 1..Len(files)
      /\ dropped \subseteq 1..Len(files)
  BY <1>1 DEF Types
<1>10. \A j \in jobs : j.add \subseteq 1..Len(files)
  BY <1>1 DEF Types, JobOn
<1>11. \A i \in 1..n : coms[i].from \in 0..Len(files)
  <2>1. \A i \in 1..n : coms[i] \in ObjectOn(Len(files))
    BY <1>1 DEF Types
  <2> QED
    BY <2>1 DEF ObjectOn
<1> HIDE DEF c, s, n
<1>12. Types'
  <2>1. coms' \in Seq(ObjectOn(c))
    <3>1. coms \in Seq(ObjectOn(Len(files)))
      BY <1>1 DEF Types
    <3>2. \A i \in 1..Len(coms) : coms[i] \in ObjectOn(c)
      BY <1>5, <3>1
    <3> QED
      BY <1>3, <3>1, <3>2
  <2>2. 1..Len(files) \subseteq 1..c
    BY <1>1 DEF c
  <2>3. slides' \subseteq SlideOn(n, c) /\ choosing' \subseteq ChoosingOn(n, c)
    BY <1>1, <1>3, <1>4, <1>5, <1>6 DEF Types, n
  <2>4. toAdd' \subseteq 1..c
    <3>1. c \in 1..c
      BY <1>1 DEF c
    <3> QED
      BY <1>3, <1>9, <2>2, <3>1
  <2>5. jobs' \subseteq JobOn(n, c) /\ \A j \in jobs' : Ready(j)
    BY <1>1, <1>3, <1>5 DEF Types, n
  <2>6. sent' \subseteq 1..c /\ dropped' \subseteq 1..c
    BY <1>3, <1>9, <2>2
  <2> QED
    BY <1>1, <1>2, <1>3, <2>1, <2>3, <2>4, <2>5, <2>6 DEF Types, n
<1>13. UploadInv(coms, files, slides, toAdd, choosing, jobs, sent, dropped)'
  <2> USE DEF IInv
  <2>1. \A d \in toAdd' : files'[d].fits /\ (Plain(files', d) => d \notin dropped)
    BY <1>2, <1>3, <1>9 DEF UploadInv, Plain
  <2>2. ASSUME NEW r \in choosing'
        PROVE  r.c \notin dropped /\ \A t \in slides' : t.what = "new" => t.n # r.c
    BY <1>3, <1>4, <1>6, <1>7, <1>8, <1>9 DEF UploadInv
  <2>3. ASSUME NEW r \in choosing', NEW q \in choosing'
        PROVE  (q.c = r.c => q = r) /\ \A t \in q.base : t.what = "new" => t.n # r.c
    BY <1>3, <1>6, <1>7, <1>8, <1>9 DEF UploadInv
  <2>4. \A j \in jobs' : j.add \subseteq sent' /\ \A d \in j.add : files'[d].fits
    BY <1>2, <1>3, <1>10 DEF UploadInv
  <2>5. \A i \in 1..n : coms[i].from # 0 => coms[i].from \in sent /\ files'[coms[i].from].fits
    BY <1>1, <1>2, <1>11 DEF UploadInv, n
  <2>6. \A d \in sent' : Plain(files', d) => d \notin dropped'
    BY <1>2, <1>3, <1>9 DEF UploadInv, Plain
  <2> QED
    BY <1>3, <2>1, <2>2, <2>3, <2>4, <2>5, <2>6 DEF UploadInv, n
<1>14. DeleteInv(coms, list, slides, toDelete, choosing, jobs, asked, events)'
  <2>1. \A i : Mentions(slides', i) => Mentions(slides, i)
    BY <1>3, <1>4 DEF Mentions
  <2>2. \A i : Marked(i, toDelete, choosing') => Marked(i, toDelete, choosing) \/ Mentions(slides, i)
    BY <1>3, <1>6 DEF Marked
  <2>3. DeleteInv(coms, list, slides, toDelete, choosing, jobs, asked, events)
    BY DEF IInv
  <2> QED
    BY <1>1, <1>3, <2>1, <2>2, <2>3 DEF DeleteInv
<1> QED
  BY <1>12, <1>13, <1>14 DEF IInv

LEMMA DrawnOK == ASSUME IInv, NEW s \in choosing, Drawn(s) PROVE IInv'
<1> DEFINE n == Len(coms)
           f == Len(files)
<1>1. Types /\ n \in Nat /\ f \in Nat
  BY Lengths DEF IInv
<1>2. s.c \in 1..f /\ s.base \subseteq SlideOn(n, f) /\ card # "gone"
  <2>1. s \in ChoosingOn(n, f) /\ card # "gone"
    BY <1>1 DEF Types
  <2> QED
    BY <2>1 DEF ChoosingOn
<1>3. New(s.c) \in SlideOn(n, f) /\ New(s.c).what = "new" /\ New(s.c).n = s.c
  BY <1>1, <1>2, NewOK
<1>4. /\ choosing' = choosing \ {s} /\ slides' = s.base \cup {New(s.c)}
      /\ toAdd' = IF files[s.c].fits THEN toAdd \cup {s.c} ELSE toAdd
      /\ UNCHANGED <<coms, files, card, list, toDelete, jobs, events, sent, dropped, asked>>
  BY DEF Drawn, Draws, history
<1> HIDE DEF n, f
<1>5. Types'
  BY <1>1, <1>2, <1>3, <1>4 DEF Types, n, f
<1>6. UploadInv(coms, files, slides, toAdd, choosing, jobs, sent, dropped)'
  <2>0. UploadInv(coms, files, slides, toAdd, choosing, jobs, sent, dropped)
    BY DEF IInv
  <2>1. \A d \in toAdd' : files[d].fits /\ (Plain(files, d) => d \notin dropped)
    BY <1>4, <2>0 DEF UploadInv
  <2>2. ASSUME NEW r \in choosing', NEW t \in slides', t.what = "new" PROVE t.n # r.c
    <3>1. r \in choosing /\ r # s
      BY <1>4
    <3> QED
      BY <1>3, <1>4, <2>0, <2>2, <3>1 DEF UploadInv
  <2> QED
    BY <1>4, <2>0, <2>1, <2>2 DEF UploadInv
<1>7. DeleteInv(coms, list, slides, toDelete, choosing, jobs, asked, events)'
  <2>1. \A i : Mentions(slides', i) => Marked(i, toDelete, choosing)
    BY <1>3, <1>4 DEF Mentions, Marked
  <2>2. \A i : Marked(i, toDelete, choosing') => Marked(i, toDelete, choosing)
    BY <1>4 DEF Marked
  <2>3. DeleteInv(coms, list, slides, toDelete, choosing, jobs, asked, events)
    BY DEF IInv
  <2> QED
    BY <1>4, <2>1, <2>2, <2>3 DEF DeleteInv
<1> QED
  BY <1>5, <1>6, <1>7 DEF IInv

LEMMA RemoveOK == ASSUME IInv, NEW s \in slides, Remove(s) PROVE IInv'
<1> DEFINE n == Len(coms)
           f == Len(files)
<1>1. /\ Types /\ n \in Nat /\ f \in Nat
      /\ events \in Nat /\ events' \in 0..MaxEvents /\ events' = events + 1
      /\ \A j \in jobs : j.at # "icons" /\ j.n < events'
  BY Quiet DEF Remove
<1>2. s.what = "saved" => s \in SavedOn(n) /\ s.n \in 1..n
  BY <1>1 DEF Types, SlideOn, SavedOn
<1>3. s.what = "new" => s.n \in 1..f
  BY <1>1 DEF Types, SlideOn, SavedOn
<1>4. /\ slides' \subseteq slides /\ card = "edit"
      /\ UNCHANGED <<coms, files, card, list, choosing, jobs, sent>>
      /\ \/ /\ s.what = "saved"
            /\ toDelete' = Append(toDelete, s) /\ asked' = asked \cup {s.n}
            /\ UNCHANGED <<toAdd, dropped>>
         \/ /\ s.what = "new"
            /\ toAdd' = Without(s.n) /\ dropped' = dropped \cup ({s.n} \ sent)
            /\ UNCHANGED <<toDelete, asked>>
  BY DEF Remove
<1>5. /\ UploadInv(coms, files, slides, toAdd, choosing, jobs, sent, dropped)
      /\ DeleteInv(coms, list, slides, toDelete, choosing, jobs, asked, events)
  BY DEF IInv
<1>6. CASE /\ s.what = "saved"
           /\ toDelete' = Append(toDelete, s) /\ asked' = asked \cup {s.n}
           /\ UNCHANGED <<toAdd, dropped>>
  <2>1. toDelete' \in Seq(SavedOn(n)) /\ Len(toDelete') = Len(toDelete) + 1
        /\ Len(toDelete) \in Nat /\ toDelete'[Len(toDelete) + 1] = s
        /\ \A k \in 1..Len(toDelete) : toDelete'[k] = toDelete[k]
    BY <1>1, <1>2, <1>6 DEF Types
  <2> HIDE DEF n, f
  <2>2. Types'
    BY <1>1, <1>2, <1>4, <1>6, <2>1 DEF Types, n
  <2>3. UploadInv(coms, files, slides, toAdd, choosing, jobs, sent, dropped)'
    BY <1>4, <1>5, <1>6 DEF UploadInv
  <2>4. ASSUME NEW i, Marked(i, toDelete', choosing')
        PROVE  Marked(i, toDelete, choosing) \/ Mentions(slides, i)
    BY <1>4, <1>6, <2>1, <2>4 DEF Marked, Mentions
  <2>5. ASSUME NEW i, Mentions(slides', i) PROVE Mentions(slides, i)
    BY <1>4, <2>5 DEF Mentions
  <2>6. ASSUME NEW k \in 1..Len(toDelete'), toDelete'[k].n \in HeldIn(coms)
        PROVE  toDelete'[k].n \in asked'
    BY <1>5, <1>6, <2>1, <2>6 DEF DeleteInv
  <2>7. DeleteInv(coms, list, slides, toDelete, choosing, jobs, asked, events)'
    BY <1>1, <1>4, <1>5, <2>4, <2>5, <2>6 DEF DeleteInv
  <2> QED
    BY <2>2, <2>3, <2>7 DEF IInv
<1>7. CASE /\ s.what = "new"
           /\ toAdd' = Without(s.n) /\ dropped' = dropped \cup ({s.n} \ sent)
           /\ UNCHANGED <<toDelete, asked>>
  <2>1. toAdd' \subseteq toAdd /\ (Plain(files, s.n) => s.n \notin toAdd')
    BY <1>7 DEF Without, Plain
  <2> HIDE DEF n, f
  <2>2. Types'
    BY <1>1, <1>3, <1>4, <1>7, <2>1 DEF Types, n, f
  <2>3. UploadInv(coms, files, slides, toAdd, choosing, jobs, sent, dropped)'
    <3>1. \A d \in toAdd' : files[d].fits /\ (Plain(files, d) => d \notin dropped')
      BY <1>5, <1>7, <2>1 DEF UploadInv
    <3>2. \A r \in choosing : r.c \notin dropped'
      BY <1>5, <1>7 DEF UploadInv
    <3>3. \A d \in sent : Plain(files, d) => d \notin dropped'
      BY <1>5, <1>7 DEF UploadInv
    <3> QED
      BY <1>4, <1>5, <3>1, <3>2, <3>3 DEF UploadInv
  <2>4. ASSUME NEW i, Mentions(slides', i) PROVE Mentions(slides, i)
    BY <1>4, <2>4 DEF Mentions
  <2>5. DeleteInv(coms, list, slides, toDelete, choosing, jobs, asked, events)'
    BY <1>1, <1>4, <1>5, <1>7, <2>4 DEF DeleteInv
  <2> QED
    BY <2>2, <2>3, <2>5 DEF IInv
<1> QED
  BY <1>4, <1>6, <1>7

\* The page is gone, and with it what it remembered.
LEMMA RemoveThrowsOK == ASSUME IInv, NEW s \in slides, RemoveThrows(s) PROVE IInv'
<1>1. /\ Types /\ Len(coms) \in Nat /\ Len(files) \in Nat
      /\ events \in Nat /\ events' \in 0..MaxEvents /\ events' = events + 1
      /\ \A j \in jobs : j.at # "icons" /\ j.n < events
  BY Quiet DEF RemoveThrows
<1> DEFINE off == FALSE
<1>2. /\ card' = "gone" /\ list' = {} /\ slides' = {} /\ choosing' = {}
      /\ toAdd' = {} /\ toDelete' = <<>> /\ asked' = {}
      /\ jobs' \subseteq {[j EXCEPT !.resets = off] : j \in jobs}
      /\ dropped' = dropped \cup ({s.n} \ sent) /\ s.n \in 1..Len(files)
      /\ UNCHANGED <<coms, files, sent>>
  <2>1. s \in SlideOn(Len(coms), Len(files)) /\ s.what = "new"
    BY <1>1 DEF RemoveThrows, Types
  <2>2. s.n \in 1..Len(files)
    BY <2>1 DEF SlideOn, SavedOn
  <2>3. /\ jobs' = {[j EXCEPT !.resets = FALSE] : j \in jobs} \/ jobs' = {}
        /\ dropped' = dropped \cup ({s.n} \ sent)
    BY DEF RemoveThrows
  <2>4. jobs' \subseteq {[j EXCEPT !.resets = off] : j \in jobs}
    BY <2>3
  <2> QED
    BY <2>2, <2>3, <2>4 DEF RemoveThrows
<1>3. off \in BOOLEAN
  OBVIOUS
<1> HIDE DEF off
<1>4. ASSUME NEW h \in jobs'
      PROVE  /\ h \in JobOn(Len(coms), Len(files)) /\ Ready(h) /\ h.n < events /\ h.at # "icons"
             /\ h.add \subseteq sent /\ \A c \in h.add : files[c].fits
  <2>1. PICK j \in jobs : h = [j EXCEPT !.resets = off]
    BY <1>2
  <2>2. j \in JobOn(Len(coms), Len(files)) /\ Ready(j)
    BY <1>1 DEF Types
  <2>3. h \in JobOn(Len(coms), Len(files))
    BY <1>3, <2>1, <2>2 DEF JobOn
  <2>4. h.n = j.n /\ h.at = j.at /\ h.del = j.del /\ h.id = j.id /\ h.add = j.add
    BY <2>1, <2>2 DEF JobOn
  <2> QED
    BY <1>1, <2>2, <2>3, <2>4 DEF Ready, IInv, UploadInv
<1>5. Types'
  <2>1. toDelete' \in Seq(SavedOn(Len(coms')))
    BY <1>2
  <2> QED
    BY <1>1, <1>2, <1>4, <2>1 DEF Types
<1>6. UploadInv(coms, files, slides, toAdd, choosing, jobs, sent, dropped)'
  BY <1>2, <1>4 DEF IInv, UploadInv
<1>7. DeleteInv(coms, list, slides, toDelete, choosing, jobs, asked, events)'
  <2>1. \A j \in jobs' : j.n < events' /\ j.at # "icons"
    <3>1. ASSUME NEW j \in jobs' PROVE j.n < events' /\ j.at # "icons"
      <4>1. j.n \in Nat /\ j.n < events /\ j.at # "icons"
        BY <1>4 DEF JobOn
      <4> QED
        BY <1>1, <4>1
    <3> QED
      BY <3>1
  <2>2. \A i : ~Mentions({}, i) /\ ~Marked(i, <<>>, {})
    BY DEF Mentions, Marked
  <2> QED
    BY <1>2, <2>1, <2>2 DEF DeleteInv
<1> QED
  BY <1>5, <1>6, <1>7 DEF IInv

LEMMA SaveOK == ASSUME IInv, Save PROVE IInv'
<1> DEFINE n == Len(coms)
           f == Len(files)
           k == Job(toDelete, toAdd, TRUE)
<1>1. /\ Types /\ n \in Nat /\ f \in Nat
      /\ events \in Nat /\ events' \in 0..MaxEvents /\ events' = events + 1
      /\ \A j \in jobs : j.at # "icons" /\ j.n < events'
  BY Quiet DEF Save
<1>2. /\ k \in JobOn(n, f) /\ Ready(k) /\ k.n = events /\ k.at # "icons" /\ k.add = toAdd
  <2> DEFINE on == TRUE
  <2>1. toDelete \in Seq(SavedOn(n)) /\ toAdd \in SUBSET (1..f) /\ on \in BOOLEAN
        /\ k = Job(toDelete, toAdd, on)
    BY <1>1 DEF Types
  <2> HIDE DEF k, n, f, on
  <2> QED
    BY <1>1, <2>1, JobOK
<1>3. /\ jobs' \subseteq jobs \cup {k} /\ card = "edit" /\ card' \in {"edit", "display"}
      /\ sent' = sent \/ (sent' = sent \cup toAdd)
      /\ k \in jobs' => sent' = sent \cup toAdd \/ jobs' = jobs
      /\ UNCHANGED <<coms, files, list, slides, toAdd, toDelete, asked, choosing, dropped>>
  BY DEF Save, Remembers
<1>4. /\ UploadInv(coms, files, slides, toAdd, choosing, jobs, sent, dropped)
      /\ DeleteInv(coms, list, slides, toDelete, choosing, jobs, asked, events)
  BY DEF IInv
<1> HIDE DEF k
<1>5. Types'
  BY <1>1, <1>2, <1>3 DEF Types
<1>6. UploadInv(coms, files, slides, toAdd, choosing, jobs, sent, dropped)'
  <2>1. ASSUME NEW j \in jobs' PROVE j.add \subseteq sent' /\ \A c \in j.add : files[c].fits
    <3>1. CASE j \in jobs
      BY <1>3, <1>4, <3>1 DEF UploadInv
    <3>2. CASE j \notin jobs
      <4>1. j = k /\ sent' = sent \cup toAdd
        BY <1>3, <2>1, <3>2
      <4> QED
        BY <1>2, <1>4, <4>1 DEF UploadInv
    <3> QED
      BY <3>1, <3>2
  <2>2. sent \subseteq sent' /\ \A c \in sent' : Plain(files, c) => c \notin dropped
    BY <1>3, <1>4 DEF UploadInv
  <2> QED
    BY <1>3, <1>4, <2>1, <2>2 DEF UploadInv
<1>7. DeleteInv(coms, list, slides, toDelete, choosing, jobs, asked, events)'
  <2>1. k.n < events'
    BY <1>1, <1>2
  <2>2. ASSUME NEW h \in jobs' PROVE h.at # "icons" /\ h.n < events'
    <3>1. h = k \/ h \in jobs
      BY <1>3
    <3> QED
      BY <1>1, <1>2, <2>1, <3>1
  <2> QED
    BY <1>3, <1>4, <2>2 DEF DeleteInv
<1> QED
  BY <1>5, <1>6, <1>7 DEF IInv

LEMMA CancelOK == ASSUME IInv, Cancel PROVE IInv'
<1> DEFINE n == Len(coms)
           f == Len(files)
           k == Job(<<>>, {}, FALSE)
<1>1. /\ Types /\ n \in Nat /\ f \in Nat
      /\ events \in Nat /\ events' \in 0..MaxEvents /\ events' = events + 1
      /\ \A j \in jobs : j.at # "icons" /\ j.n < events'
  BY Quiet DEF Cancel
<1>2. k \in JobOn(n, f) /\ Ready(k) /\ k.n = events /\ k.at # "icons" /\ k.add = {}
  <2> HIDE DEF n, f
  <2> QED
    BY <1>1, ReloadOK
<1>3. /\ asked' = {} /\ UNCHANGED <<coms, files, list, choosing, sent, dropped>>
      /\ card = "edit" /\ card' \in {"edit", "display"}
      /\ \/ list = {} /\ UNCHANGED <<slides, toAdd, toDelete, jobs>>
         \/ /\ toAdd' \in {toAdd, {}} /\ slides' = {} /\ toDelete' = <<>>
            /\ jobs' = jobs \cup {k}
  BY DEF Cancel, Nothing
<1>4. /\ UploadInv(coms, files, slides, toAdd, choosing, jobs, sent, dropped)
      /\ DeleteInv(coms, list, slides, toDelete, choosing, jobs, asked, events)
  BY DEF IInv
<1> HIDE DEF k
<1>5. Types'
  <2>1. toDelete' \in Seq(SavedOn(n))
    <3>1. toDelete \in Seq(SavedOn(n)) /\ <<>> \in Seq(SavedOn(n))
      BY <1>1 DEF Types
    <3> QED
      BY <1>3, <3>1
  <2>2. /\ slides' \subseteq slides /\ toAdd' \subseteq toAdd /\ jobs' \subseteq jobs \cup {k}
        /\ asked' = {}
    BY <1>3
  <2>3. jobs' \subseteq JobOn(n, f) /\ \A j \in jobs' : Ready(j)
    BY <1>1, <1>2, <2>2 DEF Types
  <2> QED
    BY <1>1, <1>3, <2>1, <2>2, <2>3 DEF Types
<1>6. UploadInv(coms, files, slides, toAdd, choosing, jobs, sent, dropped)'
  <2>1. toAdd' \subseteq toAdd /\ slides' \subseteq slides
    BY <1>3
  <2>2. \A j \in jobs' : j = k \/ j \in jobs
    BY <1>3
  <2> QED
    BY <1>2, <1>3, <1>4, <2>1, <2>2 DEF UploadInv
<1>7. DeleteInv(coms, list, slides, toDelete, choosing, jobs, asked, events)'
  <2>1. k.n < events'
    BY <1>1, <1>2
  <2>2. ASSUME NEW h \in jobs' PROVE h.at # "icons" /\ h.n < events'
    <3>1. h = k \/ h \in jobs
      BY <1>3
    <3> QED
      BY <1>1, <1>2, <2>1, <3>1
  <2>3. CASE list = {} /\ UNCHANGED <<slides, toAdd, toDelete, jobs>>
    <3>1. \A i : ~Mentions(list, i)
      BY <2>3 DEF Mentions
    <3>2. \A m \in 1..Len(toDelete) : Marked(toDelete[m].n, toDelete, choosing)
      BY DEF Marked
    <3>3. \A m \in 1..Len(toDelete) : toDelete[m].n \notin HeldIn(coms)
      BY <1>4, <3>1, <3>2 DEF DeleteInv
    <3> QED
      BY <1>3, <1>4, <2>2, <2>3, <3>3 DEF DeleteInv
  <2>4. CASE slides' = {} /\ toDelete' = <<>> /\ jobs' = jobs \cup {k}
    <3>1. \A i : ~Mentions(slides', i)
      BY <2>4 DEF Mentions
    <3>2. \A i : Marked(i, toDelete', choosing) => Marked(i, toDelete, choosing)
      BY <2>4 DEF Marked
    <3>3. 1..Len(toDelete') = {}
      BY <2>4
    <3> QED
      BY <1>3, <1>4, <2>2, <3>1, <3>2, <3>3 DEF DeleteInv
  <2> QED
    BY <1>3, <2>3, <2>4
<1> QED
  BY <1>5, <1>6, <1>7 DEF IInv

LEMMA ElsewhereOK == ASSUME IInv, NEW i \in Held, Elsewhere(i) PROVE IInv'
<1> DEFINE n == Len(coms)
           f == Len(files)
<1>1. Types /\ n \in Nat /\ f \in Nat /\ i \in 1..n
  BY Lengths DEF IInv, HeldIn
<1>2. /\ events \in Nat /\ events' \in 0..MaxEvents /\ events' = events + 1
      /\ UNCHANGED <<files, card, list, slides, toAdd, toDelete, asked, choosing, jobs, sent, dropped>>
  BY <1>1, AttachmentsAssumption DEF Elsewhere, Acts, Types, Remembers
<1>3. Len(coms') = n /\ Grown(coms, coms', f)
  BY <1>1, ObjectsGrow DEF Elsewhere
<1>4. HeldIn(coms') \subseteq HeldIn(coms) /\ \A m \in 1..n : coms'[m].from = coms[m].from
  BY <1>1, <1>3 DEF HeldIn, Grown
<1>5. \A j \in jobs : j.n < events'
  <2>1. \A j \in jobs : j.n \in Nat /\ j.n < events
    BY <1>1 DEF IInv, Types, DeleteInv, JobOn
  <2> QED
    BY <1>2, <2>1
<1>6. /\ UploadInv(coms, files, slides, toAdd, choosing, jobs, sent, dropped)
      /\ DeleteInv(coms, list, slides, toDelete, choosing, jobs, asked, events)
  BY DEF IInv
<1>7. Types'
  BY <1>1, <1>2, <1>3 DEF Types, Grown
<1>8. UploadInv(coms, files, slides, toAdd, choosing, jobs, sent, dropped)'
  BY <1>2, <1>3, <1>4, <1>6 DEF UploadInv
<1>9. DeleteInv(coms, list, slides, toDelete, choosing, jobs, asked, events)'
  BY <1>2, <1>4, <1>5, <1>6 DEF DeleteInv
<1> QED
  BY <1>7, <1>8, <1>9 DEF IInv

-----------------------------------------------------------------------------
(* The theorems.                                                           *)

LEMMA StepOK == ASSUME IInv, [Next]_vars PROVE IInv'
<1>1. CASE Next
  BY <1>1, OpenOK, LeaveOK, EditOK, SaveOK, CancelOK, ChooseOK, DrawnOK, RemoveOK, RemoveThrowsOK,
     ElsewhereOK, WorkOK DEF Next
<1>2. CASE UNCHANGED vars
  <2>1. UNCHANGED <<coms, files, card, list, slides, toAdd, toDelete, choosing, jobs, events,
                    sent, dropped, asked>>
    BY <1>2 DEF vars, history
  <2> QED
    BY <2>1 DEF IInv, Types, UploadInv, DeleteInv
<1> QED
  BY <1>1, <1>2

\* The inductive invariant: what may be uploaded was not taken back, and what was
\* removed and is still in COMS is in the list of the store.
THEOREM Invariance == Spec => []IInv
<1>1. Init => IInv
  BY InitOK
<1>2. IInv /\ [Next]_vars => IInv'
  BY StepOK
<1> QED
  BY <1>1, <1>2, PTL DEF Spec

LEMMA TypesTypeOK == ASSUME IInv PROVE TypeOK
<1> DEFINE n == Len(coms)
           f == Len(files)
<1>1. /\ Types /\ n \in Nat /\ f \in Nat /\ DOMAIN coms = 1..n /\ DOMAIN files = 1..f
      /\ SavedOn(n) = Item /\ SlideOn(n, f) = Slide
  BY Lengths DEF IInv, SavedOn, SlideOn, Item, Slide
<1>2. coms \in Seq([image : BOOLEAN, from : 0..Len(files), here : BOOLEAN, thumb : BOOLEAN])
  BY <1>1 DEF Types, ObjectOn
<1>3. \A s \in choosing : s.c \in DOMAIN files /\ s.base \subseteq Slide
  <2>1. \A s \in choosing : s \in ChoosingOn(n, f)
    BY <1>1 DEF Types
  <2> QED
    BY <1>1, <2>1 DEF ChoosingOn
<1>4. ASSUME NEW j \in jobs
      PROVE  /\ j.at \in Requests \cup {"makeThumb"} /\ j.add \subseteq DOMAIN files
             /\ j.del \in Seq(Item) /\ j.resets \in BOOLEAN /\ j.got \subseteq DOMAIN coms
             /\ j.id \in {0} \cup DOMAIN coms /\ j.n \in 0..MaxEvents
  <2>1. j \in JobOn(n, f)
    BY <1>1 DEF Types
  <2>2. j.n < events /\ events \in 0..MaxEvents /\ MaxEvents \in Nat
    BY <1>1, AttachmentsAssumption DEF IInv, DeleteInv, Types
  <2>3. /\ j.at \in Requests \cup {"makeThumb"} /\ j.add \subseteq 1..f /\ j.del \in Seq(SavedOn(n))
        /\ j.resets \in BOOLEAN /\ j.got \subseteq 1..n /\ j.id \in 0..n /\ j.n \in Nat
    BY <2>1 DEF JobOn
  <2> HIDE DEF n, f
  <2> QED
    BY <1>1, <2>2, <2>3
<1> QED
  BY <1>1, <1>2, <1>3, <1>4 DEF Types, TypeOK

\* Everything remembered, shown or under way names objects and choices there are.
THEOREM TypeCorrect == Spec => []TypeOK
<1>1. IInv => TypeOK
  BY TypesTypeOK
<1> QED
  BY <1>1, Invariance, PTL

\* What is too large is never in COMS, nor is what was removed before a save took it, but
\* for a file whose name decodeURIComponent changes, however
\* many saves go on at once and whatever comes back among the slides.
THEOREM UploadsAreWantedThm == Spec => []UploadsAreWanted
<1>1. IInv => UploadsAreWanted
  BY Lengths DEF IInv, UploadInv, UploadsAreWanted, Plain
<1> QED
  BY <1>1, Invariance, PTL

\* The early returns of save and cancel and the closing of the complaint pass over no
\* removal of an attachment that is still there.
THEOREM RemovalsAreFlaggedThm == Spec => []RemovalsAreFlagged
<1>1. ASSUME IInv PROVE RemovalsAreFlagged
  <2> SUFFICES ASSUME card = "edit", NEW k \in DOMAIN toDelete, toDelete[k].n \in Held
               PROVE  Flagged
    BY DEF RemovalsAreFlagged
  <2>1. toDelete[k].n \in HeldIn(coms) /\ Marked(toDelete[k].n, toDelete, choosing)
    BY <1>1, Lengths DEF IInv, Marked
  <2>2. Mentions(list, toDelete[k].n)
    BY <1>1, <2>1, MarkedAreListed
  <2> QED
    BY <2>2 DEF Mentions, Flagged, Nothing
<1> QED
  BY <1>1, Invariance, PTL

\* A save that starts deletes, of what COMS still holds, only what was removed on this
\* card since it was last settled.
THEOREM DeletesAreAskedThm == Spec => DeletesAreAsked
<1> DEFINE Asked ==
      \A j \in jobs' : j.n = events =>
          \A k \in DOMAIN j.del : j.del[k].n \in Held => j.del[k].n \in asked
<1>1. ASSUME IInv, Next PROVE Asked
  <2> SUFFICES ASSUME NEW j \in jobs', j.n = events, NEW k \in DOMAIN j.del, j.del[k].n \in Held
               PROVE  j.del[k].n \in asked
    OBVIOUS
  <2>1. /\ Types /\ Len(coms) \in Nat /\ Len(files) \in Nat /\ events \in Nat
        /\ DOMAIN toDelete = 1..Len(toDelete) /\ Held = HeldIn(coms)
    BY <1>1, Lengths, AttachmentsAssumption DEF IInv, Types
  <2>2. \A h \in jobs : h.n \in Nat /\ h.n < events
    BY <1>1, <2>1 DEF IInv, Types, DeleteInv, JobOn
  <2>3. j \notin jobs
    BY <2>2
  <2>4. events' # events
    <3>1. IInv'
      BY <1>1, StepOK
    <3>2. j.n < events'
      BY <3>1 DEF IInv, DeleteInv
    <3> QED
      BY <2>1, <3>2
  <2>5. CASE Open \/ Cancel
    <3>1. j = Job(<<>>, {}, FALSE)
      BY <2>3, <2>5 DEF Open, Cancel
    <3>2. j.del = <<>>
      BY <2>1, <3>1, ReloadOK
    <3> QED
      BY <3>2
  <2>6. CASE Save
    <3>1. j = Job(toDelete, toAdd, TRUE)
      BY <2>3, <2>6 DEF Save
    <3>2. j.del = toDelete
      BY <3>1 DEF Job
    <3> QED
      BY <1>1, <2>1, <3>2 DEF IInv, DeleteInv
  <2>7. CASE Leave
    <3>1. PICK h \in jobs : j = [h EXCEPT !.resets = FALSE]
      BY <2>7 DEF Leave
    <3>2. h \in JobOn(Len(coms), Len(files))
      BY <2>1 DEF Types
    <3>3. j.n = h.n
      BY <3>1, <3>2 DEF JobOn
    <3> QED
      BY <2>2, <3>3
  <2>9. ASSUME NEW s \in slides, RemoveThrows(s) PROVE FALSE
    <3>1. PICK h \in jobs : j = [h EXCEPT !.resets = FALSE]
      BY <2>9 DEF RemoveThrows
    <3>2. h \in JobOn(Len(coms), Len(files))
      BY <2>1 DEF Types
    <3>3. j.n = h.n
      BY <3>1, <3>2 DEF JobOn
    <3> QED
      BY <2>2, <3>3
  <2>8. \/ jobs' = jobs \/ UNCHANGED events \/ Open \/ Cancel \/ Save \/ Leave
        \/ \E s \in slides : RemoveThrows(s)
    <3>1. \A s \in choosing : Drawn(s) => UNCHANGED events
      BY DEF Drawn, history
    <3>2. \A h \in jobs : Work(h) => UNCHANGED events
      BY DEF Work, Delete, DeleteThumb, Put, MakeThumb, PutThumb, ReadList, ReadIcons, history
    <3>3. \A s \in slides : Remove(s) => jobs' = jobs
      BY DEF Remove
    <3>4. /\ Edit => jobs' = jobs
          /\ \A name \in Names, fits \in BOOLEAN : Choose(name, fits) => jobs' = jobs
          /\ \A i \in Held : Elsewhere(i) => jobs' = jobs
      BY DEF Edit, Choose, Elsewhere
    <3> QED
      BY <1>1, <3>1, <3>2, <3>3, <3>4 DEF Next
  <2> QED
    BY <2>3, <2>4, <2>5, <2>6, <2>7, <2>8, <2>9
<1>2. IInv /\ [Next]_vars => [Asked]_vars
  BY <1>1
<1> HIDE DEF Asked
<1>3. Spec => [][Asked]_vars
  BY <1>2, Invariance, PTL DEF Spec
<1> QED
  BY <1>3 DEF DeletesAreAsked, Asked
=============================================================================
