--------------------------- MODULE CaseFileProofs ---------------------------
(***************************************************************************)
(* What holds of case files for any number of complaints, texts, items,    *)
(* requests and failures.  For any number of browsers: the types, and that *)
(* an officer was told of nothing that was not saved; the invariant IInv   *)
(* says of every request under way what it may carry, and of an answer     *)
(* that reports success that the case API did what it was asked.  For one  *)
(* browser, while no request fails: that the page shows what the case API  *)
(* holds, that a complaint is pending review for a reason, and that none   *)
(* is closed unfinished; the invariant QuietInv says what may be under way *)
(* together, that answers are as new as the page, and which of them will   *)
(* bring up to date whatever the store holds that is not.                  *)
(***************************************************************************)
EXTENDS CaseFile, TLAPS

States   == {"absent", "open", "done"}
Statuses == {"OPEN", "CLOSED", "PENDREV"}
Leads    == Complaints \cup {None}

File == [id : BOOLEAN, assessment : Texts \cup {None}, prevention : Texts \cup {None},
         note : Texts \cup {None}, equipment : [Items -> States], animal : [Items -> States],
         required : BOOLEAN, complete : BOOLEAN]

Case == [caseId : Leads, assessment : Texts \cup {None, Blank},
         prevention : Texts \cup {None, Blank}, note : Texts \cup {None},
         equipment : [Items -> States], animal : [Items -> States], required : BOOLEAN,
         complete : {"undefined", "null", "set"}, status : Statuses \cup {None},
         lead : Leads, modal : Leads]

ReviewState == [at : {"request", "edit", "display"}, required : BOOLEAN, completed : BOOLEAN]
Page == [open : Leads, edit : [Sections -> BOOLEAN], review : ReviewState]

ItemValue   == [item : Items, state : States]
ReviewValue == [creates : BOOLEAN, required : BOOLEAN, complete : BOOLEAN]
Causes      == {"open", "list", "save", "update", "note", "animal", "review", "close"}

Msg == [user : Users, lead : Complaints,
        op : Reads \cup Mutations \cup {"review", "close"},
        section : Sections \cup {"none", "page", "list"},
        value : Texts \cup {None} \cup ItemValue \cup ReviewValue \cup Statuses \cup Causes,
        case : Leads, at : {"sent", "written", "answered"},
        result : {"ok", "empty", "rejected"}, file : File, status : Statuses,
        applied : BOOLEAN]

\* What a request carries, by what it asks for.
Carries(m) ==
    /\ m.op \in Reads \ {"find"} => m.value \in Causes
    /\ m.op = "find" => m.section \in Forms \cup {"note"} /\ m.value \in Texts
    /\ m.op \in Mutations =>
          /\ m.section \in Sections
          /\ m.value \in (IF m.section \in Lists THEN ItemValue ELSE Texts \cup {None})
    /\ m.op = "review" => m.value \in ReviewValue
    /\ m.op = "close" => m.value \in Statuses
    /\ m.at = "written" => m.op = "review"

\* What is announced as done though nobody knows: notes, and deletions of equipment.
Excused(x) == x.section = "note" \/ (x.section = "equipment" /\ x.op = "delete")

\* An answer that reports success to a browser was preceded by the change.
Truthful(m) ==
    (m.op \in Mutations \cup {"review"} /\ m.at # "sent" /\ m.result = "ok") => m.applied \/ Excused(m)

Honest(made) == \A t \in made : t.good => t.applied \/ Excused(t)

LEMMA NothingSaid == Honest({})
  BY DEF Honest

Sound(m) == m \in Msg /\ Carries(m) /\ Truthful(m)

IInv ==
    /\ file \in [Complaints -> File] /\ status \in [Complaints -> Statuses]
    /\ store \in [Users -> Case] /\ page \in [Users -> Page]
    /\ \A m \in flight : Sound(m)
    /\ AnnouncedIsSaved
    /\ saves \in 0..MaxEvents /\ faults \in 0..MaxEvents

-----------------------------------------------------------------------------
(* Requests and replies.                                                   *)

\* A request to read is sound, whatever caused it.
LEMMA GetsSound ==
    ASSUME store \in [Users -> Case], NEW u \in Users, NEW c \in Complaints,
           NEW ops \in SUBSET (Reads \ {"find"}), NEW cause \in Causes
    PROVE  \A m \in Gets(u, c, ops, cause) : Sound(m)
<1>1. store[u] \in Case
  OBVIOUS
<1>2. store[u].caseId \in Leads
  BY <1>1 DEF Case
<1>3. NoFile \in File
  BY DEF NoFile, File, NoItems, States
<1> SUFFICES ASSUME NEW op \in ops PROVE Sound(Message(u, c, op, "none", cause))
  BY DEF Gets
<1>4. op \in Reads \ {"find"}
  OBVIOUS
<1>5. Message(u, c, op, "none", cause) \in Msg
  BY <1>2, <1>3, <1>4 DEF Message, Msg, Statuses
<1>6. op \notin Mutations /\ op # "review" /\ op # "close" /\ op # "find"
  BY <1>4 DEF Reads, Forms, Mutations
<1>7. Message(u, c, op, "none", cause).op = op /\ Message(u, c, op, "none", cause).at = "sent"
      /\ Message(u, c, op, "none", cause).value = cause
  BY DEF Message
<1> QED
  BY <1>5, <1>6, <1>7 DEF Sound, Carries, Truthful

\* So is a request to write, and the search before it.
LEMMA WriteSound ==
    ASSUME store \in [Users -> Case], NEW u \in Users, NEW c \in Complaints,
           NEW op \in Mutations \cup {"find"}, NEW section \in Sections, NEW value,
           value \in (IF section \in Lists THEN ItemValue ELSE Texts \cup {None}),
           op = "find" => section \in Forms \cup {"note"} /\ value \in Texts
    PROVE  Sound(Message(u, c, op, section, value))
<1>1. store[u] \in Case
  OBVIOUS
<1>2. store[u].caseId \in Leads
  BY <1>1 DEF Case
<1>3. NoFile \in File
  BY DEF NoFile, File, NoItems, States
<1>4. value \in Texts \cup {None} \cup ItemValue
  OBVIOUS
<1>5. Message(u, c, op, section, value) \in Msg
  BY <1>2, <1>3, <1>4 DEF Message, Msg, Statuses, Reads
<1>6. op # "review" /\ op # "close" /\ op \notin Reads \ {"find"}
  BY DEF Mutations, Reads, Forms
<1>7. Message(u, c, op, section, value).op = op /\ Message(u, c, op, section, value).at = "sent"
      /\ Message(u, c, op, section, value).section = section
      /\ Message(u, c, op, section, value).value = value
  BY DEF Message
<1> QED
  BY <1>5, <1>6, <1>7 DEF Sound, Carries, Truthful

\* The sections' own state keeps its type when it follows the store.
LEMMA FollowsOK ==
    ASSUME NEW p \in Page, NEW old \in Case, NEW new \in Case, NEW set
    PROVE  Follows(p, old, new, set) \in Page
<1>1. p.edit \in [Sections -> BOOLEAN] /\ p.review \in ReviewState /\ p.open \in Leads
  BY DEF Page
<1>2. "assessment" \in Sections /\ "prevention" \in Sections
  BY DEF Sections, Forms
<1>3. new.required \in BOOLEAN /\ old.required \in BOOLEAN
  BY DEF Case
<1>4. p.review.at \in {"request", "edit", "display"} /\ p.review.required \in BOOLEAN
      /\ p.review.completed \in BOOLEAN
  BY <1>1 DEF ReviewState
<1> DEFINE e == IF p.open # None /\ "assessment" \in set
                THEN new.assessment \in {None, Blank} ELSE p.edit["assessment"]
           v == p.edit["prevention"] /\ "prevention" \notin set
           req == IF new.required # old.required THEN new.required ELSE p.review.required
           r == [at |-> IF new.required /\ ~old.required THEN "display" ELSE p.review.at,
                 required |-> req,
                 completed |-> req /\ (p.review.completed \/ new.complete = "set")]
<1>5. e \in BOOLEAN
  <2>1. CASE p.open # None /\ "assessment" \in set
    BY <2>1
  <2>2. CASE ~(p.open # None /\ "assessment" \in set)
    <3>1. e = p.edit["assessment"]
      BY <2>2
    <3>2. p.edit["assessment"] \in BOOLEAN
      BY <1>1, <1>2
    <3> QED
      BY <3>1, <3>2
  <2> QED
    BY <2>1, <2>2
<1>6. r \in ReviewState
  BY <1>3, <1>4 DEF ReviewState
<1>7. Follows(p, old, new, set) =
         [p EXCEPT !.edit = [p.edit EXCEPT !["assessment"] = e, !["prevention"] = v], !.review = r]
  BY <1>1, <1>2 DEF Follows, Page
<1>8. [p.edit EXCEPT !["assessment"] = e, !["prevention"] = v] \in [Sections -> BOOLEAN]
  <2>1. v \in BOOLEAN
    OBVIOUS
  <2> HIDE DEF e, v
  <2> QED
    BY <1>1, <1>2, <1>5, <2>1
<1> HIDE DEF e, v, r
<1> QED
  BY <1>6, <1>7, <1>8 DEF Page

\* A reply that leaves a case in the store, tells the truth and asks for sound requests.
LEMMA ReceiveOK ==
    ASSUME IInv, NEW m \in flight, NEW s \in Case, NEW made, NEW next,
           Honest(made),
           \A n \in next : Sound(n), Receive(m, s, made, next)
    PROVE  IInv'
<1>1. Sound(m) /\ m.user \in Users
  BY DEF IInv, Sound, Msg
<1>2. store[m.user] \in Case /\ page[m.user] \in Page
  BY <1>1 DEF IInv
<1>3. Follows(page[m.user], store[m.user], s, Sets(m)) \in Page
  BY <1>2, FollowsOK
<1>4. store' \in [Users -> Case]
  BY <1>1 DEF Receive, IInv
<1>5. page' \in [Users -> Page]
  BY <1>1, <1>3 DEF Receive, IInv
<1>6. \A n \in flight' : Sound(n)
  BY DEF Receive, IInv
<1>7. AnnouncedIsSaved'
  BY DEF Receive, IInv, AnnouncedIsSaved, Honest, Excused
<1> QED
  BY <1>4, <1>5, <1>6, <1>7 DEF Receive, IInv

LEMMA ReceiveOnOK ==
    ASSUME IInv, NEW m \in flight, NEW section \in Sections, NEW s \in Case, NEW made, NEW next,
           Honest(made),
           \A n \in next : Sound(n), ReceiveOn(m, section, s, made, next)
    PROVE  IInv'
<1>1. Sound(m) /\ m.user \in Users
  BY DEF IInv, Sound, Msg
<1>2. store[m.user] \in Case /\ page[m.user] \in Page
  BY <1>1 DEF IInv
<1> DEFINE p == Follows(page[m.user], store[m.user], s, {})
           b == p.edit[section] /\ (m.op = "delete" \/ page[m.user].open # m.lead)
<1>3. p \in Page
  BY <1>2, FollowsOK
<1>4. p.edit \in [Sections -> BOOLEAN] /\ b \in BOOLEAN
  BY <1>3 DEF Page
<1>5. [p EXCEPT !.edit[section] = b] \in Page
  BY <1>3, <1>4 DEF Page
<1>6. page' = [page EXCEPT ![m.user] = [p EXCEPT !.edit[section] = b]]
  BY DEF ReceiveOn
<1> HIDE DEF p, b
<1>7. page' \in [Users -> Page]
  BY <1>1, <1>5, <1>6 DEF IInv
<1>8. store' \in [Users -> Case]
  BY <1>1 DEF ReceiveOn, IInv
<1>9. \A n \in flight' : Sound(n)
  BY DEF ReceiveOn, IInv
<1>10. AnnouncedIsSaved'
  BY DEF ReceiveOn, IInv, AnnouncedIsSaved, Honest, Excused
<1> QED
  BY <1>7, <1>8, <1>9, <1>10 DEF ReceiveOn, IInv

\* An announcement that says no more than the answer did.
LEMMA AnnouncesOK ==
    ASSUME NEW m, NEW good \in BOOLEAN, Sound(m), m.at # "sent",
           m.op \in Mutations \cup {"review"},
           good => m.result = "ok" \/ m.section = "note"
    PROVE  Honest(Announces(m, good))
  BY DEF Announces, Sound, Truthful, Honest, Excused

\* What the store takes from an answer keeps its type.
LEMMA AnswerOK ==
    ASSUME NEW m, Sound(m), NEW s \in Case
    PROVE  /\ CaseId(m) \in Leads /\ Complete(m) \in {"undefined", "null", "set"}
           /\ WithCaseFile(s, m) \in Case
<1>1. m.lead \in Complaints /\ m.file \in File
  BY DEF Sound, Msg
<1>2. m.file.note \in Texts \cup {None} /\ m.file.equipment \in [Items -> States]
      /\ m.file.animal \in [Items -> States]
  BY <1>1 DEF File
<1>3. Complete(m) \in {"undefined", "null", "set"}
  BY DEF Complete
<1>4. CaseId(m) \in Leads
  BY <1>1 DEF CaseId, Leads
<1> HIDE DEF Complete
<1>5. WithCaseFile(s, m) \in Case
  BY <1>2, <1>3 DEF WithCaseFile, Case
<1> QED
  BY <1>3, <1>4, <1>5

LEMMA LearnsOK ==
    ASSUME IInv, NEW m \in flight
    PROVE  /\ m.user \in Users /\ m.lead \in Complaints /\ store[m.user] \in Case
           /\ Learns(m) \in Leads
<1>1. m.user \in Users /\ m.lead \in Complaints
  BY DEF IInv, Sound, Msg
<1>2. store[m.user] \in Case
  BY <1>1 DEF IInv
<1>3. store[m.user].caseId \in Leads
  BY <1>2 DEF Case
<1> QED
  BY <1>1, <1>2, <1>3 DEF Learns, Leads

\* A request that goes on keeps what it carries.
LEMMA BecomesOK ==
    ASSUME IInv, NEW m \in flight, NEW n, Sound(n), Becomes(m, n)
    PROVE  \A k \in flight' : Sound(k)
  BY DEF Becomes, IInv

-----------------------------------------------------------------------------
(* The initial state, and what an officer does.                            *)

LEMMA Blanks == NoFile \in File /\ NoCase \in Case /\ \A c \in Leads : NewPage(c) \in Page
<1>1. NoFile \in File /\ NoCase \in Case
  BY DEF NoFile, File, NoCase, Case, NoItems, States, Leads
<1>2. ASSUME NEW c \in Leads PROVE NewPage(c) \in Page
  BY DEF NewPage, Page, ReviewState
<1> QED
  BY <1>1, <1>2

LEMMA InitOK == Init => IInv
<1> SUFFICES ASSUME Init PROVE IInv
  OBVIOUS
<1>1. \A f \in Begun : f \in File
  <2> DEFINE e == [i \in Items |-> "open"]
  <2>1. e \in [Items -> States]
    BY DEF States
  <2>2. Begun = {[NoFile EXCEPT !.id = TRUE, !.assessment = a, !.equipment = e] :
                    a \in Texts \cup {None}}
    BY DEF Begun
  <2> HIDE DEF e
  <2>3. ASSUME NEW a \in Texts \cup {None}
        PROVE  [NoFile EXCEPT !.id = TRUE, !.assessment = a, !.equipment = e] \in File
    BY <2>1, Blanks DEF File
  <2> QED
    BY <2>2, <2>3
<1>2. file \in [Complaints -> File]
  BY <1>1, Blanks DEF Init
<1>3. status \in [Complaints -> Statuses]
  BY DEF Init, Statuses
<1>4. store \in [Users -> Case]
  BY Blanks DEF Init
<1>5. NewPage(None) \in Page
  BY Blanks DEF Leads
<1>6. page \in [Users -> Page]
  BY <1>5 DEF Init
<1> QED
  BY <1>2, <1>3, <1>4, <1>6, CaseAssumption DEF Init, IInv, AnnouncedIsSaved

\* A step of one browser's store and page that may send sound requests.
LEMMA BrowserOK ==
    ASSUME IInv, NEW u \in Users, NEW s \in Case, NEW p \in Page,
           store' = [store EXCEPT ![u] = s], page' = [page EXCEPT ![u] = p],
           \A m \in flight' : m \in flight \/ Sound(m),
           UNCHANGED <<file, status, toasts>>,
           saves' \in 0..MaxEvents, faults' \in 0..MaxEvents
    PROVE  IInv'
  BY DEF IInv, AnnouncedIsSaved

LEMMA Mine ==
    ASSUME IInv, NEW u \in Users
    PROVE  /\ store[u] \in Case /\ page[u] \in Page
           /\ store = [store EXCEPT ![u] = store[u]] /\ page = [page EXCEPT ![u] = page[u]]
  BY DEF IInv

LEMMA OpenOK == ASSUME IInv, NEW u \in Users, NEW c \in Complaints, Open(u, c) PROVE IInv'
<1> DEFINE kept == store[u].status # None /\ store[u].lead = c
           s == IF kept THEN store[u] ELSE [store[u] EXCEPT !.status = None]
           p == Follows(NewPage(c), NoCase, s, Forms)
           ops == IF kept THEN {"case"} \cup Forms ELSE {"case", "complaint"}
<1>1. store[u] \in Case
  BY Mine
<1>2. s \in Case
  BY <1>1 DEF Case
<1>3. NewPage(c) \in Page
  BY Blanks DEF Leads
<1>4. p \in Page
  BY <1>2, <1>3, Blanks, FollowsOK
<1>5. ops \in SUBSET (Reads \ {"find"}) /\ "open" \in Causes
  BY DEF Reads, Forms, Causes
<1>6. store \in [Users -> Case]
  BY DEF IInv
<1>7. /\ store' = [store EXCEPT ![u] = s] /\ page' = [page EXCEPT ![u] = p]
      /\ flight' = flight \cup Gets(u, c, ops, "open")
      /\ UNCHANGED <<file, status, toasts, saves, faults>>
  BY DEF Open, Stores, Shows, Send
<1> HIDE DEF s, p, ops
<1>8. \A m \in Gets(u, c, ops, "open") : Sound(m)
  BY <1>5, <1>6, GetsSound
<1>9. saves' \in 0..MaxEvents /\ faults' \in 0..MaxEvents
  BY <1>7 DEF IInv
<1> QED
  BY <1>2, <1>4, <1>7, <1>8, <1>9, BrowserOK

LEMMA LeaveOK == ASSUME IInv, NEW u \in Users, Leave(u) PROVE IInv'
<1>1. NewPage(None) \in Page /\ NoCase \in Case
  BY Blanks DEF Leads
<1>2. saves' \in 0..MaxEvents /\ faults' \in 0..MaxEvents
  BY DEF Leave, IInv
<1>3. /\ store' = [store EXCEPT ![u] = NoCase] /\ page' = [page EXCEPT ![u] = NewPage(None)]
      /\ flight' = flight /\ UNCHANGED <<file, status, toasts>>
  BY DEF Leave, Stores, Shows
<1> QED
  BY <1>1, <1>2, <1>3, BrowserOK

\* A step that changes the page alone.
LEMMA ShowsOK ==
    ASSUME IInv, NEW u \in Users, NEW p \in Page, Shows(u, p),
           UNCHANGED <<file, status, store, flight, toasts, saves, faults>>
    PROVE  IInv'
<1>1. store' = [store EXCEPT ![u] = store[u]] /\ store[u] \in Case
  BY Mine
<1>2. saves' \in 0..MaxEvents /\ faults' \in 0..MaxEvents
  BY DEF IInv
<1> QED
  BY <1>1, <1>2, BrowserOK DEF Shows

LEMMA EditCancelOK ==
    ASSUME IInv, NEW u \in Users, NEW s \in Sections, Edit(u, s) \/ Cancel(u, s)
    PROVE  IInv'
<1> DEFINE P(b) == [page[u] EXCEPT !.edit[s] = b]
<1>1. ASSUME NEW b \in BOOLEAN PROVE P(b) \in Page
  <2>1. page[u] \in Page
    BY Mine
  <2>2. page[u].edit \in [Sections -> BOOLEAN]
    BY <2>1 DEF Page
  <2> QED
    BY <2>1, <2>2 DEF Page
<1>2. CASE Edit(u, s)
  <2>1. Shows(u, P(TRUE))
    BY <1>2 DEF Edit
  <2> QED
    BY <1>1, <1>2, <2>1, ShowsOK DEF Edit
<1>3. CASE Cancel(u, s)
  <2> DEFINE b == (s = "assessment" /\ store[u][s] \in {None, Blank})
  <2>1. Shows(u, P(b))
    BY <1>3 DEF Cancel
  <2>2. b \in BOOLEAN
    OBVIOUS
  <2> HIDE DEF b
  <2>3. P(b) \in Page
    BY <1>1, <2>2
  <2> HIDE DEF P
  <2> QED
    BY <1>3, <2>1, <2>3, ShowsOK DEF Cancel
<1> QED
  BY <1>2, <1>3

\* Every step that sends a request to write.
LEMMA SendWriteOK ==
    ASSUME IInv, NEW u \in Users, page[u].open # None,
           NEW op \in Mutations \cup {"find"}, NEW section \in Sections, NEW value,
           value \in (IF section \in Lists THEN ItemValue ELSE Texts \cup {None}),
           op = "find" => section \in Forms \cup {"note"} /\ value \in Texts,
           NEW edit \in BOOLEAN, SendWrite(u, op, section, value, edit, {})
    PROVE  IInv'
<1> DEFINE n == Message(u, page[u].open, op, section, value)
           p == [page[u] EXCEPT !.edit[section] = edit]
<1>1. store[u] \in Case /\ page[u] \in Page /\ store' = [store EXCEPT ![u] = store[u]]
  BY Mine DEF SendWrite
<1>2. page[u].open \in Complaints /\ page[u].edit \in [Sections -> BOOLEAN]
  BY <1>1 DEF Page, Leads
<1>3. p \in Page
  BY <1>1, <1>2 DEF Page
<1>4. Sound(n)
  BY <1>2, WriteSound DEF IInv
<1>5. page' = [page EXCEPT ![u] = p] /\ flight' = flight \cup {n}
      /\ UNCHANGED <<file, status, toasts>>
  BY DEF SendWrite, Shows, Send
<1> HIDE DEF n, p
<1>6. saves' \in 0..MaxEvents /\ faults' \in 0..MaxEvents
  BY CaseAssumption DEF SendWrite, IInv
<1> QED
  BY <1>1, <1>3, <1>4, <1>5, <1>6, BrowserOK

LEMMA FillsOK == ASSUME IInv, NEW u \in Users, Fills(u) PROVE IInv'
<1>1. ASSUME NEW s \in Sections, Edit(u, s) \/ Cancel(u, s) PROVE IInv'
  BY <1>1, EditCancelOK
<1>2. ASSUME NEW s \in Forms, NEW t \in Texts, SaveForm(u, s, t) PROVE IInv'
  <2>1. s \in Sections /\ s \notin Lists
    BY DEF Sections, Forms, Lists
  <2>2. page[u].open # None /\ SendWrite(u, "find", s, t, FALSE, {})
    BY <1>2 DEF SaveForm, Acts
  <2> QED
    BY <2>1, <2>2, SendWriteOK
<1>3. ASSUME NEW t \in Texts, SaveNote(u, t) PROVE IInv'
  <2> DEFINE op == IF store[u].note = None THEN "create" ELSE "find"
  <2>1. "note" \in Sections /\ "note" \notin Lists /\ op \in Mutations \cup {"find"}
    BY DEF Sections, Lists, Mutations
  <2>2. page[u].open # None /\ SendWrite(u, op, "note", t, TRUE, {})
    BY <1>3 DEF SaveNote, Acts
  <2> HIDE DEF op
  <2> QED
    BY <2>1, <2>2, SendWriteOK
<1>4. ASSUME DeleteNote(u) PROVE IInv'
  <2>1. "note" \in Sections /\ "note" \notin Lists /\ "delete" \in Mutations
    BY DEF Sections, Lists, Mutations
  <2>2. page[u].open # None /\ SendWrite(u, "delete", "note", None, FALSE, {})
    BY <1>4 DEF DeleteNote, Acts
  <2> QED
    BY <2>1, <2>2, SendWriteOK
<1>5. ASSUME NEW s \in Lists, NEW i \in Items, DeleteItem(u, s, i) PROVE IInv'
  <2> DEFINE v == [item |-> i, state |-> "absent"]
  <2>1. s \in Sections /\ "delete" \in Mutations
    BY DEF Sections, Mutations
  <2>2. v \in ItemValue
    BY DEF ItemValue, States
  <2>3. page[u].open # None /\ SendWrite(u, "delete", s, v, page[u].edit[s], {})
    BY <1>5 DEF DeleteItem, Acts
  <2>4. page[u] \in Page
    BY Mine
  <2>5. page[u].edit[s] \in BOOLEAN
    BY <2>1, <2>4 DEF Page
  <2> HIDE DEF v
  <2> QED
    BY <2>1, <2>2, <2>3, <2>5, SendWriteOK
<1>6. ASSUME NEW s \in Lists, NEW i \in Items, NEW state \in {"open", "done"},
             SaveItem(u, s, i, state)
      PROVE  IInv'
  <2> DEFINE v == [item |-> i, state |-> state]
             new == (store[u][s][i] = "absent")
             op == IF new THEN "create" ELSE "update"
             edit == (new /\ s = "animal")
  <2>1. s \in Sections /\ op \in Mutations /\ edit \in BOOLEAN
    BY DEF Sections, Mutations
  <2>2. v \in ItemValue
    BY DEF ItemValue, States
  <2>3. page[u].open # None /\ SendWrite(u, op, s, v, edit, {})
    BY <1>6 DEF SaveItem, Acts
  <2> HIDE DEF v, op, edit
  <2>4. op = "find" => s \in Forms \cup {"note"} /\ v \in Texts
    BY <2>1 DEF Mutations
  <2> QED
    BY <2>1, <2>2, <2>3, <2>4, SendWriteOK
<1> QED
  BY <1>1, <1>2, <1>3, <1>4, <1>5, <1>6 DEF Fills

\* Reviews: the officer's own ticks, and the request with the status asked for beside it.
LEMMA ReviewOK ==
    ASSUME IInv, NEW u \in Users, NEW r \in ReviewState, Review(u, r)
    PROVE  IInv'
<1>1. page[u] \in Page
  BY Mine
<1>2. [page[u] EXCEPT !.review = r] \in Page
  BY <1>1 DEF Page
<1> QED
  BY <1>2, ShowsOK DEF Review

LEMMA SaveReviewOK == ASSUME IInv, NEW u \in Users, SaveReview(u) PROVE IInv'
<1> DEFINE r == page[u].review
           v == [creates |-> r.completed \/ r.at = "request",
                 required |-> r.required, complete |-> r.completed]
           at == IF r.at # "edit" THEN r.at ELSE IF r.required THEN "display" ELSE "request"
           q == [r EXCEPT !.at = at]
           p == [page[u] EXCEPT !.review = q]
           n == Message(u, page[u].open, "review", "none", v)
           gets == Gets(u, page[u].open, {"status"}, "save")
<1>1. store[u] \in Case /\ page[u] \in Page /\ store' = [store EXCEPT ![u] = store[u]]
  BY Mine DEF SaveReview
<1>2. r \in ReviewState /\ page[u].open \in Complaints
  BY <1>1 DEF SaveReview, Acts, Page, Leads
<1>3. q \in ReviewState /\ v \in ReviewValue
  BY <1>2 DEF ReviewState, ReviewValue
<1>4. p \in Page
  BY <1>1, <1>3 DEF Page
<1>5. page' = [page EXCEPT ![u] = p]
  BY <1>1, <1>2 DEF SaveReview, Shows, Page, ReviewState
<1>6. flight' = flight \cup ({n} \cup gets) /\ UNCHANGED <<file, status, toasts>>
  BY DEF SaveReview, Send
<1>7. saves' \in 0..MaxEvents /\ faults' \in 0..MaxEvents
  BY CaseAssumption DEF SaveReview, IInv
<1>8. \A m \in gets : Sound(m)
  <2>1. {"status"} \in SUBSET (Reads \ {"find"}) /\ "save" \in Causes
    BY DEF Reads, Causes
  <2> QED
    BY <1>2, <2>1, GetsSound DEF IInv
<1>9. Sound(n)
  <2>1. store[u].caseId \in Leads
    BY <1>1 DEF Case
  <2> HIDE DEF v
  <2>2. n \in Msg
    BY <1>2, <1>3, <2>1, Blanks DEF Message, Msg, Statuses
  <2>3. n.op = "review" /\ n.at = "sent" /\ n.value = v
    BY DEF Message
  <2>4. "review" \notin Reads /\ "review" \notin Mutations
    BY DEF Reads, Forms, Mutations
  <2> QED
    BY <1>3, <2>2, <2>3, <2>4 DEF Sound, Carries, Truthful
<1> HIDE DEF p, n, gets
<1> QED
  BY <1>1, <1>4, <1>5, <1>6, <1>7, <1>8, <1>9, BrowserOK

LEMMA ReviewsOK == ASSUME IInv, NEW u \in Users, Reviews(u) PROVE IInv'
<1>1. page[u].review \in ReviewState
  BY Mine DEF Page
<1>2. CASE EditReview(u)
  <2>1. [page[u].review EXCEPT !.at = "edit"] \in ReviewState
    BY <1>1 DEF ReviewState
  <2> QED
    BY <1>2, <2>1, ReviewOK DEF EditReview
<1>3. CASE TickRequired(u)
  <2> DEFINE r == page[u].review
             q == [r EXCEPT !.required = ~r.required, !.completed = r.completed /\ ~r.required]
  <2>1. q \in ReviewState
    BY <1>1 DEF ReviewState
  <2>2. Review(u, q)
    BY <1>1, <1>3 DEF TickRequired, ReviewState
  <2> HIDE DEF q
  <2> QED
    BY <2>1, <2>2, ReviewOK
<1>4. CASE TickComplete(u)
  <2> DEFINE r == page[u].review
             q == [r EXCEPT !.completed = ~r.completed]
  <2>1. q \in ReviewState
    BY <1>1 DEF ReviewState
  <2>2. Review(u, q)
    BY <1>1, <1>4 DEF TickComplete, ReviewState
  <2> HIDE DEF q
  <2> QED
    BY <2>1, <2>2, ReviewOK
<1> QED
  BY <1>2, <1>3, <1>4, SaveReviewOK DEF Reviews

-----------------------------------------------------------------------------
(* Closing a complaint, on its page or in the list.                        *)

LEMMA CloseSound ==
    ASSUME IInv, NEW u \in Users, NEW c \in Complaints, NEW new \in Statuses,
           NEW from \in {"page", "list"}
    PROVE  Sound(Message(u, c, "close", from, new))
<1> DEFINE n == Message(u, c, "close", from, new)
<1>1. store[u].caseId \in Leads
  BY Mine DEF Case
<1>2. n \in Msg
  BY <1>1, Blanks DEF Message, Msg, Statuses
<1>3. n.op = "close" /\ n.at = "sent" /\ n.value = new
  BY DEF Message
<1>4. "close" \notin Reads /\ "close" \notin Mutations
  BY DEF Reads, Forms, Mutations
<1> QED
  BY <1>2, <1>3, <1>4 DEF Sound, Carries, Truthful

LEMMA ChangeStatusOK ==
    ASSUME IInv, NEW u \in Users, NEW c \in Complaints, NEW new \in {"OPEN", "CLOSED"},
           NEW from \in {"page", "list"}, ChangeStatus(u, c, new, from)
    PROVE  IInv'
<1> DEFINE s == [store[u] EXCEPT !.modal = None]
<1>1. store[u] \in Case /\ page[u] \in Page /\ page' = [page EXCEPT ![u] = page[u]]
  BY Mine DEF ChangeStatus
<1>2. s \in Case
  BY <1>1 DEF Case, Leads
<1>3. Sound(Message(u, c, "close", from, new))
  BY CloseSound DEF Statuses
<1>4. /\ store' = [store EXCEPT ![u] = s]
      /\ flight' = flight \cup {Message(u, c, "close", from, new)}
      /\ UNCHANGED <<file, status, toasts>>
  BY DEF ChangeStatus, Stores, Send
<1>5. saves' \in 0..MaxEvents /\ faults' \in 0..MaxEvents
  BY CaseAssumption DEF ChangeStatus, IInv
<1> HIDE DEF s
<1> QED
  BY <1>1, <1>2, <1>3, <1>4, <1>5, BrowserOK

LEMMA ClosesOK == ASSUME IInv, NEW u \in Users, Closes(u) PROVE IInv'
<1>1. store[u] \in Case /\ page[u] \in Page /\ page = [page EXCEPT ![u] = page[u]]
      /\ store = [store EXCEPT ![u] = store[u]]
  BY Mine
<1>2. ASSUME NEW new \in {"OPEN", "CLOSED"}, ChangeStatusOnPage(u, new) PROVE IInv'
  <2>1. page[u].open \in Complaints
    BY <1>1, <1>2 DEF ChangeStatusOnPage, Acts, Page, Leads
  <2> QED
    BY <1>2, <2>1, ChangeStatusOK DEF ChangeStatusOnPage
<1>3. ASSUME NEW new \in {"OPEN", "CLOSED"}, ChangeStatusInList(u, new) PROVE IInv'
  <2>1. store[u].modal \in Complaints
    BY <1>1, <1>3 DEF ChangeStatusInList, Case, Leads
  <2> QED
    BY <1>3, <2>1, ChangeStatusOK DEF ChangeStatusInList
<1>4. ASSUME NEW c \in Complaints, OpenModalInList(u, c) PROVE IInv'
  <2>1. {"assessment"} \in SUBSET (Reads \ {"find"}) /\ "list" \in Causes
    BY DEF Reads, Forms, Causes
  <2>2. \A m \in Gets(u, c, {"assessment"}, "list") : Sound(m)
    BY <2>1, GetsSound DEF IInv
  <2>3. saves' \in 0..MaxEvents /\ faults' \in 0..MaxEvents
    BY <1>4 DEF OpenModalInList, IInv
  <2> QED
    BY <1>1, <1>4, <2>2, <2>3, BrowserOK DEF OpenModalInList, Send
<1>5. ASSUME CloseModal(u) PROVE IInv'
  <2> DEFINE s == [store[u] EXCEPT !.modal = None]
  <2>1. s \in Case
    BY <1>1 DEF Case, Leads
  <2>2. store' = [store EXCEPT ![u] = s]
    BY <1>5 DEF CloseModal, Stores
  <2>3. saves' \in 0..MaxEvents /\ faults' \in 0..MaxEvents
    BY <1>5 DEF CloseModal, IInv
  <2> HIDE DEF s
  <2> QED
    BY <1>1, <1>5, <2>1, <2>2, <2>3, BrowserOK DEF CloseModal
<1> QED
  BY <1>2, <1>3, <1>4, <1>5 DEF Closes

-----------------------------------------------------------------------------
(* The backend and the case API.                                           *)

LEMMA ServeReadOK == ASSUME IInv, NEW m \in flight, ServeRead(m) PROVE IInv'
<1>1. Sound(m) /\ m.op \in Reads /\ m.at = "sent" /\ m.lead \in Complaints
  BY DEF IInv, ServeRead, Sound, Msg
<1>2. file[m.lead] \in File /\ status[m.lead] \in Statuses
  BY <1>1 DEF IInv
<1>3. m.op \notin Mutations /\ m.op # "review"
  BY <1>1 DEF Reads, Forms, Mutations
<1>4. ASSUME NEW n,
             n = [m EXCEPT !.at = "answered", !.file = file[m.lead], !.status = status[m.lead]]
               \/ n = [m EXCEPT !.at = "answered", !.result = "rejected"]
      PROVE  Sound(n)
  <2>1. n \in Msg
    BY <1>1, <1>2, <1>4 DEF Sound, Msg
  <2>2. n.op = m.op /\ n.section = m.section /\ n.value = m.value /\ n.at = "answered"
    BY <1>1, <1>4 DEF Sound, Msg
  <2> QED
    BY <1>1, <1>3, <2>1, <2>2 DEF Sound, Carries, Truthful
<1>5. \A k \in flight' : Sound(k)
  BY <1>4, BecomesOK DEF ServeRead
<1>6. faults' \in 0..MaxEvents
  BY CaseAssumption DEF ServeRead, Fault, IInv
<1> QED
  BY <1>5, <1>6 DEF ServeRead, IInv, AnnouncedIsSaved

\* What the case API applies leaves a case file.
LEMMA AppliedOK ==
    ASSUME NEW m, Sound(m), m.op \in Mutations \cup {"review"}, NEW f \in File
    PROVE  Applied(f, m) \in File
<1>1. CASE m.op = "review"
  <2>1. m.value \in ReviewValue
    BY <1>1 DEF Sound, Carries
  <2>2. m.value.required \in BOOLEAN /\ (f.complete \/ m.value.complete) \in BOOLEAN
    BY <2>1 DEF ReviewValue, File
  <2>3. Applied(f, m) = [f EXCEPT !.id = TRUE, !.required = m.value.required,
                                  !.complete = f.complete \/ m.value.complete]
    BY <1>1 DEF Applied, File
  <2> QED
    BY <2>2, <2>3 DEF File
<1>2. CASE m.op # "review" /\ m.section \in Lists
  <2>1. m.value \in ItemValue
    BY <1>2 DEF Sound, Carries
  <2>2. m.value.item \in Items /\ m.value.state \in States
    BY <2>1 DEF ItemValue
  <2> DEFINE l == [f[m.section] EXCEPT ![m.value.item] = m.value.state]
  <2>3. f.equipment \in [Items -> States] /\ f.animal \in [Items -> States]
    BY DEF File
  <2>4. f[m.section] \in [Items -> States]
    BY <1>2, <2>3 DEF Lists
  <2>5. l \in [Items -> States]
    BY <2>2, <2>4
  <2>6. Applied(f, m) = [f EXCEPT !.id = TRUE, ![m.section] = l]
    BY <1>2 DEF Applied, File, Lists
  <2> HIDE DEF l
  <2> QED
    BY <1>2, <2>5, <2>6 DEF File, Lists
<1>3. CASE m.op # "review" /\ m.section \notin Lists
  <2>1. m.value \in Texts \cup {None} /\ m.section \in {"assessment", "prevention", "note"}
    BY <1>3 DEF Sound, Carries, Sections, Forms, Lists
  <2>2. Applied(f, m) = [f EXCEPT !.id = TRUE, ![m.section] = m.value]
    BY <1>3 DEF Applied
  <2> QED
    BY <2>1, <2>2 DEF File
<1> QED
  BY <1>1, <1>2, <1>3

LEMMA ServeWriteOK == ASSUME IInv, NEW m \in flight, ServeWrite(m) PROVE IInv'
<1>1. Sound(m) /\ m.op \in Mutations \cup {"review"} /\ m.at = "sent" /\ m.lead \in Complaints
      /\ m \in Msg
  BY DEF IInv, ServeWrite, Sound, Msg
<1>2. PICK done \in BOOLEAN, data \in {"file", "hollow", "none"} :
         /\ data = "file" => done
         /\ UNCHANGED faults \/ Fault
         /\ file' = IF done THEN [file EXCEPT ![m.lead] = Applied(file[m.lead], m)] ELSE file
         /\ Becomes(m, [Reply(m, data) EXCEPT !.applied = done, !.file = file'[m.lead]])
  BY <1>1 DEF ServeWrite, IInv
<1>3. file' \in [Complaints -> File]
  <2>1. file[m.lead] \in File
    BY <1>1 DEF IInv
  <2>2. Applied(file[m.lead], m) \in File
    BY <1>1, <2>1, AppliedOK
  <2> QED
    BY <1>1, <1>2, <2>2 DEF IInv
<1>4. PICK at, result :
         /\ Reply(m, data) = [m EXCEPT !.at = at, !.result = result]
         /\ at \in {"written", "answered"} /\ result \in {"ok", "empty", "rejected"}
         /\ at = "written" => m.op = "review"
         /\ result = "ok" => done \/ Excused(m)
  <2> DEFINE a == IF m.op = "review" /\ (data = "file" \/ (data = "hollow" /\ ~m.value.creates))
                  THEN "written" ELSE "answered"
             b == IF \/ data = "file"
                     \/ data = "hollow" /\ m.op = "delete" /\ m.section = "equipment"
                  THEN "ok"
                  ELSE IF data = "none" /\ m.op = "review" THEN "rejected" ELSE "empty"
  <2>1. Reply(m, data) = [m EXCEPT !.at = a, !.result = b]
    BY DEF Reply
  <2>2. a \in {"written", "answered"} /\ b \in {"ok", "empty", "rejected"}
        /\ (a = "written" => m.op = "review") /\ (b = "ok" => done \/ Excused(m))
    BY <1>2 DEF Excused
  <2> QED
    BY <2>1, <2>2
<1> DEFINE n == [m EXCEPT !.at = at, !.result = result, !.applied = done, !.file = file'[m.lead]]
<1>5. Becomes(m, n) /\ file'[m.lead] \in File
  <2>1. [Reply(m, data) EXCEPT !.applied = done, !.file = file'[m.lead]] = n
    BY <1>1, <1>4 DEF Msg
  <2> QED
    BY <1>1, <1>2, <1>3, <2>1
<1>6. n \in Msg
  BY <1>1, <1>4, <1>5 DEF Msg
<1>7. /\ n.op = m.op /\ n.section = m.section /\ n.value = m.value
      /\ n.at = at /\ n.result = result /\ n.applied = done
  BY <1>1 DEF Msg
<1> HIDE DEF n
<1>8. m.op \notin Reads
  BY <1>1 DEF Reads, Forms, Mutations
<1>9. Sound(n)
  BY <1>1, <1>4, <1>6, <1>7, <1>8 DEF Sound, Carries, Truthful, Excused
<1>10. \A k \in flight' : Sound(k)
  BY <1>5, <1>9, BecomesOK
<1>11. faults' \in 0..MaxEvents
  BY <1>2, CaseAssumption DEF Fault, IInv
<1> QED
  BY <1>3, <1>10, <1>11 DEF ServeWrite, IInv, AnnouncedIsSaved

LEMMA ServeStatusOK ==
    ASSUME IInv, NEW m \in flight, WriteStatus(m) \/ ServeClose(m) PROVE IInv'
<1> DEFINE n == [m EXCEPT !.at = "answered"]
<1>1. Sound(m) /\ m \in Msg /\ m.lead \in Complaints
  BY DEF IInv, Sound, Msg
<1>2. n \in Msg
  BY <1>1 DEF Msg
<1>3. /\ n.op = m.op /\ n.section = m.section /\ n.value = m.value
      /\ n.at = "answered" /\ n.result = m.result /\ n.applied = m.applied
  BY <1>1 DEF Msg
<1>4. Becomes(m, n)
  BY DEF WriteStatus, ServeClose
<1> HIDE DEF n
<1>5. m.at = "written" \/ m.op = "close"
  BY DEF WriteStatus, ServeClose
<1>6. "close" \notin Mutations
  BY DEF Mutations
<1>7. Sound(n)
  BY <1>1, <1>2, <1>3, <1>5, <1>6 DEF Sound, Carries, Truthful, Excused
<1>8. \A k \in flight' : Sound(k)
  BY <1>4, <1>7, BecomesOK
<1>9. status' \in [Complaints -> Statuses]
  <2>1. status[m.lead] \in Statuses
    BY <1>1 DEF IInv
  <2>2. CASE WriteStatus(m)
    <3> DEFINE v == IF m.value.required THEN "PENDREV"
                    ELSE IF m.value.creates THEN status[m.lead] ELSE "OPEN"
    <3>1. v \in Statuses
      BY <2>1 DEF Statuses
    <3>2. status' = [status EXCEPT ![m.lead] = v] \/ status' = status
      BY <1>1, <2>2 DEF WriteStatus, IInv
    <3> HIDE DEF v
    <3> QED
      BY <3>1, <3>2 DEF IInv
  <2>3. CASE ServeClose(m)
    <3>1. m.value \in Statuses
      BY <1>1, <2>3 DEF ServeClose, Sound, Carries
    <3> QED
      BY <2>3, <3>1 DEF ServeClose, IInv
  <2> QED
    BY <2>2, <2>3
<1>10. faults' \in 0..MaxEvents
  BY CaseAssumption DEF WriteStatus, ServeClose, Fault, IInv
<1> QED
  BY <1>8, <1>9, <1>10 DEF WriteStatus, ServeClose, IInv, AnnouncedIsSaved

-----------------------------------------------------------------------------
(* The replies.                                                            *)

\* What a browser asks for next is sound.
LEMMA AsksOK ==
    ASSUME IInv, NEW m \in flight, NEW ops \in SUBSET (Reads \ {"find"}), NEW cause \in Causes
    PROVE  /\ \A n \in Gets(m.user, m.lead, ops, cause) : Sound(n)
           /\ \A n \in FormGets(m.user, m.lead, cause) : Sound(n)
<1>1. m.user \in Users /\ m.lead \in Complaints
  BY LearnsOK
<1>2. ASSUME NEW o \in SUBSET (Reads \ {"find"})
      PROVE  \A n \in Gets(m.user, m.lead, o, cause) : Sound(n)
  BY <1>1, <1>2, GetsSound DEF IInv
<1>3. Forms \in SUBSET (Reads \ {"find"}) /\ {} \in SUBSET (Reads \ {"find"})
  BY DEF Forms, Reads
<1>4. (IF page[m.user].open = None THEN {} ELSE Forms) \in SUBSET (Reads \ {"find"})
  BY <1>3
<1> QED
  BY <1>2, <1>4 DEF FormGets

LEMMA ReceiveRejectionOK == ASSUME IInv, NEW m \in flight, ReceiveRejection(m) PROVE IInv'
  BY LearnsOK, NothingSaid, ReceiveOK DEF ReceiveRejection

LEMMA ReceiveReadOK == ASSUME IInv, NEW m \in flight, ReceiveRead(m) PROVE IInv'
<1> DEFINE s == store[m.user]
           gets == FormGets(m.user, m.lead, m.value)
<1>1. Sound(m) /\ s \in Case /\ m.lead \in Complaints /\ m.file \in File /\ m.status \in Statuses
  BY LearnsOK DEF IInv, Sound, Msg
<1>2. CaseId(m) \in Leads /\ Complete(m) \in {"undefined", "null", "set"}
      /\ WithCaseFile(s, m) \in Case
  BY <1>1, AnswerOK
<1>3. m.file.assessment \in Texts \cup {None} /\ m.file.prevention \in Texts \cup {None}
      /\ m.file.required \in BOOLEAN
  BY <1>1 DEF File
<1>4. ASSUME m.op \in {"complaint", "status"} PROVE \A n \in gets : Sound(n)
  <2>1. m.op \in Reads \ {"find"}
    BY <1>4 DEF Reads
  <2>2. m.value \in Causes
    BY <1>1, <2>1 DEF Sound, Carries
  <2>3. {} \in SUBSET (Reads \ {"find"})
    OBVIOUS
  <2> QED
    BY <2>2, <2>3, AsksOK
<1> HIDE DEF s, gets
<1>5. CASE m.op = "case" /\ Receive(m, WithCaseFile(s, m), {}, {})
  BY <1>2, <1>5, NothingSaid, ReceiveOK
<1>6. ASSUME NEW modal,
             modal = (IF m.value = "list" THEN m.lead ELSE s.modal),
             Receive(m, [s EXCEPT !.assessment = m.file.assessment, !.caseId = CaseId(m),
                                  !.required = m.file.required, !.complete = Complete(m),
                                  !.modal = modal], {}, {})
      PROVE  IInv'
  <2> DEFINE t == [s EXCEPT !.assessment = m.file.assessment, !.caseId = CaseId(m),
                            !.required = m.file.required, !.complete = Complete(m),
                            !.modal = modal]
  <2>1. modal \in Leads
    BY <1>1, <1>6 DEF Case, Leads
  <2>2. t \in Case
    BY <1>1, <1>2, <1>3, <2>1 DEF Case
  <2> HIDE DEF t
  <2>3. Receive(m, t, {}, {})
    BY <1>6 DEF t
  <2> QED
    BY <2>2, <2>3, NothingSaid, ReceiveOK
<1>7. CASE m.op = "prevention" /\ Receive(m, [s EXCEPT !.prevention = m.file.prevention], {}, {})
  <2>1. [s EXCEPT !.prevention = m.file.prevention] \in Case
    BY <1>1, <1>3 DEF Case
  <2> QED
    BY <1>7, <2>1, NothingSaid, ReceiveOK
<1>8. CASE m.op = "complaint"
           /\ Receive(m, [s EXCEPT !.status = m.status, !.lead = m.lead], {}, gets)
  <2>1. [s EXCEPT !.status = m.status, !.lead = m.lead] \in Case
    BY <1>1 DEF Case, Leads
  <2> QED
    BY <1>4, <1>8, <2>1, NothingSaid, ReceiveOK
<1>9. CASE m.op = "status" /\ Receive(m, [s EXCEPT !.status = m.status], {}, gets)
  <2>1. [s EXCEPT !.status = m.status] \in Case
    BY <1>1 DEF Case
  <2> QED
    BY <1>4, <1>9, <2>1, NothingSaid, ReceiveOK
<1>10. CASE Receive(m, s, {}, {})
  BY <1>1, <1>10, NothingSaid, ReceiveOK
<1>11. \/ m.op = "case" /\ Receive(m, WithCaseFile(s, m), {}, {})
       \/ \E modal : /\ modal = (IF m.value = "list" THEN m.lead ELSE s.modal)
                     /\ Receive(m, [s EXCEPT !.assessment = m.file.assessment, !.caseId = CaseId(m),
                                             !.required = m.file.required, !.complete = Complete(m),
                                             !.modal = modal], {}, {})
       \/ m.op = "prevention" /\ Receive(m, [s EXCEPT !.prevention = m.file.prevention], {}, {})
       \/ m.op = "complaint"
          /\ Receive(m, [s EXCEPT !.status = m.status, !.lead = m.lead], {}, gets)
       \/ m.op = "status" /\ Receive(m, [s EXCEPT !.status = m.status], {}, gets)
       \/ Receive(m, s, {}, {})
  <2>1. s = store[m.user] /\ gets = FormGets(m.user, m.lead, m.value)
    BY DEF s, gets
  <2>2. s.modal \in Leads
    BY <1>1 DEF Case
  <2> QED
    BY <2>1, Zenon DEF ReceiveRead
<1> QED
  BY <1>5, <1>6, <1>7, <1>8, <1>9, <1>10, <1>11

LEMMA ReceiveFindOK == ASSUME IInv, NEW m \in flight, ReceiveFind(m) PROVE IInv'
<1> DEFINE op == IF m.file.id \/ m.section = "note" THEN "update" ELSE "create"
           case == IF m.file.id \/ m.section = "note" THEN CaseId(m) ELSE store[m.user].caseId
           n == [m EXCEPT !.at = "sent", !.file = NoFile, !.status = "OPEN",
                          !.op = op, !.case = case]
<1>1. Sound(m) /\ m \in Msg /\ store[m.user] \in Case /\ m.op = "find"
  BY LearnsOK DEF IInv, Sound, ReceiveFind
<1>2. op \in Mutations /\ case \in Leads
  <2>1. CaseId(m) \in Leads /\ store[m.user].caseId \in Leads
    BY <1>1, AnswerOK DEF Case
  <2> QED
    BY <2>1 DEF Mutations
<1>3. Receive(m, store[m.user], {}, {n})
  BY DEF ReceiveFind
<1> HIDE DEF op, case
<1>4. n \in Msg
  BY <1>1, <1>2, Blanks DEF Msg, Statuses
<1>5. n.op = op /\ n.at = "sent" /\ n.section = m.section /\ n.value = m.value
  BY <1>1 DEF Msg
<1> HIDE DEF n
<1>6. m.section \in Forms \cup {"note"} /\ m.value \in Texts
  BY <1>1 DEF Sound, Carries
<1>7. m.section \in Sections /\ m.section \notin Lists
  BY <1>6 DEF Sections, Forms, Lists
<1>8. op \notin Reads /\ op # "review" /\ op # "close"
  BY <1>2 DEF Reads, Forms, Mutations
<1>9. Sound(n)
  BY <1>4, <1>5, <1>6, <1>7, <1>8 DEF Sound, Carries, Truthful
<1> QED
  BY <1>1, <1>3, <1>9, NothingSaid, ReceiveOK

LEMMA ReceiveFormOK == ASSUME IInv, NEW m \in flight, ReceiveForm(m) PROVE IInv'
<1>1. Sound(m) /\ store[m.user] \in Case /\ m.file \in File /\ Learns(m) \in Leads
  BY LearnsOK DEF IInv, Sound, Msg
<1>2. PICK form \in Forms : Replied(m, form) /\ (FormCreated(m, form) \/ FormUpdated(m, form))
  BY DEF ReceiveForm
<1>3. m.file[form] \in Texts \cup {None} /\ form \in {"assessment", "prevention"}
  BY <1>1 DEF File, Forms
<1>4. Honest(Announces(m, FALSE))
  BY DEF Announces, Honest
<1>5. m.result = "ok"
      => Honest(Announces(m, TRUE))
  BY <1>1, <1>2, AnnouncesOK DEF Replied
<1> DEFINE s == store[m.user]
           gets == Gets(m.user, m.lead, {form}, "update")
<1>6. ASSUME NEW v \in Texts \cup {None, Blank}, NEW i \in Leads
      PROVE  [s EXCEPT ![form] = v, !.caseId = i] \in Case /\ [s EXCEPT ![form] = v] \in Case
  BY <1>1, <1>3 DEF Case
<1>7. \A n \in gets : Sound(n)
  <2>1. {form} \in SUBSET (Reads \ {"find"}) /\ "update" \in Causes
    BY <1>3 DEF Reads, Forms, Causes
  <2> QED
    BY <2>1, AsksOK
<1>8. CASE m.result = "ok"
           /\ Receive(m, [s EXCEPT ![form] = m.file[form], !.caseId = Learns(m)],
                      Announces(m, TRUE), {})
  <2> DEFINE t == [s EXCEPT ![form] = m.file[form], !.caseId = Learns(m)]
             made == Announces(m, TRUE)
  <2>1. t \in Case
    BY <1>1, <1>3, <1>6
  <2>2. Receive(m, t, made, {}) /\ Honest(made)
    BY <1>5, <1>8
  <2> HIDE DEF t, made
  <2> QED
    BY <2>1, <2>2, NothingSaid, ReceiveOK
<1>9. CASE Receive(m, [s EXCEPT ![form] = Blank], Announces(m, FALSE), {})
  <2> DEFINE t == [s EXCEPT ![form] = Blank]
             made == Announces(m, FALSE)
  <2>1. t \in Case
    BY <1>1, <1>6
  <2>2. Receive(m, t, made, {}) /\ Honest(made)
    BY <1>4, <1>9
  <2> HIDE DEF t, made
  <2> QED
    BY <2>1, <2>2, NothingSaid, ReceiveOK
<1>10. CASE m.result = "ok" /\ Receive(m, [s EXCEPT ![form] = m.file[form]], Announces(m, TRUE), {})
  <2> DEFINE t == [s EXCEPT ![form] = m.file[form]]
             made == Announces(m, TRUE)
  <2>1. t \in Case
    BY <1>1, <1>3, <1>6
  <2>2. Receive(m, t, made, {}) /\ Honest(made)
    BY <1>5, <1>10
  <2> HIDE DEF t, made
  <2> QED
    BY <2>1, <2>2, NothingSaid, ReceiveOK
<1>11. CASE Receive(m, s, Announces(m, FALSE), gets)
  BY <1>1, <1>4, <1>7, <1>11, NothingSaid, ReceiveOK
<1> QED
  BY <1>2, <1>8, <1>9, <1>10, <1>11, Zenon DEF FormCreated, FormUpdated

LEMMA ReceiveNoteOK == ASSUME IInv, NEW m \in flight, ReceiveNote(m) PROVE IInv'
<1> DEFINE i == IF m.op = "delete" THEN store[m.user].caseId
                ELSE IF m.result = "ok" THEN m.lead ELSE None
           s == [store[m.user] EXCEPT !.caseId = i]
           gets == Gets(m.user, m.lead, {"case"}, "note")
<1>1. Sound(m) /\ store[m.user] \in Case /\ m.lead \in Complaints
  BY LearnsOK DEF IInv
<1>2. i \in Leads
  BY <1>1 DEF Case, Leads
<1>3. ReceiveOn(m, "note", s, Announces(m, TRUE), gets)
  BY DEF ReceiveNote
<1> HIDE DEF i
<1>4. s \in Case
  BY <1>1, <1>2 DEF Case
<1>5. Honest(Announces(m, TRUE))
  BY <1>1, AnnouncesOK DEF ReceiveNote, Replied
<1>6. \A n \in gets : Sound(n)
  <2>1. {"case"} \in SUBSET (Reads \ {"find"}) /\ "note" \in Causes
    BY DEF Reads, Forms, Causes
  <2> QED
    BY <2>1, AsksOK
<1>7. "note" \in Sections
  BY DEF Sections
<1> HIDE DEF s, gets
<1> QED
  BY <1>3, <1>4, <1>5, <1>6, <1>7, ReceiveOnOK

LEMMA ReceiveEquipmentOK == ASSUME IInv, NEW m \in flight, ReceiveEquipment(m) PROVE IInv'
<1> DEFINE s == store[m.user]
           gone == [s EXCEPT !.equipment[m.value.item] = "absent"]
           new == IF m.op = "delete" THEN gone ELSE WithCaseFile(s, m)
           i == IF m.op = "create" THEN Learns(m) ELSE new.caseId
           t == IF m.result # "ok" THEN s ELSE [new EXCEPT !.caseId = i]
           good == (m.result = "ok")
<1>1. Sound(m) /\ s \in Case /\ Learns(m) \in Leads
  BY LearnsOK DEF IInv
<1>2. m.op \in Mutations /\ m.section = "equipment" /\ m.at = "answered"
  BY DEF ReceiveEquipment, Replied
<1>3. Receive(m, t, Announces(m, good), {})
  BY DEF ReceiveEquipment
<1>4. gone \in Case
  <2>1. m.value \in ItemValue
    BY <1>1, <1>2 DEF Sound, Carries, Lists
  <2>2. m.value.item \in Items /\ s.equipment \in [Items -> States]
    BY <1>1, <2>1 DEF ItemValue, Case
  <2>3. [s.equipment EXCEPT ![m.value.item] = "absent"] \in [Items -> States]
    BY <2>2 DEF States
  <2> QED
    BY <1>1, <2>3 DEF Case
<1>5. WithCaseFile(s, m) \in Case
  BY <1>1, AnswerOK
<1> HIDE DEF s, gone
<1>6. new \in Case
  BY <1>4, <1>5
<1> HIDE DEF new
<1>7. i \in Leads
  BY <1>1, <1>6 DEF Case
<1> HIDE DEF i
<1>8. t \in Case
  <2>1. [new EXCEPT !.caseId = i] \in Case
    BY <1>6, <1>7 DEF Case
  <2> QED
    BY <1>1, <2>1
<1>9. Honest(Announces(m, good))
  <2>1. good \in BOOLEAN /\ (good => m.result = "ok")
    OBVIOUS
  <2> HIDE DEF good
  <2> QED
    BY <1>1, <1>2, <2>1, AnnouncesOK
<1> HIDE DEF t, good
<1> QED
  BY <1>3, <1>8, <1>9, NothingSaid, ReceiveOK

LEMMA ReceiveAnimalOK == ASSUME IInv, NEW m \in flight, ReceiveAnimal(m) PROVE IInv'
<1> DEFINE s == [store[m.user] EXCEPT !.caseId = m.lead]
           gets == Gets(m.user, m.lead, {"case"}, "animal")
<1>1. Sound(m) /\ store[m.user] \in Case /\ m.lead \in Complaints
  BY LearnsOK DEF IInv
<1>2. m.op \in Mutations /\ m.section = "animal" /\ m.at = "answered"
  BY DEF ReceiveAnimal, Replied
<1>3. s \in Case
  BY <1>1 DEF Case, Leads
<1>4. \A n \in gets : Sound(n)
  <2>1. {"case"} \in SUBSET (Reads \ {"find"}) /\ "animal" \in Causes
    BY DEF Reads, Forms, Causes
  <2> QED
    BY <2>1, AsksOK
<1>5. "animal" \in Sections
  BY DEF Sections, Lists
<1>6. CASE m.result = "ok" /\ ReceiveOn(m, "animal", s, Announces(m, TRUE), gets)
  <2>1. Honest(Announces(m, TRUE))
    BY <1>1, <1>2, <1>6, AnnouncesOK
  <2> HIDE DEF s, gets
  <2> QED
    BY <1>3, <1>4, <1>5, <1>6, <2>1, ReceiveOnOK
<1>7. CASE Receive(m, store[m.user], Announces(m, FALSE), {})
  <2> DEFINE made == Announces(m, FALSE)
  <2>1. Honest(made)
    BY DEF Announces, Honest
  <2>2. Receive(m, store[m.user], made, {})
    BY <1>7
  <2> HIDE DEF made
  <2> QED
    BY <1>1, <2>1, <2>2, NothingSaid, ReceiveOK
<1> QED
  BY <1>6, <1>7 DEF ReceiveAnimal

LEMMA ReceiveReviewOK == ASSUME IInv, NEW m \in flight, ReceiveReview(m) PROVE IInv'
<1> DEFINE i == IF m.value.creates THEN Learns(m) ELSE store[m.user].caseId
           k == IF m.file.complete THEN "set" ELSE store[m.user].complete
           s == [store[m.user] EXCEPT !.caseId = i, !.required = m.file.required, !.complete = k]
           gets == Gets(m.user, m.lead, {"status"}, "review")
<1>1. Sound(m) /\ store[m.user] \in Case /\ Learns(m) \in Leads /\ m.file \in File
  BY LearnsOK DEF IInv, Sound, Msg
<1>2. i \in Leads /\ k \in {"undefined", "null", "set"} /\ m.file.required \in BOOLEAN
  BY <1>1 DEF Case, File
<1>3. \/ m.result = "ok" /\ Receive(m, s, Announces(m, TRUE), gets)
      \/ Receive(m, store[m.user], Announces(m, FALSE), {})
  BY DEF ReceiveReview
<1> HIDE DEF i, k
<1>4. s \in Case
  BY <1>1, <1>2 DEF Case
<1>5. (m.result = "ok" => Honest(Announces(m, TRUE))) /\ Honest(Announces(m, FALSE))
  BY <1>1, AnnouncesOK DEF ReceiveReview
<1>6. \A n \in gets : Sound(n)
  <2>1. {"status"} \in SUBSET (Reads \ {"find"}) /\ "review" \in Causes
    BY DEF Reads, Forms, Causes
  <2> QED
    BY <2>1, AsksOK
<1> HIDE DEF s, gets
<1>7. CASE m.result = "ok" /\ Receive(m, s, Announces(m, TRUE), gets)
  BY <1>4, <1>5, <1>6, <1>7, NothingSaid, ReceiveOK
<1>8. CASE Receive(m, store[m.user], Announces(m, FALSE), {})
  <2> DEFINE made == Announces(m, FALSE)
  <2>1. Honest(made) /\ Receive(m, store[m.user], made, {})
    BY <1>5, <1>8
  <2> HIDE DEF made
  <2> QED
    BY <1>1, <2>1, ReceiveOK
<1> QED
  BY <1>3, <1>7, <1>8

LEMMA ReceiveCloseOK == ASSUME IInv, NEW m \in flight, ReceiveClose(m) PROVE IInv'
<1> DEFINE s == [store[m.user] EXCEPT !.status = None]
           gets == Gets(m.user, m.lead, {"complaint"}, "close")
<1>1. store[m.user] \in Case
  BY LearnsOK
<1>2. s \in Case
  BY <1>1 DEF Case
<1>3. \A n \in gets : Sound(n)
  <2>1. {"complaint"} \in SUBSET (Reads \ {"find"}) /\ "close" \in Causes
    BY DEF Reads, Forms, Causes
  <2> QED
    BY <2>1, AsksOK
<1>4. Receive(m, s, {}, gets)
  BY DEF ReceiveClose
<1> HIDE DEF s, gets
<1> QED
  BY <1>2, <1>3, <1>4, NothingSaid, ReceiveOK

-----------------------------------------------------------------------------
(* Every behaviour.                                                        *)

LEMMA StepOK == ASSUME IInv, [Next]_vars PROVE IInv'
<1>1. CASE UNCHANGED vars
  BY <1>1 DEF vars, IInv, AnnouncedIsSaved
<1>2. ASSUME NEW u \in Users, Visits(u) \/ Fills(u) \/ Reviews(u) \/ Closes(u) PROVE IInv'
  BY <1>2, OpenOK, LeaveOK, FillsOK, ReviewsOK, ClosesOK DEF Visits
<1>3. ASSUME NEW m \in flight, Serve(m) PROVE IInv'
  BY <1>3, ServeReadOK, ServeWriteOK, ServeStatusOK DEF Serve
<1>4. ASSUME NEW m \in flight, ReceiveReply(m) PROVE IInv'
  BY <1>4, ReceiveRejectionOK, ReceiveReadOK, ReceiveFindOK, ReceiveFormOK, ReceiveNoteOK,
     ReceiveEquipmentOK, ReceiveAnimalOK, ReceiveReviewOK, ReceiveCloseOK DEF ReceiveReply
<1> QED
  BY <1>1, <1>2, <1>3, <1>4 DEF Next

THEOREM Invariance == Spec => []IInv
<1>1. IInv /\ [Next]_vars => IInv'
  BY StepOK
<1> QED
  BY InitOK, <1>1, PTL DEF Spec

\* What is recorded, shown and under way is of the kinds the code keeps, for any
\* number of browsers, complaints, requests and failures.
THEOREM TypeCorrect == Spec => []TypeOK
<1>1. IInv => TypeOK
  <2> SUFFICES ASSUME IInv PROVE TypeOK
    OBVIOUS
  <2>1. ASSUME NEW u \in Users
        PROVE  /\ page[u].open \in Complaints \cup {None}
               /\ store[u].caseId \in Complaints \cup {None}
               /\ store[u].complete \in {"undefined", "null", "set"}
    BY Mine DEF Page, Case, Leads
  <2>2. ASSUME NEW m \in flight
        PROVE  m.at \in {"sent", "written", "answered"} /\ m.lead \in Complaints
    BY DEF IInv, Sound, Msg
  <2> QED
    BY <2>1, <2>2 DEF IInv, TypeOK, File, States, Statuses
<1> QED
  BY Invariance, <1>1, PTL

\* However many officers work at once and whatever fails, none is told that a
\* section was saved which the case API did not save; notes excepted.
THEOREM AnnouncedIsSavedThm == Spec => []AnnouncedIsSaved
<1>1. IInv => AnnouncedIsSaved
  BY DEF IInv
<1> QED
  BY Invariance, <1>1, PTL

-----------------------------------------------------------------------------
(* One officer, as long as no request fails.                               *)

\* There is one browser.
Alone == \A u, v \in Users : u = v

\* A case file that was never begun holds no note and no animal.
Recorded(f) == f.id \/ (f.note = None /\ f.animal = NoItems)

\* What is under way together: a write, or a search for one, is so by itself; a review
\* with the reads that were sent beside it; all for the page that is open.
Shape(u) ==
    /\ \A m, n \in flight : m.op \in Mutations \cup {"find", "close"} => n = m
    /\ \A m, n \in flight : m.op = "review" =>
          n = m \/ (n.op \in {"status"} \cup Forms /\ n.value = "save")
    /\ \A m \in flight : page[u].open # None => m.lead = page[u].open
    /\ \A m, n \in flight : m.op = "assessment" /\ m.value = "list" =>
          n = m /\ page[u].open = None /\ store[u].modal = None
    /\ store[u].modal # None =>
          flight = {} /\ page[u].open = None /\ store[u].assessment = file[store[u].modal].assessment

\* A form or a status that was asked for beside a review may be older than the review.
Beside(m) == m.op \in {"status"} \cup Forms /\ m.value = "save"

\* An answer holds the sections as they are.
FreshAnswer(m) ==
    m.at # "sent" /\ m.op # "close" =>
        /\ Recorded(m.file) /\ (m.file.id => file[m.lead].id)
        /\ \A s \in Sections : m.file[s] = file[m.lead][s]
        /\ ~Beside(m) => m.file = file[m.lead]

\* What the case API is asked it will find; closing was asked for with cause.
Grounded(m) ==
    /\ m.at = "sent" /\ m.op \in {"update", "delete"} /\ m.section # "equipment" =>
          m.case = m.lead /\ file[m.lead].id
    /\ m.op = "find" /\ m.section = "note" => file[m.lead].id
    /\ m.op = "delete" /\ m.section = "note" => m.value = None
    /\ m.op = "delete" /\ m.section = "equipment" => m.value.state = "absent"
    /\ m.op = "close" => m.value # "PENDREV"
    /\ m.op \in {"complaint", "status"} => m.value # "list"
    /\ m.op \in Mutations \cup {"review"} /\ m.at # "sent" => file[m.lead].id
    /\ m.op = "close" /\ m.at = "sent" /\ m.value = "CLOSED" =>
          /\ file[m.lead].assessment # None
          /\ m.section = "page" => \A s \in Lists, i \in Items : file[m.lead][s][i] # "open"

\* How far a review is, and what the status is meanwhile.
ReviewOn(m) ==
    m.op = "review" =>
        /\ m.at # "sent" => file[m.lead].required = m.value.required
        /\ m.at # "answered" /\ m.value.creates /\ ~m.value.required => status[m.lead] # "PENDREV"
        /\ m.at = "answered" /\ status[m.lead] = "PENDREV" => file[m.lead].required

\* What will bring a section up to date.
Brings(m, s) ==
    \/ m.op \in Mutations /\ m.at = "answered" /\ m.section = s
    \/ s \in Forms /\ m.op \in {s, "complaint"}
    \/ s \notin Forms /\ m.op = "case"

\* The reply to the deletion of equipment: the store removes the item by itself.
Deletes(m) == m.op = "delete" /\ m.section = "equipment" /\ m.at = "answered"

SectionsInv(u) ==
    page[u].open # None =>
        /\ \A s \in Sections :
              store[u][s] = file[page[u].open][s] \/ \E m \in flight : Brings(m, s)
        /\ \A m \in flight : Deletes(m) =>
              file[m.lead].equipment = [store[u].equipment EXCEPT ![m.value.item] = "absent"]

\* The store knows the case file, at least when something refers to it.
KnowsCase(id, c) ==
    \/ id = c /\ file[c].id
    \/ id = None /\ file[c].note = None /\ file[c].animal = NoItems

BringsCase(m) ==
    \/ m.op \in {"assessment", "complaint"}
    \/ m.op \in Mutations /\ m.at = "answered" /\ m.section = "animal"
    \/ m.op \in {"create", "update"} /\ m.at = "answered" /\ m.section = "note"

CaseInv(u) ==
    page[u].open # None =>
        KnowsCase(store[u].caseId, page[u].open) \/ \E m \in flight : BringsCase(m)

\* The section of the review asks for a new one only where none is required.
RequestInv(u) ==
    /\ page[u].review.completed => page[u].review.required
    /\ page[u].open # None /\ page[u].review.at = "request" =>
          /\ store[u].required => \E m \in flight : m.op = "review" /\ ~m.value.required
          /\ file[page[u].open].required =>
                \E m \in flight : \/ m.op = "review"
                                  \/ m.op \in {"assessment", "complaint"} /\ m.value = "open"

PendingInv ==
    \A c \in Complaints : status[c] = "PENDREV" =>
        file[c].required \/ \E m \in flight : m.op = "review" /\ m.lead = c

Quiet ==
    /\ \A c \in Complaints : Recorded(file[c])
    /\ \A m \in flight : m.result = "ok" /\ FreshAnswer(m) /\ Grounded(m) /\ ReviewOn(m)
    /\ \A u \in Users : Shape(u) /\ SectionsInv(u) /\ CaseInv(u) /\ RequestInv(u)
    /\ PendingInv

QuietInv == faults = 0 => Quiet

-----------------------------------------------------------------------------
(* Requests as they are sent.                                              *)

LEMMA MessageIs ==
    ASSUME NEW u, NEW c, NEW op, NEW section, NEW value
    PROVE  LET m == Message(u, c, op, section, value)
           IN  /\ m.user = u /\ m.lead = c /\ m.op = op /\ m.section = section /\ m.value = value
               /\ m.at = "sent" /\ m.result = "ok" /\ m.case = store[u].caseId
  BY DEF Message

LEMMA GetsAre ==
    ASSUME NEW u, NEW c, NEW ops, NEW cause
    PROVE  /\ \A m \in Gets(u, c, ops, cause) :
                 m.user = u /\ m.lead = c /\ m.op \in ops /\ m.value = cause
                 /\ m.at = "sent" /\ m.result = "ok"
           /\ \A op \in ops : \E m \in Gets(u, c, ops, cause) : m.op = op /\ m.value = cause
<1>1. ASSUME NEW op \in ops
      PROVE  LET m == Message(u, c, op, "none", cause)
             IN  m.user = u /\ m.lead = c /\ m.op = op /\ m.value = cause
                 /\ m.at = "sent" /\ m.result = "ok"
  BY MessageIs
<1> QED
  BY <1>1 DEF Gets

\* A request to read that was just sent has nothing to be wrong about.
LEMMA GetsQuiet ==
    ASSUME NEW u, NEW c, NEW ops \in SUBSET (Reads \ {"find"}), NEW cause,
           NEW m \in Gets(u, c, ops, cause), ops = {"assessment"} \/ cause # "list"
    PROVE  m.result = "ok" /\ FreshAnswer(m) /\ Grounded(m) /\ ReviewOn(m)
<1>1. m.op \in Reads \ {"find"} /\ m.at = "sent" /\ m.result = "ok"
      /\ (m.op \in {"complaint", "status"} => m.value # "list")
  BY GetsAre
<1>2. m.op \notin Mutations \cup {"find", "review", "close"}
  BY <1>1 DEF Reads, Forms, Mutations
<1> QED
  BY <1>1, <1>2 DEF FreshAnswer, Grounded, ReviewOn, Mutations

-----------------------------------------------------------------------------
(* What an officer does while nothing is under way.                        *)

LEMMA AtRest ==
    ASSUME Alone, IInv, Quiet, NEW u \in Users, Idle(u)
    PROVE  /\ flight = {}
           /\ page[u].open # None =>
                 /\ \A s \in Sections : store[u][s] = file[page[u].open][s]
                 /\ KnowsCase(store[u].caseId, page[u].open)
                 /\ page[u].review.at = "request" =>
                       ~store[u].required /\ ~file[page[u].open].required
           /\ \A c \in Complaints : status[c] = "PENDREV" => file[c].required
<1>1. flight = {}
  BY DEF Alone, Idle, IInv, Sound, Msg
<1> QED
  BY <1>1 DEF Quiet, SectionsInv, CaseInv, RequestInv, PendingInv

\* A step that leaves the case files and statuses as they are.
LEMMA BrowserQuiet ==
    ASSUME Alone, IInv, Quiet, NEW u \in Users, UNCHANGED <<file, status>>,
           \A m \in flight' : m.result = "ok" /\ FreshAnswer(m) /\ Grounded(m) /\ ReviewOn(m),
           Shape(u)', SectionsInv(u)', CaseInv(u)', RequestInv(u)', PendingInv'
    PROVE  Quiet'
<1>1. \A m \in flight' : FreshAnswer(m)' /\ Grounded(m)' /\ ReviewOn(m)'
  BY DEF FreshAnswer, Grounded, ReviewOn, Recorded
<1>2. \A v \in Users : v = u
  BY DEF Alone
<1>3. \A c \in Complaints : Recorded(file[c])'
  BY DEF Quiet, Recorded
<1> QED
  BY <1>1, <1>2, <1>3 DEF Quiet

\* Nothing is under way before, and nothing after.
LEMMA StillQuiet ==
    ASSUME Alone, IInv, Quiet, NEW u \in Users, flight = {}, flight' = {}, UNCHANGED <<file, status>>,
           store'[u].modal # None =>
              page'[u].open = None /\ store'[u].assessment = file[store'[u].modal].assessment,
           page'[u].open # None =>
              /\ \A s \in Sections : store'[u][s] = file[page'[u].open][s]
              /\ KnowsCase(store'[u].caseId, page'[u].open)
              /\ page'[u].review.at = "request" => ~store'[u].required /\ ~file[page'[u].open].required,
           page'[u].review.completed => page'[u].review.required
    PROVE  Quiet'
<1>1. Shape(u)' /\ SectionsInv(u)'
  BY DEF Shape, SectionsInv
<1>2. CaseInv(u)'
  BY DEF CaseInv, KnowsCase
<1>3. RequestInv(u)'
  BY DEF RequestInv
<1>4. PendingInv'
  BY DEF Quiet, PendingInv
<1> QED
  BY <1>1, <1>2, <1>3, <1>4, BrowserQuiet

LEMMA OpenQuiet ==
    ASSUME Alone, IInv, Quiet, NEW u \in Users, NEW c \in Complaints, Open(u, c)
    PROVE  Quiet'
<1> DEFINE kept == store[u].status # None /\ store[u].lead = c
           s == IF kept THEN store[u] ELSE [store[u] EXCEPT !.status = None]
           p == Follows(NewPage(c), NoCase, s, Forms)
           ops == IF kept THEN {"case"} \cup Forms ELSE {"case", "complaint"}
           gets == Gets(u, c, ops, "open")
<1>1. flight = {} /\ store[u] \in Case /\ page[u] \in Page /\ store[u].modal = None
  BY AtRest, Mine DEF Open
<1>2. /\ s.modal = None /\ s.required = store[u].required /\ s.required \in BOOLEAN
  BY <1>1 DEF Case
<1>3. ops \in SUBSET (Reads \ {"find"})
  BY DEF Reads, Forms
<1>4. /\ store' = [store EXCEPT ![u] = s] /\ page' = [page EXCEPT ![u] = p]
      /\ flight' = gets /\ UNCHANGED <<file, status>>
  BY <1>1 DEF Open, Stores, Shows, Send
<1>5. /\ p.open = c
      /\ p.review.at = "request" => ~s.required
      /\ p.review.completed => p.review.required
  BY <1>2 DEF Follows, NewPage, NoCase
<1>6. /\ \A op \in ops : \E m \in gets : m.op = op /\ m.value = "open"
      /\ \A m \in gets : m.lead = c /\ m.op \in ops /\ m.value = "open"
  BY GetsAre
<1>7. \A m \in gets : m.result = "ok" /\ FreshAnswer(m) /\ Grounded(m) /\ ReviewOn(m)
  BY <1>3, GetsQuiet
<1>8. "case" \in ops /\ (Forms \subseteq ops \/ "complaint" \in ops) /\ "assessment" \in Forms
      /\ \A op \in ops : op \notin Mutations \cup {"find", "close", "review"}
  BY DEF Forms, Mutations
<1>9. store'[u] = s /\ page'[u] = p
  BY <1>4 DEF IInv
<1> HIDE DEF s, p, ops, gets
<1>10. Shape(u)'
  BY <1>2, <1>4, <1>5, <1>6, <1>8, <1>9 DEF Shape
<1>11. SectionsInv(u)'
  <2>1. ASSUME NEW x \in Sections PROVE \E m \in gets : Brings(m, x)
    BY <1>6, <1>8 DEF Brings
  <2>2. \A m \in gets : m.op # "delete"
    BY <1>6, <1>8 DEF Mutations
  <2> QED
    BY <1>4, <2>1, <2>2 DEF SectionsInv, Brings, Deletes
<1>12. CaseInv(u)'
  <2>1. \E m \in gets : BringsCase(m)
    BY <1>6, <1>8 DEF BringsCase
  <2> QED
    BY <1>4, <2>1 DEF CaseInv, BringsCase
<1>13. RequestInv(u)'
  <2>1. \E m \in gets : m.op \in {"assessment", "complaint"} /\ m.value = "open"
    BY <1>6, <1>8
  <2> QED
    BY <1>4, <1>5, <1>9, <2>1 DEF RequestInv
<1>14. PendingInv'
  BY <1>1, <1>4 DEF Quiet, PendingInv
<1> QED
  BY <1>4, <1>7, <1>10, <1>11, <1>12, <1>13, <1>14, BrowserQuiet

LEMMA LeaveQuiet ==
    ASSUME Alone, IInv, Quiet, NEW u \in Users, Leave(u)
    PROVE  Quiet'
<1>1. flight = {}
  BY AtRest DEF Leave
<1>2. store'[u] = NoCase /\ page'[u] = NewPage(None)
  BY DEF Leave, Stores, Shows, IInv
<1> QED
  BY <1>1, <1>2, StillQuiet DEF Leave, NoCase, NewPage

\* The page alone changes.
LEMMA ShowsQuiet ==
    ASSUME Alone, IInv, Quiet, NEW u \in Users, Idle(u), NEW p \in Page, Shows(u, p),
           p.open = page[u].open, p.review.at = "request" => page[u].review.at = "request",
           p.review.completed => p.review.required,
           UNCHANGED <<file, status, store, flight>>
    PROVE  Quiet'
<1>1. page'[u] = p
  BY DEF Shows, IInv
<1>2. flight = {} /\ (store[u].modal # None =>
         page[u].open = None /\ store[u].assessment = file[store[u].modal].assessment)
  BY AtRest DEF Quiet, Shape
<1> QED
  BY <1>1, <1>2, AtRest, StillQuiet

LEMMA EditCancelQuiet ==
    ASSUME Alone, IInv, Quiet, NEW u \in Users, NEW s \in Sections, Edit(u, s) \/ Cancel(u, s)
    PROVE  Quiet'
<1>1. PICK b \in BOOLEAN : Shows(u, [page[u] EXCEPT !.edit[s] = b])
  BY DEF Edit, Cancel
<1> DEFINE p == [page[u] EXCEPT !.edit[s] = b]
<1>2. page[u] \in Page
  BY Mine
<1>3. p.open = page[u].open /\ p.review = page[u].review
  BY <1>2 DEF Page
<1>7. p \in Page
  BY <1>2 DEF Page
<1>4. page[u].review.completed => page[u].review.required
  BY DEF Quiet, RequestInv
<1>5. Idle(u) /\ UNCHANGED <<file, status, store, flight>>
  BY DEF Edit, Cancel, Acts
<1>6. Shows(u, p)
  BY <1>1
<1> HIDE DEF p
<1> QED
  BY <1>3, <1>4, <1>5, <1>6, <1>7, ShowsQuiet

LEMMA ReviewQuiet ==
    ASSUME Alone, IInv, Quiet, NEW u \in Users, NEW r \in ReviewState, Review(u, r),
           r.at = "request" => page[u].review.at = "request",
           r.completed => r.required
    PROVE  Quiet'
<1> DEFINE p == [page[u] EXCEPT !.review = r]
<1>1. page[u] \in Page
  BY Mine
<1>2. p.open = page[u].open /\ p.review = r
  BY <1>1 DEF Page
<1>3. Idle(u) /\ Shows(u, p) /\ UNCHANGED <<file, status, store, flight>>
  BY DEF Review, Acts
<1>4. p \in Page
  BY <1>1 DEF Page
<1> HIDE DEF p
<1> QED
  BY <1>2, <1>3, <1>4, ShowsQuiet

LEMMA TicksQuiet ==
    ASSUME Alone, IInv, Quiet, NEW u \in Users, EditReview(u) \/ TickRequired(u) \/ TickComplete(u)
    PROVE  Quiet'
<1> DEFINE r == page[u].review
<1>1. r \in ReviewState
  BY Mine DEF Page
<1>2. r.completed => r.required
  BY DEF Quiet, RequestInv
<1>3. CASE EditReview(u)
  <2> DEFINE q == [r EXCEPT !.at = "edit"]
  <2>1. q \in ReviewState /\ q.at = "edit" /\ (q.completed => q.required)
    BY <1>1, <1>2 DEF ReviewState
  <2>2. Review(u, q)
    BY <1>3 DEF EditReview
  <2> HIDE DEF q
  <2> QED
    BY <2>1, <2>2, ReviewQuiet
<1>4. CASE TickRequired(u)
  <2> DEFINE q == [r EXCEPT !.required = ~r.required, !.completed = r.completed /\ ~r.required]
  <2>1. q \in ReviewState /\ q.at = r.at /\ (q.completed => q.required)
    BY <1>1, <1>2 DEF ReviewState
  <2>2. Review(u, q)
    BY <1>1, <1>4 DEF TickRequired, ReviewState
  <2> HIDE DEF q
  <2> QED
    BY <2>1, <2>2, ReviewQuiet
<1>5. CASE TickComplete(u)
  <2> DEFINE q == [r EXCEPT !.completed = ~r.completed]
  <2>1. q \in ReviewState /\ q.at = r.at /\ q.required = r.required /\ r.required
    BY <1>1, <1>5 DEF ReviewState, TickComplete
  <2>2. Review(u, q)
    BY <1>1, <1>5 DEF TickComplete, ReviewState
  <2> HIDE DEF q
  <2> QED
    BY <2>1, <2>2, ReviewQuiet
<1> QED
  BY <1>3, <1>4, <1>5

\* A request to write is sent with cause and by itself.
LEMMA SendWriteQuiet ==
    ASSUME Alone, IInv, Quiet, NEW u \in Users, Idle(u), page[u].open # None,
           NEW op \in Mutations \cup {"find"}, NEW section \in Sections, NEW value, NEW edit \in BOOLEAN,
           op \in {"update", "delete"} /\ section # "equipment" =>
              store[u].caseId = page[u].open /\ file[page[u].open].id,
           op = "find" /\ section = "note" => file[page[u].open].id,
           op = "delete" /\ section = "note" => value = None,
           op = "delete" /\ section = "equipment" => value.state = "absent",
           SendWrite(u, op, section, value, edit, {})
    PROVE  Quiet'
<1> DEFINE n == Message(u, page[u].open, op, section, value)
           p == [page[u] EXCEPT !.edit[section] = edit]
<1>1. flight = {} /\ page[u] \in Page
  BY AtRest, Mine
<1>2. p.open = page[u].open /\ p.review = page[u].review
  BY <1>1 DEF Page
<1>3. flight' = {n} /\ UNCHANGED <<file, status, store>> /\ page'[u] = p
  BY <1>1 DEF SendWrite, Send, Shows, IInv
<1>4. /\ n.lead = page[u].open /\ n.op = op /\ n.section = section /\ n.value = value
      /\ n.at = "sent" /\ n.result = "ok" /\ n.case = store[u].caseId
  BY MessageIs
<1>5. op \notin {"review", "close", "assessment", "complaint", "status"}
  BY DEF Mutations
<1> HIDE DEF n, p
<1>6. n.result = "ok" /\ FreshAnswer(n) /\ Grounded(n) /\ ReviewOn(n)
  BY <1>4, <1>5 DEF FreshAnswer, Grounded, ReviewOn
<1>7. Shape(u)'
  <2>1. store[u].modal = None
    BY DEF Quiet, Shape
  <2> QED
    BY <1>2, <1>3, <1>4, <1>5, <2>1 DEF Shape
<1>8. SectionsInv(u)' /\ CaseInv(u)'
  BY <1>2, <1>3, <1>4, AtRest DEF SectionsInv, CaseInv, KnowsCase, Deletes
<1>9. RequestInv(u)'
  <2>1. page[u].review.completed => page[u].review.required
    BY DEF Quiet, RequestInv
  <2> QED
    BY <1>2, <1>3, <2>1, AtRest DEF RequestInv
<1>10. PendingInv'
  BY <1>3, AtRest DEF PendingInv
<1> QED
  BY <1>3, <1>6, <1>7, <1>8, <1>9, <1>10, BrowserQuiet

\* Where a note or an animal is shown, the case file is there and known.
LEMMA Known ==
    ASSUME Alone, IInv, Quiet, NEW u \in Users, Idle(u), page[u].open # None,
           store[u].note # None \/ \E i \in Items : store[u].animal[i] # "absent"
    PROVE  store[u].caseId = page[u].open /\ file[page[u].open].id
<1> DEFINE f == file[page[u].open]
<1>1. store[u].note = f.note /\ store[u].animal = f.animal
  BY AtRest DEF Sections, Lists
<1>2. KnowsCase(store[u].caseId, page[u].open)
  BY AtRest
<1>3. \A i \in Items : NoItems[i] = "absent"
  BY DEF NoItems
<1> QED
  BY <1>1, <1>2, <1>3 DEF KnowsCase

LEMMA FillsQuiet == ASSUME Alone, IInv, Quiet, NEW u \in Users, Fills(u) PROVE Quiet'
<1>1. ASSUME NEW s \in Sections, Edit(u, s) \/ Cancel(u, s) PROVE Quiet'
  BY <1>1, EditCancelQuiet
<1>2. ASSUME NEW s \in Forms, NEW t \in Texts, SaveForm(u, s, t) PROVE Quiet'
  <2>1. s \in Sections /\ s # "note" /\ "find" \notin {"update", "delete"}
    BY DEF Sections, Forms
  <2>2. page[u].open # None /\ Idle(u) /\ SendWrite(u, "find", s, t, FALSE, {})
    BY <1>2 DEF SaveForm, Acts
  <2> QED
    BY <2>1, <2>2, SendWriteQuiet
<1>3. ASSUME NEW t \in Texts, SaveNote(u, t) PROVE Quiet'
  <2> DEFINE op == IF store[u].note = None THEN "create" ELSE "find"
  <2>1. "note" \in Sections /\ op \in Mutations \cup {"find"} /\ op \notin {"update", "delete"}
    BY DEF Sections, Mutations
  <2>2. page[u].open # None /\ Idle(u) /\ SendWrite(u, op, "note", t, TRUE, {})
    BY <1>3 DEF SaveNote, Acts
  <2>3. op = "find" => file[page[u].open].id
    BY <2>2, Known
  <2> HIDE DEF op
  <2> QED
    BY <2>1, <2>2, <2>3, SendWriteQuiet
<1>4. ASSUME DeleteNote(u) PROVE Quiet'
  <2>1. "note" \in Sections /\ "delete" \in Mutations
    BY DEF Sections, Mutations
  <2>2. page[u].open # None /\ Idle(u) /\ SendWrite(u, "delete", "note", None, FALSE, {})
        /\ store[u].note # None
    BY <1>4 DEF DeleteNote, Acts
  <2>3. store[u].caseId = page[u].open /\ file[page[u].open].id
    BY <2>2, Known
  <2> QED
    BY <2>1, <2>2, <2>3, SendWriteQuiet
<1>5. ASSUME NEW s \in Lists, NEW i \in Items, DeleteItem(u, s, i) PROVE Quiet'
  <2>1. s \in Sections /\ "delete" \in Mutations /\ s \in {"equipment", "animal"}
    BY DEF Sections, Mutations, Lists
  <2>2. page[u].open # None /\ Idle(u) /\ store[u][s][i] # "absent"
        /\ SendWrite(u, "delete", s, [item |-> i, state |-> "absent"], page[u].edit[s], {})
    BY <1>5 DEF DeleteItem, Acts
  <2>3. page[u].edit[s] \in BOOLEAN
    BY <2>1, Mine DEF Page
  <2>4. s # "equipment" => store[u].caseId = page[u].open /\ file[page[u].open].id
    BY <2>1, <2>2, Known
  <2>5. [item |-> i, state |-> "absent"].state = "absent" /\ s # "note"
    BY <2>1
  <2> QED
    BY <2>1, <2>2, <2>3, <2>4, <2>5, SendWriteQuiet
<1>6. ASSUME NEW s \in Lists, NEW i \in Items, NEW state \in {"open", "done"},
             SaveItem(u, s, i, state)
      PROVE  Quiet'
  <2> DEFINE new == (store[u][s][i] = "absent")
             op == IF new THEN "create" ELSE "update"
             edit == (new /\ s = "animal")
  <2>1. s \in Sections /\ op \in Mutations /\ s \in {"equipment", "animal"} /\ edit \in BOOLEAN
    BY DEF Sections, Mutations, Lists
  <2>2. page[u].open # None /\ Idle(u)
        /\ SendWrite(u, op, s, [item |-> i, state |-> state], edit, {})
    BY <1>6 DEF SaveItem, Acts
  <2>3. op # "create" /\ s # "equipment" => store[u].caseId = page[u].open /\ file[page[u].open].id
    BY <2>1, <2>2, Known
  <2>4. op # "delete" /\ op # "find"
    OBVIOUS
  <2> HIDE DEF op, edit
  <2> QED
    BY <2>1, <2>2, <2>3, <2>4, SendWriteQuiet
<1> QED
  BY <1>1, <1>2, <1>3, <1>4, <1>5, <1>6 DEF Fills

LEMMA SaveReviewQuiet == ASSUME Alone, IInv, Quiet, NEW u \in Users, SaveReview(u) PROVE Quiet'
<1> DEFINE r == page[u].review
           c == page[u].open
           v == [creates |-> r.completed \/ r.at = "request",
                 required |-> r.required, complete |-> r.completed]
           at == IF r.at # "edit" THEN r.at ELSE IF r.required THEN "display" ELSE "request"
           p == [page[u] EXCEPT !.review = [r EXCEPT !.at = at]]
           n == Message(u, c, "review", "none", v)
           gets == Gets(u, c, {"status"}, "save")
<1>1. flight = {} /\ store[u] \in Case /\ page[u] \in Page /\ Idle(u)
  BY AtRest, Mine DEF SaveReview, Acts
<1>2. r \in ReviewState /\ c \in Complaints /\ c # None /\ r.at # "display"
  BY <1>1 DEF SaveReview, Acts, Page, Leads
<1>3. /\ p.open = c /\ p.review.at = at /\ p.review.completed = r.completed
      /\ p.review.required = r.required
  BY <1>1, <1>2 DEF Page, ReviewState
<1>4. page' = [page EXCEPT ![u] = p] /\ flight' = {n} \cup gets /\ UNCHANGED <<file, status, store>>
  BY <1>1, <1>2 DEF SaveReview, Shows, Send, Page, ReviewState
<1>5. page'[u] = p
  BY <1>4 DEF IInv
<1>6. r.completed => r.required
  BY DEF Quiet, RequestInv
<1>7. /\ v.creates = (r.completed \/ r.at = "request") /\ v.required = r.required
  OBVIOUS
<1>8. /\ n.lead = c /\ n.op = "review" /\ n.value = v /\ n.at = "sent" /\ n.result = "ok"
  BY MessageIs
<1>9. \A m \in gets : m.lead = c /\ m.op = "status" /\ m.value = "save"
  BY GetsAre
<1>10. r.at = "request" => ~store[u].required /\ ~file[c].required /\ status[c] # "PENDREV"
  BY <1>1, <1>2, AtRest
<1>11. r.at = "request" \/ r.at = "edit"
  BY <1>2 DEF ReviewState
<1> HIDE DEF v, p, n, gets
<1>12. ReviewOn(n)
  BY <1>6, <1>7, <1>8, <1>10 DEF ReviewOn
<1>13. n.result = "ok" /\ FreshAnswer(n) /\ Grounded(n) /\ ReviewOn(n)
  BY <1>8, <1>12 DEF FreshAnswer, Grounded
<1>14. \A m \in flight' : m.result = "ok" /\ FreshAnswer(m) /\ Grounded(m) /\ ReviewOn(m)
  <2>1. {"status"} \in SUBSET (Reads \ {"find"})
    BY DEF Reads
  <2>2. \A m \in gets : m.result = "ok" /\ FreshAnswer(m) /\ Grounded(m) /\ ReviewOn(m)
    BY <2>1, GetsQuiet DEF gets
  <2> QED
    BY <1>4, <1>13, <2>2
<1>15. Shape(u)'
  <2>1. store[u].modal = None
    BY <1>2 DEF Quiet, Shape
  <2>2. "review" \notin Mutations /\ "status" \notin Mutations
    BY DEF Mutations
  <2> QED
    BY <1>3, <1>4, <1>5, <1>8, <1>9, <2>1, <2>2 DEF Shape
<1>16. SectionsInv(u)' /\ CaseInv(u)'
  BY <1>1, <1>2, <1>3, <1>4, <1>5, <1>8, <1>9, AtRest DEF SectionsInv, CaseInv, KnowsCase, Deletes
<1>17. RequestInv(u)'
  <2>1. n \in flight'
    BY <1>4
  <2>2. at = "request" => r.at = "request" \/ ~r.required
    BY <1>11
  <2> QED
    BY <1>3, <1>4, <1>5, <1>6, <1>7, <1>8, <1>10, <2>1, <2>2 DEF RequestInv
<1>18. PendingInv'
  BY <1>1, <1>4, AtRest DEF PendingInv
<1> QED
  BY <1>4, <1>14, <1>15, <1>16, <1>17, <1>18, BrowserQuiet

-----------------------------------------------------------------------------
(* Closing.                                                                *)

\* What the modal judges by is what the case API holds.
LEMMA ChangeStatusQuiet ==
    ASSUME Alone, IInv, Quiet, NEW u \in Users, Idle(u), NEW c \in Complaints,
           NEW new \in {"OPEN", "CLOSED"}, NEW from \in {"page", "list"},
           page[u].open # None => c = page[u].open,
           MayClose(u) => store[u].assessment = file[c].assessment,
           from = "page" => c = page[u].open,
           ChangeStatus(u, c, new, from)
    PROVE  Quiet'
<1> DEFINE n == Message(u, c, "close", from, new)
           s == [store[u] EXCEPT !.modal = None]
<1>1. flight = {} /\ store[u] \in Case
  BY AtRest, Mine
<1>2. /\ s.modal = None /\ s.required = store[u].required /\ s.caseId = store[u].caseId
      /\ \A x \in Sections : s[x] = store[u][x]
  BY <1>1 DEF Case, Sections, Forms, Lists
<1>3. flight' = {n} /\ UNCHANGED <<file, status, page>> /\ store'[u] = s
  BY <1>1 DEF ChangeStatus, Send, Stores, IInv
<1>4. /\ n.lead = c /\ n.op = "close" /\ n.section = from /\ n.value = new
      /\ n.at = "sent" /\ n.result = "ok"
  BY MessageIs
<1>5. "close" \notin Mutations /\ "close" # "delete"
  BY DEF Mutations
<1>6. ASSUME new = "CLOSED"
      PROVE  /\ file[c].assessment # None
             /\ from = "page" => \A x \in Lists, i \in Items : file[c][x][i] # "open"
  <2>1. MayClose(u)
    BY <1>6 DEF ChangeStatus
  <2>2. from = "page" => \A x \in Sections : store[u][x] = file[c][x]
    BY CaseAssumption, AtRest
  <2>3. Lists \subseteq Sections
    BY DEF Sections
  <2> QED
    BY <2>1, <2>2, <2>3 DEF MayClose
<1> HIDE DEF n, s
<1>7. n.result = "ok" /\ FreshAnswer(n) /\ Grounded(n) /\ ReviewOn(n)
  BY <1>4, <1>5, <1>6 DEF FreshAnswer, Grounded, ReviewOn
<1>8. Shape(u)'
  BY <1>2, <1>3, <1>4, <1>5 DEF Shape
<1>9. SectionsInv(u)' /\ CaseInv(u)'
  BY <1>2, <1>3, <1>4, AtRest DEF SectionsInv, CaseInv, KnowsCase, Deletes
<1>10. RequestInv(u)'
  <2>1. page[u].review.completed => page[u].review.required
    BY DEF Quiet, RequestInv
  <2> QED
    BY <1>2, <1>3, <2>1, AtRest DEF RequestInv
<1>11. PendingInv'
  BY <1>1, <1>3, AtRest DEF PendingInv
<1> QED
  BY <1>3, <1>7, <1>8, <1>9, <1>10, <1>11, BrowserQuiet

LEMMA ClosesQuiet == ASSUME Alone, IInv, Quiet, NEW u \in Users, Closes(u) PROVE Quiet'
<1>1. store[u] \in Case /\ page[u] \in Page
  BY Mine
<1>2. store[u].modal # None =>
         page[u].open = None /\ store[u].assessment = file[store[u].modal].assessment
  BY DEF Quiet, Shape
<1>3. page[u].review.completed => page[u].review.required
  BY DEF Quiet, RequestInv
<1>4. ASSUME NEW new \in {"OPEN", "CLOSED"}, ChangeStatusOnPage(u, new) PROVE Quiet'
  <2>1. page[u].open \in Complaints /\ page[u].open # None /\ Idle(u)
    BY <1>1, <1>4 DEF ChangeStatusOnPage, Acts, Page, Leads
  <2>2. store[u].assessment = file[page[u].open].assessment
    BY <2>1, AtRest DEF Sections, Forms
  <2> QED
    BY <1>4, <2>1, <2>2, ChangeStatusQuiet DEF ChangeStatusOnPage
<1>5. ASSUME NEW new \in {"OPEN", "CLOSED"}, ChangeStatusInList(u, new) PROVE Quiet'
  <2>1. store[u].modal \in Complaints /\ store[u].modal # None /\ Idle(u)
    BY <1>1, <1>5 DEF ChangeStatusInList, Case, Leads
  <2> QED
    BY <1>2, <1>5, <2>1, ChangeStatusQuiet DEF ChangeStatusInList
<1>6. ASSUME NEW c \in Complaints, OpenModalInList(u, c) PROVE Quiet'
  <2> DEFINE gets == Gets(u, c, {"assessment"}, "list")
  <2>1. flight = {} /\ page[u].open = None /\ store[u].modal = None
    BY <1>6, AtRest DEF OpenModalInList
  <2>2. flight' = gets /\ UNCHANGED <<file, status, store, page>>
    BY <1>6, <2>1 DEF OpenModalInList, Send
  <2>3. {"assessment"} \in SUBSET (Reads \ {"find"})
    BY DEF Reads, Forms
  <2>4. \A m \in gets : m.result = "ok" /\ FreshAnswer(m) /\ Grounded(m) /\ ReviewOn(m)
    BY <2>3, GetsQuiet
  <2>5. gets = {Message(u, c, "assessment", "none", "list")}
    BY DEF Gets
  <2>6. \A m \in gets : m.op = "assessment"
    BY GetsAre
  <2>7. "assessment" \notin Mutations
    BY DEF Mutations
  <2> HIDE DEF gets
  <2>8. Shape(u)'
    BY <2>1, <2>2, <2>5, <2>6, <2>7 DEF Shape
  <2>9. SectionsInv(u)' /\ CaseInv(u)' /\ RequestInv(u)'
    BY <1>3, <2>1, <2>2 DEF SectionsInv, CaseInv, RequestInv
  <2>10. PendingInv'
    BY <2>1, <2>2 DEF Quiet, PendingInv
  <2> QED
    BY <2>2, <2>4, <2>8, <2>9, <2>10, BrowserQuiet
<1>7. ASSUME CloseModal(u) PROVE Quiet'
  <2>1. flight = {} /\ page[u].open = None
    BY <1>2, <1>7, AtRest DEF CloseModal
  <2>2. flight' = {} /\ UNCHANGED <<file, status, page>> /\ store'[u].modal = None
    BY <1>1, <1>7, <2>1 DEF CloseModal, Stores, IInv, Case
  <2> QED
    BY <1>3, <2>1, <2>2, StillQuiet
<1> QED
  BY <1>4, <1>5, <1>6, <1>7 DEF Closes

-----------------------------------------------------------------------------
(* The backend and the case API.                                           *)

\* A request goes on; only what it is about changes.
LEMMA GoesOn ==
    ASSUME Alone, IInv, Quiet, NEW m \in flight, NEW n, Becomes(m, n), UNCHANGED <<store, page>>,
           m.at # "answered", n.lead = m.lead, n.op = m.op, n.section = m.section, n.value = m.value,
           \A c \in Complaints : c # m.lead => file'[c] = file[c] /\ status'[c] = status[c],
           \A s \in Sections : file'[m.lead][s] = file[m.lead][s] \/ Brings(n, s),
           Deletes(n) => \A u \in Users : page[u].open # None =>
              file'[m.lead].equipment = [store[u].equipment EXCEPT ![m.value.item] = "absent"],
           \A id : KnowsCase(id, m.lead) => BringsCase(n) \/
              (id = m.lead /\ file'[m.lead].id)
              \/ (id = None /\ file'[m.lead].note = None /\ file'[m.lead].animal = NoItems),
           m.op = "review" \/
              (file'[m.lead].required = file[m.lead].required
               /\ (status'[m.lead] = "PENDREV" => status[m.lead] = "PENDREV")),
           Recorded(file'[m.lead]),
           \A k \in flight' : k.result = "ok" /\ FreshAnswer(k)' /\ Grounded(k)' /\ ReviewOn(k)'
    PROVE  Quiet'
<1>1. flight' = (flight \ {m}) \cup {n}
  BY DEF Becomes
<1>2. m.lead \in Complaints /\ m.user \in Users
  BY DEF IInv, Sound, Msg
<1>3. ASSUME NEW u \in Users
      PROVE  /\ Shape(u) /\ SectionsInv(u) /\ CaseInv(u) /\ RequestInv(u)
             /\ store[u].modal = None /\ (page[u].open # None => m.lead = page[u].open)
             /\ page[u] \in Page
  BY Mine DEF Quiet, Shape
<1>4. ASSUME NEW u \in Users PROVE Shape(u)'
  <2>1. \A k \in flight : k.op \in Mutations \cup {"find", "close"} \/ m.op \in Mutations \cup {"find", "close"}
           => k = m
    BY <1>3 DEF Shape
  <2>2. /\ \A k \in flight : k.op = "review" =>
              k = m \/ (m.op \in {"status"} \cup Forms /\ m.value = "save")
        /\ m.op = "review" => \A k \in flight :
              k = m \/ (k.op \in {"status"} \cup Forms /\ k.value = "save")
    BY <1>3 DEF Shape
  <2>3. \A k \in flight : page[u].open # None => k.lead = page[u].open
    BY <1>3 DEF Shape
  <2>4. \A k, j \in flight : k.op = "assessment" /\ k.value = "list" => j = k /\ page[u].open = None
    BY <1>3 DEF Shape
  <2>5. \A k, j \in flight' : k.op \in Mutations \cup {"find", "close"} => j = k
    BY <1>1, <2>1, <1>3 DEF Shape
  <2>6. \A k, j \in flight' : k.op = "review" =>
           j = k \/ (j.op \in {"status"} \cup Forms /\ j.value = "save")
    BY <1>1, <2>2, <1>3 DEF Shape
  <2>7. \A k \in flight' : page[u].open # None => k.lead = page[u].open
    BY <1>1, <2>3
  <2>8. \A k, j \in flight' : k.op = "assessment" /\ k.value = "list" => j = k /\ page[u].open = None
    BY <1>1, <2>4
  <2> QED
    BY <1>3, <2>5, <2>6, <2>7, <2>8 DEF Shape
<1>5. ASSUME NEW u \in Users PROVE SectionsInv(u)'
  <2>1. ASSUME NEW s \in Sections, NEW k \in flight, Brings(k, s)
        PROVE  \E j \in flight' : Brings(j, s)
    <3>1. CASE k = m
      BY <1>1, <2>1, <3>1 DEF Brings
    <3>2. CASE k # m
      BY <1>1, <2>1, <3>2
    <3> QED
      BY <3>1, <3>2
  <2>2. ASSUME page[u].open # None, NEW s \in Sections
        PROVE  store[u][s] = file'[page[u].open][s] \/ \E j \in flight' : Brings(j, s)
    <3>1. store[u][s] = file[page[u].open][s] \/ \E k \in flight : Brings(k, s)
      BY <1>3, <2>2 DEF SectionsInv
    <3>2. m.lead = page[u].open
      BY <1>3, <2>2
    <3> QED
      BY <1>1, <2>1, <3>1, <3>2
  <2>3. ASSUME page[u].open # None, NEW k \in flight', Deletes(k)
        PROVE  file'[k.lead].equipment = [store[u].equipment EXCEPT ![k.value.item] = "absent"]
    <3>1. CASE k = n
      BY <2>3, <3>1
    <3>2. CASE k # n
      <4>1. k \in flight /\ k # m
        BY <1>1, <2>3, <3>2
      <4> QED
        BY <1>3, <2>3, <4>1 DEF Shape, Deletes, Mutations
    <3> QED
      BY <3>1, <3>2
  <2> QED
    BY <2>2, <2>3 DEF SectionsInv, Brings, Deletes
<1>6. ASSUME NEW u \in Users PROVE CaseInv(u)'
  <2>1. ASSUME NEW k \in flight, BringsCase(k) PROVE \E j \in flight' : BringsCase(j)
    <3>1. CASE k = m
      BY <1>1, <2>1, <3>1 DEF BringsCase
    <3>2. CASE k # m
      BY <1>1, <2>1, <3>2
    <3> QED
      BY <3>1, <3>2
  <2>2. ASSUME page[u].open # None
        PROVE  KnowsCase(store[u].caseId, page[u].open)' \/ \E j \in flight' : BringsCase(j)
    <3>1. KnowsCase(store[u].caseId, m.lead) \/ \E k \in flight : BringsCase(k)
      BY <1>3, <2>2 DEF CaseInv
    <3>2. m.lead = page[u].open
      BY <1>3, <2>2
    <3> QED
      BY <1>1, <2>1, <3>1, <3>2 DEF KnowsCase
  <2> QED
    BY <2>2 DEF CaseInv, BringsCase
<1>7. ASSUME NEW u \in Users PROVE RequestInv(u)'
  <2>1. ASSUME NEW k \in flight PROVE \E j \in flight' : j.op = k.op /\ j.value = k.value
    BY <1>1
  <2>2. n \in flight'
    BY <1>1
  <2> QED
    BY <1>3, <2>1, <2>2 DEF RequestInv
<1>8. PendingInv'
  <2>1. ASSUME NEW k \in flight PROVE \E j \in flight' : j.op = k.op /\ j.lead = k.lead
    BY <1>1
  <2>2. n \in flight'
    BY <1>1
  <2>3. PendingInv
    BY DEF Quiet
  <2> QED
    BY <2>1, <2>2, <2>3 DEF PendingInv
<1>9. \A c \in Complaints : Recorded(file[c])'
  BY <1>2 DEF Quiet, Recorded
<1> QED
  BY <1>4, <1>5, <1>6, <1>7, <1>8, <1>9 DEF Quiet

LEMMA ServeReadQuiet ==
    ASSUME Alone, IInv, Quiet, NEW m \in flight, ServeRead(m), UNCHANGED faults
    PROVE  Quiet'
<1> DEFINE n == [m EXCEPT !.at = "answered", !.file = file[m.lead], !.status = status[m.lead]]
<1>1. m \in Msg /\ m.op \in Reads /\ m.at = "sent" /\ m.lead \in Complaints
  BY DEF IInv, ServeRead, Sound, Msg
<1>2. Becomes(m, n) /\ UNCHANGED <<file, status, store, page>>
  BY CaseAssumption DEF ServeRead, Fault, IInv
<1>3. /\ n.lead = m.lead /\ n.op = m.op /\ n.section = m.section /\ n.value = m.value
      /\ n.at = "answered" /\ n.result = m.result /\ n.file = file[m.lead]
  BY <1>1 DEF Msg
<1> HIDE DEF n
<1>4. m.op \notin Mutations \cup {"review", "close"}
  BY <1>1 DEF Reads, Forms, Mutations
<1>5. Recorded(file[m.lead])
  BY <1>1 DEF Quiet
<1>6. \A k \in flight : k.result = "ok" /\ FreshAnswer(k) /\ Grounded(k) /\ ReviewOn(k)
  BY DEF Quiet
<1>7. n.result = "ok" /\ FreshAnswer(n) /\ Grounded(n) /\ ReviewOn(n)
  BY <1>3, <1>4, <1>5, <1>6 DEF FreshAnswer, Grounded, ReviewOn, Mutations
<1>8. \A k \in flight' : k \in flight \/ k = n
  BY <1>2 DEF Becomes
<1>9. \A k \in flight' : k.result = "ok" /\ FreshAnswer(k)' /\ Grounded(k)' /\ ReviewOn(k)'
  BY <1>2, <1>6, <1>7, <1>8 DEF FreshAnswer, Grounded, ReviewOn, Recorded
<1>10. ~Deletes(n)
  BY <1>3, <1>4 DEF Deletes, Mutations
<1> QED
  BY <1>1, <1>2, <1>3, <1>5, <1>9, <1>10, GoesOn DEF KnowsCase

\* What is applied: one section, or what a review asks for.
LEMMA AppliedIs ==
    ASSUME NEW m, Sound(m), m.op \in Mutations \cup {"review"}, NEW f \in File
    PROVE  /\ Applied(f, m).id
           /\ \A s \in Sections : Applied(f, m)[s] = f[s] \/ (m.op \in Mutations /\ m.section = s)
           /\ m.op = "review" => Applied(f, m).required = m.value.required
           /\ m.op # "review" => Applied(f, m).required = f.required
<1> DEFINE g == Applied(f, m)
<1>1. CASE m.op = "review"
  <2>1. g = [f EXCEPT !.id = TRUE, !.required = m.value.required,
                      !.complete = f.complete \/ m.value.complete]
    BY <1>1 DEF Applied
  <2>2. g.id /\ g.required = m.value.required
    BY <2>1 DEF File
  <2>3. /\ g.assessment = f.assessment /\ g.prevention = f.prevention /\ g.note = f.note
        /\ g.equipment = f.equipment /\ g.animal = f.animal
    BY <2>1 DEF File
  <2> QED
    BY <1>1, <2>2, <2>3 DEF Sections, Forms, Lists
<1>2. CASE m.op # "review"
  <2>1. m.section \in Sections /\ m.op \in Mutations
    BY <1>2 DEF Sound, Carries
  <2>2. PICK v : g = [f EXCEPT !.id = TRUE, ![m.section] = v]
    <3>1. CASE m.section \in Lists
      BY <1>2, <3>1 DEF Applied
    <3>2. CASE m.section \notin Lists
      BY <1>2, <3>2 DEF Applied
    <3> QED
      BY <3>1, <3>2
  <2> HIDE DEF g
  <2>3. ASSUME NEW s \in Sections, m.section = s
        PROVE  g.id /\ g.required = f.required /\ \A x \in Sections : x # s => g[x] = f[x]
    <3>1. CASE s = "assessment"
      BY <2>2, <2>3, <3>1 DEF File, Sections, Forms, Lists
    <3>2. CASE s = "prevention"
      BY <2>2, <2>3, <3>2 DEF File, Sections, Forms, Lists
    <3>3. CASE s = "note"
      BY <2>2, <2>3, <3>3 DEF File, Sections, Forms, Lists
    <3>4. CASE s = "equipment"
      BY <2>2, <2>3, <3>4 DEF File, Sections, Forms, Lists
    <3>5. CASE s = "animal"
      BY <2>2, <2>3, <3>5 DEF File, Sections, Forms, Lists
    <3> QED
      BY <3>1, <3>2, <3>3, <3>4, <3>5 DEF Sections, Forms, Lists
  <2> QED
    BY <1>2, <2>1, <2>3 DEF g
<1> QED
  BY <1>1, <1>2

\* Without failures what is sent is done, and the backend learns of it.
LEMMA ServeWriteQuiet ==
    ASSUME Alone, IInv, Quiet, NEW m \in flight, ServeWrite(m), UNCHANGED faults
    PROVE  Quiet'
<1>1. Sound(m) /\ m \in Msg /\ m.op \in Mutations \cup {"review"} /\ m.at = "sent"
      /\ m.lead \in Complaints /\ file[m.lead] \in File
  BY DEF IInv, ServeWrite, Sound, Msg
<1>2. \A k \in flight : k.result = "ok" /\ FreshAnswer(k) /\ Grounded(k) /\ ReviewOn(k)
  BY DEF Quiet
<1>3. Accepts(m)
  BY <1>1, <1>2 DEF Accepts, Grounded, Mutations
<1> DEFINE f == Applied(file[m.lead], m)
<1>0. PICK n : n = [m EXCEPT !.at = IF m.op = "review" THEN "written" ELSE "answered",
                             !.result = "ok", !.applied = TRUE, !.file = f]
  OBVIOUS
<1>4. faults' # faults + 1
  BY DEF IInv
<1>5. file' = [file EXCEPT ![m.lead] = f] /\ Becomes(m, n)
  <2>1. PICK done \in BOOLEAN, data \in {"file", "hollow", "none"} :
         /\ data = "file" => done
         /\ data = "file" \/ (~done /\ ~Accepts(m))
         /\ file' = IF done THEN [file EXCEPT ![m.lead] = f] ELSE file
         /\ Becomes(m, [Reply(m, data) EXCEPT !.applied = done, !.file = file'[m.lead]])
    BY <1>1, <1>4 DEF ServeWrite, Fault, IInv
  <2>2. data = "file" /\ done
    BY <1>3, <2>1
  <2>3. file' = [file EXCEPT ![m.lead] = f]
    BY <2>1, <2>2
  <2>4. file'[m.lead] = f
    BY <1>1, <2>3 DEF IInv
  <2>5. Reply(m, data) = [m EXCEPT !.at = IF m.op = "review" THEN "written" ELSE "answered", !.result = "ok"]
    BY <2>2 DEF Reply
  <2>6. n = [Reply(m, data) EXCEPT !.applied = done, !.file = f]
    BY <1>0, <1>1, <2>2, <2>5 DEF Msg
  <2> QED
    BY <2>1, <2>3, <2>4, <2>6
<1>6. /\ f.id
      /\ \A s \in Sections : f[s] = file[m.lead][s] \/ (m.op \in Mutations /\ m.section = s)
      /\ m.op = "review" => f.required = m.value.required
      /\ m.op # "review" => f.required = file[m.lead].required
  BY <1>1, AppliedIs
<1> HIDE DEF f
<1>7. file'[m.lead] = f /\ \A c \in Complaints : c # m.lead => file'[c] = file[c]
  BY <1>1, <1>5 DEF IInv
<1>8. /\ n.lead = m.lead /\ n.op = m.op /\ n.section = m.section /\ n.value = m.value
      /\ n.at = (IF m.op = "review" THEN "written" ELSE "answered") /\ n.result = "ok" /\ n.file = f
  BY <1>0, <1>1 DEF Msg
<1>9. UNCHANGED <<status, store, page>>
  BY DEF ServeWrite
<1>10. Recorded(f)
  BY <1>6 DEF Recorded
<1>11. "review" \notin Mutations /\ "find" \notin Mutations /\ "close" \notin Mutations
       /\ "status" \notin Mutations /\ \A s \in Forms : s \notin Mutations
  BY DEF Mutations, Forms
<1>12. FreshAnswer(n)' /\ Grounded(n)' /\ ReviewOn(n)'
  <2>1. FreshAnswer(n)'
    BY <1>6, <1>7, <1>8, <1>10 DEF FreshAnswer, Recorded
  <2>2. Grounded(n)'
    <3>1. /\ m.op = "delete" /\ m.section = "note" => m.value = None
          /\ m.op = "delete" /\ m.section = "equipment" => m.value.state = "absent"
          /\ m.op \notin {"close", "complaint", "status", "find"}
      BY <1>1, <1>2 DEF Grounded, Mutations
    <3> QED
      BY <1>1, <1>6, <1>7, <1>8, <1>11, <3>1 DEF Grounded
  <2>3. ReviewOn(n)'
    BY <1>1, <1>2, <1>6, <1>7, <1>8, <1>9 DEF ReviewOn
  <2> QED
    BY <2>1, <2>2, <2>3
<1>13. ASSUME NEW k \in flight, k # m
       PROVE  FreshAnswer(k)' /\ Grounded(k)' /\ ReviewOn(k)'
  <2>1. m.op = "review" /\ k.op \in {"status"} \cup Forms /\ k.value = "save"
    <3>1. m.user \in Users
      BY <1>1 DEF Msg
    <3>2. Shape(m.user)
      BY <3>1 DEF Quiet
    <3> QED
      BY <1>1, <1>13, <3>2 DEF Shape
  <2>2. Beside(k) /\ FreshAnswer(k) /\ k.lead \in Complaints
    BY <1>2, <2>1 DEF Beside, IInv, Sound, Msg
  <2>3. \A s \in Sections : file'[k.lead][s] = file[k.lead][s]
    BY <1>6, <1>7, <1>11, <2>1, <2>2
  <2>4. file[k.lead].id => file'[k.lead].id
    BY <1>6, <1>7, <2>2
  <2>5. FreshAnswer(k)'
    BY <2>2, <2>3, <2>4 DEF FreshAnswer, Recorded, Beside
  <2>6. k.op \notin Mutations \cup {"find", "close", "review"}
    BY <2>1 DEF Mutations, Forms
  <2>7. Grounded(k)'
    BY <2>1, <2>6 DEF Grounded, Mutations
  <2> QED
    BY <2>5, <2>6, <2>7 DEF ReviewOn
<1>14. \A k \in flight' : k.result = "ok" /\ FreshAnswer(k)' /\ Grounded(k)' /\ ReviewOn(k)'
  BY <1>2, <1>5, <1>8, <1>12, <1>13 DEF Becomes
<1>15. \A s \in Sections : file'[m.lead][s] = file[m.lead][s] \/ Brings(n, s)
  BY <1>6, <1>7, <1>8, <1>11 DEF Brings
<1>16. ASSUME NEW id, KnowsCase(id, m.lead)
       PROVE  \/ BringsCase(n) \/ (id = m.lead /\ file'[m.lead].id)
              \/ (id = None /\ file'[m.lead].note = None /\ file'[m.lead].animal = NoItems)
  <2>1. CASE id = m.lead
    BY <1>6, <1>7, <2>1
  <2>2. CASE id # m.lead
    <3>1. id = None /\ file[m.lead].note = None /\ file[m.lead].animal = NoItems
      BY <1>16, <2>2 DEF KnowsCase
    <3>2. CASE f.note = file[m.lead].note /\ f.animal = file[m.lead].animal
      BY <1>7, <3>1, <3>2
    <3>3. CASE m.op \in Mutations /\ m.section = "animal"
      BY <1>8, <1>11, <3>3 DEF BringsCase, Mutations
    <3>4. CASE m.op \in {"create", "update"} /\ m.section = "note"
      BY <1>8, <1>11, <3>4 DEF BringsCase, Mutations
    <3>5. CASE m.op = "delete" /\ m.section = "note"
      <4>1. m.value = None
        BY <1>2, <3>5 DEF Grounded
      <4>2. f.note = None /\ f.animal = file[m.lead].animal
        BY <1>1, <1>6, <3>5, <4>1 DEF Applied, Lists, Sections, File, f
      <4> QED
        BY <1>7, <3>1, <4>2
    <3> QED
      BY <1>6, <3>2, <3>3, <3>4, <3>5 DEF Sections, Lists, Mutations
  <2> QED
    BY <2>1, <2>2
<1>17. /\ Becomes(m, n) /\ UNCHANGED <<store, page>> /\ m.at # "answered"
       /\ n.lead = m.lead /\ n.op = m.op /\ n.section = m.section /\ n.value = m.value
  BY <1>1, <1>5, <1>8, <1>9
<1>18. \A c \in Complaints : c # m.lead => file'[c] = file[c] /\ status'[c] = status[c]
  BY <1>7, <1>9
<1>19. \/ m.op = "review"
       \/ /\ file'[m.lead].required = file[m.lead].required
          /\ status'[m.lead] = "PENDREV" => status[m.lead] = "PENDREV"
  BY <1>6, <1>7, <1>9
<1>20. Recorded(file'[m.lead])
  BY <1>7, <1>10
<1>21. ASSUME Deletes(n), NEW u \in Users, page[u].open # None
       PROVE  file'[m.lead].equipment = [store[u].equipment EXCEPT ![m.value.item] = "absent"]
  <2>1. m.op = "delete" /\ m.section = "equipment" /\ m.value.state = "absent"
    BY <1>2, <1>8, <1>21 DEF Deletes, Grounded
  <2>2. /\ \A k \in flight : k = m
        /\ m.lead = page[u].open
    BY <1>21, <2>1 DEF Quiet, Shape, Mutations
  <2>3. store[u].equipment = file[m.lead].equipment
    BY <1>1, <1>11, <1>21, <2>1, <2>2 DEF Quiet, SectionsInv, Brings, Sections, Lists, Forms
  <2>4. f.equipment = [file[m.lead].equipment EXCEPT ![m.value.item] = "absent"]
    BY <1>1, <2>1 DEF Applied, Lists, File, f
  <2> QED
    BY <1>7, <2>3, <2>4
<1> QED
  BY <1>14, <1>15, <1>16, <1>17, <1>18, <1>19, <1>20, <1>21, GoesOn

\* The status that a review asks for is written.
LEMMA WriteStatusQuiet ==
    ASSUME Alone, IInv, Quiet, NEW m \in flight, WriteStatus(m), UNCHANGED faults
    PROVE  Quiet'
<1>1. m \in Msg /\ m.op = "review" /\ m.at = "written" /\ m.lead \in Complaints
  BY DEF IInv, WriteStatus, Sound, Msg, Carries
<1>2. \A k \in flight : k.result = "ok" /\ FreshAnswer(k) /\ Grounded(k) /\ ReviewOn(k)
  BY DEF Quiet
<1>3. PICK n : n = [m EXCEPT !.at = "answered"]
  OBVIOUS
<1>4. Becomes(m, n) /\ UNCHANGED <<file, store, page>>
  BY <1>3 DEF WriteStatus
<1>5. status' = [status EXCEPT ![m.lead] = IF m.value.required THEN "PENDREV"
                                           ELSE IF m.value.creates THEN status[m.lead] ELSE "OPEN"]
  BY DEF WriteStatus, Fault, IInv
<1>6. /\ n.lead = m.lead /\ n.op = m.op /\ n.section = m.section /\ n.value = m.value
      /\ n.at = "answered" /\ n.result = m.result /\ n.file = m.file
  BY <1>1, <1>3 DEF Msg
<1>7. /\ \A c \in Complaints : c # m.lead => status'[c] = status[c]
      /\ status'[m.lead] = IF m.value.required THEN "PENDREV"
                           ELSE IF m.value.creates THEN status[m.lead] ELSE "OPEN"
  BY <1>1, <1>5 DEF IInv
<1>8. FreshAnswer(n) /\ Grounded(n)
  BY <1>1, <1>2, <1>6 DEF FreshAnswer, Grounded, Beside
<1>9. ReviewOn(n)'
  BY <1>1, <1>2, <1>4, <1>6, <1>7 DEF ReviewOn
<1>10. ASSUME NEW k \in flight, k # m PROVE k.op # "review"
  BY <1>1, <1>10 DEF Quiet, Shape, Msg, Forms
<1>11. \A k \in flight' : k.result = "ok" /\ FreshAnswer(k)' /\ Grounded(k)' /\ ReviewOn(k)'
  BY <1>2, <1>4, <1>6, <1>8, <1>9, <1>10 DEF Becomes, FreshAnswer, Grounded, ReviewOn, Recorded
<1>12. ~Deletes(n)
  BY <1>1, <1>6 DEF Deletes
<1>13. Recorded(file[m.lead])
  BY <1>1 DEF Quiet
<1> QED
  BY <1>1, <1>4, <1>6, <1>7, <1>11, <1>12, <1>13, GoesOn DEF KnowsCase

\* So is the status that an officer chose.
LEMMA ServeCloseQuiet ==
    ASSUME Alone, IInv, Quiet, NEW m \in flight, ServeClose(m), UNCHANGED faults
    PROVE  Quiet'
<1>1. m \in Msg /\ m.op = "close" /\ m.at = "sent" /\ m.lead \in Complaints /\ m.user \in Users
  BY DEF IInv, ServeClose, Sound, Msg
<1>2. m.result = "ok" /\ Grounded(m)
  BY DEF Quiet
<1>3. PICK n : n = [m EXCEPT !.at = "answered"]
  OBVIOUS
<1>4. Becomes(m, n) /\ UNCHANGED <<file, store, page>> /\ status' = [status EXCEPT ![m.lead] = m.value]
  BY <1>3 DEF ServeClose, Fault, IInv
<1>5. /\ n.lead = m.lead /\ n.op = m.op /\ n.section = m.section /\ n.value = m.value
      /\ n.at = "answered" /\ n.result = m.result
  BY <1>1, <1>3 DEF Msg
<1>6. /\ \A c \in Complaints : c # m.lead => status'[c] = status[c]
      /\ status'[m.lead] = m.value /\ m.value # "PENDREV"
  BY <1>1, <1>2, <1>4 DEF IInv, Grounded
<1>7. \A k \in flight : k = m
  BY <1>1 DEF Quiet, Shape
<1>8. "close" \notin Mutations
  BY DEF Mutations
<1>9. FreshAnswer(n)' /\ Grounded(n)' /\ ReviewOn(n)'
  BY <1>1, <1>2, <1>5, <1>6, <1>8 DEF FreshAnswer, Grounded, ReviewOn
<1>10. \A k \in flight' : k.result = "ok" /\ FreshAnswer(k)' /\ Grounded(k)' /\ ReviewOn(k)'
  BY <1>2, <1>4, <1>5, <1>7, <1>9 DEF Becomes
<1>11. ~Deletes(n)
  BY <1>1, <1>5 DEF Deletes
<1>12. Recorded(file[m.lead])
  BY <1>1 DEF Quiet
<1> QED
  BY <1>1, <1>4, <1>5, <1>6, <1>10, <1>11, <1>12, GoesOn DEF KnowsCase

-----------------------------------------------------------------------------
(* The replies.                                                            *)

\* A section of the review that asks for a new one did so before, and was not told of one.
LEMMA FollowsIs ==
    ASSUME NEW p \in Page, NEW old \in Case, NEW new \in Case, NEW set
    PROVE  LET q == Follows(p, old, new, set)
           IN  /\ q.open = p.open /\ q.review = Follows(p, old, new, {}).review
               /\ q.review.at = "request" => p.review.at = "request" /\ ~(new.required /\ ~old.required)
               /\ q.review.completed => q.review.required
<1> DEFINE required == IF new.required # old.required THEN new.required ELSE p.review.required
           r == [at |-> IF new.required /\ ~old.required THEN "display" ELSE p.review.at,
                 required |-> required,
                 completed |-> required /\ (p.review.completed \/ new.complete = "set")]
<1>0. ASSUME NEW S PROVE \E edit : Follows(p, old, new, S) = [[p EXCEPT !.edit = edit] EXCEPT !.review = r]
  <2> DEFINE edit == [p.edit EXCEPT
                        !.assessment = IF p.open # None /\ "assessment" \in S
                                       THEN new.assessment \in {None, Blank} ELSE p.edit["assessment"],
                        !.prevention = p.edit["prevention"] /\ "prevention" \notin S]
  <2>1. Follows(p, old, new, S) = [[p EXCEPT !.edit = edit] EXCEPT !.review = r]
    <3>1. p.edit \in [Sections -> BOOLEAN] /\ "assessment" \in Sections /\ "prevention" \in Sections
      BY DEF Page, Sections, Forms
    <3> QED
      BY <3>1 DEF Follows, Page
  <2> HIDE DEF edit, r
  <2> QED
    BY <2>1
<1> HIDE DEF r
<1>1. PICK edit : Follows(p, old, new, set) = [[p EXCEPT !.edit = edit] EXCEPT !.review = r]
  BY <1>0
<1>3. PICK none : Follows(p, old, new, {}) = [[p EXCEPT !.edit = none] EXCEPT !.review = r]
  BY <1>0
<1>2. /\ r.at = "request" => p.review.at = "request" /\ ~(new.required /\ ~old.required)
      /\ r.completed => r.required
  BY DEF r
<1> QED
  BY <1>1, <1>2, <1>3 DEF Page

\* What a reply leaves: every section and the identifier of the case file are as the
\* case API has them, or as they were while another reply will bring them, or asked for.
LEMMA ReplyQuiet ==
    ASSUME Alone, IInv, Quiet, NEW m \in flight, m.at = "answered", NEW u, u = m.user,
           NEW s \in Case, NEW next,
           store' = [store EXCEPT ![u] = s], UNCHANGED <<file, status>>,
           page'[u].open = page[u].open,
           page'[u].review = Follows(page[u], store[u], s, {}).review,
           flight' = (flight \ {m}) \cup next,
           s.modal = store[u].modal
              \/ (flight = {m} /\ next = {} /\ page[u].open = None
                  /\ s.assessment = file[s.modal].assessment),
           \A n \in next :
              /\ n.lead = m.lead /\ n.at = "sent" /\ n.result = "ok" /\ n.op # "review" /\ Grounded(n)
              /\ n.op = "assessment" => n.value # "list",
           \A n, k \in next : n.op \in Mutations \cup {"find", "close"} => flight = {m} /\ k = n,
           \A k \in flight, n \in next :
              k # m /\ k.op = "review" => n.op \in {"status"} \cup Forms /\ n.value = "save",
           page[u].open # None => \A x \in Sections :
              \/ s[x] = file[m.lead][x] \/ \E n \in next : Brings(n, x)
              \/ s[x] = store[u][x] /\ ~Brings(m, x),
           page[u].open # None =>
              \/ KnowsCase(s.caseId, m.lead) \/ \E n \in next : BringsCase(n)
              \/ s.caseId = store[u].caseId /\ ~BringsCase(m),
           m.op = "review" \/ (m.op = "assessment" /\ m.value = "open") =>
              s.required = file[m.lead].required,
           s.required # store[u].required => m.op \in {"review", "assessment"},
           page[u].open # None /\ m.op = "complaint" =>
              \E n \in next : n.op = "assessment" /\ n.value = m.value
    PROVE  Quiet'
<1>1. Sound(m) /\ m \in Msg /\ u \in Users /\ m.lead \in Complaints /\ store[u] \in Case
      /\ page[u] \in Page
  BY Mine DEF IInv, Sound, Msg
<1>2. Shape(u) /\ SectionsInv(u) /\ CaseInv(u) /\ RequestInv(u) /\ PendingInv
  BY <1>1 DEF Quiet
<1>3. \A k \in flight : k.result = "ok" /\ FreshAnswer(k) /\ Grounded(k) /\ ReviewOn(k)
  BY DEF Quiet
<1>4. store'[u] = s
  BY <1>1 DEF IInv
<1>5. store[u].modal = None /\ (page[u].open # None => m.lead = page[u].open)
  BY <1>2 DEF Shape
<1>6. \A n \in next : FreshAnswer(n) /\ ReviewOn(n)
  BY DEF FreshAnswer, ReviewOn
<1>7. \A k \in flight' : k.result = "ok" /\ FreshAnswer(k) /\ Grounded(k) /\ ReviewOn(k)
  BY <1>3, <1>6
<1> DEFINE r == Follows(page[u], store[u], s, {}).review
<1>8. /\ r.at = "request" => page[u].review.at = "request" /\ ~(s.required /\ ~store[u].required)
      /\ r.completed => r.required
  BY <1>1, FollowsIs
<1> HIDE DEF r
<1>9. page'[u].review = r
  BY DEF r
<1>10. Shape(u)'
  <2>1. \A a, b \in flight : a.op \in Mutations \cup {"find", "close"} => b = a
    BY <1>2 DEF Shape
  <2>2. \A a, b \in flight : a.op = "review" =>
           b = a \/ (b.op \in {"status"} \cup Forms /\ b.value = "save")
    BY <1>2 DEF Shape
  <2>3. \A a, b \in flight : a.op = "assessment" /\ a.value = "list" => b = a
    BY <1>2 DEF Shape
  <2>4. \A a \in flight : page[u].open # None => a.lead = page[u].open
    BY <1>2 DEF Shape
  <2>5. \A a, b \in flight' : a.op \in Mutations \cup {"find", "close"} => b = a
    BY <2>1
  <2>6. \A a, b \in flight' : a.op = "review" =>
           b = a \/ (b.op \in {"status"} \cup Forms /\ b.value = "save")
    BY <2>2
  <2>7. \A a \in flight' : page[u].open # None => a.lead = page[u].open
    BY <1>5, <2>4
  <2>8. \A a \in flight' : ~(a.op = "assessment" /\ a.value = "list")
    BY <2>3
  <2>9. s.modal # None =>
           flight' = {} /\ page[u].open = None /\ s.assessment = file[s.modal].assessment
    BY <1>5
  <2> QED
    BY <1>4, <2>5, <2>6, <2>7, <2>8, <2>9 DEF Shape
<1>11. SectionsInv(u)'
  <2>1. ASSUME page[u].open # None, NEW x \in Sections
        PROVE  s[x] = file[m.lead][x] \/ \E k \in flight' : Brings(k, x)
    <3>1. store[u][x] = file[m.lead][x] \/ \E k \in flight : Brings(k, x)
      BY <1>2, <1>5, <2>1 DEF SectionsInv
    <3> QED
      BY <2>1, <3>1
  <2>2. \A k \in flight' : ~Deletes(k)
    BY <1>2 DEF Shape, Deletes, Mutations
  <2> QED
    BY <1>4, <1>5, <2>1, <2>2 DEF SectionsInv, Brings, Deletes
<1>12. CaseInv(u)'
  <2>1. ASSUME page[u].open # None
        PROVE  KnowsCase(s.caseId, m.lead) \/ \E k \in flight' : BringsCase(k)
    <3>1. KnowsCase(store[u].caseId, m.lead) \/ \E k \in flight : BringsCase(k)
      BY <1>2, <1>5, <2>1 DEF CaseInv
    <3> QED
      BY <2>1, <3>1
  <2> QED
    BY <1>4, <1>5, <2>1 DEF CaseInv, BringsCase, KnowsCase
<1>13. RequestInv(u)'
  <2>1. ASSUME page[u].open # None, r.at = "request"
        PROVE  /\ s.required => \E k \in flight' : k.op = "review" /\ ~k.value.required
               /\ file[m.lead].required =>
                     \E k \in flight' : \/ k.op = "review"
                                        \/ k.op \in {"assessment", "complaint"} /\ k.value = "open"
    <3>1. page[u].review.at = "request" /\ (s.required => store[u].required)
      BY <1>1, <1>8, <2>1 DEF Case
    <3>2. store[u].required => \E k \in flight : k.op = "review" /\ ~k.value.required
      BY <1>2, <2>1, <3>1 DEF RequestInv
    <3>3. file[m.lead].required =>
             \E k \in flight : \/ k.op = "review"
                               \/ k.op \in {"assessment", "complaint"} /\ k.value = "open"
      BY <1>2, <1>5, <2>1, <3>1 DEF RequestInv
    <3>4. m.op = "review" => s.required = m.value.required
      BY <1>3 DEF ReviewOn
    <3>5. s.required => \E k \in flight' : k.op = "review" /\ ~k.value.required
      BY <3>1, <3>2, <3>4
    <3>6. ASSUME file[m.lead].required, m.op = "review" PROVE FALSE
      <4>1. s.required
        BY <3>6
      <4>2. PICK k \in flight : k.op = "review" /\ ~k.value.required
        BY <3>1, <3>2, <4>1
      <4>3. k = m
        BY <1>2, <3>6, <4>2 DEF Shape, Forms
      <4> QED
        BY <3>4, <4>1, <4>2, <4>3
    <3>7. ASSUME file[m.lead].required, m.op = "assessment", m.value = "open" PROVE FALSE
      <4>1. s.required
        BY <3>7
      <4>2. PICK k \in flight : k.op = "review" /\ ~k.value.required
        BY <3>1, <3>2, <4>1
      <4> QED
        BY <1>2, <3>7, <4>2 DEF Shape
    <3>8. m.op = "complaint" /\ m.value = "open" =>
             \E k \in flight' : k.op = "assessment" /\ k.value = "open"
      BY <2>1
    <3> QED
      BY <3>3, <3>5, <3>6, <3>7, <3>8
  <2> QED
    BY <1>4, <1>5, <1>8, <1>9, <2>1 DEF RequestInv
<1>14. PendingInv'
  <2>1. ASSUME NEW c \in Complaints, status[c] = "PENDREV", ~file[c].required
        PROVE  \E k \in flight' : k.op = "review" /\ k.lead = c
    <3>1. PICK k \in flight : k.op = "review" /\ k.lead = c
      BY <1>2, <2>1 DEF PendingInv
    <3>2. k # m
      BY <1>3, <2>1, <3>1 DEF ReviewOn
    <3> QED
      BY <3>1, <3>2
  <2> QED
    BY <2>1 DEF PendingInv
<1> QED
  BY <1>1, <1>7, <1>10, <1>11, <1>12, <1>13, <1>14, BrowserQuiet

\* What a reply does to the store, the page and the requests under way.
LEMMA Replies ==
    ASSUME IInv, NEW m \in flight, NEW s \in Case, NEW section \in Sections, NEW made, NEW next,
           Receive(m, s, made, next) \/ ReceiveOn(m, section, s, made, next)
    PROVE  /\ m.user \in Users /\ store' = [store EXCEPT ![m.user] = s] /\ UNCHANGED <<file, status>>
           /\ page'[m.user].open = page[m.user].open
           /\ page'[m.user].review = Follows(page[m.user], store[m.user], s, {}).review
           /\ flight' = (flight \ {m}) \cup next
<1> DEFINE p == Follows(page[m.user], store[m.user], s, {})
<1>1. m.user \in Users /\ page[m.user] \in Page /\ store[m.user] \in Case
  BY DEF IInv, Sound, Msg
<1>2. p.open = page[m.user].open /\ p \in Page
  BY <1>1, FollowsIs, FollowsOK
<1>3. CASE Receive(m, s, made, next)
  <2>1. PICK q : q = Follows(page[m.user], store[m.user], s, Sets(m))
    OBVIOUS
  <2>2. q.open = p.open /\ q.review = p.review
    BY <1>1, <1>2, <2>1, FollowsIs
  <2>3. page' = [page EXCEPT ![m.user] = q]
    BY <1>3, <2>1 DEF Receive
  <2> HIDE DEF p
  <2> QED
    BY <1>1, <1>2, <1>3, <2>2, <2>3 DEF Receive, IInv, p
<1>4. CASE ReceiveOn(m, section, s, made, next)
  <2>1. PICK e : page' = [page EXCEPT ![m.user] = [p EXCEPT !.edit[section] = e]]
    BY <1>4 DEF ReceiveOn
  <2>2. page'[m.user] = [p EXCEPT !.edit[section] = e]
    BY <1>1, <2>1 DEF IInv
  <2> HIDE DEF p
  <2>3. page'[m.user].open = p.open /\ page'[m.user].review = p.review
    BY <1>2, <2>2 DEF Page
  <2> QED
    BY <1>1, <1>2, <1>4, <2>3 DEF ReceiveOn, p
<1> QED
  BY <1>3, <1>4

\* The requests that follow a reply read what ops names, for the same complaint.
AsksFor(next, c, ops, cause) ==
    /\ \A n \in next :
          /\ n.lead = c /\ n.at = "sent" /\ n.result = "ok" /\ n.op # "review" /\ Grounded(n)
          /\ n.op = "assessment" => n.value # "list"
          /\ n.op \notin Mutations \cup {"find", "close"} /\ n.op \in ops /\ n.value = cause
    /\ \A op \in ops : \E n \in next : n.op = op /\ n.value = cause

LEMMA GetsReply ==
    ASSUME NEW u, NEW c, NEW ops \in SUBSET (Reads \ {"find"}), NEW cause, cause # "list"
    PROVE  AsksFor(Gets(u, c, ops, cause), c, ops, cause)
<1>1. \A op \in ops : op \notin Mutations \cup {"find", "close", "review"}
  BY DEF Reads, Forms, Mutations
<1> QED
  BY <1>1, GetsAre, GetsQuiet DEF AsksFor

\* An answer is what the case API holds.
LEMMA AnswerIs ==
    ASSUME IInv, Quiet, NEW m \in flight, m.at = "answered", m.op # "close"
    PROVE  /\ m.result = "ok" /\ KnowsCase(CaseId(m), m.lead)
           /\ \A x \in Sections : m.file[x] = file[m.lead][x]
           /\ ~Beside(m) => m.file = file[m.lead]
<1>1. m.result = "ok" /\ FreshAnswer(m)
  BY DEF Quiet
<1>2. "note" \in Sections /\ "animal" \in Sections
  BY DEF Sections, Lists
<1> QED
  BY <1>1, <1>2 DEF FreshAnswer, KnowsCase, CaseId, Recorded

LEMMA LearnsIs ==
    ASSUME IInv, Quiet, NEW m \in flight, m.at = "answered", m.op \in Mutations \cup {"review"}
    PROVE  file[m.lead].id /\ (Learns(m) = store[m.user].caseId \/ KnowsCase(Learns(m), m.lead))
  BY DEF Quiet, Grounded, Learns, KnowsCase

\* The section that the answer to a write brings.
LEMMA BringsOne ==
    ASSUME NEW m, m.op \in Mutations \cup {"review", "find", "close"}, NEW x \in Sections, Brings(m, x)
    PROVE  m.op \in Mutations /\ m.section = x
  BY DEF Brings, Mutations, Forms

\* A reply that asks for nothing more.
LEMMA LastReplyQuiet ==
    ASSUME Alone, IInv, Quiet, NEW m \in flight, m.at = "answered",
           NEW s \in Case, NEW section \in Sections, NEW made,
           Receive(m, s, made, {}) \/ ReceiveOn(m, section, s, made, {}),
           s.modal = store[m.user].modal
              \/ (flight = {m} /\ page[m.user].open = None /\ s.assessment = file[s.modal].assessment),
           page[m.user].open # None => \A x \in Sections :
              s[x] = file[m.lead][x] \/ (s[x] = store[m.user][x] /\ ~Brings(m, x)),
           KnowsCase(s.caseId, m.lead) \/ (s.caseId = store[m.user].caseId /\ ~BringsCase(m)),
           m.op = "review" \/ (m.op = "assessment" /\ m.value = "open") =>
              s.required = file[m.lead].required,
           s.required # store[m.user].required => m.op \in {"review", "assessment"},
           m.op # "complaint"
    PROVE  Quiet'
<1>1. PICK next : next = {}
  OBVIOUS
<1>2. /\ store' = [store EXCEPT ![m.user] = s] /\ UNCHANGED <<file, status>>
      /\ page'[m.user].open = page[m.user].open /\ page'[m.user].review = Follows(page[m.user], store[m.user], s, {}).review
      /\ flight' = (flight \ {m}) \cup next
  BY <1>1, Replies
<1>3. /\ \A n \in next :
            /\ n.lead = m.lead /\ n.at = "sent" /\ n.result = "ok" /\ n.op # "review" /\ Grounded(n)
            /\ n.op = "assessment" => n.value # "list"
      /\ \A n, k \in next : n.op \in Mutations \cup {"find", "close"} => flight = {m} /\ k = n
      /\ \A k \in flight, n \in next :
            k # m /\ k.op = "review" => n.op \in {"status"} \cup Forms /\ n.value = "save"
  BY <1>1
<1>4. /\ page[m.user].open # None => \A x \in Sections :
            \/ s[x] = file[m.lead][x] \/ \E n \in next : Brings(n, x)
            \/ s[x] = store[m.user][x] /\ ~Brings(m, x)
      /\ page[m.user].open # None =>
            \/ KnowsCase(s.caseId, m.lead) \/ \E n \in next : BringsCase(n)
            \/ s.caseId = store[m.user].caseId /\ ~BringsCase(m)
      /\ page[m.user].open # None /\ m.op = "complaint" =>
            \E n \in next : n.op = "assessment" /\ n.value = m.value
  OBVIOUS
<1>5. s.modal = store[m.user].modal
      \/ (flight = {m} /\ next = {} /\ page[m.user].open = None
          /\ s.assessment = file[s.modal].assessment)
  BY <1>1
<1> QED
  BY <1>2, <1>3, <1>4, <1>5, ReplyQuiet

LEMMA CaseReplyQuiet ==
    ASSUME Alone, IInv, Quiet, NEW m \in flight, m.at = "answered", m.op = "case",
           Receive(m, WithCaseFile(store[m.user], m), {}, {})
    PROVE  Quiet'
<1> DEFINE u == m.user
           s == WithCaseFile(store[u], m)
<1>1. Sound(m) /\ store[u] \in Case /\ "note" \in Sections
  BY LearnsOK DEF IInv, Sections
<1>2. s \in Case
  BY <1>1, AnswerOK
<1>3. ~Beside(m) /\ m.op \notin Mutations
  BY DEF Beside, Forms, Mutations
<1>4. m.file = file[m.lead]
  BY <1>3, AnswerIs
<1>5. /\ s.note = m.file.note /\ s.equipment = m.file.equipment /\ s.animal = m.file.animal
      /\ s.assessment = store[u].assessment /\ s.prevention = store[u].prevention
      /\ s.caseId = store[u].caseId /\ s.required = store[u].required /\ s.modal = store[u].modal
  BY <1>1 DEF WithCaseFile, Case
<1> HIDE DEF s
<1>6. Receive(m, s, {}, {})
  BY DEF s
<1>7. ASSUME NEW x \in Sections
      PROVE  s[x] = file[m.lead][x] \/ (s[x] = store[u][x] /\ ~Brings(m, x))
  BY <1>3, <1>4, <1>5 DEF Sections, Forms, Lists, Brings
<1>8. ~BringsCase(m)
  BY <1>3 DEF BringsCase, Mutations
<1> QED
  BY <1>1, <1>2, <1>5, <1>6, <1>7, <1>8, LastReplyQuiet

LEMMA AssessmentReplyQuiet ==
    ASSUME Alone, IInv, Quiet, NEW m \in flight, m.at = "answered", m.op = "assessment",
           NEW modal, modal = (IF m.value = "list" THEN m.lead ELSE store[m.user].modal),
           Receive(m, [store[m.user] EXCEPT !.assessment = m.file.assessment, !.caseId = CaseId(m),
                                            !.required = m.file.required, !.complete = Complete(m),
                                            !.modal = modal], {}, {})
    PROVE  Quiet'
<1> DEFINE u == m.user
           s == [store[u] EXCEPT !.assessment = m.file.assessment, !.caseId = CaseId(m),
                                 !.required = m.file.required, !.complete = Complete(m),
                                 !.modal = modal]
<1>1. /\ Sound(m) /\ m \in Msg /\ store[u] \in Case /\ "note" \in Sections /\ m.file \in File
      /\ u \in Users
  BY LearnsOK DEF IInv, Sections, Sound, Msg
<1>2. s \in Case
  <2>1. /\ CaseId(m) \in Leads /\ Complete(m) \in {"undefined", "null", "set"}
        /\ m.file.assessment \in Texts \cup {None} /\ m.file.required \in BOOLEAN
    BY <1>1, AnswerOK DEF File
  <2>2. modal \in Leads
    BY <1>1 DEF Case, Msg, Leads
  <2> QED
    BY <1>1, <2>1, <2>2 DEF Case
<1>3. m.op \notin Mutations
  BY DEF Mutations
<1>4. /\ \A x \in Sections : m.file[x] = file[m.lead][x]
      /\ KnowsCase(CaseId(m), m.lead)
      /\ m.value # "save" => m.file = file[m.lead]
  BY AnswerIs DEF Beside
<1>5. /\ s.assessment = m.file.assessment /\ s.prevention = store[u].prevention
      /\ s.note = store[u].note /\ s.equipment = store[u].equipment /\ s.animal = store[u].animal
      /\ s.caseId = CaseId(m) /\ s.required = m.file.required /\ s.modal = modal
  BY <1>1 DEF Case
<1> HIDE DEF s
<1>6. Receive(m, s, {}, {})
  BY DEF s
<1>7. s.assessment = file[m.lead].assessment
  BY <1>4, <1>5 DEF Sections, Forms
<1>8. ASSUME NEW x \in Sections
      PROVE  s[x] = file[m.lead][x] \/ (s[x] = store[u][x] /\ ~Brings(m, x))
  BY <1>3, <1>5, <1>7 DEF Sections, Forms, Lists, Brings
<1>9. \/ s.modal = store[u].modal
      \/ flight = {m} /\ page[u].open = None /\ s.assessment = file[s.modal].assessment
  <2>1. CASE m.value = "list"
    <3>1. flight = {m} /\ page[u].open = None
      BY <1>1, <2>1 DEF Quiet, Shape
    <3> QED
      BY <1>5, <1>7, <2>1, <3>1
  <2>2. CASE m.value # "list"
    BY <1>5, <2>2
  <2> QED
    BY <2>1, <2>2
<1>10. m.value = "open" => s.required = file[m.lead].required
  BY <1>4, <1>5
<1> QED
  BY <1>1, <1>2, <1>4, <1>5, <1>6, <1>8, <1>9, <1>10, LastReplyQuiet

LEMMA PreventionReplyQuiet ==
    ASSUME Alone, IInv, Quiet, NEW m \in flight, m.at = "answered", m.op = "prevention",
           Receive(m, [store[m.user] EXCEPT !.prevention = m.file.prevention], {}, {})
    PROVE  Quiet'
<1> DEFINE u == m.user
           s == [store[u] EXCEPT !.prevention = m.file.prevention]
<1>1. Sound(m) /\ store[u] \in Case /\ "note" \in Sections /\ m.file \in File
  BY LearnsOK DEF IInv, Sections, Sound, Msg
<1>2. s \in Case
  BY <1>1 DEF Case, File
<1>3. m.op \notin Mutations
  BY DEF Mutations
<1>4. m.file.prevention = file[m.lead].prevention
  BY AnswerIs DEF Sections, Forms
<1>5. /\ s.prevention = m.file.prevention /\ s.assessment = store[u].assessment
      /\ s.note = store[u].note /\ s.equipment = store[u].equipment /\ s.animal = store[u].animal
      /\ s.caseId = store[u].caseId /\ s.required = store[u].required /\ s.modal = store[u].modal
  BY <1>1 DEF Case
<1> HIDE DEF s
<1>6. Receive(m, s, {}, {})
  BY DEF s
<1>7. ASSUME NEW x \in Sections
      PROVE  s[x] = file[m.lead][x] \/ (s[x] = store[u][x] /\ ~Brings(m, x))
  BY <1>3, <1>4, <1>5 DEF Sections, Forms, Lists, Brings
<1>8. ~BringsCase(m)
  BY <1>3 DEF BringsCase, Mutations
<1> QED
  BY <1>1, <1>2, <1>5, <1>6, <1>7, <1>8, LastReplyQuiet

\* A reply that asks for something to be read.
LEMMA NextReplyQuiet ==
    ASSUME Alone, IInv, Quiet, NEW m \in flight, m.at = "answered",
           NEW s \in Case, NEW section \in Sections, NEW made,
           NEW next, NEW ops, NEW cause, AsksFor(next, m.lead, ops, cause),
           Receive(m, s, made, next) \/ ReceiveOn(m, section, s, made, next),
           s.modal = store[m.user].modal, m.op # "assessment",
           \A k \in flight : k # m /\ k.op = "review" => ops \subseteq {"status"} \cup Forms /\ cause = "save",
           page[m.user].open # None => \A x \in Sections :
              \/ s[x] = file[m.lead][x] \/ (s[x] = store[m.user][x] /\ ~Brings(m, x))
              \/ x \in Forms /\ (x \in ops \/ "complaint" \in ops)
              \/ x \notin Forms /\ "case" \in ops,
           page[m.user].open # None =>
              \/ KnowsCase(s.caseId, m.lead) \/ (s.caseId = store[m.user].caseId /\ ~BringsCase(m))
              \/ "assessment" \in ops \/ "complaint" \in ops,
           m.op = "review" => s.required = file[m.lead].required,
           s.required # store[m.user].required => m.op = "review",
           page[m.user].open # None /\ m.op = "complaint" => "assessment" \in ops /\ cause = m.value
    PROVE  Quiet'
<1>1. /\ store' = [store EXCEPT ![m.user] = s] /\ UNCHANGED <<file, status>>
      /\ page'[m.user].open = page[m.user].open
      /\ page'[m.user].review = Follows(page[m.user], store[m.user], s, {}).review
      /\ flight' = (flight \ {m}) \cup next
  BY Replies
<1>2. /\ \A n \in next :
            /\ n.lead = m.lead /\ n.at = "sent" /\ n.result = "ok" /\ n.op # "review" /\ Grounded(n)
            /\ n.op = "assessment" => n.value # "list"
            /\ n.op \notin Mutations \cup {"find", "close"} /\ n.op \in ops /\ n.value = cause
      /\ \A op \in ops : \E n \in next : n.op = op /\ n.value = cause
  BY DEF AsksFor
<1>3. page[m.user].open # None => \A x \in Sections :
         \/ s[x] = file[m.lead][x] \/ \E n \in next : Brings(n, x)
         \/ s[x] = store[m.user][x] /\ ~Brings(m, x)
  <2>1. ASSUME NEW x \in Forms, x \in ops \/ "complaint" \in ops PROVE \E n \in next : Brings(n, x)
    BY <1>2, <2>1 DEF Brings
  <2>2. ASSUME NEW x, x \notin Forms, "case" \in ops PROVE \E n \in next : Brings(n, x)
    BY <1>2, <2>2 DEF Brings
  <2> QED
    BY <2>1, <2>2
<1>4. page[m.user].open # None =>
         \/ KnowsCase(s.caseId, m.lead) \/ \E n \in next : BringsCase(n)
         \/ s.caseId = store[m.user].caseId /\ ~BringsCase(m)
  BY <1>2 DEF BringsCase
<1>5. page[m.user].open # None /\ m.op = "complaint" =>
         \E n \in next : n.op = "assessment" /\ n.value = m.value
  BY <1>2
<1>6. /\ \A n, k \in next : n.op \in Mutations \cup {"find", "close"} => flight = {m} /\ k = n
      /\ \A k \in flight, n \in next :
            k # m /\ k.op = "review" => n.op \in {"status"} \cup Forms /\ n.value = "save"
  BY <1>2
<1>7. \A n \in next :
         /\ n.lead = m.lead /\ n.at = "sent" /\ n.result = "ok" /\ n.op # "review" /\ Grounded(n)
         /\ n.op = "assessment" => n.value # "list"
  BY <1>2
<1>8. /\ s.modal = store[m.user].modal
         \/ (flight = {m} /\ next = {} /\ page[m.user].open = None
             /\ s.assessment = file[s.modal].assessment)
      /\ m.op = "review" \/ (m.op = "assessment" /\ m.value = "open") =>
            s.required = file[m.lead].required
      /\ s.required # store[m.user].required => m.op \in {"review", "assessment"}
  OBVIOUS
<1> QED
  BY <1>1, <1>3, <1>4, <1>5, <1>6, <1>7, <1>8, ReplyQuiet

\* Only reads sent beside it are under way with a review; nothing is with a write.
LEMMA Together ==
    ASSUME IInv, Quiet, NEW m \in flight
    PROVE  /\ m.op \in Mutations \cup {"find", "close"} => \A k \in flight : k = m
           /\ m.op = "review" => \A k \in flight : k # m => k.op # "review"
           /\ m.op \notin {"status"} \cup Forms \/ m.value # "save" =>
                 \A k \in flight : k # m => k.op # "review"
<1>1. m.user \in Users
  BY DEF IInv, Sound, Msg
<1>2. Shape(m.user)
  BY <1>1 DEF Quiet
<1> QED
  BY <1>2 DEF Shape, Forms

LEMMA ComplaintReplyQuiet ==
    ASSUME Alone, IInv, Quiet, NEW m \in flight, m.at = "answered",
           NEW s, NEW gets, gets = FormGets(m.user, m.lead, m.value), Receive(m, s, {}, gets),
           \/ m.op = "complaint" /\ s = [store[m.user] EXCEPT !.status = m.status, !.lead = m.lead]
           \/ m.op = "status" /\ s = [store[m.user] EXCEPT !.status = m.status]
    PROVE  Quiet'
<1> DEFINE ops == IF page[m.user].open = None THEN {} ELSE Forms
<1>1. Sound(m) /\ m \in Msg /\ store[m.user] \in Case /\ "note" \in Sections /\ "assessment" \in Forms
  BY LearnsOK DEF IInv, Sections, Sound, Forms
<1>2. s \in Case
  <2>1. m.status \in Statuses /\ m.lead \in Complaints
    BY <1>1 DEF Msg
  <2>2. CASE s = [store[m.user] EXCEPT !.status = m.status, !.lead = m.lead]
    BY <1>1, <2>1, <2>2 DEF Case, Leads
  <2>3. CASE s = [store[m.user] EXCEPT !.status = m.status]
    BY <1>1, <2>1, <2>3 DEF Case
  <2> QED
    BY <2>2, <2>3
<1>3. \A x \in Sections : s[x] = store[m.user][x]
  BY <1>1 DEF Case, Sections, Forms, Lists
<1>4. s.caseId = store[m.user].caseId /\ s.required = store[m.user].required
      /\ s.modal = store[m.user].modal
  BY <1>1 DEF Case
<1>5. ops \in SUBSET (Reads \ {"find"}) /\ ops \subseteq Forms
  BY DEF Reads, Forms
<1>6. m.value # "list"
  BY DEF Quiet, Grounded
<1>7. gets = Gets(m.user, m.lead, ops, m.value)
  BY DEF FormGets
<1>8. \A k \in flight : k # m /\ k.op = "review" => ops \subseteq {"status"} \cup Forms /\ m.value = "save"
  BY <1>5, Together
<1>9. page[m.user].open # None => ops = Forms
  OBVIOUS
<1>10. m.op \notin Mutations /\ m.op # "assessment" /\ m.op # "review" /\ m.op # "case" /\ m.op \notin Forms
  BY DEF Mutations, Forms
<1> HIDE DEF ops
<1>11. page[m.user].open # None => \A x \in Sections :
          (s[x] = store[m.user][x] /\ ~Brings(m, x)) \/ (x \in Forms /\ x \in ops)
  BY <1>3, <1>9, <1>10 DEF Brings
<1>12. page[m.user].open # None =>
          (s.caseId = store[m.user].caseId /\ ~BringsCase(m)) \/ "assessment" \in ops
  BY <1>1, <1>4, <1>9, <1>10 DEF BringsCase, Mutations
<1>13. page[m.user].open # None => \A x \in Sections :
          \/ s[x] = file[m.lead][x] \/ (s[x] = store[m.user][x] /\ ~Brings(m, x))
          \/ x \in Forms /\ (x \in ops \/ "complaint" \in ops)
          \/ x \notin Forms /\ "case" \in ops
  BY <1>11
<1>14. page[m.user].open # None =>
          \/ KnowsCase(s.caseId, m.lead) \/ (s.caseId = store[m.user].caseId /\ ~BringsCase(m))
          \/ "assessment" \in ops \/ "complaint" \in ops
  BY <1>12
<1>15. Receive(m, s, {}, gets) /\ AsksFor(gets, m.lead, ops, m.value)
  BY <1>5, <1>6, <1>7, GetsReply
<1>16. page[m.user].open # None => "assessment" \in ops
  BY <1>1, <1>9
<1> QED
  BY <1>1, <1>2, <1>4, <1>8, <1>10, <1>13, <1>14, <1>15, <1>16, NextReplyQuiet

LEMMA ReceiveReadQuiet == ASSUME Alone, IInv, Quiet, NEW m \in flight, ReceiveRead(m) PROVE Quiet'
<1> DEFINE s == store[m.user]
           gets == FormGets(m.user, m.lead, m.value)
<1>1. m.at = "answered" /\ s \in Case /\ "note" \in Sections
  BY LearnsOK DEF ReceiveRead, Sections
<1> HIDE DEF s, gets
<1>2. CASE m.op = "case" /\ Receive(m, WithCaseFile(s, m), {}, {})
  BY <1>1, <1>2, CaseReplyQuiet DEF s
<1>3. ASSUME m.op = "assessment",
             NEW modal, modal = (IF m.value = "list" THEN m.lead ELSE s.modal),
             Receive(m, [s EXCEPT !.assessment = m.file.assessment, !.caseId = CaseId(m),
                                  !.required = m.file.required, !.complete = Complete(m),
                                  !.modal = modal], {}, {})
      PROVE  Quiet'
  BY <1>1, <1>3, AssessmentReplyQuiet DEF s
<1>4. CASE m.op = "prevention" /\ Receive(m, [s EXCEPT !.prevention = m.file.prevention], {}, {})
  BY <1>1, <1>4, PreventionReplyQuiet DEF s
<1>5. CASE m.op = "complaint"
           /\ Receive(m, [s EXCEPT !.status = m.status, !.lead = m.lead], {}, gets)
  BY <1>1, <1>5, ComplaintReplyQuiet DEF s, gets
<1>6. CASE m.op = "status" /\ Receive(m, [s EXCEPT !.status = m.status], {}, gets)
  BY <1>1, <1>6, ComplaintReplyQuiet DEF s, gets
<1>7. CASE m.op = "status" /\ Receive(m, s, {}, {})
  <2>1. ~BringsCase(m) /\ \A x \in Sections : ~Brings(m, x)
    BY <1>7 DEF BringsCase, Brings, Mutations, Forms
  <2> QED
    BY <1>1, <1>7, <2>1, LastReplyQuiet DEF s
<1>8. \/ m.op = "case" /\ Receive(m, WithCaseFile(s, m), {}, {})
      \/ m.op = "assessment"
         /\ \E modal : /\ modal = (IF m.value = "list" THEN m.lead ELSE s.modal)
                       /\ Receive(m, [s EXCEPT !.assessment = m.file.assessment, !.caseId = CaseId(m),
                                               !.required = m.file.required, !.complete = Complete(m),
                                               !.modal = modal], {}, {})
      \/ m.op = "prevention" /\ Receive(m, [s EXCEPT !.prevention = m.file.prevention], {}, {})
      \/ m.op = "complaint"
         /\ Receive(m, [s EXCEPT !.status = m.status, !.lead = m.lead], {}, gets)
      \/ m.op = "status" /\ Receive(m, [s EXCEPT !.status = m.status], {}, gets)
      \/ m.op = "status" /\ Receive(m, s, {}, {})
  <2>1. s = store[m.user] /\ gets = FormGets(m.user, m.lead, m.value)
    BY DEF s, gets
  <2> QED
    BY <2>1, Zenon DEF ReceiveRead
<1> QED
  BY <1>2, <1>3, <1>4, <1>5, <1>6, <1>7, <1>8

\* The search found the case file that is there: the write that follows will find it too.
LEMMA ReceiveFindQuiet == ASSUME Alone, IInv, Quiet, NEW m \in flight, ReceiveFind(m) PROVE Quiet'
<1> DEFINE op == IF m.file.id \/ m.section = "note" THEN "update" ELSE "create"
           case == IF m.file.id \/ m.section = "note" THEN CaseId(m) ELSE store[m.user].caseId
           s == store[m.user]
<1>1. /\ Sound(m) /\ m \in Msg /\ s \in Case /\ m.op = "find" /\ m.at = "answered" /\ m.result = "ok"
      /\ "note" \in Sections
  BY LearnsOK DEF IInv, Sound, ReceiveFind, Sections
<1>2. PICK n : n = [m EXCEPT !.at = "sent", !.file = NoFile, !.status = "OPEN",
                             !.op = op, !.case = case]
  OBVIOUS
<1>3. Receive(m, s, {}, {n})
  BY <1>2 DEF ReceiveFind
<1>4. /\ n.lead = m.lead /\ n.at = "sent" /\ n.result = "ok" /\ n.op = op /\ n.case = case
      /\ n.section = m.section /\ n.value = m.value
  BY <1>1, <1>2 DEF Msg
<1>5. m.section \in Forms \cup {"note"} /\ m.section # "equipment"
  BY <1>1 DEF Sound, Carries, Forms
<1>6. m.file = file[m.lead] /\ (m.section = "note" => file[m.lead].id)
  <2>1. ~Beside(m) /\ Grounded(m)
    BY <1>1 DEF Quiet, Beside, Forms
  <2> QED
    BY <1>1, <2>1, AnswerIs DEF Grounded
<1>7. op = "update" => case = m.lead /\ file[m.lead].id
  BY <1>6 DEF CaseId
<1>8. op \in {"update", "create"}
  OBVIOUS
<1> HIDE DEF op, case
<1>9. Grounded(n)
  BY <1>4, <1>5, <1>7, <1>8 DEF Grounded
<1>10. flight = {m}
  BY <1>1, Together
<1>11. PICK next : next = {n}
  OBVIOUS
<1>12. /\ store' = [store EXCEPT ![m.user] = s] /\ UNCHANGED <<file, status>>
       /\ page'[m.user].open = page[m.user].open
       /\ page'[m.user].review = Follows(page[m.user], store[m.user], s, {}).review
       /\ flight' = (flight \ {m}) \cup next
  BY <1>1, <1>3, <1>11, Replies
<1>13. \A k \in next :
          /\ k.lead = m.lead /\ k.at = "sent" /\ k.result = "ok" /\ k.op # "review" /\ Grounded(k)
          /\ k.op = "assessment" => k.value # "list"
  BY <1>4, <1>8, <1>9, <1>11
<1>14. /\ \A k, j \in next : k.op \in Mutations \cup {"find", "close"} => flight = {m} /\ j = k
       /\ \A k \in flight, j \in next :
             k # m /\ k.op = "review" => j.op \in {"status"} \cup Forms /\ j.value = "save"
  BY <1>10, <1>11
<1>15. ~BringsCase(m) /\ \A x \in Sections : ~Brings(m, x)
  BY <1>1 DEF BringsCase, Brings, Mutations, Forms
<1> HIDE DEF s
<1>16. s = store[m.user] /\ s \in Case /\ m.op = "find" /\ m.at = "answered"
  BY <1>1 DEF s
<1> QED
  BY <1>12, <1>13, <1>14, <1>15, <1>16, ReplyQuiet

LEMMA ReceiveFormQuiet == ASSUME Alone, IInv, Quiet, NEW m \in flight, ReceiveForm(m) PROVE Quiet'
<1>1. Sound(m) /\ store[m.user] \in Case /\ m.file \in File /\ Learns(m) \in Leads /\ "note" \in Sections
  BY LearnsOK DEF IInv, Sound, Msg, Sections
<1>2. PICK form \in Forms : Replied(m, form) /\ (FormCreated(m, form) \/ FormUpdated(m, form))
  BY DEF ReceiveForm
<1>3. form \in {"assessment", "prevention"} /\ m.section = form /\ m.at = "answered"
      /\ m.op \in Mutations
  BY <1>2 DEF Replied, Forms
<1>4. m.op \notin {"close", "review", "complaint", "assessment"} \cup Forms
  BY <1>3 DEF Mutations, Forms
<1>5. m.result = "ok" /\ m.file[form] = file[m.lead][form]
  BY <1>3, <1>4, AnswerIs DEF Sections, Forms
<1>6. PICK i : /\ i = Learns(m) \/ i = store[m.user].caseId
               /\ \E made : Receive(m, [store[m.user] EXCEPT ![form] = m.file[form], !.caseId = i], made, {})
  <2>1. CASE FormCreated(m, form)
    BY <1>5, <2>1 DEF FormCreated
  <2>2. CASE FormUpdated(m, form)
    <3>1. [store[m.user] EXCEPT ![form] = m.file[form]]
          = [store[m.user] EXCEPT ![form] = m.file[form], !.caseId = store[m.user].caseId]
      <4>1. CASE form = "assessment"
        BY <1>1, <4>1 DEF Case
      <4>2. CASE form = "prevention"
        BY <1>1, <4>2 DEF Case
      <4> QED
        BY <1>3, <4>1, <4>2
    <3> QED
      BY <1>5, <2>2, <3>1 DEF FormUpdated
  <2> QED
    BY <1>2, <2>1, <2>2
<1>7. PICK s : s = [store[m.user] EXCEPT ![form] = m.file[form], !.caseId = i]
  OBVIOUS
<1>8. PICK made : Receive(m, s, made, {})
  BY <1>6, <1>7
<1>9. m.file[form] \in Texts \cup {None} /\ i \in Leads
  BY <1>1, <1>3, <1>6 DEF File, Case
<1>10. s \in Case /\ s.caseId = i /\ s.modal = store[m.user].modal
       /\ s.required = store[m.user].required /\ s[form] = m.file[form]
       /\ \A x \in Sections : x # form => s[x] = store[m.user][x]
  <2>1. CASE form = "assessment"
    BY <1>1, <1>7, <1>9, <2>1 DEF Case, Sections, Forms, Lists
  <2>2. CASE form = "prevention"
    BY <1>1, <1>7, <1>9, <2>2 DEF Case, Sections, Forms, Lists
  <2> QED
    BY <1>3, <2>1, <2>2
<1>11. \A x \in Sections : s[x] = file[m.lead][x] \/ (s[x] = store[m.user][x] /\ ~Brings(m, x))
  BY <1>3, <1>5, <1>10, BringsOne
<1>12. ~BringsCase(m)
  BY <1>3, <1>4 DEF BringsCase
<1>13. KnowsCase(s.caseId, m.lead) \/ s.caseId = store[m.user].caseId
  BY <1>3, <1>6, <1>10, LearnsIs
<1> QED
  BY <1>1, <1>3, <1>4, <1>8, <1>10, <1>11, <1>12, <1>13, LastReplyQuiet

LEMMA ReceiveNoteQuiet == ASSUME Alone, IInv, Quiet, NEW m \in flight, ReceiveNote(m) PROVE Quiet'
<1>1. /\ Sound(m) /\ store[m.user] \in Case /\ "note" \in Sections /\ m.lead \in Complaints
      /\ m.op \in Mutations /\ m.section = "note" /\ m.at = "answered"
  BY LearnsOK DEF IInv, Sections, ReceiveNote, Replied
<1>2. m.op \notin {"close", "review", "complaint", "assessment"}
  BY <1>1 DEF Mutations, Forms
<1>3. m.result = "ok" /\ file[m.lead].id
  BY <1>1, <1>2, AnswerIs, LearnsIs
<1>4. PICK i : i = IF m.op = "delete" THEN store[m.user].caseId ELSE m.lead
  OBVIOUS
<1>5. PICK s : s = [store[m.user] EXCEPT !.caseId = i]
  OBVIOUS
<1>6. PICK next : next = Gets(m.user, m.lead, {"case"}, "note")
  OBVIOUS
<1>7. PICK made : ReceiveOn(m, "note", s, made, next)
  BY <1>3, <1>4, <1>5, <1>6 DEF ReceiveNote
<1>8. s \in Case /\ s.caseId = i /\ s.modal = store[m.user].modal
      /\ s.required = store[m.user].required /\ \A x \in Sections : s[x] = store[m.user][x]
  <2>1. i \in Leads
    BY <1>1, <1>4 DEF Case, Leads
  <2> QED
    BY <1>1, <1>5, <2>1 DEF Case, Sections, Forms, Lists
<1>9. \A x \in Sections : (s[x] = store[m.user][x] /\ ~Brings(m, x)) \/ x = "note"
  BY <1>1, <1>8, BringsOne
<1>10. KnowsCase(s.caseId, m.lead) \/ (s.caseId = store[m.user].caseId /\ ~BringsCase(m))
  <2>1. CASE m.op = "delete"
    BY <1>1, <1>2, <1>4, <1>8, <2>1 DEF BringsCase
  <2>2. CASE m.op # "delete"
    BY <1>3, <1>4, <1>8, <2>2 DEF KnowsCase
  <2> QED
    BY <2>1, <2>2
<1>11. PICK ops : ops = {"case"}
  OBVIOUS
<1>12. AsksFor(next, m.lead, ops, "note") /\ "case" \in ops /\ "note" \notin Forms
  <2>1. ops \in SUBSET (Reads \ {"find"}) /\ "note" \notin Forms
    BY <1>11 DEF Reads, Forms
  <2> QED
    BY <1>6, <1>11, <2>1, GetsReply
<1>13. \A k \in flight : k = m
  BY <1>1, Together
<1> QED
  BY <1>1, <1>2, <1>7, <1>8, <1>9, <1>10, <1>12, <1>13, NextReplyQuiet

LEMMA ReceiveAnimalQuiet == ASSUME Alone, IInv, Quiet, NEW m \in flight, ReceiveAnimal(m) PROVE Quiet'
<1>1. /\ Sound(m) /\ store[m.user] \in Case /\ "animal" \in Sections /\ m.lead \in Complaints
      /\ m.op \in Mutations /\ m.section = "animal" /\ m.at = "answered"
  BY LearnsOK DEF IInv, Sections, Lists, ReceiveAnimal, Replied
<1>2. m.op \notin {"close", "review", "complaint", "assessment"}
  BY <1>1 DEF Mutations, Forms
<1>3. m.result = "ok" /\ file[m.lead].id
  BY <1>1, <1>2, AnswerIs, LearnsIs
<1>4. PICK s : s = [store[m.user] EXCEPT !.caseId = m.lead]
  OBVIOUS
<1>5. PICK next : next = Gets(m.user, m.lead, {"case"}, "animal")
  OBVIOUS
<1>6. PICK made : ReceiveOn(m, "animal", s, made, next)
  BY <1>3, <1>4, <1>5 DEF ReceiveAnimal
<1>7. s \in Case /\ s.caseId = m.lead /\ s.modal = store[m.user].modal
      /\ s.required = store[m.user].required /\ \A x \in Sections : s[x] = store[m.user][x]
  BY <1>1, <1>4 DEF Case, Leads, Sections, Forms, Lists
<1>8. \A x \in Sections : (s[x] = store[m.user][x] /\ ~Brings(m, x)) \/ x = "animal"
  BY <1>1, <1>7, BringsOne
<1>9. KnowsCase(s.caseId, m.lead)
  BY <1>3, <1>7 DEF KnowsCase
<1>10. PICK ops : ops = {"case"}
  OBVIOUS
<1>11. AsksFor(next, m.lead, ops, "animal") /\ "case" \in ops /\ "animal" \notin Forms
  <2>1. ops \in SUBSET (Reads \ {"find"}) /\ "animal" \notin Forms
    BY <1>10 DEF Reads, Forms
  <2> QED
    BY <1>5, <1>10, <2>1, GetsReply
<1>12. \A k \in flight : k = m
  BY <1>1, Together
<1> QED
  BY <1>1, <1>2, <1>6, <1>7, <1>8, <1>9, <1>11, <1>12, NextReplyQuiet

LEMMA ReceiveReviewQuiet == ASSUME Alone, IInv, Quiet, NEW m \in flight, ReceiveReview(m) PROVE Quiet'
<1>1. /\ Sound(m) /\ store[m.user] \in Case /\ "note" \in Sections /\ m.file \in File
      /\ m.op = "review" /\ m.at = "answered" /\ Learns(m) \in Leads
  BY LearnsOK DEF IInv, Sections, ReceiveReview, Sound, Msg
<1>2. m.op \notin Mutations /\ m.op \notin Forms
  BY <1>1 DEF Mutations, Forms
<1>3. m.file = file[m.lead] /\ m.result = "ok"
  BY <1>1, <1>2, AnswerIs DEF Beside
<1>4. PICK i : i = IF m.value.creates THEN Learns(m) ELSE store[m.user].caseId
  OBVIOUS
<1>5. PICK k : k = IF m.file.complete THEN "set" ELSE store[m.user].complete
  OBVIOUS
<1>6. PICK s : s = [store[m.user] EXCEPT !.caseId = i, !.required = m.file.required, !.complete = k]
  OBVIOUS
<1>7. PICK next : next = Gets(m.user, m.lead, {"status"}, "review")
  OBVIOUS
<1>8. PICK made : Receive(m, s, made, next)
  BY <1>3, <1>4, <1>5, <1>6, <1>7 DEF ReceiveReview
<1>9. s \in Case /\ s.caseId = i /\ s.modal = store[m.user].modal
      /\ s.required = m.file.required /\ \A x \in Sections : s[x] = store[m.user][x]
  <2>1. i \in Leads /\ k \in {"undefined", "null", "set"} /\ m.file.required \in BOOLEAN
    BY <1>1, <1>4, <1>5 DEF Case, File
  <2> QED
    BY <1>1, <1>6, <2>1 DEF Case, Sections, Forms, Lists
<1>10. \A x \in Sections : s[x] = store[m.user][x] /\ ~Brings(m, x)
  BY <1>1, <1>2, <1>9, BringsOne
<1>11. KnowsCase(s.caseId, m.lead) \/ (s.caseId = store[m.user].caseId /\ ~BringsCase(m))
  <2>1. ~BringsCase(m)
    BY <1>1, <1>2 DEF BringsCase, Mutations
  <2> QED
    BY <1>1, <1>4, <1>9, <2>1, LearnsIs
<1>12. PICK ops : ops = {"status"}
  OBVIOUS
<1>13. AsksFor(next, m.lead, ops, "review")
  <2>1. ops \in SUBSET (Reads \ {"find"})
    BY <1>12 DEF Reads
  <2> QED
    BY <1>7, <1>12, <2>1, GetsReply
<1>14. \A j \in flight : j # m => j.op # "review"
  BY <1>1, Together
<1> QED
  BY <1>1, <1>3, <1>8, <1>9, <1>10, <1>11, <1>13, <1>14, NextReplyQuiet

LEMMA ReceiveCloseQuiet == ASSUME Alone, IInv, Quiet, NEW m \in flight, ReceiveClose(m) PROVE Quiet'
<1>1. /\ Sound(m) /\ store[m.user] \in Case /\ "note" \in Sections
      /\ m.op = "close" /\ m.at = "answered"
  BY LearnsOK DEF IInv, Sections, ReceiveClose
<1>2. m.op \notin Mutations /\ m.op \notin Forms
  BY <1>1 DEF Mutations, Forms
<1>3. PICK s : s = [store[m.user] EXCEPT !.status = None]
  OBVIOUS
<1>4. PICK next : next = Gets(m.user, m.lead, {"complaint"}, "close")
  OBVIOUS
<1>5. Receive(m, s, {}, next)
  BY <1>3, <1>4 DEF ReceiveClose
<1>6. s \in Case /\ s.caseId = store[m.user].caseId /\ s.modal = store[m.user].modal
      /\ s.required = store[m.user].required /\ \A x \in Sections : s[x] = store[m.user][x]
  BY <1>1, <1>3 DEF Case, Sections, Forms, Lists
<1>7. \A x \in Sections : s[x] = store[m.user][x] /\ ~Brings(m, x)
  BY <1>1, <1>2, <1>6, BringsOne
<1>8. ~BringsCase(m)
  BY <1>1, <1>2 DEF BringsCase, Mutations
<1>9. PICK ops : ops = {"complaint"}
  OBVIOUS
<1>10. AsksFor(next, m.lead, ops, "close")
  <2>1. ops \in SUBSET (Reads \ {"find"})
    BY <1>9 DEF Reads
  <2> QED
    BY <1>4, <1>9, <2>1, GetsReply
<1>11. \A k \in flight : k = m
  BY <1>1, Together
<1> QED
  BY <1>1, <1>5, <1>6, <1>7, <1>8, <1>10, <1>11, NextReplyQuiet

LEMMA ReceiveEquipmentQuiet ==
    ASSUME Alone, IInv, Quiet, NEW m \in flight, ReceiveEquipment(m)
    PROVE  Quiet'
<1>1. /\ Sound(m) /\ store[m.user] \in Case /\ "note" \in Sections /\ m.file \in File
      /\ m.op \in Mutations /\ m.section = "equipment" /\ m.at = "answered" /\ Learns(m) \in Leads
      /\ m.lead \in Complaints /\ m.user \in Users
  BY LearnsOK DEF IInv, Sections, ReceiveEquipment, Replied, Sound, Msg
<1>2. m.op \notin {"close", "review", "complaint", "assessment", "status"} \cup Forms
  BY <1>1 DEF Mutations, Forms
<1>3. m.result = "ok" /\ m.file = file[m.lead] /\ file[m.lead].id
  BY <1>1, <1>2, AnswerIs, LearnsIs DEF Beside
<1>4. PICK new : new = IF m.op = "delete"
                       THEN [store[m.user] EXCEPT !.equipment[m.value.item] = "absent"]
                       ELSE WithCaseFile(store[m.user], m)
  OBVIOUS
<1>5. PICK i : i = IF m.op = "create" THEN Learns(m) ELSE new.caseId
  OBVIOUS
<1>6. PICK s : s = [new EXCEPT !.caseId = i]
  OBVIOUS
<1>7. PICK made : Receive(m, s, made, {})
  BY <1>3, <1>4, <1>5, <1>6 DEF ReceiveEquipment
<1>8. /\ new \in Case /\ new.caseId = store[m.user].caseId /\ new.modal = store[m.user].modal
      /\ new.required = store[m.user].required
      /\ new.assessment = store[m.user].assessment /\ new.prevention = store[m.user].prevention
      /\ \/ /\ m.op # "delete" /\ new.note = file[m.lead].note
            /\ new.equipment = file[m.lead].equipment /\ new.animal = file[m.lead].animal
         \/ /\ m.op = "delete" /\ new.note = store[m.user].note /\ new.animal = store[m.user].animal
            /\ new.equipment = [store[m.user].equipment EXCEPT ![m.value.item] = "absent"]
  <2>1. CASE m.op = "delete"
    <3>1. m.value \in ItemValue
      BY <1>1 DEF Sound, Carries, Lists
    <3>2. PICK e : e = [store[m.user].equipment EXCEPT ![m.value.item] = "absent"]
      OBVIOUS
    <3>3. new = [store[m.user] EXCEPT !.equipment = e]
      BY <1>1, <1>4, <2>1, <3>2 DEF Case
    <3>4. e \in [Items -> States]
      <4>1. m.value.item \in Items /\ store[m.user].equipment \in [Items -> States]
        BY <1>1, <3>1 DEF ItemValue, Case
      <4> QED
        BY <3>2, <4>1 DEF States
    <3> QED
      BY <1>1, <2>1, <3>2, <3>3, <3>4 DEF Case
  <2>2. CASE m.op # "delete"
    <3>1. new \in Case
      BY <1>1, <1>4, <2>2, AnswerOK
    <3> QED
      BY <1>1, <1>3, <1>4, <2>2, <3>1 DEF WithCaseFile, Case
  <2> QED
    BY <2>1, <2>2
<1>9. i \in Leads
  BY <1>1, <1>5, <1>8 DEF Case
<1>10. /\ s \in Case /\ s.caseId = i /\ s.modal = store[m.user].modal
       /\ s.required = store[m.user].required /\ \A x \in Sections : s[x] = new[x]
  BY <1>6, <1>8, <1>9 DEF Case, Sections, Forms, Lists
<1>11. page[m.user].open # None /\ m.op = "delete" => new.equipment = file[m.lead].equipment
  <2>1. SectionsInv(m.user)
    BY <1>1 DEF Quiet
  <2> QED
    BY <1>1, <1>8, <2>1 DEF SectionsInv, Deletes
<1>12. page[m.user].open # None => \A x \in Sections :
          s[x] = file[m.lead][x] \/ (s[x] = store[m.user][x] /\ ~Brings(m, x))
  <2>1. SUFFICES ASSUME page[m.user].open # None, NEW x \in Sections
                 PROVE  s[x] = file[m.lead][x] \/ (s[x] = store[m.user][x] /\ ~Brings(m, x))
    OBVIOUS
  <2>2. Brings(m, x) => x = "equipment"
    BY <1>1, BringsOne
  <2>3. new.equipment = file[m.lead].equipment
    BY <1>8, <1>11, <2>1
  <2>4. new[x] = file[m.lead][x] \/ (new[x] = store[m.user][x] /\ x # "equipment")
    BY <1>8, <2>3 DEF Sections, Forms, Lists
  <2> QED
    BY <1>10, <2>2, <2>4
<1>13. KnowsCase(s.caseId, m.lead) \/ s.caseId = store[m.user].caseId
  BY <1>1, <1>5, <1>8, <1>10, LearnsIs
<1>14. ~BringsCase(m)
  BY <1>1, <1>2 DEF BringsCase
<1> QED
  BY <1>1, <1>2, <1>7, <1>10, <1>12, <1>13, <1>14, LastReplyQuiet

-----------------------------------------------------------------------------
(* Every behaviour of one officer.                                         *)

LEMMA InitQuiet == Init => Quiet
<1> SUFFICES ASSUME Init PROVE Quiet
  OBVIOUS
<1>1. flight = {} /\ \A c \in Complaints : status[c] = "OPEN" /\ file[c] \in Begun \cup {NoFile}
  BY DEF Init
<1>2. ASSUME NEW c \in Complaints PROVE Recorded(file[c])
  <2>1. CASE file[c] = NoFile
    BY <2>1 DEF NoFile, Recorded
  <2>2. CASE file[c] \in Begun
    <3>1. \A f \in Begun : f.id
      BY DEF Begun, NoFile
    <3> QED
      BY <2>2, <3>1 DEF Recorded
  <2> QED
    BY <1>1, <2>1, <2>2
<1>3. ASSUME NEW u \in Users
      PROVE  store[u].modal = None /\ page[u].open = None /\ page[u].review.completed = FALSE
  BY DEF Init, NoCase, NewPage
<1> QED
  BY <1>1, <1>2, <1>3 DEF Quiet, Shape, SectionsInv, CaseInv, RequestInv, PendingInv

LEMMA ServeQuiet ==
    ASSUME Alone, IInv, Quiet, NEW m \in flight, Serve(m), UNCHANGED faults
    PROVE  Quiet'
  BY ServeReadQuiet, ServeWriteQuiet, WriteStatusQuiet, ServeCloseQuiet DEF Serve

LEMMA ReceiveReplyQuiet ==
    ASSUME Alone, IInv, Quiet, NEW m \in flight, ReceiveReply(m)
    PROVE  Quiet'
<1>1. ~ReceiveRejection(m)
  BY DEF Quiet, ReceiveRejection
<1> QED
  BY <1>1, ReceiveReadQuiet, ReceiveFindQuiet, ReceiveFormQuiet, ReceiveNoteQuiet,
     ReceiveEquipmentQuiet, ReceiveAnimalQuiet, ReceiveReviewQuiet, ReceiveCloseQuiet
  DEF ReceiveReply

\* Failures are counted and never forgotten.
LEMMA FaultsGrow == ASSUME IInv, Next, faults' = 0 PROVE faults = 0
<1>1. faults \in Nat
  BY CaseAssumption DEF IInv
<1>2. ~Fault
  BY <1>1 DEF Fault
<1>3. ASSUME NEW u \in Users, Visits(u) \/ Fills(u) \/ Reviews(u) \/ Closes(u) PROVE UNCHANGED faults
  <2>1. CASE Visits(u)
    BY <2>1 DEF Visits, Open, Leave
  <2>2. CASE Fills(u)
    BY <2>2 DEF Fills, Edit, Cancel, SaveForm, SaveNote, DeleteNote, SaveItem, DeleteItem, SendWrite
  <2>3. CASE Reviews(u)
    BY <2>3 DEF Reviews, EditReview, TickRequired, TickComplete, Review, SaveReview
  <2>4. CASE Closes(u)
    BY <2>4 DEF Closes, ChangeStatusOnPage, ChangeStatusInList, ChangeStatus, OpenModalInList, CloseModal
  <2> QED
    BY <1>3, <2>1, <2>2, <2>3, <2>4
<1>4. ASSUME NEW m \in flight, Serve(m) PROVE UNCHANGED faults
  <2>1. ServeRead(m) => UNCHANGED faults
    BY <1>2 DEF ServeRead
  <2>2. ServeWrite(m) => UNCHANGED faults
    BY <1>2 DEF ServeWrite
  <2>3. WriteStatus(m) => UNCHANGED faults
    BY <1>2 DEF WriteStatus
  <2>4. ServeClose(m) => UNCHANGED faults
    BY <1>2 DEF ServeClose
  <2> QED
    BY <1>4, <2>1, <2>2, <2>3, <2>4 DEF Serve
<1>5. ASSUME NEW m \in flight, ReceiveReply(m) PROVE UNCHANGED faults
  <2>1. ReceiveRejection(m) \/ ReceiveRead(m) \/ ReceiveFind(m) => UNCHANGED faults
    BY Zenon DEF ReceiveRejection, ReceiveRead, ReceiveFind, Receive
  <2>2. ReceiveForm(m) => UNCHANGED faults
    BY Zenon DEF ReceiveForm, FormCreated, FormUpdated, Receive
  <2>3. ReceiveNote(m) \/ ReceiveEquipment(m) \/ ReceiveAnimal(m) => UNCHANGED faults
    BY DEF ReceiveNote, ReceiveEquipment, ReceiveAnimal, Receive, ReceiveOn
  <2>4. ReceiveReview(m) \/ ReceiveClose(m) => UNCHANGED faults
    BY DEF ReceiveReview, ReceiveClose, Receive
  <2> QED
    BY <1>5, <2>1, <2>2, <2>3, <2>4 DEF ReceiveReply
<1> QED
  BY <1>3, <1>4, <1>5 DEF Next

LEMMA StepQuiet == ASSUME Alone, IInv, QuietInv, [Next]_vars PROVE QuietInv'
<1> SUFFICES ASSUME faults' = 0 PROVE Quiet'
  BY DEF QuietInv
<1>1. CASE UNCHANGED vars
  <2>1. Quiet
    BY <1>1 DEF vars, QuietInv
  <2> QED
    BY <1>1, <2>1 DEF vars, Quiet, Recorded, FreshAnswer, Grounded, ReviewOn, Shape, SectionsInv,
       CaseInv, KnowsCase, RequestInv, PendingInv
<1>2. CASE Next
  <2>1. faults = 0 /\ Quiet /\ UNCHANGED faults
    BY <1>2, FaultsGrow DEF QuietInv
  <2>2. ASSUME NEW u \in Users, Visits(u) \/ Fills(u) \/ Reviews(u) \/ Closes(u) PROVE Quiet'
    BY <2>1, <2>2, OpenQuiet, LeaveQuiet, FillsQuiet, TicksQuiet, SaveReviewQuiet, ClosesQuiet
    DEF Visits, Reviews
  <2>3. ASSUME NEW m \in flight, Serve(m) \/ ReceiveReply(m) PROVE Quiet'
    BY <2>1, <2>3, ServeQuiet, ReceiveReplyQuiet
  <2> QED
    BY <1>2, <2>2, <2>3 DEF Next
<1> QED
  BY <1>1, <1>2

THEOREM QuietInvariance == ASSUME Alone PROVE Spec => []QuietInv
<1>1. Init => QuietInv
  BY InitQuiet DEF QuietInv
<1>2. IInv /\ QuietInv /\ [Next]_vars => QuietInv'
  BY StepQuiet
<1> QED
  BY Invariance, <1>1, <1>2, PTL DEF Spec

\* For one officer, however many complaints and requests: while no request fails, the
\* sections of the open page show what the case API holds whenever the officer may act.
THEOREM PageIsCurrentThm == ASSUME Alone PROVE Spec => []PageIsCurrent
<1>1. IInv /\ QuietInv => PageIsCurrent
  BY AtRest DEF QuietInv, PageIsCurrent, Acts
<1> QED
  BY Invariance, QuietInvariance, <1>1, PTL

\* For one officer, while no request fails: a complaint is pending review only if its
\* case file asks for a review, or one is being saved.
THEOREM PendingIsRequiredThm == ASSUME Alone PROVE Spec => []PendingIsRequired
<1>1. QuietInv => PendingIsRequired
  BY DEF QuietInv, PendingIsRequired, Quiet, PendingInv
<1> QED
  BY QuietInvariance, <1>1, PTL

\* A complaint is closed by the request that asks for it, which was sent with cause.
LEMMA ClosingStep ==
    ASSUME IInv, Quiet, Next, NEW c \in Complaints, NEW from, Closing(c, from)
    PROVE  /\ file[c].assessment # None
           /\ from = "page" => \A s \in Lists, i \in Items : file[c][s][i] # "open"
<1>1. PICK m \in flight : m.op = "close" /\ m.lead = c /\ m.section = from
  BY DEF Closing
<1>2. \A k \in flight : k = m
  BY <1>1, Together
<1>3. status' # status
  BY DEF Closing
<1>4. ASSUME NEW u \in Users, Visits(u) \/ Fills(u) \/ Reviews(u) \/ Closes(u) PROVE UNCHANGED status
  <2>1. CASE Visits(u)
    BY <2>1 DEF Visits, Open, Leave
  <2>2. CASE Fills(u)
    BY <2>2 DEF Fills, Edit, Cancel, SaveForm, SaveNote, DeleteNote, SaveItem, DeleteItem, SendWrite
  <2>3. CASE Reviews(u)
    BY <2>3 DEF Reviews, EditReview, TickRequired, TickComplete, Review, SaveReview
  <2>4. CASE Closes(u)
    BY <2>4 DEF Closes, ChangeStatusOnPage, ChangeStatusInList, ChangeStatus, OpenModalInList, CloseModal
  <2> QED
    BY <1>4, <2>1, <2>2, <2>3, <2>4
<1>5. ASSUME NEW k \in flight, ReceiveReply(k) PROVE UNCHANGED status
  <2>1. ReceiveRejection(k) \/ ReceiveRead(k) \/ ReceiveFind(k) => UNCHANGED status
    BY Zenon DEF ReceiveRejection, ReceiveRead, ReceiveFind, Receive
  <2>2. ReceiveForm(k) => UNCHANGED status
    BY Zenon DEF ReceiveForm, FormCreated, FormUpdated, Receive
  <2>3. ReceiveNote(k) \/ ReceiveEquipment(k) \/ ReceiveAnimal(k) => UNCHANGED status
    BY DEF ReceiveNote, ReceiveEquipment, ReceiveAnimal, Receive, ReceiveOn
  <2>4. ReceiveReview(k) \/ ReceiveClose(k) => UNCHANGED status
    BY DEF ReceiveReview, ReceiveClose, Receive
  <2> QED
    BY <1>5, <2>1, <2>2, <2>3, <2>4 DEF ReceiveReply
<1>6. Serve(m)
  BY <1>2, <1>3, <1>4, <1>5 DEF Next
<1>7. Sound(m) /\ Grounded(m)
  BY DEF IInv, Quiet
<1>8. m.at # "written" /\ m.op \notin Reads \cup Mutations \cup {"review"}
  BY <1>1, <1>7 DEF Sound, Carries, Reads, Forms, Mutations
<1>9. ServeClose(m)
  BY <1>6, <1>8 DEF Serve, ServeRead, ServeWrite, WriteStatus
<1>10. m.at = "sent" /\ m.value = "CLOSED"
  BY <1>1, <1>3, <1>9 DEF ServeClose, Closing, IInv
<1> QED
  BY <1>1, <1>7, <1>10 DEF Grounded

\* For one officer, while no request fails: a complaint is closed only with its assessment
\* recorded, and from its page only without equipment placed or animals without outcome.
THEOREM ClosesFinishedThm == ASSUME Alone PROVE Spec => ClosesFinished
<1> DEFINE A == \A c \in Complaints, from \in {"page", "list"} : faults = 0 /\ Closing(c, from) =>
                   /\ file[c].assessment # None
                   /\ from = "page" => \A s \in Lists, i \in Items : file[c][s][i] # "open"
<1>1. IInv /\ QuietInv /\ [Next]_vars => [A]_vars
  <2> SUFFICES ASSUME IInv, QuietInv, Next, faults = 0,
                      NEW c \in Complaints, NEW from \in {"page", "list"}, Closing(c, from)
               PROVE  /\ file[c].assessment # None
                      /\ from = "page" => \A s \in Lists, i \in Items : file[c][s][i] # "open"
    OBVIOUS
  <2> QED
    BY ClosingStep DEF QuietInv
<1>2. Spec => [][A]_vars
  BY Invariance, QuietInvariance, <1>1, PTL DEF Spec
<1> QED
  BY <1>2 DEF ClosesFinished

=============================================================================
