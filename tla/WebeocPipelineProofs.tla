------------------------ MODULE WebeocPipelineProofs ------------------------
(***************************************************************************)
(* Proofs about Staging, for every set of incidents, payloads and slots:    *)
(* any number of requests of the staging API overlap in any way.  Then      *)
(* about WebeocPipeline, for any number of pods, polls, messages, requests  *)
(* and failures: it uses the staging table only through the staging API, so *)
(* that what is proved of Staging holds of it, and every field of a          *)
(* complaint is what WebEOC has held for its incident.  At last, when       *)
(* nothing fails: a staged complaint is PENDING without a notice only when  *)
(* the stream has taken its last notice for a duplicate.                    *)
(***************************************************************************)
EXTENDS WebeocPipeline, TLAPS, FiniteSetTheorems, WellFoundedInduction

(***************************************************************************)
(* What a request remembers of the staging table stays true while other     *)
(* requests mark and append rows, because a row never changes anything but  *)
(* its status.                                                              *)
(***************************************************************************)
Remembers(v) ==
    /\ v.step = "save" => v.row.status = "PENDING"
    /\ v.step = "inserting" => v.picked \in Rows(v.incident, {"INSERT"})
    /\ v.step = "editing" => v.picked = 0 \/ v.picked \in Rows(v.incident, {"EDIT"})
    /\ v.step = "updating" => v.picked \in UpdateRows(v.incident, v.number)

ReqOK == \A r \in Requests : Remembers(req[r])

\* The inductive invariant.
IInv == TypeOK /\ ReqOK /\ InsertedIsLive /\ LogIsGrounded

\* A step keeps every row but its status, and may append rows.
RowsKept ==
    /\ DOMAIN staging \subseteq DOMAIN staging'
    /\ \A k \in DOMAIN staging :
          /\ staging'[k].incident = staging[k].incident
          /\ staging'[k].activity = staging[k].activity
          /\ staging'[k].number = staging[k].number
          /\ staging'[k].content = staging[k].content
          /\ staging'[k].time = staging[k].time

----------------------------------------------------------------------------
\* The fields of a payload.
LEMMA DetailOK == ASSUME NEW c \in Contents PROVE Detail(c) \in Details
<1>1. c["text"] \in Texts /\ c["place"] \in Texts
  BY ConstantsAssumption DEF Payloads
<1>2. QED
  BY <1>1 DEF Detail, Details, Fields

\* Marking rows (UPDATE staging_complaint) keeps every row and its type.
LEMMA MarkedOK ==
    ASSUME TypeOK, NEW S, NEW s \in Statuses, staging' = Marked(S, s)
    PROVE  /\ staging' \in Seq(Row)
           /\ DOMAIN staging' = DOMAIN staging
           /\ RowsKept
           /\ \A k \in DOMAIN staging :
                 staging'[k].status = IF k \in S THEN s ELSE staging[k].status
<1>1. staging \in Seq(Row) /\ Len(staging) \in Nat /\ DOMAIN staging = 1..Len(staging)
  BY DEF TypeOK
<1>2. \A k \in DOMAIN staging : staging[k] \in Row
  BY <1>1
<1>3. \A k \in DOMAIN staging : [staging[k] EXCEPT !.status = s] \in Row
  BY <1>2 DEF Row, ComplaintRow, UpdateRow
<1>4. staging' = [k \in 1..Len(staging) |->
                    IF k \in S THEN [staging[k] EXCEPT !.status = s] ELSE staging[k]]
  BY <1>1 DEF Marked
<1>5. staging' \in [1..Len(staging) -> Row]
  BY <1>1, <1>2, <1>3, <1>4
<1>6. staging' \in Seq(Row)
  BY <1>1, <1>5
<1>7. DOMAIN staging' = DOMAIN staging
  BY <1>1, <1>4
<1>8. \A k \in DOMAIN staging :
         /\ staging'[k].incident = staging[k].incident
         /\ staging'[k].activity = staging[k].activity
         /\ staging'[k].number = staging[k].number
         /\ staging'[k].content = staging[k].content
         /\ staging'[k].time = staging[k].time
         /\ staging'[k].status = IF k \in S THEN s ELSE staging[k].status
  BY <1>1, <1>2, <1>4 DEF Row, ComplaintRow, UpdateRow
<1>9. QED
  BY <1>6, <1>7, <1>8 DEF RowsKept

\* Saving a row keeps the rows there were.
LEMMA AppendOK ==
    ASSUME TypeOK, NEW row \in Row, staging' = Append(staging, row)
    PROVE  /\ staging' \in Seq(Row)
           /\ RowsKept
           /\ \A k \in DOMAIN staging : staging'[k] = staging[k]
           /\ \A k \in DOMAIN staging' : k \in DOMAIN staging \/ staging'[k] = row
<1>1. staging \in Seq(Row) /\ Len(staging) \in Nat /\ DOMAIN staging = 1..Len(staging)
  BY DEF TypeOK
<1>2. /\ staging' \in Seq(Row)
      /\ Len(staging') = Len(staging) + 1
      /\ DOMAIN staging' = 1..Len(staging')
      /\ \A k \in 1..Len(staging) : staging'[k] = staging[k]
      /\ staging'[Len(staging) + 1] = row
  BY <1>1
<1>3. QED
  BY <1>1, <1>2 DEF RowsKept

\* The step of a request tells what it carries.
LEMMA StepOfReq ==
    ASSUME TypeOK, NEW r \in Requests
    PROVE  /\ req[r].step = "save" => req[r] \in SaveReq
           /\ req[r].step \in {"inserting", "edit", "editing"} =>
                 req[r] \in MoveReq /\ req[r].incident \in Incidents
           /\ req[r].step = "updating" =>
                 /\ req[r] \in UpdateReq
                 /\ req[r].incident \in Incidents /\ req[r].number \in UpdateNumbers
<1>1. req[r] \in {Idle} \cup SaveReq \cup MoveReq \cup UpdateReq
  BY DEF TypeOK
<1>2. Idle.step = "idle"
  BY DEF Idle
<1>3. \A v \in SaveReq : v.step = "save"
  BY DEF SaveReq
<1>4. \A v \in MoveReq : v.step \in {"inserting", "edit", "editing"} /\ v.incident \in Incidents
  BY DEF MoveReq
<1>5. \A v \in UpdateReq : v.step = "updating" /\ v.incident \in Incidents /\ v.number \in UpdateNumbers
  BY DEF UpdateReq
<1>6. QED
  BY <1>1, <1>2, <1>3, <1>4, <1>5

\* The slots other than r keep their request, and what it remembers holds.
LEMMA ReqStep ==
    ASSUME TypeOK, ReqOK, RowsKept,
           NEW r \in Requests, NEW v \in {Idle} \cup SaveReq \cup MoveReq \cup UpdateReq,
           req' = [req EXCEPT ![r] = v], Remembers(v)
    PROVE  ReqOK' /\ req' \in [Requests -> {Idle} \cup SaveReq \cup MoveReq \cup UpdateReq]
<1>1. req' \in [Requests -> {Idle} \cup SaveReq \cup MoveReq \cup UpdateReq]
  BY DEF TypeOK
<1>2. \A q \in Requests : req'[q] = IF q = r THEN v ELSE req[q]
  BY DEF TypeOK
<1>3. ASSUME NEW q \in Requests PROVE Remembers(req[q])'
  <2>1. Remembers(req'[q])
    BY <1>2 DEF ReqOK
  <2>2. QED
    BY <2>1 DEF Remembers, Rows, UpdateRows, RowsKept
<1>4. QED
  BY <1>1, <1>3 DEF ReqOK

\* As long as rows and complaints are kept, the update log is grounded.
LEMMA LogKept ==
    ASSUME TypeOK, LogIsGrounded, RowsKept, UNCHANGED updates,
           \A i \in Incidents : complaint[i] # None => complaint'[i] # None
    PROVE  LogIsGrounded'
<1> SUFFICES ASSUME NEW x \in updates
             PROVE  /\ complaint'[x.incident] # None
                    /\ \E k \in UpdateRows(x.incident, x.number)' : staging'[k].content.text = x.text
  BY DEF LogIsGrounded
<1>1. x.incident \in Incidents
  BY DEF TypeOK, LogRecord
<1>2. complaint'[x.incident] # None
  BY <1>1 DEF LogIsGrounded
<1>3. PICK k \in UpdateRows(x.incident, x.number) : staging[k].content.text = x.text
  BY DEF LogIsGrounded
<1>4. k \in UpdateRows(x.incident, x.number)' /\ staging'[k].content.text = x.text
  BY <1>3 DEF UpdateRows, Rows, RowsKept
<1>5. QED
  BY <1>2, <1>4

\* A request that only begins, looks or ends leaves the tables alone.
LEMMA QuietStep ==
    ASSUME IInv, UNCHANGED <<staging, complaint, updates>>, ReqOK',
           req' \in [Requests -> {Idle} \cup SaveReq \cup MoveReq \cup UpdateReq]
    PROVE  IInv'
<1>1. RowsKept
  BY DEF RowsKept
<1>2. TypeOK'
  BY DEF IInv, TypeOK
<1>3. LogIsGrounded'
  BY <1>1, LogKept DEF IInv
<1>4. InsertedIsLive'
  BY DEF IInv, InsertedIsLive
<1>5. QED
  BY <1>2, <1>3, <1>4 DEF IInv

\* A step that marks rows and leaves the complaints: no INSERT row becomes SUCCESS.
LEMMA MarkingStep ==
    ASSUME IInv, NEW S, NEW s \in Statuses, staging' = Marked(S, s),
           UNCHANGED complaint,
           s = "SUCCESS" => \A k \in S \cap DOMAIN staging : staging[k].activity # "INSERT"
    PROVE  InsertedIsLive' /\ RowsKept /\ staging' \in Seq(Row)
<1>1. /\ RowsKept
      /\ staging' \in Seq(Row)
      /\ DOMAIN staging' = DOMAIN staging
      /\ \A k \in DOMAIN staging :
            staging'[k].status = IF k \in S THEN s ELSE staging[k].status
  BY MarkedOK DEF IInv
<1>2. InsertedIsLive'
  BY <1>1 DEF IInv, InsertedIsLive, RowsKept
<1>3. QED
  BY <1>1, <1>2

----------------------------------------------------------------------------
(* One lemma per group of actions. *)

\* A request that ends keeps the slots in order.
LEMMA IdleOK == ASSUME IInv, NEW r \in Requests, Finish(r), RowsKept
                PROVE  ReqOK' /\ req' \in [Requests -> {Idle} \cup SaveReq \cup MoveReq \cup UpdateReq]
<1>1. Remembers(Idle)
  BY DEF Remembers, Idle
<1>2. QED
  BY <1>1, ReqStep DEF IInv, Finish

\* stageNewComplaint and stageUpdateComplaint up to the save.
LEMMA StageStep ==
    ASSUME IInv, NEW r \in Requests,
           \/ \E i \in Incidents, c \in Contents : StageComplaint(r, i, c)
           \/ \E i \in Incidents, n \in UpdateNumbers, u \in UpdateContents : StageUpdate(r, i, n, u)
    PROVE  IInv'
<1>1. PICK row \in Row : /\ row.status = "PENDING"
                         /\ req' = [req EXCEPT ![r] = [step |-> "save", row |-> row]]
                         /\ UNCHANGED <<staging, complaint, updates>>
  <2>1. ASSUME NEW i \in Incidents, NEW c \in Stageable, NEW act \in {"INSERT", "EDIT"},
               NEW t \in Times
        PROVE  NewRow(i, act, 0, c, t) \in Row /\ NewRow(i, act, 0, c, t).status = "PENDING"
    BY DEF NewRow, Row, ComplaintRow, Statuses
  <2>2. ASSUME NEW i \in Incidents, NEW n \in UpdateNumbers, NEW u \in UpdateContents,
               NEW t \in Times
        PROVE  NewRow(i, "UPDATE", n, u, t) \in Row /\ NewRow(i, "UPDATE", n, u, t).status = "PENDING"
    BY DEF NewRow, Row, UpdateRow, Statuses
  <2>3. QED
    BY <2>1, <2>2 DEF StageComplaint, StagedAs, StageUpdate, NextTimes
<1>2. [step |-> "save", row |-> row] \in SaveReq /\ Remembers([step |-> "save", row |-> row])
  BY <1>1 DEF SaveReq, Remembers
<1>3. RowsKept
  BY <1>1 DEF RowsKept
<1>4. ReqOK' /\ req' \in [Requests -> {Idle} \cup SaveReq \cup MoveReq \cup UpdateReq]
  BY <1>1, <1>2, <1>3, ReqStep DEF IInv
<1>5. QED
  BY <1>1, <1>4, QuietStep

\* The save of the new row.
LEMMA SaveStep == ASSUME IInv, NEW r \in Requests, Save(r) PROVE IInv'
<1>1. req[r].row \in Row /\ req[r].row.status = "PENDING"
  <2>1. req[r] \in SaveReq
    BY DEF IInv, TypeOK, Save, Idle, SaveReq, MoveReq, UpdateReq
  <2>2. QED
    BY <2>1 DEF IInv, ReqOK, Remembers, Save, SaveReq
<1>2. /\ staging' \in Seq(Row)
      /\ RowsKept
      /\ \A k \in DOMAIN staging : staging'[k] = staging[k]
      /\ \A k \in DOMAIN staging' : k \in DOMAIN staging \/ staging'[k] = req[r].row
  BY <1>1, AppendOK DEF IInv, Save
<1>3. ReqOK' /\ req' \in [Requests -> {Idle} \cup SaveReq \cup MoveReq \cup UpdateReq]
  BY <1>2, IdleOK DEF Save
<1>4. TypeOK'
  BY <1>2, <1>3 DEF IInv, TypeOK, Save
<1>5. LogIsGrounded'
  BY <1>2, LogKept DEF IInv, Save
<1>6. InsertedIsLive'
  BY <1>1, <1>2 DEF IInv, InsertedIsLive, Save
<1>7. QED
  BY <1>3, <1>4, <1>5, <1>6 DEF IInv

\* The selects that the procedures begin with.
LEMMA BeginStep ==
    ASSUME IInv, NEW r \in Requests,
           \/ \E i \in Incidents : ProcessComplaint(r, i)
           \/ \E i \in Incidents, n \in UpdateNumbers : ProcessUpdate(r, i, n)
           \/ SelectEdit(r)
           \/ Abort(r)
    PROVE  IInv'
<1>1. RowsKept /\ UNCHANGED <<staging, complaint, updates>>
  BY DEF RowsKept, ProcessComplaint, ProcessUpdate, SelectEdit, Abort
<1>2. DOMAIN staging \subseteq Nat
  BY DEF IInv, TypeOK
<1>3. ReqOK' /\ req' \in [Requests -> {Idle} \cup SaveReq \cup MoveReq \cup UpdateReq]
  <2>1. CASE \E i \in Incidents : ProcessComplaint(r, i)
    <3>1. PICK i \in Incidents : ProcessComplaint(r, i)
      BY <2>1
    <3>2. CASE req' = [req EXCEPT ![r] = [step |-> "edit", incident |-> i, picked |-> 0, was |-> None]]
      <4> DEFINE v == [step |-> "edit", incident |-> i, picked |-> 0, was |-> None]
      <4>1. v \in MoveReq /\ Remembers(v)
        BY DEF MoveReq, Remembers
      <4>2. QED
        BY <4>1, <3>2, <1>1, ReqStep DEF IInv
    <3>3. ASSUME NEW k \in Pending(Rows(i, {"INSERT"})),
                 req' = [req EXCEPT ![r] = [step |-> "inserting", incident |-> i, picked |-> k, was |-> None]]
          PROVE  ReqOK' /\ req' \in [Requests -> {Idle} \cup SaveReq \cup MoveReq \cup UpdateReq]
      <4> DEFINE v == [step |-> "inserting", incident |-> i, picked |-> k, was |-> None]
      <4>1. k \in Rows(i, {"INSERT"}) /\ k \in Nat
        BY <1>2 DEF Pending, Rows
      <4>2. v \in MoveReq /\ Remembers(v)
        BY <4>1 DEF MoveReq, Remembers
      <4>3. QED
        BY <4>2, <3>3, <1>1, ReqStep DEF IInv
    <3>4. QED
      BY <3>1, <3>2, <3>3 DEF ProcessComplaint
  <2>2. CASE \E i \in Incidents, n \in UpdateNumbers : ProcessUpdate(r, i, n)
    <3>1. PICK i \in Incidents, n \in UpdateNumbers : ProcessUpdate(r, i, n)
      BY <2>2
    <3>2. PICK k \in Pending(UpdateRows(i, n)) :
             req' = [req EXCEPT ![r] = [step |-> "updating", incident |-> i, number |-> n,
                                        picked |-> k, logged |-> Logged(i, n) # {}]]
      BY <3>1 DEF ProcessUpdate
    <3> DEFINE v == [step |-> "updating", incident |-> i, number |-> n,
                     picked |-> k, logged |-> Logged(i, n) # {}]
    <3>3. k \in UpdateRows(i, n) /\ k \in Nat
      BY <1>2 DEF Pending, UpdateRows, Rows
    <3>4. v \in UpdateReq /\ Remembers(v)
      BY <3>3 DEF UpdateReq, Remembers
    <3>5. QED
      BY <3>2, <3>4, <1>1, ReqStep DEF IInv
  <2>3. CASE SelectEdit(r)
    <3> DEFINE i == req[r].incident
    <3>1. req[r] \in MoveReq /\ i \in Incidents
      BY <2>3, StepOfReq DEF IInv, SelectEdit
    <3>2. PICK k \in {0} \cup Pending(Rows(i, {"EDIT"})) :
             req' = [req EXCEPT ![r] = [@ EXCEPT !.step = "editing", !.picked = k, !.was = Content(i)]]
      BY <2>3 DEF SelectEdit
    <3> DEFINE v == [req[r] EXCEPT !.step = "editing", !.picked = k, !.was = Content(i)]
    <3>3. k = 0 \/ k \in Rows(i, {"EDIT"})
      BY DEF Pending
    <3>4. k \in Nat
      BY <1>2 DEF Pending, Rows
    <3>5. Content(i) \in Details \cup {None}
      BY <3>1 DEF Content, IInv, TypeOK, Live
    <3>6. v \in MoveReq /\ v.step = "editing" /\ v.picked = k /\ v.incident = i
      BY <3>1, <3>4, <3>5 DEF MoveReq
    <3>7. Remembers(v)
      BY <3>3, <3>6 DEF Remembers
    <3>8. req' = [req EXCEPT ![r] = v]
      BY <3>2
    <3>9. QED
      BY <3>6, <3>7, <3>8, <1>1, ReqStep DEF IInv
  <2>4. CASE Abort(r)
    BY <2>4, <1>1, IdleOK DEF Abort
  <2>5. QED
    BY <2>1, <2>2, <2>3, <2>4
<1>4. QED
  BY <1>1, <1>3, QuietStep

\* Failures mark rows ERROR and leave the operational tables alone.
LEMMA RaiseStep ==
    ASSUME IInv, NEW r \in Requests, InsertRaises(r) \/ EditRaises(r) \/ UpdateRaises(r)
    PROVE  IInv'
<1>1. PICK S : staging' = Marked(S, "ERROR")
  BY DEF InsertRaises, EditRaises, UpdateRaises
<1>2. UNCHANGED <<complaint, updates>>
  BY DEF InsertRaises, EditRaises, UpdateRaises
<1>3. InsertedIsLive' /\ RowsKept /\ staging' \in Seq(Row)
  BY <1>1, <1>2, MarkingStep DEF Statuses
<1>4. ReqOK' /\ req' \in [Requests -> {Idle} \cup SaveReq \cup MoveReq \cup UpdateReq]
  <2>1. CASE InsertRaises(r)
    <3> DEFINE v == [req[r] EXCEPT !.step = "edit", !.picked = 0]
    <3>1. req[r] \in MoveReq
      BY <2>1, StepOfReq DEF IInv, InsertRaises
    <3>2. v \in MoveReq /\ v.step = "edit"
      BY <3>1 DEF MoveReq
    <3>3. Remembers(v)
      BY <3>2 DEF Remembers
    <3>4. req' = [req EXCEPT ![r] = v]
      BY <2>1 DEF InsertRaises, ToEdit
    <3>5. QED
      BY <1>3, <3>2, <3>3, <3>4, ReqStep DEF IInv
  <2>2. CASE EditRaises(r) \/ UpdateRaises(r)
    BY <2>2, <1>3, IdleOK DEF EditRaises, UpdateRaises
  <2>3. QED
    BY <2>1, <2>2
<1>5. LogIsGrounded'
  BY <1>2, <1>3, LogKept DEF IInv
<1>6. QED
  BY <1>2, <1>3, <1>4, <1>5 DEF IInv, TypeOK

\* insert_complaint_from_staging, successful.
LEMMA InsertStep == ASSUME IInv, NEW r \in Requests, InsertComplaint(r) PROVE IInv'
<1> DEFINE i == req[r].incident
           c == staging[req[r].picked].content
<1>1. req[r] \in MoveReq /\ i \in Incidents
  BY StepOfReq DEF IInv, InsertComplaint
<1>2. req[r].picked \in Rows(i, {"INSERT"})
  BY DEF IInv, ReqOK, Remembers, InsertComplaint
<1>3. c \in Stageable /\ c.type \in ComplaintTypes
  <2>1. staging[req[r].picked] \in Row /\ staging[req[r].picked].activity = "INSERT"
    BY <1>2 DEF IInv, TypeOK, Rows
  <2>2. QED
    BY <2>1 DEF Row, ComplaintRow, UpdateRow, Stageable
<1>4. /\ complaint' = [complaint EXCEPT ![i] = [content |-> Detail(c), kind |-> c.type]]
      /\ staging' = Marked(Rows(i, {"INSERT"}), "SUCCESS")
      /\ UNCHANGED updates
  BY DEF InsertComplaint
<1>5. [content |-> Detail(c), kind |-> c.type] \in Live /\ [content |-> Detail(c), kind |-> c.type] # None
  BY <1>3, DetailOK, NoneAssumption DEF Live, Stageable
<1>6. /\ complaint' \in [Incidents -> Live \cup {None}]
      /\ complaint'[i] = [content |-> Detail(c), kind |-> c.type] /\ complaint'[i] # None
      /\ \A j \in Incidents : j # i => complaint'[j] = complaint[j]
  BY <1>1, <1>4, <1>5 DEF IInv, TypeOK
<1>7. /\ staging' \in Seq(Row) /\ RowsKept /\ DOMAIN staging' = DOMAIN staging
      /\ \A k \in DOMAIN staging :
            staging'[k].status = IF k \in Rows(i, {"INSERT"}) THEN "SUCCESS" ELSE staging[k].status
  BY <1>4, MarkedOK DEF IInv, Statuses
<1>8. ReqOK' /\ req' \in [Requests -> {Idle} \cup SaveReq \cup MoveReq \cup UpdateReq]
  <2> DEFINE v == [req[r] EXCEPT !.step = "edit", !.picked = 0]
  <2>1. v \in MoveReq /\ v.step = "edit"
    BY <1>1 DEF MoveReq
  <2>2. Remembers(v)
    BY <2>1 DEF Remembers
  <2>3. req' = [req EXCEPT ![r] = v]
    BY DEF InsertComplaint, ToEdit
  <2>4. QED
    BY <1>7, <2>1, <2>2, <2>3, ReqStep DEF IInv
<1>9. InsertedIsLive'
  <2> SUFFICES ASSUME NEW k \in DOMAIN staging, staging'[k].activity = "INSERT",
                      staging'[k].status = "SUCCESS"
               PROVE  complaint'[staging'[k].incident] # None
    BY <1>7 DEF InsertedIsLive
  <2>1. staging[k].activity = "INSERT" /\ staging[k].incident = staging'[k].incident
        /\ staging[k].incident \in Incidents
    BY <1>7 DEF RowsKept, IInv, TypeOK, Row, ComplaintRow, UpdateRow
  <2>2. QED
    BY <1>6, <1>7, <2>1 DEF IInv, InsertedIsLive, Rows
<1>11. LogIsGrounded'
  BY <1>4, <1>6, <1>7, LogKept DEF IInv
<1>12. QED
  BY <1>4, <1>6, <1>7, <1>8, <1>9, <1>11 DEF IInv, TypeOK

\* Fields of a staged complaint record among those of a complaint.
LEMMA Mixed ==
    ASSUME TypeOK, NEW i \in Incidents, complaint[i] # None,
           NEW k \in Rows(i, {"INSERT", "EDIT"}) , NEW F
    PROVE  [f \in Fields |-> IF f \in F THEN staging[k].content[f] ELSE complaint[i].content[f]] \in Details
<1>1. staging[k] \in Row /\ staging[k].activity \in {"INSERT", "EDIT"}
  BY DEF TypeOK, Rows
<1>2. staging[k].content \in Contents
  BY <1>1 DEF Row, ComplaintRow, UpdateRow, Stageable
<1>3. Detail(staging[k].content) \in Details /\ complaint[i].content \in Details
  BY <1>2, DetailOK DEF TypeOK, Live
<1>4. \A f \in Fields : staging[k].content[f] \in Texts /\ complaint[i].content[f] \in Texts
  BY <1>3 DEF Detail, Details
<1>5. QED
  BY <1>4 DEF Details

\* edit_complaint_using_webeoc_complaint, successful.
LEMMA EditStep == ASSUME IInv, NEW r \in Requests, EditComplaint(r) PROVE IInv'
<1> DEFINE i == req[r].incident
           k == req[r].picked
<1>1. req[r] \in MoveReq /\ i \in Incidents
  BY StepOfReq DEF IInv, EditComplaint
<1>2. k = 0 \/ k \in Rows(i, {"EDIT"})
  BY DEF IInv, ReqOK, Remembers, EditComplaint
<1>3. /\ InsertedIsLive => \A j \in DOMAIN staging :
            staging[j].activity = "INSERT" /\ staging[j].status = "SUCCESS"
                => complaint[staging[j].incident] # None
      /\ staging' = Marked(Pending(Rows(i, {"EDIT"})), "SUCCESS")
      /\ UNCHANGED updates
  BY DEF EditComplaint, InsertedIsLive
<1>4. /\ staging' \in Seq(Row) /\ RowsKept /\ DOMAIN staging' = DOMAIN staging
      /\ \A j \in DOMAIN staging :
            staging'[j].status = IF j \in Pending(Rows(i, {"EDIT"})) THEN "SUCCESS" ELSE staging[j].status
  BY <1>3, MarkedOK DEF IInv, Statuses
<1>5. complaint' \in [Incidents -> Live \cup {None}]
      /\ \A j \in Incidents : complaint[j] # None <=> complaint'[j] # None
  <2> DEFINE F   == Revised(staging[k].content, req[r].was)
             mix == [f \in Fields |-> IF f \in F THEN staging[k].content[f] ELSE complaint[i].content[f]]
             new == [complaint[i] EXCEPT !.content = mix]
  <2>1. CASE UNCHANGED complaint
    BY <2>1 DEF IInv, TypeOK
  <2>2. CASE ~ UNCHANGED complaint
    <3>1. k \in Rows(i, {"EDIT"}) /\ complaint[i] # None /\ complaint' = [complaint EXCEPT ![i] = new]
      BY <1>2, <2>2 DEF EditComplaint
    <3>2. mix \in Details
      BY <1>1, <3>1, Mixed DEF IInv, Rows
    <3>3. complaint[i] \in Live
      BY <1>1, <3>1 DEF IInv, TypeOK
    <3>4. new \in Live /\ new # None
      BY <3>2, <3>3, NoneAssumption DEF Live
    <3> HIDE DEF new
    <3>5. QED
      BY <1>1, <3>1, <3>4 DEF IInv, TypeOK
  <2>3. QED
    BY <2>1, <2>2
<1>6. \A j \in Incidents : complaint[j] # None => complaint'[j] # None
  BY <1>5
<1>7. ReqOK' /\ req' \in [Requests -> {Idle} \cup SaveReq \cup MoveReq \cup UpdateReq]
  BY <1>4, IdleOK DEF EditComplaint
<1>8. InsertedIsLive'
  <2> SUFFICES ASSUME NEW j \in DOMAIN staging, staging'[j].activity = "INSERT",
                      staging'[j].status = "SUCCESS"
               PROVE  complaint'[staging'[j].incident] # None
    BY <1>4 DEF InsertedIsLive
  <2>1. /\ staging[j].activity = "INSERT" /\ staging[j].incident = staging'[j].incident
        /\ staging[j].incident \in Incidents
    BY <1>4 DEF RowsKept, IInv, TypeOK, Row, ComplaintRow, UpdateRow
  <2>2. j \notin Pending(Rows(i, {"EDIT"}))
    BY <2>1 DEF Pending, Rows
  <2>3. complaint[staging[j].incident] # None
    BY <1>4, <2>1, <2>2 DEF IInv, InsertedIsLive
  <2>4. QED
    BY <1>6, <2>1, <2>3
<1>10. LogIsGrounded'
  BY <1>3, <1>4, <1>6, LogKept DEF IInv
<1>11. QED
  BY <1>3, <1>4, <1>5, <1>7, <1>8, <1>10 DEF IInv, TypeOK

\* insert_complaint_update_from_staging, successful.
LEMMA UpdateStep == ASSUME IInv, NEW r \in Requests, ApplyUpdate(r) PROVE IInv'
<1> DEFINE i == req[r].incident
           n == req[r].number
           k == req[r].picked
           u == staging[k].content
<1>1. req[r] \in UpdateReq /\ i \in Incidents /\ n \in UpdateNumbers /\ k \in UpdateRows(i, n)
  BY StepOfReq DEF IInv, ReqOK, Remembers, ApplyUpdate
<1>2. u \in UpdateContents /\ u.text \in Texts /\ k \in Nat
  <2>1. staging[k] \in Row /\ staging[k].activity = "UPDATE" /\ k \in Nat
    BY <1>1 DEF IInv, TypeOK, UpdateRows, Rows
  <2>2. QED
    BY <2>1, ConstantsAssumption DEF Row, ComplaintRow, UpdateRow
<1>3. staging' = Marked(UpdateRows(i, n), "SUCCESS") /\ UNCHANGED complaint
  BY DEF ApplyUpdate
<1>4. \A m \in UpdateRows(i, n) \cap DOMAIN staging : staging[m].activity # "INSERT"
  BY DEF UpdateRows, Rows
<1>5. InsertedIsLive' /\ RowsKept /\ staging' \in Seq(Row)
  BY <1>3, <1>4, MarkingStep DEF Statuses
<1>6. ReqOK' /\ req' \in [Requests -> {Idle} \cup SaveReq \cup MoveReq \cup UpdateReq]
  BY <1>5, IdleOK DEF ApplyUpdate
<1>7. \/ UNCHANGED updates
      \/ complaint[i] # None /\ \E seen \in BOOLEAN : LogUpdate(i, n, u, k, seen)
  <2>1. req[r].logged \in BOOLEAN
    BY <1>1 DEF UpdateReq
  <2>2. QED
    BY <2>1 DEF ApplyUpdate
<1>8. updates' \subseteq LogRecord /\ LogIsGrounded'
  <2>1. CASE UNCHANGED updates
    BY <2>1, <1>3, <1>5, LogKept DEF IInv, TypeOK
  <2>2. CASE complaint[i] # None /\ \E seen \in BOOLEAN : LogUpdate(i, n, u, k, seen)
    <3>1. \A x \in updates' :
             \/ x \in updates
             \/ /\ x \in LogRecord /\ x.incident = i /\ x.number = n /\ x.text = u.text
      <4> DEFINE fresh == [incident |-> i, number |-> n, text |-> u.text, source |-> k]
      <4>1. fresh \in LogRecord /\ fresh.incident = i /\ fresh.number = n /\ fresh.text = u.text
        BY <1>1, <1>2 DEF LogRecord
      <4>2. ASSUME NEW x \in Logged(i, n)
            PROVE  /\ [x EXCEPT !.text = u.text] \in LogRecord
                   /\ [x EXCEPT !.text = u.text].incident = i
                   /\ [x EXCEPT !.text = u.text].number = n
                   /\ [x EXCEPT !.text = u.text].text = u.text
        <5>1. x \in LogRecord /\ x.incident = i /\ x.number = n
          BY DEF Logged, IInv, TypeOK
        <5>2. QED
          BY <5>1, <1>2 DEF LogRecord
      <4> HIDE DEF fresh
      <4>3. \/ updates' = {IF x \in Logged(i, n) THEN [x EXCEPT !.text = u.text] ELSE x : x \in updates}
            \/ updates' = updates \cup {fresh}
        BY <2>2 DEF LogUpdate, fresh
      <4>4. CASE updates' = {IF x \in Logged(i, n) THEN [x EXCEPT !.text = u.text] ELSE x : x \in updates}
        <5>1. SUFFICES ASSUME NEW y \in updates,
                              NEW x, x = IF y \in Logged(i, n) THEN [y EXCEPT !.text = u.text] ELSE y
                       PROVE  \/ x \in updates
                              \/ x \in LogRecord /\ x.incident = i /\ x.number = n /\ x.text = u.text
          BY <4>4
        <5>2. CASE y \in Logged(i, n)
          BY <4>2, <5>1, <5>2
        <5>3. CASE y \notin Logged(i, n)
          BY <5>1, <5>3
        <5>4. QED
          BY <5>2, <5>3
      <4>5. CASE updates' = updates \cup {fresh}
        BY <4>1, <4>5
      <4>6. QED
        BY <4>3, <4>4, <4>5
    <3>2. updates' \subseteq LogRecord
      BY <3>1 DEF IInv, TypeOK
    <3>3. ASSUME NEW x \in updates'
          PROVE  /\ complaint'[x.incident] # None
                 /\ \E m \in UpdateRows(x.incident, x.number)' : staging'[m].content.text = x.text
      <4>1. complaint[x.incident] # None
            /\ \E m \in UpdateRows(x.incident, x.number) : staging[m].content.text = x.text
        BY <1>1, <2>2, <3>1, <3>3 DEF IInv, LogIsGrounded
      <4>2. PICK m \in UpdateRows(x.incident, x.number) : staging[m].content.text = x.text
        BY <4>1
      <4>3. m \in UpdateRows(x.incident, x.number)'
        BY <1>5, <4>2 DEF UpdateRows, Rows, RowsKept
      <4>4. staging'[m].content.text = x.text
        BY <1>5, <4>2 DEF UpdateRows, Rows, RowsKept
      <4>5. QED
        BY <1>3, <4>1, <4>3, <4>4
    <3>4. QED
      BY <3>2, <3>3 DEF LogIsGrounded
  <2>3. QED
    BY <1>7, <2>1, <2>2
<1>9. QED
  BY <1>3, <1>5, <1>6, <1>8 DEF IInv, TypeOK

----------------------------------------------------------------------------
(* The theorems. *)

\* The empty tables satisfy the inductive invariant.
LEMMA InitIInv == Init => IInv
<1> SUFFICES ASSUME Init PROVE IInv
  OBVIOUS
<1>1. TypeOK
  BY DEF Init, TypeOK
<1>2. ReqOK
  BY DEF Init, ReqOK, Remembers, Idle
<1>3. InsertedIsLive /\ LogIsGrounded
  BY DEF Init, InsertedIsLive, LogIsGrounded
<1>4. QED
  BY <1>1, <1>2, <1>3 DEF IInv

\* Every step preserves the inductive invariant.
LEMMA NextIInv == IInv /\ [Next]_vars => IInv'
<1> SUFFICES ASSUME IInv, [Next]_vars PROVE IInv'
  OBVIOUS
<1>1. CASE UNCHANGED vars
  BY <1>1 DEF vars, IInv, TypeOK, ReqOK, Remembers, InsertedIsLive, LogIsGrounded, Rows, UpdateRows
<1>2. CASE Next
  <2>1. PICK r \in Requests : Request(r) \/ Continue(r) \/ Abort(r)
    BY <1>2 DEF Next
  <2>2. CASE Request(r)
    BY <2>2, StageStep, BeginStep DEF Request
  <2>3. CASE Continue(r)
    BY <2>3, SaveStep, InsertStep, RaiseStep, BeginStep, EditStep, UpdateStep DEF Continue
  <2>4. CASE Abort(r)
    BY <2>4, BeginStep
  <2>5. QED
    BY <2>1, <2>2, <2>3, <2>4
<1>3. QED
  BY <1>1, <1>2

\* The inductive invariant holds in every reachable state.
THEOREM Invariance == Spec => []IInv
  BY InitIInv, NextIInv, PTL DEF Spec

\* Type correctness: statuses, payload kinds and the requests in progress stay
\* within their types; in particular only HWCR and ERS records are staged.
THEOREM TypeCorrect == Spec => []TypeOK
<1>1. IInv => TypeOK
  BY DEF IInv
<1>2. QED
  BY Invariance, <1>1, PTL

\* An INSERT row marked SUCCESS has its complaint, however requests overlap.
THEOREM InsertedIsLiveThm == Spec => []InsertedIsLive
<1>1. IInv => InsertedIsLive
  BY DEF IInv
<1>2. QED
  BY Invariance, <1>1, PTL

\* Every complaint_update record comes from a staged update of its complaint.
THEOREM LogIsGroundedThm == Spec => []LogIsGrounded
<1>1. IInv => LogIsGrounded
  BY DEF IInv
<1>2. QED
  BY Invariance, <1>1, PTL

----------------------------------------------------------------------------
(* Outcomes are final. *)

\* What a step may do to the staging table.
LEMMA StagingChange ==
    ASSUME IInv, [Next]_vars
    PROVE  \/ UNCHANGED staging
           \/ \E r \in Requests : Save(r)
           \/ \E S : staging' = Marked(S, "SUCCESS")
           \/ \E S : staging' = Marked(Pending(S), "ERROR")
<1>1. CASE UNCHANGED vars
  BY <1>1 DEF vars
<1>2. CASE Next
  <2>1. PICK r \in Requests : Request(r) \/ Continue(r) \/ Abort(r)
    BY <1>2 DEF Next
  <2>2. CASE Request(r)
    BY <2>2 DEF Request, StageComplaint, StageUpdate, ProcessComplaint, ProcessUpdate
  <2>3. CASE Continue(r)
    BY <2>3 DEF Continue, InsertComplaint, InsertRaises, SelectEdit, EditComplaint,
       EditRaises, ApplyUpdate, UpdateRaises
  <2>4. CASE Abort(r)
    BY <2>4 DEF Abort
  <2>5. QED
    BY <2>1, <2>2, <2>3, <2>4
<1>3. QED
  BY <1>1, <1>2

\* No request ever takes a SUCCESS back or makes a row PENDING again.
THEOREM SuccessIsFinalThm == Spec => SuccessIsFinal
<1> DEFINE Final == \A k \in DOMAIN staging :
                       /\ staging[k].status = "SUCCESS" => staging'[k].status = "SUCCESS"
                       /\ staging[k].status = "ERROR" => staging'[k].status # "PENDING"
<1>1. IInv /\ [Next]_vars => [Final]_vars
  <2> SUFFICES ASSUME IInv, [Next]_vars PROVE Final
    OBVIOUS
  <2>1. CASE UNCHANGED staging
    BY <2>1
  <2>2. CASE \E r \in Requests : Save(r)
    <3>1. PICK r \in Requests : Save(r)
      BY <2>2
    <3>2. req[r].row \in Row
      BY <3>1, StepOfReq DEF IInv, Save, SaveReq
    <3>3. \A k \in DOMAIN staging : staging'[k] = staging[k]
      BY <3>1, <3>2, AppendOK DEF IInv, Save
    <3>4. QED
      BY <3>3
  <2>3. CASE \E S : staging' = Marked(S, "SUCCESS")
    BY <2>3, MarkedOK DEF IInv, Statuses
  <2>4. CASE \E S : staging' = Marked(Pending(S), "ERROR")
    BY <2>4, MarkedOK DEF IInv, Statuses, Pending
  <2>5. QED
    BY <2>1, <2>2, <2>3, <2>4, StagingChange
<1>2. QED
  BY <1>1, Invariance, PTL DEF Spec, SuccessIsFinal

----------------------------------------------------------------------------
(* The staging table implements the abstract feed. *)

Submitted == [i \in Incidents |-> {Detail(staging[k].content) : k \in Rows(i, {"INSERT", "EDIT"})}]
Shown     == [i \in Incidents |-> Content(i)]

\* Rows kept and none added: what WebEOC has submitted is unchanged.
LEMMA SameSubmitted ==
    ASSUME RowsKept, DOMAIN staging' = DOMAIN staging
    PROVE  Submitted' = Submitted
<1>1. ASSUME NEW i \in Incidents
      PROVE  {Detail(staging[k].content) : k \in Rows(i, {"INSERT", "EDIT"})}'
                = {Detail(staging[k].content) : k \in Rows(i, {"INSERT", "EDIT"})}
  BY DEF RowsKept, Rows
<1>2. QED
  BY <1>1 DEF Submitted

\* Empty tables map to the initial state of the feed.
LEMMA FeedInit == Init => Feed!Init
  BY DEF Init, Feed!Init, Content, Rows

\* A saved complaint record is a submission, a saved update is none.
LEMMA FeedSave ==
    ASSUME IInv, NEW r \in Requests, Save(r)
    PROVE  [Feed!Next]_(Feed!vars)
<1> DEFINE row == req[r].row
           new == Len(staging) + 1
<1>1. row \in Row
  BY StepOfReq DEF IInv, Save, SaveReq
<1>2. /\ DOMAIN staging' = DOMAIN staging \cup {new} /\ new \notin DOMAIN staging
      /\ staging'[new] = row
      /\ \A k \in DOMAIN staging : staging'[k] = staging[k]
  BY <1>1 DEF Save, IInv, TypeOK
<1>3. Shown' = Shown
  BY DEF Save, Shown, Content
<1>4. CASE row.activity = "UPDATE"
  <2>1. ASSUME NEW i \in Incidents
        PROVE  Rows(i, {"INSERT", "EDIT"})' = Rows(i, {"INSERT", "EDIT"})
    BY <1>2, <1>4 DEF Rows
  <2>2. Submitted' = Submitted
    BY <1>2, <2>1 DEF Submitted, Rows
  <2>3. QED
    BY <1>3, <2>2 DEF Feed!vars, Submitted, Shown
<1>5. CASE row.activity # "UPDATE"
  <2>1. row.incident \in Incidents /\ row.content \in Contents /\ row.activity \in {"INSERT", "EDIT"}
    BY <1>1, <1>5 DEF Row, ComplaintRow, UpdateRow, Stageable
  <2>2. ASSUME NEW i \in Incidents
        PROVE  Rows(i, {"INSERT", "EDIT"})' = IF i = row.incident
                                              THEN Rows(i, {"INSERT", "EDIT"}) \cup {new}
                                              ELSE Rows(i, {"INSERT", "EDIT"})
    BY <1>2, <2>1 DEF Rows
  <2>3. ASSUME NEW i \in Incidents
        PROVE  Submitted'[i] = IF i = row.incident THEN Submitted[i] \cup {Detail(row.content)} ELSE Submitted[i]
    BY <1>2, <2>2 DEF Submitted, Rows
  <2>4. Submitted' = [Submitted EXCEPT ![row.incident] = @ \cup {Detail(row.content)}]
    BY <2>1, <2>3 DEF Submitted
  <2>5. Feed!Submit(row.incident, Detail(row.content))
    BY <1>3, <2>4 DEF Feed!Submit, Submitted, Shown
  <2>6. QED
    BY <2>1, <2>5 DEF Feed!Next
<1>6. QED
  BY <1>4, <1>5

\* A step that leaves rows and complaints is a stutter of the feed.
LEMMA FeedQuiet ==
    ASSUME RowsKept, DOMAIN staging' = DOMAIN staging, UNCHANGED complaint
    PROVE  UNCHANGED Feed!vars
<1>1. Submitted' = Submitted
  BY SameSubmitted
<1>2. Shown' = Shown
  BY DEF Shown, Content
<1>3. QED
  BY <1>1, <1>2 DEF Feed!vars, Submitted, Shown

\* What was picked is a payload that was submitted for the incident.
LEMMA PickedIsSubmitted ==
    ASSUME IInv, NEW i \in Incidents, NEW k \in Rows(i, {"INSERT", "EDIT"})
    PROVE  /\ staging[k].content \in Stageable
           /\ Detail(staging[k].content) \in {Detail(c) : c \in Contents}
           /\ Detail(staging[k].content) \in Submitted[i]
<1>1. staging[k] \in Row /\ staging[k].activity \in {"INSERT", "EDIT"}
  BY DEF IInv, TypeOK, Rows
<1>2. staging[k].content \in Stageable
  BY <1>1 DEF Row, ComplaintRow, UpdateRow
<1>3. QED
  BY <1>2 DEF Submitted, Stageable

\* An insert creates the complaint with the fields of the row it picked.
LEMMA FeedInsert == ASSUME IInv, NEW r \in Requests, InsertComplaint(r) PROVE Feed!Next
<1> DEFINE i == req[r].incident
           c == staging[req[r].picked].content
<1>1. i \in Incidents /\ req[r].picked \in Rows(i, {"INSERT", "EDIT"})
  BY StepOfReq DEF IInv, ReqOK, Remembers, InsertComplaint, Rows
<1>2. Submitted' = Submitted
  BY MarkedOK, SameSubmitted DEF IInv, InsertComplaint, Statuses
<1>3. /\ c \in Stageable /\ Detail(c) \in Submitted[i]
      /\ Detail(c) \in {Detail(d) : d \in Contents}
  BY <1>1, PickedIsSubmitted
<1>4. Shown[i] = None /\ Shown' = [Shown EXCEPT ![i] = Detail(c)]
  <2>1. /\ complaint[i] = None
        /\ complaint' = [complaint EXCEPT ![i] = [content |-> Detail(c), kind |-> c.type]]
    BY DEF InsertComplaint
  <2>2. [content |-> Detail(c), kind |-> c.type] # None
    BY <1>3, DetailOK, NoneAssumption DEF Live, Stageable
  <2>3. QED
    BY <1>1, <2>1, <2>2 DEF Shown, Content, IInv, TypeOK
<1>5. Feed!Create(i, Detail(c))
  BY <1>2, <1>3, <1>4 DEF Feed!Create, Submitted, Shown
<1> HIDE DEF i, c
<1>6. QED
  BY <1>1, <1>3, <1>5 DEF Feed!Next

\* An edit moves the fields it found to differ, or nothing.
LEMMA FeedEdit ==
    ASSUME IInv, NEW r \in Requests, EditComplaint(r)
    PROVE  Feed!Next \/ UNCHANGED Feed!vars
<1> DEFINE i == req[r].incident
           k == req[r].picked
           c == staging[k].content
           F == Revised(c, req[r].was)
           mix == [f \in Fields |-> IF f \in F THEN c[f] ELSE complaint[i].content[f]]
           new == [complaint[i] EXCEPT !.content = mix]
<1>1. i \in Incidents /\ (k = 0 \/ k \in Rows(i, {"INSERT", "EDIT"}))
  BY StepOfReq DEF IInv, ReqOK, Remembers, EditComplaint, Rows
<1>2. RowsKept /\ DOMAIN staging' = DOMAIN staging
  BY MarkedOK DEF IInv, EditComplaint, Statuses
<1>3. CASE UNCHANGED complaint
  BY <1>2, <1>3, FeedQuiet
<1>4. CASE ~ UNCHANGED complaint
  <2>1. /\ k \in Rows(i, {"INSERT", "EDIT"}) /\ complaint[i] # None
        /\ complaint' = [complaint EXCEPT ![i] = new]
    BY <1>1, <1>4 DEF EditComplaint
  <2>2. complaint[i] \in Live /\ mix \in Details
    BY <1>1, <2>1, Mixed DEF IInv, TypeOK
  <2>3. new # None /\ new.content = mix
    BY <2>2, NoneAssumption DEF Live
  <2>4. /\ Detail(c) \in Submitted[i] /\ Detail(c) \in {Detail(d) : d \in Contents}
        /\ F \in SUBSET Fields
    BY <1>1, <2>1, PickedIsSubmitted DEF Revised
  <2>5. \A f \in Fields : Detail(c)[f] = c[f]
    BY DEF Detail
  <2>6. Shown[i] = complaint[i].content /\ Shown[i] # None
    BY <1>1, <2>1, <2>2, NoneAssumption DEF Shown, Content, Live
  <2>7. Shown' = [Shown EXCEPT ![i] = mix]
    <3> HIDE DEF new, mix, c, F, i, k
    <3>1. QED
      BY <1>1, <2>1, <2>3 DEF Shown, Content, IInv, TypeOK
  <2>8. mix = [f \in Fields |-> IF f \in F THEN Detail(c)[f] ELSE Shown[i][f]]
    BY <2>5, <2>6
  <2>9. Submitted' = Submitted
    BY <1>2, SameSubmitted
  <2> HIDE DEF i, c, k, F, mix, new
  <2>10. Feed!Revise(i, Detail(c), F)
    BY <2>4, <2>6, <2>7, <2>8, <2>9 DEF Feed!Revise, Submitted, Shown
  <2>11. QED
    BY <1>1, <2>4, <2>10 DEF Feed!Next
<1>5. QED
  BY <1>3, <1>4

\* Every step is a step of the feed or a stutter.
LEMMA FeedStep == IInv /\ [Next]_vars => [Feed!Next]_(Feed!vars)
<1> SUFFICES ASSUME IInv, [Next]_vars PROVE [Feed!Next]_(Feed!vars)
  OBVIOUS
<1>1. CASE UNCHANGED vars
  BY <1>1, FeedQuiet DEF vars, RowsKept
<1>2. CASE Next
  <2>1. PICK r \in Requests : Request(r) \/ Continue(r) \/ Abort(r)
    BY <1>2 DEF Next
  <2>2. CASE Save(r)
    BY <2>2, FeedSave
  <2>3. CASE InsertComplaint(r)
    BY <2>3, FeedInsert
  <2>4. CASE EditComplaint(r)
    BY <2>4, FeedEdit
  <2>5. CASE ~ (Save(r) \/ InsertComplaint(r) \/ EditComplaint(r))
    <3>1. UNCHANGED complaint
      BY <2>1, <2>5 DEF Request, Continue, StageComplaint, StageUpdate, ProcessComplaint,
         ProcessUpdate, InsertRaises, SelectEdit, EditRaises, ApplyUpdate, UpdateRaises, Abort
    <3>2. UNCHANGED staging \/ \E S, s : s \in Statuses /\ staging' = Marked(S, s)
      BY <2>1, <2>5 DEF Request, Continue, StageComplaint, StageUpdate, ProcessComplaint,
         ProcessUpdate, InsertRaises, SelectEdit, EditRaises, ApplyUpdate, UpdateRaises, Abort,
         Statuses
    <3>3. RowsKept /\ DOMAIN staging' = DOMAIN staging
      <4>1. CASE UNCHANGED staging
        BY <4>1 DEF RowsKept
      <4>2. CASE \E S, s : s \in Statuses /\ staging' = Marked(S, s)
        BY <4>2, MarkedOK DEF IInv
      <4>3. QED
        BY <3>2, <4>1, <4>2
    <3>4. QED
      BY <3>1, <3>3, FeedQuiet
  <2>6. QED
    BY <2>2, <2>3, <2>4, <2>5
<1>3. QED
  BY <1>1, <1>2

\* Staging implements ComplaintFeed: whatever requests overlap, fail or abort,
\* a complaint appears as one record submitted for its incident, each edit
\* moves fields of one such record into it, and it never goes.
THEOREM ImplementsFeedThm == Spec => ImplementsFeed
  BY FeedInit, FeedStep, Invariance, PTL DEF Spec, ImplementsFeed, Feed!Spec

----------------------------------------------------------------------------
(* Requests that do not overlap.  What two overlapping requests can break    *)
(* (two INSERT rows for one incident, two log records for one number, a late *)
(* edit) holds when at most one request is in progress at a time.            *)

Serial == \A r, s \in Requests : r = s

\* Rows of an incident that the procedures have moved.
Moved(i) == {j \in Rows(i, {"INSERT", "EDIT"}) : staging[j].status = "SUCCESS"}

\* The EDIT rows of an incident come after its INSERT row.
EditsFollow ==
    \A k \in DOMAIN staging : staging[k].activity = "EDIT" =>
        /\ Rows(staging[k].incident, {"INSERT"}) # {}
        /\ \A j \in Rows(staging[k].incident, {"INSERT"}) : staging[j].time < staging[k].time

\* A PENDING EDIT row is later than all the rows that were dealt with.
PendingIsLater ==
    \A k \in DOMAIN staging : staging[k].activity = "EDIT" /\ staging[k].status = "PENDING" =>
        \A j \in Rows(staging[k].incident, {"INSERT", "EDIT"}) :
            staging[j].status # "PENDING" => staging[j].time < staging[k].time

\* A complaint shows the latest record of its incident that was moved.
ShowsLatest ==
    \A i \in Incidents : complaint[i] # None =>
        \E k \in DOMAIN staging : IsLatest(k, Moved(i)) /\ Detail(staging[k].content) = complaint[i].content

\* What the request in progress found is still so.
StillSo(v) ==
    /\ v.step = "save" =>
          /\ \A k \in DOMAIN staging : staging[k].time < v.row.time
          /\ v.row.activity = "INSERT" => Rows(v.row.incident, {"INSERT", "EDIT"}) = {}
          /\ v.row.activity = "EDIT" => Rows(v.row.incident, {"INSERT"}) # {}
    /\ v.step = "inserting" => v.picked \in Pending(Rows(v.incident, {"INSERT"}))
    /\ v.step \in {"edit", "editing"} => Pending(Rows(v.incident, {"INSERT"})) = {}
    /\ v.step = "editing" =>
          /\ v.was = Content(v.incident)
          /\ IF Pending(Rows(v.incident, {"EDIT"})) = {} THEN v.picked = 0
             ELSE IsLatest(v.picked, Pending(Rows(v.incident, {"EDIT"})))
    /\ v.step = "updating" => v.logged = (Logged(v.incident, v.number) # {})

\* The inductive invariant of requests that do not overlap.
SerialInv ==
    /\ OneInsert /\ EditsFollow /\ PendingIsLater
    /\ EditedIsLive /\ ShowsLatest /\ OneLogPerNumber
    /\ \A r \in Requests : StillSo(req[r])

LEMMA RowFacts ==
    ASSUME TypeOK, NEW k \in DOMAIN staging
    PROVE  /\ staging[k].incident \in Incidents /\ staging[k].time \in Nat
           /\ staging[k].status \in Statuses
           /\ staging[k].activity \in {"INSERT", "EDIT", "UPDATE"}
<1>1. staging[k] \in Row
  BY DEF TypeOK
<1>2. Times \subseteq Nat
  BY DEF Times
<1>3. QED
  BY <1>1, <1>2 DEF Row, ComplaintRow, UpdateRow

\* Requests that begin, look or end.
LEMMA SerialQuiet ==
    ASSUME Serial, IInv, SerialInv, UNCHANGED <<staging, complaint, updates>>,
           NEW r \in Requests, NEW v, req' = [req EXCEPT ![r] = v], StillSo(v)
    PROVE  SerialInv'
<1>1. OneInsert' /\ EditsFollow' /\ PendingIsLater'
  BY DEF SerialInv, OneInsert, EditsFollow, PendingIsLater, Rows
<1>2. EditedIsLive' /\ ShowsLatest' /\ OneLogPerNumber'
  BY DEF SerialInv, EditedIsLive, ShowsLatest, OneLogPerNumber, Moved, Rows, IsLatest
<1>3. ASSUME NEW q \in Requests PROVE StillSo(req[q])'
  <2>1. req'[q] = v
    BY DEF Serial, IInv, TypeOK
  <2>2. StillSo(req'[q])
    BY <2>1
  <2>3. QED
    BY <2>2 DEF StillSo, Rows, Pending, IsLatest, Content, Logged
<1>4. QED
  BY <1>1, <1>2, <1>3 DEF SerialInv

\* A request that ends has nothing left to remember.
LEMMA SerialIdle ==
    ASSUME Serial, IInv, NEW r \in Requests, Finish(r)
    PROVE  \A q \in Requests : StillSo(req[q])'
<1>1. ASSUME NEW q \in Requests PROVE req'[q] = Idle
  BY DEF Serial, Finish, IInv, TypeOK
<1>2. QED
  BY <1>1 DEF StillSo, Idle

\* Rows that are only marked keep their order.
LEMMA OrderKept ==
    ASSUME TypeOK, OneInsert, EditsFollow, RowsKept, DOMAIN staging' = DOMAIN staging
    PROVE  OneInsert' /\ EditsFollow'
<1>1. OneInsert'
  BY DEF OneInsert, RowsKept
<1>2. ASSUME NEW k \in DOMAIN staging, staging'[k].activity = "EDIT"
      PROVE  /\ Rows(staging[k].incident, {"INSERT"})' # {}
             /\ \A j \in Rows(staging[k].incident, {"INSERT"})' : staging'[j].time < staging'[k].time
  <2>1. staging[k].activity = "EDIT" /\ staging'[k].incident = staging[k].incident
    BY <1>2 DEF RowsKept
  <2>2. Rows(staging[k].incident, {"INSERT"})' = Rows(staging[k].incident, {"INSERT"})
    BY <2>1 DEF Rows, RowsKept
  <2>3. QED
    BY <2>1, <2>2 DEF EditsFollow, Rows, RowsKept
<1>3. QED
  BY <1>1, <1>2 DEF EditsFollow

\* Marked rows are dealt with; the EDIT rows that stay PENDING are later.
LEMMA PendingKept ==
    ASSUME TypeOK, PendingIsLater, NEW S, NEW s \in Statuses \ {"PENDING"}, staging' = Marked(S, s),
           \A k \in DOMAIN staging, j \in S \cap DOMAIN staging :
               /\ staging[k].activity = "EDIT" /\ staging[k].status = "PENDING" /\ k \notin S
               /\ staging[j].incident = staging[k].incident /\ staging[j].activity # "UPDATE"
               => staging[j].time < staging[k].time
    PROVE  PendingIsLater'
<1>1. /\ RowsKept /\ DOMAIN staging' = DOMAIN staging
      /\ \A k \in DOMAIN staging : staging'[k].status = IF k \in S THEN s ELSE staging[k].status
  BY MarkedOK
<1>2. ASSUME NEW k \in DOMAIN staging', staging'[k].activity = "EDIT", staging'[k].status = "PENDING",
             NEW j \in Rows(staging[k].incident, {"INSERT", "EDIT"})', staging'[j].status # "PENDING"
      PROVE  staging'[j].time < staging'[k].time
  <2>1. /\ k \in DOMAIN staging /\ k \notin S
        /\ staging[k].activity = "EDIT" /\ staging[k].status = "PENDING"
        /\ staging'[k].time = staging[k].time /\ staging'[k].incident = staging[k].incident
    BY <1>1, <1>2 DEF RowsKept
  <2>2. /\ j \in Rows(staging[k].incident, {"INSERT", "EDIT"}) /\ j \in DOMAIN staging
        /\ staging'[j].time = staging[j].time
    BY <1>1, <2>1 DEF Rows, RowsKept
  <2>3. CASE j \in S
    BY <2>1, <2>2, <2>3 DEF Rows
  <2>4. CASE j \notin S
    BY <1>1, <1>2, <2>1, <2>2, <2>4 DEF PendingIsLater
  <2>5. QED
    BY <2>3, <2>4
<1>3. QED
  BY <1>2 DEF PendingIsLater

\* What a complaint shows stays the latest if neither it nor the moved rows of
\* its incident change.
LEMMA LatestKept ==
    ASSUME RowsKept, NEW i \in Incidents, complaint'[i] = complaint[i], Moved(i)' = Moved(i),
           NEW k \in DOMAIN staging, IsLatest(k, Moved(i)), Detail(staging[k].content) = complaint[i].content
    PROVE  /\ IsLatest(k, Moved(i))' /\ k \in DOMAIN staging'
           /\ Detail(staging'[k].content) = complaint'[i].content
<1>1. \A j \in Moved(i) : j \in DOMAIN staging
  BY DEF Moved, Rows
<1>2. \A j \in DOMAIN staging : staging'[j].time = staging[j].time
  BY DEF RowsKept
<1>3. IsLatest(k, Moved(i))'
  BY <1>1, <1>2 DEF IsLatest
<1>4. k \in DOMAIN staging' /\ staging'[k].content = staging[k].content
  BY DEF RowsKept
<1>5. QED
  BY <1>3, <1>4

\* stageNewComplaint and stageUpdateComplaint up to the save: the first record
\* of an incident is an INSERT, and the new row is the latest of all.
LEMMA SerialStage ==
    ASSUME Serial, IInv, SerialInv, NEW r \in Requests,
           \/ \E i \in Incidents, c \in Contents : StageComplaint(r, i, c)
           \/ \E i \in Incidents, n \in UpdateNumbers, u \in UpdateContents : StageUpdate(r, i, n, u)
    PROVE  SerialInv'
<1>1. ASSUME NEW i, NEW c, NEW act \in {"INSERT", "EDIT", "UPDATE"}, NEW n, NEW t \in NextTimes,
             act = "INSERT" => Rows(i, {"INSERT", "EDIT"}) = {},
             act = "EDIT" => Rows(i, {"INSERT", "EDIT"}) # {}
      PROVE  StillSo([step |-> "save", row |-> NewRow(i, act, n, c, t)])
  <2>1. \A k \in DOMAIN staging : staging[k].time < t
    BY DEF NextTimes, NewTime
  <2>2. act = "EDIT" => Rows(i, {"INSERT"}) # {}
    <3>1. ASSUME NEW k \in Rows(i, {"INSERT", "EDIT"}) PROVE Rows(i, {"INSERT"}) # {}
      <4>1. k \in DOMAIN staging /\ staging[k].incident = i /\ staging[k].activity \in {"INSERT", "EDIT"}
        BY DEF Rows
      <4>2. CASE staging[k].activity = "INSERT"
        BY <4>1, <4>2 DEF Rows
      <4>3. CASE staging[k].activity = "EDIT"
        BY <4>1, <4>3 DEF SerialInv, EditsFollow
      <4>4. QED
        BY <4>1, <4>2, <4>3
    <3>2. QED
      BY <1>1, <3>1
  <2> DEFINE row == NewRow(i, act, n, c, t)
  <2>3. row.time = t /\ row.activity = act /\ row.incident = i
    BY DEF NewRow
  <2>4. StillSo([step |-> "save", row |-> row])
    <3> HIDE DEF row
    <3>1. QED
      BY <1>1, <2>1, <2>2, <2>3 DEF StillSo
  <2>5. QED
    BY <2>4
<1>2. CASE \E i \in Incidents, c \in Contents : StageComplaint(r, i, c)
  <2>1. PICK i \in Incidents, c \in Contents : StageComplaint(r, i, c)
    BY <1>2
  <2>2. PICK act \in StagedAs(i, c), t \in NextTimes :
            req' = [req EXCEPT ![r] = [step |-> "save", row |-> NewRow(i, act, 0, c, t)]]
    BY <2>1 DEF StageComplaint
  <2>3. /\ act \in {"INSERT", "EDIT", "UPDATE"}
        /\ act = "INSERT" => Rows(i, {"INSERT", "EDIT"}) = {}
        /\ act = "EDIT" => Rows(i, {"INSERT", "EDIT"}) # {}
    BY DEF StagedAs
  <2>4. StillSo([step |-> "save", row |-> NewRow(i, act, 0, c, t)])
    BY <1>1, <2>3
  <2> DEFINE v == [step |-> "save", row |-> NewRow(i, act, 0, c, t)]
  <2>5. StillSo(v) /\ req' = [req EXCEPT ![r] = v] /\ UNCHANGED <<staging, complaint, updates>>
    BY <2>1, <2>2, <2>4 DEF StageComplaint
  <2> HIDE DEF v
  <2>6. QED
    BY <2>5, SerialQuiet
<1>3. CASE \E i \in Incidents, n \in UpdateNumbers, u \in UpdateContents : StageUpdate(r, i, n, u)
  <2>1. PICK i \in Incidents, n \in UpdateNumbers, u \in UpdateContents : StageUpdate(r, i, n, u)
    BY <1>3
  <2>2. PICK t \in NextTimes : req' = [req EXCEPT ![r] = [step |-> "save", row |-> NewRow(i, "UPDATE", n, u, t)]]
    BY <2>1 DEF StageUpdate
  <2>3. StillSo([step |-> "save", row |-> NewRow(i, "UPDATE", n, u, t)])
    BY <1>1
  <2> DEFINE v == [step |-> "save", row |-> NewRow(i, "UPDATE", n, u, t)]
  <2>4. StillSo(v) /\ req' = [req EXCEPT ![r] = v] /\ UNCHANGED <<staging, complaint, updates>>
    BY <2>1, <2>2, <2>3 DEF StageUpdate
  <2> HIDE DEF v
  <2>5. QED
    BY <2>4, SerialQuiet
<1>4. QED
  BY <1>2, <1>3

\* The selects that the procedures begin with, and the end of a request.
LEMMA SerialBegin ==
    ASSUME Serial, IInv, SerialInv, NEW r \in Requests,
           \/ \E i \in Incidents : ProcessComplaint(r, i)
           \/ \E i \in Incidents, n \in UpdateNumbers : ProcessUpdate(r, i, n)
           \/ SelectEdit(r)
           \/ Abort(r)
    PROVE  SerialInv'
<1>1. UNCHANGED <<staging, complaint, updates>>
  BY DEF ProcessComplaint, ProcessUpdate, SelectEdit, Abort
<1>2. CASE \E i \in Incidents : ProcessComplaint(r, i)
  <2>1. PICK i \in Incidents : ProcessComplaint(r, i)
    BY <1>2
  <2>2. CASE /\ Pending(Rows(i, {"INSERT"})) = {}
             /\ req' = [req EXCEPT ![r] = [step |-> "edit", incident |-> i, picked |-> 0, was |-> None]]
    <3> DEFINE v == [step |-> "edit", incident |-> i, picked |-> 0, was |-> None]
    <3>1. StillSo(v) /\ req' = [req EXCEPT ![r] = v]
      BY <2>2 DEF StillSo
    <3> HIDE DEF v
    <3>2. QED
      BY <1>1, <3>1, SerialQuiet
  <2>3. ASSUME NEW k \in Pending(Rows(i, {"INSERT"})),
               req' = [req EXCEPT ![r] = [step |-> "inserting", incident |-> i, picked |-> k, was |-> None]]
        PROVE  SerialInv'
    <3> DEFINE v == [step |-> "inserting", incident |-> i, picked |-> k, was |-> None]
    <3>1. StillSo(v) /\ req' = [req EXCEPT ![r] = v]
      BY <2>3 DEF StillSo
    <3> HIDE DEF v
    <3>2. QED
      BY <1>1, <3>1, SerialQuiet
  <2>4. QED
    BY <2>1, <2>2, <2>3 DEF ProcessComplaint
<1>3. CASE \E i \in Incidents, n \in UpdateNumbers : ProcessUpdate(r, i, n)
  <2>1. PICK i \in Incidents, n \in UpdateNumbers : ProcessUpdate(r, i, n)
    BY <1>3
  <2>2. PICK k : req' = [req EXCEPT ![r] = [step |-> "updating", incident |-> i, number |-> n,
                                            picked |-> k, logged |-> Logged(i, n) # {}]]
    BY <2>1 DEF ProcessUpdate
  <2> DEFINE v == [step |-> "updating", incident |-> i, number |-> n, picked |-> k, logged |-> Logged(i, n) # {}]
  <2>3. StillSo(v) /\ req' = [req EXCEPT ![r] = v]
    BY <2>2 DEF StillSo
  <2> HIDE DEF v
  <2>4. QED
    BY <1>1, <2>3, SerialQuiet
<1>4. CASE SelectEdit(r)
  <2> DEFINE i == req[r].incident
  <2>1. req[r] \in MoveReq /\ Pending(Rows(i, {"INSERT"})) = {}
    BY <1>4, StepOfReq DEF IInv, SerialInv, StillSo, SelectEdit
  <2>2. PICK k : /\ IF Pending(Rows(i, {"EDIT"})) = {} THEN k = 0 ELSE IsLatest(k, Pending(Rows(i, {"EDIT"})))
                 /\ req' = [req EXCEPT ![r] = [@ EXCEPT !.step = "editing", !.picked = k, !.was = Content(i)]]
    BY <1>4 DEF SelectEdit
  <2> DEFINE v == [req[r] EXCEPT !.step = "editing", !.picked = k, !.was = Content(i)]
  <2>3. v.step = "editing" /\ v.picked = k /\ v.was = Content(i) /\ v.incident = i
    BY <2>1 DEF MoveReq
  <2>4. req' = [req EXCEPT ![r] = v]
    BY <2>2
  <2> HIDE DEF v
  <2>5. StillSo(v)
    BY <2>1, <2>2, <2>3 DEF StillSo
  <2>6. QED
    BY <1>1, <2>4, <2>5, SerialQuiet
<1>5. CASE Abort(r)
  <2>1. StillSo(Idle)
    BY DEF StillSo, Idle
  <2>2. QED
    BY <1>1, <1>5, <2>1, SerialQuiet DEF Abort, Finish
<1>6. QED
  BY <1>2, <1>3, <1>4, <1>5

\* The save: the first row of an incident, or one later than all others.
LEMMA SerialSave ==
    ASSUME Serial, IInv, SerialInv, NEW r \in Requests, Save(r)
    PROVE  SerialInv'
<1> DEFINE row == req[r].row
           new == Len(staging) + 1
<1>1. row \in Row /\ row.status = "PENDING"
  BY StepOfReq DEF IInv, ReqOK, Remembers, Save, SaveReq
<1>2. /\ DOMAIN staging' = DOMAIN staging \cup {new} /\ new \notin DOMAIN staging
      /\ staging'[new] = row
      /\ \A k \in DOMAIN staging : staging'[k] = staging[k]
  BY <1>1 DEF Save, IInv, TypeOK
<1>3. /\ \A k \in DOMAIN staging : staging[k].time < row.time
      /\ row.activity = "INSERT" => Rows(row.incident, {"INSERT", "EDIT"}) = {}
      /\ row.activity = "EDIT" => Rows(row.incident, {"INSERT"}) # {}
  BY DEF SerialInv, StillSo, Save
<1>4. \A q \in Requests : StillSo(req[q])'
  BY SerialIdle DEF Save
<1>5. UNCHANGED <<complaint, updates>>
  BY DEF Save
<1> HIDE DEF row, new
<1>6. OneInsert'
  BY <1>2, <1>3 DEF SerialInv, OneInsert, Rows
<1>7. ASSUME NEW k \in DOMAIN staging', staging'[k].activity = "EDIT"
      PROVE  /\ Rows(staging'[k].incident, {"INSERT"}) # {}
             /\ \A j \in DOMAIN staging' :
                   staging'[j].incident = staging'[k].incident /\ staging'[j].activity = "INSERT"
                   => staging'[j].time < staging'[k].time
  <2>1. CASE k = new
    BY <1>2, <1>3, <1>7, <2>1
  <2>2. CASE k \in DOMAIN staging
    <3>1. staging[k].activity = "EDIT" /\ staging'[k] = staging[k]
      BY <1>2, <1>7, <2>2
    <3>2. k \in Rows(staging[k].incident, {"INSERT", "EDIT"})
      BY <2>2, <3>1 DEF Rows
    <3>3. ~ (row.incident = staging[k].incident /\ row.activity = "INSERT")
      BY <1>3, <3>2
    <3>4. QED
      BY <1>2, <2>2, <3>1, <3>3 DEF SerialInv, EditsFollow, Rows
  <2>3. QED
    BY <1>2, <2>1, <2>2
<1>8. EditsFollow'
  BY <1>2, <1>7 DEF EditsFollow, Rows
<1>9. PendingIsLater'
  BY <1>1, <1>2, <1>3 DEF SerialInv, PendingIsLater, Rows
<1>10. EditedIsLive'
  BY <1>1, <1>2, <1>5 DEF SerialInv, EditedIsLive, Rows
<1>11. ShowsLatest'
  <2>1. ASSUME NEW i \in Incidents PROVE Moved(i)' = Moved(i)
    BY <1>1, <1>2 DEF Moved, Rows
  <2>2. RowsKept
    BY <1>2 DEF RowsKept
  <2>3. QED
    BY <1>5, <2>1, <2>2, LatestKept DEF SerialInv, ShowsLatest
<1>12. OneLogPerNumber'
  BY <1>5 DEF SerialInv, OneLogPerNumber
<1>13. QED
  BY <1>4, <1>6, <1>8, <1>9, <1>10, <1>11, <1>12 DEF SerialInv

\* Marking rows as SUCCESS moves those of them that are of complaints.
LEMMA MovedMarked ==
    ASSUME TypeOK, NEW S, NEW s \in Statuses, staging' = Marked(S, s), NEW i
    PROVE  /\ s = "SUCCESS" => Moved(i)' = Moved(i) \cup (S \cap Rows(i, {"INSERT", "EDIT"}))
           /\ s # "SUCCESS" /\ S \cap Moved(i) = {} => Moved(i)' = Moved(i)
<1>1. /\ RowsKept /\ DOMAIN staging' = DOMAIN staging
      /\ \A k \in DOMAIN staging : staging'[k].status = IF k \in S THEN s ELSE staging[k].status
  BY MarkedOK
<1>2. QED
  BY <1>1 DEF Moved, Rows, RowsKept

\* The insert moves the one INSERT row of its incident, before any EDIT row.
LEMMA SerialInsert ==
    ASSUME Serial, IInv, SerialInv, NEW r \in Requests, InsertComplaint(r),
           NEW i, i = req[r].incident, NEW k, k = req[r].picked
    PROVE  SerialInv'
<1> DEFINE c == staging[k].content
<1>1. req[r] \in MoveReq /\ i \in Incidents /\ k \in Pending(Rows(i, {"INSERT"}))
  BY StepOfReq DEF IInv, SerialInv, StillSo, InsertComplaint
<1>2. k \in DOMAIN staging /\ Rows(i, {"INSERT"}) = {k} /\ staging[k].status = "PENDING"
  BY <1>1 DEF Pending, Rows, SerialInv, OneInsert
<1>3. /\ RowsKept /\ DOMAIN staging' = DOMAIN staging
      /\ \A j \in DOMAIN staging : staging'[j].status = IF j = k THEN "SUCCESS" ELSE staging[j].status
  BY <1>2, MarkedOK DEF IInv, InsertComplaint, Statuses
<1>4. /\ complaint[i] = None /\ complaint' = [complaint EXCEPT ![i] = [content |-> Detail(c), kind |-> c.type]]
      /\ complaint'[i] # None /\ complaint'[i].content = Detail(c)
      /\ \A x \in Incidents \ {i} : complaint'[x] = complaint[x]
  <2>1. c \in Contents /\ c.type \in ComplaintTypes
    <3>1. staging[k] \in Row /\ staging[k].activity = "INSERT"
      BY <1>1 DEF IInv, TypeOK, Pending, Rows
    <3>2. QED
      BY <3>1 DEF Row, ComplaintRow, UpdateRow, Stageable
  <2>2. [content |-> Detail(c), kind |-> c.type] # None
    BY <2>1, DetailOK, NoneAssumption DEF Live
  <2>3. QED
    BY <1>1, <2>2 DEF InsertComplaint, IInv, TypeOK
<1>5. OneInsert' /\ EditsFollow'
  BY <1>3, OrderKept DEF IInv, SerialInv
<1>6. PendingIsLater'
  BY <1>2, PendingKept DEF IInv, SerialInv, InsertComplaint, EditsFollow, Rows, Statuses
<1>7. EditedIsLive'
  <2>1. ASSUME NEW j \in DOMAIN staging', staging'[j].activity = "EDIT", staging'[j].status = "SUCCESS"
        PROVE  \/ complaint'[staging'[j].incident] # None
               \/ \E m \in Rows(staging[j].incident, {"INSERT"})' : staging'[m].status = "ERROR"
    <3>1. /\ j \in DOMAIN staging /\ staging[j].activity = "EDIT" /\ staging[j].status = "SUCCESS"
          /\ staging'[j].incident = staging[j].incident /\ staging[j].incident \in Incidents
      BY <1>2, <1>3, <2>1, RowFacts DEF RowsKept, IInv, Rows
    <3>2. CASE staging[j].incident = i
      BY <1>4, <3>1, <3>2
    <3>3. CASE staging[j].incident # i
      <4>1. \/ complaint[staging[j].incident] # None
            \/ \E m \in Rows(staging[j].incident, {"INSERT"}) : staging[m].status = "ERROR"
        BY <3>1 DEF SerialInv, EditedIsLive
      <4>2. \A m \in Rows(staging[j].incident, {"INSERT"}) :
               m \in Rows(staging[j].incident, {"INSERT"})' /\ staging'[m].status = staging[m].status
        BY <1>2, <1>3, <3>1, <3>3 DEF Rows, RowsKept
      <4>3. QED
        BY <1>4, <3>1, <3>3, <4>1, <4>2
    <3>4. QED
      BY <3>2, <3>3
  <2>2. QED
    BY <2>1 DEF EditedIsLive
<1>8. ASSUME NEW x \in Incidents, complaint'[x] # None
      PROVE  \E j \in DOMAIN staging' : IsLatest(j, Moved(x))' /\ Detail(staging'[j].content) = complaint'[x].content
  <2>1. CASE x = i
    <3>1. Moved(i) = {}
      <4>1. \A j \in Moved(i) : j \in DOMAIN staging /\ staging[j].incident = i
                                /\ staging[j].status = "SUCCESS" /\ staging[j].activity = "EDIT"
        BY <1>2 DEF Moved, Rows
      <4>2. \A j \in DOMAIN staging : staging[j].incident = i /\ staging[j].activity = "EDIT"
                                      => staging[j].status # "SUCCESS"
        BY <1>2, <1>4 DEF SerialInv, EditedIsLive
      <4>3. QED
        BY <4>1, <4>2
    <3>2. Moved(i)' = {k}
      BY <1>2, <1>3, <3>1, RowFacts DEF Moved, Rows, RowsKept
    <3>3. staging'[k].time \in Nat /\ staging'[k].content = c
      BY <1>2, <1>3, RowFacts DEF RowsKept, IInv
    <3>4. IsLatest(k, Moved(i))'
      BY <3>2, <3>3 DEF IsLatest
    <3>5. QED
      BY <1>2, <1>3, <1>4, <2>1, <3>3, <3>4
  <2>2. CASE x # i
    <3>1. Moved(x)' = Moved(x)
      BY <1>2, <1>3, <2>2 DEF Moved, Rows, RowsKept
    <3>2. complaint'[x] = complaint[x]
      BY <1>4, <2>2
    <3>3. PICK j \in DOMAIN staging : IsLatest(j, Moved(x)) /\ Detail(staging[j].content) = complaint[x].content
      BY <1>8, <3>2 DEF SerialInv, ShowsLatest
    <3>4. QED
      BY <1>3, <3>1, <3>2, <3>3, LatestKept
  <2>3. QED
    BY <2>1, <2>2
<1>9. OneLogPerNumber'
  BY DEF InsertComplaint, SerialInv, OneLogPerNumber
<1>10. ASSUME NEW q \in Requests PROVE StillSo(req[q])'
  <2> DEFINE v == [req[r] EXCEPT !.step = "edit", !.picked = 0]
  <2>1. v.step = "edit" /\ v.incident = i
    BY <1>1 DEF MoveReq
  <2>2. req'[q] = v
    BY DEF Serial, InsertComplaint, ToEdit, IInv, TypeOK
  <2>3. Pending(Rows(i, {"INSERT"}))' = {}
    BY <1>2, <1>3 DEF Pending, Rows, RowsKept
  <2> HIDE DEF v
  <2>4. req'[q].step = "edit" /\ req'[q].incident = i
    BY <2>1, <2>2
  <2>5. QED
    BY <2>3, <2>4 DEF StillSo, Pending, Rows
<1>11. QED
  BY <1>5, <1>6, <1>7, <1>8, <1>9, <1>10 DEF SerialInv, ShowsLatest

\* Rows marked as ERROR were PENDING: no complaint shows them, and the INSERT
\* rows in ERROR stay so.
LEMMA SerialError ==
    ASSUME IInv, SerialInv, NEW S, S \subseteq DOMAIN staging,
           \A k \in S : staging[k].status = "PENDING",
           staging' = Marked(S, "ERROR"), UNCHANGED <<complaint, updates>>,
           \A k \in DOMAIN staging, j \in S :
               /\ staging[k].activity = "EDIT" /\ staging[k].status = "PENDING" /\ k \notin S
               /\ staging[j].incident = staging[k].incident /\ staging[j].activity # "UPDATE"
               => staging[j].time < staging[k].time
    PROVE  /\ OneInsert' /\ EditsFollow' /\ PendingIsLater'
           /\ EditedIsLive' /\ ShowsLatest' /\ OneLogPerNumber'
<1>1. /\ RowsKept /\ DOMAIN staging' = DOMAIN staging
      /\ \A j \in DOMAIN staging : staging'[j].status = IF j \in S THEN "ERROR" ELSE staging[j].status
  BY MarkedOK DEF IInv, Statuses
<1>2. OneInsert' /\ EditsFollow'
  BY <1>1, OrderKept DEF IInv, SerialInv
<1>3. PendingIsLater'
  BY PendingKept DEF IInv, SerialInv, Statuses
<1>4. EditedIsLive'
  <2>1. ASSUME NEW j \in DOMAIN staging', staging'[j].activity = "EDIT", staging'[j].status = "SUCCESS"
        PROVE  \/ complaint'[staging'[j].incident] # None
               \/ \E m \in Rows(staging[j].incident, {"INSERT"})' : staging'[m].status = "ERROR"
    <3>1. /\ j \in DOMAIN staging /\ staging[j].activity = "EDIT" /\ staging[j].status = "SUCCESS"
          /\ staging'[j].incident = staging[j].incident
      BY <1>1, <2>1 DEF RowsKept
    <3>2. \/ complaint[staging[j].incident] # None
          \/ \E m \in Rows(staging[j].incident, {"INSERT"}) : staging[m].status = "ERROR"
      BY <3>1 DEF SerialInv, EditedIsLive
    <3>3. \A m \in Rows(staging[j].incident, {"INSERT"}) : staging[m].status = "ERROR" =>
             m \in Rows(staging[j].incident, {"INSERT"})' /\ staging'[m].status = "ERROR"
      BY <1>1, <3>1 DEF Rows, RowsKept
    <3>4. QED
      BY <3>1, <3>2, <3>3
  <2>2. QED
    BY <2>1 DEF EditedIsLive
<1>5. ShowsLatest'
  <2>1. ASSUME NEW i \in Incidents PROVE Moved(i)' = Moved(i)
    BY MovedMarked DEF IInv, Statuses, Moved
  <2>2. QED
    BY <1>1, <2>1, LatestKept DEF SerialInv, ShowsLatest
<1>6. OneLogPerNumber'
  BY DEF SerialInv, OneLogPerNumber
<1>7. QED
  BY <1>2, <1>3, <1>4, <1>5, <1>6

LEMMA SerialRaise ==
    ASSUME Serial, IInv, SerialInv, NEW r \in Requests,
           InsertRaises(r) \/ EditRaises(r) \/ UpdateRaises(r),
           NEW i, i = req[r].incident
    PROVE  SerialInv'
<1>1. CASE InsertRaises(r)
  <2> DEFINE S == Pending(Rows(i, {"INSERT"}))
  <2>1. /\ staging' = Marked(S, "ERROR") /\ UNCHANGED <<complaint, updates>>
        /\ \A k \in S : k \in DOMAIN staging /\ staging[k].status = "PENDING" /\ staging[k].activity = "INSERT"
    BY <1>1 DEF InsertRaises, Pending, Rows
  <2>2. \A k \in DOMAIN staging, j \in S :
            staging[k].activity = "EDIT" /\ staging[j].incident = staging[k].incident
            => staging[j].time < staging[k].time
    BY <2>1 DEF SerialInv, EditsFollow, Rows
  <2>3. Pending(Rows(i, {"INSERT"}))' = {}
    <3>1. \A j \in DOMAIN staging : staging'[j].status = IF j \in S THEN "ERROR" ELSE staging[j].status
      BY <2>1, MarkedOK DEF IInv, Statuses
    <3>2. RowsKept /\ DOMAIN staging' = DOMAIN staging
      BY <2>1, MarkedOK DEF IInv, Statuses
    <3>3. QED
      BY <3>1, <3>2 DEF Pending, Rows, RowsKept
  <2>4. ASSUME NEW q \in Requests PROVE StillSo(req[q])'
    <3> DEFINE v == [req[r] EXCEPT !.step = "edit", !.picked = 0]
    <3>1. v.step = "edit" /\ v.incident = i
      BY <1>1, StepOfReq DEF MoveReq, IInv, InsertRaises
    <3>2. req'[q] = v
      BY <1>1 DEF Serial, InsertRaises, ToEdit, IInv, TypeOK
    <3> HIDE DEF v
    <3>3. req'[q].step = "edit" /\ req'[q].incident = i
      BY <3>1, <3>2
    <3>4. QED
      BY <2>3, <3>3 DEF StillSo, Pending, Rows
  <2> HIDE DEF S
  <2>5. QED
    BY <2>1, <2>2, <2>4, SerialError DEF SerialInv
<1>2. CASE EditRaises(r) \/ UpdateRaises(r)
  <2>1. PICK S : /\ S \subseteq DOMAIN staging /\ staging' = Marked(S, "ERROR")
                 /\ UNCHANGED <<complaint, updates>> /\ Finish(r)
                 /\ \A k \in S : staging[k].status = "PENDING"
                 /\ \/ \A k \in S : staging[k].activity = "UPDATE"
                    \/ S = Pending(Rows(i, {"EDIT"}))
    <3>1. CASE EditRaises(r)
      <4> DEFINE S == Pending(Rows(i, {"EDIT"}))
      <4>1. staging' = Marked(S, "ERROR") /\ UNCHANGED <<complaint, updates>> /\ Finish(r)
        BY <3>1 DEF EditRaises
      <4>2. S \subseteq DOMAIN staging /\ \A k \in S : staging[k].status = "PENDING"
        BY DEF Pending, Rows
      <4>3. QED
        BY <4>1, <4>2
    <3>2. CASE UpdateRaises(r)
      <4> DEFINE S == Pending(UpdateRows(i, req[r].number))
      <4>1. staging' = Marked(S, "ERROR") /\ UNCHANGED <<complaint, updates>> /\ Finish(r)
        BY <3>2 DEF UpdateRaises
      <4>2. /\ S \subseteq DOMAIN staging
            /\ \A k \in S : staging[k].status = "PENDING" /\ staging[k].activity = "UPDATE"
        BY DEF Pending, UpdateRows, Rows
      <4>3. QED
        BY <4>1, <4>2
    <3>3. QED
      BY <1>2, <3>1, <3>2
  <2>2. \A k \in DOMAIN staging, j \in S :
               /\ staging[k].activity = "EDIT" /\ staging[k].status = "PENDING" /\ k \notin S
               /\ staging[j].incident = staging[k].incident /\ staging[j].activity # "UPDATE"
               => staging[j].time < staging[k].time
    BY <2>1 DEF Pending, Rows
  <2>3. QED
    BY <2>1, <2>2, SerialError, SerialIdle DEF SerialInv
<1>3. QED
  BY <1>1, <1>2

\* The edit moves the PENDING EDIT rows, and shows the latest of them.
LEMMA SerialEdit ==
    ASSUME Serial, IInv, SerialInv, NEW r \in Requests, EditComplaint(r),
           NEW i, i = req[r].incident, NEW k, k = req[r].picked
    PROVE  SerialInv'
<1> DEFINE S == Pending(Rows(i, {"EDIT"}))
<1>1. /\ i \in Incidents /\ req[r].was = Content(i) /\ Pending(Rows(i, {"INSERT"})) = {}
      /\ IF S = {} THEN k = 0 ELSE IsLatest(k, S)
  BY StepOfReq DEF IInv, SerialInv, StillSo, EditComplaint
<1>2. staging' = Marked(S, "SUCCESS") /\ UNCHANGED updates
  BY DEF EditComplaint
<1>3. \A j \in S : /\ j \in DOMAIN staging /\ staging[j].incident = i /\ staging[j].activity = "EDIT"
                   /\ staging[j].status = "PENDING"
  BY DEF Pending, Rows
<1>4. /\ RowsKept /\ DOMAIN staging' = DOMAIN staging
      /\ \A j \in DOMAIN staging : staging'[j].status = IF j \in S THEN "SUCCESS" ELSE staging[j].status
  BY <1>2, MarkedOK DEF IInv, Statuses
<1>5. /\ \A x \in Incidents : (complaint[x] = None) <=> (complaint'[x] = None)
      /\ \A x \in Incidents \ {i} : complaint'[x] = complaint[x]
      /\ complaint[i] # None /\ S # {} => complaint'[i].content = Detail(staging[k].content)
      /\ S = {} => complaint'[i] = complaint[i]
  <2> DEFINE c   == staging[k].content
             F   == Revised(c, req[r].was)
             mix == [f \in Fields |-> IF f \in F THEN c[f] ELSE complaint[i].content[f]]
             new == [complaint[i] EXCEPT !.content = mix]
  <2>1. S # {} => k # 0 /\ k \in Rows(i, {"INSERT", "EDIT"})
    <3>1. S # {} => k \in S
      BY <1>1 DEF IsLatest
    <3>2. 0 \notin DOMAIN staging
      BY DEF IInv, TypeOK
    <3>3. QED
      BY <1>3, <3>1, <3>2 DEF Rows
  <2>2. CASE k = 0 \/ complaint[i] = None
    BY <2>1, <2>2 DEF EditComplaint
  <2>3. CASE k # 0 /\ complaint[i] # None
    <3>1. complaint[i] \in Live /\ req[r].was = complaint[i].content /\ req[r].was # None
      BY <1>1, <2>3, NoneAssumption DEF IInv, TypeOK, Live, Content
    <3>2. S # {} /\ k \in Rows(i, {"INSERT", "EDIT"})
      BY <1>1, <2>1, <2>3
    <3>3. mix \in Details
      BY <1>1, <2>3, <3>2, Mixed DEF IInv
    <3>4. new # None /\ new.content = mix
      BY <3>1, <3>3, NoneAssumption DEF Live
    <3>5. complaint' = [complaint EXCEPT ![i] = new]
      BY <2>3 DEF EditComplaint
    <3>6. mix = Detail(c)
      <4>1. \A f \in Fields : f \notin F => c[f] = complaint[i].content[f]
        BY <3>1 DEF Revised
      <4>2. QED
        BY <4>1 DEF Detail
    <3> HIDE DEF c, F, mix, new
    <3>7. QED
      BY <1>1, <2>3, <3>2, <3>4, <3>5, <3>6 DEF IInv, TypeOK, c
  <2>4. QED
    BY <2>2, <2>3
<1>6. OneInsert' /\ EditsFollow'
  BY <1>4, OrderKept DEF IInv, SerialInv
<1>7. PendingIsLater'
  <2>1. \A m \in DOMAIN staging, j \in S :
               ~ (/\ staging[m].activity = "EDIT" /\ staging[m].status = "PENDING" /\ m \notin S
                  /\ staging[j].incident = staging[m].incident)
    BY <1>3 DEF Pending, Rows
  <2> HIDE DEF S
  <2>2. QED
    BY <1>2, <2>1, PendingKept DEF IInv, SerialInv, Statuses
<1>8. EditedIsLive'
  <2>1. ASSUME NEW j \in DOMAIN staging', staging'[j].activity = "EDIT", staging'[j].status = "SUCCESS"
        PROVE  \/ complaint'[staging'[j].incident] # None
               \/ \E m \in Rows(staging[j].incident, {"INSERT"})' : staging'[m].status = "ERROR"
    <3>1. /\ j \in DOMAIN staging /\ staging[j].activity = "EDIT"
          /\ staging'[j].incident = staging[j].incident /\ staging[j].incident \in Incidents
          /\ j \in S \/ staging[j].status = "SUCCESS"
      BY <1>4, <2>1, RowFacts DEF RowsKept, IInv
    <3>2. \/ complaint[staging[j].incident] # None
          \/ \E m \in Rows(staging[j].incident, {"INSERT"}) : staging[m].status = "ERROR"
      <4>1. CASE staging[j].status = "SUCCESS"
        BY <3>1, <4>1 DEF SerialInv, EditedIsLive
      <4>2. CASE j \in S
        <5>1. staging[j].incident = i
          BY <1>3, <4>2
        <5>2. PICK m \in Rows(i, {"INSERT"}) : TRUE
          BY <3>1, <5>1 DEF SerialInv, EditsFollow
        <5>3. m \in DOMAIN staging /\ staging[m].incident = i /\ staging[m].activity = "INSERT"
          BY <5>2 DEF Rows
        <5>4. staging[m].status \in {"SUCCESS", "ERROR"}
          BY <1>1, <5>2, <5>3, RowFacts DEF Pending, Statuses, IInv
        <5>5. CASE staging[m].status = "SUCCESS"
          BY <5>1, <5>3, <5>5 DEF IInv, InsertedIsLive
        <5>6. CASE staging[m].status = "ERROR"
          BY <5>1, <5>2, <5>6
        <5>7. QED
          BY <5>4, <5>5, <5>6
      <4>3. QED
        BY <3>1, <4>1, <4>2
    <3>3. \A m \in Rows(staging[j].incident, {"INSERT"}) :
             m \in Rows(staging[j].incident, {"INSERT"})' /\ staging'[m].status = staging[m].status
      BY <1>3, <1>4, <3>1 DEF Rows, RowsKept
    <3>4. QED
      BY <1>5, <3>1, <3>2, <3>3
  <2>2. QED
    BY <2>1 DEF EditedIsLive
<1>9. ASSUME NEW x \in Incidents, complaint'[x] # None
      PROVE  \E j \in DOMAIN staging' : IsLatest(j, Moved(x))' /\ Detail(staging'[j].content) = complaint'[x].content
  <2>1. PICK j \in DOMAIN staging : IsLatest(j, Moved(x)) /\ Detail(staging[j].content) = complaint[x].content
    BY <1>5, <1>9 DEF SerialInv, ShowsLatest
  <2>2. CASE x = i /\ S # {}
    <3>1. Moved(i)' = Moved(i) \cup S
      <4>1. S \subseteq Rows(i, {"INSERT", "EDIT"})
        BY DEF Pending, Rows
      <4> HIDE DEF S
      <4>2. QED
        BY <1>2, <4>1, MovedMarked DEF IInv, Statuses
    <3>2. k \in S /\ \A m \in S : staging[m].time <= staging[k].time
      BY <1>1, <2>2 DEF IsLatest
    <3>3. \A m \in Moved(i) : m \in DOMAIN staging /\ staging[m].time <= staging[k].time
      <4>1. ASSUME NEW m \in Moved(i) PROVE m \in DOMAIN staging /\ staging[m].time <= staging[k].time
        <5>1. m \in DOMAIN staging /\ m \in Rows(i, {"INSERT", "EDIT"}) /\ staging[m].status # "PENDING"
          BY DEF Moved, Rows
        <5>2. /\ k \in DOMAIN staging /\ staging[k].incident = i /\ staging[k].activity = "EDIT"
              /\ staging[k].status = "PENDING"
          BY <1>3, <3>2
        <5>3. staging[m].time < staging[k].time
          BY <5>1, <5>2 DEF SerialInv, PendingIsLater
        <5>4. staging[m].time \in Nat /\ staging[k].time \in Nat
          BY <5>1, <5>2, RowFacts DEF IInv
        <5>5. QED
          BY <5>1, <5>3, <5>4
      <4>2. QED
        BY <4>1
    <3>4. \A m \in DOMAIN staging : staging'[m].time = staging[m].time /\ staging'[m].content = staging[m].content
      BY <1>4 DEF RowsKept
    <3> HIDE DEF S
    <3>5. IsLatest(k, Moved(i))'
      BY <1>3, <3>1, <3>2, <3>3, <3>4 DEF IsLatest
    <3>6. QED
      BY <1>3, <1>4, <1>5, <1>9, <2>2, <3>2, <3>4, <3>5
  <2>3. CASE x # i \/ S = {}
    <3>1. Moved(x)' = Moved(x)
      <4>1. S \cap Rows(x, {"INSERT", "EDIT"}) = {}
        BY <1>3, <2>3 DEF Rows
      <4> HIDE DEF S
      <4>2. QED
        BY <1>2, <4>1, MovedMarked DEF IInv, Statuses
    <3>2. complaint'[x] = complaint[x]
      BY <1>5, <2>3
    <3>3. QED
      BY <1>4, <2>1, <3>1, <3>2, LatestKept
  <2>4. QED
    BY <2>2, <2>3
<1>10. OneLogPerNumber'
  BY <1>2 DEF SerialInv, OneLogPerNumber
<1>11. \A q \in Requests : StillSo(req[q])'
  BY SerialIdle DEF EditComplaint
<1>12. QED
  BY <1>6, <1>7, <1>8, <1>9, <1>10, <1>11 DEF SerialInv, ShowsLatest

\* An update touches the UPDATE rows alone, and one log record per number.
LEMMA SerialUpdate ==
    ASSUME Serial, IInv, SerialInv, NEW r \in Requests, ApplyUpdate(r),
           NEW i, i = req[r].incident, NEW n, n = req[r].number
    PROVE  SerialInv'
<1> DEFINE S == UpdateRows(i, n)
           u == staging[req[r].picked].content
<1>1. staging' = Marked(S, "SUCCESS") /\ UNCHANGED complaint
  BY DEF ApplyUpdate
<1>2. \A j \in S : j \in DOMAIN staging /\ staging[j].activity = "UPDATE"
  BY DEF UpdateRows, Rows
<1>3. /\ RowsKept /\ DOMAIN staging' = DOMAIN staging
      /\ \A j \in DOMAIN staging : staging'[j].status = IF j \in S THEN "SUCCESS" ELSE staging[j].status
  BY <1>1, MarkedOK DEF IInv, Statuses
<1>4. OneInsert' /\ EditsFollow'
  BY <1>3, OrderKept DEF IInv, SerialInv
<1>5. PendingIsLater'
  <2> HIDE DEF S
  <2>1. QED
    BY <1>1, <1>2, PendingKept DEF IInv, SerialInv, Statuses
<1>6. EditedIsLive'
  BY <1>1, <1>2, <1>3 DEF SerialInv, EditedIsLive, Rows, RowsKept
<1>7. ShowsLatest'
  <2>1. ASSUME NEW x \in Incidents PROVE Moved(x)' = Moved(x)
    <3>1. S \cap Rows(x, {"INSERT", "EDIT"}) = {}
      BY <1>2 DEF Rows
    <3> HIDE DEF S
    <3>2. QED
      BY <1>1, <3>1, MovedMarked DEF IInv, Statuses
  <2>2. QED
    BY <1>1, <1>3, <2>1, LatestKept DEF SerialInv, ShowsLatest
<1>8. OneLogPerNumber'
  <2>1. req[r].logged = (Logged(i, n) # {})
    BY DEF SerialInv, StillSo, ApplyUpdate
  <2>2. UNCHANGED updates \/ LogUpdate(i, n, u, req[r].picked, Logged(i, n) # {})
    BY <2>1 DEF ApplyUpdate
  <2>3. CASE UNCHANGED updates
    BY <2>3 DEF SerialInv, OneLogPerNumber
  <2>4. CASE /\ Logged(i, n) = {}
             /\ updates' = updates \cup {[incident |-> i, number |-> n, text |-> u.text, source |-> req[r].picked]}
    BY <2>4 DEF SerialInv, OneLogPerNumber, Logged
  <2>5. CASE /\ Logged(i, n) # {}
             /\ updates' = {IF x \in Logged(i, n) THEN [x EXCEPT !.text = u.text] ELSE x : x \in updates}
    <3> DEFINE f(x) == IF x \in Logged(i, n) THEN [x EXCEPT !.text = u.text] ELSE x
    <3>1. \A x \in updates : f(x).incident = x.incident /\ f(x).number = x.number
      BY DEF IInv, TypeOK, LogRecord
    <3>2. \A x \in updates' : \E y \in updates : x = f(y)
      BY <2>5
    <3> HIDE DEF f
    <3>3. QED
      BY <3>1, <3>2 DEF SerialInv, OneLogPerNumber
  <2>6. QED
    BY <2>2, <2>3, <2>4, <2>5 DEF LogUpdate
<1>9. \A q \in Requests : StillSo(req[q])'
  BY SerialIdle DEF ApplyUpdate
<1>10. QED
  BY <1>4, <1>5, <1>6, <1>7, <1>8, <1>9 DEF SerialInv

LEMMA SerialInit == Init => SerialInv
<1> SUFFICES ASSUME Init PROVE SerialInv
  OBVIOUS
<1>1. OneInsert /\ EditsFollow /\ PendingIsLater /\ EditedIsLive
  BY DEF Init, OneInsert, EditsFollow, PendingIsLater, EditedIsLive
<1>2. ShowsLatest /\ OneLogPerNumber
  BY DEF Init, ShowsLatest, OneLogPerNumber
<1>3. \A r \in Requests : StillSo(req[r])
  BY DEF Init, StillSo, Idle
<1>4. QED
  BY <1>1, <1>2, <1>3 DEF SerialInv

LEMMA SerialNext ==
    ASSUME Serial
    PROVE  IInv /\ SerialInv /\ [Next]_vars => SerialInv'
<1> SUFFICES ASSUME IInv, SerialInv, [Next]_vars PROVE SerialInv'
  OBVIOUS
<1>1. CASE UNCHANGED vars
  <2>1. OneInsert' /\ EditsFollow' /\ PendingIsLater'
    BY <1>1 DEF vars, SerialInv, OneInsert, EditsFollow, PendingIsLater, Rows
  <2>2. EditedIsLive' /\ ShowsLatest' /\ OneLogPerNumber'
    BY <1>1 DEF vars, SerialInv, EditedIsLive, ShowsLatest, OneLogPerNumber, Moved, Rows, IsLatest
  <2>3. \A r \in Requests : StillSo(req[r])'
    BY <1>1 DEF vars, SerialInv, StillSo, Rows, Pending, IsLatest, Content, Logged
  <2>4. QED
    BY <2>1, <2>2, <2>3 DEF SerialInv
<1>2. CASE Next
  <2>1. PICK r \in Requests : Request(r) \/ Continue(r) \/ Abort(r)
    BY <1>2 DEF Next
  <2>2. CASE Request(r) \/ SelectEdit(r) \/ Abort(r)
    BY <2>2, SerialStage, SerialBegin DEF Request
  <2>3. CASE Save(r) \/ InsertComplaint(r) \/ EditComplaint(r) \/ ApplyUpdate(r)
    BY <2>3, SerialSave, SerialInsert, SerialEdit, SerialUpdate
  <2>4. CASE InsertRaises(r) \/ EditRaises(r) \/ UpdateRaises(r)
    BY <2>4, SerialRaise
  <2>5. QED
    BY <2>1, <2>2, <2>3, <2>4 DEF Continue
<1>3. QED
  BY <1>1, <1>2

\* The invariant of requests that do not overlap holds in every state.
LEMMA SerialInvariance ==
    ASSUME Serial
    PROVE  Spec => []SerialInv
<1>1. IInv /\ SerialInv /\ [Next]_vars => SerialInv'
  BY SerialNext
<1>2. QED
  BY SerialInit, <1>1, Invariance, PTL DEF Spec

\* Without overlap stageNewComplaint stages one INSERT row per incident.
THEOREM OneInsertThm ==
    ASSUME Serial
    PROVE  Spec => []OneInsert
<1>1. SerialInv => OneInsert
  BY DEF SerialInv
<1>2. QED
  BY SerialInvariance, <1>1, PTL

\* Without overlap log_complaint_update writes one record per update number.
THEOREM OneLogPerNumberThm ==
    ASSUME Serial
    PROVE  Spec => []OneLogPerNumber
<1>1. SerialInv => OneLogPerNumber
  BY DEF SerialInv
<1>2. QED
  BY SerialInvariance, <1>1, PTL

\* Without overlap no EDIT row is marked SUCCESS that no complaint shows, unless
\* the INSERT of its incident failed.
THEOREM EditedIsLiveThm ==
    ASSUME Serial
    PROVE  Spec => []EditedIsLive
<1>1. SerialInv => EditedIsLive
  BY DEF SerialInv
<1>2. QED
  BY SerialInvariance, <1>1, PTL

\* Without overlap a complaint shows the latest record moved to it, whatever
\* the order in which records were staged, rejected and processed.
THEOREM LatestEditWinsThm ==
    ASSUME Serial
    PROVE  Spec => []LatestEditWins
<1>1. ShowsLatest => LatestEditWins
  BY DEF ShowsLatest, LatestEditWins, Settled, Moved
<1>2. SerialInv => LatestEditWins
  BY <1>1 DEF SerialInv
<1>3. QED
  BY SerialInvariance, <1>2, PTL

----------------------------------------------------------------------------
(* What is under way is true: every message, wherever it is, is about a     *)
(* record of its kind, and carries a version that WebEOC has held for it.   *)

HeldOf(x) == {entered[x][k] : k \in DOMAIN entered[x]}

Honest(m) ==
    /\ m.subject \in {"new", "update", "staged", "stagedUpdate"}
    /\ m.subject \in {"new", "update"} => m.content \in HeldOf(m.record)
    /\ m.subject \in {"new", "staged"} => m.record \in Incidents \X {0}
    /\ m.subject \in {"update", "stagedUpdate"} => m.record \in Incidents \X UpdateNumbers

Entry(e)   == \E n, m, st : e = [id |-> n, msg |-> m, state |-> st] /\ Honest(m)
Working(j) == \E at, n, m : j = [at |-> at, id |-> n, msg |-> m] /\ at # "free" /\ Honest(m)
Waits(j)   == \E n, m, r : j = [at |-> "waiting", id |-> n, msg |-> m, slot |-> r] /\ Honest(m)

WebeocOK == /\ entered \in [Records -> Seq(Contents \cup UpdateContents)]
            /\ \A x \in Records : HeldOf(x) \subseteq Versions(x)
            /\ DOMAIN window = Records
            /\ \A x \in Records : window[x] # 0 => entered[x] # <<>>
PollOK   == /\ DOMAIN poll = Pollers
            /\ \A w \in Pollers : \E ph, S : poll[w] = [phase |-> ph, todo |-> S] /\ \A m \in S : Honest(m)
StreamOK == (\E S : stream \in Seq(S)) /\ \A k \in DOMAIN stream : Entry(stream[k])
JobOK    == /\ DOMAIN job = Pods
            /\ \A p \in Pods : job[p] = Free \/ Working(job[p]) \/ Waits(job[p])
OutboxOK == /\ DOMAIN outbox = Pods
            /\ \A p \in Pods : /\ \E S : outbox[p] \in Seq(S)
                               /\ \A k \in DOMAIN outbox[p] : Honest(outbox[p][k])

PipeOK == WebeocOK /\ PollOK /\ StreamOK /\ JobOK /\ OutboxOK

\* What WebEOC has held stays true.
LEMMA HonestStays ==
    ASSUME NEW m, Honest(m), \A x \in Records : HeldOf(x) \subseteq HeldOf(x)'
    PROVE  Honest(m)'
BY DEF Honest, Records

LEMMA SameTruth ==
    ASSUME UNCHANGED entered
    PROVE  /\ \A m : Honest(m)' <=> Honest(m)
           /\ \A e : Entry(e)' <=> Entry(e)
           /\ \A j : (Working(j)' <=> Working(j)) /\ (Waits(j)' <=> Waits(j))
BY DEF Honest, HeldOf, Entry, Working, Waits

\* A message has a record of its kind, with a content of that kind.
LEMMA HonestRecord ==
    ASSUME WebeocOK, NEW m, Honest(m)
    PROVE  /\ m.record[1] \in Incidents
           /\ m.subject = "new" => m.record = <<m.record[1], 0>> /\ m.content \in Contents
           /\ m.subject = "update" => m.record[2] \in UpdateNumbers /\ m.content \in UpdateContents
           /\ m.subject = "stagedUpdate" => m.record[2] \in UpdateNumbers
<1>1. m.subject \in {"new", "update"} => m.record \in Records /\ m.content \in Versions(m.record)
  BY DEF Honest, WebeocOK, Records
<1>2. QED
  BY <1>1, ConstantsAssumption DEF Honest, Versions

----------------------------------------------------------------------------
(* The stream.                                                              *)

LEMMA InStateOK ==
    ASSUME StreamOK, UNCHANGED entered, NEW n, NEW st, stream' = InState(n, st)
    PROVE  StreamOK'
<1>1. PICK S : stream \in Seq(S)
  BY DEF StreamOK
<1> DEFINE f == [k \in DOMAIN stream |-> IF stream[k].id = n THEN [stream[k] EXCEPT !.state = st] ELSE stream[k]]
<1>2. ASSUME NEW k \in DOMAIN stream
      PROVE  Entry(f[k])
  <2>1. PICK i, m, s : stream[k] = [id |-> i, msg |-> m, state |-> s] /\ Honest(m)
    BY DEF StreamOK, Entry
  <2>2. f[k] = [id |-> i, msg |-> m, state |-> s] \/ f[k] = [id |-> i, msg |-> m, state |-> st]
    BY <2>1
  <2>3. QED
    BY <2>1, <2>2 DEF Entry
<1>3. stream' = f /\ DOMAIN f = 1..Len(stream) /\ Len(stream) \in Nat
  BY <1>1 DEF InState
<1>4. f \in Seq({f[k] : k \in DOMAIN stream})
  BY <1>1, <1>3
<1> HIDE DEF f
<1>5. QED
  BY <1>2, <1>3, <1>4, SameTruth DEF StreamOK

LEMMA WithoutOK ==
    ASSUME StreamOK, UNCHANGED entered, NEW n, stream' = Without(n)
    PROVE  StreamOK'
<1>1. PICK S : stream \in Seq(S)
  BY DEF StreamOK
<1>2. CASE UNCHANGED stream
  BY <1>2, SameTruth DEF StreamOK
<1>3. ASSUME NEW k \in DOMAIN stream,
             stream' = [j \in 1..(Len(stream) - 1) |-> IF j < k THEN stream[j] ELSE stream[j + 1]]
      PROVE  StreamOK'
  <2>1. DOMAIN stream = 1..Len(stream) /\ Len(stream) \in Nat /\ Len(stream) - 1 \in Nat
    BY <1>1
  <2>2. stream' \in Seq(S)
    <3>1. \A j \in 1..(Len(stream) - 1) : stream'[j] \in S
      BY <1>1, <1>3, <2>1
    <3>2. QED
      BY <1>3, <2>1, <3>1
  <2>3. \A j \in DOMAIN stream' : \E i \in DOMAIN stream : stream'[j] = stream[i]
    BY <1>3, <2>1
  <2>4. QED
    BY <2>2, <2>3, SameTruth DEF StreamOK
<1>4. QED
  BY <1>2, <1>3 DEF Without, Entries

LEMMA PublishOK ==
    ASSUME StreamOK, UNCHANGED entered, NEW m, Honest(m), Publish(m)
    PROVE  StreamOK'
<1>1. PICK S : stream \in Seq(S)
  BY DEF StreamOK
<1>2. CASE UNCHANGED stream
  BY <1>2, SameTruth DEF StreamOK
<1>3. ASSUME NEW e, e = [id |-> NewId, msg |-> m, state |-> "ready"], stream' = Append(stream, e)
      PROVE  StreamOK'
  <2>1. Entry(e)
    BY <1>3 DEF Entry
  <2>2. stream \in Seq(S \cup {e})
    BY <1>1
  <2>3. stream' \in Seq(S \cup {e})
    BY <1>3, <2>2
  <2>4. \A j \in DOMAIN stream' : stream'[j] = e \/ \E i \in DOMAIN stream : stream'[j] = stream[i]
    BY <1>3, <2>2
  <2>5. QED
    BY <2>1, <2>3, <2>4, SameTruth DEF StreamOK
<1>4. QED
  BY <1>2, <1>3 DEF Publish, Stored, Duplicate, bus

----------------------------------------------------------------------------
(* Handlers and outboxes.                                                   *)

LEMMA Shapes ==
    /\ \A at, n, m : at # "free" /\ Honest(m) => Working([at |-> at, id |-> n, msg |-> m])
    /\ \A n, m, r : Honest(m) => Waits([at |-> "waiting", id |-> n, msg |-> m, slot |-> r])
    /\ \A j : Waits(j) => j.at = "waiting"
<1>1. ASSUME NEW at, NEW n, NEW m, at # "free", Honest(m)
      PROVE  Working([at |-> at, id |-> n, msg |-> m])
  BY <1>1 DEF Working
<1>2. ASSUME NEW n, NEW m, NEW r, Honest(m)
      PROVE  Waits([at |-> "waiting", id |-> n, msg |-> m, slot |-> r])
  BY <1>2 DEF Waits
<1>3. ASSUME NEW j, Waits(j)
      PROVE  j.at = "waiting"
  <2>1. PICK n, m, r : j = [at |-> "waiting", id |-> n, msg |-> m, slot |-> r]
    BY <1>3 DEF Waits
  <2>2. QED
    BY <2>1
<1>4. QED
  BY <1>1, <1>2, <1>3

\* The message of a handler at work is an honest one.
LEMMA JobMessage ==
    ASSUME JobOK, NEW p \in Pods, job[p] # Free
    PROVE  Honest(job[p].msg)
<1>1. Working(job[p]) \/ Waits(job[p])
  BY DEF JobOK
<1>2. CASE Working(job[p])
  <2>1. PICK at, n, m : job[p] = [at |-> at, id |-> n, msg |-> m] /\ Honest(m)
    BY <1>2 DEF Working
  <2>2. job[p].msg = m
    BY <2>1
  <2>3. QED
    BY <2>1, <2>2
<1>3. CASE Waits(job[p])
  <2>1. PICK n, m, r : job[p] = [at |-> "waiting", id |-> n, msg |-> m, slot |-> r] /\ Honest(m)
    BY <1>3 DEF Waits
  <2>2. job[p].msg = m
    BY <2>1
  <2>3. QED
    BY <2>1, <2>2
<1>4. QED
  BY <1>1, <1>2, <1>3

LEMMA JobStep ==
    ASSUME JobOK, UNCHANGED entered, NEW p \in Pods,
           NEW v, job' = [job EXCEPT ![p] = v], v = Free \/ Working(v) \/ Waits(v)
    PROVE  JobOK'
<1>1. DOMAIN job' = Pods /\ \A q \in Pods : job'[q] = IF q = p THEN v ELSE job[q]
  BY DEF JobOK
<1>2. \A q \in Pods : job'[q] = Free \/ Working(job'[q]) \/ Waits(job'[q])
  BY <1>1 DEF JobOK
<1>3. Free' = Free
  BY DEF Free
<1>4. QED
  BY <1>1, <1>2, <1>3, SameTruth DEF JobOK

LEMMA OutboxStep ==
    ASSUME OutboxOK, UNCHANGED entered, NEW p \in Pods,
           NEW s, outbox' = [outbox EXCEPT ![p] = s],
           \E S : s \in Seq(S), \A k \in DOMAIN s : Honest(s[k])
    PROVE  OutboxOK'
<1>1. DOMAIN outbox' = Pods /\ \A q \in Pods : outbox'[q] = IF q = p THEN s ELSE outbox[q]
  BY DEF OutboxOK
<1>2. \A q \in Pods : /\ \E S : outbox'[q] \in Seq(S)
                      /\ \A k \in DOMAIN outbox'[q] : Honest(outbox'[q][k])
  BY <1>1 DEF OutboxOK
<1>3. QED
  BY <1>1, <1>2, SameTruth DEF OutboxOK

LEMMA AnsweredOK ==
    ASSUME StreamOK, JobOK, OutboxOK, UNCHANGED entered,
           NEW p \in Pods, job[p] # Free, Answered(p)
    PROVE  StreamOK' /\ JobOK' /\ OutboxOK'
<1> DEFINE m == job[p].msg
<1> DEFINE notice == Notice(m)
<1>1. Honest(m)
  BY JobMessage
<1>2. JobOK'
  BY JobStep DEF Answered
<1>3. CASE m.subject \in {"new", "update"}
  <2>1. Honest(notice)
    BY <1>1, <1>3 DEF Honest, Notice, Msg
  <2>2. outbox' = [outbox EXCEPT ![p] = Append(outbox[p], notice)] /\ UNCHANGED stream
    BY <1>3 DEF Answered
  <2>3. PICK S : outbox[p] \in Seq(S)
    BY DEF OutboxOK
  <2> HIDE DEF notice
  <2>4. outbox[p] \in Seq(S \cup {notice})
    BY <2>3
  <2>5. /\ Append(outbox[p], notice) \in Seq(S \cup {notice})
        /\ \A k \in DOMAIN Append(outbox[p], notice) :
               \/ Append(outbox[p], notice)[k] = notice
               \/ k \in DOMAIN outbox[p] /\ Append(outbox[p], notice)[k] = outbox[p][k]
    BY <2>4
  <2>6. \A k \in DOMAIN Append(outbox[p], notice) : Honest(Append(outbox[p], notice)[k])
    BY <2>1, <2>5 DEF OutboxOK
  <2>7. OutboxOK'
    BY <2>2, <2>5, <2>6, OutboxStep
  <2>8. StreamOK'
    BY <2>2, SameTruth DEF StreamOK
  <2>9. QED
    BY <1>2, <2>7, <2>8
<1>4. CASE m.subject \notin {"new", "update"}
  <2>1. stream' = Without(job[p].id) /\ UNCHANGED outbox
    BY <1>4 DEF Answered
  <2>2. QED
    BY <1>2, <2>1, WithoutOK, SameTruth DEF OutboxOK
<1>5. QED
  BY <1>3, <1>4

----------------------------------------------------------------------------
(* The actions.                                                             *)

\* What leaves the messages of some parts as they are.
LEMMA PartsStay ==
    ASSUME UNCHANGED entered
    PROVE  /\ WebeocOK /\ UNCHANGED window => WebeocOK'
           /\ PollOK /\ UNCHANGED poll => PollOK'
           /\ StreamOK /\ UNCHANGED stream => StreamOK'
           /\ JobOK /\ UNCHANGED job => JobOK'
           /\ OutboxOK /\ UNCHANGED outbox => OutboxOK'
<1>1. WebeocOK /\ UNCHANGED window => WebeocOK'
  BY DEF WebeocOK, HeldOf, Versions, Records
<1>2. PollOK /\ UNCHANGED poll => PollOK'
  BY SameTruth DEF PollOK
<1>3. StreamOK /\ UNCHANGED stream => StreamOK'
  BY SameTruth DEF StreamOK
<1>4. Free' = Free
  BY DEF Free
<1>5. JobOK /\ UNCHANGED job => JobOK'
  BY <1>4, SameTruth DEF JobOK
<1>6. OutboxOK /\ UNCHANGED outbox => OutboxOK'
  BY SameTruth DEF OutboxOK
<1>7. QED
  BY <1>1, <1>2, <1>3, <1>5, <1>6

LEMMA EnterHolds ==
    ASSUME WebeocOK, NEW x \in Records, NEW c \in Versions(x), Enter(x, c)
    PROVE  /\ WebeocOK'
           /\ HeldOf(x)' = HeldOf(x) \cup {c}
           /\ \A y \in Records \ {x} : HeldOf(y)' = HeldOf(y)
<1>1. /\ entered' = [entered EXCEPT ![x] = Append(entered[x], c)]
      /\ window' = [window EXCEPT ![x] = HistoryTicks + 1]
  BY DEF Enter
<1>2. /\ entered \in [Records -> Seq(Contents \cup UpdateContents)]
      /\ c \in Contents \cup UpdateContents
  BY DEF WebeocOK, Versions
<1>3. /\ entered[x] \in Seq(Contents \cup UpdateContents)
      /\ Append(entered[x], c) \in Seq(Contents \cup UpdateContents)
      /\ Append(entered[x], c) # <<>>
  <2>1. entered[x] \in Seq(Contents \cup UpdateContents)
    BY <1>2
  <2>2. Append(entered[x], c) \in Seq(Contents \cup UpdateContents)
    BY <1>2, <2>1
  <2>3. Len(Append(entered[x], c)) = Len(entered[x]) + 1 /\ Len(entered[x]) \in Nat
    BY <1>2, <2>1
  <2>4. Append(entered[x], c) # <<>>
    BY <2>3
  <2>5. QED
    BY <2>1, <2>2, <2>4
<1>4. /\ entered' \in [Records -> Seq(Contents \cup UpdateContents)]
      /\ entered'[x] = Append(entered[x], c) /\ entered'[x] # <<>>
      /\ \A y \in Records \ {x} : entered'[y] = entered[y]
  BY <1>1, <1>2, <1>3
<1>5. HeldOf(x)' = HeldOf(x) \cup {c}
  <2>1. /\ DOMAIN Append(entered[x], c) = DOMAIN entered[x] \cup {Len(entered[x]) + 1}
        /\ Append(entered[x], c)[Len(entered[x]) + 1] = c
        /\ \A k \in DOMAIN entered[x] : Append(entered[x], c)[k] = entered[x][k]
    BY <1>2, <1>3
  <2>2. QED
    BY <1>4, <2>1 DEF HeldOf
<1>6. \A y \in Records \ {x} : HeldOf(y)' = HeldOf(y)
  BY <1>4 DEF HeldOf
<1>7. \A y \in Records : HeldOf(y)' \subseteq Versions(y)
  BY <1>5, <1>6 DEF WebeocOK
<1>8. DOMAIN window' = Records /\ \A y \in Records : window'[y] # 0 => entered'[y] # <<>>
  BY <1>1, <1>4 DEF WebeocOK
<1>9. QED
  BY <1>4, <1>5, <1>6, <1>7, <1>8 DEF WebeocOK, Records, Versions

LEMMA EnterKeeps ==
    ASSUME PipeOK, NEW x \in Records, NEW c \in Versions(x), Enter(x, c)
    PROVE  PipeOK'
<1>1. WebeocOK' /\ \A y \in Records : HeldOf(y) \subseteq HeldOf(y)'
  BY EnterHolds DEF PipeOK
<1>2. UNCHANGED <<poll, stream, job, outbox>>
  BY DEF Enter, bus, pods
<1>3. /\ \A m : Honest(m) => Honest(m)'
      /\ \A e : Entry(e) => Entry(e)'
      /\ \A j : (Working(j) => Working(j)') /\ (Waits(j) => Waits(j)')
  <2>1. \A m : Honest(m) => Honest(m)'
    BY <1>1, HonestStays
  <2>2. QED
    BY <2>1 DEF Entry, Working, Waits
<1>4. PollOK'
  BY <1>2, <1>3 DEF PipeOK, PollOK
<1>5. StreamOK'
  BY <1>2, <1>3 DEF PipeOK, StreamOK
<1>6. Free' = Free
  BY DEF Free
<1>7. JobOK'
  BY <1>2, <1>3, <1>6 DEF PipeOK, JobOK
<1>8. OutboxOK'
  BY <1>2, <1>3 DEF PipeOK, OutboxOK
<1>9. QED
  BY <1>1, <1>4, <1>5, <1>7, <1>8 DEF PipeOK

LEMMA TickKeeps ==
    ASSUME PipeOK, Tick
    PROVE  PipeOK'
<1>1. UNCHANGED <<entered, stream, job, outbox>>
  BY DEF Tick
<1>2. PollOK'
  <2>1. PICK S \in SUBSET Resting :
            poll' = [w \in Pollers |-> IF w \in S THEN [phase |-> "due", todo |-> {}] ELSE poll[w]]
    BY DEF Tick
  <2>2. ASSUME NEW w \in Pollers
        PROVE  \E ph, T : poll'[w] = [phase |-> ph, todo |-> T] /\ \A m \in T : Honest(m)
    <3>1. PICK ph, T : poll[w] = [phase |-> ph, todo |-> T] /\ \A m \in T : Honest(m)
      BY DEF PipeOK, PollOK
    <3>2. PICK E : E = {}
      OBVIOUS
    <3>3. CASE w \in S
      <4>1. poll'[w] = [phase |-> "due", todo |-> E] /\ \A m \in E : Honest(m)
        BY <2>1, <3>2, <3>3
      <4>2. QED
        BY <4>1
    <3>4. CASE w \notin S
      <4>1. poll'[w] = [phase |-> ph, todo |-> T]
        BY <2>1, <3>1, <3>4
      <4>2. QED
        BY <3>1, <4>1
    <3>5. QED
      BY <3>3, <3>4
  <2>3. DOMAIN poll' = Pollers
    BY <2>1
  <2>4. QED
    BY <1>1, <2>2, <2>3, SameTruth DEF PollOK
<1>3. WebeocOK'
  <2>1. DOMAIN window' = Records /\ \A x \in Records : window'[x] # 0 => window[x] # 0
    BY DEF Tick
  <2>2. QED
    BY <1>1, <2>1 DEF PipeOK, WebeocOK, HeldOf, Versions, Records
<1>4. QED
  BY <1>1, <1>2, <1>3, PartsStay DEF PipeOK

LEMMA PollStep ==
    ASSUME PollOK, UNCHANGED entered, NEW w \in Pollers,
           NEW ph, NEW S, poll' = [poll EXCEPT ![w] = [phase |-> ph, todo |-> S]],
           \A m \in S : Honest(m)
    PROVE  PollOK'
<1>1. DOMAIN poll' = Pollers /\ \A q \in Pollers : poll'[q] = IF q = w THEN [phase |-> ph, todo |-> S] ELSE poll[q]
  BY DEF PollOK
<1>2. \A q \in Pollers : \E h, T : poll'[q] = [phase |-> h, todo |-> T] /\ \A m \in T : Honest(m)
  BY <1>1 DEF PollOK
<1>3. QED
  BY <1>1, <1>2, SameTruth DEF PollOK

\* What a poll fetches is the latest version that WebEOC holds.
LEMMA FetchedHonest ==
    ASSUME WebeocOK
    PROVE  /\ \A m \in Fetched(Complaints, "new") : Honest(m)
           /\ \A m \in Fetched(Records \ Complaints, "update") : Honest(m)
<1>1. ASSUME NEW x \in Records, window[x] > 0
      PROVE  Latest(entered[x]) \in HeldOf(x)
  <2>1. window[x] # 0
    BY <1>1
  <2>2. entered[x] \in Seq(Contents \cup UpdateContents) /\ entered[x] # <<>>
    BY <2>1 DEF WebeocOK
  <2>3. Len(entered[x]) \in DOMAIN entered[x]
    BY <2>2
  <2>4. QED
    BY <2>3 DEF HeldOf, Latest
<1>2. Complaints \subseteq Records /\ Records \ Complaints \subseteq Incidents \X UpdateNumbers
  BY DEF Complaints, Records
<1>3. ASSUME NEW x \in Complaints, window[x] > 0
      PROVE  Honest(Msg("new", x, Latest(entered[x])))
  BY <1>1, <1>2, <1>3 DEF Honest, Msg, Complaints
<1>4. ASSUME NEW x \in Records \ Complaints, window[x] > 0
      PROVE  Honest(Msg("update", x, Latest(entered[x])))
  BY <1>1, <1>2, <1>4 DEF Honest, Msg
<1>5. QED
  BY <1>3, <1>4 DEF Fetched

LEMMA PollKeeps ==
    ASSUME PipeOK, NEW w \in Pollers, Poll(w) \/ PollFails(w)
    PROVE  PipeOK'
<1>1. UNCHANGED <<entered, window, job, outbox>>
  BY DEF Poll, Fetch, PublishFetched, PollFails, webeoc
<1>2. PICK ph, S : poll[w] = [phase |-> ph, todo |-> S] /\ \A m \in S : Honest(m)
  BY DEF PipeOK, PollOK
<1>3. PollOK' /\ StreamOK'
  <2>1. CASE Fetch(w)
    <3>1. UNCHANGED stream
      BY <2>1 DEF Fetch, bus
    <3>2. PollOK'
      BY <1>1, <2>1, PollStep, FetchedHonest DEF Fetch, PipeOK
    <3>3. QED
      BY <1>1, <3>1, <3>2, PartsStay DEF PipeOK
  <2>2. CASE PublishFetched(w)
    <3>1. PICK m \in poll[w].todo : /\ Publish(m)
                                    /\ poll' = [poll EXCEPT ![w].todo = @ \ {m}]
      BY <2>2 DEF PublishFetched
    <3>2. Honest(m)
      BY <1>2
    <3>3. poll' = [poll EXCEPT ![w] = [phase |-> ph, todo |-> S \ {m}]]
      <4>1. [poll[w] EXCEPT !.todo = @ \ {m}] = [phase |-> ph, todo |-> S \ {m}]
        BY <1>2
      <4>2. QED
        BY <3>1, <4>1
    <3>4. PollOK'
      BY <1>1, <1>2, <3>3, PollStep DEF PipeOK
    <3>5. QED
      BY <1>1, <3>1, <3>2, <3>4, PublishOK DEF PipeOK
  <2>3. CASE PollFails(w)
    <3>1. UNCHANGED stream
      BY <2>3 DEF PollFails, bus
    <3>2. PICK h, T : poll' = [poll EXCEPT ![w] = [phase |-> h, todo |-> T]] /\ T = {}
      BY <2>3 DEF PollFails
    <3>3. \A m \in T : Honest(m)
      BY <3>2
    <3>4. PollOK'
      BY <1>1, <3>2, <3>3, PollStep DEF PipeOK
    <3>5. QED
      BY <1>1, <3>1, <3>4, PartsStay DEF PipeOK
  <2>4. QED
    BY <2>1, <2>2, <2>3 DEF Poll
<1>4. QED
  BY <1>1, <1>3, PartsStay DEF PipeOK

\* What JetStream does by itself.
LEMMA StreamKeeps ==
    ASSUME PipeOK, Forget \/ Redeliver \/ RedeliverEarly
    PROVE  PipeOK'
<1>1. UNCHANGED <<entered, window, poll, job, outbox>>
  BY DEF Forget, Redeliver, RedeliverEarly, webeoc, pods
<1>2. UNCHANGED stream \/ \E n : stream' = InState(n, "ready")
  BY DEF Forget, Redeliver, RedeliverEarly
<1>3. StreamOK'
  BY <1>1, <1>2, InStateOK, PartsStay DEF PipeOK
<1>4. QED
  BY <1>1, <1>3, PartsStay DEF PipeOK

\* A handler takes a message, acknowledges it, or gives it up.
LEMMA HandlerKeeps ==
    ASSUME PipeOK, NEW p \in Pods, Take(p) \/ Ack(p) \/ AckFails(p) \/ CallFails(p) \/ Nak(p)
    PROVE  PipeOK'
<1>1. UNCHANGED <<entered, window, poll, outbox>>
  BY DEF Take, Ack, AckFails, CallFails, Nak, webeoc
<1>2. \/ UNCHANGED stream
      \/ \E n : stream' = Without(n)
      \/ \E n, st : stream' = InState(n, st)
  BY DEF Take, Ack, AckFails, CallFails, Nak, bus
<1>3. StreamOK'
  BY <1>1, <1>2, InStateOK, WithoutOK, PartsStay DEF PipeOK
<1>4. PICK v : job' = [job EXCEPT ![p] = v] /\ (v = Free \/ Working(v) \/ Waits(v))
  <2>1. CASE Take(p)
    <3>1. PICK k \in DOMAIN stream :
              job' = [job EXCEPT ![p] =
                         [at  |-> IF stream[k].msg.subject \in {"new", "update"} THEN "acking" ELSE "calling",
                          id  |-> stream[k].id, msg |-> stream[k].msg]]
      BY <2>1 DEF Take
    <3>2. Honest(stream[k].msg)
      BY DEF PipeOK, StreamOK, Entry
    <3>3. Working([at  |-> IF stream[k].msg.subject \in {"new", "update"} THEN "acking" ELSE "calling",
                   id  |-> stream[k].id, msg |-> stream[k].msg])
      BY <3>2, Shapes
    <3>4. QED
      BY <3>1, <3>3
  <2>2. CASE AckFails(p) \/ Nak(p)
    BY <2>2 DEF AckFails, Nak
  <2>3. CASE Ack(p)
    <3>1. job[p] # Free /\ job[p].at = "acking"
      BY <2>3 DEF Ack, Free
    <3>2. PICK n, m : job[p] = [at |-> "acking", id |-> n, msg |-> m] /\ Honest(m)
      <4>1. ~ Waits(job[p])
        BY <3>1, Shapes
      <4>2. Working(job[p])
        BY <3>1, <4>1 DEF PipeOK, JobOK
      <4>3. PICK at, n, m : job[p] = [at |-> at, id |-> n, msg |-> m] /\ Honest(m)
        BY <4>2 DEF Working
      <4>4. at = "acking"
        BY <3>1, <4>3
      <4>5. QED
        BY <4>3, <4>4
    <3>3. [job[p] EXCEPT !.at = "calling"] = [at |-> "calling", id |-> n, msg |-> m]
      BY <3>2
    <3>4. job' = [job EXCEPT ![p] = [at |-> "calling", id |-> n, msg |-> m]]
      BY <2>3, <3>3 DEF Ack
    <3>5. QED
      BY <3>2, <3>4, Shapes
  <2>4. CASE CallFails(p)
    <3>1. job[p] # Free
      BY <2>4 DEF CallFails, Free
    <3>2. Honest(job[p].msg)
      BY <3>1, JobMessage DEF PipeOK
    <3>3. job' = [job EXCEPT ![p] = [at |-> "failed", id |-> job[p].id, msg |-> job[p].msg]]
      BY <2>4 DEF CallFails
    <3>4. Working([at |-> "failed", id |-> job[p].id, msg |-> job[p].msg])
      BY <3>2, Shapes
    <3>5. QED
      BY <3>3, <3>4
  <2>5. QED
    BY <2>1, <2>2, <2>3, <2>4
<1>5. JobOK'
  BY <1>1, <1>4, JobStep DEF PipeOK
<1>6. QED
  BY <1>1, <1>3, <1>5, PartsStay DEF PipeOK

\* A message leads to the request of the staging API for its record.
LEMMA CallsAreRequests ==
    ASSUME WebeocOK, NEW r, NEW m, Honest(m), Calls(r, m)
    PROVE  Request(r)
<1>1. CASE m.subject = "new"
  <2>1. StageComplaint(r, m.record[1], m.content)
    BY <1>1 DEF Calls
  <2>2. m.record[1] \in Incidents /\ m.content \in Contents
    BY <1>1, HonestRecord
  <2>3. QED
    BY <2>1, <2>2 DEF Request
<1>2. CASE m.subject = "update"
  <2>1. StageUpdate(r, m.record[1], m.record[2], m.content)
    BY <1>2 DEF Calls
  <2>2. m.record[1] \in Incidents /\ m.record[2] \in UpdateNumbers /\ m.content \in UpdateContents
    BY <1>2, HonestRecord
  <2>3. QED
    BY <2>1, <2>2 DEF Request
<1>3. CASE m.subject = "staged"
  <2>1. ProcessComplaint(r, m.record[1])
    BY <1>3 DEF Calls
  <2>2. QED
    BY <2>1, HonestRecord DEF Request
<1>4. CASE m.subject = "stagedUpdate"
  <2>1. ProcessUpdate(r, m.record[1], m.record[2])
    BY <1>4 DEF Calls
  <2>2. QED
    BY <1>4, <2>1, HonestRecord DEF Request
<1>5. QED
  BY <1>1, <1>2, <1>3, <1>4 DEF Honest

LEMMA CallKeeps ==
    ASSUME PipeOK, NEW p \in Pods, Call(p)
    PROVE  /\ PipeOK'
           /\ UNCHANGED vars \/ \E r \in Requests : Calls(r, job[p].msg)
           /\ Honest(job[p].msg)
<1>1. UNCHANGED <<entered, window, poll>> /\ job[p].at = "calling"
  BY DEF Call, webeoc
<1>2. job[p] # Free
  BY <1>1 DEF Free
<1>3. Honest(job[p].msg)
  BY <1>2, JobMessage DEF PipeOK
<1>4. CASE \E r \in Requests :
              /\ Calls(r, job[p].msg)
              /\ job' = [job EXCEPT ![p] = [at |-> "waiting", id |-> job[p].id, msg |-> job[p].msg, slot |-> r]]
              /\ UNCHANGED <<stream, outbox>>
  <2>1. PICK r \in Requests :
              /\ Calls(r, job[p].msg)
              /\ job' = [job EXCEPT ![p] = [at |-> "waiting", id |-> job[p].id, msg |-> job[p].msg, slot |-> r]]
              /\ UNCHANGED <<stream, outbox>>
    BY <1>4
  <2>2. Waits([at |-> "waiting", id |-> job[p].id, msg |-> job[p].msg, slot |-> r])
    BY <1>3, Shapes
  <2>3. JobOK'
    BY <1>1, <2>1, <2>2, JobStep DEF PipeOK
  <2>4. QED
    BY <1>1, <1>3, <2>1, <2>3, PartsStay DEF PipeOK
<1>5. CASE Answered(p) /\ UNCHANGED dbVars
  <2>1. StreamOK' /\ JobOK' /\ OutboxOK'
    BY <1>1, <1>2, <1>5, AnsweredOK DEF PipeOK
  <2>2. UNCHANGED vars
    BY <1>5 DEF dbVars, vars
  <2>3. QED
    BY <1>1, <1>3, <2>1, <2>2, PartsStay DEF PipeOK
<1>6. QED
  BY <1>4, <1>5 DEF Call

LEMMA ServeKeeps ==
    ASSUME PipeOK, NEW r \in Requests, Serve(r) \/ BackendFails(r)
    PROVE  PipeOK'
<1>1. UNCHANGED <<entered, window, poll>>
  BY DEF Serve, BackendFails, webeoc
<1>2. CASE Serve(r) /\ UNCHANGED <<stream, job, outbox>>
  BY <1>1, <1>2, PartsStay DEF PipeOK
<1>3. CASE \E p \in Waiting(r) : Answered(p)
  <2>1. PICK p \in Waiting(r) : Answered(p)
    BY <1>3
  <2>2. p \in Pods /\ job[p] # Free
    BY DEF Waiting, Free
  <2>3. StreamOK' /\ JobOK' /\ OutboxOK'
    BY <1>1, <2>1, <2>2, AnsweredOK DEF PipeOK
  <2>4. QED
    BY <1>1, <2>3, PartsStay DEF PipeOK
<1>4. CASE BackendFails(r)
  <2>1. UNCHANGED <<stream, outbox>>
    BY <1>4 DEF BackendFails, bus
  <2>2. job' = [p \in Pods |-> IF p \in Waiting(r)
                               THEN [at |-> "failed", id |-> job[p].id, msg |-> job[p].msg] ELSE job[p]]
    BY <1>4 DEF BackendFails
  <2>3. ASSUME NEW p \in Pods
        PROVE  job'[p] = Free \/ Working(job'[p]) \/ Waits(job'[p])
    <3>1. CASE p \in Waiting(r)
      <4>1. job[p] # Free
        BY <3>1 DEF Waiting, Free
      <4>2. Honest(job[p].msg)
        BY <4>1, JobMessage DEF PipeOK
      <4>3. Working([at |-> "failed", id |-> job[p].id, msg |-> job[p].msg])
        BY <4>2, Shapes
      <4>4. QED
        BY <2>2, <3>1, <4>3
    <3>2. CASE p \notin Waiting(r)
      BY <2>2, <3>2 DEF PipeOK, JobOK
    <3>3. QED
      BY <3>1, <3>2
  <2>4. DOMAIN job' = Pods
    BY <2>2
  <2>5. Free' = Free
    BY DEF Free
  <2>6. JobOK'
    BY <1>1, <2>3, <2>4, <2>5, SameTruth DEF JobOK
  <2>7. QED
    BY <1>1, <2>1, <2>6, PartsStay DEF PipeOK
<1>5. QED
  BY <1>2, <1>3, <1>4 DEF Serve

\* A notice that nobody waited for, or the end of a pod.
LEMMA PodKeeps ==
    ASSUME PipeOK, NEW p \in Pods, PublishNotice(p) \/ Crash(p)
    PROVE  PipeOK'
<1>1. UNCHANGED <<entered, window>>
  BY DEF PublishNotice, Crash, webeoc
<1>2. CASE PublishNotice(p)
  <2>1. /\ outbox[p] # <<>> /\ Publish(Head(outbox[p]))
        /\ outbox' = [outbox EXCEPT ![p] = Tail(outbox[p])]
        /\ UNCHANGED <<poll, job>>
    BY <1>2 DEF PublishNotice, Publish
  <2>2. PICK S : outbox[p] \in Seq(S)
    BY DEF PipeOK, OutboxOK
  <2>3. \A k \in DOMAIN outbox[p] : Honest(outbox[p][k])
    BY DEF PipeOK, OutboxOK
  <2>4. /\ Head(outbox[p]) = outbox[p][1] /\ 1 \in DOMAIN outbox[p]
        /\ Tail(outbox[p]) \in Seq(S)
        /\ \A k \in DOMAIN Tail(outbox[p]) : k + 1 \in DOMAIN outbox[p] /\ Tail(outbox[p])[k] = outbox[p][k + 1]
    BY <2>1, <2>2
  <2>5. Honest(Head(outbox[p]))
    BY <2>3, <2>4
  <2>6. StreamOK'
    BY <1>1, <2>1, <2>5, PublishOK DEF PipeOK
  <2>7. OutboxOK'
    <3>1. \A k \in DOMAIN Tail(outbox[p]) : Honest(Tail(outbox[p])[k])
      BY <2>3, <2>4
    <3>2. QED
      BY <1>1, <2>1, <2>4, <3>1, OutboxStep DEF PipeOK
  <2>8. QED
    BY <1>1, <2>1, <2>6, <2>7, PartsStay DEF PipeOK
<1>3. CASE Crash(p)
  <2>1. UNCHANGED stream
    BY <1>3 DEF Crash, bus
  <2>2. PollOK'
    <3>1. DOMAIN poll' = Pollers /\ \A w \in Pollers : poll'[w] \in {poll[w], AtRest}
      BY <1>3 DEF Crash
    <3>2. PICK E : E = {}
      OBVIOUS
    <3>3. AtRest = [phase |-> "updates", todo |-> E]
      BY <3>2 DEF AtRest
    <3>4. \A w \in Pollers : \E h, T : poll'[w] = [phase |-> h, todo |-> T] /\ \A m \in T : Honest(m)
      BY <3>1, <3>2, <3>3 DEF PipeOK, PollOK
    <3>5. QED
      BY <1>1, <3>1, <3>4, SameTruth DEF PollOK
  <2>3. JobOK'
    BY <1>1, <1>3, JobStep DEF Crash, PipeOK
  <2>4. OutboxOK'
    <3>1. PICK s : outbox' = [outbox EXCEPT ![p] = s] /\ s = <<>>
      BY <1>3 DEF Crash
    <3>2. s \in Seq({}) /\ \A k \in DOMAIN s : Honest(s[k])
      BY <3>1
    <3>3. QED
      BY <1>1, <3>1, <3>2, OutboxStep DEF PipeOK
  <2>5. QED
    BY <1>1, <2>1, <2>2, <2>3, <2>4, PartsStay DEF PipeOK
<1>4. QED
  BY <1>2, <1>3

----------------------------------------------------------------------------
(* The pipeline uses the staging table through the staging API alone.       *)

LEMMA PipeInit == PipelineInit => PipeOK /\ Init
<1> SUFFICES ASSUME PipelineInit PROVE PipeOK /\ Init
  OBVIOUS
<1>1. Init
  BY DEF PipelineInit, Init, Idle
<1>2. WebeocOK
  BY DEF PipelineInit, WebeocOK, HeldOf
<1>3. PollOK
  <2>1. PICK T : T = {} /\ \A w \in Pollers : poll[w] = [phase |-> "updates", todo |-> T]
    BY DEF PipelineInit, AtRest
  <2>2. \A m \in T : Honest(m)
    BY <2>1
  <2>3. QED
    BY <2>1, <2>2 DEF PipelineInit, PollOK
<1>4. StreamOK
  <2>1. stream \in Seq({}) /\ DOMAIN stream = {}
    BY DEF PipelineInit
  <2>2. QED
    BY <2>1 DEF StreamOK
<1>5. JobOK
  BY DEF PipelineInit, JobOK
<1>6. OutboxOK
  <2>1. DOMAIN outbox = Pods /\ \A p \in Pods : outbox[p] \in Seq({}) /\ DOMAIN outbox[p] = {}
    BY DEF PipelineInit
  <2>2. QED
    BY <2>1 DEF OutboxOK
<1>7. QED
  BY <1>1, <1>2, <1>3, <1>4, <1>5, <1>6 DEF PipeOK

\* What a step of the pipeline is for the staging table: a request that a
\* message leads to, a step of one, its failure, or nothing.
ByMessage(r) == \E m : Honest(m) /\ Calls(r, m)

LEMMA PipeStep ==
    ASSUME PipeOK, [PipelineNext]_pipelineVars
    PROVE  /\ PipeOK'
           /\ \/ UNCHANGED vars
              \/ \E r \in Requests : ByMessage(r) \/ Continue(r) \/ Abort(r)
<1>1. CASE UNCHANGED pipelineVars
  <2>1. UNCHANGED <<entered, window, poll, stream, job, outbox>> /\ UNCHANGED vars
    BY <1>1 DEF pipelineVars, dbVars, webeoc, bus, pods, vars
  <2>2. QED
    BY <2>1, PartsStay DEF PipeOK
<1>2. CASE \E x \in Records : \E c \in Versions(x) : Enter(x, c)
  <2>1. UNCHANGED vars
    BY <1>2 DEF Enter, dbVars, vars
  <2>2. QED
    BY <1>2, <2>1, EnterKeeps
<1>3. CASE Tick \/ Forget \/ Redeliver \/ RedeliverEarly
  <2>1. UNCHANGED vars
    BY <1>3 DEF Tick, Forget, Redeliver, RedeliverEarly, dbVars, vars
  <2>2. QED
    BY <1>3, <2>1, TickKeeps, StreamKeeps
<1>4. ASSUME NEW w \in Pollers, Poll(w) \/ PollFails(w)
      PROVE  PipeOK' /\ UNCHANGED vars
  <2>1. UNCHANGED vars
    BY <1>4 DEF Poll, Fetch, PublishFetched, PollFails, dbVars, vars
  <2>2. QED
    BY <1>4, <2>1, PollKeeps
<1>5. ASSUME NEW p \in Pods, Take(p) \/ Ack(p) \/ AckFails(p) \/ CallFails(p) \/ Nak(p)
      PROVE  PipeOK' /\ UNCHANGED vars
  <2>1. UNCHANGED vars
    BY <1>5 DEF Take, Ack, AckFails, CallFails, Nak, dbVars, vars
  <2>2. QED
    BY <1>5, <2>1, HandlerKeeps
<1>6. ASSUME NEW p \in Pods, PublishNotice(p) \/ Crash(p)
      PROVE  PipeOK' /\ UNCHANGED vars
  <2>1. UNCHANGED vars
    BY <1>6 DEF PublishNotice, Crash, dbVars, vars
  <2>2. QED
    BY <1>6, <2>1, PodKeeps
<1>7. ASSUME NEW p \in Pods, Call(p)
      PROVE  PipeOK' /\ (UNCHANGED vars \/ \E r \in Requests : ByMessage(r))
  BY <1>7, CallKeeps DEF ByMessage
<1>8. ASSUME NEW r \in Requests, Serve(r) \/ BackendFails(r)
      PROVE  PipeOK' /\ (Continue(r) \/ Abort(r))
  BY <1>8, ServeKeeps DEF Serve, BackendFails
<1>9. QED
  BY <1>1, <1>2, <1>3, <1>4, <1>5, <1>6, <1>7, <1>8 DEF PipelineNext, Handler

LEMMA StagingStep ==
    ASSUME PipeOK, [PipelineNext]_pipelineVars
    PROVE  [Next]_vars
BY PipeStep, CallsAreRequests DEF PipeOK, ByMessage, Next

\* Everything under way is true in every reachable state: no message is ever
\* about another record or carries a version that WebEOC has not held for it.
THEOREM UnderWayIsTrue == PipelineSpec => []PipeOK
<1>1. PipeOK /\ [PipelineNext]_pipelineVars => PipeOK'
  BY PipeStep
<1>2. QED
  BY PipeInit, <1>1, PTL DEF PipelineSpec

\* Detailed specification and component: the pipeline, however its pods
\* interleave and fail, does to the backend only what Staging allows, so that
\* what is proved of Staging above holds of the pipeline.
THEOREM PipelineUsesStaging == PipelineSpec => Spec
<1>1. PipeOK /\ [PipelineNext]_pipelineVars => [Next]_vars
  BY StagingStep
<1>2. QED
  BY PipeInit, UnderWayIsTrue, <1>1, PTL DEF PipelineSpec, Spec

----------------------------------------------------------------------------
(* What is staged for a complaint is what WebEOC has held for it.           *)

Hold == [i \in Incidents |-> HeldOf(<<i, 0>>)]
HeldRow(row, hold) == row.activity \in {"INSERT", "EDIT"} => row.content \in hold[row.incident]
HeldReq(v, hold)   == v.step = "save" => HeldRow(v.row, hold)

RowsHeld ==
    /\ \A k \in DOMAIN staging : HeldRow(staging[k], Hold)
    /\ \A r \in Requests : HeldReq(req[r], Hold)

\* The inductive invariant of the pipeline.
PInv == PipeOK /\ IInv /\ RowsHeld

\* WebEOC forgets nothing that it has held.
LEMMA HeldGrows ==
    ASSUME PipeOK, [PipelineNext]_pipelineVars, NEW x \in Records
    PROVE  HeldOf(x) \subseteq HeldOf(x)'
<1>1. CASE UNCHANGED entered
  BY <1>1 DEF HeldOf
<1>2. CASE ~ UNCHANGED entered
  <2>1. PICK y \in Records : \E c \in Versions(y) : Enter(y, c)
    BY <1>2 DEF PipelineNext, pipelineVars, webeoc, Tick, Forget, Redeliver, RedeliverEarly, Poll,
       Fetch, PublishFetched, Handler, Take, Ack, Call, Nak, PublishNotice, PollFails,
       AckFails, CallFails, Crash, Serve, BackendFails
  <2>2. QED
    BY <2>1, EnterHolds DEF PipeOK
<1>3. QED
  BY <1>1, <1>2

\* A row is of an incident, and stays held.
LEMMA HeldKept ==
    ASSUME PipeOK, [PipelineNext]_pipelineVars, NEW row \in Row, HeldRow(row, Hold),
           NEW copy, copy.incident = row.incident, copy.activity = row.activity, copy.content = row.content
    PROVE  HeldRow(copy, Hold')
<1>1. row.incident \in Incidents
  BY DEF Row, ComplaintRow, UpdateRow
<1>2. Hold[row.incident] \subseteq Hold'[row.incident]
  BY <1>1, HeldGrows DEF Hold, Records
<1>3. QED
  BY <1>2 DEF HeldRow

\* The row of a request that a message leads to carries what the message does.
LEMMA HeldRequest ==
    ASSUME WebeocOK, TypeOK, NEW r \in Requests, ByMessage(r)
    PROVE  UNCHANGED staging /\ \E v : req' = [req EXCEPT ![r] = v] /\ HeldReq(v, Hold)
<1>1. PICK m : Honest(m) /\ Calls(r, m)
  BY DEF ByMessage
<1>2. m.record[1] \in Incidents
  BY <1>1, HonestRecord
<1>3. CASE m.subject = "new"
  <2>1. StageComplaint(r, m.record[1], m.content)
    BY <1>1, <1>3 DEF Calls
  <2>2. PICK act, t : req' = [req EXCEPT ![r] = [step |-> "save", row |-> NewRow(m.record[1], act, 0, m.content, t)]]
    BY <2>1 DEF StageComplaint
  <2>3. m.content \in HeldOf(<<m.record[1], 0>>)
    BY <1>1, <1>3, HonestRecord DEF Honest
  <2>4. HeldReq([step |-> "save", row |-> NewRow(m.record[1], act, 0, m.content, t)], Hold)
    BY <1>2, <2>3 DEF HeldReq, HeldRow, Hold, NewRow
  <2> DEFINE v == [step |-> "save", row |-> NewRow(m.record[1], act, 0, m.content, t)]
  <2>5. HeldReq(v, Hold) /\ req' = [req EXCEPT ![r] = v]
    BY <2>2, <2>4
  <2> HIDE DEF v
  <2>6. QED
    BY <2>1, <2>5 DEF StageComplaint
<1>4. CASE m.subject = "update"
  <2>1. StageUpdate(r, m.record[1], m.record[2], m.content)
    BY <1>1, <1>4 DEF Calls
  <2>2. PICK t : req' = [req EXCEPT ![r] =
                            [step |-> "save", row |-> NewRow(m.record[1], "UPDATE", m.record[2], m.content, t)]]
    BY <2>1 DEF StageUpdate
  <2> DEFINE v == [step |-> "save", row |-> NewRow(m.record[1], "UPDATE", m.record[2], m.content, t)]
  <2>3. HeldReq(v, Hold) /\ req' = [req EXCEPT ![r] = v]
    BY <2>2 DEF HeldReq, HeldRow, NewRow
  <2> HIDE DEF v
  <2>4. QED
    BY <2>1, <2>3 DEF StageUpdate
<1>5. CASE m.subject = "staged"
  <2> DEFINE i == m.record[1]
             v(k) == [step |-> "inserting", incident |-> i, picked |-> k, was |-> None]
             w    == [step |-> "edit", incident |-> i, picked |-> 0, was |-> None]
  <2>1. ProcessComplaint(r, i)
    BY <1>1, <1>5 DEF Calls
  <2>2. (\A k : HeldReq(v(k), Hold)) /\ HeldReq(w, Hold)
    BY DEF HeldReq
  <2>3. req' = [req EXCEPT ![r] = w] \/ \E k : req' = [req EXCEPT ![r] = v(k)]
    BY <2>1 DEF ProcessComplaint
  <2> HIDE DEF v, w
  <2>4. QED
    BY <2>1, <2>2, <2>3 DEF ProcessComplaint
<1>6. CASE m.subject = "stagedUpdate"
  <2> DEFINE i == m.record[1]
             n == m.record[2]
             v(k) == [step |-> "updating", incident |-> i, number |-> n, picked |-> k, logged |-> Logged(i, n) # {}]
  <2>1. ProcessUpdate(r, i, n)
    BY <1>1, <1>6 DEF Calls
  <2>2. \A k : HeldReq(v(k), Hold)
    BY DEF HeldReq
  <2>3. \E k : req' = [req EXCEPT ![r] = v(k)]
    BY <2>1 DEF ProcessUpdate
  <2> HIDE DEF v
  <2>4. QED
    BY <2>1, <2>2, <2>3 DEF ProcessUpdate
<1>7. QED
  BY <1>1, <1>3, <1>4, <1>5, <1>6 DEF Honest

\* A request in progress saves its row, or marks rows and saves none.
LEMMA HeldProgress ==
    ASSUME IInv, NEW r \in Requests, Continue(r) \/ Abort(r)
    PROVE  /\ \/ staging' = Append(staging, req[r].row) /\ req[r].step = "save"
              \/ UNCHANGED staging
              \/ \E S, s : s \in Statuses /\ staging' = Marked(S, s)
           /\ \E v : req' = [req EXCEPT ![r] = v] /\ v.step # "save"
<1>1. Idle.step # "save"
  BY DEF Idle
<1>2. CASE Abort(r) \/ Save(r)
  BY <1>1, <1>2 DEF Abort, Save, Finish
<1>3. CASE InsertComplaint(r) \/ InsertRaises(r) \/ SelectEdit(r)
  <2>1. req[r] \in MoveReq
    BY <1>3, StepOfReq DEF IInv, InsertComplaint, InsertRaises, SelectEdit
  <2> DEFINE e       == [req[r] EXCEPT !.step = "edit", !.picked = 0]
             f(k, w) == [req[r] EXCEPT !.step = "editing", !.picked = k, !.was = w]
  <2>2. e.step # "save" /\ \A k, w : f(k, w).step # "save"
    BY <2>1 DEF MoveReq
  <2>3. req' = [req EXCEPT ![r] = e] \/ \E k, w : req' = [req EXCEPT ![r] = f(k, w)]
    BY <1>3 DEF InsertComplaint, InsertRaises, SelectEdit, ToEdit
  <2> HIDE DEF e, f
  <2>4. \E v : req' = [req EXCEPT ![r] = v] /\ v.step # "save"
    BY <2>2, <2>3
  <2>5. UNCHANGED staging \/ \E S, s : s \in Statuses /\ staging' = Marked(S, s)
    BY <1>3 DEF InsertComplaint, InsertRaises, SelectEdit, Statuses
  <2>6. QED
    BY <2>4, <2>5
<1>4. CASE EditComplaint(r) \/ EditRaises(r) \/ ApplyUpdate(r) \/ UpdateRaises(r)
  <2>1. \E v : req' = [req EXCEPT ![r] = v] /\ v.step # "save"
    BY <1>1, <1>4 DEF EditComplaint, EditRaises, ApplyUpdate, UpdateRaises, Finish
  <2>2. \E S, s : s \in Statuses /\ staging' = Marked(S, s)
    BY <1>4 DEF EditComplaint, EditRaises, ApplyUpdate, UpdateRaises, Statuses
  <2>3. QED
    BY <2>1, <2>2
<1>5. QED
  BY <1>2, <1>3, <1>4 DEF Continue

LEMMA HeldStep ==
    ASSUME PInv, [PipelineNext]_pipelineVars
    PROVE  RowsHeld'
<1>1. /\ \A k \in DOMAIN staging : staging[k] \in Row
      /\ \A q \in Requests : req[q].step = "save" => req[q].row \in Row
  BY StepOfReq DEF PInv, IInv, TypeOK, SaveReq
<1>2. \A row, copy : /\ row \in Row /\ HeldRow(row, Hold) /\ copy.incident = row.incident
                     /\ copy.activity = row.activity /\ copy.content = row.content
                     => HeldRow(copy, Hold')
  BY HeldKept DEF PInv
<1>3. ASSUME RowsKept, DOMAIN staging' = DOMAIN staging
      PROVE  \A k \in DOMAIN staging' : HeldRow(staging'[k], Hold')
  BY <1>1, <1>2, <1>3 DEF RowsKept, PInv, RowsHeld
<1>4. \A q \in Requests : HeldReq(req[q], Hold')
  BY <1>1, <1>2 DEF PInv, RowsHeld, HeldReq
<1>5. ASSUME NEW r \in Requests, NEW v, req' = [req EXCEPT ![r] = v], HeldReq(v, Hold')
      PROVE  \A q \in Requests : HeldReq(req'[q], Hold')
  BY <1>4, <1>5 DEF PInv, IInv, TypeOK
<1>6. CASE UNCHANGED vars
  <2>1. \A k \in DOMAIN staging' : HeldRow(staging'[k], Hold')
    BY <1>3, <1>6 DEF vars, RowsKept
  <2>2. \A q \in Requests : HeldReq(req'[q], Hold')
    BY <1>4, <1>6 DEF vars
  <2>3. QED
    BY <2>1, <2>2 DEF RowsHeld
<1>7. ASSUME NEW r \in Requests, ByMessage(r)
      PROVE  RowsHeld'
  <2>1. UNCHANGED staging
    BY <1>7, HeldRequest DEF PInv, PipeOK, IInv
  <2>2. PICK v : req' = [req EXCEPT ![r] = v] /\ HeldReq(v, Hold)
    BY <1>7, HeldRequest DEF PInv, PipeOK, IInv
  <2>3. v.step = "save" => v.row \in Row
    <3>1. IInv'
      BY StagingStep, NextIInv DEF PInv
    <3>2. req'[r] = v
      BY <2>2 DEF PInv, IInv, TypeOK
    <3>3. v \in {Idle} \cup SaveReq \cup MoveReq \cup UpdateReq
      BY <3>1, <3>2 DEF IInv, TypeOK
    <3>4. QED
      BY <3>3 DEF Idle, SaveReq, MoveReq, UpdateReq
  <2>4. HeldReq(v, Hold')
    BY <1>2, <2>2, <2>3 DEF HeldReq
  <2>5. \A k \in DOMAIN staging' : HeldRow(staging'[k], Hold')
    BY <1>3, <2>1 DEF RowsKept
  <2>6. QED
    BY <1>5, <2>2, <2>4, <2>5 DEF RowsHeld
<1>8. ASSUME NEW r \in Requests, Continue(r) \/ Abort(r)
      PROVE  RowsHeld'
  <2>1. PICK v : req' = [req EXCEPT ![r] = v] /\ v.step # "save"
    BY <1>8, HeldProgress DEF PInv
  <2>2. HeldReq(v, Hold')
    BY <2>1 DEF HeldReq
  <2>3. \A k \in DOMAIN staging' : HeldRow(staging'[k], Hold')
    <3>1. CASE staging' = Append(staging, req[r].row) /\ req[r].step = "save"
      <4>1. req[r].row \in Row /\ HeldRow(req[r].row, Hold)
        BY <1>1, <3>1 DEF PInv, RowsHeld, HeldReq
      <4>2. \A k \in DOMAIN staging' : \/ k \in DOMAIN staging /\ staging'[k] = staging[k]
                                       \/ staging'[k] = req[r].row
        BY <3>1, <4>1, AppendOK DEF PInv, IInv
      <4>3. QED
        BY <1>1, <1>2, <4>1, <4>2 DEF PInv, RowsHeld
    <3>2. CASE UNCHANGED staging
      BY <1>3, <3>2 DEF RowsKept
    <3>3. CASE \E S, s : s \in Statuses /\ staging' = Marked(S, s)
      BY <1>3, <3>3, MarkedOK DEF PInv, IInv
    <3>4. QED
      BY <1>8, <3>1, <3>2, <3>3, HeldProgress DEF PInv
  <2>4. QED
    BY <1>5, <2>1, <2>2, <2>3 DEF RowsHeld
<1>9. QED
  BY <1>6, <1>7, <1>8, PipeStep DEF PInv

LEMMA PInvariance == PipelineSpec => []PInv
<1>1. PipelineInit => PInv
  <2>1. PipelineInit => Init /\ PipeOK
    BY PipeInit
  <2>2. Init => RowsHeld
    BY DEF Init, Idle, RowsHeld, HeldReq
  <2>3. QED
    BY <2>1, <2>2, InitIInv DEF PInv
<1>2. PInv /\ [PipelineNext]_pipelineVars => PInv'
  BY PipeStep, StagingStep, NextIInv, HeldStep DEF PInv
<1>3. QED
  BY <1>1, <1>2, PTL DEF PipelineSpec

----------------------------------------------------------------------------
(* End to end. *)

HeldNow == [i \in Incidents |-> Held(i)]

\* What is staged for an incident is among what WebEOC has held for it.
LEMMA SubmittedIsHeld ==
    ASSUME PInv, NEW i \in Incidents
    PROVE  Submitted[i] \subseteq HeldNow[i]
<1>1. ASSUME NEW k \in Rows(i, {"INSERT", "EDIT"})
      PROVE  staging[k].content \in HeldOf(<<i, 0>>)
  <2>1. HeldRow(staging[k], Hold) /\ staging[k].incident = i /\ staging[k].activity \in {"INSERT", "EDIT"}
    BY DEF PInv, RowsHeld, Rows
  <2>2. QED
    BY <2>1 DEF HeldRow, Hold
<1>2. HeldNow[i] = {Detail(c) : c \in HeldOf(<<i, 0>>)}
  BY DEF HeldNow, Held, HeldOf
<1>3. QED
  BY <1>1, <1>2 DEF Submitted

\* A new version of a complaint record is submitted, one of an update is not.
LEMMA EnterIsSubmit ==
    ASSUME PInv, NEW x \in Records, NEW c \in Versions(x), Enter(x, c)
    PROVE  [EndToEnd!Next]_(EndToEnd!vars)
<1>1. UNCHANGED vars
  BY DEF Enter, dbVars, vars
<1>2. [i \in Incidents |-> Content(i)]' = [i \in Incidents |-> Content(i)]
  BY <1>1 DEF vars, Content
<1>3. /\ HeldOf(x)' = HeldOf(x) \cup {c}
      /\ \A y \in Records \ {x} : HeldOf(y)' = HeldOf(y)
  BY EnterHolds DEF PInv, PipeOK
<1>4. \A i \in Incidents : /\ <<i, 0>> \in Records
                           /\ HeldNow[i] = {Detail(v) : v \in HeldOf(<<i, 0>>)}
                           /\ HeldNow'[i] = {Detail(v) : v \in HeldOf(<<i, 0>>)'}
  BY DEF HeldNow, Held, HeldOf, Records
<1>5. CASE x[2] = 0
  <2>1. x = <<x[1], 0>> /\ x[1] \in Incidents /\ c \in Contents
    BY <1>5 DEF Records, Versions
  <2>2. \A i \in Incidents : HeldNow'[i] = IF i = x[1] THEN HeldNow[i] \cup {Detail(c)} ELSE HeldNow[i]
    <3>1. \A i \in Incidents : (<<i, 0>> = x) <=> (i = x[1])
      BY <2>1
    <3>2. \A i \in Incidents \ {x[1]} : HeldOf(<<i, 0>>)' = HeldOf(<<i, 0>>)
      BY <1>3, <1>4, <3>1
    <3>3. HeldOf(<<x[1], 0>>)' = HeldOf(<<x[1], 0>>) \cup {c}
      BY <1>3, <2>1
    <3>4. HeldNow'[x[1]] = HeldNow[x[1]] \cup {Detail(c)}
      BY <1>4, <2>1, <3>3
    <3>5. QED
      BY <1>4, <3>2, <3>4
  <2>3. HeldNow' = [HeldNow EXCEPT ![x[1]] = HeldNow[x[1]] \cup {Detail(c)}]
    BY <2>1, <2>2 DEF HeldNow
  <2>4. EndToEnd!Submit(x[1], Detail(c))
    BY <1>2, <2>3 DEF EndToEnd!Submit, HeldNow
  <2>5. QED
    BY <2>1, <2>4 DEF EndToEnd!Next
<1>6. CASE x[2] # 0
  <2>1. \A i \in Incidents : <<i, 0>> # x
    BY <1>6
  <2>2. \A i \in Incidents : HeldNow'[i] = HeldNow[i]
    BY <1>3, <1>4, <2>1
  <2>3. HeldNow' = HeldNow
    BY <2>2 DEF HeldNow
  <2>4. QED
    BY <1>2, <2>3 DEF EndToEnd!vars, HeldNow
<1>7. QED
  BY <1>5, <1>6

\* A step that WebEOC has no part in shows what it has held, or nothing new.
LEMMA OtherIsShow ==
    ASSUME PInv, [PipelineNext]_pipelineVars, UNCHANGED entered
    PROVE  [EndToEnd!Next]_(EndToEnd!vars)
<1>1. HeldNow' = HeldNow
  BY DEF HeldNow, Held
<1>2. [Feed!Next]_(Feed!vars)
  BY StagingStep, FeedStep DEF PInv
<1>3. CASE Shown' = Shown
  BY <1>1, <1>3 DEF EndToEnd!vars, HeldNow, Shown
<1>4. ASSUME NEW i \in Incidents, NEW c \in {Detail(d) : d \in Contents}, Feed!Create(i, c)
      PROVE  EndToEnd!Next
  <2>1. c \in Submitted[i] /\ Shown[i] = None /\ Shown' = [Shown EXCEPT ![i] = c]
    BY <1>4 DEF Feed!Create, Submitted, Shown
  <2>2. c \in HeldNow[i]
    BY <2>1, SubmittedIsHeld
  <2>3. EndToEnd!Create(i, c)
    BY <1>1, <2>1, <2>2 DEF EndToEnd!Create, HeldNow, Shown
  <2>4. QED
    BY <2>3 DEF EndToEnd!Next
<1>5. ASSUME NEW i \in Incidents, NEW c \in {Detail(d) : d \in Contents}, NEW F \in SUBSET Fields,
             Feed!Revise(i, c, F)
      PROVE  EndToEnd!Next
  <2>1. /\ c \in Submitted[i] /\ Shown[i] # None
        /\ Shown' = [Shown EXCEPT ![i] = [f \in Fields |-> IF f \in F THEN c[f] ELSE @[f]]]
    BY <1>5 DEF Feed!Revise, Submitted, Shown
  <2>2. c \in HeldNow[i]
    BY <2>1, SubmittedIsHeld
  <2>3. EndToEnd!Revise(i, c, F)
    BY <1>1, <2>1, <2>2 DEF EndToEnd!Revise, HeldNow, Shown
  <2>4. QED
    BY <2>3 DEF EndToEnd!Next
<1>6. CASE \E i \in Incidents, c \in {Detail(d) : d \in Contents} : Feed!Submit(i, c)
  BY <1>3, <1>6 DEF Feed!Submit, Shown
<1>7. CASE UNCHANGED Feed!vars
  BY <1>3, <1>7 DEF Feed!vars, Shown
<1>8. QED
  BY <1>2, <1>4, <1>5, <1>6, <1>7 DEF Feed!Next

\* Only WebEOC adds to what it has held.
LEMMA EndToEndStep ==
    ASSUME PInv, [PipelineNext]_pipelineVars
    PROVE  [EndToEnd!Next]_(EndToEnd!vars)
<1>1. CASE UNCHANGED entered
  BY <1>1, OtherIsShow
<1>2. CASE ~ UNCHANGED entered
  <2>1. PICK y \in Records : \E c \in Versions(y) : Enter(y, c)
    BY <1>2 DEF PipelineNext, pipelineVars, webeoc, Tick, Forget, Redeliver, RedeliverEarly, Poll,
       Fetch, PublishFetched, Handler, Take, Ack, Call, Nak, PublishNotice, PollFails,
       AckFails, CallFails, Crash, Serve, BackendFails
  <2>2. QED
    BY <2>1, EnterIsSubmit
<1>3. QED
  BY <1>1, <1>2

\* The pipeline implements ComplaintFeed: whatever is published twice,
\* redelivered, lost or crashed, by however many pods, a complaint shows only
\* what WebEOC has held for its incident and never goes.
THEOREM ShowsWhatWebeocHeldThm == PipelineSpec => ShowsWhatWebeocHeld
<1>1. ASSUME PipelineInit
      PROVE  EndToEnd!Init
  <2>1. \A i \in Incidents : Held(i) = {} /\ Content(i) = None
    <3>1. \A i \in Incidents : entered[<<i, 0>>] = <<>>
      BY <1>1 DEF PipelineInit, Records
    <3>2. ASSUME NEW i \in Incidents PROVE Held(i) = {}
      <4>1. DOMAIN entered[<<i, 0>>] = {}
        BY <3>1
      <4>2. QED
        BY <4>1 DEF Held
    <3>3. \A i \in Incidents : complaint[i] = None
      BY <1>1 DEF PipelineInit, Init
    <3>4. QED
      BY <3>2, <3>3 DEF Content
  <2>2. QED
    BY <2>1 DEF EndToEnd!Init
<1>2. PInv /\ [PipelineNext]_pipelineVars => [EndToEnd!Next]_(EndToEnd!vars)
  BY EndToEndStep
<1>3. QED
  BY <1>1, <1>2, PInvariance, PTL DEF PipelineSpec, ShowsWhatWebeocHeld, EndToEnd!Spec

----------------------------------------------------------------------------
\* The new id of a message is one that no message in the stream and no handler has.
LEMMA LeastId ==
    ASSUME NEW S \in SUBSET Nat, S # {}
    PROVE  \E n \in S : \A m \in S : n <= m
<1>1. \E n \in S : \A m \in S : ~ (<<m, n>> \in OpToRel(<, Nat))
  BY NatLessThanWellFounded, WFMin
<1>2. \A m, n \in Nat : <<m, n>> \in OpToRel(<, Nat) <=> m < n
  BY DEF OpToRel
<1>3. PICK n \in S : \A m \in S : ~ (<<m, n>> \in OpToRel(<, Nat))
  BY <1>1
<1>4. ASSUME NEW m \in S PROVE n <= m
  <2>1. m \in Nat /\ n \in Nat
    OBVIOUS
  <2>2. ~ (m < n)
    BY <1>2, <1>3, <2>1
  <2>3. QED
    BY <2>1, <2>2
<1>5. QED
  BY <1>4

LEMMA NewIdIsFree ==
    ASSUME StreamOK, Len(stream) < MaxStream
    PROVE  NewId \in Ids \ UsedIds
<1> DEFINE A == {stream[k].id : k \in DOMAIN stream}
           Q == {q \in Pods : job[q] # Free}
           B == {job[q].id : q \in Q}
<1>1. /\ DOMAIN stream = 1..Len(stream) /\ Len(stream) \in Nat /\ MaxStream \in Nat
      /\ IsFiniteSet(Pods) /\ Cardinality(Pods) \in Nat
  BY PipelineAssumption, FS_CardinalityType DEF StreamOK
<1>2. IsFiniteSet(A) /\ Cardinality(A) <= Len(stream)
  <2>1. [k \in 1..Len(stream) |-> stream[k].id] \in Surjection(1..Len(stream), A)
    BY <1>1 DEF Surjection
  <2>2. IsFiniteSet(1..Len(stream)) /\ Cardinality(1..Len(stream)) = Len(stream)
    <3>1. ASSUME NEW n \in Nat
          PROVE  IsFiniteSet(1..n) /\ Cardinality(1..n) = n
      <4>1. IsFiniteSet(1..n) /\ Cardinality(1..n) = IF 1 > n THEN 0 ELSE n - 1 + 1
        BY FS_Interval
      <4>2. QED
        BY <4>1
    <3>2. QED
      BY <1>1, <3>1
  <2> HIDE DEF A
  <2>3. PICK S : S = 1..Len(stream)
    OBVIOUS
  <2>4. PICK f \in Surjection(S, A) : TRUE
    BY <2>1, <2>3
  <2>5. IsFiniteSet(A) /\ Cardinality(A) <= Cardinality(S)
    BY <2>2, <2>3, <2>4, FS_Surjection
  <2>6. QED
    BY <2>2, <2>3, <2>5
<1>3. IsFiniteSet(B) /\ Cardinality(B) <= Cardinality(Pods)
  <2>1. [q \in Q |-> job[q].id] \in Surjection(Q, B)
    BY DEF Surjection
  <2>2. IsFiniteSet(Q) /\ Cardinality(Q) <= Cardinality(Pods) /\ Q \subseteq Pods
    <3>1. Q \in SUBSET Pods
      OBVIOUS
    <3> HIDE DEF Q
    <3>2. QED
      BY <1>1, <3>1, FS_Subset
  <2> HIDE DEF B, Q
  <2>3. IsFiniteSet(B) /\ Cardinality(B) <= Cardinality(Q)
    BY <2>1, <2>2, FS_Surjection
  <2>4. Cardinality(B) \in Nat /\ Cardinality(Q) \in Nat
    BY <2>2, <2>3, FS_CardinalityType
  <2>5. QED
    BY <1>1, <2>2, <2>3, <2>4
<1>4. IsFiniteSet(UsedIds) /\ Cardinality(UsedIds) <= Len(stream) + Cardinality(Pods)
  <2>1. UsedIds = A \cup B
    BY DEF UsedIds
  <2> HIDE DEF A, B, Q
  <2>2. /\ IsFiniteSet(A \cup B)
        /\ Cardinality(A \cup B) = Cardinality(A) + Cardinality(B) - Cardinality(A \cap B)
    BY <1>2, <1>3, FS_Union
  <2>3. IsFiniteSet(A \cap B)
    <3>1. A \cap B \in SUBSET A
      OBVIOUS
    <3>2. QED
      BY <1>2, <3>1, FS_Subset
  <2>4. Cardinality(A) \in Nat /\ Cardinality(B) \in Nat /\ Cardinality(A \cap B) \in Nat
    BY <1>2, <1>3, <2>3, FS_CardinalityType
  <2>5. QED
    BY <1>1, <1>2, <1>3, <2>1, <2>2, <2>4
<1>5. Ids \ UsedIds # {}
  <2>1. SUFFICES ASSUME Ids \subseteq UsedIds
                 PROVE  FALSE
    OBVIOUS
  <2>2. Cardinality(Ids) = MaxStream + Cardinality(Pods)
    BY <1>1, FS_Interval DEF Ids
  <2>3. Ids \in SUBSET UsedIds
    BY <2>1
  <2>4. Cardinality(Ids) <= Cardinality(UsedIds) /\ Cardinality(UsedIds) \in Nat
    BY <1>4, <2>3, FS_Subset, FS_CardinalityType
  <2>5. QED
    BY <1>1, <1>4, <2>2, <2>4
<1>6. Ids \ UsedIds \in SUBSET Nat
  BY DEF Ids
<1>7. QED
  BY <1>5, <1>6, LeastId DEF NewId

----------------------------------------------------------------------------
(* Types of the pipeline.                                                   *)

TypedEntries == [id : Ids, msg : Messages, state : {"ready", "taken", "later"}]

LEMMA InStateTyped ==
    ASSUME stream \in Seq(TypedEntries), NEW n, NEW st \in {"ready", "taken", "later"}
    PROVE  InState(n, st) \in Seq(TypedEntries)
<1>1. \A e \in TypedEntries : [e EXCEPT !.state = st] \in TypedEntries
  BY DEF TypedEntries
<1>2. QED
  BY <1>1 DEF InState

LEMMA WithoutTyped ==
    ASSUME stream \in Seq(TypedEntries), NEW n
    PROVE  Without(n) \in Seq(TypedEntries)
<1>1. DOMAIN stream = 1..Len(stream) /\ Len(stream) \in Nat
  OBVIOUS
<1>2. ASSUME NEW k \in DOMAIN stream
      PROVE  [j \in 1..(Len(stream) - 1) |-> IF j < k THEN stream[j] ELSE stream[j + 1]] \in Seq(TypedEntries)
  <2>1. Len(stream) - 1 \in Nat
    BY <1>1
  <2>2. \A j \in 1..(Len(stream) - 1) : (IF j < k THEN stream[j] ELSE stream[j + 1]) \in TypedEntries
    BY <1>1
  <2>3. QED
    BY <2>1, <2>2
<1>3. Entries(n) # {} => (CHOOSE k \in Entries(n) : TRUE) \in DOMAIN stream
  BY DEF Entries
<1>4. QED
  BY <1>2, <1>3 DEF Without

LEMMA PublishTyped ==
    ASSUME PipelineTypeOK, StreamOK, NEW m \in Messages, Publish(m)
    PROVE  stream' \in Seq(TypedEntries) /\ recent' \subseteq Subjects \X Records
<1>1. stream \in Seq(TypedEntries) /\ recent \subseteq Subjects \X Records
  BY DEF PipelineTypeOK, TypedEntries
<1>2. CASE Stored(m)
  <2>1. NewId \in Ids
    BY <1>2, NewIdIsFree DEF Stored
  <2>2. [id |-> NewId, msg |-> m, state |-> "ready"] \in TypedEntries
    BY <2>1 DEF TypedEntries
  <2>3. MsgId(m) \in Subjects \X Records
    BY DEF MsgId, Messages
  <2>4. QED
    BY <1>1, <1>2, <2>2, <2>3 DEF Stored
<1>3. CASE Duplicate(m)
  BY <1>1, <1>3 DEF Duplicate, bus
<1>4. QED
  BY <1>2, <1>3 DEF Publish

\* What a handler at work may become.
LEMMA JobTyped ==
    ASSUME PipelineTypeOK, NEW p \in Pods, job[p] # Free
    PROVE  /\ job[p].id \in Ids /\ job[p].msg \in Messages
           /\ \A at \in {"acking", "calling", "failed"} : [at |-> at, id |-> job[p].id, msg |-> job[p].msg] \in Busy
           /\ \A r \in Requests : [at |-> "waiting", id |-> job[p].id, msg |-> job[p].msg, slot |-> r] \in Served
<1>1. job[p] \in Busy \/ job[p] \in Served
  BY DEF PipelineTypeOK
<1>2. job[p].id \in Ids /\ job[p].msg \in Messages
  BY <1>1 DEF Busy, Served
<1>3. QED
  BY <1>2 DEF Busy, Served

\* What is fetched are messages: only a record that was entered is recent.
LEMMA FetchedTyped ==
    ASSUME PipelineTypeOK, WebeocOK, NEW S \in SUBSET Records, NEW subject \in Subjects
    PROVE  Fetched(S, subject) \in SUBSET Messages
<1> SUFFICES ASSUME NEW x \in S, window[x] > 0
             PROVE  Msg(subject, x, Latest(entered[x])) \in Messages
  BY DEF Fetched
<1>1. entered[x] \in Seq(Contents \cup UpdateContents) /\ entered[x] # <<>>
  BY DEF PipelineTypeOK, WebeocOK
<1>2. Latest(entered[x]) \in Contents \cup UpdateContents
  BY <1>1 DEF Latest
<1>3. QED
  BY <1>2 DEF Msg, Messages

\* The answer of the backend.
LEMMA AnsweredTyped ==
    ASSUME PipelineTypeOK, NEW p \in Pods, job[p] # Free, Answered(p)
    PROVE  /\ job' \in [Pods -> {Free} \cup Busy \cup Served]
           /\ outbox' \in [Pods -> Seq(Messages)]
           /\ stream' \in Seq(TypedEntries)
<1>1. /\ job \in [Pods -> {Free} \cup Busy \cup Served] /\ outbox \in [Pods -> Seq(Messages)]
      /\ stream \in Seq(TypedEntries)
  BY DEF PipelineTypeOK, TypedEntries
<1>2. job' = [job EXCEPT ![p] = Free]
  BY DEF Answered
<1>3. Notice(job[p].msg) \in Messages
  <2>1. job[p].msg.record \in Records
    BY JobTyped DEF Messages
  <2>2. QED
    BY <2>1 DEF Notice, Msg, Messages, Subjects
<1>4. CASE job[p].msg.subject \in {"new", "update"}
  <2>1. outbox' = [outbox EXCEPT ![p] = Append(outbox[p], Notice(job[p].msg))] /\ UNCHANGED stream
    BY <1>4 DEF Answered
  <2>2. Append(outbox[p], Notice(job[p].msg)) \in Seq(Messages)
    BY <1>1, <1>3
  <2>3. QED
    BY <1>1, <1>2, <2>1, <2>2
<1>5. CASE job[p].msg.subject \notin {"new", "update"}
  <2>1. stream' = Without(job[p].id) /\ UNCHANGED outbox
    BY <1>5 DEF Answered
  <2>2. QED
    BY <1>1, <1>2, <2>1, WithoutTyped
<1>6. QED
  BY <1>4, <1>5

\* The parts that are no part of WebEOC or of the backend.
Parts ==
    /\ poll \in [Pollers -> [phase : Phases, todo : SUBSET Messages]]
    /\ stream \in Seq(TypedEntries)
    /\ recent \subseteq Subjects \X Records
    /\ job \in [Pods -> {Free} \cup Busy \cup Served]
    /\ outbox \in [Pods -> Seq(Messages)]
    /\ dropped \subseteq Records
    /\ faults \in 0..MaxFaults

LEMMA FaultTyped == ASSUME PipelineTypeOK, Fault PROVE faults' \in 0..MaxFaults
BY PipelineAssumption DEF PipelineTypeOK, Fault

LEMMA PollTyped ==
    ASSUME PipelineTypeOK, PipeOK, NEW w \in Pollers, Poll(w) \/ PollFails(w)
    PROVE  Parts'
<1>1. Parts
  BY DEF PipelineTypeOK, Parts, TypedEntries
<1>2. AtRest \in [phase : Phases, todo : SUBSET Messages]
  BY DEF AtRest, Phases
<1>3. CASE Fetch(w)
  <2>1. PICK ph \in Phases, S \in SUBSET Messages : poll' = [poll EXCEPT ![w] = [phase |-> ph, todo |-> S]]
    <3>1. Fetched(Complaints, "new") \in SUBSET Messages
      BY FetchedTyped DEF PipeOK, Complaints, Records, Subjects
    <3>2. Fetched(Records \ Complaints, "update") \in SUBSET Messages
      BY FetchedTyped DEF PipeOK, Subjects
    <3>3. QED
      BY <1>3, <3>1, <3>2 DEF Fetch, Phases
  <2>2. QED
    BY <1>1, <1>3, <2>1 DEF Fetch, Parts, bus, dbVars
<1>4. CASE PublishFetched(w)
  <2>1. PICK m \in poll[w].todo : Publish(m) /\ poll' = [poll EXCEPT ![w].todo = poll[w].todo \ {m}]
    BY <1>4 DEF PublishFetched
  <2>2. poll[w] \in [phase : Phases, todo : SUBSET Messages] /\ m \in Messages
    BY <1>1, <2>1 DEF Parts
  <2>3. poll' \in [Pollers -> [phase : Phases, todo : SUBSET Messages]]
    BY <1>1, <2>1, <2>2 DEF Parts
  <2>4. QED
    BY <1>1, <1>4, <2>1, <2>2, <2>3, PublishTyped DEF PublishFetched, Parts, PipeOK
<1>5. CASE PollFails(w)
  <2>1. PICK ph \in Phases : poll' = [poll EXCEPT ![w] = [phase |-> ph, todo |-> {}]]
    BY <1>5 DEF PollFails, Phases
  <2>2. QED
    BY <1>1, <1>5, <2>1, FaultTyped DEF PollFails, Parts, bus, dbVars
<1>6. QED
  BY <1>3, <1>4, <1>5 DEF Poll

LEMMA HandlerTyped ==
    ASSUME PipelineTypeOK, NEW p \in Pods,
           Take(p) \/ Ack(p) \/ AckFails(p) \/ CallFails(p) \/ Nak(p)
    PROVE  Parts'
<1>1. Parts
  BY DEF PipelineTypeOK, Parts, TypedEntries
<1>2. CASE Take(p)
  <2>1. PICK k \in DOMAIN stream :
           /\ stream' = InState(stream[k].id, "taken")
           /\ job' = [job EXCEPT ![p] =
                         [at  |-> IF stream[k].msg.subject \in {"new", "update"} THEN "acking" ELSE "calling",
                          id  |-> stream[k].id, msg |-> stream[k].msg]]
    BY <1>2 DEF Take
  <2>2. stream[k].id \in Ids /\ stream[k].msg \in Messages
    <3>1. stream[k] \in TypedEntries
      BY <1>1 DEF Parts
    <3>2. QED
      BY <3>1 DEF TypedEntries
  <2>3. \A at \in {"acking", "calling"} : [at |-> at, id |-> stream[k].id, msg |-> stream[k].msg] \in Busy
    BY <2>2 DEF Busy
  <2>4. job' \in [Pods -> {Free} \cup Busy \cup Served]
    BY <1>1, <2>1, <2>3 DEF Parts
  <2>5. stream' \in Seq(TypedEntries)
    BY <1>1, <2>1, InStateTyped DEF Parts
  <2>6. QED
    BY <1>1, <1>2, <2>4, <2>5 DEF Take, Parts
<1>3. CASE Ack(p)
  <2>1. job[p] # Free /\ job[p] \in Busy
    BY <1>1, <1>3 DEF Ack, Parts, Free, Served
  <2>2. job' = [job EXCEPT ![p] = [job[p] EXCEPT !.at = "calling"]]
    BY <1>3 DEF Ack
  <2>3. [job[p] EXCEPT !.at = "calling"] \in Busy
    BY <2>1 DEF Busy
  <2>4. stream' \in Seq(TypedEntries)
    BY <1>1, <1>3, WithoutTyped DEF Ack, Parts
  <2>5. QED
    BY <1>1, <1>3, <2>2, <2>3, <2>4 DEF Ack, Parts
<1>4. CASE AckFails(p)
  <2>1. stream' \in Seq(TypedEntries)
    BY <1>1, <1>4, WithoutTyped DEF AckFails, Parts
  <2>2. QED
    BY <1>1, <1>4, <2>1, FaultTyped DEF AckFails, Parts
<1>5. CASE CallFails(p)
  <2>1. job[p] # Free
    BY <1>5 DEF CallFails, Free
  <2>2. job' = [job EXCEPT ![p] = [at |-> "failed", id |-> job[p].id, msg |-> job[p].msg]]
    BY <1>5 DEF CallFails
  <2>3. job' \in [Pods -> {Free} \cup Busy \cup Served]
    BY <1>1, <2>1, <2>2, JobTyped DEF Parts
  <2>4. QED
    BY <1>1, <1>5, <2>3, FaultTyped DEF CallFails, Parts, bus
<1>6. CASE Nak(p)
  <2>1. stream' \in Seq(TypedEntries)
    BY <1>1, <1>6, InStateTyped DEF Nak, Parts
  <2>2. QED
    BY <1>1, <1>6, <2>1 DEF Nak, Parts
<1>7. QED
  BY <1>2, <1>3, <1>4, <1>5, <1>6

LEMMA RequestTyped ==
    ASSUME PipelineTypeOK,
           \/ \E p \in Pods : Call(p)
           \/ \E r \in Requests : Serve(r) \/ BackendFails(r)
    PROVE  Parts'
<1>1. Parts
  BY DEF PipelineTypeOK, Parts, TypedEntries
<1>2. ASSUME NEW p \in Pods, Call(p)
      PROVE  Parts'
  <2>1. job[p] # Free
    BY <1>2 DEF Call, Free
  <2>2. ASSUME NEW r \in Requests,
               job' = [job EXCEPT ![p] = [at |-> "waiting", id |-> job[p].id, msg |-> job[p].msg, slot |-> r]],
               UNCHANGED <<stream, outbox>>
        PROVE  Parts'
    <3>1. job' \in [Pods -> {Free} \cup Busy \cup Served]
      BY <1>1, <2>1, <2>2, JobTyped DEF Parts
    <3>2. QED
      BY <1>1, <1>2, <2>2, <3>1 DEF Call, Parts
  <2>3. CASE Answered(p)
    BY <1>1, <1>2, <2>1, <2>3, AnsweredTyped DEF Call, Parts
  <2>4. QED
    BY <1>2, <2>2, <2>3 DEF Call
<1>3. ASSUME NEW r \in Requests, Serve(r)
      PROVE  Parts'
  <2>1. CASE \E p \in Waiting(r) : Answered(p)
    <3>1. PICK p \in Pods : job[p].at = "waiting" /\ Answered(p)
      BY <2>1 DEF Waiting
    <3>2. job[p] # Free
      BY <3>1 DEF Free
    <3>3. QED
      BY <1>1, <1>3, <3>1, <3>2, AnsweredTyped DEF Serve, Parts
  <2>2. CASE UNCHANGED <<stream, job, outbox>>
    BY <1>1, <1>3, <2>2 DEF Serve, Parts
  <2>3. QED
    BY <1>3, <2>1, <2>2 DEF Serve
<1>4. ASSUME NEW r \in Requests, BackendFails(r)
      PROVE  Parts'
  <2>1. ASSUME NEW p \in Waiting(r)
        PROVE  p \in Pods /\ [at |-> "failed", id |-> job[p].id, msg |-> job[p].msg] \in Busy
    <3>1. p \in Pods /\ job[p].at = "waiting"
      BY <2>1 DEF Waiting
    <3>2. job[p] # Free
      BY <3>1 DEF Free
    <3>3. QED
      BY <3>1, <3>2, JobTyped
  <2>2. job' \in [Pods -> {Free} \cup Busy \cup Served]
    BY <1>1, <1>4, <2>1 DEF BackendFails, Parts
  <2>3. QED
    BY <1>1, <1>4, <2>2, FaultTyped DEF BackendFails, Parts, bus
<1>5. QED
  BY <1>2, <1>3, <1>4

LEMMA StreamTyped ==
    ASSUME PipelineTypeOK, PipeOK,
           \/ Forget \/ Redeliver \/ RedeliverEarly
           \/ \E p \in Pods : PublishNotice(p) \/ Crash(p)
    PROVE  Parts'
<1>1. Parts
  BY DEF PipelineTypeOK, Parts, TypedEntries
<1>2. CASE Forget
  BY <1>1, <1>2 DEF Forget, Parts, pods
<1>3. CASE Redeliver
  <2>1. stream' \in Seq(TypedEntries)
    BY <1>1, <1>3, InStateTyped DEF Redeliver, Parts
  <2>2. QED
    BY <1>1, <1>3, <2>1 DEF Redeliver, Parts, pods
<1>4. CASE RedeliverEarly
  <2>1. stream' \in Seq(TypedEntries)
    BY <1>1, <1>4, InStateTyped DEF RedeliverEarly, Parts
  <2>2. QED
    BY <1>1, <1>4, <2>1, FaultTyped DEF RedeliverEarly, Parts, pods
<1>5. ASSUME NEW p \in Pods, PublishNotice(p)
      PROVE  Parts'
  <2>1. outbox[p] \in Seq(Messages) /\ outbox[p] # <<>>
    BY <1>1, <1>5 DEF PublishNotice, Parts
  <2>2. Head(outbox[p]) \in Messages /\ Tail(outbox[p]) \in Seq(Messages)
    BY <2>1
  <2>3. outbox' \in [Pods -> Seq(Messages)]
    BY <1>1, <1>5, <2>2 DEF PublishNotice, Parts
  <2>4. Publish(Head(outbox[p])) /\ dropped' \subseteq Records
    BY <1>1, <1>5, <2>2 DEF PublishNotice, Publish, Messages, Parts
  <2>5. QED
    BY <1>1, <1>5, <2>2, <2>3, <2>4, PublishTyped DEF PublishNotice, Parts, PipeOK
<1>6. ASSUME NEW p \in Pods, Crash(p)
      PROVE  Parts'
  <2>1. AtRest \in [phase : Phases, todo : SUBSET Messages] /\ <<>> \in Seq(Messages)
    BY DEF AtRest, Phases
  <2>2. QED
    BY <1>1, <1>6, <2>1, FaultTyped DEF Crash, Parts, bus
<1>7. QED
  BY <1>2, <1>3, <1>4, <1>5, <1>6

LEMMA TypesStep ==
    ASSUME PInv, PInv', PipelineTypeOK, [PipelineNext]_pipelineVars
    PROVE  PipelineTypeOK'
<1>1. Parts /\ PipeOK
  BY DEF PipelineTypeOK, Parts, TypedEntries, PInv
<1>2. window' \in [Records -> 0..HistoryTicks + 1] /\ Parts'
  <2>1. window \in [Records -> 0..HistoryTicks + 1] /\ HistoryTicks \in Nat
    BY PipelineAssumption DEF PipelineTypeOK
  <2>2. CASE UNCHANGED pipelineVars
    BY <1>1, <2>1, <2>2 DEF pipelineVars, webeoc, bus, pods, Parts
  <2>3. CASE \E x \in Records : \E c \in Versions(x) : Enter(x, c)
    BY <1>1, <2>1, <2>3 DEF Enter, bus, pods, Parts
  <2>4. CASE Tick
    <3>1. window' \in [Records -> 0..HistoryTicks + 1]
      BY <2>1, <2>4 DEF Tick
    <3>2. poll' \in [Pollers -> [phase : Phases, todo : SUBSET Messages]]
      BY <1>1, <2>4 DEF Tick, Phases, Parts
    <3>3. QED
      BY <1>1, <2>4, <3>1, <3>2 DEF Tick, Parts
  <2>5. CASE Forget \/ Redeliver \/ RedeliverEarly \/ \E p \in Pods : PublishNotice(p) \/ Crash(p)
    <3>1. UNCHANGED window
      BY <2>5 DEF Forget, Redeliver, RedeliverEarly, PublishNotice, Crash, webeoc
    <3>2. QED
      BY <1>1, <2>1, <2>5, <3>1, StreamTyped
  <2>6. ASSUME NEW w \in Pollers, Poll(w) \/ PollFails(w)
        PROVE  window' \in [Records -> 0..HistoryTicks + 1] /\ Parts'
    <3>1. UNCHANGED window
      BY <2>6 DEF Poll, Fetch, PublishFetched, PollFails, webeoc
    <3>2. QED
      BY <1>1, <2>1, <2>6, <3>1, PollTyped
  <2>7. ASSUME NEW p \in Pods, Take(p) \/ Ack(p) \/ AckFails(p) \/ CallFails(p) \/ Nak(p)
        PROVE  window' \in [Records -> 0..HistoryTicks + 1] /\ Parts'
    <3>1. UNCHANGED window
      BY <2>7 DEF Take, Ack, AckFails, CallFails, Nak, webeoc
    <3>2. QED
      BY <2>1, <2>7, <3>1, HandlerTyped
  <2>8. CASE \/ \E p \in Pods : Call(p)
             \/ \E r \in Requests : Serve(r) \/ BackendFails(r)
    <3>1. UNCHANGED window
      BY <2>8 DEF Call, Serve, BackendFails, webeoc
    <3>2. QED
      BY <2>1, <2>8, <3>1, RequestTyped
  <2>9. QED
    BY <2>2, <2>3, <2>4, <2>5, <2>6, <2>7, <2>8 DEF PipelineNext, Handler
<1>3. TypeOK' /\ entered' \in [Records -> Seq(Contents \cup UpdateContents)]
  BY DEF PInv, IInv, PipeOK, WebeocOK
<1>4. QED
  BY <1>2, <1>3 DEF PipelineTypeOK, Parts, TypedEntries

\* Types hold for any number of pods, and whatever fails: there is always an id
\* for the next message, and only versions of records are under way.
THEOREM PipelineTypeCorrect == PipelineSpec => []PipelineTypeOK
<1>1. PipelineInit => PipelineTypeOK
  <2> SUFFICES ASSUME PipelineInit PROVE PipelineTypeOK
    OBVIOUS
  <2>1. TypeOK
    BY PipeInit, InitIInv DEF IInv
  <2>2. Parts
    BY PipelineAssumption DEF PipelineInit, Parts, AtRest, Phases
  <2>3. entered \in [Records -> Seq(Contents \cup UpdateContents)] /\ window \in [Records -> 0..HistoryTicks + 1]
    BY PipelineAssumption DEF PipelineInit
  <2>4. QED
    BY <2>1, <2>2, <2>3 DEF PipelineTypeOK, Parts, TypedEntries
<1>2. PInv /\ PInv' /\ PipelineTypeOK /\ [PipelineNext]_pipelineVars => PipelineTypeOK'
  BY TypesStep
<1>3. QED
  BY <1>1, <1>2, PInvariance, PTL DEF PipelineSpec

----------------------------------------------------------------------------
(* The notice of a PENDING complaint.  As long as nothing fails, a message  *)
(* belongs to the one handler that has taken it, a request to the one       *)
(* handler that waits for it, and every row that the procedures have still  *)
(* to move has a notice that has not been used up: in an outbox, or in the  *)
(* stream and not at work beyond the statement that would move the row.     *)

Works(p)      == p \in Pods /\ job[p] # Free
WaitsFor(p, r) == Works(p) /\ job[p].at = "waiting" /\ job[p].slot = r

IdsDiffer == \A j, k \in DOMAIN stream : stream[j].id = stream[k].id => j = k
Taken ==
    /\ IdsDiffer
    /\ \A p : Works(p) =>
         /\ job[p].at # "failed"
         /\ job[p].at = "acking" => job[p].msg.subject \in {"new", "update"}
         /\ \A k \in DOMAIN stream : stream[k].id = job[p].id =>
               stream[k].state = "taken" /\ stream[k].msg = job[p].msg
         /\ \A q : Works(q) /\ job[q].id = job[p].id => q = p

\* What the message of a handler has asked of the staging API.
AskedFor(m, v) ==
    /\ m.subject = "new" => v.step = "save" /\ v.row.incident = m.record[1]
    /\ m.subject = "update" => v.step = "save" /\ v.row.activity = "UPDATE"
    /\ m.subject = "staged" => v.step \in {"inserting", "edit", "editing"} /\ v.incident = m.record[1]
    /\ m.subject = "stagedUpdate" => v.step = "updating"
Serving ==
    /\ \A r \in Requests : req[r] # Idle => \E p : WaitsFor(p, r)
    /\ \A p, r : WaitsFor(p, r) => /\ r \in Requests /\ req[r] # Idle
                                   /\ AskedFor(job[p].msg, req[r])
                                   /\ \A q : WaitsFor(q, r) => q = p

\* A request that has come to the edit moves no INSERT row any more.
Spent(n, act) == act = "INSERT" /\ \E p, r : /\ WaitsFor(p, r) /\ job[p].id = n
                                             /\ req[r].step \in {"edit", "editing"}
NoticeOf(i) == Msg("staged", <<i, 0>>, None)
Covered(i, act) ==
    \/ <<i, 0>> \in dropped
    \/ \E k \in DOMAIN stream : stream[k].msg = NoticeOf(i) /\ ~ Spent(stream[k].id, act)
    \/ \E p \in Pods : \E k \in DOMAIN outbox[p] : outbox[p][k] = NoticeOf(i)
\* A row that the procedures have still to move.
Unmoved(i, act) == \E k \in DOMAIN staging : /\ staging[k].incident = i /\ staging[k].activity = act
                                             /\ staging[k].status = "PENDING"
Announces ==
    \A i \in Incidents, act \in {"INSERT", "EDIT"} : Unmoved(i, act) => Covered(i, act)

Carried == Taken /\ Serving /\ Announces

----------------------------------------------------------------------------
\* What the operations leave of the stream.
LEMMA InStateView ==
    ASSUME StreamOK, NEW n, NEW st, stream' = InState(n, st)
    PROVE  /\ DOMAIN stream' = DOMAIN stream
           /\ \A k \in DOMAIN stream :
                 /\ stream'[k].id = stream[k].id /\ stream'[k].msg = stream[k].msg
                 /\ stream'[k].state = IF stream[k].id = n THEN st ELSE stream[k].state
<1>1. DOMAIN stream' = DOMAIN stream
  BY DEF InState
<1>2. ASSUME NEW k \in DOMAIN stream
      PROVE  /\ stream'[k].id = stream[k].id /\ stream'[k].msg = stream[k].msg
             /\ stream'[k].state = IF stream[k].id = n THEN st ELSE stream[k].state
  <2>1. PICK i, m, s : stream[k] = [id |-> i, msg |-> m, state |-> s]
    BY DEF StreamOK, Entry
  <2>2. stream'[k] = IF i = n THEN [id |-> i, msg |-> m, state |-> st] ELSE stream[k]
    BY <2>1 DEF InState
  <2>3. QED
    BY <2>1, <2>2
<1>3. QED
  BY <1>1, <1>2

LEMMA WithoutView ==
    ASSUME StreamOK, IdsDiffer, NEW n, stream' = Without(n)
    PROVE  /\ IdsDiffer'
           /\ \A j \in DOMAIN stream' : stream'[j].id # n /\ \E i \in DOMAIN stream : stream'[j] = stream[i]
           /\ \A i \in DOMAIN stream : stream[i].id # n => \E j \in DOMAIN stream' : stream'[j] = stream[i]
<1>1. DOMAIN stream = 1..Len(stream) /\ Len(stream) \in Nat
  BY DEF StreamOK
<1>2. CASE Entries(n) = {}
  BY <1>2 DEF Without, Entries, IdsDiffer
<1>3. CASE Entries(n) # {}
  <2>1. PICK k \in DOMAIN stream :
           /\ stream[k].id = n
           /\ stream' = [j \in 1..(Len(stream) - 1) |-> IF j < k THEN stream[j] ELSE stream[j + 1]]
    BY <1>3 DEF Without, Entries
  <2>2. \A j \in DOMAIN stream' : \E i \in DOMAIN stream : i # k /\ stream'[j] = stream[i] /\ i = (IF j < k THEN j ELSE j + 1)
    BY <1>1, <2>1
  <2>3. \A i \in DOMAIN stream : i # k => LET j == IF i < k THEN i ELSE i - 1
                                         IN  j \in DOMAIN stream' /\ stream'[j] = stream[i]
    BY <1>1, <2>1
  <2>4. IdsDiffer'
    <3> SUFFICES ASSUME NEW a \in DOMAIN stream', NEW b \in DOMAIN stream', stream'[a].id = stream'[b].id
                 PROVE  a = b
      BY DEF IdsDiffer
    <3>1. (IF a < k THEN a ELSE a + 1) = (IF b < k THEN b ELSE b + 1)
      BY <2>2 DEF IdsDiffer
    <3>2. a \in Nat /\ b \in Nat /\ k \in Nat
      BY <1>1, <2>1
    <3>3. QED
      BY <3>1, <3>2
  <2>5. \A j \in DOMAIN stream' : stream'[j].id # n /\ \E i \in DOMAIN stream : stream'[j] = stream[i]
    BY <2>1, <2>2 DEF IdsDiffer
  <2>6. \A i \in DOMAIN stream : stream[i].id # n => \E j \in DOMAIN stream' : stream'[j] = stream[i]
    BY <2>1, <2>3
  <2>7. QED
    BY <2>4, <2>5, <2>6
<1>4. QED
  BY <1>2, <1>3

LEMMA StoredView ==
    ASSUME StreamOK, NEW m, Stored(m)
    PROVE  \E e : /\ e = [id |-> NewId, msg |-> m, state |-> "ready"]
                  /\ stream' = Append(stream, e) /\ Len(stream) < MaxStream /\ Len(stream) \in Nat
                  /\ DOMAIN stream = 1..Len(stream)
                  /\ DOMAIN stream' = 1..(Len(stream) + 1)
                  /\ stream'[Len(stream) + 1] = e
                  /\ \A j \in DOMAIN stream : j \in DOMAIN stream' /\ stream'[j] = stream[j]
<1>1. PICK S : stream \in Seq(S)
  BY DEF StreamOK
<1>2. PICK e : e = [id |-> NewId, msg |-> m, state |-> "ready"] /\ stream' = Append(stream, e)
  BY DEF Stored
<1>3. Len(stream) < MaxStream
  BY DEF Stored
<1>4. QED
  BY <1>1, <1>2, <1>3

LEMMA NoticeIs == \A i : /\ NoticeOf(i).subject = "staged" /\ NoticeOf(i).record = <<i, 0>>
                        /\ NoticeOf(i)' = NoticeOf(i)
BY DEF NoticeOf, Msg

LEMMA UnmovedIs == ASSUME NEW i, NEW act PROVE Unmoved(i, act) <=> Pending(Rows(i, {act})) # {}
BY DEF Unmoved, Pending, Rows

\* A notice in the stream covers its incident.
LEMMA CoveredBy ==
    ASSUME NEW i, NEW act, NEW n,
           \E k \in DOMAIN stream' : stream'[k].id = n /\ stream'[k].msg = NoticeOf(i),
           ~ (Spent(n, act)')
    PROVE  Covered(i, act)'
BY NoticeIs DEF Covered, Spent

LEMMA CoveredByWhat ==
    ASSUME NEW i, NEW act, Covered(i, act)
    PROVE  \/ <<i, 0>> \in dropped
           \/ \E n : ~ Spent(n, act) /\ \E k \in DOMAIN stream : stream[k].id = n /\ stream[k].msg = NoticeOf(i)
           \/ \E p \in Pods : \E k \in DOMAIN outbox[p] : outbox[p][k] = NoticeOf(i)
BY DEF Covered, Spent

\* A notice stays where it was, or in reach.
LEMMA CoveredKept ==
    ASSUME UNCHANGED dropped,
           \A j \in DOMAIN stream : stream[j].msg.subject = "staged" =>
               \E k \in DOMAIN stream' : stream'[k].id = stream[j].id /\ stream'[k].msg = stream[j].msg,
           \A p \in Pods : \A j \in DOMAIN outbox[p] : \E k \in DOMAIN outbox'[p] : outbox'[p][k] = outbox[p][j],
           \A n, act : Spent(n, act)' => Spent(n, act)
    PROVE  \A i, act : Covered(i, act) => Covered(i, act)'
<1> SUFFICES ASSUME NEW i, NEW act, Covered(i, act)
             PROVE  Covered(i, act)'
  OBVIOUS
<1>1. CASE <<i, 0>> \in dropped
  BY <1>1 DEF Covered
<1>2. ASSUME NEW n, ~ Spent(n, act), \E k \in DOMAIN stream : stream[k].id = n /\ stream[k].msg = NoticeOf(i)
      PROVE  Covered(i, act)'
  <2>1. \E j \in DOMAIN stream' : stream'[j].id = n /\ stream'[j].msg = NoticeOf(i)
    BY <1>2, NoticeIs
  <2>2. ~ (Spent(n, act)')
    BY <1>2
  <2>3. QED
    BY <2>1, <2>2, CoveredBy
<1>3. ASSUME NEW p \in Pods, NEW k \in DOMAIN outbox[p], outbox[p][k] = NoticeOf(i)
      PROVE  Covered(i, act)'
  BY <1>3, NoticeIs DEF Covered
<1>4. QED
  BY <1>1, <1>2, <1>3, CoveredByWhat

LEMMA AnnouncesKept ==
    ASSUME Announces, UNCHANGED staging, \A i, act : Covered(i, act) => Covered(i, act)'
    PROVE  Announces'
BY DEF Announces, Unmoved

\* The handlers that wait, wait on.
LEMMA ServingKept ==
    ASSUME Serving, UNCHANGED req,
           \A p \in Pods : job[p].at = "waiting" \/ job'[p].at = "waiting" => job'[p] = job[p]
    PROVE  Serving' /\ \A n, act : Spent(n, act)' => Spent(n, act)
<1>1. \A p, r : WaitsFor(p, r)' <=> WaitsFor(p, r)
  BY DEF WaitsFor, Works, Free
<1>2. \A p, r : WaitsFor(p, r) => job'[p] = job[p]
  BY DEF WaitsFor, Works
<1>3. Serving'
  BY <1>1, <1>2 DEF Serving, Idle
<1>4. \A n, act : Spent(n, act)' => Spent(n, act)
  BY <1>1, <1>2 DEF Spent
<1>5. QED
  BY <1>3, <1>4

\* A step that leaves the stream, the handlers and the outboxes alone.
LEMMA Still ==
    ASSUME Carried, UNCHANGED <<staging, req, stream, job, outbox, dropped>>
    PROVE  Carried'
<1>1. \A p : Works(p)' <=> Works(p)
  BY DEF Works, Free
<1>2. Taken'
  BY <1>1 DEF Carried, Taken, IdsDiffer
<1>3. Serving' /\ \A n, act : Spent(n, act)' => Spent(n, act)
  BY ServingKept DEF Carried
<1>4. \A i, act : Covered(i, act) => Covered(i, act)'
  BY <1>3, CoveredKept
<1>5. QED
  BY <1>2, <1>3, <1>4, AnnouncesKept DEF Carried

LEMMA RedeliverCarries ==
    ASSUME PipeOK, Carried, Redeliver
    PROVE  Carried'
<1>1. UNCHANGED <<staging, req, job, outbox, dropped>>
  BY DEF Redeliver, dbVars, pods
<1>2. PICK k \in DOMAIN stream :
         /\ \/ stream[k].state = "later"
            \/ stream[k].state = "taken" /\ \A p \in Pods : job[p] # Free => job[p].id # stream[k].id
         /\ stream' = InState(stream[k].id, "ready")
  BY DEF Redeliver
<1>3. /\ DOMAIN stream' = DOMAIN stream
      /\ \A j \in DOMAIN stream :
            /\ stream'[j].id = stream[j].id /\ stream'[j].msg = stream[j].msg
            /\ stream'[j].state = IF stream[j].id = stream[k].id THEN "ready" ELSE stream[j].state
  BY <1>2, InStateView DEF PipeOK
<1>4. \A p : Works(p)' <=> Works(p)
  BY <1>1 DEF Works, Free
<1>5. \A p : Works(p) => job[p].id # stream[k].id
  BY <1>2 DEF Works, Carried, Taken
<1>6. Taken'
  BY <1>1, <1>3, <1>4, <1>5 DEF Carried, Taken, IdsDiffer
<1>7. Serving' /\ \A n, act : Spent(n, act)' => Spent(n, act)
  BY <1>1, ServingKept DEF Carried
<1>8. \A i, act : Covered(i, act) => Covered(i, act)'
  BY <1>1, <1>3, <1>7, CoveredKept
<1>9. QED
  BY <1>1, <1>6, <1>7, <1>8, AnnouncesKept DEF Carried

\* A message is published: no handler has its id.
LEMMA TakenStored ==
    ASSUME StreamOK, Taken, UNCHANGED job, NEW m, Stored(m)
    PROVE  Taken' /\ \A q : Works(q) => job[q].id # NewId
<1>1. PICK e : /\ e = [id |-> NewId, msg |-> m, state |-> "ready"]
               /\ Len(stream) < MaxStream /\ Len(stream) \in Nat
               /\ DOMAIN stream = 1..Len(stream)
               /\ DOMAIN stream' = 1..(Len(stream) + 1)
               /\ stream'[Len(stream) + 1] = e
               /\ \A j \in DOMAIN stream : stream'[j] = stream[j]
  BY StoredView
<1>2. NewId \notin UsedIds
  BY <1>1, NewIdIsFree
<1>3. /\ \A k \in DOMAIN stream : stream[k].id # e.id
      /\ \A q : Works(q) => job[q].id # e.id
  BY <1>1, <1>2 DEF UsedIds, Works
<1>4. \A j \in DOMAIN stream' : j = Len(stream) + 1 \/ j \in DOMAIN stream
  BY <1>1
<1>5. \A q : Works(q)' <=> Works(q)
  BY DEF Works, Free
<1>6. IdsDiffer'
  BY <1>1, <1>3, <1>4 DEF Taken, IdsDiffer
<1>7. \A k \in DOMAIN stream' : \A q : Works(q) /\ stream'[k].id = job[q].id => k \in DOMAIN stream /\ stream'[k] = stream[k]
  BY <1>1, <1>3, <1>4
<1>8. QED
  BY <1>1, <1>3, <1>5, <1>6, <1>7 DEF Taken

LEMMA PublishCarries ==
    ASSUME PipeOK, Carried, NEW w \in Pollers, PublishFetched(w)
    PROVE  Carried'
<1>1. UNCHANGED <<staging, req, job, outbox, dropped>>
  BY DEF PublishFetched, dbVars
<1>2. PICK m : Publish(m)
  BY DEF PublishFetched
<1>3. CASE Duplicate(m)
  BY <1>1, <1>3, Still DEF Duplicate, bus
<1>4. CASE Stored(m)
  <2>1. Taken'
    BY <1>1, <1>4, TakenStored DEF Carried, PipeOK
  <2>2. Serving' /\ \A n, act : Spent(n, act)' => Spent(n, act)
    BY <1>1, ServingKept DEF Carried
  <2>3. \A j \in DOMAIN stream : j \in DOMAIN stream' /\ stream'[j] = stream[j]
    BY <1>4, StoredView DEF PipeOK
  <2>4. \A i, act : Covered(i, act) => Covered(i, act)'
    BY <1>1, <2>2, <2>3, CoveredKept
  <2>5. QED
    BY <1>1, <2>1, <2>2, <2>4, AnnouncesKept DEF Carried
<1>5. QED
  BY <1>2, <1>3, <1>4 DEF Publish

\* The publications that nobody waits for are notices.
NoticesOnly ==
    \A p \in Pods : \A k \in DOMAIN outbox[p] :
        outbox[p][k] \in {Msg(s, outbox[p][k].record, None) : s \in {"staged", "stagedUpdate"}}

\* A notice is published, or dropped.
LEMMA NoticeCarries ==
    ASSUME PipeOK, Carried, NoticesOnly, NEW p \in Pods, PublishNotice(p)
    PROVE  Carried'
<1> DEFINE m == Head(outbox[p])
<1>1. /\ outbox[p] # <<>> /\ outbox' = [outbox EXCEPT ![p] = Tail(@)]
      /\ \/ Stored(m) /\ dropped' = dropped \ {m.record}
         \/ Duplicate(m) /\ dropped' = dropped \cup {m.record}
      /\ UNCHANGED <<staging, req, job>>
  BY DEF PublishNotice, dbVars
<1>2. /\ m = outbox[p][1] /\ 1 \in DOMAIN outbox[p] /\ outbox'[p] = Tail(outbox[p])
      /\ \A k \in DOMAIN outbox[p] : k # 1 => k - 1 \in DOMAIN Tail(outbox[p]) /\ Tail(outbox[p])[k - 1] = outbox[p][k]
      /\ \A q \in Pods : q # p => outbox'[q] = outbox[q]
  <2>1. PICK S : outbox[p] \in Seq(S)
    BY DEF PipeOK, OutboxOK
  <2>2. outbox'[p] = Tail(outbox[p]) /\ \A q \in Pods : q # p => outbox'[q] = outbox[q]
    BY <1>1 DEF PipeOK, OutboxOK
  <2>3. m = outbox[p][1] /\ 1 \in DOMAIN outbox[p] /\ DOMAIN outbox[p] = 1..Len(outbox[p]) /\ Len(outbox[p]) \in Nat
    BY <1>1, <2>1
  <2>4. DOMAIN Tail(outbox[p]) = 1..(Len(outbox[p]) - 1)
        /\ \A k \in 1..(Len(outbox[p]) - 1) : Tail(outbox[p])[k] = outbox[p][k + 1]
    BY <1>1, <2>1
  <2>5. QED
    BY <2>2, <2>3, <2>4
<1>3. \A q \in Pods : \A k \in DOMAIN outbox[q] :
          outbox[q][k] = m \/ \E j \in DOMAIN outbox'[q] : outbox'[q][j] = outbox[q][k]
  <2>1. ASSUME NEW q \in Pods, NEW k \in DOMAIN outbox[q]
        PROVE  outbox[q][k] = m \/ \E j \in DOMAIN outbox'[q] : outbox'[q][j] = outbox[q][k]
    <3>1. CASE q # p
      BY <1>2, <3>1
    <3>2. CASE q = p /\ k = 1
      BY <1>2, <3>2
    <3>3. CASE q = p /\ k # 1
      BY <1>2, <3>3
    <3>4. QED
      BY <3>1, <3>2, <3>3
  <2>2. QED
    BY <2>1
<1>4. Honest(m) /\ \E s \in {"staged", "stagedUpdate"} : m = Msg(s, m.record, None)
  BY <1>2 DEF NoticesOnly, PipeOK, OutboxOK
<1>5. \A i : m.record = <<i, 0>> => m = NoticeOf(i)
  <2>1. ASSUME NEW i, m.record = <<i, 0>>
        PROVE  m = NoticeOf(i)
    <3>1. PICK s \in {"staged", "stagedUpdate"} : m = Msg(s, <<i, 0>>, None)
      BY <1>4, <2>1
    <3>2. s # "stagedUpdate"
      <4>1. SUFFICES ASSUME s = "stagedUpdate"
                     PROVE  FALSE
        OBVIOUS
      <4>2. m.subject = "stagedUpdate"
        BY <3>1, <4>1 DEF Msg
      <4>3. <<i, 0>> \in Incidents \X UpdateNumbers
        BY <1>4, <2>1, <4>2 DEF Honest
      <4>4. QED
        BY <4>3, ConstantsAssumption
    <3>3. QED
      BY <3>1, <3>2 DEF NoticeOf
  <2>2. QED
    BY <2>1
<1> HIDE DEF m
<1>6. Serving' /\ \A n, act : Spent(n, act)' => Spent(n, act)
  BY <1>1, ServingKept DEF Carried
<1>7. CASE Stored(m) /\ dropped' = dropped \ {m.record}
  <2>1. Taken' /\ \A q : Works(q) => job[q].id # NewId
    BY <1>1, <1>7, TakenStored DEF Carried, PipeOK
  <2>2. PICK e : /\ e = [id |-> NewId, msg |-> m, state |-> "ready"]
                 /\ DOMAIN stream = 1..Len(stream) /\ Len(stream) \in Nat
                 /\ DOMAIN stream' = 1..(Len(stream) + 1)
                 /\ stream'[Len(stream) + 1] = e
                 /\ \A j \in DOMAIN stream : j \in DOMAIN stream' /\ stream'[j] = stream[j]
    BY <1>7, StoredView DEF PipeOK
  <2>3. PICK n : n = NewId
    OBVIOUS
  <2>4. /\ \E k \in DOMAIN stream' : stream'[k].id = n /\ stream'[k].msg = m
        /\ \A act : ~ (Spent(n, act)')
    <3>1. \A act : ~ Spent(n, act)
      BY <2>1, <2>3 DEF Spent, WaitsFor
    <3>2. QED
      BY <1>6, <2>2, <2>3, <3>1
  <2>5. ASSUME NEW i, NEW act, Covered(i, act)
        PROVE  Covered(i, act)'
    <3>1. CASE m = NoticeOf(i)
      BY <2>4, <3>1, CoveredBy
    <3>2. CASE m # NoticeOf(i)
      <4>1. CASE <<i, 0>> \in dropped
        BY <1>5, <1>7, <3>2, <4>1 DEF Covered
      <4>2. ASSUME NEW x, ~ Spent(x, act), \E j \in DOMAIN stream : stream[j].id = x /\ stream[j].msg = NoticeOf(i)
            PROVE  Covered(i, act)'
        <5>1. ~ (Spent(x, act)')
          BY <1>6, <4>2
        <5>2. \E j \in DOMAIN stream' : stream'[j].id = x /\ stream'[j].msg = NoticeOf(i)
          BY <2>2, <4>2
        <5>3. QED
          BY <5>1, <5>2, CoveredBy
      <4>3. ASSUME NEW q \in Pods, NEW j \in DOMAIN outbox[q], outbox[q][j] = NoticeOf(i)
            PROVE  Covered(i, act)'
        BY <1>3, <3>2, <4>3, NoticeIs DEF Covered
      <4>4. QED
        BY <2>5, <4>1, <4>2, <4>3, CoveredByWhat
    <3>3. QED
      BY <3>1, <3>2
  <2>6. QED
    BY <1>1, <1>6, <2>1, <2>5, AnnouncesKept DEF Carried
<1>8. CASE Duplicate(m) /\ dropped' = dropped \cup {m.record}
  <2>1. UNCHANGED stream
    BY <1>8 DEF Duplicate, bus
  <2>2. \A q : Works(q)' <=> Works(q)
    BY <1>1 DEF Works, Free
  <2>3. Taken'
    BY <1>1, <2>1, <2>2 DEF Carried, Taken, IdsDiffer
  <2>4. ASSUME NEW i, NEW act, Covered(i, act)
        PROVE  Covered(i, act)'
    <3>1. CASE <<i, 0>> \in dropped \/ m = NoticeOf(i)
      BY <1>8, <3>1, NoticeIs DEF Covered
    <3>2. ASSUME NEW x, ~ Spent(x, act), \E j \in DOMAIN stream : stream[j].id = x /\ stream[j].msg = NoticeOf(i)
          PROVE  Covered(i, act)'
      <4>1. ~ (Spent(x, act)')
        BY <1>6, <3>2
      <4>2. QED
        BY <2>1, <3>2, <4>1, CoveredBy
    <3>3. ASSUME NEW q \in Pods, NEW j \in DOMAIN outbox[q], outbox[q][j] = NoticeOf(i), m # NoticeOf(i)
          PROVE  Covered(i, act)'
      BY <1>3, <3>3, NoticeIs DEF Covered
    <3>4. QED
      BY <2>4, <3>1, <3>2, <3>3, CoveredByWhat
  <2>5. QED
    BY <1>1, <1>6, <2>3, <2>4, AnnouncesKept DEF Carried
<1>9. QED
  BY <1>1, <1>7, <1>8

LEMMA TakeCarries ==
    ASSUME PipeOK, Carried, NEW p \in Pods, Take(p)
    PROVE  Carried'
<1>1. UNCHANGED <<staging, req, outbox, dropped>> /\ job[p] = Free
  BY DEF Take, dbVars
<1>2. PICK k \in DOMAIN stream :
         /\ stream[k].state = "ready" /\ stream' = InState(stream[k].id, "taken")
         /\ job' = [job EXCEPT ![p] =
                       [at  |-> IF stream[k].msg.subject \in {"new", "update"} THEN "acking" ELSE "calling",
                        id  |-> stream[k].id, msg |-> stream[k].msg]]
  BY DEF Take
<1>3. DOMAIN job = Pods
  BY DEF PipeOK, JobOK
<1>4. /\ job'[p].at = IF stream[k].msg.subject \in {"new", "update"} THEN "acking" ELSE "calling"
      /\ job'[p].id = stream[k].id /\ job'[p].msg = stream[k].msg
      /\ \A q \in Pods : q # p => job'[q] = job[q]
  BY <1>2, <1>3
<1>5. /\ DOMAIN stream' = DOMAIN stream
      /\ \A j \in DOMAIN stream :
            /\ stream'[j].id = stream[j].id /\ stream'[j].msg = stream[j].msg
            /\ stream'[j].state = IF stream[j].id = stream[k].id THEN "taken" ELSE stream[j].state
  BY <1>2, InStateView DEF PipeOK
<1>6. \A q : Works(q)' => q = p \/ (Works(q) /\ job'[q] = job[q] /\ job[q].id # stream[k].id)
  <2>1. \A q : Works(q)' /\ q # p => Works(q) /\ job'[q] = job[q]
    BY <1>4 DEF Works, Free
  <2>2. \A q : Works(q) => job[q].id # stream[k].id
    BY <1>2 DEF Carried, Taken
  <2>3. QED
    BY <2>1, <2>2
<1>7. Taken'
  <2>1. IdsDiffer'
    BY <1>5 DEF Carried, Taken, IdsDiffer
  <2>2. \A j \in DOMAIN stream' : stream'[j].id = job'[p].id => j = k
    BY <1>4, <1>5 DEF Carried, Taken, IdsDiffer
  <2>3. job'[p].at # "failed" /\ (job'[p].at = "acking" => job'[p].msg.subject \in {"new", "update"})
    BY <1>4
  <2>4. stream'[k].state = "taken" /\ stream'[k].msg = job'[p].msg
    BY <1>4, <1>5
  <2>5. ASSUME NEW q, Works(q)', q # p
        PROVE  /\ job'[q].at # "failed"
               /\ job'[q].at = "acking" => job'[q].msg.subject \in {"new", "update"}
               /\ \A j \in DOMAIN stream' : stream'[j].id = job'[q].id =>
                     stream'[j].state = "taken" /\ stream'[j].msg = job'[q].msg
               /\ \A s : Works(s)' /\ job'[s].id = job'[q].id => s = q
    <3>1. Works(q) /\ job'[q] = job[q] /\ job[q].id # stream[k].id
      BY <1>6, <2>5
    <3>2. \A j \in DOMAIN stream' : stream'[j].id = job'[q].id => stream'[j].state = "taken" /\ stream'[j].msg = job'[q].msg
      BY <1>5, <3>1 DEF Carried, Taken
    <3>3. \A s : Works(s)' /\ job'[s].id = job'[q].id => s = q
      BY <1>4, <1>6, <3>1 DEF Carried, Taken
    <3>4. QED
      BY <3>1, <3>2, <3>3 DEF Carried, Taken
  <2>6. \A s : Works(s)' /\ job'[s].id = job'[p].id => s = p
    BY <1>4, <1>6
  <2>7. QED
    BY <2>1, <2>2, <2>3, <2>4, <2>5, <2>6 DEF Taken
<1>8. Serving' /\ \A n, act : Spent(n, act)' => Spent(n, act)
  <2>1. \A q \in Pods : job[q].at = "waiting" \/ job'[q].at = "waiting" => job'[q] = job[q]
    BY <1>1, <1>4 DEF Free
  <2>2. QED
    BY <1>1, <2>1, ServingKept DEF Carried
<1>9. \A i, act : Covered(i, act) => Covered(i, act)'
  BY <1>1, <1>5, <1>8, CoveredKept
<1>10. QED
  BY <1>1, <1>7, <1>8, <1>9, AnnouncesKept DEF Carried

LEMMA AckCarries ==
    ASSUME PipeOK, Carried, NEW p \in Pods, Ack(p)
    PROVE  Carried'
<1>1. /\ UNCHANGED <<staging, req, outbox, dropped>> /\ job[p].at = "acking"
      /\ stream' = Without(job[p].id) /\ job' = [job EXCEPT ![p].at = "calling"]
  BY DEF Ack, dbVars
<1>2. DOMAIN job = Pods /\ Works(p)
  BY <1>1 DEF PipeOK, JobOK, Works, Free
<1>3. PICK n, m : job[p] = [at |-> "acking", id |-> n, msg |-> m]
  <2>1. ~ Waits(job[p])
    BY <1>1, Shapes
  <2>2. Working(job[p])
    BY <1>2, <2>1 DEF PipeOK, JobOK, Works
  <2>3. PICK at, n, m : job[p] = [at |-> at, id |-> n, msg |-> m]
    BY <2>2 DEF Working
  <2>4. at = "acking"
    BY <1>1, <2>3
  <2>5. QED
    BY <2>3, <2>4
<1>4. /\ job'[p].at = "calling" /\ job'[p].id = job[p].id /\ job'[p].msg = job[p].msg
      /\ \A q \in Pods : q # p => job'[q] = job[q]
  BY <1>1, <1>2, <1>3
<1>5. \A q : Works(q)' => Works(q) /\ job'[q].id = job[q].id /\ job'[q].msg = job[q].msg /\ job'[q].at \in {job[q].at, "calling"}
  BY <1>2, <1>4 DEF Works, Free
<1>6. /\ IdsDiffer'
      /\ \A j \in DOMAIN stream' : stream'[j].id # job[p].id /\ \E i \in DOMAIN stream : stream'[j] = stream[i]
      /\ \A i \in DOMAIN stream : stream[i].id # job[p].id => \E j \in DOMAIN stream' : stream'[j] = stream[i]
  BY <1>1, WithoutView DEF PipeOK, Carried, Taken
<1>7. Taken'
  BY <1>5, <1>6 DEF Carried, Taken
<1>8. Serving' /\ \A x, act : Spent(x, act)' => Spent(x, act)
  <2>1. \A q \in Pods : job[q].at = "waiting" \/ job'[q].at = "waiting" => job'[q] = job[q]
    BY <1>1, <1>4
  <2>2. QED
    BY <1>1, <2>1, ServingKept DEF Carried
<1>9. \A i, act : Covered(i, act) => Covered(i, act)'
  <2>1. \A i \in DOMAIN stream : stream[i].msg.subject = "staged" => stream[i].id # job[p].id
    BY <1>1, <1>2 DEF Carried, Taken
  <2>2. QED
    BY <1>1, <1>6, <1>8, <2>1, CoveredKept
<1>10. QED
  BY <1>1, <1>7, <1>8, <1>9, AnnouncesKept DEF Carried

\* A notice that covers an incident goes on to cover it.
LEMMA CoversOn ==
    ASSUME NEW i, NEW act, Covered(i, act), UNCHANGED dropped,
           \A p \in Pods : \A j \in DOMAIN outbox[p] : \E k \in DOMAIN outbox'[p] : outbox'[p][k] = outbox[p][j],
           \A n : /\ ~ Spent(n, act)
                  /\ \E j \in DOMAIN stream : stream[j].id = n /\ stream[j].msg = NoticeOf(i)
                  => /\ ~ (Spent(n, act)')
                     /\ \E k \in DOMAIN stream' : stream'[k].id = n /\ stream'[k].msg = NoticeOf(i)
    PROVE  Covered(i, act)'
<1>1. CASE <<i, 0>> \in dropped
  BY <1>1 DEF Covered
<1>2. ASSUME NEW n, ~ Spent(n, act), \E k \in DOMAIN stream : stream[k].id = n /\ stream[k].msg = NoticeOf(i)
      PROVE  Covered(i, act)'
  <2>1. /\ ~ (Spent(n, act)')
        /\ \E k \in DOMAIN stream' : stream'[k].id = n /\ stream'[k].msg = NoticeOf(i)
    BY <1>2
  <2>2. QED
    BY <2>1, CoveredBy
<1>3. ASSUME NEW p \in Pods, NEW k \in DOMAIN outbox[p], outbox[p][k] = NoticeOf(i)
      PROVE  Covered(i, act)'
  BY <1>3, NoticeIs DEF Covered
<1>4. QED
  BY <1>1, <1>2, <1>3, CoveredByWhat

\* An answer frees the handler: a notice joins the outbox, or the message goes.
LEMMA AnsweredView ==
    ASSUME PipeOK, Taken, NEW p \in Pods, Works(p), Answered(p)
    PROVE  /\ Taken'
           /\ job'[p] = Free /\ \A q \in Pods : q # p => job'[q] = job[q]
           /\ \A j \in DOMAIN stream :
                 stream[j].id # job[p].id \/ job[p].msg.subject \in {"new", "update"} =>
                     \E k \in DOMAIN stream' : stream'[k] = stream[j]
           /\ \A q \in Pods : \A j \in DOMAIN outbox[q] : \E k \in DOMAIN outbox'[q] : outbox'[q][k] = outbox[q][j]
           /\ job[p].msg.subject = "new" =>
                 \E k \in DOMAIN outbox'[p] : outbox'[p][k] = Msg("staged", job[p].msg.record, None)
<1>1. job' = [job EXCEPT ![p] = Free]
  BY DEF Answered
<1>2. job'[p] = Free /\ \A q \in Pods : q # p => job'[q] = job[q]
  BY <1>1 DEF PipeOK, JobOK
<1>3. \A q : Works(q)' => Works(q) /\ q # p /\ job'[q] = job[q]
  BY <1>2 DEF Works, Free
<1>4. CASE job[p].msg.subject \in {"new", "update"}
  <2> DEFINE notice == Notice(job[p].msg)
  <2>1. outbox' = [outbox EXCEPT ![p] = Append(outbox[p], notice)] /\ UNCHANGED stream
    BY <1>4 DEF Answered
  <2>2. job[p].msg.subject = "new" => notice = Msg("staged", job[p].msg.record, None)
    BY DEF Notice
  <2> HIDE DEF notice
  <2>3. PICK S : outbox[p] \in Seq(S)
    BY DEF PipeOK, OutboxOK
  <2>4. outbox'[p] = Append(outbox[p], notice) /\ \A q \in Pods : q # p => outbox'[q] = outbox[q]
    BY <2>1 DEF PipeOK, OutboxOK
  <2>5. /\ Len(outbox[p]) + 1 \in DOMAIN outbox'[p] /\ outbox'[p][Len(outbox[p]) + 1] = notice
        /\ \A j \in DOMAIN outbox[p] : j \in DOMAIN outbox'[p] /\ outbox'[p][j] = outbox[p][j]
    <3>1. outbox[p] \in Seq(S \cup {notice})
      BY <2>3
    <3>2. QED
      BY <2>4, <3>1
  <2>6. \A q \in Pods : \A j \in DOMAIN outbox[q] : \E k \in DOMAIN outbox'[q] : outbox'[q][k] = outbox[q][j]
    BY <2>4, <2>5
  <2>7. Taken'
    BY <1>3, <2>1 DEF Taken, IdsDiffer
  <2>8. QED
    BY <1>2, <2>1, <2>2, <2>5, <2>6, <2>7
<1>5. CASE job[p].msg.subject \notin {"new", "update"}
  <2>1. stream' = Without(job[p].id) /\ UNCHANGED outbox
    BY <1>5 DEF Answered
  <2>2. /\ IdsDiffer'
        /\ \A j \in DOMAIN stream' : stream'[j].id # job[p].id /\ \E i \in DOMAIN stream : stream'[j] = stream[i]
        /\ \A i \in DOMAIN stream : stream[i].id # job[p].id => \E j \in DOMAIN stream' : stream'[j] = stream[i]
    BY <2>1, WithoutView DEF PipeOK, Taken
  <2>3. Taken'
    BY <1>3, <2>2 DEF Taken
  <2>4. QED
    BY <1>2, <1>5, <2>1, <2>2, <2>3
<1>6. QED
  BY <1>4, <1>5

\* The request of a message is one of its kind.
LEMMA RequestAsks ==
    ASSUME NEW r, NEW m, Honest(m), Calls(r, m)
    PROVE  /\ UNCHANGED staging /\ req[r] = Idle
           /\ \E v : /\ req' = [req EXCEPT ![r] = v] /\ v # Idle /\ AskedFor(m, v)
                     /\ v.step \in {"edit", "editing"} => ~ Unmoved(m.record[1], "INSERT")
<1>1. Idle.step = "idle"
  BY DEF Idle
<1>2. CASE m.subject = "new"
  <2>1. StageComplaint(r, m.record[1], m.content)
    BY <1>2 DEF Calls
  <2>2. PICK act, t : req' = [req EXCEPT ![r] = [step |-> "save", row |-> NewRow(m.record[1], act, 0, m.content, t)]]
    BY <2>1 DEF StageComplaint
  <2> DEFINE v == [step |-> "save", row |-> NewRow(m.record[1], act, 0, m.content, t)]
  <2>3. v.step = "save" /\ v.row.incident = m.record[1]
    BY DEF NewRow
  <2>4. req' = [req EXCEPT ![r] = v]
    BY <2>2
  <2> HIDE DEF v
  <2>5. v # Idle /\ AskedFor(m, v)
    BY <1>1, <1>2, <2>3 DEF AskedFor
  <2>6. QED
    BY <2>1, <2>3, <2>4, <2>5 DEF StageComplaint
<1>3. CASE m.subject = "update"
  <2>1. StageUpdate(r, m.record[1], m.record[2], m.content)
    BY <1>3 DEF Calls
  <2>2. PICK t : req' = [req EXCEPT ![r] =
                            [step |-> "save", row |-> NewRow(m.record[1], "UPDATE", m.record[2], m.content, t)]]
    BY <2>1 DEF StageUpdate
  <2> DEFINE v == [step |-> "save", row |-> NewRow(m.record[1], "UPDATE", m.record[2], m.content, t)]
  <2>3. v.step = "save" /\ v.row.activity = "UPDATE"
    BY DEF NewRow
  <2>4. req' = [req EXCEPT ![r] = v]
    BY <2>2
  <2> HIDE DEF v
  <2>5. v # Idle /\ AskedFor(m, v)
    BY <1>1, <1>3, <2>3 DEF AskedFor
  <2>6. QED
    BY <2>1, <2>3, <2>4, <2>5 DEF StageUpdate
<1>4. CASE m.subject = "staged"
  <2> DEFINE i == m.record[1]
             v(k) == [step |-> "inserting", incident |-> i, picked |-> k, was |-> None]
             w    == [step |-> "edit", incident |-> i, picked |-> 0, was |-> None]
  <2>1. ProcessComplaint(r, i)
    BY <1>4 DEF Calls
  <2>2. (\A k : v(k).step = "inserting" /\ v(k).incident = i) /\ w.step = "edit" /\ w.incident = i
    OBVIOUS
  <2>3. \/ req' = [req EXCEPT ![r] = w] /\ ~ Unmoved(i, "INSERT")
        \/ \E k : req' = [req EXCEPT ![r] = v(k)]
    BY <2>1, UnmovedIs DEF ProcessComplaint
  <2> HIDE DEF v, w
  <2>4. w # Idle /\ AskedFor(m, w) /\ \A k : v(k) # Idle /\ AskedFor(m, v(k))
    BY <1>1, <1>4, <2>2 DEF AskedFor
  <2>5. QED
    BY <2>1, <2>2, <2>3, <2>4 DEF ProcessComplaint
<1>5. CASE m.subject = "stagedUpdate"
  <2> DEFINE i == m.record[1]
             n == m.record[2]
             v(k) == [step |-> "updating", incident |-> i, number |-> n, picked |-> k, logged |-> Logged(i, n) # {}]
  <2>1. ProcessUpdate(r, i, n)
    BY <1>5 DEF Calls
  <2>2. \A k : v(k).step = "updating"
    OBVIOUS
  <2>3. \E k : req' = [req EXCEPT ![r] = v(k)]
    BY <2>1 DEF ProcessUpdate
  <2> HIDE DEF v
  <2>4. \A k : v(k) # Idle /\ AskedFor(m, v(k))
    BY <1>1, <1>5, <2>2 DEF AskedFor
  <2>5. QED
    BY <2>1, <2>2, <2>3, <2>4 DEF ProcessUpdate
<1>6. QED
  BY <1>2, <1>3, <1>4, <1>5 DEF Honest

LEMMA CallCarries ==
    ASSUME PipeOK, TypeOK, Carried, NEW p \in Pods, Call(p)
    PROVE  Carried'
<1>1. job[p].at = "calling" /\ UNCHANGED dropped
  BY DEF Call
<1>2. Works(p) /\ DOMAIN job = Pods
  BY <1>1 DEF PipeOK, JobOK, Works, Free
<1>3. Honest(job[p].msg)
  BY <1>2, JobMessage DEF PipeOK, Works
<1>4. CASE \E r \in Requests :
              /\ Calls(r, job[p].msg)
              /\ job' = [job EXCEPT ![p] = [at |-> "waiting", id |-> job[p].id, msg |-> job[p].msg, slot |-> r]]
              /\ UNCHANGED <<stream, outbox>>
  <2>1. PICK r \in Requests :
              /\ Calls(r, job[p].msg)
              /\ job' = [job EXCEPT ![p] = [at |-> "waiting", id |-> job[p].id, msg |-> job[p].msg, slot |-> r]]
              /\ UNCHANGED <<stream, outbox>>
    BY <1>4
  <2>2. /\ job'[p].at = "waiting" /\ job'[p].id = job[p].id /\ job'[p].msg = job[p].msg /\ job'[p].slot = r
        /\ \A q \in Pods : q # p => job'[q] = job[q]
    BY <1>2, <2>1
  <2>3. UNCHANGED staging /\ req[r] = Idle
    BY <1>3, <2>1, RequestAsks
  <2>4. PICK v : /\ req' = [req EXCEPT ![r] = v] /\ v # Idle /\ AskedFor(job[p].msg, v)
                 /\ v.step \in {"edit", "editing"} => ~ Unmoved(job[p].msg.record[1], "INSERT")
    BY <1>3, <2>1, RequestAsks
  <2>5. req'[r] = v /\ \A s \in Requests : s # r => req'[s] = req[s]
    BY <2>4 DEF TypeOK
  <2>6. \A q : Works(q)' <=> Works(q)
    BY <1>2, <2>2 DEF Works, Free
  <2>7. Taken'
    BY <1>2, <2>1, <2>2, <2>6 DEF Carried, Taken, IdsDiffer
  <2>8. \A q, s : WaitsFor(q, s)' <=> (q = p /\ s = r) \/ WaitsFor(q, s)
    BY <1>1, <1>2, <2>2, <2>6 DEF WaitsFor, Works
  <2>9. \A q, s : WaitsFor(q, s) => q # p /\ s # r /\ s \in Requests /\ job'[q] = job[q] /\ req'[s] = req[s]
    BY <1>1, <2>2, <2>3, <2>5 DEF WaitsFor, Works, Carried, Serving
  <2>10. Serving'
    <3>1. \A s \in Requests : req'[s] # Idle => \E q : WaitsFor(q, s)'
      BY <2>5, <2>8 DEF Carried, Serving
    <3>2. ASSUME NEW q, NEW s, WaitsFor(q, s)'
          PROVE  /\ s \in Requests /\ req'[s] # Idle /\ AskedFor(job'[q].msg, req'[s])
                 /\ \A x : WaitsFor(x, s)' => x = q
      <4>1. CASE q = p /\ s = r
        BY <2>2, <2>4, <2>5, <2>8, <2>9, <4>1
      <4>2. CASE WaitsFor(q, s)
        BY <2>8, <2>9, <4>2 DEF Carried, Serving
      <4>3. QED
        BY <2>8, <3>2, <4>1, <4>2
    <3>3. Idle' = Idle
      BY DEF Idle
    <3>4. QED
      BY <3>1, <3>2, <3>3 DEF Serving, AskedFor
  <2>11. ASSUME NEW n, NEW act, Spent(n, act)', ~ Spent(n, act)
         PROVE  /\ n = job[p].id /\ act = "INSERT"
                /\ ~ Unmoved(job[p].msg.record[1], "INSERT")
    <3>1. PICK q, s : WaitsFor(q, s)' /\ job'[q].id = n /\ req'[s].step \in {"edit", "editing"}
      BY <2>11 DEF Spent
    <3>2. act = "INSERT"
      BY <2>11 DEF Spent
    <3>3. ~ WaitsFor(q, s)
      BY <2>9, <2>11, <3>1, <3>2 DEF Spent
    <3>4. q = p /\ s = r
      BY <2>8, <3>1, <3>3
    <3>5. QED
      BY <2>2, <2>4, <2>5, <3>1, <3>2, <3>4
  <2>12. ASSUME NEW i \in Incidents, NEW act \in {"INSERT", "EDIT"}, Unmoved(i, act)
         PROVE  Covered(i, act)'
    <3>1. Covered(i, act)
      BY <2>12 DEF Carried, Announces
    <3>2. ASSUME NEW n, ~ Spent(n, act), \E j \in DOMAIN stream : stream[j].id = n /\ stream[j].msg = NoticeOf(i)
          PROVE  ~ (Spent(n, act)')
      <4>1. SUFFICES ASSUME Spent(n, act)'
                     PROVE  FALSE
        OBVIOUS
      <4>2. n = job[p].id /\ act = "INSERT" /\ ~ Unmoved(job[p].msg.record[1], "INSERT")
        BY <2>11, <3>2, <4>1
      <4>3. job[p].msg = NoticeOf(i)
        BY <1>2, <3>2, <4>2 DEF Carried, Taken
      <4>4. job[p].msg.record[1] = i
        BY <4>3, NoticeIs
      <4>5. QED
        BY <2>12, <4>2, <4>4
    <3>3. UNCHANGED <<stream, outbox, dropped>>
      BY <1>1, <2>1
    <3>4. QED
      BY <3>1, <3>2, <3>3, CoversOn
  <2>13. Announces'
    BY <2>3, <2>12 DEF Announces, Unmoved
  <2>14. QED
    BY <2>7, <2>10, <2>13 DEF Carried
<1>5. CASE NothingToDo(job[p].msg) /\ Answered(p) /\ UNCHANGED dbVars
  <2>1. UNCHANGED <<staging, req>>
    BY <1>5 DEF dbVars
  <2>2. /\ Taken'
        /\ job'[p] = Free /\ \A q \in Pods : q # p => job'[q] = job[q]
        /\ \A j \in DOMAIN stream :
              stream[j].id # job[p].id \/ job[p].msg.subject \in {"new", "update"} =>
                  \E k \in DOMAIN stream' : stream'[k] = stream[j]
        /\ \A q \in Pods : \A j \in DOMAIN outbox[q] : \E k \in DOMAIN outbox'[q] : outbox'[q][k] = outbox[q][j]
    BY <1>2, <1>5, AnsweredView DEF Carried
  <2>3. Serving' /\ \A n, act : Spent(n, act)' => Spent(n, act)
    <3>1. \A q \in Pods : job[q].at = "waiting" \/ job'[q].at = "waiting" => job'[q] = job[q]
      BY <1>1, <2>2 DEF Free
    <3>2. QED
      BY <2>1, <3>1, ServingKept DEF Carried
  <2>4. job[p].msg.subject # "staged"
    BY <1>5 DEF NothingToDo
  <2>5. \A j \in DOMAIN stream : stream[j].msg.subject = "staged" =>
           \E k \in DOMAIN stream' : stream'[k].id = stream[j].id /\ stream'[k].msg = stream[j].msg
    <3>1. \A j \in DOMAIN stream : stream[j].id = job[p].id => stream[j].msg = job[p].msg
      BY <1>2 DEF Carried, Taken
    <3>2. QED
      BY <2>2, <2>4, <3>1
  <2>6. \A i, act : Covered(i, act) => Covered(i, act)'
    BY <1>1, <2>2, <2>3, <2>5, CoveredKept
  <2>7. QED
    BY <2>1, <2>2, <2>3, <2>6, AnnouncesKept DEF Carried
<1>6. QED
  BY <1>4, <1>5 DEF Call

\* A procedure leaves no row PENDING that was not, and none that it marks.
LEMMA MarkedPending ==
    ASSUME TypeOK, NEW S, NEW s \in {"SUCCESS", "ERROR"}, staging' = Marked(S, s), NEW i, NEW act
    PROVE  /\ Unmoved(i, act)' => Unmoved(i, act)
           /\ Pending(Rows(i, {act})) \subseteq S => ~ (Unmoved(i, act)')
<1>1. /\ DOMAIN staging' = DOMAIN staging /\ RowsKept
      /\ \A k \in DOMAIN staging : staging'[k].status = IF k \in S THEN s ELSE staging[k].status
  BY MarkedOK DEF Statuses
<1>2. QED
  BY <1>1 DEF RowsKept, Unmoved, Pending, Rows

LEMMA SavedPending ==
    ASSUME TypeOK, NEW row, staging' = Append(staging, row),
           NEW i, NEW act \in {"INSERT", "EDIT"}, Unmoved(i, act)'
    PROVE  Unmoved(i, act) \/ (row.incident = i /\ row.activity = act)
<1>1. /\ DOMAIN staging = 1..Len(staging) /\ Len(staging) \in Nat
      /\ DOMAIN staging' = 1..(Len(staging) + 1)
      /\ staging'[Len(staging) + 1] = row
      /\ \A k \in DOMAIN staging : staging'[k] = staging[k]
  <2>1. staging \in Seq(Row \cup {row})
    BY DEF TypeOK
  <2>2. QED
    BY <2>1
<1>2. PICK k \in DOMAIN staging' :
         staging'[k].incident = i /\ staging'[k].activity = act /\ staging'[k].status = "PENDING"
  BY DEF Unmoved
<1>3. CASE k = Len(staging) + 1
  BY <1>1, <1>2, <1>3
<1>4. CASE k # Len(staging) + 1
  BY <1>1, <1>2, <1>4 DEF Unmoved
<1>5. QED
  BY <1>3, <1>4

\* What a step of a request does to the rows that have still to be moved.
LEMMA ProgressView ==
    ASSUME TypeOK, NEW r \in Requests, Continue(r), NEW m, Honest(m), AskedFor(m, req[r])
    PROVE  /\ req[r] # Idle
           /\ \E v : /\ req' = [req EXCEPT ![r] = v]
                     /\ v # Idle => AskedFor(m, v)
                     /\ \A i, act : act \in {"INSERT", "EDIT"} /\ Unmoved(i, act)' =>
                           \/ Unmoved(i, act)
                           \/ m.subject = "new" /\ v = Idle /\ i = m.record[1]
                     /\ v # Idle /\ v.step \in {"edit", "editing"} =>
                           \/ req[r].step \in {"edit", "editing"}
                           \/ ~ (Unmoved(m.record[1], "INSERT")')
                     /\ v = Idle /\ m.subject = "staged" =>
                           req[r].step = "editing" /\ ~ (Unmoved(m.record[1], "EDIT")')
<1>0. PICK i0 : i0 = req[r].incident
  OBVIOUS
<1> DEFINE Mine(v) == /\ req' = [req EXCEPT ![r] = v]
                      /\ v # Idle => AskedFor(m, v)
                      /\ \A i, act : act \in {"INSERT", "EDIT"} /\ Unmoved(i, act)' =>
                            \/ Unmoved(i, act)
                            \/ m.subject = "new" /\ v = Idle /\ i = m.record[1]
                      /\ v # Idle /\ v.step \in {"edit", "editing"} =>
                            \/ req[r].step \in {"edit", "editing"}
                            \/ ~ (Unmoved(m.record[1], "INSERT")')
                      /\ v = Idle /\ m.subject = "staged" =>
                            req[r].step = "editing" /\ ~ (Unmoved(m.record[1], "EDIT")')
<1>1. Idle.step = "idle"
  BY DEF Idle
<1>2. m.subject \in {"new", "update", "staged", "stagedUpdate"}
  BY DEF Honest
<1>3. CASE Save(r)
  <2>1. /\ req[r].step = "save" /\ staging' = Append(staging, req[r].row)
        /\ req' = [req EXCEPT ![r] = Idle]
    BY <1>3 DEF Save, Finish
  <2>2. \/ m.subject = "new" /\ req[r].row.incident = m.record[1]
        \/ m.subject = "update" /\ req[r].row.activity = "UPDATE"
    BY <1>0, <1>2, <2>1 DEF AskedFor
  <2>3. \A i, act : act \in {"INSERT", "EDIT"} /\ Unmoved(i, act)' =>
            \/ Unmoved(i, act)
            \/ m.subject = "new" /\ i = m.record[1]
    BY <2>1, <2>2, SavedPending
  <2>4. Mine(Idle)
    BY <2>1, <2>2, <2>3
  <2>5. QED
    BY <1>1, <2>1, <2>4
<1>4. CASE InsertComplaint(r) \/ InsertRaises(r)
  <2> DEFINE v == [req[r] EXCEPT !.step = "edit", !.picked = 0]
  <2>1. /\ req[r].step = "inserting" /\ req' = [req EXCEPT ![r] = v]
        /\ \/ staging' = Marked(Rows(i0, {"INSERT"}), "SUCCESS")
           \/ staging' = Marked(Pending(Rows(i0, {"INSERT"})), "ERROR")
    BY <1>0, <1>4 DEF InsertComplaint, InsertRaises, ToEdit
  <2>2. m.subject = "staged" /\ i0 = m.record[1]
    BY <1>0, <1>2, <2>1 DEF AskedFor
  <2>3. v.step = "edit" /\ v.incident = i0
    BY <1>0, <2>1, StepOfReq DEF MoveReq
  <2> HIDE DEF v
  <2>4. (\A i, act : Unmoved(i, act)' => Unmoved(i, act)) /\ ~ (Unmoved(i0, "INSERT")')
    <3>1. Pending(Rows(i0, {"INSERT"})) \subseteq Rows(i0, {"INSERT"})
      BY DEF Pending
    <3>2. PICK S : /\ \E s \in {"SUCCESS", "ERROR"} : staging' = Marked(S, s)
                   /\ Pending(Rows(i0, {"INSERT"})) \subseteq S
      BY <2>1, <3>1
    <3>3. QED
      BY <3>2, MarkedPending
  <2>5. v # Idle /\ AskedFor(m, v)
    BY <1>1, <2>2, <2>3 DEF AskedFor
  <2>6. Mine(v)
    BY <2>1, <2>2, <2>4, <2>5
  <2>7. QED
    BY <1>1, <2>1, <2>6
<1>5. CASE SelectEdit(r)
  <2>1. req[r].step = "edit" /\ UNCHANGED staging
    BY <1>5 DEF SelectEdit
  <2>2. m.subject = "staged" /\ i0 = m.record[1]
    BY <1>0, <1>2, <2>1 DEF AskedFor
  <2> DEFINE w == Content(req[r].incident)
             S == Pending(Rows(req[r].incident, {"EDIT"}))
  <2>3. PICK k : req' = [req EXCEPT ![r] = [@ EXCEPT !.step = "editing", !.picked = k, !.was = w]]
    <3>1. \E k \in {0} \cup S : /\ IF S = {} THEN k = 0 ELSE IsLatest(k, S)
                                /\ req' = [req EXCEPT ![r] = [@ EXCEPT !.step = "editing", !.picked = k, !.was = w]]
      BY <1>5, Zenon DEF SelectEdit
    <3> HIDE DEF S, w
    <3>2. QED
      BY <3>1, Zenon
  <2> DEFINE v == [req[r] EXCEPT !.step = "editing", !.picked = k, !.was = w]
  <2> HIDE DEF w
  <2>4. PICK x : req' = [req EXCEPT ![r] = x] /\ x.step = "editing" /\ x.incident = i0
    <3>1. v.step = "editing" /\ v.incident = i0
      BY <1>0, <2>1, StepOfReq DEF MoveReq
    <3>2. req' = [req EXCEPT ![r] = v]
      BY <2>3
    <3> HIDE DEF v
    <3>3. QED
      BY <3>1, <3>2
  <2>5. x # Idle /\ AskedFor(m, x)
    BY <1>1, <2>2, <2>4 DEF AskedFor
  <2>6. Mine(x)
    BY <2>1, <2>2, <2>4, <2>5 DEF Unmoved
  <2>7. QED
    BY <1>1, <2>1, <2>6
<1>6. CASE EditComplaint(r) \/ EditRaises(r)
  <2>1. /\ req[r].step = "editing" /\ req' = [req EXCEPT ![r] = Idle]
        /\ \E s \in {"SUCCESS", "ERROR"} : staging' = Marked(Pending(Rows(i0, {"EDIT"})), s)
    BY <1>0, <1>6 DEF EditComplaint, EditRaises, Finish
  <2>2. m.subject = "staged" /\ i0 = m.record[1]
    BY <1>0, <1>2, <2>1 DEF AskedFor
  <2>3. (\A i, act : Unmoved(i, act)' => Unmoved(i, act)) /\ ~ (Unmoved(i0, "EDIT")')
    BY <2>1, MarkedPending
  <2>4. Mine(Idle)
    BY <2>1, <2>2, <2>3
  <2>5. QED
    BY <1>1, <2>1, <2>4
<1>7. CASE ApplyUpdate(r) \/ UpdateRaises(r)
  <2>1. /\ req[r].step = "updating" /\ req' = [req EXCEPT ![r] = Idle]
        /\ \E S : \E s \in {"SUCCESS", "ERROR"} : staging' = Marked(S, s)
    BY <1>7 DEF ApplyUpdate, UpdateRaises, Finish
  <2>2. m.subject = "stagedUpdate"
    BY <1>0, <1>2, <2>1 DEF AskedFor
  <2>3. \A i, act : Unmoved(i, act)' => Unmoved(i, act)
    BY <2>1, MarkedPending
  <2>4. Mine(Idle)
    BY <2>1, <2>2, <2>3
  <2>5. QED
    BY <1>1, <2>1, <2>4
<1>8. QED
  BY <1>3, <1>4, <1>5, <1>6, <1>7 DEF Continue

LEMMA ContinueBusy == ASSUME NEW r, Continue(r) PROVE req[r] # Idle
<1>1. Save(r) => req[r].step = "save"
  BY DEF Save
<1>2. InsertComplaint(r) \/ InsertRaises(r) => req[r].step = "inserting"
  BY DEF InsertComplaint, InsertRaises
<1>3. SelectEdit(r) => req[r].step = "edit"
  BY DEF SelectEdit
<1>4. EditComplaint(r) \/ EditRaises(r) => req[r].step = "editing"
  BY DEF EditComplaint, EditRaises
<1>5. ApplyUpdate(r) \/ UpdateRaises(r) => req[r].step = "updating"
  BY DEF ApplyUpdate, UpdateRaises
<1>6. QED
  BY <1>1, <1>2, <1>3, <1>4, <1>5 DEF Continue, Idle

\* A request goes on, and its handler gets the answer if this was the end.
LEMMA ServeCarries ==
    ASSUME PipeOK, TypeOK, Carried, NEW r \in Requests, Serve(r)
    PROVE  Carried'
<1>1. Continue(r) /\ UNCHANGED dropped
  BY DEF Serve
<1>2. PICK p : WaitsFor(p, r)
  BY <1>1, ContinueBusy DEF Carried, Serving
<1>3. /\ p \in Pods /\ Works(p) /\ p \in Waiting(r) /\ AskedFor(job[p].msg, req[r])
      /\ \A q : WaitsFor(q, r) => q = p
  BY <1>2 DEF WaitsFor, Works, Waiting, Carried, Serving
<1>4. PICK m, n : m = job[p].msg /\ n = job[p].id
  OBVIOUS
<1>5. Honest(m)
  BY <1>3, <1>4, JobMessage DEF PipeOK, Works
<1>6. PICK v : /\ req' = [req EXCEPT ![r] = v]
               /\ v # Idle => AskedFor(m, v)
               /\ \A i, act : act \in {"INSERT", "EDIT"} /\ Unmoved(i, act)' =>
                     \/ Unmoved(i, act)
                     \/ m.subject = "new" /\ v = Idle /\ i = m.record[1]
               /\ v # Idle /\ v.step \in {"edit", "editing"} =>
                     \/ req[r].step \in {"edit", "editing"}
                     \/ ~ (Unmoved(m.record[1], "INSERT")')
               /\ v = Idle /\ m.subject = "staged" =>
                     req[r].step = "editing" /\ ~ (Unmoved(m.record[1], "EDIT")')
  BY <1>1, <1>3, <1>4, <1>5, ProgressView
<1>7. req'[r] = v /\ \A s \in Requests : s # r => req'[s] = req[s]
  BY <1>6 DEF TypeOK
<1>8. Idle' = Idle
  BY DEF Idle
<1>9. \A j \in DOMAIN stream : stream[j].id = n => stream[j].msg = m
  BY <1>3, <1>4 DEF Carried, Taken
<1>10. \A i : m = NoticeOf(i) => m.subject = "staged" /\ m.record[1] = i
  BY NoticeIs
<1>11. CASE v # Idle
  <2>1. UNCHANGED <<stream, job, outbox>>
    BY <1>7, <1>11 DEF Serve
  <2>2. \A q, s : (Works(q)' <=> Works(q)) /\ (WaitsFor(q, s)' <=> WaitsFor(q, s))
    BY <2>1 DEF WaitsFor, Works, Free
  <2>3. Taken'
    BY <2>1, <2>2 DEF Carried, Taken, IdsDiffer
  <2>4. Serving'
    <3>1. \A s \in Requests : req'[s] # Idle => \E q : WaitsFor(q, s)'
      BY <1>2, <1>7, <2>2 DEF Carried, Serving
    <3>2. ASSUME NEW q, NEW s, WaitsFor(q, s)'
          PROVE  /\ s \in Requests /\ req'[s] # Idle /\ AskedFor(job'[q].msg, req'[s])
                 /\ \A x : WaitsFor(x, s)' => x = q
      <4>1. WaitsFor(q, s)
        BY <2>2, <3>2
      <4>2. s \in Requests /\ \A x : WaitsFor(x, s)' => x = q
        BY <2>2, <4>1 DEF Carried, Serving
      <4>3. CASE s = r
        BY <1>3, <1>4, <1>6, <1>7, <1>11, <2>1, <4>1, <4>2, <4>3
      <4>4. CASE s # r
        BY <1>7, <2>1, <4>1, <4>2, <4>4 DEF Carried, Serving
      <4>5. QED
        BY <4>2, <4>3, <4>4
    <3>3. QED
      BY <1>8, <3>1, <3>2 DEF Serving, AskedFor
  <2>5. ASSUME NEW x, NEW act, Spent(x, act)', ~ Spent(x, act)
        PROVE  x = n /\ act = "INSERT" /\ ~ (Unmoved(m.record[1], "INSERT")')
    <3>1. PICK q, s : WaitsFor(q, s)' /\ job'[q].id = x /\ req'[s].step \in {"edit", "editing"}
      BY <2>5 DEF Spent
    <3>2. WaitsFor(q, s) /\ act = "INSERT" /\ s \in Requests
      BY <2>2, <2>5, <3>1 DEF Spent, Carried, Serving
    <3>3. s = r /\ req[r].step \notin {"edit", "editing"}
      BY <1>7, <2>1, <2>5, <3>1, <3>2 DEF Spent
    <3>4. QED
      BY <1>3, <1>4, <1>6, <1>7, <1>11, <2>1, <3>1, <3>2, <3>3
  <2>6. ASSUME NEW i \in Incidents, NEW act \in {"INSERT", "EDIT"}, Unmoved(i, act)'
        PROVE  Covered(i, act)'
    <3>1. Covered(i, act)
      BY <1>6, <1>11, <2>6 DEF Carried, Announces
    <3>2. ASSUME NEW x, ~ Spent(x, act), \E j \in DOMAIN stream : stream[j].id = x /\ stream[j].msg = NoticeOf(i)
          PROVE  ~ (Spent(x, act)')
      BY <1>9, <1>10, <2>5, <2>6, <3>2
    <3>3. QED
      BY <1>1, <2>1, <3>1, <3>2, CoversOn
  <2>7. QED
    BY <2>3, <2>4, <2>6 DEF Carried, Announces
<1>12. CASE v = Idle
  <2>1. Answered(p)
    BY <1>3, <1>7, <1>12 DEF Serve, Waiting, WaitsFor, Works, Free
  <2>2. /\ Taken'
        /\ job'[p] = Free /\ \A q \in Pods : q # p => job'[q] = job[q]
        /\ \A j \in DOMAIN stream :
              stream[j].id # n \/ m.subject \in {"new", "update"} =>
                  \E k \in DOMAIN stream' : stream'[k] = stream[j]
        /\ \A q \in Pods : \A j \in DOMAIN outbox[q] : \E k \in DOMAIN outbox'[q] : outbox'[q][k] = outbox[q][j]
        /\ m.subject = "new" => \E k \in DOMAIN outbox'[p] : outbox'[p][k] = Msg("staged", m.record, None)
    BY <1>3, <1>4, <2>1, AnsweredView DEF Carried
  <2>3. \A q, s : WaitsFor(q, s)' => /\ q # p /\ s # r /\ WaitsFor(q, s) /\ s \in Requests
                                     /\ job'[q] = job[q] /\ req'[s] = req[s]
    <3>1. ASSUME NEW q, NEW s, WaitsFor(q, s)'
          PROVE  q # p /\ WaitsFor(q, s) /\ job'[q] = job[q]
      BY <2>2, <3>1 DEF WaitsFor, Works, Free
    <3>2. QED
      BY <1>3, <1>7, <3>1 DEF Carried, Serving
  <2>4. \A q, s : WaitsFor(q, s) /\ s # r => WaitsFor(q, s)'
    <3>1. ASSUME NEW q, NEW s, WaitsFor(q, s), s # r
          PROVE  WaitsFor(q, s)'
      <4>1. q # p
        BY <1>2, <3>1 DEF WaitsFor
      <4>2. QED
        BY <2>2, <3>1, <4>1 DEF WaitsFor, Works, Free
    <3>2. QED
      BY <3>1
  <2>5. Serving'
    <3>1. \A s \in Requests : req'[s] # Idle => \E q : WaitsFor(q, s)'
      BY <1>7, <1>12, <2>4 DEF Carried, Serving
    <3>2. \A q, s : WaitsFor(q, s)' => /\ s \in Requests /\ req'[s] # Idle /\ AskedFor(job'[q].msg, req'[s])
                                       /\ \A x : WaitsFor(x, s)' => x = q
      BY <2>3 DEF Carried, Serving
    <3>3. QED
      BY <1>8, <3>1, <3>2 DEF Serving, AskedFor
  <2>6. \A x, act : Spent(x, act)' => Spent(x, act)
    BY <2>3 DEF Spent
  <2>7. ASSUME NEW i \in Incidents, NEW act \in {"INSERT", "EDIT"}, Unmoved(i, act)'
        PROVE  Covered(i, act)'
    <3>1. CASE m.subject = "new" /\ i = m.record[1]
      <4>1. m.record = <<i, 0>>
        BY <1>5, <3>1, HonestRecord DEF PipeOK
      <4>2. \E k \in DOMAIN outbox'[p] : outbox'[p][k] = NoticeOf(i)
        BY <2>2, <3>1, <4>1 DEF NoticeOf
      <4>3. QED
        BY <1>3, <4>2, NoticeIs DEF Covered
    <3>2. CASE Covered(i, act) /\ Unmoved(i, act)
      <4>1. ASSUME NEW x, ~ Spent(x, act), NEW j \in DOMAIN stream, stream[j].id = x, stream[j].msg = NoticeOf(i)
            PROVE  \E k \in DOMAIN stream' : stream'[k].id = x /\ stream'[k].msg = NoticeOf(i)
        <5>1. CASE x = n
          <6>1. m = NoticeOf(i) /\ m.subject = "staged" /\ m.record[1] = i
            BY <1>9, <1>10, <4>1, <5>1
          <6>2. act = "INSERT" /\ req[r].step = "editing"
            BY <1>6, <1>12, <2>7, <6>1
          <6>3. Spent(x, act)
            BY <1>2, <1>4, <5>1, <6>2 DEF Spent
          <6>4. QED
            BY <4>1, <6>3
        <5>2. CASE x # n
          BY <2>2, <4>1, <5>2
        <5>3. QED
          BY <5>1, <5>2
      <4>2. QED
        BY <1>1, <2>2, <2>6, <3>2, <4>1, CoversOn
    <3>3. QED
      BY <1>6, <2>7, <3>1, <3>2 DEF Carried, Announces
  <2>8. QED
    BY <2>2, <2>5, <2>7 DEF Carried, Announces
<1>13. QED
  BY <1>11, <1>12

LEMMA AnsweredNotices ==
    ASSUME PipeOK, NoticesOnly, NEW p \in Pods, Answered(p)
    PROVE  NoticesOnly'
<1>1. CASE UNCHANGED outbox
  BY <1>1 DEF NoticesOnly
<1>2. CASE \E n : /\ outbox' = [outbox EXCEPT ![p] = Append(outbox[p], n)]
                  /\ \E s \in {"staged", "stagedUpdate"} : n = Msg(s, n.record, None)
  <2>1. PICK n : /\ outbox' = [outbox EXCEPT ![p] = Append(outbox[p], n)]
                 /\ \E s \in {"staged", "stagedUpdate"} : n = Msg(s, n.record, None)
    BY <1>2
  <2>2. outbox'[p] = Append(outbox[p], n) /\ \A q \in Pods : q # p => outbox'[q] = outbox[q]
    BY <2>1 DEF PipeOK, OutboxOK
  <2>3. \A k \in DOMAIN outbox'[p] : outbox'[p][k] = n \/ (k \in DOMAIN outbox[p] /\ outbox'[p][k] = outbox[p][k])
    <3>1. PICK S : outbox[p] \in Seq(S)
      BY DEF PipeOK, OutboxOK
    <3>2. outbox[p] \in Seq(S \cup {n})
      BY <3>1
    <3>3. QED
      BY <2>2, <3>2
  <2>4. ASSUME NEW q \in Pods, NEW k \in DOMAIN outbox'[q]
        PROVE  \E s \in {"staged", "stagedUpdate"} : outbox'[q][k] = Msg(s, outbox'[q][k].record, None)
    <3>1. CASE q = p
      BY <2>1, <2>3, <2>4, <3>1 DEF NoticesOnly
    <3>2. CASE q # p
      BY <2>2, <2>4, <3>2 DEF NoticesOnly
    <3>3. QED
      BY <3>1, <3>2
  <2>5. \A s, x : Msg(s, x, None)' = Msg(s, x, None)
    BY DEF Msg
  <2>6. QED
    BY <2>4, <2>5 DEF NoticesOnly
<1>3. QED
  <2> DEFINE n == Notice(job[p].msg)
  <2>1. \E s \in {"staged", "stagedUpdate"} : n = Msg(s, n.record, None)
    <3>1. n.record = job[p].msg.record
      BY DEF Notice, Msg
    <3>2. QED
      BY <3>1 DEF Notice
  <2>2. UNCHANGED outbox \/ outbox' = [outbox EXCEPT ![p] = Append(outbox[p], n)]
    BY DEF Answered
  <2> HIDE DEF n
  <2>3. QED
    BY <1>1, <1>2, <2>1, <2>2

LEMMA NoticesStep ==
    ASSUME PipeOK, NoticesOnly, [PipelineNext]_pipelineVars
    PROVE  NoticesOnly'
<1>1. CASE UNCHANGED outbox
  BY <1>1 DEF NoticesOnly
<1>2. ASSUME NEW p \in Pods, Answered(p)
      PROVE  NoticesOnly'
  BY <1>2, AnsweredNotices
<1>3. ASSUME NEW p \in Pods, PublishNotice(p)
      PROVE  NoticesOnly'
  <2>1. outbox' = [outbox EXCEPT ![p] = Tail(outbox[p])] /\ outbox[p] # <<>>
    BY <1>3 DEF PublishNotice
  <2>2. outbox'[p] = Tail(outbox[p]) /\ \A q \in Pods : q # p => outbox'[q] = outbox[q]
    BY <2>1 DEF PipeOK, OutboxOK
  <2>3. \A k \in DOMAIN outbox'[p] : k + 1 \in DOMAIN outbox[p] /\ outbox'[p][k] = outbox[p][k + 1]
    <3>1. PICK S : outbox[p] \in Seq(S)
      BY DEF PipeOK, OutboxOK
    <3>2. \A k \in DOMAIN Tail(outbox[p]) : k + 1 \in DOMAIN outbox[p] /\ Tail(outbox[p])[k] = outbox[p][k + 1]
      BY <2>1, <3>1
    <3>3. QED
      BY <2>2, <3>2
  <2>4. ASSUME NEW q \in Pods, NEW k \in DOMAIN outbox'[q]
        PROVE  outbox'[q][k] \in {Msg(s, outbox'[q][k].record, None) : s \in {"staged", "stagedUpdate"}}
    <3>1. CASE q = p
      BY <2>3, <2>4, <3>1 DEF NoticesOnly
    <3>2. CASE q # p
      BY <2>2, <2>4, <3>2 DEF NoticesOnly
    <3>3. QED
      BY <3>1, <3>2
  <2>5. \A s, x : Msg(s, x, None)' = Msg(s, x, None)
    BY DEF Msg
  <2>6. QED
    BY <2>4, <2>5 DEF NoticesOnly
<1>4. ASSUME NEW p \in Pods, Crash(p)
      PROVE  NoticesOnly'
  <2>1. outbox' = [outbox EXCEPT ![p] = <<>>]
    BY <1>4 DEF Crash
  <2>2. \A q \in Pods : outbox'[q] = outbox[q] \/ DOMAIN outbox'[q] = {}
    BY <2>1 DEF PipeOK, OutboxOK
  <2>3. QED
    BY <2>2 DEF NoticesOnly, Msg
<1>5. ASSUME NEW p \in Pods, Handler(p)
      PROVE  UNCHANGED outbox \/ Answered(p)
  BY <1>5 DEF Handler, Take, Ack, Nak, Call
<1>6. ASSUME NEW r \in Requests, Serve(r) \/ BackendFails(r)
      PROVE  UNCHANGED outbox \/ \E p \in Pods : Answered(p)
  BY <1>6 DEF Serve, BackendFails, Waiting
<1>7. ASSUME NEW p \in Pods, AckFails(p) \/ CallFails(p)
      PROVE  UNCHANGED outbox
  BY <1>7 DEF AckFails, CallFails
<1>8. ASSUME NEW w \in Pollers, Poll(w) \/ PollFails(w)
      PROVE  UNCHANGED outbox
  BY <1>8 DEF Poll, Fetch, PublishFetched, PollFails
<1>9. ASSUME Tick \/ Forget \/ Redeliver \/ RedeliverEarly
             \/ (\E x \in Records : \E c \in Versions(x) : Enter(x, c)) \/ UNCHANGED pipelineVars
      PROVE  UNCHANGED outbox
  BY <1>9 DEF Tick, Forget, Redeliver, RedeliverEarly, Enter, pipelineVars, pods
<1>10. QED
  BY <1>1, <1>2, <1>3, <1>4, <1>5, <1>6, <1>7, <1>8, <1>9 DEF PipelineNext

----------------------------------------------------------------------------
NoticeInv == faults \in Nat /\ NoticesOnly /\ (faults = 0 => Carried)

LEMMA NoticeStep ==
    ASSUME PInv, NoticeInv, [PipelineNext]_pipelineVars
    PROVE  NoticeInv'
<1>1. NoticesOnly'
  BY NoticesStep DEF PInv, NoticeInv
<1>2. CASE Fault
  <2>1. faults' \in Nat /\ faults' # 0
    BY <1>2 DEF Fault, NoticeInv
  <2>2. QED
    BY <1>1, <2>1 DEF NoticeInv
<1>3. CASE UNCHANGED faults /\ (faults = 0 => Carried')
  BY <1>1, <1>3 DEF NoticeInv
<1>4. PipeOK /\ TypeOK /\ (faults = 0 => Carried) /\ NoticesOnly
  BY DEF PInv, IInv, NoticeInv
<1>5. ASSUME NEW p \in Pods, Handler(p)
      PROVE  UNCHANGED faults /\ (faults = 0 => Carried')
  <2>1. UNCHANGED faults
    BY <1>5 DEF Handler, Take, Ack, Call, Nak
  <2>2. Carried => ~ Nak(p)
    BY DEF Carried, Taken, Works, Nak, Free
  <2>3. QED
    BY <1>4, <1>5, <2>1, <2>2, TakeCarries, AckCarries, CallCarries DEF Handler
<1>6. ASSUME NEW p \in Pods, PublishNotice(p)
      PROVE  UNCHANGED faults /\ (faults = 0 => Carried')
  <2>1. UNCHANGED faults
    BY <1>6 DEF PublishNotice
  <2>2. QED
    BY <1>4, <1>6, <2>1, NoticeCarries
<1>7. ASSUME NEW p \in Pods, AckFails(p) \/ CallFails(p) \/ Crash(p)
      PROVE  Fault
  BY <1>7 DEF AckFails, CallFails, Crash
<1>8. ASSUME NEW w \in Pollers, Poll(w)
      PROVE  UNCHANGED faults /\ (faults = 0 => Carried')
  <2>1. CASE PublishFetched(w)
    BY <1>4, <2>1, PublishCarries DEF PublishFetched
  <2>2. CASE Fetch(w)
    BY <1>4, <2>2, Still DEF Fetch, dbVars, bus
  <2>3. QED
    BY <1>8, <2>1, <2>2 DEF Poll
<1>9. ASSUME NEW w \in Pollers, PollFails(w)
      PROVE  Fault
  BY <1>9 DEF PollFails
<1>10. ASSUME NEW r \in Requests, Serve(r)
       PROVE  UNCHANGED faults /\ (faults = 0 => Carried')
  <2>1. UNCHANGED faults
    BY <1>10 DEF Serve
  <2>2. QED
    BY <1>4, <1>10, <2>1, ServeCarries
<1>11. ASSUME NEW r \in Requests, BackendFails(r)
       PROVE  Fault
  BY <1>11 DEF BackendFails
<1>12. CASE \E x \in Records : \E c \in Versions(x) : Enter(x, c)
  <2>1. UNCHANGED <<staging, req, stream, job, outbox, dropped, faults>>
    BY <1>12 DEF Enter, dbVars, bus, pods
  <2>2. QED
    BY <1>3, <1>4, <2>1, Still
<1>13. CASE Tick \/ Forget
  <2>1. UNCHANGED <<staging, req, stream, job, outbox, dropped, faults>>
    BY <1>13 DEF Tick, Forget, dbVars, pods
  <2>2. QED
    BY <1>3, <1>4, <2>1, Still
<1>14. CASE Redeliver
  <2>1. UNCHANGED faults
    BY <1>14 DEF Redeliver
  <2>2. QED
    BY <1>3, <1>4, <1>14, <2>1, RedeliverCarries
<1>15. CASE RedeliverEarly
  BY <1>2, <1>15 DEF RedeliverEarly
<1>16. CASE UNCHANGED pipelineVars
  <2>1. UNCHANGED <<staging, req, stream, job, outbox, dropped, faults>>
    BY <1>16 DEF pipelineVars, dbVars, bus, pods
  <2>2. QED
    BY <1>3, <1>4, <2>1, Still
<1>17. QED
  BY <1>2, <1>3, <1>5, <1>6, <1>7, <1>8, <1>9, <1>10, <1>11, <1>12, <1>13, <1>14, <1>15, <1>16 DEF PipelineNext

\* For any number of pods, polls, requests and messages: however they
\* interleave, as long as nothing fails, a staged complaint that is PENDING has
\* its notice in the stream or about to be published, or the stream has taken
\* the last one for a duplicate.
THEOREM PendingHasNoticeThm == PipelineSpec => []PendingHasNotice
<1>1. PipelineInit => NoticeInv
  <2> SUFFICES ASSUME PipelineInit
               PROVE  NoticeInv
    OBVIOUS
  <2>1. (\A p \in Pods : job[p] = Free /\ DOMAIN outbox[p] = {}) /\ faults = 0
    BY DEF PipelineInit
  <2>2. DOMAIN stream = {} /\ DOMAIN staging = {} /\ \A r \in Requests : req[r] = Idle
    BY DEF PipelineInit, Init
  <2>3. Taken /\ Serving /\ Announces /\ NoticesOnly
    BY <2>1, <2>2 DEF Taken, IdsDiffer, Serving, Announces, Unmoved, NoticesOnly, WaitsFor, Works
  <2>4. QED
    BY <2>1, <2>3 DEF NoticeInv, Carried
<1>2. PInv /\ NoticeInv /\ [PipelineNext]_pipelineVars => NoticeInv'
  BY NoticeStep
<1>3. NoticeInv => PendingHasNotice
  <2>1. ASSUME NoticeInv, NEW i \in Incidents, faults = 0, Pending(Rows(i, {"INSERT", "EDIT"})) # {}
        PROVE  \/ <<i, 0>> \in dropped
               \/ \E k \in DOMAIN stream : stream[k].msg = Msg("staged", <<i, 0>>, None)
               \/ \E p \in Pods : \E k \in DOMAIN outbox[p] : outbox[p][k] = Msg("staged", <<i, 0>>, None)
    <3>1. PICK act \in {"INSERT", "EDIT"} : Unmoved(i, act)
      BY <2>1 DEF Pending, Rows, Unmoved
    <3>2. Covered(i, act)
      BY <2>1, <3>1 DEF NoticeInv, Carried, Announces
    <3>3. QED
      BY <3>2 DEF Covered, NoticeOf
  <2>2. QED
    BY <2>1, Zenon DEF PendingHasNotice
<1>4. QED
  BY <1>1, <1>2, <1>3, PInvariance, PTL DEF PipelineSpec

=============================================================================
