----------------------- MODULE ComplaintServiceProofs -----------------------
(***************************************************************************)
(* Proofs about ComplaintService, for any complaints, texts and officers,   *)
(* any number of slots, whatever the size of the pool.                      *)
(***************************************************************************)
EXTENDS ComplaintService, TLAPS

\* A request q that has its identifier has one of the identifiers, and it knows
\* which rows of its complaint are in the table c: rows are never deleted.
Knows(q, c) ==
    /\ q.step \in {"base", "detail", "read"} \/ (q.step = "connect" /\ q.kind = "update")
          => q.id \in Ids
    /\ q.step \in {"detail", "read"} \/ (q.step \in {"connect", "base"} /\ q.kind = "update")
          => c[q.id] \in Complaint
    /\ q.step = "read" /\ q.kind = "create" => c[q.id].detail \in Texts

\* The inductive invariant.
IInv == TypeOK /\ \A r \in Requests : Knows(req[r], complaint)

\* The table d has the rows of the table c, perhaps with other texts.
Extends(c, d) ==
    \A i \in Ids : c[i] \in Complaint =>
        /\ d[i] \in Complaint
        /\ c[i].detail \in Texts => d[i].detail \in Texts

----------------------------------------------------------------------------
\* The step of a request tells its kind.
LEMMA Kinds ==
    ASSUME TypeOK, NEW r \in Requests
    PROVE  /\ req[r].step \in {"connect", "base", "detail", "read"} => req[r] \in SaveReq
           /\ req[r].step \in {"find", "unassign", "insert"} => req[r] \in PostReq
<1>1. req[r] \in {Idle} \cup SaveReq \cup PostReq
  BY DEF TypeOK
<1>2. Idle.step = "idle"
  BY DEF Idle
<1>3. \A q \in SaveReq : q.step \in {"connect", "base", "detail", "read"}
  BY DEF SaveReq
<1>4. \A q \in PostReq : q.step \in {"find", "unassign", "insert"}
  BY DEF PostReq
<1>5. QED
  BY <1>1, <1>2, <1>3, <1>4

\* A request that goes on to another step stays a request.
LEMMA SaveGoesOn ==
    ASSUME NEW q \in SaveReq, NEW s \in {"connect", "base", "detail", "read"}
    PROVE  /\ [q EXCEPT !.step = s] \in SaveReq
           /\ [q EXCEPT !.step = s].step = s
           /\ [q EXCEPT !.step = s].id = q.id
           /\ [q EXCEPT !.step = s].kind = q.kind
BY DEF SaveReq

LEMMA PostGoesOn ==
    ASSUME NEW q \in PostReq, NEW s \in {"find", "unassign", "insert"}, NEW k \in Nat
    PROVE  /\ [q EXCEPT !.step = s] \in PostReq
           /\ [q EXCEPT !.step = s].step = s
           /\ [q EXCEPT !.step = s, !.seen = k] \in PostReq
           /\ [q EXCEPT !.step = s, !.seen = k].step = s
BY DEF PostReq

\* The assignments of a complaint, one of which is deactivated.
LEMMA DeactivatedOK ==
    ASSUME TypeOK, NEW i \in Ids, NEW k \in Nat
    PROVE  /\ Deactivated(i, k) \in Seq(Assignment)
           /\ DOMAIN Deactivated(i, k) = DOMAIN xref[i]
           /\ \A j \in DOMAIN xref[i] : j # k => Deactivated(i, k)[j] = xref[i][j]
<1>1. xref[i] \in Seq(Assignment) /\ Len(xref[i]) \in Nat /\ DOMAIN xref[i] = 1..Len(xref[i])
  BY DEF TypeOK
<1>2. CASE k \notin DOMAIN xref[i]
  <2>1. Deactivated(i, k) = xref[i]
    BY <1>1, <1>2 DEF Deactivated
  <2>2. QED
    BY <1>1, <2>1
<1>3. CASE k \in DOMAIN xref[i]
  <2>1. k # 0
    BY <1>1, <1>3
  <2>2. xref[i][k] \in Assignment
    BY <1>1, <1>3
  <2>3. [xref[i][k] EXCEPT !.active = FALSE] \in Assignment
    BY <2>2 DEF Assignment
  <2>4. Deactivated(i, k) = [xref[i] EXCEPT ![k] = [xref[i][k] EXCEPT !.active = FALSE]]
    BY <2>1 DEF Deactivated
  <2>5. QED
    BY <1>1, <1>3, <2>3, <2>4
<1>4. QED
  BY <1>2, <1>3
\* What a request knows stays true while rows are added and changed.
LEMMA KnowsOn ==
    ASSUME NEW q, NEW c, NEW d, Knows(q, c), Extends(c, d)
    PROVE  Knows(q, d)
BY DEF Knows, Extends

LEMMA ExtendsSelf ==
    ASSUME NEW c
    PROVE  Extends(c, c)
BY DEF Extends

\* Of a step in which one request goes on, only what it knows is to be shown.
LEMMA OneGoesOn ==
    ASSUME IInv, NEW r \in Requests, NEW q,
           req' = [req EXCEPT ![r] = q], Extends(complaint, complaint'), Knows(q, complaint')
    PROVE  \A x \in Requests : Knows(req'[x], complaint')
<1> SUFFICES ASSUME NEW x \in Requests
             PROVE  Knows(req'[x], complaint')
  OBVIOUS
<1>1. req'[x] = IF x = r THEN q ELSE req[x]
  BY DEF IInv, TypeOK
<1>2. Knows(req[x], complaint)
  BY DEF IInv
<1>3. Knows(req[x], complaint')
  BY <1>2, KnowsOn
<1>4. QED
  BY <1>1, <1>3

\* An answered request knows nothing.
LEMMA IdleKnows ==
    ASSUME NEW c
    PROVE  Knows(Idle, c)
BY DEF Knows, Idle

----------------------------------------------------------------------------
(* The inductive invariant holds initially and after every step. *)

LEMMA InitIInv ==
    ASSUME Init
    PROVE  IInv
<1>1. complaint \in [Ids -> Complaint \cup {None}]
  <2>1. PICK t \in Texts \ Refused :
           complaint = [i \in Ids |-> IF i \in Webeoc THEN [text |-> t, detail |-> t] ELSE None]
    BY DEF Init
  <2>2. [text |-> t, detail |-> t] \in Complaint
    BY DEF Complaint
  <2>3. QED
    BY <2>1, <2>2
<1>2. xref \in [Ids -> Seq(Assignment)]
  <2>1. PICK rows \in {<<>>} \cup {<<[officer |-> o, active |-> TRUE]>> : o \in Officers} :
           xref = [i \in Ids |-> IF i \in Webeoc THEN rows ELSE <<>>]
    BY DEF Init
  <2>2. CASE rows = <<>>
    BY <2>1, <2>2
  <2>3. CASE \E o \in Officers : rows = <<[officer |-> o, active |-> TRUE]>>
    <3>1. PICK o \in Officers : rows = <<[officer |-> o, active |-> TRUE]>>
      BY <2>3
    <3>2. [officer |-> o, active |-> TRUE] \in Assignment
      BY DEF Assignment
    <3>3. rows \in Seq(Assignment)
      BY <3>1, <3>2
    <3>4. QED
      BY <2>1, <3>3
  <2>4. QED
    BY <2>1, <2>2, <2>3
<1>3. seq \in Numbers /\ year \in FirstYear..LastYear /\ due \in BOOLEAN
  <2>1. FirstNumber \in Nat /\ MaxRequests \in Nat /\ FirstYear \in Nat /\ LastYear \in Nat
    BY ServiceAssumption
  <2>2. FirstYear <= LastYear
    BY ServiceAssumption
  <2>3. FirstNumber \in Numbers /\ FirstYear \in FirstYear..LastYear
    BY <2>1, <2>2 DEF Numbers
  <2>4. seq = FirstNumber /\ year = FirstYear /\ due = FALSE
    BY DEF Init
  <2>5. QED
    BY <2>3, <2>4
<1>4. 0 \in 0..MaxRequests
  BY ServiceAssumption
<1>5. QED
  BY <1>1, <1>2, <1>3, <1>4, IdleKnows DEF IInv, TypeOK, Init

\* A step in which request r becomes q.
LEMMA ReqStep ==
    ASSUME IInv, NEW r \in Requests, NEW q \in {Idle} \cup SaveReq \cup PostReq,
           req' = [req EXCEPT ![r] = q], Knows(q, complaint'),
           Extends(complaint, complaint'), complaint' \in [Ids -> Complaint \cup {None}],
           xref' \in [Ids -> Seq(Assignment)],
           seq' \in Numbers, year' = year, due' = due,
           task' \in [Requests -> {Idle} \cup Task], made' \in 0..MaxRequests
    PROVE  IInv'
<1>1. \A x \in Requests : Knows(req'[x], complaint')
  BY OneGoesOn
<1>2. TypeOK'
  BY DEF IInv, TypeOK
<1>3. QED
  BY <1>1, <1>2 DEF IInv

\* A step of a task, or of the clock: requests and complaints stay.
LEMMA OtherStep ==
    ASSUME IInv, UNCHANGED <<complaint, req, made>>,
           xref' \in [Ids -> Seq(Assignment)],
           seq' \in Numbers, year' \in FirstYear..LastYear, due' \in BOOLEAN,
           task' \in [Requests -> {Idle} \cup Task]
    PROVE  IInv'
BY DEF IInv, TypeOK

\* A request is made.
LEMMA ArrivalIInv ==
    ASSUME IInv, NEW r \in Requests, NEW q \in SaveReq \cup PostReq,
           Arrives(r), req' = [req EXCEPT ![r] = q], Knows(q, complaint),
           UNCHANGED <<data, clock, task>>
    PROVE  IInv'
<1>1. made' \in 0..MaxRequests
  BY ServiceAssumption DEF Arrives, IInv, TypeOK
<1>2. Extends(complaint, complaint')
  BY ExtendsSelf DEF data
<1>3. QED
  BY <1>1, <1>2, ReqStep DEF IInv, TypeOK, data, clock

LEMMA CreateIInv ==
    ASSUME IInv, NEW r \in Requests, NEW form \in Form, Create(r, form)
    PROVE  IInv'
<1> DEFINE q == [kind |-> "create", form |-> form, id |-> None, step |-> "connect"]
<1>1. q \in SaveReq /\ Knows(q, complaint)
  BY DEF SaveReq, Knows
<1>2. QED
  BY <1>1, ArrivalIInv DEF Create, Save

LEMMA UpdateIInv ==
    ASSUME IInv, NEW r \in Requests, NEW i \in Ids, NEW form \in Form, Update(r, i, form)
    PROVE  IInv'
<1> DEFINE q == [kind |-> "update", form |-> form, id |-> i, step |-> "connect"]
<1>1. complaint[i] \in Complaint
  BY DEF Update, IInv, TypeOK
<1>2. q \in SaveReq /\ Knows(q, complaint)
  BY <1>1 DEF SaveReq, Knows
<1>3. QED
  BY <1>2, ArrivalIInv DEF Update, Save

LEMMA PostIInv ==
    ASSUME IInv, NEW r \in Requests, NEW i \in Ids, NEW o \in Officers, Post(r, i, o)
    PROVE  IInv'
<1> DEFINE q == [kind |-> "assign", officer |-> o, id |-> i, seen |-> 0, step |-> "find"]
<1>1. q \in PostReq /\ Knows(q, complaint)
  BY DEF PostReq, Knows
<1>2. QED
  BY <1>1, ArrivalIInv DEF Post

\* A saving request goes on with its next step, or is answered.
LEMMA SaveIInv ==
    ASSUME IInv, NEW r \in Requests, NEW s \in {"base", "detail", "read"},
           req[r] \in SaveReq, GoTo(r, s) \/ Answer(r),
           GoTo(r, s) => Knows([req[r] EXCEPT !.step = s], complaint'),
           complaint' \in [Ids -> Complaint \cup {None}], Extends(complaint, complaint'),
           task' \in [Requests -> {Idle} \cup Task],
           UNCHANGED <<xref, clock, made>>
    PROVE  IInv'
<1>1. CASE GoTo(r, s)
  <2>1. [req[r] EXCEPT !.step = s] \in SaveReq
    BY SaveGoesOn
  <2>2. req' = [req EXCEPT ![r] = [req[r] EXCEPT !.step = s]]
    BY <1>1 DEF GoTo
  <2>3. QED
    BY <1>1, <2>1, <2>2, ReqStep DEF IInv, TypeOK, clock
<1>2. CASE Answer(r)
  BY <1>2, IdleKnows, ReqStep DEF Answer, IInv, TypeOK, clock
<1>3. QED
  BY <1>1, <1>2

LEMMA ConnectIInv ==
    ASSUME IInv, NEW r \in Requests, Connect(r)
    PROVE  IInv'
<1>1. req[r] \in SaveReq /\ req[r].step = "connect" /\ req[r].kind = "update"
  BY Kinds DEF IInv, Connect, At
<1>2. Knows(req[r], complaint)
  BY DEF IInv
<1>3. Knows([req[r] EXCEPT !.step = "base"], complaint)
  BY <1>1, <1>2, SaveGoesOn DEF Knows
<1>4. QED
  BY <1>1, <1>3, SaveIInv, ExtendsSelf DEF Connect, IInv, TypeOK, data

LEMMA NextNumberIInv ==
    ASSUME IInv, NEW r \in Requests, NextNumber(r)
    PROVE  IInv'
<1> DEFINE q == [req[r] EXCEPT !.step = "base", !.id = <<year, seq>>]
<1>1. req[r] \in SaveReq /\ req[r].step = "connect" /\ req[r].kind = "create"
  BY Kinds DEF IInv, NextNumber, At
<1>2. <<year, seq>> \in Ids
  BY DEF IInv, TypeOK, Ids
<1>3. q \in SaveReq /\ q.step = "base" /\ q.id \in Ids /\ q.kind = "create"
  BY <1>1, <1>2 DEF SaveReq
<1>4. Knows(q, complaint')
  BY <1>3 DEF Knows
<1>5. req' = [req EXCEPT ![r] = q]
  BY DEF NextNumber
<1>6. QED
  BY <1>3, <1>4, <1>5, ReqStep, ExtendsSelf DEF NextNumber, IInv, TypeOK, data

\* The assignment a form asks for becomes a task.
LEMMA DelegateOK ==
    ASSUME TypeOK, NEW r \in Requests, NEW i \in Ids, req[r] \in SaveReq, Delegate(r, i)
    PROVE  task' \in [Requests -> {Idle} \cup Task]
<1> DEFINE a == req[r].form.assign
<1>1. a \in Assignment \cup {None}
  BY DEF SaveReq, Form
<1>2. CASE UNCHANGED task
  BY <1>2 DEF TypeOK
<1>3. CASE a # None /\ Assign(r, i, a)
  <2>1. [step |-> "connect", id |-> i, assign |-> a, seen |-> 0] \in Task
    BY <1>1, <1>3 DEF Task
  <2>2. QED
    BY <1>3, <2>1 DEF Assign, TypeOK
<1>4. QED
  BY <1>2, <1>3 DEF Delegate

LEMMA SaveBaseIInv ==
    ASSUME IInv, NEW r \in Requests, SaveBase(r)
    PROVE  IInv'
<1> DEFINE i == req[r].id
           t == req[r].form.text
           row == IF complaint[i] = None THEN [text |-> t, detail |-> None]
                                         ELSE [complaint[i] EXCEPT !.text = t]
<1>1. req[r] \in SaveReq /\ req[r].step = "base"
  BY Kinds DEF IInv, SaveBase, At
<1>2. i \in Ids
  BY <1>1 DEF IInv, Knows
<1>3. t \in Texts
  BY <1>1 DEF SaveReq, Form
<1>4. complaint' = [complaint EXCEPT ![i] = row]
  BY DEF SaveBase
<1>5. row \in Complaint /\ (complaint[i] \in Complaint => row.detail = complaint[i].detail)
  <2>1. CASE complaint[i] = None
    BY <2>1, <1>3, NoneAssumption DEF Complaint
  <2>2. CASE complaint[i] # None
    <3>1. complaint[i] \in Complaint
      BY <2>2, <1>2 DEF IInv, TypeOK
    <3>2. QED
      BY <2>2, <3>1, <1>3 DEF Complaint
  <2>3. QED
    BY <2>1, <2>2
<1>6. complaint' \in [Ids -> Complaint \cup {None}] /\ complaint'[i] \in Complaint
  BY <1>2, <1>4, <1>5 DEF IInv, TypeOK
<1>7. Extends(complaint, complaint')
  BY <1>2, <1>4, <1>5 DEF Extends, IInv, TypeOK
<1>8. Knows([req[r] EXCEPT !.step = "detail"], complaint')
  BY <1>1, <1>2, <1>6, SaveGoesOn DEF Knows
<1>9. task' \in [Requests -> {Idle} \cup Task]
  BY <1>1, <1>2, DelegateOK DEF SaveBase, IInv
<1>10. QED
  BY <1>1, <1>6, <1>7, <1>8, <1>9, SaveIInv DEF SaveBase

LEMMA SaveDetailIInv ==
    ASSUME IInv, NEW r \in Requests, SaveDetail(r)
    PROVE  IInv'
<1> DEFINE i == req[r].id
           t == req[r].form.text
           q == [req[r] EXCEPT !.step = "read"]
<1>1. req[r] \in SaveReq /\ req[r].step = "detail"
  BY Kinds DEF IInv, SaveDetail, At
<1>2. i \in Ids /\ complaint[i] \in Complaint
  BY <1>1 DEF IInv, Knows
<1>3. t \in Texts
  BY <1>1 DEF SaveReq, Form
<1>4. q.step = "read" /\ q.id = i /\ q.kind = req[r].kind
  BY <1>1, SaveGoesOn
<1>5. task' \in [Requests -> {Idle} \cup Task] /\ UNCHANGED <<xref, clock, made>>
  BY DEF SaveDetail, IInv, TypeOK
<1>6. CASE complaint' = [complaint EXCEPT ![i].detail = t] /\ GoTo(r, "read")
  <2>1. [complaint[i] EXCEPT !.detail = t] \in Complaint
        /\ [complaint[i] EXCEPT !.detail = t].detail = t
    BY <1>2, <1>3 DEF Complaint
  <2>2. complaint' = [complaint EXCEPT ![i] = [complaint[i] EXCEPT !.detail = t]]
    BY <1>6
  <2>3. complaint' \in [Ids -> Complaint \cup {None}]
        /\ complaint'[i] \in Complaint /\ complaint'[i].detail \in Texts
    BY <1>2, <1>3, <2>1, <2>2 DEF IInv, TypeOK
  <2>4. Extends(complaint, complaint')
    BY <1>2, <2>2, <2>3 DEF Extends, IInv, TypeOK
  <2>5. Knows(q, complaint')
    BY <1>2, <1>4, <2>3 DEF Knows
  <2>6. QED
    BY <1>1, <1>5, <1>6, <2>3, <2>4, <2>5, SaveIInv
<1>7. CASE Answer(r) /\ UNCHANGED complaint
  <2>1. ~ GoTo(r, "read")
    <3>1. Idle.step # "read"
      BY DEF Idle
    <3>2. QED
      BY <1>1, <1>4, <1>7, <3>1 DEF GoTo, Answer, IInv, TypeOK
  <2>2. QED
    BY <1>1, <1>5, <1>7, <2>1, ExtendsSelf, SaveIInv DEF IInv, TypeOK
<1>8. CASE req[r].kind = "update" /\ GoTo(r, "read") /\ UNCHANGED complaint
  <2>1. Knows(q, complaint')
    BY <1>2, <1>4, <1>8 DEF Knows
  <2>2. QED
    BY <1>1, <1>5, <1>8, <2>1, ExtendsSelf, SaveIInv DEF IInv, TypeOK
<1>9. QED
  BY <1>6, <1>7, <1>8 DEF SaveDetail

LEMMA ReadIInv ==
    ASSUME IInv, NEW r \in Requests, Read(r) \/ StatementFails(r)
    PROVE  IInv'
<1>1. Answer(r) /\ UNCHANGED <<data, clock, task, made>>
  BY DEF Read, StatementFails
<1>2. QED
  BY <1>1, IdleKnows, ExtendsSelf, ReqStep DEF Answer, IInv, TypeOK, data, clock

LEMMA PostFindIInv ==
    ASSUME IInv, NEW r \in Requests, PostFind(r)
    PROVE  IInv'
<1>1. req[r] \in PostReq
  BY Kinds DEF IInv, PostFind, At
<1>2. PICK k \in {0} \cup Active(req[r].id) :
         req' = [req EXCEPT ![r] = [@ EXCEPT !.step = IF k = 0 THEN "insert" ELSE "unassign", !.seen = k]]
  BY DEF PostFind
<1>3. k \in Nat
  <2>1. req[r].id \in Ids
    BY <1>1 DEF PostReq
  <2>2. xref[req[r].id] \in Seq(Assignment)
    BY <2>1 DEF IInv, TypeOK
  <2>3. QED
    BY <1>2, <2>2 DEF Active
<1> DEFINE s == IF k = 0 THEN "insert" ELSE "unassign"
           q == [req[r] EXCEPT !.step = s, !.seen = k]
<1>4. q \in PostReq /\ q.step = s
  <2>1. s \in {"find", "unassign", "insert"}
    OBVIOUS
  <2> HIDE DEF s
  <2>2. QED
    BY <1>1, <1>3, <2>1 DEF PostReq
<1>5. Knows(q, complaint')
  BY <1>4 DEF Knows
<1>6. req' = [req EXCEPT ![r] = q]
  BY <1>2
<1>7. QED
  BY <1>4, <1>5, <1>6, ExtendsSelf, ReqStep DEF PostFind, IInv, TypeOK, data, clock

LEMMA PostUnassignIInv ==
    ASSUME IInv, NEW r \in Requests, PostUnassign(r)
    PROVE  IInv'
<1> DEFINE q == [req[r] EXCEPT !.step = "insert"]
<1>1. req[r] \in PostReq
  BY Kinds DEF IInv, PostUnassign, At
<1>2. q \in PostReq /\ q.step = "insert"
  BY <1>1, PostGoesOn
<1>3. Knows(q, complaint')
  BY <1>2 DEF Knows
<1>4. req' = [req EXCEPT ![r] = q]
  BY DEF PostUnassign, GoTo
<1>5. Deactivated(req[r].id, req[r].seen) \in Seq(Assignment)
  BY <1>1, DeactivatedOK DEF IInv, PostReq
<1>6. xref' \in [Ids -> Seq(Assignment)]
  BY <1>5 DEF PostUnassign, IInv, TypeOK
<1>7. QED
  BY <1>2, <1>3, <1>4, <1>6, ExtendsSelf, ReqStep DEF PostUnassign, IInv, TypeOK, clock

LEMMA PostInsertIInv ==
    ASSUME IInv, NEW r \in Requests, PostInsert(r)
    PROVE  IInv'
<1> DEFINE i == req[r].id
           a == [officer |-> req[r].officer, active |-> TRUE]
<1>1. i \in Ids /\ a \in Assignment
  BY Kinds DEF IInv, PostInsert, At, PostReq, Assignment
<1>2. xref[i] \in Seq(Assignment)
  BY <1>1 DEF IInv, TypeOK
<1>3. Append(xref[i], a) \in Seq(Assignment)
  BY <1>1, <1>2
<1>4. xref' \in [Ids -> Seq(Assignment)]
  BY <1>1, <1>3 DEF PostInsert, IInv, TypeOK
<1>5. QED
  BY <1>4, IdleKnows, ExtendsSelf, ReqStep DEF PostInsert, Answer, IInv, TypeOK, clock

LEMMA TaskIInv ==
    ASSUME IInv, NEW r \in Requests, TaskConnect(r) \/ TaskFind(r) \/ TaskWrite(r)
    PROVE  IInv'
<1>1. task[r] \in {Idle} \cup Task /\ Idle.step = "idle"
  BY DEF IInv, TypeOK, Idle
<1>2. CASE TaskConnect(r)
  <2>1. [task[r] EXCEPT !.step = "find"] \in Task
    BY <1>1, <1>2 DEF TaskConnect, Task
  <2>2. task' \in [Requests -> {Idle} \cup Task]
    BY <1>2, <2>1 DEF TaskConnect, IInv, TypeOK
  <2>3. QED
    BY <1>2, <2>2, OtherStep DEF TaskConnect, IInv, TypeOK, data, clock
<1>3. CASE TaskFind(r)
  <2>1. PICK k \in {0} \cup Active(task[r].id) :
           task' = [task EXCEPT ![r] = [@ EXCEPT !.step = "write", !.seen = k]]
    BY <1>3 DEF TaskFind
  <2>2. task[r] \in Task
    BY <1>1, <1>3 DEF TaskFind
  <2>3. k \in Nat
    <3>1. xref[task[r].id] \in Seq(Assignment)
      BY <2>2 DEF IInv, TypeOK, Task
    <3>2. QED
      BY <2>1, <3>1 DEF Active
  <2>4. [task[r] EXCEPT !.step = "write", !.seen = k] \in Task
    BY <2>2, <2>3 DEF Task
  <2>5. task' \in [Requests -> {Idle} \cup Task]
    BY <2>1, <2>4 DEF IInv, TypeOK
  <2>6. QED
    BY <1>3, <2>5, OtherStep DEF TaskFind, IInv, TypeOK, data, clock
<1>4. CASE TaskWrite(r)
  <2> DEFINE i == task[r].id
             a == task[r].assign
             rest == Deactivated(i, task[r].seen)
  <2>1. task[r] \in Task
    BY <1>1, <1>4 DEF TaskWrite
  <2>2. i \in Ids /\ a \in Assignment /\ task[r].seen \in Nat
    BY <2>1 DEF Task
  <2>3. rest \in Seq(Assignment)
    BY <2>2, DeactivatedOK DEF IInv
  <2>4. Append(rest, a) \in Seq(Assignment)
    BY <2>2, <2>3
  <2>5. xref' \in [Ids -> Seq(Assignment)]
    BY <1>4, <2>2, <2>4 DEF TaskWrite, IInv, TypeOK
  <2>6. task' \in [Requests -> {Idle} \cup Task]
    BY <1>4 DEF TaskWrite, NoTask, IInv, TypeOK
  <2>7. QED
    BY <1>4, <2>5, <2>6, OtherStep DEF TaskWrite, IInv, TypeOK, clock
<1>5. QED
  BY <1>2, <1>3, <1>4

LEMMA PodEndsIInv ==
    ASSUME IInv, PodEnds
    PROVE  IInv'
<1>1. \A r \in Requests : Knows(req'[r], complaint')
  BY IdleKnows DEF PodEnds
<1>2. TypeOK'
  BY DEF PodEnds, IInv, TypeOK, data, clock
<1>3. QED
  BY <1>1, <1>2 DEF IInv

LEMMA ClockIInv ==
    ASSUME IInv, NewYear \/ ResetComplaintSequence
    PROVE  IInv'
<1>1. FirstNumber \in Numbers
  BY ServiceAssumption DEF Numbers
<1>2. CASE NewYear
  <2>1. FirstYear \in Nat /\ LastYear \in Nat
    BY ServiceAssumption
  <2>2. year + 1 \in FirstYear..LastYear
    BY <1>2, <2>1 DEF NewYear, IInv, TypeOK
  <2>3. QED
    BY <1>2, <2>2, OtherStep DEF NewYear, IInv, TypeOK, data
<1>3. CASE ResetComplaintSequence
  BY <1>1, <1>3, OtherStep DEF ResetComplaintSequence, IInv, TypeOK, data
<1>4. QED
  BY <1>2, <1>3

THEOREM StepIInv ==
    ASSUME IInv, [Next]_vars
    PROVE  IInv'
<1>1. CASE UNCHANGED vars
  BY <1>1 DEF vars, data, clock, IInv, TypeOK
<1>2. ASSUME NEW r \in Requests, Serve(r) \/ Work(r) \/ StatementFails(r)
      PROVE  IInv'
  BY <1>2, ConnectIInv, NextNumberIInv, SaveBaseIInv, SaveDetailIInv, ReadIInv, PostFindIInv,
     PostUnassignIInv, PostInsertIInv, TaskIInv, PodEndsIInv DEF Serve, Work, TaskRefused
<1>3. QED
  BY <1>1, <1>2, CreateIInv, UpdateIInv, PostIInv, PodEndsIInv, ClockIInv DEF Next

----------------------------------------------------------------------------
(* The properties of each step. *)

\* What a step does to the assignments of a complaint: nothing, the write of a
\* task, or one of the two writes of a posted assignment.
LEMMA XrefStep ==
    ASSUME [Next]_vars
    PROVE  \/ UNCHANGED xref
           \/ \E r \in Requests : TaskWrite(r) \/ PostUnassign(r) \/ PostInsert(r)
<1>1. CASE UNCHANGED vars
  BY <1>1 DEF vars, data
<1>2. ASSUME NEW r \in Requests, Serve(r) \/ Work(r) \/ StatementFails(r)
      PROVE  UNCHANGED xref \/ TaskWrite(r) \/ PostUnassign(r) \/ PostInsert(r)
  BY <1>2 DEF Serve, Work, Connect, NextNumber, SaveBase, SaveDetail, Read, PostFind,
              TaskConnect, TaskFind, TaskRefused, PodEnds, StatementFails, data
<1>3. ASSUME NEW r \in Requests, NEW i \in Ids, NEW form \in Form, NEW o \in Officers,
             Create(r, form) \/ Update(r, i, form) \/ Post(r, i, o)
      PROVE  UNCHANGED xref
  BY <1>3 DEF Create, Update, Save, Post, data
<1>4. QED
  <2>1. CASE \E r \in Requests, form \in Form : Create(r, form)
    BY <2>1 DEF Create, Save, data
  <2>2. CASE \E r \in Requests, i \in Ids, form \in Form : Update(r, i, form)
    BY <2>2 DEF Update, Save, data
  <2>3. CASE \E r \in Requests, i \in Ids, o \in Officers : Post(r, i, o)
    BY <2>3 DEF Post, data
  <2>4. CASE PodEnds \/ NewYear \/ ResetComplaintSequence
    BY <2>4 DEF PodEnds, NewYear, ResetComplaintSequence, data
  <2>5. QED
    BY <1>1, <1>2, <2>1, <2>2, <2>3, <2>4 DEF Next

\* A new assignment is active as asked for, and keeps the ones before it.
LEMMA AppendKeeps ==
    ASSUME NEW rows \in Seq(Assignment), NEW a \in Assignment
    PROVE  /\ \A k \in DOMAIN rows : k \in DOMAIN Append(rows, a) /\ Append(rows, a)[k] = rows[k]
           /\ Len(rows) + 1 \in DOMAIN Append(rows, a)
           /\ Append(rows, a)[Len(rows) + 1] = a
OBVIOUS

LEMMA TaskWriteKeeps ==
    ASSUME IInv, NEW r \in Requests, TaskWrite(r), NEW i \in Ids
    PROVE  /\ \A k \in DOMAIN xref[i] :
                 ~ (task[r].id = i /\ task[r].seen = k) => xref'[i][k] = xref[i][k]
           /\ i # task[r].id => xref'[i] = xref[i]
           /\ i = task[r].id /\ task[r].assign.active => \E k \in DOMAIN xref'[i] : xref'[i][k].active
<1> DEFINE j == task[r].id
           a == task[r].assign
           rest == Deactivated(j, task[r].seen)
<1>1. j \in Ids /\ a \in Assignment /\ task[r].seen \in Nat
  <2>1. Idle.step # "write"
    BY DEF Idle
  <2>2. task[r] \in Task
    BY <2>1 DEF IInv, TypeOK, TaskWrite
  <2>3. QED
    BY <2>2 DEF Task
<1>2. /\ rest \in Seq(Assignment)
      /\ DOMAIN rest = DOMAIN xref[j]
      /\ \A k \in DOMAIN xref[j] : k # task[r].seen => rest[k] = xref[j][k]
  BY <1>1, DeactivatedOK DEF IInv
<1>3. xref' = [xref EXCEPT ![j] = Append(rest, a)]
  BY DEF TaskWrite
<1>4. i # j => xref'[i] = xref[i]
  BY <1>3 DEF IInv, TypeOK
<1>5. xref'[j] = Append(rest, a)
  BY <1>1, <1>3 DEF IInv, TypeOK
<1>6. QED
  BY <1>1, <1>2, <1>4, <1>5, AppendKeeps

LEMMA PostUnassignKeeps ==
    ASSUME IInv, NEW r \in Requests, PostUnassign(r), NEW i \in Ids
    PROVE  /\ At(r, {"assign"}, "unassign")
           /\ \A k \in DOMAIN xref[i] :
                 ~ (req[r].id = i /\ req[r].seen = k) => xref'[i][k] = xref[i][k]
           /\ i # req[r].id => xref'[i] = xref[i]
<1>1. req[r].id \in Ids /\ req[r].seen \in Nat
  BY Kinds DEF IInv, PostUnassign, At, PostReq
<1>2. xref' = [xref EXCEPT ![req[r].id] = Deactivated(req[r].id, req[r].seen)]
  BY DEF PostUnassign
<1>3. \A k \in DOMAIN xref[req[r].id] : k # req[r].seen =>
         Deactivated(req[r].id, req[r].seen)[k] = xref[req[r].id][k]
  BY <1>1, DeactivatedOK DEF IInv
<1>4. QED
  BY <1>1, <1>2, <1>3 DEF IInv, TypeOK, PostUnassign

LEMMA PostInsertKeeps ==
    ASSUME IInv, NEW r \in Requests, PostInsert(r), NEW i \in Ids
    PROVE  \A k \in DOMAIN xref[i] : k \in DOMAIN xref'[i] /\ xref'[i][k] = xref[i][k]
<1> DEFINE j == req[r].id
           a == [officer |-> req[r].officer, active |-> TRUE]
<1>1. j \in Ids /\ a \in Assignment
  BY Kinds DEF IInv, PostInsert, At, PostReq, Assignment
<1>2. CASE UNCHANGED xref
  BY <1>2
<1>3. CASE xref' = [xref EXCEPT ![j] = Append(@, a)]
  <2>1. xref[j] \in Seq(Assignment)
    BY <1>1 DEF IInv, TypeOK
  <2>2. xref'[i] = IF i = j THEN Append(xref[j], a) ELSE xref[i]
    BY <1>1, <1>3 DEF IInv, TypeOK
  <2>3. QED
    BY <1>1, <2>1, <2>2, AppendKeeps
<1>4. QED
  BY <1>2, <1>3 DEF PostInsert

----------------------------------------------------------------------------
(* The theorems. *)

\* IInv is an invariant, in whatever order statements, tasks and failures come.
THEOREM Invariance == Spec => []IInv
<1>1. Init => IInv
  BY InitIInv
<1>2. IInv /\ [Next]_vars => IInv'
  BY StepIInv
<1>3. QED
  BY <1>1, <1>2, PTL DEF Spec

\* Rows, requests and tasks are of their types.
THEOREM TypeCorrect == Spec => []TypeOK
<1>1. IInv => TypeOK
  BY DEF IInv
<1>2. QED
  BY <1>1, Invariance, PTL

\* No assignment is ended by a request or task that had not read it, however many
\* officers use the edit form and person-complaint-xref at the same time.
THEOREM NotOverruledUnseenThm == Spec => NotOverruledUnseen
<1> DEFINE Unseen(i, k) ==
        xref[i][k].active /\ ~ xref'[i][k].active
            => \E r \in Requests : \/ task[r].step = "write" /\ task[r].id = i /\ task[r].seen = k
                                   \/ At(r, {"assign"}, "unassign") /\ req[r].id = i /\ req[r].seen = k
<1>1. ASSUME IInv, [Next]_vars, NEW i \in Ids, NEW k \in DOMAIN xref[i]
      PROVE  Unseen(i, k)
  <2>1. CASE UNCHANGED xref
    BY <2>1
  <2>2. ASSUME NEW r \in Requests, TaskWrite(r)
        PROVE  Unseen(i, k)
    <3>1. task[r].step = "write"
      BY <2>2 DEF TaskWrite
    <3>2. ~ (task[r].id = i /\ task[r].seen = k) => xref'[i][k] = xref[i][k]
      BY <1>1, <2>2, TaskWriteKeeps
    <3>3. QED
      BY <3>1, <3>2
  <2>3. ASSUME NEW r \in Requests, PostUnassign(r)
        PROVE  Unseen(i, k)
    BY <1>1, <2>3, PostUnassignKeeps
  <2>4. ASSUME NEW r \in Requests, PostInsert(r)
        PROVE  Unseen(i, k)
    BY <1>1, <2>4, PostInsertKeeps
  <2>5. QED
    BY <1>1, <2>1, <2>2, <2>3, <2>4, XrefStep
<1>2. IInv /\ [Next]_vars => [\A i \in Ids : \A k \in DOMAIN xref[i] : Unseen(i, k)]_vars
  BY <1>1
<1>3. QED
  BY <1>2, Invariance, PTL DEF Spec, NotOverruledUnseen

\* No task of the edit form leaves a complaint unassigned in between: only a
\* form that asks for it and the posted assignment do.
THEOREM NoGapThm == Spec => NoGap
<1> DEFINE Gap(i) ==
        Active(i) # {} /\ Active(i)' = {}
            => \E r \in Requests : \/ task[r].step = "write" /\ task[r].id = i /\ ~ task[r].assign.active
                                   \/ At(r, {"assign"}, "unassign") /\ req[r].id = i
<1>1. ASSUME IInv, [Next]_vars, NEW i \in Ids
      PROVE  Gap(i)
  <2>1. CASE UNCHANGED xref
    BY <2>1 DEF Active
  <2>2. ASSUME NEW r \in Requests, TaskWrite(r)
        PROVE  Gap(i)
    <3>1. task[r].step = "write"
      BY <2>2 DEF TaskWrite
    <3>2. /\ i # task[r].id => xref'[i] = xref[i]
          /\ i = task[r].id /\ task[r].assign.active => \E k \in DOMAIN xref'[i] : xref'[i][k].active
      BY <1>1, <2>2, TaskWriteKeeps
    <3>3. QED
      BY <3>1, <3>2 DEF Active
  <2>3. ASSUME NEW r \in Requests, PostUnassign(r)
        PROVE  Gap(i)
    BY <1>1, <2>3, PostUnassignKeeps DEF Active
  <2>4. ASSUME NEW r \in Requests, PostInsert(r)
        PROVE  Gap(i)
    BY <1>1, <2>4, PostInsertKeeps DEF Active
  <2>5. QED
    BY <1>1, <2>1, <2>2, <2>3, <2>4, XrefStep
<1>2. IInv /\ [Next]_vars => [\A i \in Ids : Gap(i)]_vars
  BY <1>1
<1>3. QED
  BY <1>2, Invariance, PTL DEF Spec, NoGap

\* A creation that is answered with success has left both rows, although its
\* statements commit one by one and other requests come in between.
THEOREM CreatedMeansCompleteThm == Spec => CreatedMeansComplete
<1> DEFINE Complete == \A r \in Requests :
        At(r, {"create"}, "read") /\ Read(r) => complaint[req[r].id].detail # None
<1>1. IInv => Complete
  BY ServiceAssumption DEF IInv, Knows, At
<1>2. IInv /\ [Next]_vars => [Complete]_vars
  BY <1>1
<1>3. QED
  BY <1>2, Invariance, PTL DEF Spec, CreatedMeansComplete
=============================================================================
