-------------------------- MODULE ComplaintService --------------------------
(***************************************************************************)
(* The officers' side of the backend: creating a complaint, saving the edit *)
(* form of a complaint, and assigning an officer, in one pod of the backend *)
(* with its pool of database connections.                                   *)
(*                                                                          *)
(* A create or update request opens a transaction on a connection of its    *)
(* own, but its writes go through repositories, which take another          *)
(* connection for each statement and commit at once.  The assignment it     *)
(* asks for is not awaited: it goes on as a task by itself, with a          *)
(* transaction on yet another connection.  So each statement is a step, a   *)
(* step waits until the pool has a connection for it, and other requests    *)
(* see everything in between.                                               *)
(*                                                                          *)
(* A complaint is reduced to the text of its complaint row and that of its  *)
(* hwcr_complaint or allegation_complaint row, and to its assignments.      *)
(***************************************************************************)
EXTENDS Naturals, Sequences, FiniteSets

CONSTANTS
    Texts,           \* what the edit form may hold
    Refused,         \* those the detail table refuses, as an unknown code
    Officers,        \* persons that complaints are assigned to
    Requests,        \* slots: a request and the task it leaves behind
    None,            \* "no such row", "no assignment asked for"
    Webeoc,          \* identifiers of complaints that came from WebEOC
    PoolSize,        \* connections of the pool (10 in pg)
    FirstNumber,     \* SEQ_RESET_VALUE
    FirstYear,
    LastYear,        \* bound: years
    MaxRequests      \* bound: requests made

ASSUME ServiceAssumption ==
    /\ Refused \subseteq Texts
    /\ None \notin Texts
    /\ {PoolSize, FirstNumber, FirstYear, LastYear, MaxRequests} \subseteq Nat
    /\ FirstYear <= LastYear

VARIABLES
    complaint,  \* per identifier, the complaint row and its detail row
    xref,       \* per identifier, person_complaint_xref: its assignments in order
    seq,        \* next value of complaint_sequence
    year,       \* the year on the clock
    due,        \* the yearly reset of the sequence is still to come
    req,        \* per slot, the request in progress
    task,       \* per slot, the assignment under way that nobody awaits
    made        \* number of requests so far

data   == <<complaint, xref>>
clock  == <<seq, year, due>>
vars   == <<data, clock, req, task, made>>

Numbers    == FirstNumber..(FirstNumber + MaxRequests)
Ids        == Webeoc \cup ((FirstYear..LastYear) \X Numbers)
Complaint  == [text : Texts, detail : Texts \cup {None}]
Assignment == [officer : Officers, active : BOOLEAN]

ASSUME NoneAssumption == None \notin Complaint

\* delegates of the form: none, an active assignee, or one to be unassigned.
Form == [text : Texts, assign : Assignment \cup {None}]

Idle     == [step |-> "idle"]
SaveReq  == [kind : {"create", "update"}, form : Form, id : Ids \cup {None},
             step : {"connect", "base", "detail", "read"}]
PostReq  == [kind : {"assign"}, officer : Officers, id : Ids, seen : Nat,
             step : {"find", "unassign", "insert"}]
Task     == [step : {"connect", "find", "write"}, id : Ids, assign : Assignment, seen : Nat]

\* Rows, requests and tasks are of their types.
TypeOK ==
    /\ complaint \in [Ids -> Complaint \cup {None}]
    /\ xref \in [Ids -> Seq(Assignment)]
    /\ seq \in Numbers /\ year \in FirstYear..LastYear /\ due \in BOOLEAN
    /\ req \in [Requests -> {Idle} \cup SaveReq \cup PostReq]
    /\ task \in [Requests -> {Idle} \cup Task]
    /\ made \in 0..MaxRequests

\* Complaints from WebEOC are there and may have been assigned.
Init ==
    /\ \E t \in Texts \ Refused :
          complaint = [i \in Ids |-> IF i \in Webeoc THEN [text |-> t, detail |-> t] ELSE None]
    /\ \E rows \in {<<>>} \cup {<<[officer |-> o, active |-> TRUE]>> : o \in Officers} :
          xref = [i \in Ids |-> IF i \in Webeoc THEN rows ELSE <<>>]
    /\ seq = FirstNumber /\ year = FirstYear /\ due = FALSE
    /\ req = [r \in Requests |-> Idle]
    /\ task = [r \in Requests |-> Idle]
    /\ made = 0

----------------------------------------------------------------------------
(* The pool.  createQueryRunner takes no connection, connect does; release  *)
(* gives it back.  A request keeps its connection while it waits for        *)
(* another one.                                                             *)

ReqHolds(q) ==
    \/ q.step \in {"base", "detail", "read"}
    \/ q.step = "insert" /\ q.seen # 0
TaskHolds(t) == t.step \in {"find", "write"}

InUse == Cardinality({r \in Requests : ReqHolds(req[r])})
       + Cardinality({r \in Requests : TaskHolds(task[r])})

\* Mutant of Free: one connection was never released.
FreeLeaked == InUse + 1 < PoolSize

Free == InUse < PoolSize

At(r, kinds, step) == req[r].step = step /\ req[r].kind \in kinds
GoTo(r, step)      == req' = [req EXCEPT ![r].step = step]
Answer(r)          == req' = [req EXCEPT ![r] = Idle]
Arrives(r)         == req[r] = Idle /\ task[r] = Idle /\ made < MaxRequests /\ made' = made + 1
Saves              == {"create", "update"}

----------------------------------------------------------------------------
(* Assignments. *)

Active(i) == {k \in DOMAIN xref[i] : xref[i][k].active}

\* save of the row read earlier, with active_ind = false.
Deactivated(i, k) == IF k = 0 THEN xref[i] ELSE [xref[i] EXCEPT ![k].active = FALSE]

\* findByComplaint
Seen(i, k) == IF Active(i) = {} THEN k = 0 ELSE k \in Active(i)

\* The unique index on the active row of a complaint admits a.
Admits(rows, a) == a.active => \A k \in DOMAIN rows : ~ rows[k].active

Assign(r, i, a) == task' = [task EXCEPT ![r] = [step |-> "connect", id |-> i, assign |-> a, seen |-> 0]]
NoTask(r)       == task' = [task EXCEPT ![r] = Idle]

\* What the saved form asks for: nothing, or an assignment nobody awaits.
\* A creation only looks at an active assignee.
Delegate(r, i) ==
    LET a == req[r].form.assign IN
    IF a = None \/ (req[r].kind = "create" /\ ~ a.active) THEN UNCHANGED task ELSE Assign(r, i, a)

TaskConnect(r) ==
    /\ task[r].step = "connect"
    /\ Free
    /\ task' = [task EXCEPT ![r].step = "find"]
    /\ UNCHANGED <<data, clock, req, made>>

\* Mutant of TaskFind: the row it finds is deactivated outside the transaction.
TaskFindDeactivates(r) ==
    /\ task[r].step = "find"
    /\ Free
    /\ \E k \in {0} \cup Active(task[r].id) :
          /\ Seen(task[r].id, k)
          /\ task' = [task EXCEPT ![r] = [@ EXCEPT !.step = "write", !.seen = k]]
          /\ xref' = [xref EXCEPT ![task[r].id] = Deactivated(task[r].id, k)]
    /\ UNCHANGED <<complaint, clock, req, made>>

\* findByComplaint through the repository, outside the transaction.
TaskFind(r) ==
    /\ task[r].step = "find"
    /\ Free
    /\ \E k \in {0} \cup Active(task[r].id) :
          /\ Seen(task[r].id, k)
          /\ task' = [task EXCEPT ![r] = [@ EXCEPT !.step = "write", !.seen = k]]
    /\ UNCHANGED <<data, clock, req, made>>

\* Mutant of TaskWrite: any active row is deactivated, the one read or not.
TaskWriteBlind(r) ==
    LET i == task[r].id
        a == task[r].assign
    IN /\ task[r].step = "write"
       /\ xref' = [xref EXCEPT ![i] = Append([k \in DOMAIN @ |-> [@[k] EXCEPT !.active = FALSE]], a)]
       /\ NoTask(r)
       /\ UNCHANGED <<complaint, clock, req, made>>

\* The transaction: the row read is deactivated, the new one inserted, which
\* the unique index refuses if another assignment came first.
TaskWrite(r) ==
    LET i    == task[r].id
        a    == task[r].assign
        rest == Deactivated(i, task[r].seen)
    IN /\ task[r].step = "write"
       /\ Admits(rest, a)
       /\ xref' = [xref EXCEPT ![i] = Append(rest, a)]
       /\ NoTask(r)
       /\ UNCHANGED <<complaint, clock, req, made>>

\* The pod ends, by itself or because a task is rejected, which nobody
\* handles.  Requests, tasks and connections are gone.
PodEnds ==
    /\ req' = [r \in Requests |-> Idle]
    /\ task' = [r \in Requests |-> Idle]
    /\ UNCHANGED <<data, clock, made>>

TaskRefused(r) ==
    /\ task[r].step = "write"
    /\ ~ Admits(Deactivated(task[r].id, task[r].seen), task[r].assign)
    /\ PodEnds

----------------------------------------------------------------------------
(* POST person-complaint-xref: assignOfficer, awaited, on a query runner on *)
(* which no transaction was started: each save commits by itself.           *)

Post(r, i, o) ==
    /\ Arrives(r)
    /\ complaint[i] # None
    /\ req' = [req EXCEPT ![r] = [kind |-> "assign", officer |-> o, id |-> i, seen |-> 0, step |-> "find"]]
    /\ UNCHANGED <<data, clock, task>>

PostFind(r) ==
    /\ At(r, {"assign"}, "find")
    /\ Free
    /\ \E k \in {0} \cup Active(req[r].id) :
          /\ Seen(req[r].id, k)
          /\ req' = [req EXCEPT ![r] = [@ EXCEPT !.step = IF k = 0 THEN "insert" ELSE "unassign", !.seen = k]]
    /\ UNCHANGED <<data, clock, task, made>>

PostUnassign(r) ==
    /\ At(r, {"assign"}, "unassign")
    /\ Free
    /\ xref' = [xref EXCEPT ![req[r].id] = Deactivated(req[r].id, req[r].seen)]
    /\ GoTo(r, "insert")
    /\ UNCHANGED <<complaint, clock, task, made>>

\* Refused by the unique index, the insert leaves the deactivation as it is.
PostInsert(r) ==
    LET i == req[r].id
        a == [officer |-> req[r].officer, active |-> TRUE]
    IN /\ At(r, {"assign"}, "insert")
       /\ req[r].seen # 0 \/ Free
       /\ \/ Admits(xref[i], a) /\ xref' = [xref EXCEPT ![i] = Append(@, a)]
          \/ ~ Admits(xref[i], a) /\ UNCHANGED xref
       /\ Answer(r)
       /\ UNCHANGED <<complaint, clock, task, made>>

----------------------------------------------------------------------------
(* Creating a complaint and saving its edit form. *)

Save(r, kind, i, form) ==
    /\ Arrives(r)
    /\ req' = [req EXCEPT ![r] = [kind |-> kind, form |-> form, id |-> i, step |-> "connect"]]
    /\ UNCHANGED <<data, clock, task>>

Create(r, form)    == Save(r, "create", None, form)
Update(r, i, form) == complaint[i] # None /\ Save(r, "update", i, form)

Connect(r) ==
    /\ At(r, {"update"}, "connect")
    /\ Free
    /\ GoTo(r, "base")
    /\ UNCHANGED <<data, clock, task, made>>

\* The first statement of a creation, on its own connection:
\* generateComplaintId takes nextval and then the year on the clock.
NextNumber(r) ==
    /\ At(r, {"create"}, "connect")
    /\ Free
    /\ seq + 1 \in Numbers   \* a bound: one number for each request
    /\ seq' = seq + 1
    /\ req' = [req EXCEPT ![r] = [@ EXCEPT !.step = "base", !.id = <<year, seq>>]]
    /\ UNCHANGED <<data, year, due, task, made>>

\* repository.save of a complaint whose identifier exists is an UPDATE.
SaveBase(r) ==
    LET i == req[r].id
        t == req[r].form.text
    IN /\ At(r, Saves, "base")
       /\ Free
       /\ complaint' = [complaint EXCEPT ![i] =
                           IF @ = None THEN [text |-> t, detail |-> None] ELSE [@ EXCEPT !.text = t]]
       /\ Delegate(r, i)
       /\ GoTo(r, "detail")
       /\ UNCHANGED <<xref, clock, made>>

\* Mutant of SaveDetail: its failure is not noticed.
SaveDetailUnchecked(r) ==
    LET i == req[r].id
        t == req[r].form.text
    IN /\ At(r, Saves, "detail")
       /\ Free
       /\ complaint' = IF t \in Refused THEN complaint ELSE [complaint EXCEPT ![i].detail = t]
       /\ GoTo(r, "read")
       /\ UNCHANGED <<xref, clock, task, made>>

\* A creation inserts the detail row; an update that finds none changes none.
\* If the statement fails, the transaction is rolled back, in which nothing was
\* written, the connection released and 400 answered.
SaveDetail(r) ==
    LET i == req[r].id
        t == req[r].form.text
    IN /\ At(r, Saves, "detail")
       /\ Free
       /\ \/ /\ req[r].kind = "create" \/ complaint[i].detail # None
             /\ t \notin Refused
             /\ complaint' = [complaint EXCEPT ![i].detail = t]
             /\ GoTo(r, "read")
          \/ /\ req[r].kind = "create" \/ complaint[i].detail # None
             /\ t \in Refused
             /\ Answer(r)
             /\ UNCHANGED complaint
          \/ /\ req[r].kind = "update" /\ complaint[i].detail = None
             /\ GoTo(r, "read")
             /\ UNCHANGED complaint
       /\ UNCHANGED <<xref, clock, task, made>>

\* The commit, of nothing, then findById, release in the finally block, answer.
Read(r) ==
    /\ At(r, Saves, "read")
    /\ Free
    /\ Answer(r)
    /\ UNCHANGED <<data, clock, task, made>>

\* A statement fails, as if the database were out of reach: the catch and
\* finally blocks, as in SaveDetail.
StatementFails(r) ==
    /\ req[r] # Idle
    /\ Answer(r)
    /\ UNCHANGED <<data, clock, task, made>>

----------------------------------------------------------------------------
(* The turn of the year, and the job that resets the sequence at midnight   *)
(* in UTC-8, eight hours after the prefix of the identifiers has changed.   *)

NewYear ==
    /\ year < LastYear
    /\ ~ due
    /\ year' = year + 1 /\ due' = TRUE
    /\ UNCHANGED <<data, seq, req, task, made>>

ResetComplaintSequence ==
    /\ due
    /\ seq' = FirstNumber /\ due' = FALSE
    /\ UNCHANGED <<data, year, req, task, made>>

----------------------------------------------------------------------------
Serve(r) ==
    \/ Connect(r) \/ NextNumber(r) \/ SaveBase(r) \/ SaveDetail(r) \/ Read(r)
    \/ PostFind(r) \/ PostUnassign(r) \/ PostInsert(r)
Work(r) == TaskConnect(r) \/ TaskFind(r) \/ TaskWrite(r) \/ TaskRefused(r)

Next ==
    \/ \E r \in Requests, form \in Form : Create(r, form)
    \/ \E r \in Requests, i \in Ids, form \in Form : Update(r, i, form)
    \/ \E r \in Requests, i \in Ids, o \in Officers : Post(r, i, o)
    \/ \E r \in Requests : Serve(r) \/ Work(r) \/ StatementFails(r)
    \/ PodEnds \/ NewYear \/ ResetComplaintSequence

Spec == Init /\ [][Next]_vars

\* The pool serves those that wait in the order in which they came, so that
\* nobody waits for ever while connections keep becoming free.
FairSpec == Spec /\ \A r \in Requests : SF_vars(Serve(r)) /\ SF_vars(Work(r))

----------------------------------------------------------------------------
(* Properties. *)

\* Two officers who assign a complaint at the same time do not overrule each
\* other unseen: an assignment ends only by a request or a task that had read
\* that very assignment (findByComplaint, then save of the row found).
NotOverruledUnseen ==
    [][\A i \in Ids : \A k \in DOMAIN xref[i] :
          xref[i][k].active /\ ~ xref'[i][k].active
              => \E r \in Requests : \/ task[r].step = "write" /\ task[r].id = i /\ task[r].seen = k
                                     \/ At(r, {"assign"}, "unassign") /\ req[r].id = i /\ req[r].seen = k]_vars

\* A reassignment by the edit form leaves no gap: no step of its task leaves a
\* complaint without an assignee, unless to unassign is what it was asked for.
NoGap ==
    [][\A i \in Ids :
          Active(i) # {} /\ Active(i)' = {}
              => \E r \in Requests : \/ task[r].step = "write" /\ task[r].id = i /\ ~ task[r].assign.active
                                     \/ At(r, {"assign"}, "unassign") /\ req[r].id = i]_vars

\* A creation that is answered with success has left a complete complaint,
\* its statements being in no common transaction.
CreatedMeansComplete ==
    [][\A r \in Requests :
          At(r, {"create"}, "read") /\ Read(r) => complaint[req[r].id].detail # None]_vars

\* Every connection is held by a request or a task that waits for another one.  The
\* pool has no timeout and nothing limits the requests, so this lasts until a
\* statement fails or the pod ends.
Exhausted ==
    /\ InUse >= PoolSize
    /\ \A r \in Requests : /\ req[r].step = "insert" => req[r].seen = 0
                           /\ task[r].step # "write"

\* A request and the task it left end, although each holds a connection while it
\* waits for another one: what keeps them for ever is that the others hold the
\* whole pool the same way, and nothing less.
EndsUnlessExhausted ==
    \A r \in Requests : req[r] # Idle \/ task[r] # Idle
                           ~> (req[r] = Idle /\ task[r] = Idle) \/ Exhausted
=============================================================================
