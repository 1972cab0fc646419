------------------------------ MODULE Staging ------------------------------
(***************************************************************************)
(* The staging table of the NatComplaints backend and everything that       *)
(* reads or writes it: the StagingComplaintService, which stages what       *)
(* WebEOC sends, and the stored procedures, which move staged rows to the   *)
(* operational tables complaint and complaint_update.                       *)
(*                                                                          *)
(* An HTTP request of the staging API runs in one of the slots Requests.    *)
(* Two slots stand for two requests that overlap, whichever pods of webeoc  *)
(* sent them and whichever pods of the backend serve them.  A request is a  *)
(* handful of autocommitted statements and function calls, and what other   *)
(* requests commit between two statements is visible to the later one       *)
(* (READ COMMITTED), so each request takes a step per group of statements   *)
(* whose separation matters: the select, and the writes it leads to.        *)
(*                                                                          *)
(* The payload of a complaint is reduced to two fields, its details (text)  *)
(* and its place, and to what makes a procedure raise.  An edit writes the  *)
(* fields one by one, each only if it differs from what was read before.  An *)
(* update only logs.  What it changes in the complaint itself, such as the  *)
(* name of the caller, is left out.                                         *)
(***************************************************************************)
EXTENDS Naturals, Sequences, FiniteSets

CONSTANTS
    Incidents,       \* WebEOC incident numbers, which become complaint identifiers
    Contents,        \* payloads of a WebEOC complaint record
    UpdateNumbers,   \* update_number of the updates of a complaint
    UpdateContents,  \* payloads of a WebEOC complaint update
    Texts,           \* values of a field
    Blank,           \* the NULL or empty text
    Requests,        \* slots for the requests in progress at the staging API
    None,            \* "no such complaint"
    MaxRows          \* bound: rows of the staging table

(***************************************************************************)
(* inserts / edits: insert_complaint_from_staging, respectively             *)
(* edit_complaint_using_webeoc_complaint, accepts the payload.  They        *)
(* differ: the insert truncates a long caller name, the edit assigns it to  *)
(* a VARCHAR(120) and raises; both raise on an attractants_list that is     *)
(* NULL.  attracts: the payload lists an attractant other than              *)
(* 'Not Applicable'.                                                        *)
(***************************************************************************)
ComplaintTypes == {"HWCR", "ERS"}
Fields         == {"text", "place"}
Payloads == [text : Texts, place : Texts, type : ComplaintTypes \cup {"OTHER"},
             attracts : BOOLEAN, inserts : BOOLEAN, edits : BOOLEAN]

ASSUME ConstantsAssumption ==
    /\ Contents \subseteq Payloads
    /\ UpdateContents \subseteq [text : Texts, accepted : BOOLEAN]
    /\ UpdateNumbers \subseteq Nat \ {0}
    /\ Blank \in Texts
    /\ MaxRows \in Nat

\* What a complaint holds of a payload.
Details   == [Fields -> Texts]
Detail(c) == [f \in Fields |-> c[f]]
Live      == [content : Details, kind : ComplaintTypes]

ASSUME NoneAssumption == None \notin Details /\ None \notin Live

Statuses  == {"PENDING", "SUCCESS", "ERROR"}
Stageable == {c \in Contents : c.type \in ComplaintTypes}

\* Values of update_utc_timestamp: only their order matters.
Times == 1..(2 * MaxRows)

ComplaintRow == [incident : Incidents, activity : {"INSERT", "EDIT"}, number : {0},
                 content : Stageable, time : Times, status : Statuses]
UpdateRow    == [incident : Incidents, activity : {"UPDATE"}, number : UpdateNumbers,
                 content : UpdateContents, time : Times, status : Statuses]
Row          == ComplaintRow \cup UpdateRow

VARIABLES
    staging,    \* staging_complaint: rows in the order in which they were saved
    complaint,  \* complaint with its hwcr_complaint or allegation_complaint row
    updates,    \* complaint_update
    req         \* per slot, the request in progress

vars == <<staging, complaint, updates, req>>

LogRecord == [incident : Incidents, number : UpdateNumbers, text : Texts, source : Nat]

Idle      == [step |-> "idle"]
SaveReq   == [step : {"save"}, row : Row]
MoveReq   == [step : {"inserting", "edit", "editing"}, incident : Incidents,
              picked : Nat, was : Details \cup {None}]
UpdateReq == [step : {"updating"}, incident : Incidents, number : UpdateNumbers,
              picked : Nat, logged : BOOLEAN]

\* Rows, complaints, update records and requests are of their types: in
\* particular stageNewComplaint stages no other report type than HWCR and ERS.
TypeOK ==
    /\ staging \in Seq(Row)
    /\ complaint \in [Incidents -> Live \cup {None}]
    /\ updates \subseteq LogRecord
    /\ req \in [Requests -> {Idle} \cup SaveReq \cup MoveReq \cup UpdateReq]

Init ==
    /\ staging = <<>>
    /\ complaint = [i \in Incidents |-> None]
    /\ updates = {}
    /\ req = [r \in Requests |-> Idle]

----------------------------------------------------------------------------
(* Queries of the staging table. *)

Rows(i, acts)    == {k \in DOMAIN staging : staging[k].incident = i /\ staging[k].activity \in acts}
UpdateRows(i, n) == {k \in Rows(i, {"UPDATE"}) : staging[k].number = n}
Pending(S)       == {k \in S : staging[k].status = "PENDING"}

\* ORDER BY update_utc_timestamp DESC LIMIT 1 picks k.
IsLatest(k, S) == k \in S /\ \A j \in S : staging[j].time <= staging[k].time

\* UPDATE staging_complaint SET staging_status_code = s, for the rows S.
Marked(S, s) == [k \in DOMAIN staging |->
                    IF k \in S THEN [staging[k] EXCEPT !.status = s] ELSE staging[k]]

\* A request stamps its row before it saves it, so that rows may be saved in
\* another order than that of their timestamps.
NewTime(t) ==
    /\ \A k \in DOMAIN staging : staging[k].time < t
    /\ \A q \in Requests : req[q].step = "save" => req[q].row.time < t

NextTimes == {t \in Times : NewTime(t) /\ \A u \in Times : NewTime(u) => t <= u}

NewRow(i, act, n, c, t) == [incident |-> i, activity |-> act, number |-> n,
                            content |-> c, time |-> t, status |-> "PENDING"]

Content(i) == IF complaint[i] = None THEN None ELSE complaint[i].content
Text(i)    == IF complaint[i] = None THEN Blank ELSE complaint[i].content["text"]
Kind(i)    == IF complaint[i] = None THEN "NONE" ELSE complaint[i].kind

Finish(r) == req' = [req EXCEPT ![r] = Idle]

----------------------------------------------------------------------------
(* Staging: the select, then the save of a new PENDING row. *)

\* Mutants of StagedAs: the report type is not looked at; only PENDING rows are.
StagedAsAnyType(i, c) ==
    LET staged == Rows(i, {"INSERT", "EDIT"}) IN
    IF staged = {} THEN {"INSERT"}
    ELSE {act \in {"EDIT"} : \E k \in staged : IsLatest(k, staged) /\ staging[k].content # c}

StagedAsPendingOnly(i, c) ==
    LET staged == Pending(Rows(i, {"INSERT", "EDIT"})) IN
    IF c \notin Stageable THEN {}
    ELSE IF staged = {} THEN {"INSERT"}
    ELSE {act \in {"EDIT"} : \E k \in staged : IsLatest(k, staged) /\ staging[k].content # c}

\* What a record is staged as: other report types are ignored, the first record
\* of an incident is an INSERT, one that differs from the latest an EDIT.
StagedAs(i, c) ==
    LET staged == Rows(i, {"INSERT", "EDIT"}) IN
    IF c \notin Stageable THEN {}
    ELSE IF staged = {} THEN {"INSERT"}
    ELSE {act \in {"EDIT"} : \E k \in staged : IsLatest(k, staged) /\ staging[k].content # c}

\* POST webeoc-complaint
StageComplaint(r, i, c) ==
    /\ req[r] = Idle
    /\ \E act \in StagedAs(i, c), t \in NextTimes :
          req' = [req EXCEPT ![r] = [step |-> "save", row |-> NewRow(i, act, 0, c, t)]]
    /\ UNCHANGED <<staging, complaint, updates>>

\* An update equal to the latest staged one with its incident and number is not
\* new.  The comparison includes entrydate, so payloads differ when it does.
IsNewUpdate(i, n, u) ==
    LET staged == UpdateRows(i, n)
    IN \A k \in staged : IsLatest(k, staged) => staging[k].content # u

\* POST webeoc-complaint-update
StageUpdate(r, i, n, u) ==
    /\ req[r] = Idle
    /\ IsNewUpdate(i, n, u)
    /\ \E t \in NextTimes :
          req' = [req EXCEPT ![r] = [step |-> "save", row |-> NewRow(i, "UPDATE", n, u, t)]]
    /\ UNCHANGED <<staging, complaint, updates>>

Save(r) ==
    /\ req[r].step = "save"
    /\ Len(staging) < MaxRows
    /\ staging' = Append(staging, req[r].row)
    /\ Finish(r)
    /\ UNCHANGED <<complaint, updates>>

----------------------------------------------------------------------------
(* Moving to the operational tables. Each procedure catches every error,    *)
(* rolls its own writes back and marks the rows that are then PENDING as    *)
(* ERROR, so that its caller sees a success whatever happened.              *)

\* Another procedure is at work: check-then-insert on the code tables, which
\* all of them extend, can then fail on a unique key, or the two deadlock.
Contended(r) == \E q \in Requests \ {r} : req[q].step \in {"inserting", "editing", "updating"}

\* Without ORDER BY the PENDING INSERT row picked is an arbitrary one.
ProcessComplaint(r, i) ==
    LET pending == Pending(Rows(i, {"INSERT"})) IN
    /\ req[r] = Idle
    /\ \/ /\ pending = {}
          /\ req' = [req EXCEPT ![r] = [step |-> "edit", incident |-> i, picked |-> 0, was |-> None]]
       \/ \E k \in pending :
             req' = [req EXCEPT ![r] = [step |-> "inserting", incident |-> i, picked |-> k, was |-> None]]
    /\ UNCHANGED <<staging, complaint, updates>>

ToEdit(r) == req' = [req EXCEPT ![r] = [@ EXCEPT !.step = "edit", !.picked = 0]]

\* Mutant of InsertComplaint: an error of the insert itself is swallowed.
InsertComplaintSwallows(r) ==
    LET i == req[r].incident
        c == staging[req[r].picked].content
    IN /\ req[r].step = "inserting"
       /\ complaint[i] = None
       /\ complaint' = IF c.inserts /\ ~ Contended(r)
                       THEN [complaint EXCEPT ![i] = [content |-> Detail(c), kind |-> c.type]]
                       ELSE complaint
       /\ staging' = Marked(Rows(i, {"INSERT"}), "SUCCESS")
       /\ ToEdit(r)
       /\ UNCHANGED updates

\* All INSERT rows become SUCCESS, the one picked or not, PENDING or not.
InsertComplaint(r) ==
    LET i == req[r].incident
        c == staging[req[r].picked].content
    IN /\ req[r].step = "inserting"
       /\ complaint[i] = None
       /\ c.inserts
       /\ complaint' = [complaint EXCEPT ![i] = [content |-> Detail(c), kind |-> c.type]]
       /\ staging' = Marked(Rows(i, {"INSERT"}), "SUCCESS")
       /\ ToEdit(r)
       /\ UNCHANGED updates

\* Mutants of InsertRaises: the handler marks the rows that are not PENDING too;
\* it deletes the complaint where it should leave the rollback to the block.
InsertRaisesMarksAll(r) ==
    LET i == req[r].incident
    IN /\ req[r].step = "inserting"
       /\ complaint[i] # None \/ ~ staging[req[r].picked].content.inserts \/ Contended(r)
       /\ staging' = Marked(Rows(i, {"INSERT"}), "ERROR")
       /\ ToEdit(r)
       /\ UNCHANGED <<complaint, updates>>

InsertRaisesDeletes(r) ==
    LET i == req[r].incident
    IN /\ req[r].step = "inserting"
       /\ complaint[i] # None \/ ~ staging[req[r].picked].content.inserts \/ Contended(r)
       /\ staging' = Marked(Pending(Rows(i, {"INSERT"})), "ERROR")
       /\ complaint' = [complaint EXCEPT ![i] = None]
       /\ ToEdit(r)
       /\ UNCHANGED updates

InsertRaises(r) ==
    LET i == req[r].incident
    IN /\ req[r].step = "inserting"
       /\ \/ complaint[i] # None                        \* primary key
          \/ ~ staging[req[r].picked].content.inserts
          \/ Contended(r)
       /\ staging' = Marked(Pending(Rows(i, {"INSERT"})), "ERROR")
       /\ ToEdit(r)
       /\ UNCHANGED <<complaint, updates>>

\* Mutant of SelectEdit: the rows are ordered the other way round.
SelectEditOldest(r) ==
    LET i       == req[r].incident
        pending == Pending(Rows(i, {"EDIT"}))
    IN /\ req[r].step = "edit"
       /\ \E k \in {0} \cup pending :
             /\ IF pending = {} THEN k = 0
                ELSE k # 0 /\ \A j \in pending : staging[k].time <= staging[j].time
             /\ req' = [req EXCEPT ![r] = [@ EXCEPT !.step = "editing", !.picked = k, !.was = Content(i)]]
       /\ UNCHANGED <<staging, complaint, updates>>

\* The latest PENDING EDIT row (0: there is none) and the current complaint.
SelectEdit(r) ==
    LET i       == req[r].incident
        pending == Pending(Rows(i, {"EDIT"}))
    IN /\ req[r].step = "edit"
       /\ \E k \in {0} \cup pending :
             /\ IF pending = {} THEN k = 0 ELSE IsLatest(k, pending)
             /\ req' = [req EXCEPT ![r] = [@ EXCEPT !.step = "editing", !.picked = k, !.was = Content(i)]]
       /\ UNCHANGED <<staging, complaint, updates>>

\* The procedure goes on when it found no EDIT row: it then sets the fields of
\* the complaint that it read, and update_user_id, to NULL, which raises.
\* An attractant needs the hwcr_complaint row of the complaint, which is looked
\* up after the complaint has been read.
LacksDetail(i, c) == c.type = "HWCR" /\ c.attracts /\ Kind(i) # "HWCR"
EditMustRaise(r) ==
    LET i == req[r].incident
        k == req[r].picked
    IN IF k = 0
       THEN req[r].was # None
       ELSE ~ staging[k].content.edits \/ LacksDetail(i, staging[k].content)
EditMayRaise(r) ==
    \/ EditMustRaise(r)
    \/ Contended(r)
    \/ req[r].picked # 0 /\ staging[req[r].picked].content.attracts /\ req[r].was = None

\* Mutant of EditComplaint: columns that take NULL are cleared without an EDIT row.
EditComplaintClears(r) ==
    LET i == req[r].incident
        k == req[r].picked
    IN /\ req[r].step = "editing"
       /\ k # 0 => ~ EditMustRaise(r)
       /\ complaint' = IF complaint[i] = None THEN complaint
                       ELSE [complaint EXCEPT ![i].content =
                                IF k = 0 THEN [@ EXCEPT !["text"] = Blank] ELSE Detail(staging[k].content)]
       /\ staging' = Marked(Pending(Rows(i, {"EDIT"})), "SUCCESS")
       /\ Finish(r)
       /\ UNCHANGED updates

\* The fields of c that differ from what SelectEdit read; a complaint that it
\* did not find has only blank ones.
Revised(c, was) == {f \in Fields : c[f] # (IF was = None THEN Blank ELSE was[f])}

\* UPDATEs of a complaint that does not exist touch no row and raise nothing.
\* Each field has an UPDATE of its own, executed only if it is Revised: what
\* another request has written since then stays in the other fields.  All EDIT
\* rows PENDING by now become SUCCESS.
EditComplaint(r) ==
    LET i == req[r].incident
        k == req[r].picked
    IN /\ req[r].step = "editing"
       /\ ~ EditMustRaise(r)
       /\ complaint' = IF k = 0 \/ complaint[i] = None THEN complaint
                       ELSE [complaint EXCEPT ![i].content =
                                [f \in Fields |-> IF f \in Revised(staging[k].content, req[r].was)
                                                  THEN staging[k].content[f] ELSE @[f]]]
       /\ staging' = Marked(Pending(Rows(i, {"EDIT"})), "SUCCESS")
       /\ Finish(r)
       /\ UNCHANGED updates

EditRaises(r) ==
    LET i == req[r].incident
    IN /\ req[r].step = "editing"
       /\ EditMayRaise(r)
       /\ staging' = Marked(Pending(Rows(i, {"EDIT"})), "ERROR")
       /\ Finish(r)
       /\ UNCHANGED <<complaint, updates>>

Logged(i, n) == {x \in updates : x.incident = i /\ x.number = n}

ProcessUpdate(r, i, n) ==
    /\ req[r] = Idle
    /\ \E k \in Pending(UpdateRows(i, n)) :
          req' = [req EXCEPT ![r] = [step |-> "updating", incident |-> i, number |-> n,
                                     picked |-> k, logged |-> Logged(i, n) # {}]]
    /\ UNCHANGED <<staging, complaint, updates>>

\* The text of the complaint_update with the highest number, NULL without one.
PreviousTexts(i) ==
    LET own == {x \in updates : x.incident = i}
    IN IF own = {} THEN {Blank}
       ELSE {x.text : x \in {y \in own : \A z \in own : z.number <= y.number}}

\* log_complaint_update writes a text that neither the complaint nor the
\* previous update has.
IsNews(i, u, previous) == u.text \notin {Blank, previous, Text(i)}

\* Mutant of LogUpdate: a record is added whether or not the number has one.
LogUpdateAppends(i, n, u, k, seen) ==
    updates' = updates \cup {[incident |-> i, number |-> n, text |-> u.text, source |-> k]}

\* Overwrites the record with this number if the procedure saw one.
LogUpdate(i, n, u, k, seen) ==
    updates' = IF seen
               THEN {IF x \in Logged(i, n) THEN [x EXCEPT !.text = u.text] ELSE x : x \in updates}
               ELSE updates \cup {[incident |-> i, number |-> n, text |-> u.text, source |-> k]}

\* Mutant of ApplyUpdate: complaint_update has no foreign key.
ApplyUpdateNoKey(r) ==
    LET i == req[r].incident
        n == req[r].number
        u == staging[req[r].picked].content
    IN /\ req[r].step = "updating"
       /\ u.accepted
       /\ \E previous \in PreviousTexts(i) :
             IF IsNews(i, u, previous)
             THEN LogUpdate(i, n, u, req[r].picked, Logged(i, n) # {})
             ELSE UNCHANGED updates
       /\ staging' = Marked(UpdateRows(i, n), "SUCCESS")
       /\ Finish(r)
       /\ UNCHANGED complaint

\* Every UPDATE row with this number becomes SUCCESS, picked or not.
ApplyUpdate(r) ==
    LET i == req[r].incident
        n == req[r].number
        u == staging[req[r].picked].content
    IN /\ req[r].step = "updating"
       /\ u.accepted
       /\ \E previous \in PreviousTexts(i), seen \in {req[r].logged, Logged(i, n) # {}} :
             IF IsNews(i, u, previous)
             THEN complaint[i] # None /\ LogUpdate(i, n, u, req[r].picked, seen)
             ELSE UNCHANGED updates
       /\ staging' = Marked(UpdateRows(i, n), "SUCCESS")
       /\ Finish(r)
       /\ UNCHANGED complaint

\* complaint_update refers to complaint by a foreign key.
UpdateRaises(r) ==
    LET i == req[r].incident
        n == req[r].number
        u == staging[req[r].picked].content
    IN /\ req[r].step = "updating"
       /\ \/ ~ u.accepted
          \/ complaint[i] = None /\ \E previous \in PreviousTexts(i) : IsNews(i, u, previous)
          \/ Contended(r)
       /\ staging' = Marked(Pending(UpdateRows(i, n)), "ERROR")
       /\ Finish(r)
       /\ UNCHANGED <<complaint, updates>>

\* The backend pod or its database session ends: the statement in progress is
\* rolled back and the rest of the request is not executed.
Abort(r) ==
    /\ req[r] # Idle
    /\ Finish(r)
    /\ UNCHANGED <<staging, complaint, updates>>

----------------------------------------------------------------------------
\* Any request may arrive at any time.
Request(r) ==
    \/ \E i \in Incidents, c \in Contents : StageComplaint(r, i, c)
    \/ \E i \in Incidents, n \in UpdateNumbers, u \in UpdateContents : StageUpdate(r, i, n, u)
    \/ \E i \in Incidents : ProcessComplaint(r, i)
    \/ \E i \in Incidents, n \in UpdateNumbers : ProcessUpdate(r, i, n)

\* The request in progress goes on to its answer.
Continue(r) ==
    \/ Save(r)
    \/ InsertComplaint(r) \/ InsertRaises(r)
    \/ SelectEdit(r) \/ EditComplaint(r) \/ EditRaises(r)
    \/ ApplyUpdate(r) \/ UpdateRaises(r)

Next == \E r \in Requests : Request(r) \/ Continue(r) \/ Abort(r)

Spec == Init /\ [][Next]_vars

----------------------------------------------------------------------------
(* Properties. *)

\* Detailed specification and abstract one: however requests overlap, the
\* staging table and the procedures give a complaint first the whole of one
\* record that WebEOC submitted for its incident, then move fields of one such
\* record at a time into it, and never lose or reset it
\* (insert_complaint_from_staging, edit_complaint_using_webeoc_complaint).
\* That the fields are those of one record is not claimed: two edits that
\* overlap may each write what they found to differ.
Feed == INSTANCE ComplaintFeed WITH
    Contents  <- {Detail(c) : c \in Contents},
    submitted <- [i \in Incidents |-> {Detail(staging[k].content) : k \in Rows(i, {"INSERT", "EDIT"})}],
    shown     <- [i \in Incidents |-> Content(i)]
ImplementsFeed == Feed!Spec

\* An INSERT row that the procedures report as moved did give a complaint:
\* no interleaving of two inserts, aborts and errors marks it SUCCESS without.
InsertedIsLive ==
    \A k \in DOMAIN staging :
        staging[k].activity = "INSERT" /\ staging[k].status = "SUCCESS"
            => complaint[staging[k].incident] # None

\* Every complaint_update is the text of a staged update of the same incident
\* and number, and its complaint exists; also when several requests process
\* rows of one number, and one of them overwrites what another one logged.
LogIsGrounded ==
    \A x \in updates :
        /\ complaint[x.incident] # None
        /\ \E k \in UpdateRows(x.incident, x.number) : staging[k].content.text = x.text

\* The outcome SUCCESS is final and PENDING is never re-entered: an error of a
\* request does not touch the rows that another one has moved.
SuccessIsFinal ==
    [][\A k \in DOMAIN staging :
          /\ staging[k].status = "SUCCESS" => staging'[k].status = "SUCCESS"
          /\ staging[k].status = "ERROR" => staging'[k].status # "PENDING"]_vars

\* An incident has at most one INSERT row: stageNewComplaint recognises what
\* it has staged before.
OneInsert ==
    \A j, k \in DOMAIN staging :
        staging[j].activity = "INSERT" /\ staging[k].activity = "INSERT"
            /\ staging[j].incident = staging[k].incident => j = k

\* At rest, a complaint shows the latest record staged for it, those that the
\* procedures rejected left aside.
Settled(i) ==
    /\ complaint[i] # None
    /\ Pending(Rows(i, {"INSERT", "EDIT"})) = {}
    /\ req = [r \in Requests |-> Idle]
LatestEditWins ==
    \A i \in Incidents :
        Settled(i) => \E k \in DOMAIN staging :
            /\ IsLatest(k, {j \in Rows(i, {"INSERT", "EDIT"}) : staging[j].status = "SUCCESS"})
            /\ Detail(staging[k].content) = complaint[i].content

\* The update log has one record per update number (log_complaint_update
\* edits the one that exists).
OneLogPerNumber ==
    \A x, y \in updates : x.incident = y.incident /\ x.number = y.number => x = y

\* A successful EDIT row has a complaint to show it, unless the INSERT of its
\* incident ended in ERROR: the edit procedure looks at neither, and relies on
\* the insert procedure that is called before it.
EditedIsLive ==
    \A k \in DOMAIN staging :
        staging[k].activity = "EDIT" /\ staging[k].status = "SUCCESS"
            => \/ complaint[staging[k].incident] # None
               \/ \E j \in Rows(staging[k].incident, {"INSERT"}) : staging[j].status = "ERROR"
=============================================================================
