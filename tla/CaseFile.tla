------------------------------ MODULE CaseFile ------------------------------
(***************************************************************************)
(* The outcome report of a complaint.  Officers fill in its sections in    *)
(* the browser; the frontend keeps what it shows in its store (cases.ts)   *)
(* and sends every section to the backend on its own (case-thunks.ts); the *)
(* backend hands it to the case API, a system of its own, and, for a       *)
(* review, changes the status of the complaint.  While a request of a      *)
(* browser is under way an overlay covers its page (api.ts), so that an    *)
(* officer acts only when nothing is under way; several requests may be.   *)
(***************************************************************************)
EXTENDS Naturals, FiniteSets

CONSTANTS
    Users,       \* browsers
    Complaints,
    Texts,       \* what a section can say
    Items,       \* equipment and animals that can be recorded
    None,        \* nothing recorded; in the store: an empty object
    Blank,       \* what the store holds of a form that was not loaded yet
    Fresh,       \* complaints without a case file at first
    MaxEvents    \* bound: requests that write, and failures

ASSUME CaseAssumption ==
    /\ Fresh \subseteq Complaints
    /\ None \notin Texts \cup Complaints /\ Blank \notin Texts \cup {None}
    /\ MaxEvents \in Nat

VARIABLES
    file,     \* the case API: per complaint, its case file
    status,   \* per complaint, complaint_status_code
    store,    \* per user, the slices "cases" and "complaints" of the store
    page,     \* per user, the page of a complaint: its sections' own state
    flight,   \* requests under way, from the thunk to the reply
    toasts,   \* announcements made, and whether the case API had done so
    saves, faults

vars == <<file, status, store, page, flight, toasts, saves, faults>>

Forms == {"assessment", "prevention"}
Lists == {"equipment", "animal"}
Sections == Forms \cup Lists \cup {"note"}
NoItems == [i \in Items |-> "absent"]

NoFile == [id |-> FALSE, assessment |-> None, prevention |-> None, note |-> None,
           equipment |-> NoItems, animal |-> NoItems, required |-> FALSE, complete |-> FALSE]

NoCase == [caseId |-> None, assessment |-> Blank, prevention |-> Blank, note |-> None,
           equipment |-> NoItems, animal |-> NoItems, required |-> FALSE,
           complete |-> "undefined", status |-> None, lead |-> None, modal |-> None]

\* A page that was just mounted.  An assessment without a date is editable.
NewPage(c) == [open |-> c, edit |-> [s \in Sections |-> s = "assessment" /\ c # None],
               review |-> [at |-> "request", required |-> FALSE, completed |-> FALSE]]

\* Case files begun earlier: equipment is placed, an assessment is there or not.
Begun == {[NoFile EXCEPT !.id = TRUE, !.assessment = a, !.equipment = [i \in Items |-> "open"]] :
              a \in Texts \cup {None}}

Init ==
    /\ file \in {f \in [Complaints -> Begun \cup {NoFile}] :
                    \A c \in Complaints : f[c] = NoFile <=> c \in Fresh}
    /\ status = [c \in Complaints |-> "OPEN"]
    /\ store = [u \in Users |-> NoCase]
    /\ page = [u \in Users |-> NewPage(None)]
    /\ flight = {} /\ toasts = {} /\ saves = 0 /\ faults = 0

-----------------------------------------------------------------------------
(* Requests.                                                               *)

Message(u, c, op, section, value) ==
    [user |-> u, lead |-> c, op |-> op, section |-> section, value |-> value,
     case |-> store[u].caseId, at |-> "sent", result |-> "ok", file |-> NoFile,
     status |-> "OPEN", applied |-> FALSE]

\* Reads name what caused them: the same may be under way for two reasons.
Gets(u, c, ops, cause) == {Message(u, c, op, "none", cause) : op \in ops}

\* The two forms reload what they show whenever the complaint in the store changes.
FormGets(u, c, cause) == Gets(u, c, IF page[u].open = None THEN {} ELSE Forms, cause)

Reads == {"case", "find", "complaint", "status"} \cup Forms
Mutations == {"create", "update", "delete"}

\* The overlay is off.
Idle(u) == \A m \in flight : m.user # u

\* There is no overlay.
ActsUncovered(u) == page[u].open # None /\ store[u].status # None

Acts(u) == page[u].open # None /\ Idle(u) /\ store[u].status # None

Send(ms) == flight' = flight \cup ms

Shows(u, p) == page' = [page EXCEPT ![u] = p]
Stores(u, s) == store' = [store EXCEPT ![u] = s]

SendWrite(u, op, section, value, edit, gets) ==
    /\ saves + faults < MaxEvents /\ saves' = saves + 1
    /\ Send({Message(u, page[u].open, op, section, value)} \cup gets)
    /\ Shows(u, [page[u] EXCEPT !.edit[section] = edit])
    /\ UNCHANGED <<file, status, store, toasts, faults>>

-----------------------------------------------------------------------------
(* What an officer does on the page.                                       *)

\* The sections' own state follows the store: useEffect in the sections.  A form
\* starts over whenever its slice was set, to the same content too: the assessment
\* is then editable if it has no date, the prevention is not.
Follows(p, old, new, set) ==
    [p EXCEPT
        !.edit.assessment = IF p.open # None /\ "assessment" \in set
                            THEN new.assessment \in {None, Blank} ELSE @,
        !.edit.prevention = @ /\ "prevention" \notin set,
        !.review = LET required == IF new.required # old.required THEN new.required ELSE @.required
                   IN [at |-> IF new.required /\ ~old.required THEN "display" ELSE @.at,
                       required |-> required,
                       completed |-> required /\ (@.completed \/ new.complete = "set")]]

\* The complaint is read unless the store has it; its sections start from the store.
Open(u, c) ==
    LET kept == store[u].status # None /\ store[u].lead = c
        s == IF kept THEN store[u] ELSE [store[u] EXCEPT !.status = None]
    IN  /\ page[u].open = None /\ Idle(u) /\ store[u].modal = None
        /\ Stores(u, s)
        /\ Shows(u, Follows(NewPage(c), NoCase, s, Forms))
        /\ Send(Gets(u, c, IF kept THEN {"case"} \cup Forms ELSE {"case", "complaint"}, "open"))
        /\ UNCHANGED <<file, status, toasts, saves, faults>>

Leave(u) ==
    /\ page[u].open # None /\ Idle(u)
    /\ Shows(u, NewPage(None))
    /\ Stores(u, NoCase)
    /\ UNCHANGED <<file, status, flight, toasts, saves, faults>>

Edit(u, s) ==
    /\ Acts(u) /\ ~page[u].edit[s]
    /\ Shows(u, [page[u] EXCEPT !.edit[s] = TRUE])
    /\ UNCHANGED <<file, status, store, flight, toasts, saves, faults>>

Cancel(u, s) ==
    /\ Acts(u) /\ page[u].edit[s]
    /\ Shows(u, [page[u] EXCEPT !.edit[s] = s = "assessment" /\ store[u][s] \in {None, Blank}])
    /\ UNCHANGED <<file, status, store, flight, toasts, saves, faults>>

\* Closes the form at once and looks for the case file before it saves.
SaveForm(u, s, t) ==
    /\ Acts(u) /\ page[u].edit[s]
    /\ SendWrite(u, "find", s, t, FALSE, {})

SaveNote(u, t) ==
    /\ Acts(u) /\ page[u].edit["note"]
    /\ SendWrite(u, IF store[u].note = None THEN "create" ELSE "find", "note", t, TRUE, {})

DeleteNote(u) ==
    /\ Acts(u) /\ ~page[u].edit["note"] /\ store[u].note # None
    /\ SendWrite(u, "delete", "note", None, FALSE, {})

\* A new animal stays open until it is saved; equipment and edited animals do not.
SaveItem(u, s, i, state) ==
    /\ Acts(u) /\ page[u].edit[s]
    /\ LET new == store[u][s][i] = "absent" IN
        /\ new => /\ file[page[u].open][s][i] = "absent"   \* the case API issues new identifiers
                  /\ \A m \in flight : m.section # s
        /\ SendWrite(u, IF new THEN "create" ELSE "update", s, [item |-> i, state |-> state],
                     new /\ s = "animal", {})

DeleteItem(u, s, i) ==
    /\ Acts(u) /\ store[u][s][i] # "absent"
    /\ SendWrite(u, "delete", s, [item |-> i, state |-> "absent"], page[u].edit[s], {})

Review(u, r) ==
    /\ Acts(u)
    /\ Shows(u, [page[u] EXCEPT !.review = r])
    /\ UNCHANGED <<file, status, store, flight, toasts, saves, faults>>

EditReview(u) ==
    page[u].review.at = "display" /\ Review(u, [page[u].review EXCEPT !.at = "edit"])

TickRequired(u) == LET r == page[u].review IN
    r.at # "display" /\ Review(u, [r EXCEPT !.required = ~@, !.completed = @ /\ ~r.required])

TickComplete(u) == LET r == page[u].review IN
    r.at # "display" /\ r.required /\ Review(u, [r EXCEPT !.completed = ~@])

\* Sends the review and, at the same time, asks for the status it will change.
SaveReview(u) ==
    LET r == page[u].review IN
    /\ Acts(u) /\ r.at # "display"
    /\ saves + faults < MaxEvents /\ saves' = saves + 1
    /\ Send({Message(u, page[u].open, "review", "none",
                     [creates |-> r.completed \/ r.at = "request",
                      required |-> r.required, complete |-> r.completed])}
            \cup Gets(u, page[u].open, {"status"}, "save"))
    /\ Shows(u, [page[u] EXCEPT !.review.at = IF @ # "edit" THEN @
                                              ELSE IF r.required THEN "display" ELSE "request"])
    /\ UNCHANGED <<file, status, store, toasts, faults>>

-----------------------------------------------------------------------------
(* Closing a complaint: change-status-modal.tsx.                           *)

\* The section still has unsaved input.  A form that shows nothing does not count.
InEdit(u, s) == page[u].edit[s] /\ (s = "assessment" => store[u][s] # None)

ReviewInEdit(u) == LET r == page[u].review IN
    r.at = "edit" \/ (r.at = "request" /\ r.required)

\* An empty object is missing, the initial one is not; undefined is not null.
MayClose(u) ==
    /\ \A s \in Sections : ~InEdit(u, s)
    /\ ~(page[u].open # None /\ ReviewInEdit(u))
    /\ store[u].assessment # None
    /\ \A s \in Lists, i \in Items : store[u][s][i] # "open"
    /\ store[u].required => store[u].complete # "null"

\* "Complete or cancel review before updating status."
Disabled(u, current) ==
    store[u].required /\ store[u].complete # "set" /\ current = "PENDREV"

ChangeStatus(u, c, new, from) ==
    /\ new = "CLOSED" => MayClose(u)
    /\ saves + faults < MaxEvents /\ saves' = saves + 1
    /\ Send({Message(u, c, "close", from, new)})
    /\ Stores(u, [store[u] EXCEPT !.modal = None])
    /\ UNCHANGED <<file, status, page, toasts, faults>>

ChangeStatusOnPage(u, new) ==
    Acts(u) /\ ~Disabled(u, store[u].status) /\ ChangeStatus(u, page[u].open, new, "page")

\* In the list of complaints the modal opens when the assessment has been read.
OpenModalInList(u, c) ==
    /\ page[u].open = None /\ Idle(u) /\ store[u].modal = None
    /\ Send(Gets(u, c, {"assessment"}, "list"))
    /\ UNCHANGED <<file, status, store, page, toasts, saves, faults>>

ChangeStatusInList(u, new) ==
    LET c == store[u].modal
    IN  /\ c # None /\ Idle(u)
        /\ ~Disabled(u, status[c]) /\ ChangeStatus(u, c, new, "list")

CloseModal(u) ==
    /\ store[u].modal # None /\ Idle(u)
    /\ Stores(u, [store[u] EXCEPT !.modal = None])
    /\ UNCHANGED <<file, status, page, flight, toasts, saves, faults>>

-----------------------------------------------------------------------------
(* The backend and the case API.                                           *)

Fault == saves + faults < MaxEvents /\ faults' = faults + 1

Becomes(m, n) == flight' = (flight \ {m}) \cup {n}

ServeRead(m) ==
    /\ m.at = "sent" /\ m.op \in Reads
    /\ \/ /\ Becomes(m, [m EXCEPT !.at = "answered", !.file = file[m.lead], !.status = status[m.lead]])
          /\ UNCHANGED faults
       \/ /\ Fault
          /\ Becomes(m, [m EXCEPT !.at = "answered", !.result = "rejected"])
    /\ UNCHANGED <<file, status, store, page, toasts, saves>>

\* The case API finds what a mutation is about.
Accepts(m) ==
    \/ m.op \in {"create", "review"} \/ m.section = "equipment"
    \/ m.case = m.lead /\ file[m.lead].id

Applied(f, m) ==
    IF m.op = "review"
    THEN [f EXCEPT !.id = TRUE, !.required = m.value.required, !.complete = @ \/ m.value.complete]
    ELSE IF m.section \in Lists
    THEN [f EXCEPT !.id = TRUE, ![m.section][m.value.item] = m.value.state]
    ELSE [f EXCEPT !.id = TRUE, ![m.section] = m.value]

\* What the backend makes of the data it was sent: the case file; an object with
\* nothing in it, such as {updateReview: null}; or none, which handleAPIResponse
\* makes of every other failure.  deleteEquipment hands on the object itself, a
\* review cannot do without one, and an updated one goes on to the status with either.
Reply(m, data) ==
    [m EXCEPT !.at = IF m.op = "review" /\ (data = "file" \/ (data = "hollow" /\ ~m.value.creates))
                     THEN "written" ELSE "answered",
              !.result = IF \/ data = "file"
                            \/ data = "hollow" /\ m.op = "delete" /\ m.section = "equipment"
                         THEN "ok"
                         ELSE IF data = "none" /\ m.op = "review" THEN "rejected" ELSE "empty"]

\* The case API does what it is asked or not, and the backend learns of it or not.
ServeWrite(m) ==
    /\ m.at = "sent" /\ m.op \in Mutations \cup {"review"}
    /\ \E done \in BOOLEAN, data \in {"file", "hollow", "none"} :
        /\ data = "file" => done
        /\ done => Accepts(m)
        /\ IF data = "file" \/ (~done /\ ~Accepts(m)) THEN UNCHANGED faults ELSE Fault
        /\ file' = IF done THEN [file EXCEPT ![m.lead] = Applied(@, m)] ELSE file
        /\ Becomes(m, [Reply(m, data) EXCEPT !.applied = done, !.file = file'[m.lead]])
    /\ UNCHANGED <<status, store, page, toasts, saves>>

\* A review that is no longer required leaves the status.
WriteStatusOnce(m) ==
    /\ m.at = "written"
    /\ Becomes(m, [m EXCEPT !.at = "answered"])
    /\ status' = [status EXCEPT ![m.lead] = IF m.value.required THEN "PENDREV" ELSE @]
    /\ UNCHANGED <<file, store, page, toasts, saves, faults>>

\* createReview and updateReview change the status afterwards; if that fails
\* they only log it.
WriteStatus(m) ==
    /\ m.at = "written"
    /\ Becomes(m, [m EXCEPT !.at = "answered"])
    /\ \/ /\ status' = [status EXCEPT ![m.lead] =
                 IF m.value.required THEN "PENDREV" ELSE IF m.value.creates THEN @ ELSE "OPEN"]
          /\ UNCHANGED faults
       \/ Fault /\ UNCHANGED status
    /\ UNCHANGED <<file, store, page, toasts, saves>>

ServeClose(m) ==
    /\ m.at = "sent" /\ m.op = "close"
    /\ Becomes(m, [m EXCEPT !.at = "answered"])
    /\ \/ status' = [status EXCEPT ![m.lead] = m.value] /\ UNCHANGED faults
       \/ Fault /\ UNCHANGED status
    /\ UNCHANGED <<file, store, page, toasts, saves>>

-----------------------------------------------------------------------------
(* The replies.  A reply is shown whatever page is open by then.           *)

\* The forms whose slice of the store the reply sets.
Sets(m) ==
    {form \in Forms : \/ m.op = form /\ m.result = "ok"
                      \/ m.section = form /\ m.op = "create"
                      \/ m.section = form /\ m.op = "update" /\ m.result = "ok"}

\* Ends a request: what it leaves in the store and announces, and what it asks for next.
Receive(m, s, made, next) ==
    /\ store' = [store EXCEPT ![m.user] = s]
    /\ page' = [page EXCEPT ![m.user] = Follows(@, store[m.user], s, Sets(m))]
    /\ toasts' = toasts \cup made
    /\ flight' = (flight \ {m}) \cup next
    /\ UNCHANGED <<file, status, saves, faults>>

\* As Receive, for a section that leaves its edit mode when the reply arrives.
ReceiveOn(m, section, s, made, next) ==
    /\ store' = [store EXCEPT ![m.user] = s]
    /\ LET p == Follows(page[m.user], store[m.user], s, {})
       IN  page' = [page EXCEPT ![m.user] =
                       [p EXCEPT !.edit[section] = @ /\ (m.op = "delete" \/ page[m.user].open # m.lead)]]
    /\ toasts' = toasts \cup made
    /\ flight' = (flight \ {m}) \cup next
    /\ UNCHANGED <<file, status, saves, faults>>

Announces(m, good) == {[section |-> m.section, op |-> m.op, good |-> good, applied |-> m.applied]}

Complete(m) == IF ~m.file.id THEN "undefined" ELSE IF m.file.complete THEN "set" ELSE "null"
CaseId(m) == IF m.file.id THEN m.lead ELSE None

\* setCaseFile
WithCaseFile(s, m) == [s EXCEPT !.note = m.file.note, !.equipment = m.file.equipment,
                                !.animal = m.file.animal, !.complete = Complete(m)]

\* The counter of requests ignores those that fail.
ReceiveRejectionUncounted(m) == m.at = "answered" /\ m.result = "rejected" /\ UNCHANGED vars

\* A rejected promise nobody catches: the overlay goes, nothing else happens.
ReceiveRejection(m) ==
    /\ m.at = "answered" /\ m.result = "rejected"
    /\ Receive(m, store[m.user], {}, {})

ReceiveRead(m) ==
    LET s == store[m.user]
    IN  /\ m.at = "answered" /\ m.result = "ok"
        /\ \/ m.op = "case" /\ Receive(m, WithCaseFile(s, m), {}, {})
           \/ m.op = "assessment"
              /\ Receive(m, [s EXCEPT !.assessment = m.file.assessment, !.caseId = CaseId(m),
                                      !.required = m.file.required, !.complete = Complete(m),
                                      !.modal = IF m.value = "list" THEN m.lead ELSE @], {}, {})
           \/ m.op = "prevention" /\ Receive(m, [s EXCEPT !.prevention = m.file.prevention], {}, {})
           \/ m.op = "complaint" /\ Receive(m, [s EXCEPT !.status = m.status, !.lead = m.lead], {}, FormGets(m.user, m.lead, m.value))
           \/ m.op = "status" /\ IF s.status \in {None, m.status} THEN Receive(m, s, {}, {})
                 ELSE Receive(m, [s EXCEPT !.status = m.status], {}, FormGets(m.user, m.lead, m.value))

\* upsertAssessment, upsertPrevention, upsertNote: the write follows the search.
ReceiveFind(m) ==
    /\ m.at = "answered" /\ m.result = "ok" /\ m.op = "find"
    /\ Receive(m, store[m.user], {},
               {[m EXCEPT !.at = "sent", !.file = NoFile, !.status = "OPEN",
                          !.op = IF m.file.id \/ m.section = "note" THEN "update" ELSE "create",
                          !.case = IF m.file.id \/ m.section = "note" THEN CaseId(m)
                                   ELSE store[m.user].caseId]})

Replied(m, section) == m.at = "answered" /\ m.section = section /\ m.op \in Mutations

\* A request that created the case file tells its identifier if none was known.
Learns(m) == IF m.case = None THEN m.lead ELSE store[m.user].caseId

\* A failed creation empties the form, a failed update loads it again.
FormCreated(m, form) ==
    LET s == store[m.user]
    IN  /\ m.op = "create"
        /\ \/ /\ m.result = "ok"
              /\ Receive(m, [s EXCEPT ![form] = m.file[form], !.caseId = Learns(m)],
                         Announces(m, TRUE), {})
           \/ /\ m.result = "empty"
              /\ Receive(m, [s EXCEPT ![form] = Blank], Announces(m, FALSE), {})

FormUpdated(m, form) ==
    LET s == store[m.user]
    IN  /\ m.op = "update"
        /\ \/ /\ m.result = "ok"
              /\ Receive(m, [s EXCEPT ![form] = m.file[form]], Announces(m, TRUE), {})
           \/ /\ m.result = "empty"
              /\ Receive(m, s, Announces(m, FALSE), Gets(m.user, m.lead, {form}, "update"))

ReceiveForm(m) ==
    \E form \in Forms : Replied(m, form) /\ (FormCreated(m, form) \/ FormUpdated(m, form))

\* A saved note is not loaded again.
ReceiveNoteUnseen(m) ==
    /\ Replied(m, "note")
    /\ ReceiveOn(m, "note", store[m.user], Announces(m, TRUE), {})

\* An empty reply is not null: every note is announced as saved, or as deleted.
ReceiveNote(m) ==
    /\ Replied(m, "note")
    /\ ReceiveOn(m, "note",
                 [store[m.user] EXCEPT !.caseId = IF m.op = "delete" THEN @
                                                  ELSE IF m.result = "ok" THEN m.lead ELSE None],
                 Announces(m, TRUE), Gets(m.user, m.lead, {"case"}, "note"))

\* The reply of an equipment request is not looked at.
ReceiveEquipmentBlind(m) ==
    /\ Replied(m, "equipment")
    /\ Receive(m, WithCaseFile(store[m.user], m), Announces(m, TRUE), {})

\* What the reply holds replaces what is shown; a deletion removes the item alone.
ReceiveEquipment(m) ==
    LET s == store[m.user]
        new == IF m.op = "delete" THEN [s EXCEPT !.equipment[m.value.item] = "absent"]
               ELSE WithCaseFile(s, m)
    IN  /\ Replied(m, "equipment")
        /\ Receive(m, IF m.result # "ok" THEN s
                      ELSE [new EXCEPT !.caseId = IF m.op = "create" THEN Learns(m) ELSE @],
                   Announces(m, m.result = "ok"), {})

ReceiveAnimal(m) ==
    /\ Replied(m, "animal")
    /\ IF m.result = "ok"
       THEN ReceiveOn(m, "animal", [store[m.user] EXCEPT !.caseId = m.lead], Announces(m, TRUE),
                      Gets(m.user, m.lead, {"case"}, "animal"))
       ELSE Receive(m, store[m.user], Announces(m, FALSE), {})

ReceiveReview(m) ==
    /\ m.at = "answered" /\ m.op = "review"
    /\ \/ /\ m.result = "ok"
          /\ Receive(m, [store[m.user] EXCEPT
                           !.caseId = IF m.value.creates THEN Learns(m) ELSE @,
                           !.required = m.file.required,
                           !.complete = IF m.file.complete THEN "set" ELSE @],
                     Announces(m, TRUE), Gets(m.user, m.lead, {"status"}, "review"))
       \/ m.result = "empty" /\ Receive(m, store[m.user], Announces(m, FALSE), {})

\* Whether the status was written or not, the complaint is cleared and loaded again.
ReceiveClose(m) ==
    /\ m.at = "answered" /\ m.op = "close"
    /\ Receive(m, [store[m.user] EXCEPT !.status = None], {},
               Gets(m.user, m.lead, {"complaint"}, "close"))

ReceiveReply(m) ==
    \/ ReceiveRejection(m) \/ ReceiveRead(m) \/ ReceiveFind(m) \/ ReceiveForm(m)
    \/ ReceiveNote(m) \/ ReceiveEquipment(m) \/ ReceiveAnimal(m)
    \/ ReceiveReview(m) \/ ReceiveClose(m)

-----------------------------------------------------------------------------
Visits(u) == (\E c \in Complaints : Open(u, c)) \/ Leave(u)

Reviews(u) == EditReview(u) \/ TickRequired(u) \/ TickComplete(u) \/ SaveReview(u)

Fills(u) ==
    \/ \E s \in Sections : Edit(u, s) \/ Cancel(u, s)
    \/ \E s \in Forms, t \in Texts : SaveForm(u, s, t)
    \/ \E t \in Texts : SaveNote(u, t)
    \/ DeleteNote(u)
    \/ \E s \in Lists, i \in Items :
          DeleteItem(u, s, i) \/ \E state \in {"open", "done"} : SaveItem(u, s, i, state)

Closes(u) ==
    \/ \E new \in {"OPEN", "CLOSED"} : ChangeStatusOnPage(u, new) \/ ChangeStatusInList(u, new)
    \/ \E c \in Complaints : OpenModalInList(u, c)
    \/ CloseModal(u)

Serve(m) == ServeRead(m) \/ ServeWrite(m) \/ WriteStatus(m) \/ ServeClose(m)

Next ==
    \/ \E u \in Users : Visits(u) \/ Fills(u) \/ Reviews(u) \/ Closes(u)
    \/ \E m \in flight : Serve(m) \/ ReceiveReply(m)

Spec == Init /\ [][Next]_vars

\* The servers answer and a browser takes what it is answered; officers need not act.
Works(u) == \E m \in flight : m.user = u /\ (Serve(m) \/ ReceiveReply(m))

FairSpec == Spec /\ \A u \in Users : WF_vars(Works(u))

-----------------------------------------------------------------------------
\* The type invariant: what is recorded, what is shown and how far requests are.
TypeOK ==
    /\ file \in [Complaints -> [id : BOOLEAN, assessment : Texts \cup {None},
                               prevention : Texts \cup {None}, note : Texts \cup {None},
                               equipment : [Items -> {"absent", "open", "done"}],
                               animal : [Items -> {"absent", "open", "done"}],
                               required : BOOLEAN, complete : BOOLEAN]]
    /\ status \in [Complaints -> {"OPEN", "CLOSED", "PENDREV"}]
    /\ \A u \in Users : /\ page[u].open \in Complaints \cup {None}
                        /\ store[u].caseId \in Complaints \cup {None}
                        /\ store[u].complete \in {"undefined", "null", "set"}
    /\ \A m \in flight : m.at \in {"sent", "written", "answered"} /\ m.lead \in Complaints
    /\ {saves, faults} \subseteq 0..MaxEvents

Closing(c, from) ==
    /\ status[c] # "CLOSED" /\ status'[c] = "CLOSED"
    /\ \E m \in flight : m.op = "close" /\ m.lead = c /\ m.section = from

\* An officer who works alone, while no request fails, closes a complaint only with
\* its assessment recorded, and from its page only without equipment still placed or
\* animals without outcome: the modal judges by the store, which must not lag
\* behind the case API, or hold another complaint, when the officer may act.
ClosesFinished ==
    [][\A c \in Complaints, from \in {"page", "list"} : faults = 0 /\ Closing(c, from) =>
         /\ file[c].assessment # None
         /\ from = "page" => \A s \in Lists, i \in Items : file[c][s][i] # "open"]_vars

\* Without failures, what the sections of a page show an officer who may act is
\* what the case API holds: no order of the replies leaves an older version.
PageIsCurrent ==
    faults = 0 =>
        \A u \in Users : Acts(u) =>
            \A s \in Sections : store[u][s] = file[page[u].open][s]

\* Without failures a complaint is pending review only if its case file asks for
\* one, but for the moment in which a review is being saved.
PendingIsRequired ==
    faults = 0 =>
        \A c \in Complaints :
            status[c] = "PENDREV" /\ (\A m \in flight : m.op # "review") => file[c].required

\* What an officer was told is saved was saved, whatever failed: true of all but
\* notes, whose empty replies count as success, and deletions of equipment, whose
\* reply counts as success when the case API deleted nothing.
AnnouncedIsSaved ==
    \A t \in toasts :
        t.good => \/ t.applied
                  \/ t.section = "note"
                  \/ t.section = "equipment" /\ t.op = "delete"

\* The overlay goes away, whatever failed and however replies follow each other:
\* every request that turns it on turns it off.
UserGetsBack == \A u \in Users : []<>Idle(u)

=============================================================================
