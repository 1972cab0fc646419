--------------------------- MODULE ComplaintRecord ---------------------------
(***************************************************************************)
(* The fields of one wildlife complaint and who writes them.  WebEOC       *)
(* inserts the complaint, edits it, and sends updates; officers create it, *)
(* change it with a form and change its status.  A form saves everything   *)
(* it shows, and shows what was read when it was opened; the attractants   *)
(* are saved by statements nobody waits for.  The stored procedures read   *)
(* the record, compare, and write what differs.                            *)
(***************************************************************************)
EXTENDS Naturals, FiniteSets, SequencesExt

CONSTANTS
    Users, Values, Attractants,
    Null,         \* of the database and of the data transfer objects
    Empty,        \* an empty text
    Firsts,       \* what the fields can be at first
    MaxEvents     \* bound: what officers and WebEOC send, requests and statements that fail

VARIABLES
    origin,     \* of the complaint: none yet, WebEOC or a form
    record,     \* its row of complaint, and species_code of its hwcr_complaint
    original,   \* the rows of operation 'I' in complaint_h and hwcr_complaint_h
    rows,       \* its rows of attractant_hwcr_xref
    writes,     \* statements on them that nobody waits for
    webeoc,     \* the fields as WebEOC holds them
    procedure,  \* the stored procedure that runs, between its reads and its writes
    page,       \* per user, the page of the complaint
    flight,     \* requests of the pages
    given,      \* per field, what somebody gave it last, and when
    overruled,  \* fields a form wrote back as it had read them, over a newer value
    chosen,     \* attractants somebody added, nobody took away, and no failure lost
    changes, faults

database == <<origin, record, original, rows, writes>>
ghosts == <<given, overruled, chosen>>
vars == <<database, webeoc, procedure, page, flight, ghosts, changes, faults>>

Texts == {"caller_name", "incident_utc_datetime", "reported_by_code"}   \* may be NULL
Codes == {"complaint_status_code", "species_code"}
Fields == Texts \cup Codes

ASSUME RecordAssumption ==
    /\ Values # {} /\ Null \notin Values /\ Empty \notin Values \cup {Null}
    /\ Firsts \subseteq {v \in [Fields -> Values \cup {Null}] : \A f \in Codes : v[f] # Null}
    /\ IsFiniteSet(Attractants) /\ MaxEvents \in Nat

\* What update_complaint_using_webeoc_update looks at.
Updatable == {"caller_name", "reported_by_code", "species_code"}

Same(a, b) == a = b \/ {a, b} = {Null, Empty}

\* COALESCE(..., '') makes the two kinds of nothing the same; a bare <> passes no NULL.
Differs(f, a, b) ==
    IF f \in {"caller_name", "reported_by_code"} THEN ~Same(a, b)
    ELSE a # Null /\ b # Null /\ a # b

NoRecord == [f \in Fields |-> Null]
NoDto == [fields |-> NoRecord, attractants |-> {}, stamps |-> [f \in Fields |-> 0]]
NoProcedure == [runs |-> "none"]

\* `base` is what was read before the form got its draft.
Closed == [at |-> "closed", data |-> NoDto, draft |-> NoDto, base |-> NoDto]

Init ==
    /\ origin = "none" /\ record = NoRecord /\ original = NoRecord
    /\ rows = <<>> /\ writes = {}
    /\ webeoc = NoRecord /\ procedure = NoProcedure
    /\ page = [u \in Users |-> Closed] /\ flight = {}
    /\ given = [f \in Fields |-> [value |-> Null, stamp |-> 0]]
    /\ overruled = {} /\ chosen = {}
    /\ changes = 0 /\ faults = 0

Left == changes + faults < MaxEvents
Changes == Left /\ changes' = changes + 1
Fault == Left /\ faults' = faults + 1

Active(r) == {r[n].code : n \in {m \in DOMAIN r : r[m].active}}
NewRows(list) == [n \in 1..Cardinality(list) |-> [code |-> SetToSeq(list)[n], active |-> TRUE]]

Give(fields, values, stamp) ==
    given' = [f \in Fields |-> IF f \in fields THEN [value |-> values[f], stamp |-> stamp]
                               ELSE given[f]]

-----------------------------------------------------------------------------
(* WebEOC and the stored procedures.                                       *)

\* The complaint comes from one of the two.
NoneYet == origin = "none" /\ \A m \in flight : m.op # "create"

\* insert_complaint_from_staging
Import(values, list) ==
    /\ NoneYet /\ Changes
    /\ origin' = "webeoc" /\ webeoc' = values
    /\ record' = values /\ original' = values /\ rows' = NewRows(list)
    /\ Give(Fields, values, changes') /\ chosen' = list
    /\ UNCHANGED <<writes, procedure, page, flight, overruled, faults>>

\* The procedure has read the row and will write what differs from it.
EditReads(f, v, list) ==
    LET values == [webeoc EXCEPT ![f] = v]
    IN  /\ origin = "webeoc" /\ procedure = NoProcedure /\ Changes
        /\ procedure' = [runs |-> "edit", values |-> values, list |-> list, stamp |-> changes',
                         writes |-> {g \in Fields : Differs(g, values[g], record[g])}]
        /\ webeoc' = values
        /\ UNCHANGED <<database, page, flight, ghosts, faults>>

\* The key read from the history is not that of the column.
Original(f) == IF f = "reported_by_code" THEN Null ELSE original[f]

\* The original value is not looked at.
UpdateReadsAll(f, v) ==
    LET values == [original EXCEPT ![f] = v]
    IN  /\ origin = "webeoc" /\ procedure = NoProcedure /\ Changes
        /\ procedure' = [runs |-> "update", values |-> values, list |-> {}, stamp |-> changes',
                         writes |-> {g \in Updatable : Differs(g, values[g], record[g])}]
        /\ UNCHANGED <<database, webeoc, page, flight, ghosts, faults>>

\* An update brings the original value of every field but those somebody changed.
UpdateReads(f, v) ==
    LET values == [original EXCEPT ![f] = v]
    IN  /\ origin = "webeoc" /\ procedure = NoProcedure /\ Changes
        /\ procedure' = [runs |-> "update", values |-> values, list |-> {}, stamp |-> changes',
                         writes |-> {g \in Updatable : /\ Differs(g, values[g], Original(g))
                                                       /\ Differs(g, values[g], record[g])}]
        /\ UNCHANGED <<database, webeoc, page, flight, ghosts, faults>>

\* An edit also replaces the attractants, the rows of the form included.
ProcedureWrites ==
    LET p == procedure
        meant == {f \in p.writes : p.runs = "edit" \/ p.values[f] # original[f]}
    IN  /\ p # NoProcedure
        /\ record' = [f \in Fields |-> IF f \in p.writes THEN p.values[f] ELSE record[f]]
        /\ rows' = IF p.runs = "update" THEN rows
                   ELSE [n \in DOMAIN rows |-> [rows[n] EXCEPT !.active = FALSE]] \o NewRows(p.list)
        /\ chosen' = IF p.runs = "update" THEN chosen ELSE p.list
        /\ Give(meant, p.values, p.stamp) /\ overruled' = overruled \ meant
        /\ procedure' = NoProcedure
        /\ UNCHANGED <<origin, original, writes, webeoc, page, flight, changes, faults>>

-----------------------------------------------------------------------------
(* The pages.                                                              *)

Message(u, op, n, stamp, body, base) ==
    [user |-> u, op |-> op, n |-> n, at |-> "sent", stamp |-> stamp, body |-> body,
     base |-> base, ok |-> TRUE]

Load(u, n) == Message(u, "load", n, 0, NoDto, NoDto)

\* No overlay covers the page.
Idle(u) == \A m \in flight : m.user # u

Shows(u, p) == page' = [page EXCEPT ![u] = p]

Open(u) ==
    /\ page[u].at = "closed" /\ origin # "none" /\ Idle(u)
    /\ Shows(u, [Closed EXCEPT !.at = "view"])
    /\ flight' = flight \cup {Load(u, 1)}
    /\ UNCHANGED <<database, webeoc, procedure, ghosts, changes, faults>>

Leave(u) ==
    /\ page[u].at # "closed" /\ Idle(u)
    /\ Shows(u, Closed)
    /\ UNCHANGED <<database, webeoc, procedure, flight, ghosts, changes, faults>>

\* What a form had is of use only while the store has nothing.
View(p, data) == IF data = NoDto THEN [p EXCEPT !.at = "view", !.data = NoDto]
                 ELSE [Closed EXCEPT !.at = "view", !.data = data]

\* Takes what the store has; if it has nothing, the form has what it had last.
\* Bound: a form opens only while there is an event left to save it.
Edit(u) ==
    LET p == page[u]
        kept == p.data = NoDto
    IN  /\ p.at = "view" /\ Idle(u) /\ (kept => p.draft # NoDto) /\ Left
        /\ Shows(u, [p EXCEPT !.at = "edit", !.draft = IF kept THEN @ ELSE p.data,
                              !.base = IF kept THEN @ ELSE p.data])
        /\ UNCHANGED <<database, webeoc, procedure, flight, ghosts, changes, faults>>

Cancel(u) ==
    /\ page[u].at = "edit"
    /\ Shows(u, View(page[u], page[u].data))
    /\ UNCHANGED <<database, webeoc, procedure, flight, ghosts, changes, faults>>

\* Bound: an officer changes one field or the attractants before a save.
ChangeField(u, f, v) ==
    /\ page[u].at = "edit" /\ f # "complaint_status_code" /\ (v = Empty => f = "caller_name")
    /\ page[u].draft.attractants = page[u].base.attractants /\ v # page[u].draft.fields[f]
    /\ \A g \in Fields \ {f} : page[u].draft.fields[g] = page[u].base.fields[g]
    /\ Shows(u, [page[u] EXCEPT !.draft.fields[f] = v])
    /\ UNCHANGED <<database, webeoc, procedure, flight, ghosts, changes, faults>>

\* An attractant that has a row is marked, any other one is added to the list.
ToggleAttractant(u, a) ==
    LET items == page[u].draft.attractants
        old == {i \in items : i.code = a}
    IN  /\ page[u].at = "edit" /\ page[u].draft.fields = page[u].base.fields
        /\ Shows(u, [page[u] EXCEPT !.draft.attractants =
               IF old = {} THEN items \cup {[row |-> 0, code |-> a, active |-> TRUE]}
               ELSE (items \ old) \cup {[i EXCEPT !.active = ~@] : i \in old}])
        /\ UNCHANGED <<database, webeoc, procedure, flight, ghosts, changes, faults>>

Save(u) ==
    /\ page[u].at = "edit" /\ Changes
    /\ Shows(u, [page[u] EXCEPT !.at = "saving"])
    /\ flight' = flight \cup {Message(u, "save", 1, changes', page[u].draft, page[u].base)}
    /\ UNCHANGED <<database, webeoc, procedure, ghosts, faults>>

\* Bound: to another status than the page shows.
ChangeStatus(u, v) ==
    /\ page[u].at = "view" /\ Idle(u) /\ page[u].data # NoDto
    /\ v # page[u].data.fields["complaint_status_code"] /\ Changes
    /\ flight' = flight \cup
         {Message(u, "status", 1, changes', [NoDto EXCEPT !.fields["complaint_status_code"] = v], NoDto)}
    /\ UNCHANGED <<database, webeoc, procedure, page, ghosts, faults>>

\* The form of a new complaint has an empty text where nothing was entered.
Entered(values, list) ==
    [NoDto EXCEPT !.fields = [values EXCEPT !["caller_name"] = IF @ = Null THEN Empty ELSE @],
                  !.attractants = {[row |-> 0, code |-> a, active |-> TRUE] : a \in list}]

Create(u, values, list) ==
    /\ page[u].at = "closed" /\ NoneYet /\ Changes
    /\ flight' = flight \cup {Message(u, "create", 1, changes', Entered(values, list), NoDto)}
    /\ UNCHANGED <<database, webeoc, procedure, page, ghosts, faults>>

-----------------------------------------------------------------------------
(* The backend.                                                            *)

\* A NULL is an empty text for the page, but for a date; a code is NULL or a code.
ToDto(f, v) == IF f \in {"caller_name", "reported_by_code"} /\ v = Null THEN Empty ELSE v
ToTable(f, v) == IF f = "reported_by_code" /\ v = Empty THEN Null ELSE v

\* The rows that are not active are not read.
Dto == [fields |-> [f \in Fields |-> ToDto(f, record[f])],
        attractants |-> {[row |-> n, code |-> rows[n].code, active |-> TRUE] :
                            n \in {k \in DOMAIN rows : rows[k].active}},
        stamps |-> [f \in Fields |-> given[f].stamp]]

Becomes(m, n) == flight' = (flight \ {m}) \cup {n}
Answered(m) == Becomes(m, [m EXCEPT !.at = "answered"])

\* An update of a row that is active is none, and a new row is active whatever the form says.
Statements(m) ==
    {[row |-> i.row, code |-> i.code, stamp |-> m.stamp] :
        i \in {j \in m.body.attractants : j.row = 0 \/ ~j.active}}

Added(m) == {i.code : i \in {j \in m.body.attractants : j.row = 0 /\ j.active}}
Removed(m) == {i.code : i \in {j \in m.body.attractants : j.row # 0 /\ ~j.active}}

\* What a form writes: its own changes, and the rest as it was read.
Overwrite(m, fields) ==
    LET mine == {f \in fields : ~Same(m.body.fields[f], m.base.fields[f])}
        stale == {f \in fields \ mine : given[f].stamp # m.base.stamps[f]}
        table == [f \in Fields |-> ToTable(f, m.body.fields[f])]
    IN  /\ record' = [f \in Fields |-> IF f \in fields THEN table[f] ELSE record[f]]
        /\ Give(mine, table, m.stamp)
        /\ overruled' = (overruled \ mine) \cup stale

ServeLoad(m) ==
    /\ m.op = "load" /\ m.at = "sent"
    /\ Becomes(m, [m EXCEPT !.at = "answered", !.body = Dto])
    /\ UNCHANGED <<database, webeoc, procedure, page, ghosts, changes, faults>>

\* The row of complaint; the attractants follow in their own time.
SaveComplaint(m) ==
    /\ m.op = "save" /\ m.at = "sent"
    /\ Overwrite(m, Fields \ {"species_code"})
    /\ writes' = writes \cup Statements(m)
    /\ chosen' = (chosen \ Removed(m)) \cup Added(m)
    /\ Becomes(m, [m EXCEPT !.at = "complaint"])
    /\ UNCHANGED <<origin, original, rows, webeoc, procedure, page, changes, faults>>

\* The row of hwcr_complaint.
SaveWildlife(m) ==
    /\ m.op = "save" /\ m.at = "complaint"
    /\ Overwrite(m, {"species_code"})
    /\ Answered(m)
    /\ UNCHANGED <<origin, original, rows, writes, webeoc, procedure, page, chosen, changes, faults>>

\* One statement; the page then reads the complaint again.
ServeStatus(m) ==
    LET f == "complaint_status_code"
    IN  /\ m.op = "status" /\ m.at = "sent"
        /\ record' = [record EXCEPT ![f] = m.body.fields[f]]
        /\ Give({f}, m.body.fields, m.stamp) /\ overruled' = overruled \ {f}
        /\ Becomes(m, Load(m.user, 1))
        /\ UNCHANGED <<origin, original, rows, writes, webeoc, procedure, page, chosen, changes, faults>>

ServeCreate(m) ==
    LET table == [f \in Fields |-> ToTable(f, m.body.fields[f])]
    IN  /\ m.op = "create" /\ m.at = "sent"
        /\ origin' = "form" /\ record' = table /\ original' = table
        /\ writes' = writes \cup Statements(m)
        /\ Give(Fields, table, m.stamp) /\ chosen' = Added(m)
        /\ Answered(m)
        /\ UNCHANGED <<rows, webeoc, procedure, page, overruled, changes, faults>>

\* By the code, not by the row.
LandsByCode(w) ==
    /\ w \in writes
    /\ rows' = IF w.row = 0 THEN Append(rows, [code |-> w.code, active |-> TRUE])
               ELSE [n \in DOMAIN rows |-> [rows[n] EXCEPT !.active = @ /\ rows[n].code # w.code]]
    /\ writes' = writes \ {w}
    /\ UNCHANGED <<origin, record, original, webeoc, procedure, page, flight, ghosts, changes, faults>>

Lands(w) ==
    /\ w \in writes
    /\ rows' = IF w.row = 0 THEN Append(rows, [code |-> w.code, active |-> TRUE])
               ELSE [rows EXCEPT ![w.row].active = FALSE]
    /\ writes' = writes \ {w}
    /\ UNCHANGED <<origin, record, original, webeoc, procedure, page, flight, ghosts, changes, faults>>

\* A statement nobody waits for may be rejected, and its pod, which ends with it or for
\* another reason, takes along what it had still to send.  Nobody is told; who added
\* the attractant has no claim to it any more.
WritesFail(lost) ==
    /\ lost # {} /\ Fault
    /\ writes' = writes \ lost
    /\ chosen' = chosen \ {w.code : w \in {x \in lost : x.row = 0}}
    /\ UNCHANGED <<origin, record, original, rows, webeoc, procedure, page, flight, given,
                   overruled, changes>>

\* What was written before stays.
RequestFails(m) ==
    /\ m.at \in {"sent", "complaint"} /\ Fault
    /\ Becomes(m, [m EXCEPT !.at = "answered", !.ok = FALSE])
    /\ UNCHANGED <<database, webeoc, procedure, page, ghosts, changes>>

\* The store takes what comes last; a read that failed leaves it as it is.
ReceiveLoad(m) ==
    /\ m.op = "load" /\ m.at = "answered"
    /\ page' = [page EXCEPT ![m.user] = IF m.ok THEN View(@, m.body) ELSE @]
    /\ flight' = flight \ {m}
    /\ UNCHANGED <<database, webeoc, procedure, ghosts, changes, faults>>

\* The form closes whether or not it was saved.  The page empties the store and
\* reads the complaint, and once more because the store is empty.
ReceiveSave(m) ==
    /\ m.op = "save" /\ m.at = "answered"
    /\ page' = [page EXCEPT ![m.user] = View(@, NoDto)]
    /\ flight' = (flight \ {m}) \cup {Load(m.user, 1), Load(m.user, 2)}
    /\ UNCHANGED <<database, webeoc, procedure, ghosts, changes, faults>>

ReceiveStatus(m) ==
    /\ m.op = "status" /\ m.at = "answered"
    /\ flight' = flight \ {m}
    /\ UNCHANGED <<database, webeoc, procedure, page, ghosts, changes, faults>>

\* A complaint that was created is shown, and read before that.
ReceiveCreate(m) ==
    /\ m.op = "create" /\ m.at = "answered"
    /\ page' = [page EXCEPT ![m.user].at = IF m.ok THEN "view" ELSE @]
    /\ flight' = (flight \ {m}) \cup (IF m.ok THEN {Load(m.user, 1)} ELSE {})
    /\ UNCHANGED <<database, webeoc, procedure, ghosts, changes, faults>>

-----------------------------------------------------------------------------
WebEOC ==
    \/ \E v \in Firsts, list \in SUBSET Attractants : Import(v, list)
    \/ \E f \in Fields, v \in Values, list \in SUBSET Attractants : EditReads(f, v, list)
    \/ \E f \in Updatable, v \in Values : UpdateReads(f, v)
    \/ ProcedureWrites

Officer(u) ==
    \/ Open(u) \/ Leave(u) \/ Edit(u) \/ Cancel(u) \/ Save(u)
    \/ \E f \in Fields, v \in Values \cup {Empty} : ChangeField(u, f, v)
    \/ \E a \in Attractants : ToggleAttractant(u, a)
    \/ \E v \in Values : ChangeStatus(u, v)
    \/ \E v \in Firsts, list \in SUBSET Attractants : Create(u, v, list)

Backend(m) ==
    \/ ServeLoad(m) \/ SaveComplaint(m) \/ SaveWildlife(m) \/ ServeStatus(m) \/ ServeCreate(m)
    \/ RequestFails(m)

Next ==
    \/ WebEOC
    \/ \E u \in Users : Officer(u)
    \/ \E m \in flight : \/ Backend(m)
                         \/ ReceiveLoad(m) \/ ReceiveSave(m) \/ ReceiveStatus(m) \/ ReceiveCreate(m)
    \/ \E w \in writes : Lands(w)
    \/ \E lost \in SUBSET writes : WritesFail(lost)

Spec == Init /\ [][Next]_vars

-----------------------------------------------------------------------------
\* The type invariant: what the columns hold, and no row of an attractant is missing.
TypeOK ==
    /\ record \in [Fields -> Values \cup {Null, Empty}] /\ record["reported_by_code"] # Empty
    /\ origin # "none" => \A f \in Codes : record[f] \in Values
    /\ \A w \in writes : w.row \in {0} \cup DOMAIN rows
    /\ \A m \in flight : m.user \in Users /\ m.stamp \in 0..MaxEvents
    /\ overruled \subseteq Fields /\ chosen \subseteq Attractants
    /\ changes + faults \in 0..MaxEvents

\* A field holds what an officer, an edit or an update gave it last, unless a form
\* that was opened before that was saved since: no default of an update, no half of
\* a save and no conversion between the database and the page changes it.
LastGivenStands ==
    origin # "none" =>
        \A f \in {"caller_name", "species_code", "complaint_status_code"} \ overruled :
            Same(record[f], given[f].value)

\* An attractant that somebody added and nobody took away is there, or about to be,
\* but for one whose own statement failed: no edit, removal or other save, whichever
\* way their statements interleave, takes it away.
ChosenAreKept == chosen \subseteq Active(rows) \cup {w.code : w \in {x \in writes : x.row = 0}}

=============================================================================
