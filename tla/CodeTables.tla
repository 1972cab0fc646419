---------------------------- MODULE CodeTables ----------------------------
(***************************************************************************)
(* The code tables.  A WebEOC value nobody has seen before becomes a new   *)
(* code while its complaint is inserted (insert_and_return_code), in a     *)
(* transaction that also counts the version of the tables up; a release    *)
(* changes tables likewise, and the case API has tables and a version of   *)
(* its own.  A browser keeps the tables and the versions it has seen from  *)
(* one visit to the next; on a visit it asks for the versions and, if one  *)
(* went up, for the tables that hang on it.                                *)
(***************************************************************************)
EXTENDS Integers, FiniteSets

CONSTANTS
    Values,       \* WebEOC values of one kind, say species
    Base,         \* their first ten characters without spaces, in upper case
    Short,        \* the first nine of those
    Seeded,       \* codes that migrations have created
    Suffixes,     \* how many numbers fit behind them
    Workers,      \* transactions that can overlap
    Clients,      \* browsers
    ComplaintTables, CaseTables,   \* the tables of each system
    MaxChanges,   \* bound: changes of the tables
    MaxFaults     \* bound: failed requests, and visits that end while requests are under way

Tables == ComplaintTables \cup CaseTables
Systems == {"complaint", "case"}

\* fetchComplaintCodeTables and fetchCaseCodeTables: what a higher version reloads.
Reloads(system) == IF system = "complaint" THEN ComplaintTables \ {"communities"} ELSE CaseTables

VARIABLES
    codes,     \* species_code: the codes, a base and a suffix each
    mapping,   \* staging_metadata_mapping: pairs of a value and its code
    content,   \* per table, the version with which it last changed
    version,   \* per system, configuration_value of CDTABLEVER
    tx,        \* per worker, the transaction it is in
    client,    \* per browser, what it keeps
    requests,  \* of the browsers
    faults

server == <<codes, mapping, content, version, tx>>
vars == <<server, client, requests, faults>>

NoTx == [step |-> "none"]
Codes == [base : {Base[v] : v \in Values} \cup {Short[v] : v \in Values}, suffix : 0..Suffixes]

\* The suffix takes the place of the tenth character.
NewCode(v, n) == [base |-> IF n = 0 THEN Base[v] ELSE Short[v], suffix |-> n]

ASSUME CodeTablesAssumption ==
    /\ Values # {} /\ Suffixes \in Nat
    /\ "species" \in ComplaintTables /\ ComplaintTables \cap CaseTables = {}
    /\ "version" \notin Tables
    /\ Seeded \subseteq Codes /\ MaxChanges \in Nat /\ MaxFaults \in Nat

\* Number(undefined): no number is higher, and it is higher than none.
Unknown == -1
Higher(new, old) == Unknown \notin {new, old} /\ new > old

\* `lost` is no state of the browser: the tables whose latest reload did not come
\* through, or was not asked for because a version was not known.
NoVersion == [s \in Systems |-> 0]
NewClient == [open |-> FALSE, tables |-> [t \in Tables |-> 0],
              version |-> NoVersion, lost |-> {}]

Init ==
    /\ codes = Seeded /\ mapping = {}
    /\ content = [t \in Tables |-> 1]
    /\ version = [s \in Systems |-> 1]
    /\ tx = [w \in Workers |-> NoTx]
    /\ client = [c \in Clients |-> NewClient]
    /\ requests = {} /\ faults = 0

-----------------------------------------------------------------------------
(* insert_and_return_code: each of its statements sees what was committed  *)
(* before that statement.                                                  *)

Step(w, t) == tx' = [tx EXCEPT ![w] = t]

\* A mapped value has its code, and nothing is to do.
SelectMapping(w, v) ==
    /\ tx[w] = NoTx /\ v \notin {p[1] : p \in mapping}
    /\ Step(w, [step |-> "loop", value |-> v])
    /\ UNCHANGED <<codes, mapping, content, version, client, requests, faults>>

\* The first suffix that is free, none at first; a number that does not fit raises.
SelectCode(w) ==
    /\ tx[w].step = "loop"
    /\ LET free == {n \in 0..Suffixes : NewCode(tx[w].value, n) \notin codes}
           first == CHOOSE n \in free : \A m \in free : n <= m
       IN  Step(w, IF free = {} THEN NoTx
                   ELSE [step |-> "write", value |-> tx[w].value,
                         code |-> NewCode(tx[w].value, first)])
    /\ UNCHANGED <<codes, mapping, content, version, client, requests, faults>>

\* The version is not counted up.
ChangesUncounted(system, t) ==
    /\ version["complaint"] + version["case"] < MaxChanges + 2
    /\ UNCHANGED version
    /\ content' = [content EXCEPT ![t] = version[system] + 1]

\* A table and the version change in one transaction.
Changes(system, t) ==
    /\ version["complaint"] + version["case"] < MaxChanges + 2
    /\ version' = [version EXCEPT ![system] = @ + 1]
    /\ content' = [content EXCEPT ![t] = version[system] + 1]

\* The primary key refuses a code that was committed in the meantime.
WriteCode(w) ==
    /\ tx[w].step = "write" /\ tx[w].code \notin codes
    /\ codes' = codes \cup {tx[w].code}
    /\ Changes("complaint", "species")
    /\ mapping' = mapping \cup {<<tx[w].value, tx[w].code>>}
    /\ Step(w, NoTx)
    /\ UNCHANGED <<client, requests, faults>>

\* "On conflict do nothing".
WriteRaisesNot(w) ==
    /\ tx[w].step = "write" /\ tx[w].code \in codes
    /\ mapping' = mapping \cup {<<tx[w].value, tx[w].code>>}
    /\ Step(w, NoTx)
    /\ UNCHANGED <<codes, content, version, client, requests, faults>>

WriteRaises(w) ==
    /\ tx[w].step = "write" /\ tx[w].code \in codes
    /\ Step(w, NoTx)
    /\ UNCHANGED <<codes, mapping, content, version, client, requests, faults>>

Release(system, t) ==
    /\ t \in IF system = "complaint" THEN ComplaintTables ELSE CaseTables
    /\ Changes(system, t)
    /\ UNCHANGED <<codes, mapping, tx, client, requests, faults>>

-----------------------------------------------------------------------------
(* The browser.                                                            *)

Request(c, of, why) == [client |-> c, of |-> of, why |-> why, at |-> "sent", table |-> 0,
                        version |-> NoVersion,
                        previous |-> IF of = "version" THEN client[c].version ELSE NoVersion]

Pending(c) == {r \in requests : r.client = c}

\* fetchAllCodeTables asks for the tables that are empty, getCodeTableVersion for the versions.
Visit(c) ==
    /\ ~client[c].open
    /\ client' = [client EXCEPT ![c].open = TRUE]
    /\ requests' = requests \cup {Request(c, "version", "visit")}
                  \cup {Request(c, t, "empty") : t \in {u \in Tables : client[c].tables[u] = 0}}
    /\ UNCHANGED <<server, faults>>

Fault == faults < MaxFaults /\ faults' = faults + 1

\* What is under way is lost with the page, what the store has persists.
Leave(c) ==
    /\ client[c].open
    /\ client' = [client EXCEPT ![c].open = FALSE,
                                ![c].lost = @ \cup {r.of : r \in {q \in Pending(c) : q.why = "reload"}}]
    /\ requests' = requests \ Pending(c)
    /\ IF Pending(c) = {} THEN UNCHANGED faults ELSE Fault
    /\ UNCHANGED server

Turns(r, s) == requests' = (requests \ {r}) \cup {s}

ServeComplaintTable(r) ==
    /\ r.at = "sent" /\ r.of \in ComplaintTables
    /\ Turns(r, [r EXCEPT !.at = "answered", !.table = content[r.of]])
    /\ UNCHANGED <<server, client, faults>>

ServeCaseTable(r) ==
    /\ r.at = "sent" /\ r.of \in CaseTables
    /\ Turns(r, [r EXCEPT !.at = "answered", !.table = content[r.of]])
    /\ UNCHANGED <<server, client, faults>>

\* The controller reads its own version, then asks the case API for the other one;
\* if that sends no data, it answers {} for its version all the same.
ServeVersion(r) ==
    /\ r.of = "version"
    /\ \/ /\ r.at = "sent"
          /\ Turns(r, [r EXCEPT !.at = "asked", !.version.complaint = version["complaint"]])
          /\ UNCHANGED faults
       \/ /\ r.at = "asked"
          /\ Turns(r, [r EXCEPT !.at = "answered", !.version.case = version["case"]])
          /\ UNCHANGED faults
       \/ /\ r.at = "asked" /\ Fault
          /\ Turns(r, [r EXCEPT !.at = "answered", !.version.case = Unknown])
    /\ UNCHANGED <<server, client>>

\* A table that did not come stays as it is, and so do the versions when the request
\* for them fails, or the one for the version of the case API does.
RequestFails(r) ==
    /\ r.at # "answered" /\ Fault
    /\ requests' = requests \ {r}
    /\ client' = [client EXCEPT ![r.client].lost = @ \cup (IF r.why = "reload" THEN {r.of} ELSE {})]
    /\ UNCHANGED server

ReceiveTable(r) ==
    /\ r.at = "answered" /\ r.of \in Tables
    /\ client' = [client EXCEPT ![r.client].tables[r.of] = r.table]
    /\ requests' = requests \ {r}
    /\ UNCHANGED <<server, faults>>

\* The version of the case API is compared only if the other one is the same.
ReceiveVersionElse(r) ==
    LET c == r.client
        higher == {s \in Systems : Higher(r.version[s], r.previous[s])}
        due == Reloads(IF "complaint" \in higher THEN "complaint" ELSE "case")
    IN  /\ r.at = "answered" /\ r.of = "version"
        /\ requests' = (requests \ {r}) \cup
                 (IF higher = {} THEN {} ELSE {Request(c, t, "reload") : t \in due})
        /\ client' = [client EXCEPT ![c].version = r.version]
        /\ UNCHANGED <<server, faults>>

\* Asks for the tables and takes the versions without waiting for them, the unknown
\* one too: the next is then not compared.  A table that is being asked for anyway
\* may come in either order.
ReceiveVersion(r) ==
    LET c == r.client
        higher == {s \in Systems : Higher(r.version[s], r.previous[s])}
        due == UNION {Reloads(s) : s \in higher}
        unknown == {s \in Systems : r.version[s] = Unknown}
    IN  /\ r.at = "answered" /\ r.of = "version"
        /\ requests' = (requests \ {r}) \cup {Request(c, t, "reload") : t \in due}
        /\ client' = [client EXCEPT
               ![c].version = r.version,
               ![c].lost = (@ \ due) \cup {t \in due : \E q \in Pending(c) : q.of = t}
                                      \cup UNION {Reloads(s) : s \in unknown}]
        /\ UNCHANGED <<server, faults>>

-----------------------------------------------------------------------------
Insert(w) == (\E v \in Values : SelectMapping(w, v)) \/ SelectCode(w) \/ WriteCode(w) \/ WriteRaises(w)

Answer(r) ==
    \/ ServeComplaintTable(r) \/ ServeCaseTable(r) \/ ServeVersion(r)
    \/ ReceiveTable(r) \/ ReceiveVersion(r)

Next ==
    \/ \E w \in Workers : Insert(w)
    \/ \E s \in Systems, t \in Tables : Release(s, t)
    \/ \E c \in Clients : Visit(c) \/ Leave(c)
    \/ \E r \in requests : Answer(r) \/ RequestFails(r)

Spec == Init /\ [][Next]_vars

\* Servers answer, browsers take answers, and officers come again.
Goes(c) == \/ Visit(c)
           \/ Pending(c) = {} /\ Leave(c)
           \/ \E r \in Pending(c) : Answer(r)

FairSpec == Spec /\ \A c \in Clients : WF_vars(Goes(c))

-----------------------------------------------------------------------------
\* The type invariant.
TypeOK ==
    /\ codes \subseteq Codes /\ \A w \in Workers : tx[w].step = "write" => tx[w].code \in Codes
    /\ mapping \subseteq Values \X Codes
    /\ content \in [Tables -> 1..MaxChanges + 1] /\ version \in [Systems -> 1..MaxChanges + 1]
    /\ \A c \in Clients : /\ client[c].tables \in [Tables -> 0..MaxChanges + 1]
                          /\ client[c].version \in [Systems -> {Unknown} \cup 0..MaxChanges + 1]
                          /\ client[c].lost \subseteq Tables
    /\ \A r \in requests : r.client \in Clients /\ r.at \in {"sent", "asked", "answered"}
    /\ faults \in 0..MaxFaults

\* Two WebEOC values never end up with the same code, nor one with a code that was
\* there, however their insertions overlap and however alike they are.
CodesAreNotShared ==
    \A p \in mapping : p[2] \notin Seeded /\ \A q \in mapping : p[2] = q[2] => p[1] = q[1]

\* A browser that has taken a version and waits for nothing has every change up to
\* that version of the tables that hang on it, but for reloads that did not come
\* through and those that an unknown version hid: an answer cannot be older than the
\* version that asked for it.
CachedIsCurrent ==
    \A c \in Clients, s \in Systems :
        Pending(c) = {} =>
            \A t \in Reloads(s) \ client[c].lost :
                content[t] <= client[c].version[s] => client[c].tables[t] = content[t]

\* Every change of a table that hangs on a version gets to every browser, with
\* visits that do not end early, requests that do not fail and versions that are known.
ChangesArrive ==
    \A c \in Clients, s \in Systems :
        <>[](\A t \in Reloads(s) : client[c].tables[t] = content[t] \/ t \in client[c].lost)

=============================================================================
