-------------------------- MODULE CodeTablesProofs --------------------------
(***************************************************************************)
(* Proofs about CodeTables, for any values, codes, transactions, browsers  *)
(* and tables.                                                             *)
(***************************************************************************)
EXTENDS CodeTables, TLAPS

\* CodesAreNotShared is kept because a mapped code is one of the table, so that a
\* code the primary key admits is not mapped yet.
MappedAreCodes == /\ Seeded \subseteq codes
                  /\ \A p \in mapping : p[2] \in codes
                  /\ CodesAreNotShared

LEMMA CodesStay ==
    ASSUME MappedAreCodes, UNCHANGED <<codes, mapping>>
    PROVE  MappedAreCodes'
BY DEF MappedAreCodes, CodesAreNotShared

LEMMA WriteKeeps ==
    ASSUME MappedAreCodes, NEW w \in Workers, WriteCode(w)
    PROVE  MappedAreCodes'
<1> DEFINE code == tx[w].code
<1> DEFINE pair == <<tx[w].value, code>>
<1>1. /\ code \notin codes
      /\ codes' = codes \cup {code} /\ mapping' = mapping \cup {pair} /\ pair[2] = code
  BY DEF WriteCode
<1> HIDE DEF pair, code
<1>2. Seeded \subseteq codes' /\ \A p \in mapping' : p[2] \in codes'
  BY <1>1 DEF MappedAreCodes
<1>3. \A p \in mapping' : p[2] \notin Seeded
  BY <1>1 DEF MappedAreCodes, CodesAreNotShared
<1>4. ASSUME NEW p \in mapping', NEW q \in mapping', p[2] = q[2]
      PROVE  p[1] = q[1]
  <2>1. CASE p \in mapping /\ q \in mapping
    BY <1>4, <2>1 DEF MappedAreCodes, CodesAreNotShared
  <2>2. CASE p = pair \/ q = pair
    BY <1>1, <1>4, <2>2 DEF MappedAreCodes
  <2>3. QED
    BY <1>1, <2>1, <2>2
<1>5. QED
  BY <1>2, <1>3, <1>4 DEF MappedAreCodes, CodesAreNotShared

\* Two WebEOC values never end up with the same code, nor one with a code that a
\* migration made, for any number of transactions that overlap.
THEOREM CodesAreNotSharedThm == Spec => []CodesAreNotShared
<1>1. Init => MappedAreCodes
  BY DEF Init, MappedAreCodes, CodesAreNotShared
<1>2. ASSUME MappedAreCodes, [Next]_vars
      PROVE  MappedAreCodes'
  <2>1. ASSUME NEW w \in Workers, Insert(w)
        PROVE  MappedAreCodes'
    <3>1. CASE WriteCode(w)
      BY <1>2, <3>1, WriteKeeps
    <3>2. CASE (\E v \in Values : SelectMapping(w, v)) \/ SelectCode(w) \/ WriteRaises(w)
      BY <1>2, <3>2, CodesStay DEF SelectMapping, SelectCode, WriteRaises
    <3>3. QED
      BY <2>1, <3>1, <3>2 DEF Insert
  <2>2. ASSUME NEW s \in Systems, NEW t \in Tables, Release(s, t)
        PROVE  MappedAreCodes'
    BY <1>2, <2>2, CodesStay DEF Release
  <2>3. ASSUME NEW c \in Clients, Visit(c) \/ Leave(c)
        PROVE  MappedAreCodes'
    BY <1>2, <2>3, CodesStay DEF Visit, Leave, server
  <2>4. ASSUME NEW r \in requests, Answer(r) \/ RequestFails(r)
        PROVE  MappedAreCodes'
    BY <1>2, <2>4, CodesStay
       DEF Answer, RequestFails, ServeComplaintTable, ServeCaseTable, ServeVersion,
           ReceiveTable, ReceiveVersion, server
  <2>5. CASE UNCHANGED vars
    BY <1>2, <2>5, CodesStay DEF vars, server
  <2>6. QED
    BY <1>2, <2>1, <2>2, <2>3, <2>4, <2>5 DEF Next
<1>3. MappedAreCodes => CodesAreNotShared
  BY DEF MappedAreCodes
<1>4. QED
  BY <1>1, <1>2, <1>3, PTL DEF Spec

-----------------------------------------------------------------------------
(* What a browser keeps.                                                   *)

Records == [client : Clients, of : Tables \cup {"version"}, why : {"visit", "empty", "reload"},
            at : {"sent", "asked", "answered"}, table : Nat,
            version : [Systems -> Int], previous : [Systems -> Int]]
Caches == [open : BOOLEAN, tables : [Tables -> Nat], version : [Systems -> Int],
           lost : SUBSET Tables]

Shape == /\ version \in [Systems -> Nat] /\ content \in [Tables -> Nat \ {0}]
         /\ client \in [Clients -> Caches] /\ requests \subseteq Records
         /\ \A r \in requests : r.why = "reload" => r.of \in Tables

\* A browser asks for the version once per visit, and knows no version that is not
\* there yet.
Asks == /\ \A c \in Clients, s \in Systems : client[c].version[s] <= version[s]
        /\ \A r \in requests : client[r.client].open
        /\ \A r \in requests : r.of = "version" =>
               /\ r.previous = client[r.client].version
               /\ \A s \in Systems : r.version[s] <= version[s]
        /\ \A r, q \in requests : r.of = "version" /\ q.of = "version" /\ r.client = q.client => r = q

\* A change of a table the browser knows by its version has come, or a reload that
\* cannot miss it is under way and nothing older is.
Arrives(c, s, t) ==
    content[t] <= client[c].version[s] =>
        /\ client[c].tables[t] = content[t] \/ \E r \in Pending(c) : r.of = t
        /\ \A r \in Pending(c) : r.of = t => r.why = "reload" /\ (r.at # "sent" => r.table = content[t])

Reaches == \A c \in Clients, s \in Systems : \A t \in Reloads(s) \ client[c].lost : Arrives(c, s, t)

\* Of a version it does not know a browser counts on no table.
Hidden == \A c \in Clients, s \in Systems :
              client[c].version[s] = Unknown => Reloads(s) \subseteq client[c].lost

IInv == Shape /\ Asks /\ Reaches /\ Hidden

LEMMA ReloadedTables == \A s \in Systems : Reloads(s) \subseteq Tables
BY DEF Systems, Reloads, Tables

\* Nothing of a table the browser knows has moved, but for a version that went down.
LEMMA Unmoved ==
    ASSUME Shape, Shape', NEW c \in Clients, NEW s \in Systems, NEW t \in Tables, Arrives(c, s, t),
           content'[t] = content[t],
           client'[c].version[s] <= client[c].version[s], client'[c].tables[t] = client[c].tables[t],
           \A r : r.client = c /\ r.of = t => (r \in requests <=> r \in requests')
    PROVE  Arrives(c, s, t)'
<1>1. content[t] \in Nat /\ client[c].version[s] \in Int /\ client'[c].version[s] \in Int
  BY DEF Shape, Caches
<1>2. SUFFICES ASSUME content[t] <= client[c].version[s]
               PROVE  Arrives(c, s, t)'
  BY <1>1 DEF Arrives
<1>3. \A r : r \in Pending(c) /\ r.of = t <=> r \in Pending(c)' /\ r.of = t
  BY DEF Pending
<1>4. QED
  BY <1>2, <1>3 DEF Arrives

\* A table changes with a version nobody knows yet.
LEMMA ChangeKeeps ==
    ASSUME CodeTablesAssumption, IInv, NEW s \in Systems, NEW t \in Tables,
           Changes(s, t), s = IF t \in ComplaintTables THEN "complaint" ELSE "case",
           UNCHANGED <<client, requests>>
    PROVE  IInv'
<1>1. /\ version' = [version EXCEPT ![s] = @ + 1] /\ content' = [content EXCEPT ![t] = version[s] + 1]
      /\ version \in [Systems -> Nat] /\ content \in [Tables -> Nat \ {0}]
  BY DEF Changes, IInv, Shape
<1>2. Shape'
  BY <1>1 DEF IInv, Shape
<1>3. \A u \in Systems : version[u] <= version'[u]
  BY <1>1
<1>4. Asks'
  <2>1. \A c \in Clients, u \in Systems : client[c].version[u] \in Int
    BY DEF IInv, Shape, Caches
  <2>2. \A r \in requests, u \in Systems : r.version[u] \in Int
    BY DEF IInv, Shape, Records
  <2>3. \A u \in Systems : version[u] \in Nat /\ version'[u] \in Nat
    BY <1>1
  <2>4. \A c \in Clients, u \in Systems : client[c].version[u] <= version'[u]
    BY <1>3, <2>1, <2>3 DEF IInv, Asks
  <2>5. \A r \in requests : r.of = "version" => \A u \in Systems : r.version[u] <= version'[u]
    BY <1>3, <2>2, <2>3 DEF IInv, Asks
  <2>6. QED
    BY <2>4, <2>5 DEF IInv, Asks
<1>5. ASSUME NEW c \in Clients, NEW u \in Systems, NEW x \in Reloads(u) \ client[c].lost
      PROVE  Arrives(c, u, x)'
  <2>1. x \in Tables
    BY ReloadedTables
  <2>2. CASE x = t
    <3>1. u = s
      BY <2>2, <1>5 DEF CodeTablesAssumption, Reloads, Systems
    <3>2. client[c].version[s] <= version[s] /\ client[c].version[s] \in Int /\ version[s] \in Nat
      BY DEF IInv, Asks, Shape, Caches
    <3>3. content'[t] = version[s] + 1
      BY <1>1
    <3>4. ~(content'[x] <= client'[c].version[u])
      BY <2>2, <3>1, <3>2, <3>3
    <3>5. QED
      BY <3>4 DEF Arrives
  <2>3. CASE x # t
    <3>1. content'[x] = content[x] /\ Arrives(c, u, x) /\ Shape
      BY <1>1, <2>1, <2>3 DEF IInv, Reaches
    <3>2. client[c].version[u] \in Int
      BY DEF IInv, Shape, Caches
    <3>3. QED
      BY <1>2, <2>1, <3>1, <3>2, Unmoved
  <2>4. QED
    BY <2>2, <2>3
<1>6. QED
  BY <1>2, <1>4, <1>5 DEF IInv, Reaches, Hidden

LEMMA VisitKeeps ==
    ASSUME CodeTablesAssumption, IInv, NEW c \in Clients, Visit(c)
    PROVE  IInv'
<1> DEFINE asked == {Request(c, "version", "visit")}
                       \cup {Request(c, t, "empty") : t \in {u \in Tables : client[c].tables[u] = 0}}
<1>1. /\ ~client[c].open /\ client' = [client EXCEPT ![c].open = TRUE]
      /\ requests' = requests \cup asked
      /\ UNCHANGED <<version, content>>
  BY DEF Visit, server
<1>2. /\ client \in [Clients -> Caches] /\ requests \subseteq Records
      /\ content \in [Tables -> Nat \ {0}] /\ version \in [Systems -> Nat]
  BY DEF IInv, Shape
<1>3. Pending(c) = {}
  BY <1>1 DEF IInv, Asks, Pending
<1>4. /\ client' \in [Clients -> Caches] /\ client'[c].open
      /\ \A d \in Clients : /\ client'[d].version = client[d].version
                            /\ client'[d].tables = client[d].tables
                            /\ client'[d].lost = client[d].lost
                            /\ client[d].open => client'[d].open
  <2> DEFINE new == [client[c] EXCEPT !.open = TRUE]
  <2>1. /\ new \in Caches /\ new.open /\ new.version = client[c].version
        /\ new.tables = client[c].tables /\ new.lost = client[c].lost
    BY <1>2 DEF Caches
  <2>2. client' = [client EXCEPT ![c] = new]
    BY <1>1
  <2> HIDE DEF new
  <2>3. QED
    BY <1>2, <2>1, <2>2
<1>5. NoVersion \in [Systems -> Int] /\ client[c].version \in [Systems -> Int]
  BY <1>2 DEF NoVersion, Caches
<1>6. \A r \in asked :
          /\ r \in Records /\ r.client = c /\ r.why # "reload"
          /\ r.of = "version" => r = Request(c, "version", "visit")
          /\ r.of # "version" => client[c].tables[r.of] = 0
  BY <1>5 DEF Request, Records, CodeTablesAssumption
<1>7. /\ Request(c, "version", "visit").previous = client[c].version
      /\ Request(c, "version", "visit").version = NoVersion
  BY DEF Request
<1> HIDE DEF asked
<1>8. Shape'
  BY <1>1, <1>2, <1>4, <1>6 DEF IInv, Shape
<1>9. Asks'
  <2>1. \A d \in Clients, s \in Systems : client'[d].version[s] <= version'[s]
    BY <1>1, <1>4 DEF IInv, Asks
  <2>2. \A r \in requests' : client'[r.client].open
    BY <1>1, <1>2, <1>4, <1>6 DEF IInv, Asks, Records
  <2>3. ASSUME NEW r \in requests', r.of = "version"
        PROVE  r.previous = client'[r.client].version /\ \A s \in Systems : r.version[s] <= version'[s]
    <3>1. CASE r \in requests
      BY <1>1, <1>2, <1>4, <2>3, <3>1 DEF IInv, Asks, Records
    <3>2. CASE r \in asked
      BY <1>1, <1>2, <1>4, <1>6, <1>7, <2>3, <3>2 DEF NoVersion
    <3>3. QED
      BY <1>1, <3>1, <3>2
  <2>4. ASSUME NEW r \in requests', NEW q \in requests', r.of = "version", q.of = "version",
               r.client = q.client
        PROVE  r = q
    BY <1>1, <1>3, <1>6, <2>4 DEF IInv, Asks, Pending
  <2>5. QED
    BY <2>1, <2>2, <2>3, <2>4 DEF Asks
<1>10. ASSUME NEW d \in Clients, NEW s \in Systems, NEW t \in Reloads(s) \ client'[d].lost
       PROVE  Arrives(d, s, t)'
  <2>1. t \in Tables /\ Arrives(d, s, t)
    BY <1>4, ReloadedTables DEF IInv, Reaches
  <2>2. SUFFICES ASSUME content[t] <= client[d].version[s]
                 PROVE  Arrives(d, s, t)'
    BY <1>1, <1>4 DEF Arrives
  <2>3. \A r \in asked : r.of = t => d # c
    <3>1. CASE d = c
      <4>1. client[c].tables[t] = content[t] /\ content[t] # 0
        BY <1>2, <1>3, <2>1, <2>2, <3>1 DEF Arrives
      <4>2. t # "version"
        BY <2>1 DEF CodeTablesAssumption
      <4>3. QED
        BY <1>6, <4>1, <4>2
    <3>2. QED
      BY <3>1
  <2>4. \A r : r.client = d /\ r.of = t => (r \in requests <=> r \in requests')
    BY <1>1, <1>6, <2>3
  <2>5. client'[d].version[s] \in Int
    BY <1>4, <1>2 DEF Caches
  <2>6. QED
    BY <1>1, <1>4, <1>8, <2>1, <2>4, <2>5, Unmoved DEF IInv
<1>11. QED
  BY <1>4, <1>8, <1>9, <1>10 DEF IInv, Reaches, Hidden

\* Requests that do not come through: of the tables a browser counts on, none but
\* those it counts as lost.
LEMMA LossKeeps ==
    ASSUME CodeTablesAssumption, IInv, UNCHANGED <<version, content>>,
           requests' \subseteq requests, client' \in [Clients -> Caches],
           \A d \in Clients : /\ client'[d].version = client[d].version
                              /\ client'[d].tables = client[d].tables
                              /\ client[d].lost \subseteq client'[d].lost,
           \A r \in requests' : client'[r.client].open,
           \A r \in requests \ requests' : r.why = "reload" => r.of \in client'[r.client].lost
    PROVE  IInv'
<1>1. Shape'
  BY DEF IInv, Shape
<1>2. Asks'
  BY DEF IInv, Asks, Shape, Records
<1>3. ASSUME NEW d \in Clients, NEW s \in Systems, NEW t \in Reloads(s) \ client'[d].lost
      PROVE  Arrives(d, s, t)'
  <2>1. t \in Tables /\ Arrives(d, s, t)
    BY ReloadedTables DEF IInv, Reaches
  <2>2. SUFFICES ASSUME content[t] <= client[d].version[s]
                 PROVE  Arrives(d, s, t)'
    BY DEF Arrives
  <2>3. \A r : r.client = d /\ r.of = t => (r \in requests <=> r \in requests')
    BY <2>1, <2>2 DEF Arrives, Pending
  <2>4. client'[d].version[s] \in Int
    BY DEF Caches
  <2>5. QED
    BY <1>1, <2>1, <2>3, <2>4, Unmoved DEF IInv
<1>4. QED
  BY <1>1, <1>2, <1>3 DEF IInv, Reaches, Hidden

LEMMA LeaveKeeps ==
    ASSUME CodeTablesAssumption, IInv, NEW c \in Clients, Leave(c)
    PROVE  IInv'
<1> DEFINE gone == {r.of : r \in {q \in Pending(c) : q.why = "reload"}}
<1> DEFINE new == [[client[c] EXCEPT !.open = FALSE] EXCEPT !.lost = @ \cup gone]
<1>1. /\ client' = [client EXCEPT ![c] = new] /\ requests' = requests \ Pending(c)
      /\ UNCHANGED <<version, content>>
  BY DEF Leave, server
<1>2. client \in [Clients -> Caches] /\ requests \subseteq Records
  BY DEF IInv, Shape
<1>3. \A r \in Pending(c) : r.why = "reload" => r.of \in gone
  OBVIOUS
<1>4. gone \subseteq Tables
  BY DEF IInv, Shape, Pending
<1> HIDE DEF gone
<1>5. /\ new \in Caches /\ new.version = client[c].version /\ new.tables = client[c].tables
      /\ new.lost = client[c].lost \cup gone
  BY <1>2, <1>4 DEF Caches
<1> HIDE DEF new
<1>6. /\ client' \in [Clients -> Caches]
      /\ \A d \in Clients : /\ client'[d].version = client[d].version
                            /\ client'[d].tables = client[d].tables
                            /\ client[d].lost \subseteq client'[d].lost
  BY <1>1, <1>2, <1>5
<1>7. \A r \in requests' : client'[r.client].open
  BY <1>1, <1>2 DEF IInv, Asks, Pending, Records
<1>8. \A r \in requests \ requests' : r.why = "reload" => r.of \in client'[r.client].lost
  BY <1>1, <1>2, <1>3, <1>5 DEF Pending
<1>9. QED
  BY <1>1, <1>6, <1>7, <1>8, LossKeeps

LEMMA RequestFailsKeeps ==
    ASSUME CodeTablesAssumption, IInv, NEW r \in requests, RequestFails(r)
    PROVE  IInv'
<1> DEFINE c == r.client
<1> DEFINE gone == IF r.why = "reload" THEN {r.of} ELSE {}
<1> DEFINE new == [client[c] EXCEPT !.lost = @ \cup gone]
<1>1. /\ client' = [client EXCEPT ![c] = new] /\ requests' = requests \ {r}
      /\ UNCHANGED <<version, content>>
  BY DEF RequestFails, server
<1>2. /\ client \in [Clients -> Caches] /\ requests \subseteq Records /\ c \in Clients
      /\ gone \subseteq Tables
  BY DEF IInv, Shape, Records
<1>3. r.why = "reload" => r.of \in gone
  OBVIOUS
<1> HIDE DEF gone
<1>4. /\ new \in Caches /\ new.version = client[c].version /\ new.tables = client[c].tables
      /\ new.open = client[c].open /\ new.lost = client[c].lost \cup gone
  BY <1>2 DEF Caches
<1> HIDE DEF new
<1>5. /\ client' \in [Clients -> Caches]
      /\ \A d \in Clients : /\ client'[d].version = client[d].version
                            /\ client'[d].tables = client[d].tables
                            /\ client'[d].open = client[d].open
                            /\ client[d].lost \subseteq client'[d].lost
  BY <1>1, <1>2, <1>4
<1>6. \A q \in requests' : client'[q.client].open
  BY <1>1, <1>2, <1>5 DEF IInv, Asks, Records
<1>7. \A q \in requests \ requests' : q.why = "reload" => q.of \in client'[q.client].lost
  BY <1>1, <1>2, <1>3, <1>4
<1>8. QED
  BY <1>1, <1>5, <1>6, <1>7, LossKeeps

\* A server answers with the table as it is.
LEMMA ServeTableKeeps ==
    ASSUME CodeTablesAssumption, IInv, NEW r \in requests,
           ServeComplaintTable(r) \/ ServeCaseTable(r)
    PROVE  IInv'
<1> DEFINE a == [[r EXCEPT !.at = "answered"] EXCEPT !.table = content[r.of]]
<1>1. /\ r.of \in Tables /\ requests' = (requests \ {r}) \cup {a}
      /\ UNCHANGED <<version, content, client>>
  BY DEF ServeComplaintTable, ServeCaseTable, Turns, Tables, server
<1>2. /\ r \in Records /\ requests \subseteq Records /\ content[r.of] \in Nat
      /\ r.why = "reload" => r.of \in Tables
      /\ r.of # "version"
  BY <1>1 DEF IInv, Shape, CodeTablesAssumption
<1>3. /\ a \in Records /\ a.client = r.client /\ a.of = r.of /\ a.why = r.why
      /\ a.table = content[a.of]
  BY <1>2 DEF Records
<1> HIDE DEF a
<1>4. Shape'
  BY <1>1, <1>2, <1>3 DEF IInv, Shape
<1>5. Asks'
  BY <1>1, <1>2, <1>3 DEF IInv, Asks
<1>6. ASSUME NEW d \in Clients, NEW s \in Systems, NEW t \in Reloads(s) \ client'[d].lost
      PROVE  Arrives(d, s, t)'
  <2>1. Arrives(d, s, t)
    BY <1>1 DEF IInv, Reaches
  <2>2. SUFFICES ASSUME content[t] <= client[d].version[s]
                 PROVE  Arrives(d, s, t)'
    BY <1>1 DEF Arrives
  <2>3. client[d].tables[t] = content[t] \/ \E q \in Pending(d)' : q.of = t
    BY <1>1, <1>3, <2>1, <2>2 DEF Arrives, Pending
  <2>4. ASSUME NEW q \in Pending(d)', q.of = t
        PROVE  q.why = "reload" /\ (q.at # "sent" => q.table = content[t])
    BY <1>1, <1>3, <2>1, <2>2, <2>4 DEF Arrives, Pending
  <2>5. QED
    BY <1>1, <2>3, <2>4 DEF Arrives
<1>7. QED
  BY <1>1, <1>4, <1>5, <1>6 DEF IInv, Reaches, Hidden

LEMMA ServeVersionKeeps ==
    ASSUME CodeTablesAssumption, IInv, NEW r \in requests, ServeVersion(r)
    PROVE  IInv'
<1>1. r.of = "version" /\ r \in Records /\ requests \subseteq Records /\ version \in [Systems -> Nat]
  BY DEF ServeVersion, IInv, Shape
<1>2. PICK a \in Records :
          /\ requests' = (requests \ {r}) \cup {a}
          /\ a.client = r.client /\ a.of = r.of /\ a.why = r.why /\ a.previous = r.previous
          /\ \A s \in Systems : a.version[s] \in {r.version[s], version[s], Unknown}
  <2>1. ASSUME NEW s \in Systems, NEW at \in {"asked", "answered"}, NEW v \in {version[s], Unknown},
               requests' = (requests \ {r}) \cup
                               {[r EXCEPT !.at = at, !.version = [r.version EXCEPT ![s] = v]]}
        PROVE  \E a \in Records :
                   /\ requests' = (requests \ {r}) \cup {a}
                   /\ a.client = r.client /\ a.of = r.of /\ a.why = r.why /\ a.previous = r.previous
                   /\ \A u \in Systems : a.version[u] \in {r.version[u], version[u], Unknown}
    <3> DEFINE seen == [r.version EXCEPT ![s] = v]
    <3> DEFINE a == [[r EXCEPT !.at = at] EXCEPT !.version = seen]
    <3>1. requests' = (requests \ {r}) \cup {a}
      BY <2>1
    <3>2. /\ seen \in [Systems -> Int]
          /\ \A u \in Systems : seen[u] \in {r.version[u], version[u], Unknown}
      BY <1>1 DEF Records, Unknown
    <3> HIDE DEF seen
    <3>3. /\ a \in Records /\ a.client = r.client /\ a.of = r.of /\ a.why = r.why
          /\ a.previous = r.previous /\ a.version = seen
      BY <1>1, <3>2 DEF Records
    <3> HIDE DEF a
    <3>4. QED
      BY <3>1, <3>2, <3>3
  <2>2. \/ requests' = (requests \ {r}) \cup
               {[r EXCEPT !.at = "asked",
                          !.version = [r.version EXCEPT !["complaint"] = version["complaint"]]]}
        \/ requests' = (requests \ {r}) \cup
               {[r EXCEPT !.at = "answered",
                          !.version = [r.version EXCEPT !["case"] = version["case"]]]}
        \/ requests' = (requests \ {r}) \cup
               {[r EXCEPT !.at = "answered",
                          !.version = [r.version EXCEPT !["case"] = Unknown]]}
    BY <1>1 DEF ServeVersion, Turns, Records, Systems
  <2>3. QED
    BY <2>1, <2>2 DEF Systems
<1>3. UNCHANGED <<version, content, client>>
  BY DEF ServeVersion, server
<1>4. Shape'
  BY <1>1, <1>2, <1>3 DEF IInv, Shape
<1>5. Asks'
  <2>1. \A s \in Systems : a.version[s] <= version[s]
    BY <1>1, <1>2 DEF IInv, Asks, Unknown
  <2>2. QED
    BY <1>1, <1>2, <1>3, <2>1 DEF IInv, Asks
<1>6. ASSUME NEW d \in Clients, NEW s \in Systems, NEW t \in Reloads(s) \ client'[d].lost
      PROVE  Arrives(d, s, t)'
  <2>1. t \in Tables /\ Arrives(d, s, t)
    BY <1>3, ReloadedTables DEF IInv, Reaches
  <2>2. \A q : q.client = d /\ q.of = t => (q \in requests <=> q \in requests')
    BY <1>1, <1>2, <2>1 DEF CodeTablesAssumption
  <2>3. client'[d].version[s] \in Int
    BY <1>3 DEF IInv, Shape, Caches
  <2>4. QED
    BY <1>3, <1>4, <2>1, <2>2, <2>3, Unmoved DEF IInv
<1>7. QED
  BY <1>3, <1>4, <1>5, <1>6 DEF IInv, Reaches, Hidden

LEMMA ReceiveTableKeeps ==
    ASSUME CodeTablesAssumption, IInv, NEW r \in requests, ReceiveTable(r)
    PROVE  IInv'
<1> DEFINE c == r.client
<1> DEFINE tables == [client[c].tables EXCEPT ![r.of] = r.table]
<1> DEFINE new == [client[c] EXCEPT !.tables = tables]
<1>1. /\ r.of \in Tables /\ r.at = "answered" /\ requests' = requests \ {r}
      /\ client' = [client EXCEPT ![c] = new]
      /\ UNCHANGED <<version, content>>
  BY DEF ReceiveTable, server
<1>2. /\ client \in [Clients -> Caches] /\ requests \subseteq Records /\ c \in Clients
      /\ r.table \in Nat
  BY DEF IInv, Shape, Records
<1>3. /\ tables \in [Tables -> Nat] /\ tables[r.of] = r.table
      /\ \A t \in Tables \ {r.of} : tables[t] = client[c].tables[t]
  BY <1>1, <1>2 DEF Caches
<1> HIDE DEF tables
<1>4. /\ new \in Caches /\ new.open = client[c].open /\ new.tables = tables
      /\ new.version = client[c].version /\ new.lost = client[c].lost
  BY <1>2, <1>3 DEF Caches
<1> HIDE DEF new
<1>5. /\ client' \in [Clients -> Caches] /\ client'[c].tables = tables
      /\ \A d \in Clients : /\ client'[d].version = client[d].version
                            /\ client'[d].open = client[d].open
                            /\ client'[d].lost = client[d].lost
                            /\ d # c => client'[d].tables = client[d].tables
  BY <1>1, <1>2, <1>4
<1>6. Shape'
  BY <1>1, <1>2, <1>5 DEF IInv, Shape
<1>7. Asks'
  BY <1>1, <1>2, <1>5 DEF IInv, Asks, Records
<1>8. ASSUME NEW d \in Clients, NEW s \in Systems, NEW t \in Reloads(s) \ client'[d].lost
      PROVE  Arrives(d, s, t)'
  <2>1. t \in Tables /\ Arrives(d, s, t)
    BY <1>5, ReloadedTables DEF IInv, Reaches
  <2>2. CASE d = c /\ t = r.of
    <3>1. SUFFICES ASSUME content[t] <= client[d].version[s]
                   PROVE  Arrives(d, s, t)'
      BY <1>1, <1>5 DEF Arrives
    <3>2. r.table = content[t]
      BY <1>1, <2>1, <2>2, <3>1 DEF Arrives, Pending
    <3>3. \A q \in Pending(d)' : q.of = t => q.why = "reload" /\ (q.at # "sent" => q.table = content[t])
      BY <1>1, <2>1, <3>1 DEF Arrives, Pending
    <3>4. QED
      BY <1>1, <1>3, <1>5, <2>2, <3>2, <3>3 DEF Arrives
  <2>3. CASE d # c \/ t # r.of
    <3>1. client'[d].tables[t] = client[d].tables[t]
      BY <1>3, <1>5, <2>1, <2>3
    <3>2. \A q : q.client = d /\ q.of = t => (q \in requests <=> q \in requests')
      BY <1>1, <2>3
    <3>3. client'[d].version[s] \in Int
      BY <1>5 DEF Caches
    <3>4. QED
      BY <1>1, <1>5, <1>6, <2>1, <3>1, <3>2, <3>3, Unmoved DEF IInv
  <2>4. QED
    BY <2>2, <2>3
<1>9. QED
  BY <1>5, <1>6, <1>7, <1>8 DEF IInv, Reaches, Hidden

\* A version that went up asks for its tables before it is taken.
LEMMA ReceiveVersionKeeps ==
    ASSUME CodeTablesAssumption, IInv, NEW r \in requests, ReceiveVersion(r)
    PROVE  IInv'
<1> DEFINE c == r.client
<1> DEFINE higher == {s \in Systems : Higher(r.version[s], r.previous[s])}
<1> DEFINE due == UNION {Reloads(s) : s \in higher}
<1> DEFINE asked == {Request(c, t, "reload") : t \in due}
<1> DEFINE hid == UNION {Reloads(s) : s \in {u \in Systems : r.version[u] = Unknown}}
<1> DEFINE lost == (client[c].lost \ due) \cup {t \in due : \E q \in Pending(c) : q.of = t} \cup hid
<1> DEFINE new == [[client[c] EXCEPT !.version = r.version] EXCEPT !.lost = lost]
<1>1. /\ r.of = "version" /\ requests' = (requests \ {r}) \cup asked
      /\ client' = [client EXCEPT ![c] = new]
      /\ UNCHANGED <<version, content>>
  BY DEF ReceiveVersion, server
<1>2. /\ client \in [Clients -> Caches] /\ requests \subseteq Records /\ c \in Clients
      /\ r.version \in [Systems -> Int] /\ r.previous = client[c].version
      /\ \A s \in Systems : r.version[s] <= version[s]
  BY <1>1 DEF IInv, Shape, Asks, Records
<1>3. /\ due \subseteq Tables
      /\ \A s \in Systems : Higher(r.version[s], r.previous[s]) => Reloads(s) \subseteq due
      /\ hid \subseteq Tables
      /\ \A s \in Systems : r.version[s] = Unknown => Reloads(s) \subseteq hid
      /\ \A s \in Systems : r.previous[s] = Unknown => Reloads(s) \cap due = {}
  BY ReloadedTables DEF Higher, Reloads, Systems, CodeTablesAssumption
<1>4. /\ \A t \in due : Request(c, t, "reload") \in asked
      /\ \A q \in asked : /\ q \in Records /\ q.client = c /\ q.why = "reload" /\ q.at = "sent"
                          /\ q.of \in due
  <2>1. NoVersion \in [Systems -> Int] /\ client[c].version \in [Systems -> Int]
    BY <1>2 DEF NoVersion, Caches
  <2>2. QED
    BY <1>2, <1>3, <2>1 DEF Request, Records
<1>5. /\ lost \subseteq Tables /\ client[c].lost \subseteq lost \cup due
      /\ \A t \in due \ lost : \A q \in Pending(c) : q.of # t
      /\ hid \subseteq lost
  BY <1>2, <1>3 DEF Caches
<1>6. "version" \notin due
  BY <1>3 DEF CodeTablesAssumption
<1> HIDE DEF higher, due, asked, hid, lost
<1>7. /\ new \in Caches /\ new.open = client[c].open /\ new.tables = client[c].tables
      /\ new.version = r.version /\ new.lost = lost
  BY <1>2, <1>5 DEF Caches
<1> HIDE DEF new
<1>8. /\ client' \in [Clients -> Caches] /\ client'[c].version = r.version /\ client'[c].lost = lost
      /\ \A d \in Clients : /\ client'[d].tables = client[d].tables
                            /\ client'[d].open = client[d].open
                            /\ d # c => client'[d] = client[d]
  BY <1>1, <1>2, <1>7
<1>9. Shape'
  BY <1>1, <1>2, <1>3, <1>4, <1>8 DEF IInv, Shape
<1>10. Asks'
  <2>1. \A d \in Clients, s \in Systems : client'[d].version[s] <= version'[s]
    BY <1>1, <1>2, <1>8 DEF IInv, Asks
  <2>2. \A q \in requests' : client'[q.client].open
    BY <1>1, <1>2, <1>4, <1>8 DEF IInv, Asks, Records
  <2>3. \A q \in requests' : q.of = "version" => q \in requests /\ q.client # c
    BY <1>1, <1>2, <1>4, <1>6 DEF IInv, Asks
  <2>4. QED
    BY <1>1, <1>2, <1>8, <2>1, <2>2, <2>3 DEF IInv, Asks, Records
<1>11. ASSUME NEW d \in Clients, NEW s \in Systems, NEW t \in Reloads(s) \ client'[d].lost
       PROVE  Arrives(d, s, t)'
  <2>1. t \in Tables /\ t # r.of
    BY <1>1, ReloadedTables DEF CodeTablesAssumption
  <2>2. client[d].version[s] \in Int /\ client'[d].version[s] \in Int
    BY <1>2, <1>8 DEF Caches
  <2>3. CASE d = c /\ t \in due
    <3>1. \A q \in Pending(d)' : q.of = t => q \in asked
      BY <1>1, <1>5, <1>8, <2>3 DEF Pending
    <3>2. \E q \in Pending(d)' : q.of = t
      <4>1. Request(c, t, "reload").of = t /\ Request(c, t, "reload").client = c
        BY DEF Request
      <4>2. QED
        BY <1>1, <1>4, <2>3, <4>1 DEF Pending
    <3>3. QED
      BY <1>4, <3>1, <3>2 DEF Arrives
  <2>4. CASE d # c \/ t \notin due
    <3>1. client'[d].version[s] <= client[d].version[s]
      <4>1. CASE d # c
        BY <1>8, <2>2, <4>1
      <4>2. CASE d = c /\ t \notin due
        <5>1. r.version[s] # Unknown
          BY <1>3, <1>5, <1>8, <4>2
        <5>2. r.previous[s] # Unknown
          BY <1>2, <1>5, <1>8, <4>2 DEF IInv, Hidden
        <5>3. ~(r.version[s] > r.previous[s])
          BY <1>3, <4>2, <5>1, <5>2 DEF Higher
        <5> QED
          BY <1>2, <1>8, <2>2, <4>2, <5>3
      <4>3. QED
        BY <2>4, <4>1, <4>2
    <3>2. Arrives(d, s, t)
      BY <1>5, <1>8, <2>4 DEF IInv, Reaches
    <3>3. \A q : q.client = d /\ q.of = t => (q \in requests <=> q \in requests')
      BY <1>1, <1>4, <2>1, <2>4
    <3>4. QED
      BY <1>1, <1>8, <1>9, <2>1, <3>1, <3>2, <3>3, Unmoved DEF IInv
  <2>5. QED
    BY <2>3, <2>4
<1>12. ASSUME NEW d \in Clients, NEW s \in Systems, client'[d].version[s] = Unknown
       PROVE  Reloads(s) \subseteq client'[d].lost
  <2>1. CASE d # c
    BY <1>8, <1>12, <2>1 DEF IInv, Hidden
  <2>2. CASE d = c
    BY <1>3, <1>5, <1>8, <1>12, <2>2
  <2>3. QED
    BY <2>1, <2>2
<1>13. QED
  BY <1>9, <1>10, <1>11, <1>12 DEF IInv, Reaches, Hidden

\* A browser that waits for nothing has every change up to the version it took of
\* the tables that hang on it, except reloads that did not come through and those that
\* an unknown version hid, for any number of browsers, tables, changes and faults.
THEOREM CachedIsCurrentThm == Spec => []CachedIsCurrent
<1> USE CodeTablesAssumption
<1>1. Init => IInv
  <2> SUFFICES ASSUME Init
               PROVE  IInv
    OBVIOUS
  <2>1. Shape
    BY DEF Init, Shape, Caches, NewClient, NoVersion
  <2>2. Asks
    BY DEF Init, Asks, NewClient, NoVersion
  <2>3. Reaches
    BY ReloadedTables DEF Init, Reaches, Arrives, NewClient, NoVersion
  <2>4. Hidden
    BY DEF Init, Hidden, NewClient, NoVersion, Unknown
  <2>5. QED
    BY <2>1, <2>2, <2>3, <2>4 DEF IInv
<1>2. ASSUME IInv, [Next]_vars
      PROVE  IInv'
  <2>1. ASSUME UNCHANGED <<version, content, client, requests>>
        PROVE  IInv'
    BY <1>2, <2>1 DEF IInv, Shape, Asks, Reaches, Arrives, Pending, Hidden
  <2>2. ASSUME NEW w \in Workers, Insert(w)
        PROVE  IInv'
    <3>1. CASE WriteCode(w)
      BY <1>2, <3>1, ChangeKeeps DEF WriteCode, Systems, Tables, CodeTablesAssumption
    <3>2. CASE (\E v \in Values : SelectMapping(w, v)) \/ SelectCode(w) \/ WriteRaises(w)
      BY <2>1, <3>2 DEF SelectMapping, SelectCode, WriteRaises
    <3>3. QED
      BY <2>2, <3>1, <3>2 DEF Insert
  <2>3. ASSUME NEW s \in Systems, NEW t \in Tables, Release(s, t)
        PROVE  IInv'
    <3>1. s = IF t \in ComplaintTables THEN "complaint" ELSE "case"
      BY <2>3 DEF Release, Systems, CodeTablesAssumption
    <3>2. QED
      BY <1>2, <2>3, <3>1, ChangeKeeps DEF Release
  <2>4. ASSUME NEW c \in Clients, Visit(c) \/ Leave(c)
        PROVE  IInv'
    BY <1>2, <2>4, VisitKeeps, LeaveKeeps
  <2>5. ASSUME NEW r \in requests, Answer(r) \/ RequestFails(r)
        PROVE  IInv'
    BY <1>2, <2>5, ServeTableKeeps, ServeVersionKeeps, ReceiveTableKeeps, ReceiveVersionKeeps,
       RequestFailsKeeps DEF Answer
  <2>6. CASE UNCHANGED vars
    BY <2>1, <2>6 DEF vars, server
  <2>7. QED
    BY <1>2, <2>2, <2>3, <2>4, <2>5, <2>6 DEF Next
<1>3. IInv => CachedIsCurrent
  BY DEF IInv, Reaches, Arrives, CachedIsCurrent
<1>4. QED
  BY <1>1, <1>2, <1>3, PTL DEF Spec

=============================================================================
