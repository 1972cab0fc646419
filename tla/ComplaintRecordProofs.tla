------------------------ MODULE ComplaintRecordProofs ------------------------
(***************************************************************************)
(* What the fields and the attractants of a complaint hold, for any number *)
(* of officers, values, attractants and events.  The argument is about     *)
(* stamps.  Everything somebody gives a field carries the number of the    *)
(* event that gave it; a page knows the stamps of what it read.  A stamp   *)
(* that is still on its way is nowhere else, so that what a page read      *)
(* under the stamp a field has now is what the field holds now: a form may *)
(* write that back.                                                        *)
(***************************************************************************)
EXTENDS ComplaintRecord, FiniteSetTheorems, SequenceTheorems, TLAPS

Told == {"caller_name", "species_code", "complaint_status_code"}

Held == Values \cup {Null, Empty}
Columns == [Fields -> Held]
Row == [code : Attractants, active : BOOLEAN]
Item == [row : Nat, code : Attractants, active : BOOLEAN]
Dtos == [fields : Columns, attractants : SUBSET Item, stamps : [Fields -> Nat]]
Pages == [at : {"closed", "view", "edit", "saving"}, data : Dtos, draft : Dtos, base : Dtos]
Messages == [user : Users, op : {"load", "save", "status", "create"}, n : Nat,
             at : {"sent", "complaint", "answered"}, stamp : Nat, body : Dtos,
             base : Dtos, ok : BOOLEAN]
Statement == [row : Nat, code : Attractants, stamp : Nat]
Procedures == [runs : {"edit", "update"}, values : Columns, list : SUBSET Attractants,
               stamp : Nat, writes : SUBSET Fields]
Gifts == [Fields -> [value : Held, stamp : Nat]]

TypeInv ==
    /\ record \in Columns /\ original \in Columns /\ webeoc \in Columns
    /\ rows \in Seq(Row) /\ writes \in SUBSET Statement
    /\ procedure = NoProcedure \/ procedure \in Procedures
    /\ page \in [Users -> Pages] /\ flight \in SUBSET Messages
    /\ given \in Gifts /\ overruled \in SUBSET Fields /\ chosen \in SUBSET Attractants
    /\ changes \in Nat /\ faults \in Nat

-----------------------------------------------------------------------------
(* The parts of the invariant.                                             *)

\* The complaint comes once, from a form or from WebEOC, and nothing is known of it before.
OriginInv ==
    /\ procedure # NoProcedure => origin = "webeoc"
    /\ \A m \in flight : m.op = "create" =>
         /\ m.at = "sent" => origin = "none"
         /\ m.at = "answered" /\ m.ok => origin # "none"
    /\ \A m, n \in flight : m.op = "create" /\ n.op = "create" => m = n
    /\ origin = "none" => /\ rows = <<>> /\ writes = {}
                          /\ \A u \in Users : page[u].at = "closed"
                          /\ \A m \in flight : m.op = "create"

\* An update writes what it was sent, but for the column it compares with nothing.
UpdateInv(pr, orig) ==
    pr # NoProcedure /\ pr.runs = "update" =>
        \A f \in pr.writes : f = "reported_by_code" \/ pr.values[f] # orig[f]

\* What a request has yet to give to a field.
Owes(m, f) ==
    \/ m.op \in {"save", "status", "create"} /\ m.at = "sent"
    \/ m.op = "save" /\ m.at = "complaint" /\ f = "species_code"

\* Stamps on their way to a field.
Due(fl, pr) == [f \in Fields |-> {m.stamp : m \in {x \in fl : Owes(x, f)}}
                                 \cup (IF pr = NoProcedure THEN {} ELSE {pr.stamp})]

\* A stamp is on its way once.
StampInv(fl, pr, now) ==
    /\ \A m \in fl : m.stamp <= now /\ (m.op # "load" => m.stamp # 0)
    /\ \A m, n \in fl : m.stamp = n.stamp /\ m.stamp # 0 => m = n
    /\ pr # NoProcedure => /\ pr.stamp # 0 /\ pr.stamp <= now
                           /\ \A m \in fl : m.stamp # pr.stamp

GivenInv(giv, due, now) ==
    \A f \in Fields : /\ giv[f].stamp <= now /\ giv[f].stamp \notin due[f]
                      /\ giv[f].stamp = 0 => giv[f].value = Null

\* What was read from the database, and not entered.
Reads(pg, fl) == {pg[u].data : u \in Users} \cup {pg[u].base : u \in Users}
                 \cup {m.base : m \in fl} \cup {m.body : m \in {x \in fl : x.op = "load"}}

AsRead(d, giv, over, due, now) ==
    \A f \in Fields :
        /\ d.stamps[f] <= now /\ d.stamps[f] \notin due[f]
        /\ f \in Told \ over /\ d.stamps[f] = giv[f].stamp => Same(d.fields[f], giv[f].value)

ReadInv(pg, fl, giv, over, due, now) ==
    \A d \in Reads(pg, fl) : AsRead(d, giv, over, due, now)

Stands(rec, giv, over) == \A f \in Told \ over : Same(rec[f], giv[f].value)

\* A row of an attractant keeps its code.
Points(row, code, rs) == row # 0 => row \in 1..Len(rs) /\ rs[row].code = code

Shown(pg, fl) == {pg[u].data : u \in Users} \cup {pg[u].draft : u \in Users}
                 \cup {pg[u].base : u \in Users} \cup {m.body : m \in fl}

Fits(d, rs) == \A i \in d.attractants : Points(i.row, i.code, rs)

PointInv(pg, fl, ws, rs) ==
    /\ \A d \in Shown(pg, fl) : Fits(d, rs)
    /\ \A w \in ws : Points(w.row, w.code, rs)

\* There, and nobody is about to take it away; or about to be there.
Kept(c, ws, rs) ==
    \/ \E w \in ws : w.row = 0 /\ w.code = c
    \/ \E n \in 1..Len(rs) : rs[n].active /\ rs[n].code = c /\ \A w \in ws : w.row # n

KeptInv(ch, ws, rs) == \A c \in ch : Kept(c, ws, rs)

FieldsInv ==
    /\ TypeInv /\ OriginInv /\ UpdateInv(procedure, original)
    /\ StampInv(flight, procedure, changes)
    /\ GivenInv(given, Due(flight, procedure), changes)
    /\ ReadInv(page, flight, given, overruled, Due(flight, procedure), changes)
    /\ Stands(record, given, overruled)

RowsInv == PointInv(page, flight, writes, rows) /\ KeptInv(chosen, writes, rows)

IInv == FieldsInv /\ RowsInv

-----------------------------------------------------------------------------
(* The operators.                                                          *)

\* The two kinds of nothing are one: Same is an equivalence.
LEMMA SameEquivalence ==
    /\ \A a : Same(a, a)
    /\ \A a, b : Same(a, b) => Same(b, a)
    /\ \A a, b, c : Same(a, b) /\ Same(b, c) => Same(a, c)
  BY DEF Same

\* The rows of a list hold its codes, each of them active.
LEMMA NewRowsOK ==
    ASSUME RecordAssumption, NEW list \in SUBSET Attractants
    PROVE  /\ NewRows(list) \in Seq(Row)
           /\ \A n \in 1..Len(NewRows(list)) : NewRows(list)[n].active
           /\ \A c \in list : \E n \in 1..Len(NewRows(list)) : NewRows(list)[n].code = c
  <1> DEFINE k == Cardinality(list)
             f == SetToSeq(list)
  <1>1. IsFiniteSet(list)
    BY FS_Subset DEF RecordAssumption
  <1>2. k \in Nat /\ ExistsBijection(1..k, list)
    BY <1>1, FS_CardinalityType
  <1>3. \E g \in [1..k -> list] : IsInjective(g)
    BY <1>2 DEF ExistsBijection, Bijection, Injection, IsInjective
  <1>4. f \in [1..k -> list] /\ IsInjective(f)
    BY <1>3 DEF SetToSeq
  <1>5. f \in Injection(1..k, list)
    BY <1>4 DEF Injection
  <1>6. Cardinality(1..k) = k
    BY <1>2, FS_Interval
  <1>7. f \in Surjection(1..k, list)
    BY <1>1, <1>5, <1>6, FS_Injection
  <1>8. \A c \in list : \E n \in 1..k : f[n] = c
    BY <1>7 DEF Surjection
  <1> HIDE DEF k, f
  <1>9. NewRows(list) = [n \in 1..k |-> [code |-> f[n], active |-> TRUE]]
    BY DEF NewRows, k, f
  <1>10. NewRows(list) \in [1..k -> Row]
    BY <1>4, <1>9 DEF Row
  <1>11. NewRows(list) \in Seq(Row) /\ Len(NewRows(list)) = k
    BY <1>2, <1>10, SeqDef
  <1>12. \A n \in 1..k : NewRows(list)[n].active /\ NewRows(list)[n].code = f[n]
    BY <1>9
  <1> QED
    BY <1>8, <1>11, <1>12

\* An empty page and an empty request.
LEMMA NothingIsTyped ==
    ASSUME RecordAssumption
    PROVE  /\ NoRecord \in Columns /\ NoDto \in Dtos /\ Closed \in Pages
           /\ NoDto.attractants = {} /\ NoDto.stamps = [f \in Fields |-> 0] /\ NoDto.fields = NoRecord
  BY DEF RecordAssumption, NoRecord, NoDto, Closed, Columns, Held, Dtos, Pages

LEMMA MessageIsTyped ==
    ASSUME NEW u \in Users, NEW op \in {"load", "save", "status", "create"}, NEW n \in Nat,
           NEW stamp \in Nat, NEW body \in Dtos, NEW base \in Dtos
    PROVE  Message(u, op, n, stamp, body, base) \in Messages
  BY DEF Message, Messages

LEMMA LoadIsTyped ==
    ASSUME RecordAssumption, NEW u \in Users, NEW n \in Nat
    PROVE  Load(u, n) \in Messages
  BY NothingIsTyped, MessageIsTyped DEF Load

LEMMA ViewIsTyped ==
    ASSUME RecordAssumption, NEW p \in Pages, NEW d \in Dtos
    PROVE  View(p, d) \in Pages
  BY NothingIsTyped DEF View, Pages, Closed

\* What the backend reads is a data transfer object of the columns.
LEMMA DtoIsTyped ==
    ASSUME RecordAssumption, TypeInv
    PROVE  Dto \in Dtos
  <1>1. [f \in Fields |-> ToDto(f, record[f])] \in Columns
    BY DEF TypeInv, ToDto, Columns, Held
  <1>2. [f \in Fields |-> given[f].stamp] \in [Fields -> Nat]
    BY DEF TypeInv, Gifts
  <1>3. {[row |-> n, code |-> rows[n].code, active |-> TRUE] :
            n \in {k \in DOMAIN rows : rows[k].active}} \in SUBSET Item
    <2> SUFFICES \A n \in {k \in DOMAIN rows : rows[k].active} :
                     [row |-> n, code |-> rows[n].code, active |-> TRUE] \in Item
      OBVIOUS
    <2>1. DOMAIN rows \subseteq Nat /\ \A n \in DOMAIN rows : rows[n] \in Row
      BY DEF TypeInv
    <2>2. TAKE n \in {k \in DOMAIN rows : rows[k].active}
    <2>3. n \in Nat /\ rows[n].code \in Attractants
      BY <2>1 DEF Row
    <2> QED
      BY <2>3 DEF Item
  <1> QED
    BY <1>1, <1>2, <1>3 DEF Dto, Dtos

LEMMA GiveIsTyped ==
    ASSUME TypeInv, NEW fields, NEW values \in Columns, NEW stamp \in Nat,
           Give(fields, values, stamp)
    PROVE  given' \in Gifts
  BY DEF TypeInv, Give, Gifts, Columns

LEMMA ToTableIsTyped ==
    ASSUME RecordAssumption, NEW values \in Columns
    PROVE  /\ [f \in Fields |-> ToTable(f, values[f])] \in Columns
           /\ \A f \in Told : ToTable(f, values[f]) = values[f]
  BY DEF ToTable, Columns, Held, Told

LEMMA StatementsAreTyped ==
    ASSUME NEW m \in Messages
    PROVE  /\ Statements(m) \in SUBSET Statement
           /\ Added(m) \in SUBSET Attractants /\ Removed(m) \in SUBSET Attractants
  <1>1. m.body.attractants \in SUBSET Item /\ m.stamp \in Nat
    BY DEF Messages, Dtos
  <1>2. ASSUME NEW i \in m.body.attractants
        PROVE  /\ i.row \in Nat /\ i.code \in Attractants
               /\ [row |-> i.row, code |-> i.code, stamp |-> m.stamp] \in Statement
    BY <1>1 DEF Item, Statement
  <1>3. Statements(m) \in SUBSET Statement
    BY <1>2 DEF Statements
  <1>4. Added(m) \in SUBSET Attractants /\ Removed(m) \in SUBSET Attractants
    BY <1>2 DEF Added, Removed
  <1> QED
    BY <1>3, <1>4

LEMMA OverwriteIsTyped ==
    ASSUME RecordAssumption, TypeInv, NEW m \in Messages, NEW fields \in SUBSET Fields,
           Overwrite(m, fields)
    PROVE  record' \in Columns /\ given' \in Gifts /\ overruled' \in SUBSET Fields
  <1> DEFINE table == [f \in Fields |-> ToTable(f, m.body.fields[f])]
             mine == {f \in fields : ~Same(m.body.fields[f], m.base.fields[f])}
  <1>1. m.body.fields \in Columns /\ m.stamp \in Nat
    BY DEF Messages, Dtos
  <1>2. table \in Columns
    BY <1>1, ToTableIsTyped
  <1> HIDE DEF table, mine
  <1>3. record' = [f \in Fields |-> IF f \in fields THEN table[f] ELSE record[f]]
    BY DEF Overwrite, table
  <1>4. record' \in Columns
    BY <1>2, <1>3 DEF TypeInv, Columns
  <1>5. Give(mine, table, m.stamp)
    BY DEF Overwrite, mine, table
  <1>6. given' \in Gifts
    BY <1>1, <1>2, <1>5, GiveIsTyped
  <1>7. overruled' \in SUBSET Fields
    BY DEF Overwrite, TypeInv
  <1> QED
    BY <1>4, <1>6, <1>7

\* The columns that an event of WebEOC gives.
LEMMA FirstsAreTyped ==
    ASSUME RecordAssumption, NEW v \in Firsts, NEW list \in SUBSET Attractants
    PROVE  v \in Columns /\ Entered(v, list) \in Dtos
  <1>1. v \in Columns
    BY DEF RecordAssumption, Columns, Held
  <1>2. [v EXCEPT !["caller_name"] = IF @ = Null THEN Empty ELSE @] \in Columns
    BY <1>1 DEF Columns, Held
  <1>3. \A a \in list : [row |-> 0, code |-> a, active |-> TRUE] \in Item
    BY DEF Item
  <1> QED
    <2> DEFINE cs == [v EXCEPT !["caller_name"] = IF @ = Null THEN Empty ELSE @]
               is == {[row |-> 0, code |-> a, active |-> TRUE] : a \in list}
    <2>1. is \in SUBSET Item
      BY <1>3
    <2>2. cs \in Columns
      BY <1>2
    <2>3. Entered(v, list) = [NoDto EXCEPT !.fields = cs, !.attractants = is]
      BY DEF Entered
    <2> HIDE DEF cs, is
    <2>4. Entered(v, list) \in Dtos
      BY <2>1, <2>2, <2>3, NothingIsTyped DEF Dtos
    <2> QED
      BY <1>1, <2>4

\* WebEOC's events and the procedures.
LEMMA WebEOCIsTyped ==
    ASSUME RecordAssumption, TypeInv, WebEOC
    PROVE  TypeInv'
  <1>1. ASSUME NEW v \in Firsts, NEW list \in SUBSET Attractants, Import(v, list)
        PROVE  TypeInv'
    <2>1. v \in Columns /\ NewRows(list) \in Seq(Row)
      BY FirstsAreTyped, NewRowsOK
    <2>2. changes' \in Nat
      BY <1>1 DEF Import, Changes, TypeInv
    <2>3. given' \in Gifts
      BY <1>1, <2>1, <2>2, GiveIsTyped DEF Import
    <2> QED
      BY <1>1, <2>1, <2>2, <2>3 DEF Import, TypeInv
  <1>2. ASSUME NEW f \in Fields, NEW v \in Values, NEW list \in SUBSET Attractants,
               EditReads(f, v, list)
        PROVE  TypeInv'
    <2> DEFINE values == [webeoc EXCEPT ![f] = v]
               ws == {g \in Fields : Differs(g, values[g], record[g])}
    <2>1. values \in Columns
      BY DEF TypeInv, Columns, Held
    <2>2. changes' \in Nat /\ ws \in SUBSET Fields
      BY <1>2 DEF EditReads, Changes, TypeInv
    <2> HIDE DEF values, ws
    <2>3. procedure' = [runs |-> "edit", values |-> values, list |-> list, stamp |-> changes',
                        writes |-> ws]
      BY <1>2 DEF EditReads, values, ws
    <2>4. procedure' \in Procedures
      BY <2>1, <2>2, <2>3 DEF Procedures
    <2>5. webeoc' = values
      BY <1>2 DEF EditReads, values
    <2> QED
      BY <1>2, <2>1, <2>2, <2>4, <2>5 DEF EditReads, TypeInv, database, ghosts
  <1>3. ASSUME NEW f \in Updatable, NEW v \in Values, UpdateReads(f, v)
        PROVE  TypeInv'
    <2> DEFINE values == [original EXCEPT ![f] = v]
               ws == {g \in Updatable : /\ Differs(g, values[g], Original(g))
                                        /\ Differs(g, values[g], record[g])}
    <2>1. values \in Columns
      BY DEF TypeInv, Columns, Held, Updatable, Fields, Texts, Codes
    <2>2. changes' \in Nat /\ ws \in SUBSET Fields
      BY <1>3 DEF UpdateReads, Changes, TypeInv, Updatable, Fields, Texts, Codes
    <2> HIDE DEF values, ws
    <2>3. procedure' = [runs |-> "update", values |-> values, list |-> {}, stamp |-> changes',
                        writes |-> ws]
      BY <1>3 DEF UpdateReads, values, ws
    <2>4. procedure' \in Procedures
      BY <2>1, <2>2, <2>3 DEF Procedures
    <2> QED
      BY <1>3, <2>2, <2>4 DEF UpdateReads, TypeInv, database, ghosts
  <1>4. CASE ProcedureWrites
    <2> DEFINE p == procedure
               meant == {f \in p.writes : p.runs = "edit" \/ p.values[f] # original[f]}
    <2>1. p \in Procedures
      BY <1>4 DEF ProcedureWrites, TypeInv
    <2>2. /\ p.values \in Columns /\ p.stamp \in Nat /\ p.list \in SUBSET Attractants
          /\ p.writes \in SUBSET Fields
      BY <2>1 DEF Procedures
    <2> HIDE DEF p, meant
    <2>3. record' = [f \in Fields |-> IF f \in p.writes THEN p.values[f] ELSE record[f]]
      BY <1>4 DEF ProcedureWrites, p
    <2>4. record' \in Columns
      BY <2>2, <2>3 DEF TypeInv, Columns
    <2>5. Give(meant, p.values, p.stamp)
      BY <1>4 DEF ProcedureWrites, p, meant
    <2>6. given' \in Gifts
      BY <2>2, <2>5, GiveIsTyped
    <2>7. overruled' \in SUBSET Fields /\ chosen' \in SUBSET Attractants
      BY <1>4, <2>2 DEF ProcedureWrites, TypeInv, p
    <2>8. rows' \in Seq(Row)
      <3>1. CASE p.runs = "update"
        BY <1>4, <3>1 DEF ProcedureWrites, TypeInv, p
      <3>2. CASE p.runs # "update"
        <4> DEFINE off == [n \in DOMAIN rows |-> [rows[n] EXCEPT !.active = FALSE]]
        <4>1. rows \in Seq(Row) /\ DOMAIN rows = 1..Len(rows) /\ Len(rows) \in Nat
          BY DEF TypeInv
        <4>2. ASSUME NEW n \in DOMAIN rows
              PROVE  [rows[n] EXCEPT !.active = FALSE] \in Row
          <5>1. rows[n] \in Row
            BY <4>1
          <5> QED
            BY <5>1 DEF Row
        <4>3. off \in Seq(Row)
          <5>1. off \in [1..Len(rows) -> Row]
            BY <4>1, <4>2
          <5> QED
            BY <4>1, <5>1, SeqDef
        <4>4. rows' = off \o NewRows(p.list)
          BY <1>4, <3>2 DEF ProcedureWrites, p
        <4> HIDE DEF off
        <4>5. NewRows(p.list) \in Seq(Row)
          BY <2>2, NewRowsOK
        <4> QED
          BY <4>3, <4>4, <4>5, ConcatProperties
      <3> QED
        BY <3>1, <3>2
    <2> QED
      BY <1>4, <2>4, <2>6, <2>7, <2>8 DEF ProcedureWrites, TypeInv
  <1> QED
    BY <1>1, <1>2, <1>3, <1>4 DEF WebEOC

\* What officers do.
LEMMA OfficerIsTyped ==
    ASSUME RecordAssumption, TypeInv, NEW u \in Users, Officer(u)
    PROVE  TypeInv'
  <1> DEFINE p == page[u]
  <1>1. /\ p \in Pages /\ p.data \in Dtos /\ p.draft \in Dtos /\ p.base \in Dtos
        /\ p.draft.fields \in Columns /\ p.draft.attractants \in SUBSET Item
    BY DEF TypeInv, Pages, Dtos
  <1>2. ASSUME NEW q \in Pages, Shows(u, q)
        PROVE  page' \in [Users -> Pages]
    BY <1>2 DEF Shows, TypeInv
  <1>3. CASE Open(u)
    <2>1. [Closed EXCEPT !.at = "view"] \in Pages /\ Load(u, 1) \in Messages
      BY NothingIsTyped, LoadIsTyped DEF Pages
    <2> QED
      BY <1>2, <1>3, <2>1 DEF Open, TypeInv, database, ghosts
  <1>4. CASE Leave(u)
    BY <1>2, <1>4, NothingIsTyped DEF Leave, TypeInv, database, ghosts
  <1>5. CASE Edit(u)
    <2> DEFINE kept == p.data = NoDto
               q == [p EXCEPT !.at = "edit", !.draft = IF kept THEN @ ELSE p.data,
                              !.base = IF kept THEN @ ELSE p.data]
    <2>1. q \in Pages
      BY <1>1 DEF Pages
    <2>2. Shows(u, q)
      BY <1>5 DEF Edit
    <2> HIDE DEF q
    <2> QED
      BY <1>2, <1>5, <2>1, <2>2 DEF Edit, TypeInv, database, ghosts
  <1>6. CASE Cancel(u)
    <2>1. View(p, p.data) \in Pages
      BY <1>1, ViewIsTyped
    <2> QED
      BY <1>2, <1>6, <2>1 DEF Cancel, TypeInv, database, ghosts
  <1>7. ASSUME NEW f \in Fields, NEW v \in Values \cup {Empty}, ChangeField(u, f, v)
        PROVE  TypeInv'
    <2> DEFINE q == [p EXCEPT !.draft.fields[f] = v]
    <2>1. q \in Pages
      BY <1>1 DEF Pages, Dtos, Columns, Held
    <2>2. Shows(u, q)
      BY <1>7 DEF ChangeField
    <2> HIDE DEF q
    <2> QED
      BY <1>2, <1>7, <2>1, <2>2 DEF ChangeField, TypeInv, database, ghosts
  <1>8. ASSUME NEW a \in Attractants, ToggleAttractant(u, a)
        PROVE  TypeInv'
    <2> DEFINE items == p.draft.attractants
               old == {i \in items : i.code = a}
               new == IF old = {} THEN items \cup {[row |-> 0, code |-> a, active |-> TRUE]}
                      ELSE (items \ old) \cup {[i EXCEPT !.active = ~@] : i \in old}
               q == [p EXCEPT !.draft.attractants = new]
    <2>1. \A i \in items : i \in Item /\ [i EXCEPT !.active = ~@] \in Item
      BY <1>1 DEF Item
    <2>2. [row |-> 0, code |-> a, active |-> TRUE] \in Item
      BY DEF Item
    <2>3. new \in SUBSET Item
      <3>1. CASE old = {}
        BY <2>1, <2>2, <3>1
      <3>2. CASE old # {}
        <4>1. {[i EXCEPT !.active = ~@] : i \in old} \in SUBSET Item
          BY <2>1
        <4>2. new = (items \ old) \cup {[i EXCEPT !.active = ~@] : i \in old}
          BY <3>2
        <4> HIDE DEF new, old
        <4> QED
          BY <2>1, <4>1, <4>2
      <3> QED
        BY <3>1, <3>2
    <2>4. Shows(u, q)
      BY <1>8 DEF ToggleAttractant
    <2> HIDE DEF new
    <2>5. q \in Pages
      BY <1>1, <2>3 DEF Pages, Dtos
    <2> HIDE DEF q
    <2> QED
      BY <1>2, <1>8, <2>4, <2>5 DEF ToggleAttractant, TypeInv, database, ghosts
  <1>9. CASE Save(u)
    <2>1. changes' \in Nat /\ [p EXCEPT !.at = "saving"] \in Pages
      BY <1>1, <1>9 DEF Save, Changes, TypeInv, Pages
    <2>2. Message(u, "save", 1, changes', p.draft, p.base) \in Messages
      BY <1>1, <2>1, MessageIsTyped
    <2> QED
      BY <1>2, <1>9, <2>1, <2>2 DEF Save, TypeInv, database, ghosts
  <1>10. ASSUME NEW v \in Values, ChangeStatus(u, v)
         PROVE  TypeInv'
    <2>1. changes' \in Nat
      BY <1>10 DEF ChangeStatus, Changes, TypeInv
    <2>2. [NoDto EXCEPT !.fields["complaint_status_code"] = v] \in Dtos
      BY NothingIsTyped DEF Dtos, Columns, Held
    <2>3. Message(u, "status", 1, changes', [NoDto EXCEPT !.fields["complaint_status_code"] = v],
                  NoDto) \in Messages
      BY <2>1, <2>2, NothingIsTyped, MessageIsTyped
    <2> QED
      BY <1>10, <2>1, <2>3 DEF ChangeStatus, TypeInv, database, ghosts
  <1>11. ASSUME NEW v \in Firsts, NEW list \in SUBSET Attractants, Create(u, v, list)
         PROVE  TypeInv'
    <2>1. changes' \in Nat
      BY <1>11 DEF Create, Changes, TypeInv
    <2>2. Message(u, "create", 1, changes', Entered(v, list), NoDto) \in Messages
      BY <2>1, FirstsAreTyped, NothingIsTyped, MessageIsTyped
    <2> QED
      BY <1>11, <2>1, <2>2 DEF Create, TypeInv, database, ghosts
  <1> HIDE DEF p
  <1> QED
    BY <1>3, <1>4, <1>5, <1>6, <1>7, <1>8, <1>9, <1>10, <1>11 DEF Officer

\* What the backend does, and what the pages make of its replies.
LEMMA RequestIsTyped ==
    ASSUME RecordAssumption, TypeInv, NEW m \in flight,
           \/ Backend(m)
           \/ ReceiveLoad(m) \/ ReceiveSave(m) \/ ReceiveStatus(m) \/ ReceiveCreate(m)
    PROVE  TypeInv'
  <1>1. /\ m \in Messages /\ m.user \in Users /\ m.body \in Dtos /\ m.stamp \in Nat
        /\ m.body.fields \in Columns /\ page[m.user] \in Pages
    BY DEF TypeInv, Messages, Dtos
  <1>2. ASSUME NEW n \in Messages, Becomes(m, n)
        PROVE  flight' \in SUBSET Messages
    BY <1>2 DEF Becomes, TypeInv
  <1>3. [m EXCEPT !.at = "answered"] \in Messages
    BY <1>1 DEF Messages
  <1>4. ASSUME NEW q \in Pages, page' = [page EXCEPT ![m.user] = q]
        PROVE  page' \in [Users -> Pages]
    BY <1>1, <1>4 DEF TypeInv
  <1>5. CASE ServeLoad(m)
    <2>1. [m EXCEPT !.at = "answered", !.body = Dto] \in Messages
      BY <1>1, DtoIsTyped DEF Messages
    <2> QED
      BY <1>2, <1>5, <2>1 DEF ServeLoad, TypeInv, database, ghosts
  <1>6. CASE SaveComplaint(m)
    <2>1. record' \in Columns /\ given' \in Gifts /\ overruled' \in SUBSET Fields
      <3>1. Overwrite(m, Fields \ {"species_code"})
        BY <1>6 DEF SaveComplaint
      <3> QED
        BY <1>1, <3>1, OverwriteIsTyped
    <2>2. writes' \in SUBSET Statement /\ chosen' \in SUBSET Attractants
      BY <1>1, <1>6, StatementsAreTyped DEF SaveComplaint, TypeInv
    <2>3. [m EXCEPT !.at = "complaint"] \in Messages
      BY <1>1 DEF Messages
    <2> QED
      BY <1>2, <1>6, <2>1, <2>2, <2>3 DEF SaveComplaint, TypeInv
  <1>7. CASE SaveWildlife(m)
    <2>1. record' \in Columns /\ given' \in Gifts /\ overruled' \in SUBSET Fields
      <3>1. Overwrite(m, {"species_code"}) /\ {"species_code"} \in SUBSET Fields
        BY <1>7 DEF SaveWildlife, Fields, Codes
      <3> QED
        BY <1>1, <3>1, OverwriteIsTyped
    <2> QED
      BY <1>2, <1>3, <1>7, <2>1 DEF SaveWildlife, Answered, TypeInv
  <1>8. CASE ServeStatus(m)
    <2>1. given' \in Gifts
      BY <1>1, <1>8, GiveIsTyped DEF ServeStatus
    <2>2. record' \in Columns
      BY <1>1, <1>8 DEF ServeStatus, TypeInv, Columns
    <2>3. Load(m.user, 1) \in Messages
      BY <1>1, LoadIsTyped
    <2> QED
      BY <1>2, <1>8, <2>1, <2>2, <2>3 DEF ServeStatus, TypeInv
  <1>9. CASE ServeCreate(m)
    <2> DEFINE table == [f \in Fields |-> ToTable(f, m.body.fields[f])]
    <2>1. table \in Columns
      BY <1>1, ToTableIsTyped
    <2> HIDE DEF table
    <2>2. record' = table /\ original' = table /\ Give(Fields, table, m.stamp)
      BY <1>9 DEF ServeCreate, table
    <2>3. given' \in Gifts
      BY <1>1, <2>1, <2>2, GiveIsTyped
    <2>4. writes' \in SUBSET Statement /\ chosen' \in SUBSET Attractants
      BY <1>1, <1>9, StatementsAreTyped DEF ServeCreate, TypeInv
    <2> QED
      BY <1>2, <1>3, <1>9, <2>1, <2>2, <2>3, <2>4 DEF ServeCreate, Answered, TypeInv
  <1>10. CASE RequestFails(m)
    <2>1. [m EXCEPT !.at = "answered", !.ok = FALSE] \in Messages
      BY <1>1 DEF Messages
    <2> QED
      BY <1>2, <1>10, <2>1 DEF RequestFails, Fault, TypeInv, database, ghosts
  <1>11. CASE ReceiveLoad(m)
    <2>1. View(page[m.user], m.body) \in Pages
      BY <1>1, ViewIsTyped
    <2> QED
      BY <1>1, <1>4, <1>11, <2>1 DEF ReceiveLoad, TypeInv, database, ghosts
  <1>12. CASE ReceiveSave(m)
    <2>1. /\ View(page[m.user], NoDto) \in Pages
          /\ Load(m.user, 1) \in Messages /\ Load(m.user, 2) \in Messages
      BY <1>1, ViewIsTyped, NothingIsTyped, LoadIsTyped
    <2> QED
      BY <1>4, <1>12, <2>1 DEF ReceiveSave, TypeInv, database, ghosts
  <1>13. CASE ReceiveStatus(m)
    BY <1>13 DEF ReceiveStatus, TypeInv, database, ghosts
  <1>14. CASE ReceiveCreate(m)
    <2>1. Load(m.user, 1) \in Messages
      BY <1>1, LoadIsTyped
    <2>2. page' \in [Users -> Pages]
      BY <1>1, <1>14 DEF ReceiveCreate, TypeInv, Pages
    <2> QED
      BY <1>14, <2>1, <2>2 DEF ReceiveCreate, TypeInv, database, ghosts
  <1> QED
    BY <1>5, <1>6, <1>7, <1>8, <1>9, <1>10, <1>11, <1>12, <1>13, <1>14 DEF Backend

LEMMA LandsIsTyped ==
    ASSUME TypeInv, NEW w \in writes, Lands(w)
    PROVE  TypeInv'
  <1>1. w \in Statement /\ rows \in Seq(Row) /\ DOMAIN rows = 1..Len(rows) /\ Len(rows) \in Nat
    BY DEF TypeInv
  <1>2. rows' \in Seq(Row)
    <2>1. CASE w.row = 0
      <3>1. [code |-> w.code, active |-> TRUE] \in Row
        BY <1>1 DEF Statement, Row
      <3> QED
        BY <1>1, <2>1, <3>1, AppendProperties DEF Lands
    <2>2. CASE w.row # 0
      <3>1. rows' = [rows EXCEPT ![w.row].active = FALSE]
        BY <2>2 DEF Lands
      <3>2. rows' \in [1..Len(rows) -> Row]
        <4>1. rows \in [1..Len(rows) -> Row]
          BY <1>1
        <4> QED
          BY <3>1, <4>1 DEF Row
      <3> QED
        BY <1>1, <3>2, SeqDef
    <2> QED
      BY <2>1, <2>2
  <1> QED
    BY <1>2 DEF Lands, TypeInv, ghosts

LEMMA FailureIsTyped ==
    ASSUME TypeInv, NEW lost \in SUBSET writes, WritesFail(lost)
    PROVE  TypeInv'
  BY DEF WritesFail, Fault, TypeInv

LEMMA TypeStep ==
    ASSUME RecordAssumption, TypeInv, [Next]_vars
    PROVE  TypeInv'
  <1>1. CASE WebEOC
    BY <1>1, WebEOCIsTyped
  <1>2. ASSUME NEW u \in Users, Officer(u)
        PROVE  TypeInv'
    BY <1>2, OfficerIsTyped
  <1>3. ASSUME NEW m \in flight, \/ Backend(m)
                                 \/ ReceiveLoad(m) \/ ReceiveSave(m) \/ ReceiveStatus(m)
                                 \/ ReceiveCreate(m)
        PROVE  TypeInv'
    BY <1>3, RequestIsTyped
  <1>4. ASSUME NEW w \in writes, Lands(w)
        PROVE  TypeInv'
    BY <1>4, LandsIsTyped
  <1>5. CASE UNCHANGED vars
    BY <1>5 DEF vars, database, ghosts, TypeInv
  <1>6. ASSUME NEW lost \in SUBSET writes, WritesFail(lost)
        PROVE  TypeInv'
    BY <1>6, FailureIsTyped
  <1> QED
    BY <1>1, <1>2, <1>3, <1>4, <1>5, <1>6 DEF Next

-----------------------------------------------------------------------------
(* Stamps on their way.                                                    *)

\* Only what was sent now is on its way anew.
DueLater ==
    \A f \in Fields : \A s \in Due(flight', procedure')[f] :
        s \in Due(flight, procedure)[f] \/ (s = changes + 1 /\ changes' = changes + 1)

StampsLater == StampInv(flight', procedure', changes') /\ DueLater

LEMMA DueIs ==
    ASSUME NEW f \in Fields, NEW s, NEW fl, NEW pr
    PROVE  s \in Due(fl, pr)[f] <=> \/ \E m \in fl : Owes(m, f) /\ m.stamp = s
                                    \/ pr # NoProcedure /\ pr.stamp = s
  BY DEF Due

\* Requests end or lose something to do, and pages read.
LEMMA LoadsAreQuiet ==
    ASSUME TypeInv, StampInv(flight, procedure, changes), NEW more,
           \A l \in more : l.stamp = 0 /\ l.op = "load",
           flight' \subseteq flight \cup more, procedure' = procedure \/ procedure' = NoProcedure,
           changes' \in Nat, changes' >= changes
    PROVE  StampsLater
  <1>1. \A m \in flight : m.stamp \in Nat
    BY DEF TypeInv, Messages
  <1>2. procedure # NoProcedure => procedure.stamp \in Nat
    BY DEF TypeInv, Procedures
  <1>3. changes \in Nat
    BY DEF TypeInv
  <1>4. StampInv(flight', procedure', changes')
    <2>1. \A m \in flight' : m.stamp <= changes' /\ (m.op # "load" => m.stamp # 0)
      BY <1>1, <1>3 DEF StampInv
    <2>2. \A m, n \in flight' : m.stamp = n.stamp /\ m.stamp # 0 => m = n
      BY DEF StampInv
    <2>3. procedure' # NoProcedure => /\ procedure'.stamp # 0 /\ procedure'.stamp <= changes'
                                      /\ \A m \in flight' : m.stamp # procedure'.stamp
      BY <1>2, <1>3 DEF StampInv
    <2> QED
      BY <2>1, <2>2, <2>3 DEF StampInv
  <1>5. DueLater
    <2> SUFFICES ASSUME NEW f \in Fields, NEW s \in Due(flight', procedure')[f]
                 PROVE  s \in Due(flight, procedure)[f]
      BY DEF DueLater
    <2>1. \A l \in more : ~Owes(l, f)
      BY DEF Owes
    <2> QED
      BY <2>1, DueIs
  <1> QED
    BY <1>4, <1>5 DEF StampsLater

\* A request goes on under its stamp.
LEMMA RequestGoesOn ==
    ASSUME TypeInv, StampInv(flight, procedure, changes), NEW m \in flight, NEW n,
           Becomes(m, n), n.stamp = m.stamp, n.op = m.op,
           \A f \in Fields : Owes(n, f) => Owes(m, f),
           procedure' = procedure, changes' = changes
    PROVE  StampsLater
  <1>1. flight' = (flight \ {m}) \cup {n}
    BY DEF Becomes
  <1>2. StampInv(flight', procedure', changes')
    BY <1>1 DEF StampInv
  <1>3. DueLater
    <2> SUFFICES ASSUME NEW f \in Fields, NEW s \in Due(flight', procedure')[f]
                 PROVE  s \in Due(flight, procedure)[f]
      BY DEF DueLater
    <2> QED
      BY <1>1, DueIs
  <1> QED
    BY <1>2, <1>3 DEF StampsLater

\* A request is sent under a stamp of its own.
LEMMA RequestIsSent ==
    ASSUME TypeInv, StampInv(flight, procedure, changes), NEW n,
           flight' = flight \cup {n}, n.stamp = changes',
           procedure' = procedure, changes' = changes + 1
    PROVE  StampsLater
  <1>1. \A m \in flight : m.stamp \in Nat
    BY DEF TypeInv, Messages
  <1>2. procedure # NoProcedure => procedure.stamp \in Nat
    BY DEF TypeInv, Procedures
  <1>3. changes \in Nat
    BY DEF TypeInv
  <1>4. StampInv(flight', procedure', changes')
    <2>1. \A m \in flight' : m.stamp <= changes' /\ (m.op # "load" => m.stamp # 0)
      BY <1>1, <1>3 DEF StampInv
    <2>2. \A m \in flight : m.stamp # n.stamp
      BY <1>1, <1>3 DEF StampInv
    <2>3. \A m, k \in flight' : m.stamp = k.stamp /\ m.stamp # 0 => m = k
      BY <2>2 DEF StampInv
    <2>4. procedure' # NoProcedure => /\ procedure'.stamp # 0 /\ procedure'.stamp <= changes'
                                      /\ \A m \in flight' : m.stamp # procedure'.stamp
      BY <1>2, <1>3 DEF StampInv
    <2> QED
      BY <2>1, <2>3, <2>4 DEF StampInv
  <1>5. DueLater
    <2> SUFFICES ASSUME NEW f \in Fields, NEW s \in Due(flight', procedure')[f]
                 PROVE  s \in Due(flight, procedure)[f] \/ s = changes + 1
      BY DEF DueLater
    <2> QED
      BY DueIs
  <1> QED
    BY <1>4, <1>5 DEF StampsLater

\* A procedure begins under a stamp of its own.
LEMMA ProcedureBegins ==
    ASSUME TypeInv, StampInv(flight, procedure, changes),
           flight' = flight, procedure'.stamp = changes', changes' = changes + 1
    PROVE  StampsLater
  <1>1. \A m \in flight : m.stamp \in Nat
    BY DEF TypeInv, Messages
  <1>2. changes \in Nat
    BY DEF TypeInv
  <1>3. StampInv(flight', procedure', changes')
    <2>1. \A m \in flight' : m.stamp <= changes' /\ m.stamp # changes' /\ (m.op # "load" => m.stamp # 0)
      BY <1>1, <1>2 DEF StampInv
    <2>2. \A m, n \in flight' : m.stamp = n.stamp /\ m.stamp # 0 => m = n
      BY DEF StampInv
    <2> QED
      BY <1>2, <2>1, <2>2 DEF StampInv
  <1>4. DueLater
    <2> SUFFICES ASSUME NEW f \in Fields, NEW s \in Due(flight', procedure')[f]
                 PROVE  s \in Due(flight, procedure)[f] \/ s = changes + 1
      BY DEF DueLater
    <2> QED
      BY DueIs
  <1> QED
    BY <1>3, <1>4 DEF StampsLater

-----------------------------------------------------------------------------
(* What pages know of the fields.                                          *)

\* A field is given under a stamp that was on its way, or is new, and is no longer.
GiftsLater ==
    \A f \in Fields :
        \/ given'[f] = given[f] /\ (f \in overruled => f \in overruled')
        \/ /\ \/ given'[f].stamp \in Due(flight, procedure)[f]
              \/ given'[f].stamp = changes + 1 /\ changes' = changes + 1
           /\ given'[f].stamp \notin Due(flight', procedure')[f]

LEMMA DueIsCounted ==
    ASSUME TypeInv, StampInv(flight, procedure, changes), NEW f \in Fields,
           NEW s \in Due(flight, procedure)[f]
    PROVE  s \in Nat /\ s # 0 /\ s <= changes
  <1>1. CASE \E m \in flight : Owes(m, f) /\ m.stamp = s
    <2>1. PICK m \in flight : Owes(m, f) /\ m.stamp = s
      BY <1>1
    <2>2. m.op # "load" /\ m.stamp \in Nat
      BY <2>1 DEF Owes, TypeInv, Messages
    <2> QED
      BY <2>1, <2>2 DEF StampInv
  <1>2. CASE procedure # NoProcedure /\ procedure.stamp = s
    BY <1>2 DEF StampInv, TypeInv, Procedures
  <1> QED
    BY <1>1, <1>2, DueIs

LEMMA GivenLater ==
    ASSUME TypeInv, TypeInv', StampInv(flight, procedure, changes),
           GivenInv(given, Due(flight, procedure), changes),
           DueLater, GiftsLater, changes' >= changes
    PROVE  GivenInv(given', Due(flight', procedure'), changes')
  <1> SUFFICES ASSUME NEW f \in Fields
               PROVE  /\ given'[f].stamp <= changes'
                      /\ given'[f].stamp \notin Due(flight', procedure')[f]
                      /\ given'[f].stamp = 0 => given'[f].value = Null
    BY DEF GivenInv
  <1>1. /\ changes \in Nat /\ changes' \in Nat
        /\ given[f].stamp \in Nat /\ given'[f].stamp \in Nat
    BY DEF TypeInv, Gifts
  <1>2. CASE given'[f] = given[f]
    <2>1. /\ given[f].stamp <= changes /\ given[f].stamp \notin Due(flight, procedure)[f]
          /\ given[f].stamp = 0 => given[f].value = Null
      BY DEF GivenInv
    <2>2. given[f].stamp # changes + 1
      BY <1>1, <2>1
    <2>3. given[f].stamp \notin Due(flight', procedure')[f]
      BY <2>1, <2>2 DEF DueLater
    <2> QED
      BY <1>1, <1>2, <2>1, <2>3
  <1>3. CASE /\ \/ given'[f].stamp \in Due(flight, procedure)[f]
                \/ given'[f].stamp = changes + 1 /\ changes' = changes + 1
             /\ given'[f].stamp \notin Due(flight', procedure')[f]
    BY <1>1, <1>3, DueIsCounted
  <1> QED
    BY <1>2, <1>3 DEF GiftsLater

LEMMA AsReadLater ==
    ASSUME TypeInv, TypeInv', NEW d \in Dtos,
           AsRead(d, given, overruled, Due(flight, procedure), changes),
           DueLater, GiftsLater, changes' >= changes
    PROVE  AsRead(d, given', overruled', Due(flight', procedure'), changes')
  <1> SUFFICES ASSUME NEW f \in Fields
               PROVE  /\ d.stamps[f] <= changes' /\ d.stamps[f] \notin Due(flight', procedure')[f]
                      /\ f \in Told \ overruled' /\ d.stamps[f] = given'[f].stamp
                         => Same(d.fields[f], given'[f].value)
    BY DEF AsRead
  <1>1. changes \in Nat /\ changes' \in Nat /\ d.stamps[f] \in Nat
    BY DEF TypeInv, Dtos
  <1>2. /\ d.stamps[f] <= changes /\ d.stamps[f] \notin Due(flight, procedure)[f]
        /\ f \in Told \ overruled /\ d.stamps[f] = given[f].stamp
           => Same(d.fields[f], given[f].value)
    BY DEF AsRead
  <1>3. d.stamps[f] <= changes' /\ d.stamps[f] # changes + 1
    BY <1>1, <1>2
  <1>4. d.stamps[f] \notin Due(flight', procedure')[f]
    BY <1>2, <1>3 DEF DueLater
  <1>5. ASSUME f \in Told \ overruled', d.stamps[f] = given'[f].stamp
        PROVE  Same(d.fields[f], given'[f].value)
    <2>1. given'[f] = given[f] /\ (f \in overruled => f \in overruled')
      BY <1>2, <1>3, <1>5 DEF GiftsLater
    <2> QED
      BY <1>2, <1>5, <2>1
  <1> QED
    BY <1>3, <1>4, <1>5

\* What is read now is what was given last.
LEMMA DtoIsAsRead ==
    ASSUME RecordAssumption, FieldsInv
    PROVE  AsRead(Dto, given, overruled, Due(flight, procedure), changes)
  <1> SUFFICES ASSUME NEW f \in Fields
               PROVE  /\ Dto.stamps[f] <= changes /\ Dto.stamps[f] \notin Due(flight, procedure)[f]
                      /\ f \in Told \ overruled => Same(Dto.fields[f], given[f].value)
    BY DEF AsRead
  <1>1. Dto.stamps[f] = given[f].stamp /\ Dto.fields[f] = ToDto(f, record[f])
    BY DEF Dto
  <1>2. given[f].stamp <= changes /\ given[f].stamp \notin Due(flight, procedure)[f]
    BY DEF FieldsInv, GivenInv
  <1>3. Same(ToDto(f, record[f]), record[f])
    BY DEF ToDto, Same
  <1>4. f \in Told \ overruled => Same(record[f], given[f].value)
    BY DEF FieldsInv, Stands
  <1> QED
    BY <1>1, <1>2, <1>3, <1>4, SameEquivalence

LEMMA NoDtoIsAsRead ==
    ASSUME RecordAssumption, FieldsInv
    PROVE  AsRead(NoDto, given, overruled, Due(flight, procedure), changes)
  <1> SUFFICES ASSUME NEW f \in Fields
               PROVE  /\ 0 <= changes /\ 0 \notin Due(flight, procedure)[f]
                      /\ 0 = given[f].stamp => Same(Null, given[f].value)
    BY DEF AsRead, NoDto, NoRecord
  <1>1. changes \in Nat
    BY DEF FieldsInv, TypeInv
  <1>2. 0 \notin Due(flight, procedure)[f]
    BY DueIsCounted DEF FieldsInv
  <1>3. 0 = given[f].stamp => given[f].value = Null
    BY DEF FieldsInv, GivenInv
  <1> QED
    BY <1>1, <1>2, <1>3, SameEquivalence

LEMMA ReadLater ==
    ASSUME RecordAssumption, FieldsInv, TypeInv', DueLater, GiftsLater, changes' >= changes,
           Reads(page', flight') \subseteq Reads(page, flight) \cup {NoDto, Dto}
    PROVE  /\ GivenInv(given', Due(flight', procedure'), changes')
           /\ ReadInv(page', flight', given', overruled', Due(flight', procedure'), changes')
  <1>1. GivenInv(given', Due(flight', procedure'), changes')
    BY GivenLater DEF FieldsInv
  <1>2. ASSUME NEW d \in Reads(page', flight')
        PROVE  AsRead(d, given', overruled', Due(flight', procedure'), changes')
    <2>1. d \in Dtos
      BY DEF Reads, TypeInv, Pages, Messages
    <2>2. AsRead(d, given, overruled, Due(flight, procedure), changes)
      BY DtoIsAsRead, NoDtoIsAsRead DEF FieldsInv, ReadInv
    <2> QED
      BY <2>1, <2>2, AsReadLater DEF FieldsInv
  <1> QED
    BY <1>1, <1>2 DEF ReadInv

-----------------------------------------------------------------------------
(* The fields: every step.                                                 *)

Known == Reads(page, flight) \cup {NoDto, Dto}

PagesKnown == \A v \in Users : page'[v].data \in Known /\ page'[v].base \in Known
FlightKnown == \A m \in flight' : m.base \in Known /\ (m.op = "load" => m.body \in Known)

LEMMA KnownNow ==
    /\ \A v \in Users : page[v].data \in Known /\ page[v].base \in Known
    /\ \A m \in flight : m.base \in Known /\ (m.op = "load" => m.body \in Known)
    /\ NoDto \in Known /\ Dto \in Known
  BY DEF Known, Reads

LEMMA KnownLater ==
    ASSUME PagesKnown, FlightKnown
    PROVE  Reads(page', flight') \subseteq Reads(page, flight) \cup {NoDto, Dto}
  BY DEF PagesKnown, FlightKnown, Known, Reads

\* A step that leaves the record and what is said of it.
LEMMA QuietStep ==
    ASSUME RecordAssumption, FieldsInv, TypeInv', StampsLater, OriginInv', PagesKnown, FlightKnown,
           UNCHANGED <<record, original, procedure, given, overruled>>, changes' >= changes
    PROVE  FieldsInv'
  <1>1. GiftsLater
    BY DEF GiftsLater
  <1>2. /\ GivenInv(given', Due(flight', procedure'), changes')
        /\ ReadInv(page', flight', given', overruled', Due(flight', procedure'), changes')
    BY <1>1, ReadLater, KnownLater DEF StampsLater
  <1>3. UpdateInv(procedure', original') /\ Stands(record', given', overruled')
    BY DEF FieldsInv, UpdateInv, Stands
  <1> QED
    BY <1>2, <1>3 DEF FieldsInv, StampsLater

LEMMA NoDtoHasAStamp ==
    ASSUME NEW u, NEW n
    PROVE  /\ Load(u, n).stamp = 0 /\ Load(u, n).op = "load" /\ Load(u, n).at = "sent"
           /\ Load(u, n).base = NoDto /\ Load(u, n).body = NoDto /\ Load(u, n).user = u
  BY DEF Load, Message

LEMMA OfficerKeepsFields ==
    ASSUME RecordAssumption, FieldsInv, NEW u \in Users, Officer(u)
    PROVE  FieldsInv'
  <1> DEFINE p == page[u]
  <1>1. TypeInv /\ TypeInv' /\ StampInv(flight, procedure, changes) /\ OriginInv
    BY OfficerIsTyped DEF FieldsInv
  <1>2. /\ p.data \in Known /\ p.base \in Known /\ p \in Pages
        /\ changes \in Nat /\ page \in [Users -> Pages]
    BY <1>1, KnownNow DEF TypeInv
  <1>3. ASSUME flight' = flight, procedure' = procedure, changes' = changes
        PROVE  StampsLater /\ FlightKnown
    <2>1. StampsLater
      <3> DEFINE more == {}
      <3>1. flight' \subseteq flight \cup more /\ \A l \in more : l.stamp = 0 /\ l.op = "load"
        BY <1>3
      <3> HIDE DEF more
      <3> QED
        BY <1>1, <1>2, <1>3, <3>1, LoadsAreQuiet
    <2>2. FlightKnown
      BY <1>3, KnownNow DEF FlightKnown
    <2> QED
      BY <2>1, <2>2
  <1>4. ASSUME NEW q, Shows(u, q), q.data \in Known, q.base \in Known
        PROVE  PagesKnown
    BY <1>2, <1>4, KnownNow DEF Shows, PagesKnown
  <1>5. ASSUME page' = page
        PROVE  PagesKnown
    BY <1>5, KnownNow DEF PagesKnown
  <1>6. CASE Open(u)
    <2>1. StampsLater
      <3> DEFINE more == {Load(u, 1)}
      <3>1. /\ flight' \subseteq flight \cup more
            /\ \A l \in more : l.stamp = 0 /\ l.op = "load"
        BY <1>6, NoDtoHasAStamp DEF Open
      <3> HIDE DEF more
      <3>2. procedure' = procedure /\ changes' \in Nat /\ changes' >= changes
        BY <1>2, <1>6 DEF Open
      <3> QED
        BY <1>1, <3>1, <3>2, LoadsAreQuiet
    <2>2. PagesKnown
      BY <1>4, <1>6, KnownNow DEF Open, Closed
    <2>3. FlightKnown
      BY <1>6, KnownNow, NoDtoHasAStamp DEF Open, FlightKnown
    <2>4. OriginInv'
      BY <1>1, <1>6, NoDtoHasAStamp DEF Open, OriginInv, database
    <2> QED
      BY <1>1, <1>2, <1>6, <2>1, <2>2, <2>3, <2>4, QuietStep DEF Open, database, ghosts
  <1>7. CASE Leave(u)
    <2>1. PagesKnown
      BY <1>4, <1>7, KnownNow DEF Leave, Closed
    <2>2. OriginInv'
      BY <1>1, <1>2, <1>7 DEF Leave, OriginInv, database, Shows, Closed
    <2> QED
      BY <1>1, <1>2, <1>3, <1>7, <2>1, <2>2, QuietStep DEF Leave, database, ghosts
  <1>8. CASE Edit(u)
    <2>1. PagesKnown
      <3> DEFINE kept == p.data = NoDto
                 q == [p EXCEPT !.at = "edit", !.draft = IF kept THEN @ ELSE p.data,
                                !.base = IF kept THEN @ ELSE p.data]
      <3>1. Shows(u, q)
        BY <1>8 DEF Edit
      <3>2. q.data \in Known /\ q.base \in Known
        BY <1>2 DEF Pages
      <3> HIDE DEF q
      <3> QED
        BY <1>4, <3>1, <3>2
    <2>2. OriginInv'
      BY <1>1, <1>2, <1>8 DEF Edit, OriginInv, database
    <2> QED
      BY <1>1, <1>2, <1>3, <1>8, <2>1, <2>2, QuietStep DEF Edit, database, ghosts
  <1>9. CASE Cancel(u)
    <2>1. PagesKnown
      <3>1. Shows(u, View(p, p.data))
        BY <1>9 DEF Cancel
      <3>2. View(p, p.data).data \in Known /\ View(p, p.data).base \in Known
        BY <1>2, KnownNow DEF View, Closed, Pages
      <3> QED
        BY <1>4, <3>1, <3>2
    <2>2. OriginInv'
      BY <1>1, <1>2, <1>9 DEF Cancel, OriginInv, database
    <2> QED
      BY <1>1, <1>2, <1>3, <1>9, <2>1, <2>2, QuietStep DEF Cancel, database, ghosts
  <1>10. ASSUME NEW f \in Fields, NEW v \in Values \cup {Empty}, ChangeField(u, f, v)
         PROVE  FieldsInv'
    <2>1. PagesKnown
      <3>1. Shows(u, [p EXCEPT !.draft.fields[f] = v])
        BY <1>10 DEF ChangeField
      <3> QED
        BY <1>2, <1>4, <3>1 DEF Pages
    <2>2. OriginInv'
      BY <1>1, <1>2, <1>10 DEF ChangeField, OriginInv, database
    <2> QED
      BY <1>1, <1>2, <1>3, <1>10, <2>1, <2>2, QuietStep DEF ChangeField, database, ghosts
  <1>11. ASSUME NEW a \in Attractants, ToggleAttractant(u, a)
         PROVE  FieldsInv'
    <2>1. PagesKnown
      <3>1. \E is : Shows(u, [p EXCEPT !.draft.attractants = is])
        BY <1>11 DEF ToggleAttractant
      <3> QED
        BY <1>2, <1>4, <3>1 DEF Pages
    <2>2. OriginInv'
      BY <1>1, <1>2, <1>11 DEF ToggleAttractant, OriginInv, database
    <2> QED
      BY <1>1, <1>2, <1>3, <1>11, <2>1, <2>2, QuietStep DEF ToggleAttractant, database, ghosts
  <1>12. CASE Save(u)
    <2> DEFINE n == Message(u, "save", 1, changes', p.draft, p.base)
    <2>1. /\ n.stamp = changes' /\ n.base = p.base /\ n.op = "save"
          /\ flight' = flight \cup {n} /\ changes' = changes + 1
          /\ UNCHANGED <<database, procedure, ghosts>>
      BY <1>12 DEF Save, Changes, Message
    <2> HIDE DEF n
    <2>2. StampsLater
      BY <1>1, <2>1, RequestIsSent
    <2>3. PagesKnown
      <3>1. Shows(u, [p EXCEPT !.at = "saving"])
        BY <1>12 DEF Save
      <3> QED
        BY <1>2, <1>4, <3>1 DEF Pages
    <2>4. FlightKnown
      BY <1>2, <2>1, KnownNow DEF FlightKnown
    <2>5. OriginInv'
      BY <1>1, <1>2, <1>12, <2>1 DEF Save, OriginInv, database
    <2> QED
      BY <1>1, <1>2, <2>1, <2>2, <2>3, <2>4, <2>5, QuietStep DEF database, ghosts
  <1>13. ASSUME NEW v \in Values, ChangeStatus(u, v)
         PROVE  FieldsInv'
    <2> DEFINE n == Message(u, "status", 1, changes',
                            [NoDto EXCEPT !.fields["complaint_status_code"] = v], NoDto)
    <2>1. /\ n.stamp = changes' /\ n.base = NoDto /\ n.op = "status"
          /\ flight' = flight \cup {n} /\ changes' = changes + 1 /\ page' = page
          /\ UNCHANGED <<database, procedure, ghosts>>
      BY <1>13 DEF ChangeStatus, Changes, Message
    <2> HIDE DEF n
    <2>2. StampsLater
      BY <1>1, <2>1, RequestIsSent
    <2>3. FlightKnown
      BY <2>1, KnownNow DEF FlightKnown
    <2>4. OriginInv'
      BY <1>1, <1>13, <2>1 DEF ChangeStatus, OriginInv, database
    <2> QED
      BY <1>1, <1>2, <1>5, <2>1, <2>2, <2>3, <2>4, QuietStep DEF database, ghosts
  <1>14. ASSUME NEW v \in Firsts, NEW list \in SUBSET Attractants, Create(u, v, list)
         PROVE  FieldsInv'
    <2> DEFINE n == Message(u, "create", 1, changes', Entered(v, list), NoDto)
    <2>1. /\ n.stamp = changes' /\ n.base = NoDto /\ n.op = "create" /\ n.at = "sent"
          /\ flight' = flight \cup {n} /\ changes' = changes + 1 /\ page' = page
          /\ UNCHANGED <<database, procedure, ghosts>>
      BY <1>14 DEF Create, Changes, Message
    <2> HIDE DEF n
    <2>2. StampsLater
      BY <1>1, <2>1, RequestIsSent
    <2>3. FlightKnown
      BY <2>1, KnownNow DEF FlightKnown
    <2>4. OriginInv'
      BY <1>1, <1>14, <2>1 DEF Create, NoneYet, OriginInv, database
    <2> QED
      BY <1>1, <1>2, <1>5, <2>1, <2>2, <2>3, <2>4, QuietStep DEF database, ghosts
  <1> HIDE DEF p
  <1> QED
    BY <1>6, <1>7, <1>8, <1>9, <1>10, <1>11, <1>12, <1>13, <1>14 DEF Officer

\* What a reply or a failure does to the requests leaves the fields.
LEMMA RepliesKeepFields ==
    ASSUME RecordAssumption, FieldsInv, NEW m \in flight,
           \/ ServeLoad(m) \/ RequestFails(m)
           \/ ReceiveLoad(m) \/ ReceiveSave(m) \/ ReceiveStatus(m) \/ ReceiveCreate(m)
    PROVE  FieldsInv'
  <1>1. TypeInv /\ TypeInv' /\ StampInv(flight, procedure, changes) /\ OriginInv
    BY RequestIsTyped DEF FieldsInv, Backend
  <1>2. /\ m \in Messages /\ m.user \in Users /\ m.body \in Dtos /\ changes \in Nat
        /\ page \in [Users -> Pages] /\ page[m.user] \in Pages
    BY <1>1 DEF TypeInv, Messages
  <1>3. ASSUME NEW more, \A l \in more : l.stamp = 0 /\ l.op = "load" /\ l.base = NoDto /\ l.body = NoDto,
               flight' = (flight \ {m}) \cup more, procedure' = procedure, changes' = changes
        PROVE  StampsLater /\ FlightKnown
    <2>1. StampsLater
      BY <1>1, <1>2, <1>3, LoadsAreQuiet
    <2>2. FlightKnown
      BY <1>3, KnownNow DEF FlightKnown
    <2> QED
      BY <2>1, <2>2
  <1>4. ASSUME NEW n \in Messages, Becomes(m, n), n.stamp = m.stamp, n.op = m.op, n.at = "answered",
               n.base = m.base, n.body \in {m.body, Dto}, procedure' = procedure, changes' = changes
        PROVE  StampsLater /\ FlightKnown
    <2>1. \A f \in Fields : ~Owes(n, f)
      BY <1>4 DEF Owes
    <2>2. StampsLater
      BY <1>1, <1>4, <2>1, RequestGoesOn
    <2>3. FlightKnown
      BY <1>4, KnownNow DEF FlightKnown, Becomes
    <2> QED
      BY <2>2, <2>3
  <1>5. ASSUME NEW q, page' = [page EXCEPT ![m.user] = q], q.data \in Known, q.base \in Known
        PROVE  PagesKnown
    BY <1>2, <1>5, KnownNow DEF PagesKnown
  <1>6. ASSUME page' = page
        PROVE  PagesKnown
    BY <1>6, KnownNow DEF PagesKnown
  <1>7. CASE ServeLoad(m)
    <2> DEFINE n == [m EXCEPT !.at = "answered", !.body = Dto]
    <2>1. /\ n \in Messages /\ n.stamp = m.stamp /\ n.op = m.op /\ n.at = "answered"
          /\ n.base = m.base /\ n.body = Dto
      BY <1>1, <1>2, DtoIsTyped DEF Messages
    <2>2. /\ Becomes(m, n) /\ procedure' = procedure /\ changes' = changes /\ page' = page
          /\ UNCHANGED <<database, ghosts>> /\ m.op = "load"
      BY <1>7 DEF ServeLoad
    <2> HIDE DEF n
    <2>3. StampsLater /\ FlightKnown /\ PagesKnown
      BY <1>4, <1>6, <2>1, <2>2
    <2>4. OriginInv'
      BY <1>1, <2>1, <2>2 DEF OriginInv, database, Becomes
    <2> QED
      BY <1>1, <1>2, <2>2, <2>3, <2>4, QuietStep DEF database, ghosts
  <1>8. CASE RequestFails(m)
    <2> DEFINE n == [m EXCEPT !.at = "answered", !.ok = FALSE]
    <2>1. /\ n \in Messages /\ n.stamp = m.stamp /\ n.op = m.op /\ n.at = "answered"
          /\ n.base = m.base /\ n.body = m.body /\ n.ok = FALSE
      BY <1>2 DEF Messages
    <2>2. /\ Becomes(m, n) /\ procedure' = procedure /\ changes' = changes /\ page' = page
          /\ UNCHANGED <<database, ghosts>>
      BY <1>8 DEF RequestFails
    <2> HIDE DEF n
    <2>3. StampsLater /\ FlightKnown /\ PagesKnown
      BY <1>4, <1>6, <2>1, <2>2
    <2>4. OriginInv'
      BY <1>1, <2>1, <2>2 DEF OriginInv, database, Becomes
    <2> QED
      BY <1>1, <1>2, <2>2, <2>3, <2>4, QuietStep DEF database, ghosts
  <1>9. CASE ReceiveLoad(m)
    <2> DEFINE q == IF m.ok THEN View(page[m.user], m.body) ELSE page[m.user]
               more == {}
    <2>1. /\ page' = [page EXCEPT ![m.user] = q] /\ flight' = (flight \ {m}) \cup more
          /\ procedure' = procedure /\ changes' = changes
          /\ UNCHANGED <<database, ghosts>> /\ m.op = "load"
      BY <1>9 DEF ReceiveLoad
    <2>2. q.data \in Known /\ q.base \in Known
      BY <1>2, <2>1, KnownNow DEF View, Closed, Pages
    <2>3. \A l \in more : l.stamp = 0 /\ l.op = "load" /\ l.base = NoDto /\ l.body = NoDto
      OBVIOUS
    <2>4. OriginInv'
      BY <1>1, <1>2, <2>1 DEF OriginInv, database
    <2> HIDE DEF q, more
    <2>5. StampsLater /\ FlightKnown
      BY <1>3, <2>1, <2>3
    <2>6. PagesKnown
      BY <1>5, <2>1, <2>2
    <2> QED
      BY <1>1, <1>2, <2>1, <2>4, <2>5, <2>6, QuietStep DEF database, ghosts
  <1>10. CASE ReceiveSave(m)
    <2> DEFINE q == View(page[m.user], NoDto)
               more == {Load(m.user, 1), Load(m.user, 2)}
    <2>1. /\ page' = [page EXCEPT ![m.user] = q] /\ flight' = (flight \ {m}) \cup more
          /\ procedure' = procedure /\ changes' = changes
          /\ UNCHANGED <<database, ghosts>> /\ m.op = "save"
      BY <1>10 DEF ReceiveSave
    <2>2. q.data \in Known /\ q.base \in Known
      BY <1>2, KnownNow DEF View, Closed, Pages
    <2>3. \A l \in more : l.stamp = 0 /\ l.op = "load" /\ l.base = NoDto /\ l.body = NoDto
      BY NoDtoHasAStamp
    <2> HIDE DEF q, more
    <2>4. StampsLater /\ FlightKnown
      BY <1>3, <2>1, <2>3
    <2>5. OriginInv'
      BY <1>1, <1>2, <2>1, <2>3 DEF OriginInv, database
    <2>6. PagesKnown
      BY <1>5, <2>1, <2>2
    <2> QED
      BY <1>1, <1>2, <2>1, <2>4, <2>5, <2>6, QuietStep DEF database, ghosts
  <1>11. CASE ReceiveStatus(m)
    <2> DEFINE more == {}
    <2>1. /\ page' = page /\ flight' = (flight \ {m}) \cup more
          /\ procedure' = procedure /\ changes' = changes
          /\ UNCHANGED <<database, ghosts>>
      BY <1>11 DEF ReceiveStatus
    <2>2. \A l \in more : l.stamp = 0 /\ l.op = "load" /\ l.base = NoDto /\ l.body = NoDto
      OBVIOUS
    <2>4. OriginInv'
      BY <1>1, <2>1 DEF OriginInv, database
    <2> HIDE DEF more
    <2>3. StampsLater /\ FlightKnown
      BY <1>3, <2>1, <2>2
    <2> QED
      BY <1>1, <1>2, <1>6, <2>1, <2>3, <2>4, QuietStep DEF database, ghosts
  <1>12. CASE ReceiveCreate(m)
    <2> DEFINE more == IF m.ok THEN {Load(m.user, 1)} ELSE {}
    <2>1. /\ page' = [page EXCEPT ![m.user].at = IF m.ok THEN "view" ELSE @]
          /\ flight' = (flight \ {m}) \cup more /\ m.op = "create" /\ m.at = "answered"
          /\ procedure' = procedure /\ changes' = changes
          /\ UNCHANGED <<database, ghosts>>
      BY <1>12 DEF ReceiveCreate
    <2>2. \A l \in more : l.stamp = 0 /\ l.op = "load" /\ l.base = NoDto /\ l.body = NoDto
      BY NoDtoHasAStamp
    <2>3. m.ok => origin # "none"
      BY <1>1, <2>1 DEF OriginInv
    <2>4. ~m.ok => more = {}
      OBVIOUS
    <2> HIDE DEF more
    <2>5. StampsLater /\ FlightKnown
      BY <1>3, <2>1, <2>2
    <2>6. PagesKnown
      BY <1>2, <2>1, KnownNow DEF PagesKnown, Pages
    <2>7. OriginInv'
      BY <1>1, <1>2, <2>1, <2>2, <2>3, <2>4 DEF OriginInv, database
    <2> QED
      BY <1>1, <1>2, <2>1, <2>5, <2>6, <2>7, QuietStep DEF database, ghosts
  <1> QED
    BY <1>7, <1>8, <1>9, <1>10, <1>11, <1>12

\* A step that gives something.
LEMMA GivingStep ==
    ASSUME RecordAssumption, FieldsInv, TypeInv', StampsLater, GiftsLater, OriginInv',
           UpdateInv(procedure', original'), Stands(record', given', overruled'),
           PagesKnown, FlightKnown, changes' >= changes
    PROVE  FieldsInv'
  <1>1. /\ GivenInv(given', Due(flight', procedure'), changes')
        /\ ReadInv(page', flight', given', overruled', Due(flight', procedure'), changes')
    BY ReadLater, KnownLater DEF StampsLater
  <1> QED
    BY <1>1 DEF FieldsInv, StampsLater

\* A request that has given what it owed owes it no longer, and nobody else does.
LEMMA StampIsSpent ==
    ASSUME TypeInv, StampInv(flight, procedure, changes), NEW m \in flight, NEW n, Becomes(m, n),
           procedure' = procedure, NEW f \in Fields, Owes(m, f), ~Owes(n, f)
    PROVE  /\ m.stamp \in Due(flight, procedure)[f]
           /\ m.stamp \notin Due(flight', procedure')[f]
  <1>1. m.stamp \in Due(flight, procedure)[f]
    BY DueIs
  <1>2. m.stamp # 0
    BY <1>1, DueIsCounted
  <1>3. \A k \in flight' : Owes(k, f) => k.stamp # m.stamp
    BY <1>2 DEF Becomes, StampInv
  <1>4. procedure # NoProcedure => procedure.stamp # m.stamp
    BY DEF StampInv
  <1> QED
    BY <1>1, <1>3, <1>4, DueIs

\* A save gives what the officer changed, and writes the rest as it was read.
LEMMA OverwriteGives ==
    ASSUME RecordAssumption, FieldsInv, TypeInv', NEW m \in flight, NEW n, Becomes(m, n),
           NEW fields \in SUBSET Fields, Overwrite(m, fields), procedure' = procedure,
           \A f \in fields : Owes(m, f) /\ ~Owes(n, f)
    PROVE  GiftsLater /\ Stands(record', given', overruled')
  <1> DEFINE mine == {f \in fields : ~Same(m.body.fields[f], m.base.fields[f])}
             stale == {f \in fields \ mine : given[f].stamp # m.base.stamps[f]}
             table == [f \in Fields |-> ToTable(f, m.body.fields[f])]
  <1>1. /\ TypeInv /\ StampInv(flight, procedure, changes) /\ m \in Messages
        /\ m.body.fields \in Columns
    BY DEF FieldsInv, TypeInv, Messages, Dtos
  <1>2. /\ record' = [f \in Fields |-> IF f \in fields THEN table[f] ELSE record[f]]
        /\ given' = [f \in Fields |-> IF f \in mine THEN [value |-> table[f], stamp |-> m.stamp]
                                      ELSE given[f]]
        /\ overruled' = (overruled \ mine) \cup stale
    BY DEF Overwrite, Give
  <1>3. \A f \in Told : table[f] = m.body.fields[f]
    BY <1>1, ToTableIsTyped DEF Told, Fields, Texts, Codes
  <1>4. mine \subseteq fields /\ stale \subseteq fields \ mine
    OBVIOUS
  <1>5. GiftsLater
    <2> SUFFICES ASSUME NEW f \in Fields
                 PROVE  \/ given'[f] = given[f] /\ (f \in overruled => f \in overruled')
                        \/ /\ given'[f].stamp \in Due(flight, procedure)[f]
                           /\ given'[f].stamp \notin Due(flight', procedure')[f]
      BY DEF GiftsLater
    <2>1. CASE f \in mine
      <3>1. given'[f].stamp = m.stamp
        BY <1>2, <2>1
      <3>2. f \in fields
        BY <1>4, <2>1
      <3> QED
        BY <1>1, <3>1, <3>2, StampIsSpent
    <2>2. CASE f \notin mine
      <3> HIDE DEF mine, stale, table
      <3> QED
        BY <1>2, <2>2
    <2> QED
      BY <2>1, <2>2
  <1>6. ASSUME NEW f \in Told \ overruled'
        PROVE  Same(record'[f], given'[f].value)
    <2>1. f \in Fields
      BY DEF Told, Fields, Texts, Codes
    <2>2. CASE f \in mine
      <3> HIDE DEF mine, stale, table
      <3>1. record'[f] = table[f] /\ given'[f].value = table[f]
        BY <1>2, <1>4, <2>1, <2>2
      <3> QED
        BY <3>1, SameEquivalence
    <2>3. CASE f \in fields \ mine
      <3>1. f \notin stale /\ f \notin overruled
        BY <1>2, <1>6, <2>3
      <3>2. given[f].stamp = m.base.stamps[f] /\ Same(m.body.fields[f], m.base.fields[f])
        BY <2>3, <3>1
      <3>3. AsRead(m.base, given, overruled, Due(flight, procedure), changes)
        BY DEF FieldsInv, ReadInv, Reads
      <3>4. Same(m.base.fields[f], given[f].value)
        BY <1>6, <2>1, <3>1, <3>2, <3>3 DEF AsRead
      <3>5. Same(m.body.fields[f], given[f].value)
        BY <3>2, <3>4, SameEquivalence
      <3> HIDE DEF mine, stale, table
      <3>6. record'[f] = m.body.fields[f] /\ given'[f] = given[f]
        BY <1>2, <1>3, <1>6, <2>1, <2>3
      <3> QED
        BY <3>5, <3>6
    <2>4. CASE f \notin fields
      <3>1. f \notin mine
        BY <2>4
      <3> HIDE DEF mine, stale, table
      <3>2. record'[f] = record[f] /\ given'[f] = given[f] /\ f \notin overruled
        BY <1>2, <1>6, <2>1, <2>4, <3>1
      <3> QED
        BY <1>6, <3>2 DEF FieldsInv, Stands
    <2> QED
      BY <2>2, <2>3, <2>4
  <1> QED
    BY <1>5, <1>6 DEF Stands

LEMMA SavesKeepFields ==
    ASSUME RecordAssumption, FieldsInv, NEW m \in flight,
           SaveComplaint(m) \/ SaveWildlife(m) \/ ServeStatus(m) \/ ServeCreate(m)
    PROVE  FieldsInv'
  <1>1. TypeInv /\ TypeInv' /\ StampInv(flight, procedure, changes) /\ OriginInv
    BY RequestIsTyped DEF FieldsInv, Backend
  <1>2. m \in Messages /\ m.user \in Users /\ m.body \in Dtos /\ changes \in Nat
    BY <1>1 DEF TypeInv, Messages
  <1>3. ASSUME page' = page
        PROVE  PagesKnown
    BY <1>3, KnownNow DEF PagesKnown
  <1>4. ASSUME NEW n \in Messages, Becomes(m, n), n.stamp = m.stamp, n.op = m.op,
               \A f \in Fields : Owes(n, f) => Owes(m, f),
               n.base = m.base, n.body = m.body, procedure' = procedure, changes' = changes
        PROVE  StampsLater /\ FlightKnown
    <2>1. StampsLater
      BY <1>1, <1>4, RequestGoesOn
    <2>2. FlightKnown
      BY <1>4, KnownNow DEF FlightKnown, Becomes
    <2> QED
      BY <2>1, <2>2
  <1>5. CASE SaveComplaint(m)
    <2> DEFINE n == [m EXCEPT !.at = "complaint"]
               fields == Fields \ {"species_code"}
    <2>1. /\ n \in Messages /\ n.stamp = m.stamp /\ n.op = m.op /\ n.at = "complaint"
          /\ n.base = m.base /\ n.body = m.body
      BY <1>2 DEF Messages
    <2>2. /\ m.op = "save" /\ m.at = "sent" /\ Becomes(m, n) /\ Overwrite(m, fields)
          /\ procedure' = procedure /\ changes' = changes /\ page' = page
          /\ UNCHANGED <<origin, original, rows>>
      BY <1>5 DEF SaveComplaint
    <2>3. fields \in SUBSET Fields
      OBVIOUS
    <2>4. \A f \in fields : Owes(m, f) /\ ~Owes(n, f)
      BY <2>1, <2>2 DEF Owes
    <2>5. \A f \in Fields : Owes(n, f) => Owes(m, f)
      BY <2>2 DEF Owes
    <2> HIDE DEF n, fields
    <2>6. GiftsLater /\ Stands(record', given', overruled')
      BY <1>1, <2>2, <2>3, <2>4, OverwriteGives
    <2>7. OriginInv'
      BY <1>1, <2>1, <2>2 DEF OriginInv, Becomes
    <2>8. UpdateInv(procedure', original')
      BY <2>2 DEF FieldsInv, UpdateInv
    <2>9. StampsLater /\ FlightKnown /\ PagesKnown
      BY <1>3, <1>4, <2>1, <2>2, <2>5
    <2> QED
      BY <1>1, <1>2, <2>2, <2>6, <2>7, <2>8, <2>9, GivingStep
  <1>6. CASE SaveWildlife(m)
    <2> DEFINE n == [m EXCEPT !.at = "answered"]
               fields == {"species_code"}
    <2>1. /\ n \in Messages /\ n.stamp = m.stamp /\ n.op = m.op /\ n.at = "answered"
          /\ n.base = m.base /\ n.body = m.body
      BY <1>2 DEF Messages
    <2>2. /\ m.op = "save" /\ m.at = "complaint" /\ Becomes(m, n) /\ Overwrite(m, fields)
          /\ procedure' = procedure /\ changes' = changes /\ page' = page
          /\ UNCHANGED <<origin, original, rows, writes>>
      BY <1>6 DEF SaveWildlife, Answered
    <2>3. fields \in SUBSET Fields
      BY DEF Fields, Codes
    <2>4. \A f \in fields : Owes(m, f) /\ ~Owes(n, f)
      BY <2>1, <2>2 DEF Owes
    <2>5. \A f \in Fields : Owes(n, f) => Owes(m, f)
      BY <2>1 DEF Owes
    <2> HIDE DEF n, fields
    <2>6. GiftsLater /\ Stands(record', given', overruled')
      BY <1>1, <2>2, <2>3, <2>4, OverwriteGives
    <2>7. OriginInv'
      BY <1>1, <2>1, <2>2 DEF OriginInv, Becomes
    <2>8. UpdateInv(procedure', original')
      BY <2>2 DEF FieldsInv, UpdateInv
    <2>9. StampsLater /\ FlightKnown /\ PagesKnown
      BY <1>3, <1>4, <2>1, <2>2, <2>5
    <2> QED
      BY <1>1, <1>2, <2>2, <2>6, <2>7, <2>8, <2>9, GivingStep
  <1>7. CASE ServeStatus(m)
    <2> DEFINE g == "complaint_status_code"
               n == Load(m.user, 1)
    <2>1. /\ m.op = "status" /\ m.at = "sent" /\ Becomes(m, n)
          /\ record' = [record EXCEPT ![g] = m.body.fields[g]]
          /\ given' = [f \in Fields |-> IF f \in {g} THEN [value |-> m.body.fields[f], stamp |-> m.stamp]
                                        ELSE given[f]]
          /\ overruled' = overruled \ {g}
          /\ procedure' = procedure /\ changes' = changes /\ page' = page
          /\ UNCHANGED <<origin, original, rows, writes>>
      BY <1>7 DEF ServeStatus, Give
    <2>2. n.stamp = 0 /\ n.op = "load" /\ n.base = NoDto /\ n.body = NoDto
      BY NoDtoHasAStamp
    <2>3. StampsLater
      <3> DEFINE more == {n}
      <3>1. flight' \subseteq flight \cup more /\ \A l \in more : l.stamp = 0 /\ l.op = "load"
        BY <2>1, <2>2 DEF Becomes
      <3> HIDE DEF more, n
      <3> QED
        BY <1>1, <1>2, <2>1, <3>1, LoadsAreQuiet
    <2>4. FlightKnown
      BY <2>1, <2>2, KnownNow DEF FlightKnown, Becomes
    <2>5. \A f \in Fields : Owes(m, f) /\ ~Owes(n, f)
      BY <2>1, <2>2 DEF Owes
    <2> HIDE DEF n
    <2>6. GiftsLater
      <3> SUFFICES ASSUME NEW f \in Fields
                   PROVE  \/ given'[f] = given[f] /\ (f \in overruled => f \in overruled')
                          \/ /\ given'[f].stamp \in Due(flight, procedure)[f]
                             /\ given'[f].stamp \notin Due(flight', procedure')[f]
        BY DEF GiftsLater
      <3>1. CASE f = g
        <4>1. given'[f].stamp = m.stamp
          BY <2>1, <3>1
        <4> QED
          BY <1>1, <2>1, <2>5, <4>1, StampIsSpent
      <3>2. CASE f # g
        BY <2>1, <3>2
      <3> QED
        BY <3>1, <3>2
    <2>7. Stands(record', given', overruled')
      <3> SUFFICES ASSUME NEW f \in Told \ overruled'
                   PROVE  Same(record'[f], given'[f].value)
        BY DEF Stands
      <3>1. f \in Fields /\ record \in Columns
        BY <1>1 DEF Told, Fields, Texts, Codes, TypeInv
      <3>2. CASE f = g
        BY <2>1, <3>1, <3>2, SameEquivalence DEF Columns
      <3>3. CASE f # g
        <4>1. record'[f] = record[f] /\ given'[f] = given[f] /\ f \notin overruled
          BY <2>1, <3>1, <3>3 DEF Columns
        <4> QED
          BY <4>1 DEF FieldsInv, Stands
      <3> QED
        BY <3>2, <3>3
    <2>8. OriginInv'
      BY <1>1, <2>1, <2>2 DEF OriginInv, Becomes
    <2>9. UpdateInv(procedure', original')
      BY <2>1 DEF FieldsInv, UpdateInv
    <2>10. PagesKnown
      BY <1>3, <2>1
    <2> QED
      BY <1>1, <1>2, <2>1, <2>3, <2>4, <2>6, <2>7, <2>8, <2>9, <2>10, GivingStep
  <1>8. CASE ServeCreate(m)
    <2> DEFINE n == [m EXCEPT !.at = "answered"]
               table == [f \in Fields |-> ToTable(f, m.body.fields[f])]
    <2>1. /\ n \in Messages /\ n.stamp = m.stamp /\ n.op = m.op /\ n.at = "answered"
          /\ n.base = m.base /\ n.body = m.body
      BY <1>2 DEF Messages
    <2>2. /\ m.op = "create" /\ m.at = "sent" /\ Becomes(m, n)
          /\ origin' = "form" /\ record' = table /\ rows' = rows
          /\ given' = [f \in Fields |-> [value |-> table[f], stamp |-> m.stamp]]
          /\ procedure' = procedure /\ changes' = changes /\ page' = page
      BY <1>8 DEF ServeCreate, Give, Answered
    <2>3. \A f \in Fields : Owes(m, f) /\ ~Owes(n, f)
      BY <2>1, <2>2 DEF Owes
    <2> HIDE DEF n, table
    <2>4. GiftsLater
      <3> SUFFICES ASSUME NEW f \in Fields
                   PROVE  /\ given'[f].stamp \in Due(flight, procedure)[f]
                          /\ given'[f].stamp \notin Due(flight', procedure')[f]
        BY DEF GiftsLater
      <3>1. given'[f].stamp = m.stamp
        BY <2>2
      <3> QED
        BY <1>1, <2>2, <2>3, <3>1, StampIsSpent
    <2>5. Stands(record', given', overruled')
      <3>1. \A f \in Told : record'[f] = given'[f].value
        BY <2>2 DEF Told, Fields, Texts, Codes
      <3> QED
        BY <3>1, SameEquivalence DEF Stands
    <2>6. origin = "none" /\ procedure = NoProcedure
      BY <1>1, <2>2 DEF OriginInv
    <2>7. OriginInv'
      BY <1>1, <2>1, <2>2, <2>6 DEF OriginInv, Becomes
    <2>8. UpdateInv(procedure', original')
      BY <2>2, <2>6 DEF UpdateInv
    <2>9. StampsLater /\ FlightKnown /\ PagesKnown
      BY <1>3, <1>4, <2>1, <2>2, <2>3
    <2> QED
      BY <1>1, <1>2, <2>2, <2>4, <2>5, <2>7, <2>8, <2>9, GivingStep
  <1> QED
    BY <1>5, <1>6, <1>7, <1>8

\* What an update writes without meaning it, it compares with nothing.
LEMMA UnmeantIsUntold ==
    ASSUME FieldsInv, procedure # NoProcedure, NEW f \in procedure.writes,
           ~(procedure.runs = "edit" \/ procedure.values[f] # original[f])
    PROVE  f \notin Told
  <1>1. procedure.runs = "update"
    BY DEF FieldsInv, TypeInv, Procedures
  <1> QED
    BY <1>1 DEF FieldsInv, UpdateInv, Told

LEMMA WebEOCKeepsFields ==
    ASSUME RecordAssumption, FieldsInv, WebEOC
    PROVE  FieldsInv'
  <1>1. TypeInv /\ TypeInv' /\ StampInv(flight, procedure, changes) /\ OriginInv
    BY WebEOCIsTyped DEF FieldsInv
  <1>2. changes \in Nat
    BY <1>1 DEF TypeInv
  <1>3. ASSUME page' = page, flight' = flight
        PROVE  PagesKnown /\ FlightKnown
    BY <1>3, KnownNow DEF PagesKnown, FlightKnown
  <1>4. ASSUME flight' = flight, procedure' \in {procedure, NoProcedure}, changes' \in Nat,
               changes' >= changes
        PROVE  StampsLater
    <2> DEFINE more == {}
    <2>1. flight' \subseteq flight \cup more /\ \A l \in more : l.stamp = 0 /\ l.op = "load"
      BY <1>4
    <2> HIDE DEF more
    <2> QED
      BY <1>1, <1>4, <2>1, LoadsAreQuiet
  <1>5. ASSUME NEW v \in Firsts, NEW list \in SUBSET Attractants, Import(v, list)
        PROVE  FieldsInv'
    <2>1. /\ origin = "none" /\ \A k \in flight : k.op # "create"
          /\ origin' = "webeoc" /\ record' = v /\ changes' = changes + 1
          /\ given' = [f \in Fields |-> [value |-> v[f], stamp |-> changes']]
          /\ UNCHANGED <<procedure, page, flight, writes>>
      BY <1>5 DEF Import, NoneYet, Changes, Give
    <2>2. procedure = NoProcedure
      BY <1>1, <2>1 DEF OriginInv
    <2>3. StampsLater
      BY <1>2, <1>4, <2>1
    <2>4. GiftsLater
      <3> SUFFICES ASSUME NEW f \in Fields
                   PROVE  /\ given'[f].stamp = changes + 1
                          /\ given'[f].stamp \notin Due(flight', procedure')[f]
        BY <2>1 DEF GiftsLater
      <3>1. given'[f].stamp = changes + 1
        BY <2>1
      <3>2. Due(flight', procedure')[f] = Due(flight, procedure)[f]
        BY <2>1 DEF Due
      <3>3. changes + 1 \notin Due(flight, procedure)[f]
        BY <1>1, <1>2, DueIsCounted
      <3> QED
        BY <3>1, <3>2, <3>3
    <2>5. Stands(record', given', overruled')
      <3>1. \A f \in Told : record'[f] = given'[f].value
        BY <2>1 DEF Told, Fields, Texts, Codes
      <3> QED
        BY <3>1, SameEquivalence DEF Stands
    <2>6. OriginInv'
      BY <1>1, <2>1, <2>2 DEF OriginInv
    <2>7. UpdateInv(procedure', original')
      BY <2>1, <2>2 DEF UpdateInv
    <2> QED
      BY <1>1, <1>2, <1>3, <2>1, <2>3, <2>4, <2>5, <2>6, <2>7, GivingStep
  <1>6. ASSUME flight' = flight, page' = page, UNCHANGED <<database, ghosts>>,
               procedure = NoProcedure, procedure' # NoProcedure,
               procedure'.stamp = changes', changes' = changes + 1, origin = "webeoc",
               UpdateInv(procedure', original')
        PROVE  FieldsInv' \/ ~TypeInv'
    <2>1. StampsLater
      BY <1>1, <1>6, ProcedureBegins
    <2>2. GiftsLater
      BY <1>6 DEF GiftsLater, ghosts
    <2>3. Stands(record', given', overruled')
      BY <1>6 DEF FieldsInv, Stands, database, ghosts
    <2>4. OriginInv'
      BY <1>1, <1>6 DEF OriginInv, database
    <2> QED
      BY <1>2, <1>3, <1>6, <2>1, <2>2, <2>3, <2>4, GivingStep
  <1>7. ASSUME NEW f \in Fields, NEW v \in Values, NEW list \in SUBSET Attractants,
               EditReads(f, v, list)
        PROVE  FieldsInv'
    <2>1. /\ procedure'.runs = "edit" /\ procedure'.stamp = changes' /\ changes' = changes + 1
          /\ procedure = NoProcedure /\ origin = "webeoc"
          /\ flight' = flight /\ page' = page /\ UNCHANGED <<database, ghosts>>
      BY <1>7 DEF EditReads, Changes
    <2>2. procedure' # NoProcedure
      BY <2>1 DEF NoProcedure
    <2>3. UpdateInv(procedure', original')
      BY <2>1 DEF UpdateInv
    <2> QED
      BY <1>1, <1>6, <2>1, <2>2, <2>3
  <1>8. ASSUME NEW f \in Updatable, NEW v \in Values, UpdateReads(f, v)
        PROVE  FieldsInv'
    <2> DEFINE values == [original EXCEPT ![f] = v]
               ws == {g \in Updatable : /\ Differs(g, values[g], Original(g))
                                        /\ Differs(g, values[g], record[g])}
    <2>1. /\ procedure'.values = values /\ procedure'.writes = ws
          /\ procedure'.runs = "update" /\ procedure'.stamp = changes' /\ changes' = changes + 1
          /\ procedure = NoProcedure /\ origin = "webeoc"
          /\ flight' = flight /\ page' = page /\ UNCHANGED <<database, ghosts>>
      BY <1>8 DEF UpdateReads, Changes
    <2>2. procedure' # NoProcedure
      BY <2>1 DEF NoProcedure
    <2>3. \A g \in ws : g = "reported_by_code" \/ values[g] # original[g]
      <3> SUFFICES ASSUME NEW g \in ws, g # "reported_by_code"
                   PROVE  values[g] # original[g]
        OBVIOUS
      <3>1. Differs(g, values[g], original[g])
        BY DEF Original
      <3> QED
        BY <3>1 DEF Differs, Same
    <2> HIDE DEF values, ws
    <2>4. UpdateInv(procedure', original')
      BY <2>1, <2>3 DEF UpdateInv, database
    <2> QED
      BY <1>1, <1>6, <2>1, <2>2, <2>4
  <1>9. CASE ProcedureWrites
    <2> DEFINE p == procedure
               meant == {f \in p.writes : p.runs = "edit" \/ p.values[f] # original[f]}
    <2>1. /\ p # NoProcedure /\ procedure' = NoProcedure
          /\ record' = [f \in Fields |-> IF f \in p.writes THEN p.values[f] ELSE record[f]]
          /\ given' = [f \in Fields |-> IF f \in meant THEN [value |-> p.values[f], stamp |-> p.stamp]
                                        ELSE given[f]]
          /\ overruled' = overruled \ meant
          /\ UNCHANGED <<origin, original, writes, page, flight, changes>>
      BY <1>9 DEF ProcedureWrites, Give
    <2>2. \A f \in p.writes \ meant : f \notin Told
      BY <2>1, UnmeantIsUntold
    <2>3. meant \subseteq p.writes
      OBVIOUS
    <2>4. origin = "webeoc"
      BY <1>1, <2>1 DEF OriginInv
    <2> HIDE DEF meant
    <2>5. GiftsLater
      <3> SUFFICES ASSUME NEW f \in Fields
                   PROVE  \/ given'[f] = given[f] /\ (f \in overruled => f \in overruled')
                          \/ /\ given'[f].stamp \in Due(flight, procedure)[f]
                             /\ given'[f].stamp \notin Due(flight', procedure')[f]
        BY DEF GiftsLater
      <3>1. CASE f \in meant
        <4>1. given'[f].stamp = p.stamp
          BY <2>1, <3>1
        <4>2. p.stamp \in Due(flight, procedure)[f]
          BY <2>1, DueIs
        <4>3. \A k \in flight' : k.stamp # p.stamp
          BY <1>1, <2>1 DEF StampInv
        <4>4. p.stamp \notin Due(flight', procedure')[f]
          BY <2>1, <4>3, DueIs
        <4> QED
          BY <4>1, <4>2, <4>4
      <3>2. CASE f \notin meant
        BY <2>1, <3>2
      <3> QED
        BY <3>1, <3>2
    <2>6. Stands(record', given', overruled')
      <3> SUFFICES ASSUME NEW f \in Told \ overruled'
                   PROVE  Same(record'[f], given'[f].value)
        BY DEF Stands
      <3>1. f \in Fields
        BY DEF Told, Fields, Texts, Codes
      <3>2. CASE f \in meant
        <4>1. record'[f] = given'[f].value
          BY <2>1, <2>3, <3>1, <3>2
        <4> QED
          BY <4>1, SameEquivalence
      <3>3. CASE f \notin meant
        <4>1. f \notin p.writes /\ f \notin overruled
          BY <2>1, <2>2, <3>3
        <4>2. record'[f] = record[f] /\ given'[f] = given[f]
          BY <2>1, <3>1, <3>3, <4>1
        <4> QED
          BY <4>1, <4>2 DEF FieldsInv, Stands
      <3> QED
        BY <3>2, <3>3
    <2>7. OriginInv'
      BY <1>1, <2>1, <2>4 DEF OriginInv
    <2>8. UpdateInv(procedure', original')
      BY <2>1 DEF UpdateInv
    <2>9. StampsLater
      BY <1>2, <1>4, <2>1
    <2> QED
      BY <1>1, <1>2, <1>3, <2>1, <2>5, <2>6, <2>7, <2>8, <2>9, GivingStep
  <1> QED
    BY <1>5, <1>7, <1>8, <1>9 DEF WebEOC

LEMMA LandsKeepsFields ==
    ASSUME RecordAssumption, FieldsInv, NEW w \in writes, Lands(w)
    PROVE  FieldsInv'
  <1>1. TypeInv /\ TypeInv' /\ StampInv(flight, procedure, changes) /\ OriginInv /\ changes \in Nat
    BY LandsIsTyped DEF FieldsInv, TypeInv
  <1>2. /\ UNCHANGED <<origin, record, original, procedure, page, flight, ghosts, changes>>
        /\ origin # "none"
    BY <1>1 DEF Lands, OriginInv
  <1>3. StampsLater
    <2> DEFINE more == {}
    <2>1. flight' \subseteq flight \cup more /\ \A l \in more : l.stamp = 0 /\ l.op = "load"
      BY <1>2
    <2> HIDE DEF more
    <2> QED
      BY <1>1, <1>2, <2>1, LoadsAreQuiet
  <1>4. PagesKnown /\ FlightKnown
    BY <1>2, KnownNow DEF PagesKnown, FlightKnown
  <1>5. OriginInv'
    BY <1>1, <1>2 DEF OriginInv
  <1> QED
    BY <1>1, <1>2, <1>3, <1>4, <1>5, QuietStep DEF ghosts

LEMMA FailureKeepsFields ==
    ASSUME RecordAssumption, FieldsInv, NEW lost \in SUBSET writes, WritesFail(lost)
    PROVE  FieldsInv'
  <1>1. TypeInv /\ TypeInv' /\ StampInv(flight, procedure, changes) /\ OriginInv /\ changes \in Nat
    BY FailureIsTyped DEF FieldsInv, TypeInv
  <1>2. /\ UNCHANGED <<origin, record, original, rows, procedure, page, flight, given, overruled, changes>>
        /\ writes' \subseteq writes
    BY DEF WritesFail
  <1>3. StampsLater
    <2> DEFINE more == {}
    <2>1. flight' \subseteq flight \cup more /\ \A l \in more : l.stamp = 0 /\ l.op = "load"
      BY <1>2
    <2> HIDE DEF more
    <2> QED
      BY <1>1, <1>2, <2>1, LoadsAreQuiet
  <1>4. PagesKnown /\ FlightKnown
    BY <1>2, KnownNow DEF PagesKnown, FlightKnown
  <1>5. OriginInv'
    BY <1>1, <1>2 DEF OriginInv
  <1> QED
    BY <1>1, <1>2, <1>3, <1>4, <1>5, QuietStep

LEMMA FieldsStep ==
    ASSUME RecordAssumption, FieldsInv, [Next]_vars
    PROVE  FieldsInv'
  <1>1. ASSUME NEW m \in flight, \/ Backend(m)
                                 \/ ReceiveLoad(m) \/ ReceiveSave(m) \/ ReceiveStatus(m)
                                 \/ ReceiveCreate(m)
        PROVE  FieldsInv'
    BY <1>1, RepliesKeepFields, SavesKeepFields DEF Backend
  <1>2. CASE UNCHANGED vars
    BY <1>2 DEF vars, database, ghosts, FieldsInv, TypeInv, OriginInv, UpdateInv, StampInv, GivenInv,
                ReadInv, Reads, AsRead, Stands, Due
  <1>3. CASE WebEOC
    BY <1>3, WebEOCKeepsFields
  <1>4. ASSUME NEW u \in Users, Officer(u)
        PROVE  FieldsInv'
    BY <1>4, OfficerKeepsFields
  <1>5. ASSUME NEW w \in writes, Lands(w)
        PROVE  FieldsInv'
    BY <1>5, LandsKeepsFields
  <1>6. ASSUME NEW lost \in SUBSET writes, WritesFail(lost)
        PROVE  FieldsInv'
    BY <1>6, FailureKeepsFields
  <1> QED
    BY <1>1, <1>2, <1>3, <1>4, <1>5, <1>6 DEF Next

LEMMA FieldsInit ==
    ASSUME RecordAssumption, Init
    PROVE  FieldsInv
  <1>1. TypeInv
    BY NothingIsTyped DEF Init, TypeInv, Gifts, Held
  <1>2. \A f \in Fields : Due(flight, procedure)[f] = {}
    BY DEF Init, Due
  <1>3. OriginInv /\ UpdateInv(procedure, original) /\ StampInv(flight, procedure, changes)
    BY DEF Init, OriginInv, UpdateInv, StampInv, Closed
  <1>4. GivenInv(given, Due(flight, procedure), changes)
    BY <1>2 DEF Init, GivenInv
  <1>5. Stands(record, given, overruled)
    BY SameEquivalence DEF Init, Stands, NoRecord, Told, Fields, Texts, Codes
  <1>6. ASSUME NEW d \in Reads(page, flight)
        PROVE  AsRead(d, given, overruled, Due(flight, procedure), changes)
    <2>1. d = NoDto
      BY DEF Init, Reads, Closed
    <2> QED
      BY <1>2, <2>1, NothingIsTyped, SameEquivalence DEF Init, AsRead, NoRecord
  <1> QED
    BY <1>1, <1>3, <1>4, <1>5, <1>6 DEF FieldsInv, ReadInv

-----------------------------------------------------------------------------
(* The attractants.                                                        *)

\* Rows are added; those that are there keep their codes.
Extends == /\ Len(rows') >= Len(rows)
           /\ \A n \in 1..Len(rows) : rows'[n].code = rows[n].code

LEMMA FitsLater ==
    ASSUME TypeInv, TypeInv', Extends
    PROVE  /\ \A row \in Nat : \A code : Points(row, code, rows) => Points(row, code, rows')
           /\ \A d \in Dtos : Fits(d, rows) => Fits(d, rows')
  <1>1. Len(rows) \in Nat /\ Len(rows') \in Nat
    BY DEF TypeInv
  <1>2. ASSUME NEW row \in Nat, NEW code, Points(row, code, rows)
        PROVE  Points(row, code, rows')
    BY <1>1, <1>2 DEF Points, Extends
  <1>3. ASSUME NEW d \in Dtos, Fits(d, rows)
        PROVE  Fits(d, rows')
    <2>1. \A i \in d.attractants : i.row \in Nat
      BY DEF Dtos, Item
    <2> QED
      BY <1>2, <1>3, <2>1 DEF Fits
  <1> QED
    BY <1>2, <1>3

LEMMA NoDtoFits ==
    ASSUME RecordAssumption
    PROVE  \A rs : Fits(NoDto, rs)
  BY NothingIsTyped DEF Fits

LEMMA DtoFits ==
    ASSUME TypeInv
    PROVE  Fits(Dto, rows)
  <1> SUFFICES ASSUME NEW i \in Dto.attractants
               PROVE  Points(i.row, i.code, rows)
    BY DEF Fits
  <1>1. PICK n \in DOMAIN rows : i = [row |-> n, code |-> rows[n].code, active |-> TRUE]
    BY DEF Dto
  <1>2. n \in 1..Len(rows)
    BY DEF TypeInv
  <1> QED
    BY <1>1, <1>2 DEF Points

FitPages == \A v \in Users : /\ Fits(page'[v].data, rows) /\ Fits(page'[v].draft, rows)
                             /\ Fits(page'[v].base, rows)
FitFlight == \A m \in flight' : Fits(m.body, rows)

LEMMA FitNow ==
    ASSUME RowsInv
    PROVE  /\ \A v \in Users : /\ Fits(page[v].data, rows) /\ Fits(page[v].draft, rows)
                               /\ Fits(page[v].base, rows)
           /\ \A m \in flight : Fits(m.body, rows)
           /\ \A w \in writes : Points(w.row, w.code, rows)
  BY DEF RowsInv, PointInv, Shown

LEMMA PointLater ==
    ASSUME TypeInv, TypeInv', Extends, FitPages, FitFlight,
           \A w \in writes' : Points(w.row, w.code, rows')
    PROVE  PointInv(page', flight', writes', rows')
  <1>1. ASSUME NEW d \in Shown(page', flight')
        PROVE  Fits(d, rows')
    <2>1. d \in Dtos
      BY DEF Shown, TypeInv, Pages, Messages
    <2>2. Fits(d, rows)
      BY DEF Shown, FitPages, FitFlight
    <2> QED
      BY <2>1, <2>2, FitsLater
  <1> QED
    BY <1>1 DEF PointInv

\* A step that leaves the rows, what is to be done to them, and what was chosen.
LEMMA RowsQuiet ==
    ASSUME TypeInv, TypeInv', RowsInv, FitPages, FitFlight, UNCHANGED <<rows, writes, chosen>>
    PROVE  RowsInv'
  <1>1. Extends
    BY DEF Extends, TypeInv
  <1>2. PointInv(page', flight', writes', rows')
    BY <1>1, FitNow, PointLater
  <1> QED
    BY <1>2 DEF RowsInv, KeptInv, Kept

LEMMA OfficerKeepsRows ==
    ASSUME RecordAssumption, FieldsInv, RowsInv, NEW u \in Users, Officer(u)
    PROVE  RowsInv'
  <1> DEFINE p == page[u]
  <1>1. TypeInv /\ TypeInv' /\ p \in Pages /\ page \in [Users -> Pages]
    BY OfficerIsTyped DEF FieldsInv, TypeInv
  <1>2. Fits(p.data, rows) /\ Fits(p.draft, rows) /\ Fits(p.base, rows) /\ Fits(NoDto, rows)
    BY FitNow, NoDtoFits
  <1>3. UNCHANGED <<rows, writes, chosen>>
    BY DEF Officer, Open, Leave, Edit, Cancel, Save, ChangeField, ToggleAttractant, ChangeStatus, Create,
           database, ghosts
  <1>4. ASSUME NEW q, Shows(u, q), Fits(q.data, rows), Fits(q.draft, rows), Fits(q.base, rows)
        PROVE  FitPages
    BY <1>1, <1>4, FitNow DEF Shows, FitPages
  <1>5. page' = page => FitPages
    BY FitNow DEF FitPages
  <1>6. flight' = flight => FitFlight
    BY FitNow DEF FitFlight
  <1>7. ASSUME NEW n, flight' = flight \cup {n}, Fits(n.body, rows)
        PROVE  FitFlight
    BY <1>7, FitNow DEF FitFlight
  <1>8. CASE Open(u)
    <2>1. FitFlight
      BY <1>2, <1>7, <1>8, NoDtoHasAStamp DEF Open
    <2>2. FitPages
      BY <1>2, <1>4, <1>8 DEF Open, Closed
    <2> QED
      BY <1>1, <1>3, <2>1, <2>2, RowsQuiet
  <1>9. CASE Leave(u)
    <2>1. FitPages
      BY <1>2, <1>4, <1>9 DEF Leave, Closed
    <2> QED
      BY <1>1, <1>3, <1>6, <1>9, <2>1, RowsQuiet DEF Leave
  <1>10. CASE Edit(u)
    <2> DEFINE kept == p.data = NoDto
               q == [p EXCEPT !.at = "edit", !.draft = IF kept THEN @ ELSE p.data,
                              !.base = IF kept THEN @ ELSE p.data]
    <2>1. Shows(u, q) /\ flight' = flight
      BY <1>10 DEF Edit
    <2>2. Fits(q.data, rows) /\ Fits(q.draft, rows) /\ Fits(q.base, rows)
      BY <1>1, <1>2 DEF Pages
    <2> HIDE DEF q
    <2>3. FitPages
      BY <1>4, <2>1, <2>2
    <2> QED
      BY <1>1, <1>3, <1>6, <2>1, <2>3, RowsQuiet
  <1>11. CASE Cancel(u)
    <2> DEFINE q == View(p, p.data)
    <2>1. Shows(u, q) /\ flight' = flight
      BY <1>11 DEF Cancel
    <2>2. Fits(q.data, rows) /\ Fits(q.draft, rows) /\ Fits(q.base, rows)
      BY <1>1, <1>2 DEF View, Closed, Pages
    <2> HIDE DEF q
    <2>3. FitPages
      BY <1>4, <2>1, <2>2
    <2> QED
      BY <1>1, <1>3, <1>6, <2>1, <2>3, RowsQuiet
  <1>12. ASSUME NEW f \in Fields, NEW v \in Values \cup {Empty}, ChangeField(u, f, v)
         PROVE  RowsInv'
    <2> DEFINE q == [p EXCEPT !.draft.fields[f] = v]
    <2>1. Shows(u, q) /\ flight' = flight
      BY <1>12 DEF ChangeField
    <2>2. Fits(q.data, rows) /\ Fits(q.draft, rows) /\ Fits(q.base, rows)
      BY <1>1, <1>2 DEF Pages, Dtos, Fits
    <2> HIDE DEF q
    <2>3. FitPages
      BY <1>4, <2>1, <2>2
    <2> QED
      BY <1>1, <1>3, <1>6, <2>1, <2>3, RowsQuiet
  <1>13. ASSUME NEW a \in Attractants, ToggleAttractant(u, a)
         PROVE  RowsInv'
    <2> DEFINE items == p.draft.attractants
               old == {i \in items : i.code = a}
               new == IF old = {} THEN items \cup {[row |-> 0, code |-> a, active |-> TRUE]}
                      ELSE (items \ old) \cup {[i EXCEPT !.active = ~@] : i \in old}
               q == [p EXCEPT !.draft.attractants = new]
    <2>1. Shows(u, q) /\ flight' = flight
      BY <1>13 DEF ToggleAttractant
    <2>2. \A i \in items : /\ i \in Item /\ Points(i.row, i.code, rows)
                           /\ [i EXCEPT !.active = ~@].row = i.row
                           /\ [i EXCEPT !.active = ~@].code = i.code
      BY <1>1, <1>2 DEF Pages, Dtos, Item, Fits
    <2>3. Points(0, a, rows)
      BY DEF Points
    <2>4. \A i \in new : Points(i.row, i.code, rows)
      <3>1. CASE old = {}
        BY <2>2, <2>3, <3>1
      <3>2. CASE old # {}
        <4>1. new = (items \ old) \cup {[i EXCEPT !.active = ~@] : i \in old}
          BY <3>2
        <4>2. \A j \in {[i EXCEPT !.active = ~@] : i \in old} : Points(j.row, j.code, rows)
          BY <2>2
        <4>3. \A j \in items \ old : Points(j.row, j.code, rows)
          BY <2>2
        <4> HIDE DEF new, old, items
        <4> QED
          BY <4>1, <4>2, <4>3
      <3> QED
        BY <3>1, <3>2
    <2> HIDE DEF new
    <2>5. Fits(q.data, rows) /\ Fits(q.draft, rows) /\ Fits(q.base, rows)
      BY <1>1, <1>2, <2>4 DEF Pages, Dtos, Fits
    <2> HIDE DEF q
    <2>6. FitPages
      BY <1>4, <2>1, <2>5
    <2> QED
      BY <1>1, <1>3, <1>6, <2>1, <2>6, RowsQuiet
  <1>14. CASE Save(u)
    <2> DEFINE n == Message(u, "save", 1, changes', p.draft, p.base)
               q == [p EXCEPT !.at = "saving"]
    <2>1. flight' = flight \cup {n} /\ Shows(u, q)
      BY <1>14 DEF Save
    <2>2. Fits(n.body, rows) /\ Fits(q.data, rows) /\ Fits(q.draft, rows) /\ Fits(q.base, rows)
      BY <1>1, <1>2 DEF Pages, Message
    <2> HIDE DEF n, q
    <2>3. FitFlight /\ FitPages
      BY <1>4, <1>7, <2>1, <2>2
    <2> QED
      BY <1>1, <1>3, <2>3, RowsQuiet
  <1>15. ASSUME NEW v \in Values, ChangeStatus(u, v)
         PROVE  RowsInv'
    <2> DEFINE n == Message(u, "status", 1, changes',
                            [NoDto EXCEPT !.fields["complaint_status_code"] = v], NoDto)
    <2>1. flight' = flight \cup {n} /\ page' = page
      BY <1>15 DEF ChangeStatus
    <2>2. n.body.attractants = {}
      BY DEF Message, NoDto
    <2>3. Fits(n.body, rows)
      BY <2>2 DEF Fits
    <2> HIDE DEF n
    <2>4. FitFlight /\ FitPages
      BY <1>5, <1>7, <2>1, <2>3
    <2> QED
      BY <1>1, <1>3, <2>4, RowsQuiet
  <1>16. ASSUME NEW v \in Firsts, NEW list \in SUBSET Attractants, Create(u, v, list)
         PROVE  RowsInv'
    <2> DEFINE n == Message(u, "create", 1, changes', Entered(v, list), NoDto)
    <2>1. flight' = flight \cup {n} /\ page' = page
      BY <1>16 DEF Create
    <2>2. n.body.attractants = {[row |-> 0, code |-> a, active |-> TRUE] : a \in list}
      BY DEF Message, Entered, NoDto
    <2>3. Fits(n.body, rows)
      BY <2>2 DEF Fits, Points
    <2> HIDE DEF n
    <2>4. FitFlight /\ FitPages
      BY <1>5, <1>7, <2>1, <2>3
    <2> QED
      BY <1>1, <1>3, <2>4, RowsQuiet
  <1> HIDE DEF p
  <1> QED
    BY <1>8, <1>9, <1>10, <1>11, <1>12, <1>13, <1>14, <1>15, <1>16 DEF Officer

LEMMA RepliesKeepRows ==
    ASSUME RecordAssumption, FieldsInv, RowsInv, NEW m \in flight,
           \/ ServeLoad(m) \/ RequestFails(m) \/ SaveWildlife(m) \/ ServeStatus(m)
           \/ ReceiveLoad(m) \/ ReceiveSave(m) \/ ReceiveStatus(m) \/ ReceiveCreate(m)
    PROVE  RowsInv'
  <1>1. TypeInv /\ TypeInv'
    BY RequestIsTyped DEF FieldsInv, Backend
  <1>2. /\ m \in Messages /\ m.user \in Users /\ page[m.user] \in Pages
        /\ page \in [Users -> Pages]
    BY <1>1 DEF TypeInv, Messages
  <1>3. UNCHANGED <<rows, writes, chosen>>
    BY DEF ServeLoad, RequestFails, SaveWildlife, ServeStatus, ReceiveLoad, ReceiveSave, ReceiveStatus,
           ReceiveCreate, database, ghosts
  <1>4. /\ Fits(m.body, rows) /\ Fits(Dto, rows) /\ Fits(NoDto, rows)
        /\ Fits(page[m.user].data, rows) /\ Fits(page[m.user].draft, rows)
        /\ Fits(page[m.user].base, rows)
    BY <1>1, <1>2, FitNow, DtoFits, NoDtoFits
  <1>5. page' = page => FitPages
    BY FitNow DEF FitPages
  <1>6. ASSUME NEW q, page' = [page EXCEPT ![m.user] = q],
               Fits(q.data, rows), Fits(q.draft, rows), Fits(q.base, rows)
        PROVE  FitPages
    BY <1>2, <1>6, FitNow DEF FitPages
  <1>7. ASSUME NEW n, Becomes(m, n), Fits(n.body, rows)
        PROVE  FitFlight
    BY <1>7, FitNow DEF FitFlight, Becomes
  <1>8. ASSUME NEW more, flight' = (flight \ {m}) \cup more, \A l \in more : l.body = NoDto
        PROVE  FitFlight
    BY <1>4, <1>8, FitNow DEF FitFlight
  <1>9. CASE ServeLoad(m)
    <2>1. [m EXCEPT !.at = "answered", !.body = Dto].body = Dto
      BY <1>2 DEF Messages
    <2>2. FitFlight
      BY <1>4, <1>7, <1>9, <2>1 DEF ServeLoad
    <2> QED
      BY <1>1, <1>3, <1>5, <1>9, <2>2, RowsQuiet DEF ServeLoad
  <1>10. CASE RequestFails(m)
    <2>1. [m EXCEPT !.at = "answered", !.ok = FALSE].body = m.body
      BY <1>2 DEF Messages
    <2>2. FitFlight
      BY <1>4, <1>7, <1>10, <2>1 DEF RequestFails
    <2> QED
      BY <1>1, <1>3, <1>5, <1>10, <2>2, RowsQuiet DEF RequestFails
  <1>11. CASE SaveWildlife(m)
    <2>1. [m EXCEPT !.at = "answered"].body = m.body
      BY <1>2 DEF Messages
    <2>2. FitFlight
      BY <1>4, <1>7, <1>11, <2>1 DEF SaveWildlife, Answered
    <2> QED
      BY <1>1, <1>3, <1>5, <1>11, <2>2, RowsQuiet DEF SaveWildlife
  <1>12. CASE ServeStatus(m)
    <2>1. FitFlight
      BY <1>4, <1>7, <1>12, NoDtoHasAStamp DEF ServeStatus
    <2> QED
      BY <1>1, <1>3, <1>5, <1>12, <2>1, RowsQuiet DEF ServeStatus
  <1>13. CASE ReceiveLoad(m)
    <2> DEFINE q == IF m.ok THEN View(page[m.user], m.body) ELSE page[m.user]
               more == {}
    <2>1. /\ page' = [page EXCEPT ![m.user] = q] /\ flight' = (flight \ {m}) \cup more
          /\ \A l \in more : l.body = NoDto
      BY <1>13 DEF ReceiveLoad
    <2>2. Fits(q.data, rows) /\ Fits(q.draft, rows) /\ Fits(q.base, rows)
      BY <1>2, <1>4 DEF View, Closed, Pages
    <2> HIDE DEF q, more
    <2>3. FitPages /\ FitFlight
      BY <1>6, <1>8, <2>1, <2>2
    <2> QED
      BY <1>1, <1>3, <2>3, RowsQuiet
  <1>14. CASE ReceiveSave(m)
    <2> DEFINE q == View(page[m.user], NoDto)
               more == {Load(m.user, 1), Load(m.user, 2)}
    <2>1. /\ page' = [page EXCEPT ![m.user] = q] /\ flight' = (flight \ {m}) \cup more
          /\ \A l \in more : l.body = NoDto
      BY <1>14, NoDtoHasAStamp DEF ReceiveSave
    <2>2. Fits(q.data, rows) /\ Fits(q.draft, rows) /\ Fits(q.base, rows)
      BY <1>2, <1>4 DEF View, Closed, Pages
    <2> HIDE DEF q, more
    <2>3. FitPages /\ FitFlight
      BY <1>6, <1>8, <2>1, <2>2
    <2> QED
      BY <1>1, <1>3, <2>3, RowsQuiet
  <1>15. CASE ReceiveStatus(m)
    <2> DEFINE more == {}
    <2>1. page' = page /\ flight' = (flight \ {m}) \cup more /\ \A l \in more : l.body = NoDto
      BY <1>15 DEF ReceiveStatus
    <2> HIDE DEF more
    <2>2. FitPages /\ FitFlight
      BY <1>5, <1>8, <2>1
    <2> QED
      BY <1>1, <1>3, <2>2, RowsQuiet
  <1>16. CASE ReceiveCreate(m)
    <2> DEFINE more == IF m.ok THEN {Load(m.user, 1)} ELSE {}
    <2>1. /\ page' = [page EXCEPT ![m.user].at = IF m.ok THEN "view" ELSE @]
          /\ flight' = (flight \ {m}) \cup more /\ \A l \in more : l.body = NoDto
      BY <1>16, NoDtoHasAStamp DEF ReceiveCreate
    <2> HIDE DEF more
    <2>2. FitPages
      BY <1>2, <2>1, FitNow DEF FitPages, Pages
    <2>3. FitFlight
      BY <1>8, <2>1
    <2> QED
      BY <1>1, <1>3, <2>2, <2>3, RowsQuiet
  <1> QED
    BY <1>9, <1>10, <1>11, <1>12, <1>13, <1>14, <1>15, <1>16

\* A form that is saved adds its statements and knows what it takes away.
LEMMA StatementsFit ==
    ASSUME RecordAssumption, TypeInv, RowsInv, NEW m \in flight
    PROVE  /\ \A w \in Statements(m) : Points(w.row, w.code, rows)
           /\ \A w \in Statements(m) : w.row # 0 => w.code \in Removed(m)
           /\ \A c \in Added(m) : \E w \in Statements(m) : w.row = 0 /\ w.code = c
  <1>1. ASSUME NEW w \in Statements(m)
        PROVE  Points(w.row, w.code, rows) /\ (w.row # 0 => w.code \in Removed(m))
    <2>1. PICK i \in m.body.attractants :
              /\ i.row = 0 \/ ~i.active
              /\ w = [row |-> i.row, code |-> i.code, stamp |-> m.stamp]
      BY DEF Statements
    <2>2. Points(i.row, i.code, rows)
      BY FitNow DEF Fits
    <2>3. i.row # 0 => i.code \in Removed(m)
      BY <2>1 DEF Removed
    <2> QED
      BY <2>1, <2>2, <2>3
  <1>2. ASSUME NEW c \in Added(m)
        PROVE  \E w \in Statements(m) : w.row = 0 /\ w.code = c
    <2>1. PICK i \in m.body.attractants : i.row = 0 /\ i.code = c
      BY DEF Added
    <2>2. [row |-> i.row, code |-> i.code, stamp |-> m.stamp] \in Statements(m)
      BY <2>1 DEF Statements
    <2> QED
      BY <2>1, <2>2
  <1> QED
    BY <1>1, <1>2

LEMMA SavesKeepRows ==
    ASSUME RecordAssumption, FieldsInv, RowsInv, NEW m \in flight,
           SaveComplaint(m) \/ ServeCreate(m)
    PROVE  RowsInv'
  <1>1. TypeInv /\ TypeInv' /\ m \in Messages
    BY RequestIsTyped DEF FieldsInv, Backend, TypeInv
  <1>2. /\ rows' = rows /\ page' = page /\ writes' = writes \cup Statements(m)
        /\ chosen' \subseteq (chosen \ Removed(m)) \cup Added(m)
        /\ \E at \in {"complaint", "answered"} : Becomes(m, [m EXCEPT !.at = at])
    BY DEF SaveComplaint, ServeCreate, Answered
  <1>3. FitPages /\ FitFlight
    <2>1. \A at : [m EXCEPT !.at = at].body = m.body
      BY <1>1 DEF Messages
    <2> QED
      BY <1>2, <2>1, FitNow DEF FitPages, FitFlight, Becomes
  <1>4. Extends
    BY <1>1, <1>2 DEF Extends, TypeInv
  <1>5. PointInv(page', flight', writes', rows')
    <2>1. \A w \in writes' : Points(w.row, w.code, rows')
      BY <1>1, <1>2, FitNow, StatementsFit
    <2> QED
      BY <1>1, <1>3, <1>4, <2>1, PointLater
  <1>6. ASSUME NEW c \in chosen'
        PROVE  Kept(c, writes', rows')
    <2>1. CASE c \in Added(m)
      BY <1>1, <1>2, <2>1, StatementsFit DEF Kept
    <2>2. CASE c \in chosen \ Removed(m)
      <3>1. Kept(c, writes, rows)
        BY <2>2 DEF RowsInv, KeptInv
      <3>2. CASE \E w \in writes : w.row = 0 /\ w.code = c
        BY <1>2, <3>2 DEF Kept
      <3>3. CASE \E n \in 1..Len(rows) : rows[n].active /\ rows[n].code = c /\ \A w \in writes : w.row # n
        <4>1. PICK n \in 1..Len(rows) :
                  rows[n].active /\ rows[n].code = c /\ \A w \in writes : w.row # n
          BY <3>3
        <4>2. n # 0
          BY <1>1 DEF TypeInv
        <4>3. \A w \in Statements(m) : w.row # n
          BY <1>1, <2>2, <4>1, <4>2, StatementsFit DEF Points
        <4> QED
          BY <1>2, <4>1, <4>3 DEF Kept
      <3> QED
        BY <3>1, <3>2, <3>3 DEF Kept
    <2> QED
      BY <1>2, <2>1, <2>2
  <1> QED
    BY <1>5, <1>6 DEF RowsInv, KeptInv

LEMMA WebEOCKeepsRows ==
    ASSUME RecordAssumption, FieldsInv, RowsInv, WebEOC
    PROVE  RowsInv'
  <1>1. TypeInv /\ TypeInv' /\ OriginInv
    BY WebEOCIsTyped DEF FieldsInv
  <1>2. ASSUME page' = page, flight' = flight
        PROVE  FitPages /\ FitFlight
    BY <1>2, FitNow DEF FitPages, FitFlight
  <1>3. ASSUME NEW v \in Firsts, NEW list \in SUBSET Attractants, Import(v, list)
        PROVE  RowsInv'
    <2>1. /\ rows' = NewRows(list) /\ chosen' = list /\ writes' = writes
          /\ page' = page /\ flight' = flight /\ origin = "none"
      BY <1>3 DEF Import, NoneYet
    <2>2. rows = <<>> /\ writes = {}
      BY <1>1, <2>1 DEF OriginInv
    <2>3. Extends
      BY <1>1, <2>2 DEF Extends, TypeInv
    <2>4. PointInv(page', flight', writes', rows')
      BY <1>1, <1>2, <2>1, <2>2, <2>3, PointLater
    <2>5. KeptInv(chosen', writes', rows')
      BY <2>1, <2>2, NewRowsOK DEF KeptInv, Kept
    <2> QED
      BY <2>4, <2>5 DEF RowsInv
  <1>4. CASE \/ \E f \in Fields, v \in Values, list \in SUBSET Attractants : EditReads(f, v, list)
             \/ \E f \in Updatable, v \in Values : UpdateReads(f, v)
    <2>1. page' = page /\ flight' = flight /\ UNCHANGED <<rows, writes, chosen>>
      BY <1>4 DEF EditReads, UpdateReads, database, ghosts
    <2> QED
      BY <1>1, <1>2, <2>1, RowsQuiet
  <1>5. CASE ProcedureWrites
    <2> DEFINE p == procedure
    <2>1. p \in Procedures /\ p.list \in SUBSET Attractants
      BY <1>1, <1>5 DEF ProcedureWrites, TypeInv, Procedures
    <2>2. page' = page /\ flight' = flight /\ writes' = writes
      BY <1>5 DEF ProcedureWrites
    <2>3. CASE p.runs = "update"
      <3>1. UNCHANGED <<rows, writes, chosen>>
        BY <1>5, <2>3 DEF ProcedureWrites
      <3> QED
        BY <1>1, <1>2, <2>2, <3>1, RowsQuiet
    <2>4. CASE p.runs # "update"
      <3> DEFINE off == [n \in DOMAIN rows |-> [rows[n] EXCEPT !.active = FALSE]]
                 new == NewRows(p.list)
      <3>1. rows' = off \o new /\ chosen' = p.list
        BY <1>5, <2>4 DEF ProcedureWrites
      <3>2. rows \in Seq(Row) /\ DOMAIN rows = 1..Len(rows) /\ Len(rows) \in Nat
        BY <1>1 DEF TypeInv
      <3>3. ASSUME NEW n \in DOMAIN rows
            PROVE  /\ [rows[n] EXCEPT !.active = FALSE] \in Row
                   /\ [rows[n] EXCEPT !.active = FALSE].code = rows[n].code
        <4>1. rows[n] \in Row
          BY <3>2
        <4> QED
          BY <4>1 DEF Row
      <3>4. off \in [1..Len(rows) -> Row] /\ \A n \in 1..Len(rows) : off[n].code = rows[n].code
        BY <3>2, <3>3
      <3>5. off \in Seq(Row) /\ Len(off) = Len(rows)
        BY <3>2, <3>4, SeqDef
      <3>6. /\ new \in Seq(Row) /\ \A n \in 1..Len(new) : new[n].active
            /\ \A c \in p.list : \E n \in 1..Len(new) : new[n].code = c
        BY <2>1, NewRowsOK
      <3> HIDE DEF off, new
      <3>7. /\ Len(rows') = Len(rows) + Len(new)
            /\ \A n \in 1..Len(rows) : rows'[n] = off[n]
            /\ \A n \in 1..Len(new) : rows'[Len(rows) + n] = new[n]
        <4>1. /\ Len(rows') = Len(off) + Len(new)
              /\ \A i \in 1..Len(off) + Len(new) :
                    rows'[i] = IF i <= Len(off) THEN off[i] ELSE new[i - Len(off)]
          BY <3>1, <3>5, <3>6, ConcatProperties
        <4>2. Len(new) \in Nat
          BY <3>6
        <4>3. \A n \in 1..Len(rows) : rows'[n] = off[n]
          BY <3>2, <3>5, <4>1, <4>2
        <4>4. ASSUME NEW n \in 1..Len(new)
              PROVE  rows'[Len(rows) + n] = new[n]
          <5>1. n \in Nat /\ n >= 1 /\ n <= Len(new)
            BY <4>2
          <5>2. Len(rows) + n \in 1..Len(off) + Len(new) /\ ~(Len(rows) + n <= Len(off))
            BY <3>2, <3>5, <4>2, <5>1
          <5>3. Len(rows) + n - Len(off) = n
            BY <3>2, <3>5, <5>1
          <5>4. rows'[Len(rows) + n] = new[Len(rows) + n - Len(off)]
            BY <4>1, <5>2
          <5> QED
            BY <5>3, <5>4
        <4> QED
          BY <3>5, <4>1, <4>3, <4>4
      <3>8. Extends
        <4>1. Len(new) \in Nat
          BY <3>6
        <4> QED
          BY <3>2, <3>4, <3>7, <4>1 DEF Extends
      <3>9. \A w \in writes : w.row \in Nat /\ Points(w.row, w.code, rows)
        BY <1>1, FitNow DEF TypeInv, Statement
      <3>10. PointInv(page', flight', writes', rows')
        <4>1. \A w \in writes' : Points(w.row, w.code, rows')
          BY <1>1, <2>2, <3>8, <3>9, FitsLater
        <4> QED
          BY <1>1, <1>2, <2>2, <3>8, <4>1, PointLater
      <3>11. ASSUME NEW c \in chosen'
             PROVE  Kept(c, writes', rows')
        <4>1. PICK n \in 1..Len(new) : new[n].code = c /\ new[n].active
          BY <3>1, <3>6
        <4> DEFINE k == Len(rows) + n
        <4>2. k \in 1..Len(rows') /\ k > Len(rows) /\ n \in Nat
          BY <3>2, <3>6, <3>7
        <4>3. rows'[k] = new[n]
          BY <3>7
        <4>4. \A w \in writes' : w.row # k
          BY <2>2, <3>2, <3>9, <4>2 DEF Points
        <4> HIDE DEF k
        <4> QED
          BY <4>1, <4>2, <4>3, <4>4 DEF Kept
      <3> QED
        BY <3>10, <3>11 DEF RowsInv, KeptInv
    <2> QED
      BY <2>3, <2>4
  <1> QED
    BY <1>3, <1>4, <1>5 DEF WebEOC

LEMMA LandsKeepsRows ==
    ASSUME RecordAssumption, FieldsInv, RowsInv, NEW w \in writes, Lands(w)
    PROVE  RowsInv'
  <1>1. TypeInv /\ TypeInv' /\ w \in Statement
    BY LandsIsTyped DEF FieldsInv, TypeInv
  <1>2. rows \in Seq(Row) /\ DOMAIN rows = 1..Len(rows) /\ Len(rows) \in Nat
    BY <1>1 DEF TypeInv
  <1>3. page' = page /\ flight' = flight /\ writes' = writes \ {w} /\ chosen' = chosen
    BY DEF Lands, ghosts
  <1>4. FitPages /\ FitFlight
    BY <1>3, FitNow DEF FitPages, FitFlight
  <1>5. \A x \in writes : x.row \in Nat /\ Points(x.row, x.code, rows)
    BY <1>1, FitNow DEF TypeInv, Statement
  <1>6. CASE w.row = 0
    <2> DEFINE r == [code |-> w.code, active |-> TRUE]
    <2>1. r \in Row
      BY <1>1 DEF Statement, Row
    <2>2. rows' = Append(rows, r)
      BY <1>6 DEF Lands
    <2>3. /\ Len(rows') = Len(rows) + 1 /\ rows'[Len(rows) + 1] = r
          /\ \A n \in 1..Len(rows) : rows'[n] = rows[n]
      BY <1>2, <2>1, <2>2, AppendProperties
    <2>4. Extends
      BY <1>2, <2>3 DEF Extends
    <2>5. PointInv(page', flight', writes', rows')
      BY <1>1, <1>3, <1>4, <1>5, <2>4, FitsLater, PointLater
    <2>6. ASSUME NEW c \in chosen'
          PROVE  Kept(c, writes', rows')
      <3>1. Kept(c, writes, rows)
        BY <1>3 DEF RowsInv, KeptInv
      <3>2. CASE c = w.code
        <4> DEFINE k == Len(rows) + 1
        <4>1. /\ k \in 1..Len(rows') /\ rows'[k].code = c /\ rows'[k].active
              /\ k > Len(rows)
          BY <1>2, <2>3, <3>2
        <4>2. \A x \in writes' : x.row # k
          BY <1>2, <1>3, <1>5, <4>1 DEF Points
        <4> HIDE DEF k
        <4> QED
          BY <4>1, <4>2 DEF Kept
      <3>3. CASE c # w.code
        <4>1. CASE \E x \in writes : x.row = 0 /\ x.code = c
          BY <1>3, <3>3, <4>1 DEF Kept
        <4>2. CASE \E n \in 1..Len(rows) : rows[n].active /\ rows[n].code = c /\ \A x \in writes : x.row # n
          <5>1. PICK n \in 1..Len(rows) :
                    rows[n].active /\ rows[n].code = c /\ \A x \in writes : x.row # n
            BY <4>2
          <5>2. n \in 1..Len(rows') /\ rows'[n] = rows[n]
            BY <1>2, <2>3
          <5> QED
            BY <1>3, <5>1, <5>2 DEF Kept
        <4> QED
          BY <3>1, <4>1, <4>2 DEF Kept
      <3> QED
        BY <3>2, <3>3
    <2> QED
      BY <2>5, <2>6 DEF RowsInv, KeptInv
  <1>7. CASE w.row # 0
    <2>1. rows' = [rows EXCEPT ![w.row].active = FALSE]
      BY <1>7 DEF Lands
    <2>2. w.row \in 1..Len(rows)
      BY <1>5, <1>7 DEF Points
    <2>3. \A n \in 1..Len(rows) : /\ rows'[n].code = rows[n].code
                                  /\ n # w.row => rows'[n] = rows[n]
      <3>1. \A n \in 1..Len(rows) : rows[n] \in Row
        BY <1>2
      <3> QED
        BY <1>2, <2>1, <2>2, <3>1 DEF Row
    <2>4. Len(rows') = Len(rows)
      <3>1. DOMAIN rows' = 1..Len(rows)
        BY <1>2, <2>1
      <3>2. rows' \in Seq(Row)
        BY <1>1 DEF TypeInv
      <3> QED
        BY <1>2, <3>1, <3>2
    <2>5. Extends
      BY <1>2, <2>3, <2>4 DEF Extends
    <2>6. PointInv(page', flight', writes', rows')
      BY <1>1, <1>3, <1>4, <1>5, <2>5, FitsLater, PointLater
    <2>7. ASSUME NEW c \in chosen'
          PROVE  Kept(c, writes', rows')
      <3>1. Kept(c, writes, rows)
        BY <1>3 DEF RowsInv, KeptInv
      <3>2. CASE \E x \in writes : x.row = 0 /\ x.code = c
        BY <1>3, <1>7, <3>2 DEF Kept
      <3>3. CASE \E n \in 1..Len(rows) : rows[n].active /\ rows[n].code = c /\ \A x \in writes : x.row # n
        <4>1. PICK n \in 1..Len(rows) :
                  rows[n].active /\ rows[n].code = c /\ \A x \in writes : x.row # n
          BY <3>3
        <4>2. rows'[n] = rows[n] /\ n \in 1..Len(rows')
          BY <2>3, <2>4, <4>1
        <4> QED
          BY <1>3, <4>1, <4>2 DEF Kept
      <3> QED
        BY <3>1, <3>2, <3>3 DEF Kept
    <2> QED
      BY <2>6, <2>7 DEF RowsInv, KeptInv
  <1> QED
    BY <1>6, <1>7

\* Who lost a new row has no claim to it; every other claim rests on what is left.
LEMMA FailureKeepsRows ==
    ASSUME RecordAssumption, FieldsInv, RowsInv, NEW lost \in SUBSET writes, WritesFail(lost)
    PROVE  RowsInv'
  <1>1. TypeInv /\ TypeInv'
    BY FailureIsTyped DEF FieldsInv
  <1>2. /\ UNCHANGED <<rows, page, flight>> /\ writes' = writes \ lost
        /\ chosen' = chosen \ {w.code : w \in {x \in lost : x.row = 0}}
    BY DEF WritesFail
  <1>3. PointInv(page', flight', writes', rows')
    <2>1. Extends
      BY <1>1, <1>2 DEF Extends, TypeInv
    <2>2. FitPages /\ FitFlight
      BY <1>2, FitNow DEF FitPages, FitFlight
    <2>3. \A w \in writes' : Points(w.row, w.code, rows')
      BY <1>2, FitNow
    <2> QED
      BY <1>1, <2>1, <2>2, <2>3, PointLater
  <1>4. ASSUME NEW c \in chosen'
        PROVE  Kept(c, writes', rows')
    <2>1. Kept(c, writes, rows) /\ \A x \in lost : x.row = 0 => x.code # c
      BY <1>2, <1>4 DEF RowsInv, KeptInv
    <2> QED
      BY <1>2, <2>1 DEF Kept
  <1> QED
    BY <1>3, <1>4 DEF RowsInv, KeptInv

LEMMA RowsStep ==
    ASSUME RecordAssumption, FieldsInv, RowsInv, [Next]_vars
    PROVE  RowsInv'
  <1>1. ASSUME NEW m \in flight, \/ Backend(m)
                                 \/ ReceiveLoad(m) \/ ReceiveSave(m) \/ ReceiveStatus(m)
                                 \/ ReceiveCreate(m)
        PROVE  RowsInv'
    BY <1>1, RepliesKeepRows, SavesKeepRows DEF Backend
  <1>2. CASE UNCHANGED vars
    BY <1>2 DEF vars, database, ghosts, RowsInv, PointInv, KeptInv, Kept, Shown, Fits, Points
  <1>3. CASE WebEOC
    BY <1>3, WebEOCKeepsRows
  <1>4. ASSUME NEW u \in Users, Officer(u)
        PROVE  RowsInv'
    BY <1>4, OfficerKeepsRows
  <1>5. ASSUME NEW w \in writes, Lands(w)
        PROVE  RowsInv'
    BY <1>5, LandsKeepsRows
  <1>6. ASSUME NEW lost \in SUBSET writes, WritesFail(lost)
        PROVE  RowsInv'
    BY <1>6, FailureKeepsRows
  <1> QED
    BY <1>1, <1>2, <1>3, <1>4, <1>5, <1>6 DEF Next

LEMMA RowsInit ==
    ASSUME RecordAssumption, Init
    PROVE  RowsInv
  <1>1. ASSUME NEW d \in Shown(page, flight)
        PROVE  Fits(d, rows)
    <2>1. d = NoDto
      BY DEF Init, Shown, Closed
    <2> QED
      BY <2>1, NoDtoFits
  <1> QED
    BY <1>1 DEF Init, RowsInv, PointInv, KeptInv

-----------------------------------------------------------------------------
\* The invariant both properties rest on.
LEMMA Invariance ==
    ASSUME RecordAssumption
    PROVE  Spec => []IInv
  <1>1. Init => IInv
    BY FieldsInit, RowsInit DEF IInv
  <1>2. IInv /\ [Next]_vars => IInv'
    BY FieldsStep, RowsStep DEF IInv
  <1> QED
    BY <1>1, <1>2, PTL DEF Spec

\* Whatever officers, forms and WebEOC's procedures do at the same time, a field holds what
\* it was given last, unless an older form was saved over it.
THEOREM LastGivenStandsThm ==
    ASSUME RecordAssumption
    PROVE  Spec => []LastGivenStands
  <1>1. IInv => LastGivenStands
    BY DEF IInv, FieldsInv, Stands, LastGivenStands, Told
  <1> QED
    BY <1>1, Invariance, PTL

\* An attractant that was added, by anybody and by any path, and whose own statement has
\* not failed, is not lost to a statement of an earlier form that arrives late, to one that
\* never arrives, or to an edit that replaces the rows.
THEOREM ChosenAreKeptThm ==
    ASSUME RecordAssumption
    PROVE  Spec => []ChosenAreKept
  <1>1. IInv => ChosenAreKept
    <2> SUFFICES ASSUME IInv, NEW c \in chosen
                 PROVE  c \in Active(rows) \cup {w.code : w \in {x \in writes : x.row = 0}}
      BY DEF ChosenAreKept
    <2>1. Kept(c, writes, rows) /\ DOMAIN rows = 1..Len(rows)
      BY DEF IInv, RowsInv, KeptInv, FieldsInv, TypeInv
    <2> QED
      BY <2>1 DEF Kept, Active
  <1> QED
    BY <1>1, Invariance, PTL
=============================================================================
