------------------------ MODULE AnimalOutcomeProofs ------------------------
(***************************************************************************)
(* Proofs about AnimalOutcome, for any number of animals and of drugs, and  *)
(* however long the officer goes on.                                        *)
(***************************************************************************)
EXTENDS AnimalOutcome, FiniteSetTheorems, SequenceTheorems, TLAPS

----------------------------------------------------------------------------
(* Sorting. *)

\* Ear tags and drugs, as far as sorting is concerned.
Sortable == [id : Nat, order : Nat, complete : BOOLEAN]

Rank(items) == [i \in DOMAIN items |-> Cardinality(Above(items, i)) + 1]

\* Every item has a place of its own: the order is total.
LEMMA RankOK ==
    ASSUME NEW items \in Seq(Sortable)
    PROVE  /\ Rank(items) \in Bijection(DOMAIN items, DOMAIN items)
           /\ \A i, j \in DOMAIN items : (Rank(items)[i] < Rank(items)[j]) <=> (i \in Above(items, j))
<1> DEFINE D == DOMAIN items
           A(i) == Above(items, i)
           f == Rank(items)
<1>1. /\ D = 1..Len(items) /\ Len(items) \in Nat /\ IsFiniteSet(D) /\ Cardinality(D) = Len(items)
      /\ \A i \in D : items[i].order \in Nat /\ i \in Nat
  <2>1. D = 1..Len(items) /\ Len(items) \in Nat
    OBVIOUS
  <2>2. IsFiniteSet(1..Len(items)) /\ Cardinality(1..Len(items)) = Len(items)
    BY <2>1, FS_Interval
  <2>3. \A i \in D : items[i] \in Sortable
    OBVIOUS
  <2>4. QED
    BY <2>1, <2>2, <2>3 DEF Sortable
<1>2. \A i \in D : A(i) \subseteq D /\ i \notin A(i) /\ IsFiniteSet(A(i)) /\ Cardinality(A(i)) \in Nat
  <2>1. \A i \in D : A(i) \subseteq D /\ i \notin A(i)
    BY <1>1 DEF Above
  <2>2. \A i \in D : IsFiniteSet(A(i))
    BY <1>1, <2>1, FS_Subset
  <2>3. QED
    BY <2>1, <2>2, FS_CardinalityType
<1>3. \A i, j \in D : i = j \/ i \in A(j) \/ j \in A(i)
  BY <1>1 DEF Above
<1>4. \A i, j \in D : i \in A(j) => A(i) \subseteq A(j)
  BY <1>1 DEF Above
<1>5. ASSUME NEW i \in D, NEW j \in D, i \in A(j)
      PROVE  Cardinality(A(i)) < Cardinality(A(j))
  <2>1. A(i) \in SUBSET A(j) /\ A(i) # A(j)
    BY <1>2, <1>4, <1>5
  <2>2. Cardinality(A(i)) <= Cardinality(A(j)) /\ Cardinality(A(i)) # Cardinality(A(j))
    BY <1>2, <2>1, FS_Subset
  <2>3. QED
    BY <1>2, <2>2
<1>6. \A i \in D : Cardinality(A(i)) < Cardinality(D)
  <2>1. ASSUME NEW i \in D PROVE Cardinality(A(i)) < Cardinality(D)
    <3>1. A(i) \in SUBSET D /\ A(i) # D
      BY <1>2
    <3>2. Cardinality(A(i)) <= Cardinality(D) /\ Cardinality(A(i)) # Cardinality(D)
      BY <1>1, <3>1, FS_Subset
    <3>3. QED
      BY <1>1, <1>2, <3>2
  <2>2. QED
    BY <2>1
<1>7. f \in [D -> D]
  <2>1. \A i \in D : Cardinality(A(i)) + 1 \in D
    BY <1>1, <1>2, <1>6
  <2>2. QED
    BY <2>1 DEF Rank
<1>8. \A i, j \in D : (f[i] < f[j]) <=> (i \in A(j))
  <2>1. ASSUME NEW i \in D, NEW j \in D PROVE (f[i] < f[j]) <=> (i \in A(j))
    <3>1. f[i] = Cardinality(A(i)) + 1 /\ f[j] = Cardinality(A(j)) + 1
      BY DEF Rank
    <3>2. CASE i \in A(j)
      BY <1>2, <1>5, <3>1, <3>2
    <3>3. CASE j \in A(i)
      <4>1. f[j] < f[i]
        BY <1>2, <1>5, <3>1, <3>3
      <4>2. i \notin A(j)
        BY <1>2, <1>5, <3>3
      <4>3. QED
        BY <1>2, <3>1, <4>1, <4>2
    <3>4. CASE i = j
      BY <1>2, <3>1, <3>4
    <3>5. QED
      BY <1>3, <3>2, <3>3, <3>4
  <2>2. QED
    BY <2>1
<1>9. \A i, j \in D : f[i] = f[j] => i = j
  <2>1. \A i \in D : f[i] \in Nat
    BY <1>1, <1>7
  <2>2. QED
    BY <1>3, <1>8, <2>1
<1>10. f \in Injection(D, D)
  BY <1>7, <1>9 DEF Injection, IsInjective
<1>11. f \in Surjection(D, D)
  BY <1>1, <1>10, FS_Injection
<1>12. QED
  BY <1>8, <1>10, <1>11 DEF Bijection

\* An item is displayed at its rank, and at every place an item is displayed.
LEMMA DisplayedOK ==
    ASSUME NEW items \in Seq(Sortable)
    PROVE  /\ DOMAIN Displayed(items) = DOMAIN items
           /\ Displayed(items) \in Seq(Sortable) /\ Len(Displayed(items)) = Len(items)
           /\ \A i \in DOMAIN items : /\ Rank(items)[i] \in DOMAIN items
                                      /\ Displayed(items)[Rank(items)[i]] = items[i]
           /\ \A n \in DOMAIN items : \E i \in DOMAIN items : Displayed(items)[n] = items[i] /\ Rank(items)[i] = n
<1> DEFINE D == DOMAIN items
           f == Rank(items)
           pick(n) == CHOOSE i \in D : Cardinality(Above(items, i)) = n - 1
<1>1. /\ f \in [D -> D] /\ \A i, j \in D : f[i] = f[j] => i = j
      /\ \A n \in D : \E i \in D : f[i] = n
  BY RankOK DEF Bijection, Injection, Surjection, IsInjective
<1>2. D = 1..Len(items) /\ Len(items) \in Nat
  OBVIOUS
<1>3. \A i \in D : Cardinality(Above(items, i)) \in Nat /\ f[i] = Cardinality(Above(items, i)) + 1
  <2>1. ASSUME NEW i \in D PROVE Cardinality(Above(items, i)) \in Nat
    <3>1. IsFiniteSet(D)
      BY <1>2, FS_Interval
    <3>2. IsFiniteSet(Above(items, i))
      BY <3>1, FS_Subset DEF Above
    <3>3. QED
      BY <3>2, FS_CardinalityType
  <2>2. QED
    BY <2>1 DEF Rank
<1>4. ASSUME NEW n \in D PROVE pick(n) \in D /\ f[pick(n)] = n
  <2>1. \E i \in D : Cardinality(Above(items, i)) = n - 1
    BY <1>1, <1>2, <1>3
  <2>2. pick(n) \in D /\ Cardinality(Above(items, pick(n))) = n - 1
    BY <2>1
  <2>3. QED
    BY <1>2, <1>3, <2>2
<1>5. Displayed(items) = [n \in D |-> items[pick(n)]]
  BY DEF Displayed
<1> HIDE DEF pick, f
<1>6. \A i \in D : f[i] \in D /\ Displayed(items)[f[i]] = items[i]
  BY <1>1, <1>4, <1>5
<1>7. \A n \in D : Displayed(items)[n] = items[pick(n)] /\ f[pick(n)] = n /\ pick(n) \in D
  BY <1>4, <1>5
<1>8. DOMAIN Displayed(items) = D
  BY <1>5
<1>9. Displayed(items) \in [1..Len(items) -> Sortable]
  BY <1>2, <1>4, <1>5
<1>10. QED
  BY <1>2, <1>6, <1>7, <1>8, <1>9 DEF f

----------------------------------------------------------------------------
(* What the officer does to a list. *)

LEMMA RemoveAtOK ==
    ASSUME NEW S, NEW s \in Seq(S), NEW i \in DOMAIN s
    PROVE  /\ RemoveAt(s, i) \in Seq(S) /\ Len(RemoveAt(s, i)) = Len(s) - 1
           /\ \A k \in DOMAIN RemoveAt(s, i) :
                 /\ (IF k < i THEN k ELSE k + 1) \in DOMAIN s \ {i}
                 /\ RemoveAt(s, i)[k] = s[IF k < i THEN k ELSE k + 1]
<1> DEFINE a == SubSeq(s, 1, i - 1)
           b == SubSeq(s, i + 1, Len(s))
<1>1. DOMAIN s = 1..Len(s) /\ Len(s) \in Nat /\ i \in 1..Len(s)
  OBVIOUS
<1>2. a \in Seq(S) /\ Len(a) = i - 1 /\ \A k \in 1..(i - 1) : a[k] = s[k]
  BY <1>1
<1>3. b \in Seq(S) /\ Len(b) = Len(s) - i /\ \A k \in 1..(Len(s) - i) : b[k] = s[k + i]
  BY <1>1
<1>4. RemoveAt(s, i) = a \o b
  BY DEF RemoveAt
<1> HIDE DEF a, b
<1>5. /\ a \o b \in Seq(S) /\ Len(a \o b) = Len(s) - 1
      /\ \A k \in 1..(Len(s) - 1) : (a \o b)[k] = IF k <= i - 1 THEN a[k] ELSE b[k - (i - 1)]
  <2>1. /\ a \o b \in Seq(S) /\ Len(a \o b) = Len(a) + Len(b)
        /\ \A k \in 1..(Len(a) + Len(b)) : (a \o b)[k] = IF k <= Len(a) THEN a[k] ELSE b[k - Len(a)]
    BY <1>2, <1>3, ConcatProperties
  <2>2. Len(a) + Len(b) = Len(s) - 1
    BY <1>1, <1>2, <1>3
  <2>3. QED
    BY <1>2, <2>1, <2>2
<1>6. DOMAIN (a \o b) = 1..(Len(s) - 1)
  BY <1>5
<1>7. ASSUME NEW k \in 1..(Len(s) - 1)
      PROVE  (a \o b)[k] = s[IF k < i THEN k ELSE k + 1]
  <2>1. CASE k < i
    BY <1>1, <1>2, <1>5, <2>1
  <2>2. CASE ~ (k < i)
    <3>1. k - (i - 1) \in 1..(Len(s) - i) /\ (k - (i - 1)) + i = k + 1
      BY <1>1, <2>2
    <3>2. b[k - (i - 1)] = s[k + 1]
      BY <1>3, <3>1
    <3>3. QED
      BY <1>1, <1>5, <2>2, <3>2
  <2>3. QED
    BY <2>1, <2>2
<1>8. \A k \in 1..(Len(s) - 1) : (IF k < i THEN k ELSE k + 1) \in DOMAIN s \ {i}
  BY <1>1
<1>9. QED
  BY <1>4, <1>5, <1>6, <1>7, <1>8

Distinct(items) ==
    \A i, j \in DOMAIN items : i # j => items[i].id # items[j].id /\ items[i].order # items[j].order

\* Items that a list and its successor share keep their order.
Keeps(old, new) ==
    \A i, j \in DOMAIN old : \A k, l \in DOMAIN new :
        old[i].id = new[k].id /\ old[j].id = new[l].id
            => ((old[i].order < old[j].order) <=> (new[k].order < new[l].order))

LEMMA ItemOK ==
    ASSUME NEW items \in Seq(Sortable), NEW i \in DOMAIN items
    PROVE  /\ items[i] \in Sortable
           /\ items[i].id \in Nat /\ items[i].order \in Nat /\ items[i].complete \in BOOLEAN
           /\ \A n \in Nat : /\ [items[i] EXCEPT !.order = n] \in Sortable
                             /\ [items[i] EXCEPT !.order = n].order = n
                             /\ [items[i] EXCEPT !.order = n].id = items[i].id
                             /\ [items[i] EXCEPT !.order = n].complete = items[i].complete
                             /\ [items[i] EXCEPT !.id = n, !.order = n] \in Sortable
                             /\ [items[i] EXCEPT !.id = n, !.order = n].id = n
                             /\ [items[i] EXCEPT !.id = n, !.order = n].order = n
                             /\ [items[i] EXCEPT !.id = n, !.order = n].complete = items[i].complete
           /\ \A c \in BOOLEAN : /\ [items[i] EXCEPT !.complete = c] \in Sortable
                                 /\ [items[i] EXCEPT !.complete = c].id = items[i].id
                                 /\ [items[i] EXCEPT !.complete = c].order = items[i].order
<1>1. items[i] \in Sortable
  OBVIOUS
<1>2. QED
  BY <1>1 DEF Sortable

\* What an item is added to keeps its order.
LEMMA AddKeeps ==
    ASSUME NEW items \in Seq(Sortable), NEW x \in Sortable
    PROVE  /\ Append(items, x) \in Seq(Sortable) /\ Len(Append(items, x)) = Len(items) + 1
           /\ /\ Distinct(items)
              /\ \A i \in DOMAIN items : items[i].id # x.id /\ items[i].order # x.order
              => Distinct(Append(items, x)) /\ Keeps(items, Append(items, x))
<1> DEFINE new == Append(items, x)
<1>1. /\ new \in Seq(Sortable) /\ Len(new) = Len(items) + 1 /\ Len(items) \in Nat
      /\ DOMAIN items = 1..Len(items) /\ DOMAIN new = 1..(Len(items) + 1)
      /\ \A k \in 1..Len(items) : new[k] = items[k]
      /\ new[Len(items) + 1] = x
  OBVIOUS
<1> HIDE DEF new
<1>2. ASSUME Distinct(items), \A i \in DOMAIN items : items[i].id # x.id /\ items[i].order # x.order
      PROVE  Distinct(new) /\ Keeps(items, new)
  <2>1. Distinct(new)
    BY <1>1, <1>2 DEF Distinct
  <2>2. \A i \in DOMAIN items, k \in DOMAIN new : items[i].id = new[k].id => k = i
    BY <1>1, <1>2 DEF Distinct
  <2>3. QED
    BY <1>1, <2>1, <2>2 DEF Keeps
<1>3. QED
  BY <1>1, <1>2 DEF new

\* So does what is put in another sequence.
LEMMA MovedKeeps ==
    ASSUME NEW items \in Seq(Sortable), NEW new \in Seq(Sortable), Distinct(items),
           NEW g \in [DOMAIN new -> DOMAIN items],
           \A k, l \in DOMAIN new : g[k] = g[l] => k = l,
           \A k \in DOMAIN new : new[k].id = items[g[k]].id /\ new[k].order = items[g[k]].order
    PROVE  Distinct(new) /\ Keeps(items, new)
<1>1. Distinct(new)
  BY DEF Distinct
<1>2. \A i \in DOMAIN items, k \in DOMAIN new : items[i].id = new[k].id => i = g[k]
  BY DEF Distinct
<1>3. QED
  BY <1>1, <1>2 DEF Keeps

LEMMA ChangeKeeps ==
    ASSUME NEW items \in Seq(Sortable), NEW i \in DOMAIN items, NEW c \in BOOLEAN
    PROVE  /\ Changed(items, i, c) \in Seq(Sortable) /\ Len(Changed(items, i, c)) = Len(items)
           /\ Distinct(items) => Distinct(Changed(items, i, c)) /\ Keeps(items, Changed(items, i, c))
           /\ \A k \in DOMAIN Changed(items, i, c) : \E j \in DOMAIN items :
                 /\ Changed(items, i, c)[k].id = items[j].id
                 /\ Changed(items, i, c)[k].order = items[j].order
<1> DEFINE rest == RemoveAt(items, i)
           x == [items[i] EXCEPT !.complete = c]
           new == Changed(items, i, c)
           g == [k \in DOMAIN items |-> IF k = Len(items) THEN i ELSE IF k < i THEN k ELSE k + 1]
<1>1. /\ rest \in Seq(Sortable) /\ Len(rest) = Len(items) - 1 /\ Len(items) \in Nat
      /\ DOMAIN items = 1..Len(items) /\ i \in 1..Len(items) /\ DOMAIN rest = 1..(Len(items) - 1)
      /\ \A k \in DOMAIN rest : rest[k] = items[IF k < i THEN k ELSE k + 1]
  BY RemoveAtOK
<1>2. x \in Sortable /\ x.id = items[i].id /\ x.order = items[i].order
  <2>1. items[i] \in Sortable
    OBVIOUS
  <2>2. QED
    BY <2>1 DEF Sortable
<1>3. new = Append(rest, x)
  BY DEF Changed
<1> HIDE DEF rest, x, new
<1>4. /\ new \in Seq(Sortable) /\ Len(new) = Len(items) /\ DOMAIN new = DOMAIN items
      /\ \A k \in DOMAIN rest : new[k] = rest[k]
      /\ new[Len(items)] = x
  BY <1>1, <1>2, <1>3
<1>5. g \in [DOMAIN new -> DOMAIN items] /\ \A k, l \in DOMAIN new : g[k] = g[l] => k = l
  BY <1>1, <1>4
<1>6. ASSUME NEW k \in DOMAIN new
      PROVE  new[k].id = items[g[k]].id /\ new[k].order = items[g[k]].order
  <2>1. CASE k = Len(items)
    BY <1>2, <1>4, <2>1
  <2>2. CASE k # Len(items)
    <3>1. k \in DOMAIN rest
      BY <1>1, <1>4, <2>2
    <3>2. new[k] = items[g[k]]
      BY <1>1, <1>4, <2>2, <3>1
    <3>3. QED
      BY <3>2
  <2>3. QED
    BY <2>1, <2>2
<1>7. \A k \in DOMAIN new : g[k] \in DOMAIN items
  BY <1>5
<1> HIDE DEF g
<1>8. Distinct(items) => Distinct(new) /\ Keeps(items, new)
  BY <1>4, <1>5, <1>6, MovedKeeps
<1>9. \A k \in DOMAIN new : \E j \in DOMAIN items : new[k].id = items[j].id /\ new[k].order = items[j].order
  BY <1>6, <1>7
<1>10. QED
  BY <1>4, <1>8, <1>9 DEF new

\* What is numbered again as it was shown keeps its order.
LEMMA RemoveKeeps ==
    ASSUME NEW items \in Seq(Sortable), NEW i \in DOMAIN items
    PROVE  /\ Removed(items, i) \in Seq(Sortable) /\ Len(Removed(items, i)) = Len(items) - 1
           /\ \A k \in DOMAIN Removed(items, i) : /\ Removed(items, i)[k].order = k
                                                 /\ \E j \in DOMAIN items : Removed(items, i)[k].id = items[j].id
           /\ Distinct(items) => Distinct(Removed(items, i)) /\ Keeps(items, Removed(items, i))
<1> DEFINE left == RemoveAt(items, i)
           rest == Displayed(left)
           new == Removed(items, i)
<1>1. /\ left \in Seq(Sortable) /\ Len(left) = Len(items) - 1 /\ Len(items) \in Nat
      /\ DOMAIN items = 1..Len(items) /\ i \in 1..Len(items) /\ DOMAIN left = 1..(Len(items) - 1)
      /\ \A k \in DOMAIN left : left[k] = items[IF k < i THEN k ELSE k + 1]
  BY RemoveAtOK
<1>2. /\ rest \in Seq(Sortable) /\ DOMAIN rest = DOMAIN left
      /\ \A n \in DOMAIN left : \E j \in DOMAIN left : rest[n] = left[j] /\ Rank(left)[j] = n
  BY <1>1, DisplayedOK
<1>3. new = [n \in DOMAIN rest |-> [rest[n] EXCEPT !.order = n]]
  BY DEF Removed
<1>4. ASSUME NEW n \in DOMAIN rest
      PROVE  new[n] \in Sortable /\ new[n].order = n /\ new[n].id = rest[n].id
  <2>1. rest[n] \in Sortable /\ n \in Nat
    BY <1>1, <1>2
  <2>2. new[n] = [rest[n] EXCEPT !.order = n]
    BY <1>3
  <2> HIDE DEF rest, new
  <2>3. QED
    BY <2>1, <2>2 DEF Sortable
<1> HIDE DEF left, rest, new
<1>5. new \in Seq(Sortable) /\ Len(new) = Len(items) - 1 /\ DOMAIN new = DOMAIN left
  <2>1. DOMAIN new = 1..(Len(items) - 1) /\ Len(items) - 1 \in Nat
    BY <1>1, <1>2, <1>3
  <2>2. \A n \in 1..(Len(items) - 1) : new[n] \in Sortable
    BY <1>1, <1>2, <1>4
  <2>3. QED
    BY <1>1, <1>2, <1>3, <2>1, <2>2
<1>6. ASSUME Distinct(items)
      PROVE  Distinct(new) /\ Keeps(items, new)
  <2> DEFINE at(n) == CHOOSE j \in DOMAIN left : rest[n] = left[j] /\ Rank(left)[j] = n
             g == [n \in DOMAIN new |-> IF at(n) < i THEN at(n) ELSE at(n) + 1]
  <2>1. \A n \in DOMAIN new : at(n) \in DOMAIN left /\ rest[n] = left[at(n)] /\ Rank(left)[at(n)] = n
    BY <1>2, <1>5
  <2> HIDE DEF at
  <2>2. /\ \A n \in DOMAIN new : g[n] \in DOMAIN items /\ new[n].id = items[g[n]].id
        /\ \A n \in DOMAIN new : left[at(n)].order = items[g[n]].order
        /\ \A n, m \in DOMAIN new : g[n] = g[m] => n = m
    <3>1. \A n \in DOMAIN new : g[n] \in DOMAIN items /\ left[at(n)] = items[g[n]]
      BY <1>1, <1>5, <2>1
    <3>2. \A n, m \in DOMAIN new : g[n] = g[m] => at(n) = at(m)
      BY <1>1, <1>5, <2>1
    <3>3. ASSUME NEW n \in DOMAIN new PROVE new[n].id = items[g[n]].id
      <4>1. new[n].id = rest[n].id
        BY <1>2, <1>4, <1>5
      <4>2. rest[n] = items[g[n]]
        BY <2>1, <3>1
      <4>3. QED
        BY <4>1, <4>2
    <3>4. \A n, m \in DOMAIN new : at(n) = at(m) => n = m
      BY <2>1
    <3>5. QED
      BY <3>1, <3>2, <3>3, <3>4
  <2>3. ASSUME NEW n \in DOMAIN new, NEW m \in DOMAIN new
        PROVE  (items[g[n]].order < items[g[m]].order) <=> (n < m)
    <3>1. /\ at(n) \in DOMAIN left /\ at(m) \in DOMAIN left
          /\ (n < m) <=> (at(n) \in Above(left, at(m)))
      BY <1>1, <2>1, RankOK
    <3>2. items[g[n]].order \in Nat /\ items[g[m]].order \in Nat
      BY <2>2, ItemOK
    <3>3. CASE n = m
      BY <1>1, <1>5, <3>2, <3>3
    <3>4. CASE n # m
      <4>1. items[g[n]].order # items[g[m]].order
        BY <1>6, <2>2, <3>4 DEF Distinct
      <4>2. (at(n) \in Above(left, at(m))) <=> (items[g[n]].order < items[g[m]].order)
        BY <2>2, <3>1, <4>1 DEF Above
      <4>3. QED
        BY <3>1, <4>2
    <3>5. QED
      BY <3>3, <3>4
  <2> HIDE DEF g
  <2>4. Distinct(new)
    <3>1. \A n, m \in DOMAIN new : n # m => new[n].id # new[m].id
      BY <1>6, <2>2 DEF Distinct
    <3>2. \A n \in DOMAIN new : new[n].order = n
      BY <1>2, <1>4, <1>5
    <3>3. QED
      BY <3>1, <3>2 DEF Distinct
  <2>5. \A k \in DOMAIN items, n \in DOMAIN new : items[k].id = new[n].id => k = g[n]
    BY <1>6, <2>2 DEF Distinct
  <2>6. \A n \in DOMAIN new : new[n].order = n
    BY <1>2, <1>4, <1>5
  <2>7. Keeps(items, new)
    BY <2>3, <2>5, <2>6 DEF Keeps
  <2>8. QED
    BY <2>4, <2>7
<1>7. ASSUME NEW k \in DOMAIN new
      PROVE  new[k].order = k /\ \E j \in DOMAIN items : new[k].id = items[j].id
  <2>1. new[k].order = k /\ new[k].id = rest[k].id /\ k \in DOMAIN left
    BY <1>2, <1>4, <1>5
  <2>2. PICK j \in DOMAIN left : rest[k] = left[j]
    BY <1>2, <2>1
  <2>3. (IF j < i THEN j ELSE j + 1) \in DOMAIN items /\ left[j] = items[IF j < i THEN j ELSE j + 1]
    BY <1>1
  <2>4. QED
    BY <2>1, <2>2, <2>3
<1>8. QED
  BY <1>2, <1>5, <1>6, <1>7 DEF new

\* What keeps its order is shown in the order it was shown in.
LEMMA SameOrderOK ==
    ASSUME NEW old \in Seq(Sortable), NEW new \in Seq(Sortable),
           Distinct(old), Distinct(new), Keeps(old, new)
    PROVE  SameOrder(old, new)
<1>1. ASSUME NEW items \in Seq(Sortable), Distinct(items), NEW i \in DOMAIN items
      PROVE  Place(items, items[i].id) = Rank(items)[i]
  <2>1. /\ DOMAIN Displayed(items) = DOMAIN items
        /\ Rank(items)[i] \in DOMAIN items
        /\ Displayed(items)[Rank(items)[i]] = items[i]
        /\ \A n \in DOMAIN items : \E j \in DOMAIN items : Displayed(items)[n] = items[j] /\ Rank(items)[j] = n
    BY DisplayedOK
  <2>2. ASSUME NEW n \in DOMAIN items, Displayed(items)[n].id = items[i].id
        PROVE  n = Rank(items)[i]
    <3>1. PICK j \in DOMAIN items : Displayed(items)[n] = items[j] /\ Rank(items)[j] = n
      BY <2>1
    <3>2. j = i
      BY <1>1, <2>2, <3>1 DEF Distinct
    <3>3. QED
      BY <3>1, <3>2
  <2>3. QED
    BY <2>1, <2>2 DEF Place
<1>2. ASSUME NEW items \in Seq(Sortable), Distinct(items), NEW i \in DOMAIN items, NEW j \in DOMAIN items
      PROVE  (Rank(items)[i] < Rank(items)[j]) <=> (items[i].order < items[j].order)
  <2>1. (Rank(items)[i] < Rank(items)[j]) <=> (i \in Above(items, j))
    BY RankOK
  <2>2. items[i].order \in Nat /\ items[j].order \in Nat
    BY ItemOK
  <2>3. i # j => items[i].order # items[j].order
    BY <1>2 DEF Distinct
  <2>4. DOMAIN items \subseteq Nat
    OBVIOUS
  <2>5. (i \in Above(items, j)) <=> (items[i].order < items[j].order)
    BY <2>2, <2>3, <2>4 DEF Above
  <2>6. QED
    BY <2>1, <2>5
<1>3. ASSUME NEW i \in DOMAIN old, NEW j \in DOMAIN old, NEW k \in DOMAIN new, NEW l \in DOMAIN new,
             old[i].id = new[k].id, old[j].id = new[l].id
      PROVE  (Place(old, old[i].id) < Place(old, old[j].id)) = (Place(new, old[i].id) < Place(new, old[j].id))
  <2>1. /\ Place(old, old[i].id) = Rank(old)[i] /\ Place(old, old[j].id) = Rank(old)[j]
        /\ Place(new, old[i].id) = Rank(new)[k] /\ Place(new, old[j].id) = Rank(new)[l]
    BY <1>1, <1>3
  <2>2. (Rank(old)[i] < Rank(old)[j]) <=> (old[i].order < old[j].order)
    BY <1>2
  <2>3. (Rank(new)[k] < Rank(new)[l]) <=> (new[k].order < new[l].order)
    BY <1>2
  <2>4. (old[i].order < old[j].order) <=> (new[k].order < new[l].order)
    BY <1>3 DEF Keeps
  <2>5. (Rank(old)[i] < Rank(old)[j]) <=> (Rank(new)[k] < Rank(new)[l])
    BY <2>2, <2>3, <2>4
  <2>6. QED
    BY <2>1, <2>5
<1>4. QED
  BY <1>3 DEF SameOrder

\* There is a free number for one more item.
LEMMA NewIdOK ==
    ASSUME NEW items \in Seq(Sortable)
    PROVE  NewId(items) \in 1..(Len(items) + 1) /\ \A i \in DOMAIN items : items[i].id # NewId(items)
<1>1. \E n \in 1..(Len(items) + 1) : \A i \in DOMAIN items : items[i].id # n
  <2>1. SUFFICES ASSUME \A n \in 1..(Len(items) + 1) : \E i \in DOMAIN items : items[i].id = n
                 PROVE  FALSE
    OBVIOUS
  <2> DEFINE N == 1..(Len(items) + 1)
             h == [n \in N |-> CHOOSE i \in DOMAIN items : items[i].id = n]
  <2>2. Len(items) \in Nat /\ DOMAIN items = 1..Len(items)
    OBVIOUS
  <2>3. IsFiniteSet(1..Len(items)) /\ Cardinality(1..Len(items)) = Len(items)
    BY <2>2, FS_Interval
  <2>4. IsFiniteSet(N) /\ Cardinality(N) = Len(items) + 1
    BY <2>2, FS_Interval
  <2>5. \A n \in N : h[n] \in DOMAIN items /\ items[h[n]].id = n
    BY <2>1
  <2>6. h \in [N -> DOMAIN items]
    BY <2>5
  <2> HIDE DEF N, h
  <2>7. PICK x, y \in N : x # y /\ h[x] = h[y]
    <3>1. Cardinality(DOMAIN items) < Cardinality(N) /\ IsFiniteSet(DOMAIN items)
      BY <2>2, <2>3, <2>4
    <3>2. QED
      BY <2>4, <2>6, <3>1, FS_PigeonHole
  <2>8. QED
    BY <2>5, <2>7
<1>2. QED
  BY <1>1 DEF NewId

AllComplete(items) == \A i \in DOMAIN items : items[i].complete

\* How many there are, and how they are numbered: by their places, or 0.
Bounded(items, n) ==
    /\ Len(items) <= n
    /\ \A i \in DOMAIN items : items[i].id \in 1..n /\ items[i].order <= Len(items)

\* What the form that edits an animal adds is shown below the rest.
LEMMA NextOrderOK ==
    ASSUME NEW items \in Seq(Sortable), \A i \in DOMAIN items : items[i].order <= Len(items)
    PROVE  /\ NextOrder("edit", items) \in Nat /\ NextOrder("edit", items) <= Len(items) + 1
           /\ \A i \in DOMAIN items : items[i].order # NextOrder("edit", items)
<1>1. CASE items = <<>>
  BY <1>1 DEF NextOrder
<1>2. CASE items # <<>>
  <2> DEFINE N == Len(items)
             orders == {items[i].order : i \in DOMAIN items}
  <2>1. N \in Nat \ {0} /\ DOMAIN items = 1..N /\ N \in DOMAIN items
    BY <1>2
  <2>2. \A i \in DOMAIN items : items[i].order \in Nat
    BY ItemOK
  <2>3. PICK j \in DOMAIN items : Rank(items)[j] = N
    BY <2>1, DisplayedOK
  <2>4. \A i \in DOMAIN items : Rank(items)[i] \in 1..N
    BY <2>1, DisplayedOK
  <2>5. ASSUME NEW i \in DOMAIN items PROVE items[i].order <= items[j].order
    <3>1. CASE Rank(items)[i] = N
      <4>1. i = j
        BY <2>3, <3>1, RankOK DEF Bijection, Injection, IsInjective
      <4>2. QED
        BY <2>2, <4>1
    <3>2. CASE Rank(items)[i] # N
      <4>1. Rank(items)[i] < Rank(items)[j]
        BY <2>1, <2>3, <2>4, <3>2
      <4>2. i \in Above(items, j)
        BY <4>1, RankOK
      <4>3. QED
        BY <2>2, <4>2 DEF Above
    <3>3. QED
      BY <3>1, <3>2
  <2>6. \E n \in orders : \A i \in DOMAIN items : items[i].order <= n
    BY <2>5
  <2> DEFINE m == CHOOSE n \in orders : \A i \in DOMAIN items : items[i].order <= n
  <2>7. m \in orders /\ \A i \in DOMAIN items : items[i].order <= m
    BY <2>6
  <2>8. NextOrder("edit", items) = 1 + m
    BY <1>2 DEF NextOrder
  <2> HIDE DEF m
  <2>9. m \in Nat /\ m <= N
    BY <2>2, <2>7
  <2>10. QED
    BY <2>1, <2>2, <2>7, <2>8, <2>9
<1>3. QED
  BY <1>1, <1>2

\* What is shown is complete exactly when the draft is.
LEMMA ShownOK ==
    ASSUME NEW items \in Seq(Sortable)
    PROVE  AllComplete(Displayed(items)) <=> AllComplete(items)
<1>1. /\ DOMAIN Displayed(items) = DOMAIN items
      /\ \A i \in DOMAIN items : /\ Rank(items)[i] \in DOMAIN items
                                 /\ Displayed(items)[Rank(items)[i]] = items[i]
      /\ \A n \in DOMAIN items : \E i \in DOMAIN items : Displayed(items)[n] = items[i]
  BY DisplayedOK
<1>2. ASSUME AllComplete(items) PROVE AllComplete(Displayed(items))
  BY <1>1, <1>2 DEF AllComplete
<1>3. ASSUME AllComplete(Displayed(items)), NEW i \in DOMAIN items PROVE items[i].complete
  BY <1>1, <1>3 DEF AllComplete
<1>4. QED
  BY <1>2, <1>3 DEF AllComplete

\* A reference is to what is shown, or to nothing, and that is no objection.
LEMMA AttachedOK ==
    ASSUME NEW refs \in Seq(Sortable), NEW items \in Seq(Sortable)
    PROVE  /\ Attached(refs, Displayed(items)) \in Seq(Sortable)
           /\ RefsValid(Attached(refs, Displayed(items))) <=> AllComplete(items)
<1> DEFINE shown == Displayed(items)
           n == IF Len(refs) > Len(shown) THEN Len(refs) ELSE Len(shown)
           new == Attached(refs, shown)
<1>1. shown \in Seq(Sortable) /\ (AllComplete(shown) <=> AllComplete(items))
  BY DisplayedOK, ShownOK
<1> HIDE DEF shown
<1>2. /\ Len(shown) \in Nat /\ n \in Nat /\ Len(shown) <= n /\ DOMAIN shown = 1..Len(shown)
      /\ \A i \in 1..Len(shown) : shown[i] \in Sortable
  <2>1. shown \in Seq(Sortable)
    BY <1>1
  <2>2. Len(shown) \in Nat /\ Len(refs) \in Nat
    BY <2>1
  <2>3. QED
    BY <2>1, <2>2
<1>3. new = [i \in 1..n |-> IF i <= Len(shown) THEN shown[i] ELSE Gone]
  BY DEF Attached
<1> HIDE DEF n, new
<1>4. Gone \in Sortable /\ Gone.complete
  BY DEF Gone, Sortable
<1>5. new \in Seq(Sortable) /\ DOMAIN new = 1..n
  <2>1. \A i \in 1..n : new[i] \in Sortable
    BY <1>2, <1>3, <1>4
  <2>2. QED
    BY <1>2, <1>3, <2>1
<1>6. RefsValid(new) <=> AllComplete(shown)
  <2>1. ASSUME RefsValid(new), NEW i \in DOMAIN shown PROVE shown[i].complete
    BY <1>2, <1>3, <1>5, <2>1 DEF RefsValid
  <2>2. ASSUME AllComplete(shown), NEW i \in DOMAIN new PROVE new[i].complete
    <3>1. CASE i <= Len(shown)
      BY <1>2, <1>3, <1>5, <2>2, <3>1 DEF AllComplete
    <3>2. CASE ~ (i <= Len(shown))
      BY <1>3, <1>4, <1>5, <3>2
    <3>3. QED
      BY <3>1, <3>2
  <2>3. QED
    BY <2>1, <2>2 DEF RefsValid, AllComplete
<1>7. QED
  BY <1>1, <1>5, <1>6 DEF new, shown

\* What a request sends is numbered as it was shown.
LEMMA NumberedOK ==
    ASSUME NEW items \in Seq(Sortable), NEW n \in Nat, Len(items) <= n
    PROVE  /\ Numbered(items) \in Seq(Sortable) /\ Len(Numbered(items)) = Len(items)
           /\ Distinct(Numbered(items)) /\ Bounded(Numbered(items), n)
           /\ AllComplete(items) => AllComplete(Numbered(items))
           /\ \A i \in DOMAIN Numbered(items) : Numbered(items)[i].order = i
<1> DEFINE new == Numbered(items)
<1>1. DOMAIN items = 1..Len(items) /\ Len(items) \in Nat
  OBVIOUS
<1>2. new = [k \in DOMAIN items |-> [items[k] EXCEPT !.id = k, !.order = k]]
  BY DEF Numbered
<1> HIDE DEF new
<1>3. ASSUME NEW k \in DOMAIN items
      PROVE  new[k] \in Sortable /\ new[k].id = k /\ new[k].order = k /\ new[k].complete = items[k].complete
  <2>1. items[k] \in Sortable /\ k \in Nat
    OBVIOUS
  <2>2. new[k] = [items[k] EXCEPT !.id = k, !.order = k]
    BY <1>2
  <2>3. QED
    BY <2>1, <2>2 DEF Sortable
<1>4. DOMAIN new = DOMAIN items
  BY <1>2
<1>5. new \in Seq(Sortable) /\ Len(new) = Len(items)
  <2>1. \A k \in 1..Len(items) : new[k] \in Sortable
    BY <1>1, <1>3
  <2>2. new \in [1..Len(items) -> Sortable]
    BY <1>1, <1>2, <2>1
  <2>3. QED
    BY <1>1, <2>2
<1>6. Distinct(new)
  BY <1>1, <1>3, <1>4 DEF Distinct
<1>7. Bounded(new, n)
  BY <1>1, <1>3, <1>4, <1>5 DEF Bounded
<1>8. AllComplete(items) => AllComplete(new)
  BY <1>3, <1>4 DEF AllComplete
<1>9. QED
  BY <1>3, <1>4, <1>5, <1>6, <1>7, <1>8 DEF new

----------------------------------------------------------------------------
(* Drafts. *)

Animal == [exists : BOOLEAN, tags : Seq(Sortable), drugs : Seq(Sortable),
           auth : Authorizations, result : Results]
RefsOf == [tags : Seq(Sortable), drugs : Seq(Sortable), auth : {"initial", "gone"} \cup Authorizations]
Form == [open : BOOLEAN, data : Animal, refs : RefsOf, base : Animal]

\* Ear tags are numbered by their places: the second is never added as first.
TagsOK(tags) ==
    /\ Bounded(tags, MaxTags) /\ Distinct(tags)
    /\ \A i \in DOMAIN tags : Len(tags) = 1 => tags[i].order = 1

AnimalOK(d) == d \in Animal /\ TagsOK(d.tags) /\ Bounded(d.drugs, MaxDrugs) /\ Distinct(d.drugs)

\* The form for a new animal adds its drugs as number 0.
DraftOK(w, d) ==
    /\ d \in Animal /\ TagsOK(d.tags) /\ Bounded(d.drugs, MaxDrugs)
    /\ w = "edit" => Distinct(d.drugs)

\* The references say of the draft what it says of itself.
RefsMatch(f) ==
    /\ RefsValid(f.refs.tags) <=> AllComplete(f.data.tags)
    /\ RefsValid(f.refs.drugs) <=> AllComplete(f.data.drugs)
    /\ f.data.drugs # <<>> => f.refs.auth = DisplayedAuthorization(f.data)
    /\ f.data.drugs = <<>> => f.refs.auth \in {"initial", "gone"}

LEMMA DrawnOK ==
    ASSUME NEW w \in Which, NEW d, DraftOK(w, d), NEW f \in Form
    PROVE  LET g == Drawn(w, d, f)
           IN  /\ g \in Form /\ g.open /\ g.base = f.base
               /\ DraftOK(w, g.data) /\ RefsMatch(g)
               /\ g.data.tags = d.tags /\ g.data.drugs = d.drugs /\ g.data.result = d.result
               /\ w = "edit" => g.data = d
<1> DEFINE r == Rendered(w, d)
           tags == Attached(f.refs.tags, Displayed(r.tags))
           drugs == Attached(f.refs.drugs, Displayed(r.drugs))
           auth == AttachedAuthorization(f.refs.auth, r)
           g == Drawn(w, d, f)
<1>1. d \in Animal
  BY DEF DraftOK
<1>2. DisplayedAuthorization(d) \in Authorizations
  BY <1>1 DEF DisplayedAuthorization, Authorizations, Animal
<1>3. /\ r \in Animal /\ r.tags = d.tags /\ r.drugs = d.drugs /\ r.result = d.result
      /\ w = "edit" => r = d
  BY <1>1, <1>2 DEF Rendered, Animal
<1> HIDE DEF r
<1>4. DraftOK(w, r)
  BY <1>3 DEF DraftOK
<1>5. r.tags \in Seq(Sortable) /\ r.drugs \in Seq(Sortable)
  BY <1>3 DEF Animal
<1>6. f.refs.tags \in Seq(Sortable) /\ f.refs.drugs \in Seq(Sortable) /\ f.base \in Animal
      /\ f.refs.auth \in {"initial", "gone"} \cup Authorizations
  BY DEF Form, RefsOf
<1>7. tags \in Seq(Sortable) /\ (RefsValid(tags) <=> AllComplete(r.tags))
  BY <1>5, <1>6, AttachedOK
<1>8. drugs \in Seq(Sortable) /\ (RefsValid(drugs) <=> AllComplete(r.drugs))
  BY <1>5, <1>6, AttachedOK
<1>9. DisplayedAuthorization(r) \in Authorizations
  BY <1>3 DEF DisplayedAuthorization, Authorizations, Animal
<1>10. /\ auth \in {"initial", "gone"} \cup Authorizations
       /\ r.drugs # <<>> => auth = DisplayedAuthorization(r)
       /\ r.drugs = <<>> => auth \in {"initial", "gone"}
  BY <1>9 DEF AttachedAuthorization
<1>11. g = [open |-> TRUE, data |-> r, base |-> f.base,
            refs |-> [tags |-> tags, drugs |-> drugs, auth |-> auth]]
  BY DEF Drawn, r
<1> HIDE DEF tags, drugs, auth, g
<1>12. /\ g.open /\ g.data = r /\ g.base = f.base
       /\ g.refs.tags = tags /\ g.refs.drugs = drugs /\ g.refs.auth = auth
  BY <1>11
<1>13. g \in Form
  BY <1>3, <1>6, <1>7, <1>8, <1>10, <1>11 DEF Form, RefsOf
<1>14. RefsMatch(g)
  BY <1>7, <1>8, <1>10, <1>12 DEF RefsMatch
<1>15. QED
  BY <1>3, <1>4, <1>12, <1>13, <1>14 DEF g

----------------------------------------------------------------------------
(* The changes of a draft. *)

\* A draft and what one change makes of it.
Follows(w, d, new) ==
    /\ DraftOK(w, new)
    /\ d.auth # "none" => new.auth # "none"
    /\ SameOrder(d.tags, new.tags)
    /\ w = "edit" => SameOrder(d.drugs, new.drugs)

LEMMA TagsFollow ==
    ASSUME NEW w \in Which, NEW d, DraftOK(w, d),
           NEW tags \in Seq(Sortable), TagsOK(tags), Keeps(d.tags, tags)
    PROVE  Follows(w, d, [d EXCEPT !.tags = tags])
<1> DEFINE new == [d EXCEPT !.tags = tags]
<1>1. /\ new \in Animal /\ new.tags = tags /\ new.drugs = d.drugs /\ new.auth = d.auth
      /\ d.tags \in Seq(Sortable)
  BY DEF DraftOK, Animal
<1> HIDE DEF new
<1>2. SameOrder(d.tags, tags)
  BY <1>1, SameOrderOK DEF DraftOK, TagsOK
<1>3. SameOrder(d.drugs, d.drugs)
  BY DEF SameOrder
<1>4. DraftOK(w, new)
  BY <1>1 DEF DraftOK
<1>5. QED
  BY <1>1, <1>2, <1>3, <1>4 DEF Follows, new

LEMMA DrugsFollow ==
    ASSUME NEW w \in Which, NEW d, DraftOK(w, d),
           NEW drugs \in Seq(Sortable), Bounded(drugs, MaxDrugs),
           w = "edit" => Distinct(drugs) /\ Keeps(d.drugs, drugs)
    PROVE  Follows(w, d, [d EXCEPT !.drugs = drugs])
<1> DEFINE new == [d EXCEPT !.drugs = drugs]
<1>1. /\ new \in Animal /\ new.drugs = drugs /\ new.tags = d.tags /\ new.auth = d.auth
      /\ d.drugs \in Seq(Sortable)
  BY DEF DraftOK, Animal
<1> HIDE DEF new
<1>2. w = "edit" => SameOrder(d.drugs, drugs)
  BY <1>1, SameOrderOK DEF DraftOK
<1>3. SameOrder(d.tags, d.tags)
  BY DEF SameOrder
<1>4. DraftOK(w, new)
  BY <1>1 DEF DraftOK
<1>5. QED
  BY <1>1, <1>2, <1>3, <1>4 DEF Follows, new

\* What is neither an ear tag nor a drug leaves them where they are.
LEMMA RestFollows ==
    ASSUME NEW w \in Which, NEW d, DraftOK(w, d)
    PROVE  /\ \A a \in Authorizations \ {"none"} : Follows(w, d, [d EXCEPT !.auth = a])
           /\ \A r \in Results : Follows(w, d, [d EXCEPT !.result = r])
<1>1. SameOrder(d.tags, d.tags) /\ SameOrder(d.drugs, d.drugs)
  BY DEF SameOrder
<1>2. d \in Animal
  BY DEF DraftOK
<1>3. ASSUME NEW a \in Authorizations \ {"none"}
      PROVE  Follows(w, d, [d EXCEPT !.auth = a])
  <2> DEFINE new == [d EXCEPT !.auth = a]
  <2>1. new \in Animal /\ new.tags = d.tags /\ new.drugs = d.drugs /\ new.auth # "none"
    BY <1>2 DEF Animal
  <2> HIDE DEF new
  <2>2. DraftOK(w, new)
    BY <2>1 DEF DraftOK
  <2>3. QED
    BY <1>1, <2>1, <2>2 DEF Follows, new
<1>4. ASSUME NEW r \in Results
      PROVE  Follows(w, d, [d EXCEPT !.result = r])
  <2> DEFINE new == [d EXCEPT !.result = r]
  <2>1. new \in Animal /\ new.tags = d.tags /\ new.drugs = d.drugs /\ new.auth = d.auth
    BY <1>2 DEF Animal
  <2> HIDE DEF new
  <2>2. DraftOK(w, new)
    BY <2>1 DEF DraftOK
  <2>3. QED
    BY <1>1, <2>1, <2>2 DEF Follows, new
<1>5. QED
  BY <1>3, <1>4

\* Adding, changing and removing keep to the bounds.
LEMMA BoundsKept ==
    ASSUME NEW items \in Seq(Sortable), NEW n \in Nat, Bounded(items, n)
    PROVE  /\ \A x \in Sortable : Len(items) < n /\ x.id \in 1..(Len(items) + 1) /\ x.order <= Len(items) + 1
                                    => Bounded(Append(items, x), n)
           /\ \A i \in DOMAIN items, c \in BOOLEAN : Bounded(Changed(items, i, c), n)
           /\ \A i \in DOMAIN items : Bounded(Removed(items, i), n)
<1>1. ASSUME NEW x \in Sortable, Len(items) < n, x.id \in 1..(Len(items) + 1), x.order <= Len(items) + 1
      PROVE  Bounded(Append(items, x), n)
  <2> DEFINE new == Append(items, x)
  <2>1. /\ Len(new) = Len(items) + 1 /\ Len(items) \in Nat /\ DOMAIN new = 1..(Len(items) + 1)
        /\ \A k \in 1..Len(items) : new[k] = items[k] /\ k \in DOMAIN items
        /\ new[Len(items) + 1] = x
    OBVIOUS
  <2> HIDE DEF new
  <2>2. \A k \in DOMAIN items : items[k].order \in Nat
    BY ItemOK
  <2>3. ASSUME NEW k \in DOMAIN new PROVE new[k].id \in 1..n /\ new[k].order <= Len(new)
    <3>1. CASE k = Len(items) + 1
      BY <1>1, <2>1, <3>1
    <3>2. CASE k # Len(items) + 1
      <4>1. k \in DOMAIN items /\ new[k] = items[k]
        BY <2>1, <3>2
      <4>2. QED
        BY <2>1, <2>2, <4>1 DEF Bounded
    <3>3. QED
      BY <3>1, <3>2
  <2>4. QED
    BY <1>1, <2>1, <2>3 DEF Bounded, new
<1>2. ASSUME NEW i \in DOMAIN items, NEW c \in BOOLEAN
      PROVE  Bounded(Changed(items, i, c), n)
  BY ChangeKeeps DEF Bounded
<1>3. ASSUME NEW i \in DOMAIN items
      PROVE  Bounded(Removed(items, i), n)
  <2>1. /\ Len(Removed(items, i)) = Len(items) - 1 /\ Len(items) \in Nat
        /\ Removed(items, i) \in Seq(Sortable)
        /\ \A k \in DOMAIN Removed(items, i) : /\ Removed(items, i)[k].order = k
                                               /\ \E j \in DOMAIN items : Removed(items, i)[k].id = items[j].id
    BY RemoveKeeps
  <2>2. DOMAIN Removed(items, i) = 1..(Len(items) - 1)
    BY <2>1
  <2>3. QED
    BY <2>1, <2>2 DEF Bounded
<1>4. QED
  BY <1>1, <1>2, <1>3

NewTag(items) ==
    [id |-> NewId(items), order |-> IF items = <<>> THEN 1 ELSE 2, complete |-> FALSE]
NewDrug(w, items) ==
    [id |-> NewId(items), order |-> NextOrder(w, items), complete |-> FALSE]

LEMMA TagAdded ==
    ASSUME NEW tags \in Seq(Sortable), TagsOK(tags), Len(tags) < MaxTags
    PROVE  /\ Append(tags, NewTag(tags)) \in Seq(Sortable)
           /\ TagsOK(Append(tags, NewTag(tags))) /\ Keeps(tags, Append(tags, NewTag(tags)))
<1> DEFINE x == NewTag(tags)
<1>1. Len(tags) \in Nat /\ MaxTags = 2 /\ DOMAIN tags = 1..Len(tags)
  BY DEF MaxTags
<1>2. NewId(tags) \in 1..(Len(tags) + 1) /\ \A i \in DOMAIN tags : tags[i].id # NewId(tags)
  BY NewIdOK
<1>3. x \in Sortable /\ x.id = NewId(tags) /\ x.order = IF tags = <<>> THEN 1 ELSE 2
  BY <1>1, <1>2 DEF NewTag, Sortable
<1> HIDE DEF x
<1>4. x.order <= Len(tags) + 1
  BY <1>1, <1>3
<1>5. \A i \in DOMAIN tags : tags[i].order # x.order
  <2>1. ASSUME NEW i \in DOMAIN tags PROVE tags[i].order # x.order
    <3>1. Len(tags) = 1 /\ tags # <<>>
      BY <1>1
    <3>2. QED
      BY <1>3, <3>1 DEF TagsOK
  <2>2. QED
    BY <2>1
<1>6. Append(tags, x) \in Seq(Sortable) /\ Len(Append(tags, x)) = Len(tags) + 1
  BY <1>3, AddKeeps
<1>7. Distinct(Append(tags, x)) /\ Keeps(tags, Append(tags, x))
  BY <1>2, <1>3, <1>5, AddKeeps DEF TagsOK
<1>8. Bounded(Append(tags, x), MaxTags)
  BY <1>1, <1>2, <1>3, <1>4, BoundsKept DEF TagsOK
<1>9. \A i \in DOMAIN Append(tags, x) : Len(Append(tags, x)) = 1 => Append(tags, x)[i].order = 1
  <2>1. ASSUME NEW i \in DOMAIN Append(tags, x), Len(Append(tags, x)) = 1
        PROVE  Append(tags, x)[i].order = 1
    <3>1. Len(tags) = 0 /\ tags = <<>> /\ i = 1
      BY <1>1, <1>6, <2>1
    <3>2. Append(tags, x)[i] = x
      BY <1>3, <3>1
    <3>3. QED
      BY <1>3, <3>1, <3>2
  <2>2. QED
    BY <2>1
<1>10. QED
  BY <1>6, <1>7, <1>8, <1>9 DEF TagsOK, x

LEMMA DrugAdded ==
    ASSUME NEW w \in Which, NEW drugs \in Seq(Sortable), Bounded(drugs, MaxDrugs), Len(drugs) < MaxDrugs,
           w = "edit" => Distinct(drugs)
    PROVE  LET new == Append(drugs, NewDrug(w, drugs))
           IN  /\ new \in Seq(Sortable) /\ Bounded(new, MaxDrugs)
               /\ w = "edit" => Distinct(new) /\ Keeps(drugs, new)
<1> DEFINE x == NewDrug(w, drugs)
<1>1. Len(drugs) \in Nat /\ MaxDrugs \in Nat
  BY AnimalAssumption
<1>2. NewId(drugs) \in 1..(Len(drugs) + 1) /\ \A i \in DOMAIN drugs : drugs[i].id # NewId(drugs)
  BY NewIdOK
<1>3. /\ NextOrder(w, drugs) \in Nat /\ NextOrder(w, drugs) <= Len(drugs) + 1
      /\ w = "edit" => \A i \in DOMAIN drugs : drugs[i].order # NextOrder(w, drugs)
  <2>1. CASE w = "create"
    BY <1>1, <2>1 DEF NextOrder
  <2>2. CASE w = "edit"
    <3>1. \A i \in DOMAIN drugs : drugs[i].order <= Len(drugs)
      BY DEF Bounded
    <3>2. QED
      BY <2>2, <3>1, NextOrderOK
  <2>3. QED
    BY <2>1, <2>2 DEF Which
<1>4. x \in Sortable /\ x.id = NewId(drugs) /\ x.order = NextOrder(w, drugs)
  BY <1>1, <1>2, <1>3 DEF NewDrug, Sortable
<1> HIDE DEF x
<1>5. Append(drugs, x) \in Seq(Sortable)
  BY <1>4
<1>6. Bounded(Append(drugs, x), MaxDrugs)
  BY <1>1, <1>2, <1>3, <1>4, BoundsKept
<1>7. w = "edit" => Distinct(Append(drugs, x)) /\ Keeps(drugs, Append(drugs, x))
  BY <1>2, <1>3, <1>4, AddKeeps
<1>8. QED
  BY <1>5, <1>6, <1>7 DEF x

LEMMA TagChanged ==
    ASSUME NEW tags \in Seq(Sortable), TagsOK(tags), NEW i \in DOMAIN tags, NEW c \in BOOLEAN
    PROVE  /\ Changed(tags, i, c) \in Seq(Sortable)
           /\ TagsOK(Changed(tags, i, c)) /\ Keeps(tags, Changed(tags, i, c))
<1> DEFINE new == Changed(tags, i, c)
<1>1. /\ new \in Seq(Sortable) /\ Len(new) = Len(tags)
      /\ Distinct(new) /\ Keeps(tags, new)
      /\ \A k \in DOMAIN new : \E j \in DOMAIN tags : new[k].order = tags[j].order
  BY ChangeKeeps DEF TagsOK
<1>2. Bounded(new, MaxTags)
  BY BoundsKept DEF TagsOK, MaxTags
<1>3. QED
  BY <1>1, <1>2 DEF TagsOK

LEMMA TagRemoved ==
    ASSUME NEW tags \in Seq(Sortable), TagsOK(tags), NEW i \in DOMAIN tags
    PROVE  /\ Removed(tags, i) \in Seq(Sortable)
           /\ TagsOK(Removed(tags, i)) /\ Keeps(tags, Removed(tags, i))
<1> DEFINE new == Removed(tags, i)
<1>1. /\ new \in Seq(Sortable) /\ Distinct(new) /\ Keeps(tags, new)
      /\ \A k \in DOMAIN new : new[k].order = k
  BY RemoveKeeps DEF TagsOK
<1>2. Bounded(new, MaxTags)
  BY BoundsKept DEF TagsOK, MaxTags
<1> HIDE DEF new
<1>3. \A k \in DOMAIN new : Len(new) = 1 => new[k].order = 1
  BY <1>1
<1>4. QED
  BY <1>1, <1>2, <1>3 DEF TagsOK, new

----------------------------------------------------------------------------
(* The inductive invariant. *)

FormOK(w, f) ==
    /\ f \in Form /\ DraftOK(w, f.data)
    /\ f.open => RefsMatch(f)
    /\ ~f.open => f = Closed
    /\ (w = "edit" /\ f.open /\ Authorized(f.base)) => f.data.auth # "none"

\* What the case API holds, and the store.
SavedOK(kept) ==
    /\ kept \in [Animals -> Animal]
    /\ \A a \in Animals : /\ AnimalOK(kept[a])
                          /\ AllComplete(kept[a].tags) /\ AllComplete(kept[a].drugs)
                          /\ kept[a].result # "partial"

RequestOK(r) ==
    /\ r \in [op : {"none", "create", "update", "delete", "read"}, id : Nat, data : Animal,
              at : {"none", "sent", "done"}]
    /\ DraftOK("create", r.data)
    /\ r.op \in {"create", "update"} =>
          AllComplete(r.data.tags) /\ AllComplete(r.data.drugs) /\ r.data.result # "partial"
    /\ r.op = "update" => r.id \in Animals

IInv ==
    /\ SavedOK(animals) /\ SavedOK(list)
    /\ form \in [Which -> Form] /\ \A w \in Which : FormOK(w, form[w])
    /\ editing \in Animals \cup {0} /\ (editing # 0 <=> form["edit"].open)
    /\ RequestOK(request) /\ (request.op = "update" => ~form["edit"].open)
    /\ changes \in 0..MaxChanges

LEMMA EmptyOK ==
    /\ NoAnimal \in Animal /\ AnimalOK(NoAnimal) /\ Closed \in Form
    /\ AllComplete(NoAnimal.tags) /\ AllComplete(NoAnimal.drugs) /\ NoAnimal.result # "partial"
    /\ \A w \in Which : DraftOK(w, NoAnimal) /\ FormOK(w, Closed)
    /\ RequestOK(NoRequest) /\ ~Closed.open /\ Closed.data = NoAnimal /\ NoRequest.op = "none"
<1>1. <<>> \in Seq(Sortable) /\ Len(<<>>) = 0 /\ DOMAIN <<>> = {}
  OBVIOUS
<1>2. NoAnimal \in Animal /\ NoAnimal.tags = <<>> /\ NoAnimal.drugs = <<>> /\ NoAnimal.result = "none"
      /\ NoAnimal.auth = "none"
  BY <1>1 DEF NoAnimal, Animal, Authorizations, Results
<1>3. Distinct(<<>>) /\ AllComplete(<<>>)
  BY <1>1 DEF Distinct, AllComplete
<1>4. TagsOK(<<>>) /\ Bounded(<<>>, MaxDrugs)
  BY <1>1, <1>3, AnimalAssumption DEF TagsOK, Bounded, MaxTags
<1>5. AnimalOK(NoAnimal)
  BY <1>2, <1>3, <1>4 DEF AnimalOK
<1>6. \A w \in Which : DraftOK(w, NoAnimal)
  BY <1>2, <1>3, <1>4 DEF DraftOK
<1>7. NoRefs \in RefsOf
  BY <1>1 DEF NoRefs, RefsOf
<1>8. Closed \in Form /\ ~Closed.open /\ Closed.data = NoAnimal
  BY <1>2, <1>7 DEF Closed, Form
<1>9. \A w \in Which : FormOK(w, Closed)
  BY <1>6, <1>8 DEF FormOK
<1>10. RequestOK(NoRequest) /\ NoRequest.op = "none"
  <2>1. /\ NoRequest.op = "none" /\ NoRequest.data = NoAnimal
        /\ NoRequest \in [op : {"none", "create", "update", "delete", "read"}, id : Nat, data : Animal,
                          at : {"none", "sent", "done"}]
    BY <1>2 DEF NoRequest
  <2>2. QED
    BY <1>6, <2>1 DEF RequestOK, Which
<1>11. QED
  BY <1>2, <1>3, <1>5, <1>6, <1>8, <1>9, <1>10

LEMMA InitOK == Init => IInv
<1> SUFFICES ASSUME Init PROVE IInv
  OBVIOUS
<1>1. SavedOK(animals) /\ SavedOK(list)
  BY EmptyOK DEF Init, SavedOK
<1>2. form \in [Which -> Form] /\ \A w \in Which : FormOK(w, form[w])
  BY EmptyOK DEF Init
<1>3. form["edit"] = Closed
  BY DEF Init, Which
<1>4. QED
  BY <1>1, <1>2, <1>3, EmptyOK, AnimalAssumption DEF Init, IInv

\* Every change makes a draft that follows from the draft.
Change(w) ==
    \/ AddTag(w) \/ ChangeTag(w) \/ RemoveTag(w)
    \/ AddDrug(w) \/ ChangeDrug(w) \/ RemoveDrug(w)
    \/ Authorize(w) \/ ChangeResult(w)

LEMMA ChangeFollows ==
    ASSUME IInv, NEW w \in Which, Change(w)
    PROVE  \E d : Follows(w, form[w].data, d) /\ Changes(w, d)
<1> DEFINE d == form[w].data
           tags == form[w].data.tags
           drugs == form[w].data.drugs
<1>1. DraftOK(w, d) /\ d \in Animal
  BY DEF IInv, FormOK, DraftOK
<1>2. tags \in Seq(Sortable) /\ TagsOK(tags)
  BY <1>1 DEF DraftOK, Animal
<1>3. drugs \in Seq(Sortable) /\ Bounded(drugs, MaxDrugs) /\ (w = "edit" => Distinct(drugs)) /\ MaxDrugs \in Nat
  BY <1>1, AnimalAssumption DEF DraftOK, Animal
<1>4. CASE AddTag(w)
  <2> DEFINE new == Append(tags, NewTag(tags))
  <2>1. Len(tags) < MaxTags /\ Changes(w, [d EXCEPT !.tags = new])
    BY <1>4 DEF AddTag, NewTag
  <2>2. Follows(w, d, [d EXCEPT !.tags = new])
    BY <1>1, <1>2, <2>1, TagAdded, TagsFollow
  <2>3. QED
    BY <2>1, <2>2
<1>5. CASE ChangeTag(w)
  <2>1. PICK i \in DOMAIN tags, c \in BOOLEAN : Changes(w, [d EXCEPT !.tags = Changed(tags, i, c)])
    BY <1>5 DEF ChangeTag
  <2>2. Follows(w, d, [d EXCEPT !.tags = Changed(tags, i, c)])
    BY <1>1, <1>2, TagChanged, TagsFollow
  <2>3. QED
    BY <2>1, <2>2
<1>6. CASE RemoveTag(w)
  <2>1. PICK i \in DOMAIN tags : Changes(w, [d EXCEPT !.tags = Removed(tags, i)])
    BY <1>6 DEF RemoveTag
  <2>2. Follows(w, d, [d EXCEPT !.tags = Removed(tags, i)])
    BY <1>1, <1>2, TagRemoved, TagsFollow
  <2>3. QED
    BY <2>1, <2>2
<1>7. CASE AddDrug(w)
  <2> DEFINE new == Append(drugs, NewDrug(w, drugs))
  <2>1. Len(drugs) < MaxDrugs /\ Changes(w, [d EXCEPT !.drugs = new])
    BY <1>7 DEF AddDrug, NewDrug
  <2>2. new \in Seq(Sortable) /\ Bounded(new, MaxDrugs) /\ (w = "edit" => Distinct(new) /\ Keeps(drugs, new))
    BY <1>3, <2>1, DrugAdded
  <2> HIDE DEF new
  <2>3. Follows(w, d, [d EXCEPT !.drugs = new])
    BY <1>1, <2>2, DrugsFollow
  <2>4. QED
    BY <2>1, <2>3
<1>8. CASE ChangeDrug(w)
  <2>1. PICK i \in DOMAIN drugs, c \in BOOLEAN : Changes(w, [d EXCEPT !.drugs = Changed(drugs, i, c)])
    BY <1>8 DEF ChangeDrug
  <2> DEFINE new == Changed(drugs, i, c)
  <2>2. new \in Seq(Sortable) /\ Bounded(new, MaxDrugs) /\ (w = "edit" => Distinct(new) /\ Keeps(drugs, new))
    BY <1>3, ChangeKeeps, BoundsKept
  <2> HIDE DEF new
  <2>3. Follows(w, d, [d EXCEPT !.drugs = new])
    BY <1>1, <2>2, DrugsFollow
  <2>4. QED
    BY <2>1, <2>3 DEF new
<1>9. CASE RemoveDrug(w)
  <2>1. PICK i \in DOMAIN drugs : Changes(w, [d EXCEPT !.drugs = Removed(drugs, i)])
    BY <1>9 DEF RemoveDrug
  <2> DEFINE new == Removed(drugs, i)
  <2>2. new \in Seq(Sortable) /\ Bounded(new, MaxDrugs) /\ (w = "edit" => Distinct(new) /\ Keeps(drugs, new))
    BY <1>3, RemoveKeeps, BoundsKept
  <2> HIDE DEF new
  <2>3. Follows(w, d, [d EXCEPT !.drugs = new])
    BY <1>1, <2>2, DrugsFollow
  <2>4. QED
    BY <2>1, <2>3 DEF new
<1>10. CASE Authorize(w)
  BY <1>1, <1>10, RestFollows DEF Authorize
<1>11. CASE ChangeResult(w)
  BY <1>1, <1>11, RestFollows DEF ChangeResult
<1>12. QED
  BY <1>4, <1>5, <1>6, <1>7, <1>8, <1>9, <1>10, <1>11 DEF Change

\* A form as a change leaves it.
LEMMA ChangesOK ==
    ASSUME IInv, NEW w \in Which, NEW d, Follows(w, form[w].data, d), Changes(w, d)
    PROVE  IInv' /\ form[w].open /\ form'[w].data.tags = d.tags /\ form'[w].data.drugs = d.drugs
           /\ \A v \in Which : v # w => form'[v] = form[v]
<1> DEFINE g == Drawn(w, d, form[w])
<1>1. /\ form \in [Which -> Form] /\ form[w] \in Form /\ form[w].open /\ FormOK(w, form[w])
      /\ request.op = "none" /\ changes < MaxChanges /\ changes \in 0..MaxChanges /\ MaxChanges \in Nat
      /\ changes' = changes + 1
      /\ form' = [form EXCEPT ![w] = g]
      /\ UNCHANGED <<animals, list, editing, request>>
  BY AnimalAssumption DEF IInv, Changes, Idle
<1>2. DraftOK(w, d)
  BY DEF Follows
<1>3. /\ g \in Form /\ g.open /\ g.base = form[w].base
      /\ DraftOK(w, g.data) /\ RefsMatch(g)
      /\ g.data.tags = d.tags /\ g.data.drugs = d.drugs
      /\ w = "edit" => g.data = d
  BY <1>1, <1>2, DrawnOK
<1> HIDE DEF g
<1>4. FormOK(w, g)
  <2>1. (w = "edit" /\ Authorized(g.base)) => g.data.auth # "none"
    BY <1>1, <1>3 DEF FormOK, Follows
  <2>2. QED
    BY <1>3, <2>1 DEF FormOK
<1>5. form' \in [Which -> Form] /\ form'[w] = g /\ \A v \in Which : v # w => form'[v] = form[v]
  BY <1>1, <1>3
<1>6. \A v \in Which : FormOK(v, form'[v])
  BY <1>4, <1>5 DEF IInv
<1>7. form'["edit"].open <=> form["edit"].open
  BY <1>1, <1>3, <1>5 DEF Which
<1>8. changes' \in 0..MaxChanges
  BY <1>1
<1>9. IInv'
  BY <1>1, <1>5, <1>6, <1>7, <1>8 DEF IInv
<1>10. QED
  BY <1>1, <1>3, <1>5, <1>9

----------------------------------------------------------------------------
(* The other steps. *)

\* What an accepted request makes of an animal.
KeptOK(x) ==
    /\ x \in Animal /\ AnimalOK(x) /\ AllComplete(x.tags) /\ AllComplete(x.drugs) /\ x.result # "partial"

LEMMA InputOK ==
    ASSUME NEW d, DraftOK("create", d), AllComplete(d.tags), AllComplete(d.drugs), d.result # "partial"
    PROVE  KeptOK(Input(d)) /\ \A a \in Authorizations : KeptOK([Input(d) EXCEPT !.auth = a])
<1> DEFINE tags == Numbered(d.tags)
           drugs == Numbered(d.drugs)
           auth == IF d.drugs # <<>> THEN d.auth ELSE "none"
           x == Input(d)
<1>1. /\ d \in Animal /\ d.tags \in Seq(Sortable) /\ d.drugs \in Seq(Sortable) /\ d.auth \in Authorizations
      /\ d.result \in Results /\ Len(d.tags) <= MaxTags /\ Len(d.drugs) <= MaxDrugs
      /\ MaxTags \in Nat /\ MaxDrugs \in Nat
  BY AnimalAssumption DEF DraftOK, TagsOK, Bounded, Animal, MaxTags
<1>2. /\ tags \in Seq(Sortable) /\ Distinct(tags) /\ Bounded(tags, MaxTags) /\ AllComplete(tags)
      /\ \A i \in DOMAIN tags : tags[i].order = i
  BY <1>1, NumberedOK
<1>3. drugs \in Seq(Sortable) /\ Distinct(drugs) /\ Bounded(drugs, MaxDrugs) /\ AllComplete(drugs)
  BY <1>1, NumberedOK
<1>4. auth \in Authorizations
  BY <1>1 DEF Authorizations
<1>5. x = [exists |-> TRUE, tags |-> tags, drugs |-> drugs, auth |-> auth, result |-> d.result]
  BY DEF Input
<1> HIDE DEF tags, drugs, auth, x
<1>6. \A i \in DOMAIN tags : Len(tags) = 1 => tags[i].order = 1
  <2>1. DOMAIN tags = 1..Len(tags)
    BY <1>2
  <2>2. QED
    BY <1>2, <2>1
<1>7. TagsOK(tags)
  BY <1>2, <1>6 DEF TagsOK
<1>8. ASSUME NEW y, y \in Animal, y.tags = tags, y.drugs = drugs, y.result = d.result
      PROVE  KeptOK(y)
  BY <1>2, <1>3, <1>7, <1>8 DEF KeptOK, AnimalOK
<1>9. KeptOK(x)
  <2>1. x \in Animal /\ x.tags = tags /\ x.drugs = drugs /\ x.result = d.result
    BY <1>1, <1>2, <1>3, <1>4, <1>5 DEF Animal
  <2>2. QED
    BY <1>8, <2>1
<1>10. ASSUME NEW a \in Authorizations PROVE KeptOK([x EXCEPT !.auth = a])
  <2> DEFINE y == [x EXCEPT !.auth = a]
  <2>1. y \in Animal /\ y.tags = tags /\ y.drugs = drugs /\ y.result = d.result
    BY <1>1, <1>2, <1>3, <1>5 DEF Animal
  <2> HIDE DEF y
  <2>2. KeptOK(y)
    BY <1>8, <2>1
  <2>3. QED
    BY <2>2 DEF y
<1>11. QED
  BY <1>9, <1>10 DEF x

\* A form of its own is what its references say.
LEMMA ValidOK ==
    ASSUME NEW w \in Which, FormOK(w, form[w]), form[w].open
    PROVE  isValid(w) <=> /\ form[w].data.result # "partial"
                          /\ AllComplete(form[w].data.tags) /\ AllComplete(form[w].data.drugs)
                          /\ AuthorizationValid(w, form[w].refs.auth)
BY DEF FormOK, RefsMatch, isValid

LEMMA CloseOK ==
    ASSUME IInv, NEW w \in Which
    PROVE  LET new == [form EXCEPT ![w] = Closed]
           IN  new \in [Which -> Form] /\ \A v \in Which : FormOK(v, new[v])
BY EmptyOK DEF IInv

LEMMA OpenOK ==
    ASSUME IInv, NEW w \in Which, NEW d, AnimalOK(d), w = "create" => d = NoAnimal,
           NEW b, b \in Form, w = "edit" => b.base = d, w = "create" => b.base = NoAnimal
    PROVE  LET new == [form EXCEPT ![w] = Drawn(w, d, b)]
           IN  /\ new \in [Which -> Form] /\ \A v \in Which : FormOK(v, new[v])
               /\ new[w].open /\ \A v \in Which : v # w => new[v] = form[v]
<1> DEFINE g == Drawn(w, d, b)
<1>1. DraftOK(w, d)
  BY DEF AnimalOK, DraftOK
<1>2. /\ g \in Form /\ g.open /\ g.base = b.base /\ DraftOK(w, g.data) /\ RefsMatch(g)
      /\ w = "edit" => g.data = d
  BY <1>1, DrawnOK
<1> HIDE DEF g
<1>3. FormOK(w, g)
  <2>1. (w = "edit" /\ Authorized(g.base)) => g.data.auth # "none"
    BY <1>2 DEF Authorized
  <2>2. QED
    BY <1>2, <2>1 DEF FormOK
<1>4. QED
  BY <1>2, <1>3 DEF IInv, g

\* A request keeps the type of requests.
LEMMA SendsOK ==
    ASSUME NEW op \in {"create", "update", "delete", "read"}, NEW id \in Nat, NEW d,
           DraftOK("create", d),
           op \in {"create", "update"} => AllComplete(d.tags) /\ AllComplete(d.drugs) /\ d.result # "partial",
           op = "update" => id \in Animals,
           NEW r, r = [op |-> op, id |-> id, data |-> d, at |-> "sent"]
    PROVE  RequestOK(r) /\ r.op = op
<1>1. d \in Animal
  BY DEF DraftOK
<1>2. /\ r.op = op /\ r.id = id /\ r.data = d
      /\ r \in [op : {"none", "create", "update", "delete", "read"}, id : Nat, data : Animal,
                at : {"none", "sent", "done"}]
  BY <1>1
<1>3. QED
  BY <1>2 DEF RequestOK

LEMMA LeavingOK == IInv /\ Left => changes' \in 0..MaxChanges
BY AnimalAssumption DEF IInv, Left

LEMMA OfficerOK ==
    ASSUME IInv, Officer
    PROVE  IInv'
<1>0. /\ \A w \in Which : FormOK(w, form[w]) /\ form \in [Which -> Form]
      /\ SavedOK(animals) /\ SavedOK(list) /\ RequestOK(request) /\ "edit" \in Which /\ "create" \in Which
      /\ "edit" # "create"
      /\ \A a \in Animals : a \in Nat /\ a # 0
  BY AnimalAssumption DEF IInv, Which, Animals
<1>1. ASSUME NEW w \in Which, Change(w) PROVE IInv'
  <2>1. PICK d : Follows(w, form[w].data, d) /\ Changes(w, d)
    BY <1>1, ChangeFollows
  <2>2. QED
    BY <2>1, ChangesOK
<1>2. ASSUME NEW w \in Which, Cancel(w) PROVE IInv'
  <2>1. /\ form' = [form EXCEPT ![w] = Closed] /\ changes' \in 0..MaxChanges
        /\ editing' = IF w = "edit" THEN 0 ELSE editing
        /\ UNCHANGED <<animals, list, request>> /\ request.op = "none"
    BY <1>2, LeavingOK DEF Cancel, Idle
  <2>2. form' \in [Which -> Form] /\ \A v \in Which : FormOK(v, form'[v])
    BY <2>1, CloseOK
  <2>3. editing' \in Animals \cup {0} /\ (editing' # 0 <=> form'["edit"].open)
    BY <1>0, <2>1, EmptyOK DEF IInv
  <2>4. QED
    BY <1>0, <2>1, <2>2, <2>3 DEF IInv
<1>3. CASE OpenCreate
  <2>1. /\ form' = [form EXCEPT !["create"] = Drawn("create", NoAnimal, Closed)]
        /\ UNCHANGED <<animals, list, editing, request, changes>>
    BY <1>3 DEF OpenCreate
  <2>2. Closed.base = NoAnimal
    BY DEF Closed
  <2>3. /\ form' \in [Which -> Form] /\ \A v \in Which : FormOK(v, form'[v])
        /\ \A v \in Which : v # "create" => form'[v] = form[v]
    BY <1>0, <2>1, <2>2, EmptyOK, OpenOK
  <2>4. QED
    BY <1>0, <2>1, <2>3 DEF IInv
<1>4. ASSUME NEW a \in Animals, OpenEdit(a) PROVE IInv'
  <2> DEFINE b == [Closed EXCEPT !.base = list[a]]
  <2>1. /\ editing' = a /\ request.op = "none"
        /\ form' = [form EXCEPT !["edit"] = Drawn("edit", list[a], b)]
        /\ UNCHANGED <<animals, list, request, changes>>
    BY <1>4 DEF OpenEdit, Idle
  <2>2. AnimalOK(list[a]) /\ list[a] \in Animal
    BY <1>0 DEF SavedOK
  <2>3. b \in Form /\ b.base = list[a]
    BY <2>2, EmptyOK DEF Form
  <2> HIDE DEF b
  <2>4. /\ form' \in [Which -> Form] /\ \A v \in Which : FormOK(v, form'[v])
        /\ form'["edit"].open
    BY <1>0, <2>1, <2>2, <2>3, OpenOK
  <2>5. QED
    BY <1>0, <2>1, <2>4 DEF IInv
<1>5. CASE handleSave
  <2> DEFINE d == form["create"].data
  <2>1. /\ form["create"].open /\ isValid("create") /\ changes' \in 0..MaxChanges
        /\ request' = [op |-> "create", id |-> 0, data |-> d, at |-> "sent"]
        /\ UNCHANGED <<animals, list, form, editing>>
    BY <1>5, LeavingOK DEF handleSave, Sends
  <2>2. AllComplete(d.tags) /\ AllComplete(d.drugs) /\ d.result # "partial" /\ DraftOK("create", d)
    BY <1>0, <2>1, ValidOK DEF FormOK
  <2>3. RequestOK(request') /\ request'.op = "create"
    BY <2>1, <2>2, SendsOK
  <2>4. QED
    BY <1>0, <2>1, <2>3 DEF IInv
<1>6. CASE handleUpdate
  <2> DEFINE d == form["edit"].data
  <2>1. /\ form["edit"].open /\ isValid("edit") /\ changes' \in 0..MaxChanges
        /\ request' = [op |-> "update", id |-> editing, data |-> d, at |-> "sent"]
        /\ form' = [form EXCEPT !["edit"] = Closed] /\ editing' = 0
        /\ UNCHANGED <<animals, list>>
    BY <1>6, LeavingOK DEF handleUpdate, Sends
  <2>2. AllComplete(d.tags) /\ AllComplete(d.drugs) /\ d.result # "partial" /\ DraftOK("create", d)
    BY <1>0, <2>1, ValidOK DEF FormOK, DraftOK
  <2>3. editing \in Animals /\ editing \in Nat
    BY <1>0, <2>1 DEF IInv
  <2>4. RequestOK(request') /\ request'.op = "update"
    BY <2>1, <2>2, <2>3, SendsOK
  <2>5. form' \in [Which -> Form] /\ \A v \in Which : FormOK(v, form'[v])
    BY <1>0, <2>1, CloseOK
  <2>6. ~form'["edit"].open
    BY <1>0, <2>1, EmptyOK
  <2>7. QED
    BY <1>0, <2>1, <2>4, <2>5, <2>6 DEF IInv
<1>7. ASSUME NEW a \in Animals, Delete(a) PROVE IInv'
  <2>1. /\ changes' \in 0..MaxChanges
        /\ request' = [op |-> "delete", id |-> a, data |-> NoAnimal, at |-> "sent"]
        /\ UNCHANGED <<animals, list, form, editing>>
    BY <1>7, LeavingOK DEF Delete, Sends
  <2>2. RequestOK(request') /\ request'.op = "delete"
    BY <1>0, <2>1, EmptyOK, SendsOK
  <2>3. QED
    BY <1>0, <2>1, <2>2 DEF IInv
<1>8. QED
  BY <1>1, <1>2, <1>3, <1>4, <1>5, <1>6, <1>7 DEF Officer, Change

\* The request under way goes from its sending to its answer.
LEMMA AnswersOK ==
    ASSUME NEW r, RequestOK(r)
    PROVE  RequestOK([r EXCEPT !.at = "done"]) /\ [r EXCEPT !.at = "done"].op = r.op
<1> DEFINE x == [r EXCEPT !.at = "done"]
<1>1. /\ x \in [op : {"none", "create", "update", "delete", "read"}, id : Nat, data : Animal,
                at : {"none", "sent", "done"}]
      /\ x.op = r.op /\ x.id = r.id /\ x.data = r.data
  BY DEF RequestOK
<1> HIDE DEF x
<1>2. RequestOK(x)
  BY <1>1 DEF RequestOK
<1>3. QED
  BY <1>1, <1>2 DEF x

LEMMA SavedAt ==
    ASSUME NEW kept, SavedOK(kept), NEW a, NEW x, KeptOK(x)
    PROVE  SavedOK([kept EXCEPT ![a] = x])
<1> DEFINE new == [kept EXCEPT ![a] = x]
<1>1. new \in [Animals -> Animal] /\ \A b \in Animals : new[b] = x \/ new[b] = kept[b]
  BY DEF SavedOK, KeptOK
<1> HIDE DEF new
<1>2. SavedOK(new)
  BY <1>1 DEF SavedOK, KeptOK
<1>3. QED
  BY <1>2 DEF new

LEMMA ServeOK ==
    ASSUME IInv, Serve
    PROVE  IInv'
<1>1. /\ request' = [request EXCEPT !.at = "done"]
      /\ UNCHANGED <<list, form, editing, changes>>
      /\ RequestOK(request) /\ SavedOK(animals)
  BY DEF Serve, Answers, IInv
<1>2. RequestOK(request') /\ request'.op = request.op
  BY <1>1, AnswersOK
<1>3. SavedOK(animals')
  <2>1. CASE /\ request.op = "create"
             /\ \E a \in Animals : animals' = [animals EXCEPT ![a] = Input(request.data)]
    <3>1. KeptOK(Input(request.data))
      BY <1>1, <2>1, InputOK DEF RequestOK
    <3>2. PICK a \in Animals : animals' = [animals EXCEPT ![a] = Input(request.data)]
      BY <2>1
    <3> DEFINE x == Input(request.data)
    <3>3. KeptOK(x) /\ animals' = [animals EXCEPT ![a] = x]
      BY <3>1, <3>2
    <3> HIDE DEF x
    <3>4. SavedOK([animals EXCEPT ![a] = x])
      BY <1>1, <3>3, SavedAt
    <3>5. QED
      BY <3>3, <3>4
  <2>2. CASE /\ request.op = "update"
             /\ \E kept \in {"none", animals[request.id].auth} :
                   animals' = [animals EXCEPT ![request.id] =
                       [Input(request.data) EXCEPT !.auth = IF @ = "none" THEN kept ELSE @]]
    <3>1. PICK kept \in {"none", animals[request.id].auth} :
             animals' = [animals EXCEPT ![request.id] =
                 [Input(request.data) EXCEPT
                      !.auth = IF Input(request.data).auth = "none" THEN kept ELSE Input(request.data).auth]]
      BY <2>2
    <3>2. animals[request.id] \in Animal
      BY <1>1, <2>2 DEF RequestOK, SavedOK
    <3>3. kept \in Authorizations
      BY <3>2 DEF Animal, Authorizations
    <3>4. KeptOK(Input(request.data)) /\ \A a \in Authorizations : KeptOK([Input(request.data) EXCEPT !.auth = a])
      BY <1>1, <2>2, InputOK DEF RequestOK
    <3>5. Input(request.data).auth \in Authorizations
      BY <3>4 DEF KeptOK, Animal
    <3> DEFINE auth == IF Input(request.data).auth = "none" THEN kept ELSE Input(request.data).auth
    <3>6. auth \in Authorizations
      BY <3>3, <3>5
    <3>7. KeptOK([Input(request.data) EXCEPT !.auth = auth])
      BY <3>4, <3>6
    <3>8. QED
      BY <1>1, <3>1, <3>7, SavedAt
  <2>3. CASE request.op = "delete" /\ animals' = [animals EXCEPT ![request.id] = NoAnimal]
    <3>1. KeptOK(NoAnimal)
      BY EmptyOK DEF KeptOK
    <3>2. QED
      BY <1>1, <2>3, <3>1, SavedAt
  <2>4. QED
    BY <2>1, <2>2, <2>3 DEF Serve
<1>4. QED
  BY <1>1, <1>2, <1>3 DEF IInv

LEMMA RestOK ==
    ASSUME IInv, Fails \/ ReceiveDone \/ Refresh \/ RefreshFails
    PROVE  IInv'
<1>1. CASE Fails \/ RefreshFails
  <2>1. /\ request' = NoRequest /\ changes' \in 0..MaxChanges
        /\ UNCHANGED <<animals, list, form, editing>>
    BY <1>1, LeavingOK DEF Fails, RefreshFails
  <2>2. QED
    BY <2>1, EmptyOK DEF IInv
<1>2. CASE ReceiveDone
  <2>1. /\ request' = [op |-> "read", id |-> 0, data |-> NoAnimal, at |-> "sent"]
        /\ form' = form \/ form' = [form EXCEPT !["create"] = Closed]
        /\ UNCHANGED <<animals, list, editing, changes>>
    BY <1>2 DEF ReceiveDone, Sends
  <2>2. RequestOK(request') /\ request'.op = "read"
    BY <2>1, EmptyOK, SendsOK DEF Which
  <2>3. form' \in [Which -> Form] /\ (\A v \in Which : FormOK(v, form'[v])) /\ form'["edit"] = form["edit"]
    <3>1. CASE form' = form
      BY <3>1 DEF IInv
    <3>2. CASE form' = [form EXCEPT !["create"] = Closed]
      <4>1. form \in [Which -> Form] /\ "create" \in Which /\ "edit" \in Which /\ "create" # "edit"
        BY DEF IInv, Which
      <4>2. QED
        BY <3>2, <4>1, CloseOK
    <3>3. QED
      BY <2>1, <3>1, <3>2
  <2>4. QED
    BY <2>1, <2>2, <2>3 DEF IInv
<1>3. CASE Refresh
  BY <1>3, EmptyOK DEF Refresh, IInv
<1>4. QED
  BY <1>1, <1>2, <1>3

LEMMA NextOK == IInv /\ [Next]_vars => IInv'
<1> SUFFICES ASSUME IInv, [Next]_vars PROVE IInv'
  OBVIOUS
<1>1. CASE Officer
  BY <1>1, OfficerOK
<1>2. CASE Serve
  BY <1>2, ServeOK
<1>3. CASE Fails \/ ReceiveDone \/ Refresh \/ RefreshFails
  BY <1>3, RestOK
<1>4. CASE UNCHANGED vars
  BY <1>4 DEF vars, IInv
<1>5. QED
  BY <1>1, <1>2, <1>3, <1>4 DEF Next

LEMMA Invariance == Spec => []IInv
BY InitOK, NextOK, PTL DEF Spec

----------------------------------------------------------------------------
(* The theorems. *)

\* What the section, its forms and the request hold is bounded as the run
\* assumes: no animal has more ear tags than ears, nor a number beyond them.
THEOREM TypeCorrect == Spec => []TypeOK
<1>1. ASSUME NEW items \in Seq(Sortable), NEW n \in Nat, Bounded(items, n)
      PROVE  Len(items) <= n /\ \A i \in DOMAIN items : items[i] \in Items(n)
  <2>1. ASSUME NEW i \in DOMAIN items PROVE items[i] \in Items(n)
    <3>1. items[i] \in Sortable /\ Len(items) \in Nat
      OBVIOUS
    <3>2. items[i].id \in 1..n /\ items[i].order \in 0..(n + 1)
      BY <1>1, <3>1 DEF Bounded, Sortable
    <3>3. items[i] = [id |-> items[i].id, order |-> items[i].order, complete |-> items[i].complete]
          /\ items[i].complete \in BOOLEAN
      BY <3>1 DEF Sortable
    <3>4. QED
      BY <3>2, <3>3 DEF Items
  <2>2. QED
    BY <1>1, <2>1 DEF Bounded
<1>2. ASSUME NEW d, DraftOK("create", d) PROVE IsAnimal(d)
  <2>1. /\ d \in Animal /\ d.tags \in Seq(Sortable) /\ d.drugs \in Seq(Sortable)
        /\ Bounded(d.tags, MaxTags) /\ Bounded(d.drugs, MaxDrugs) /\ MaxTags \in Nat /\ MaxDrugs \in Nat
    BY <1>2, AnimalAssumption DEF DraftOK, TagsOK, Animal, MaxTags
  <2>2. d.exists \in BOOLEAN /\ d.auth \in Authorizations /\ d.result \in Results
    BY <2>1 DEF Animal
  <2>3. Len(d.tags) <= MaxTags /\ \A i \in DOMAIN d.tags : d.tags[i] \in Items(MaxTags)
    BY <1>1, <2>1
  <2>4. Len(d.drugs) <= MaxDrugs /\ \A i \in DOMAIN d.drugs : d.drugs[i] \in Items(MaxDrugs)
    BY <1>1, <2>1
  <2>5. QED
    BY <2>2, <2>3, <2>4 DEF IsAnimal
<1>3. IInv => TypeOK
  <2> SUFFICES ASSUME IInv PROVE TypeOK
    OBVIOUS
  <2>1. \A a \in Animals : DraftOK("create", animals[a]) /\ DraftOK("create", list[a])
    BY DEF IInv, SavedOK, AnimalOK, DraftOK
  <2>2. \A w \in Which : form[w].open \in BOOLEAN /\ DraftOK("create", form[w].data)
    BY DEF IInv, FormOK, DraftOK, Form
  <2>3. /\ DraftOK("create", request.data) /\ request.at \in {"none", "sent", "done"}
        /\ request.op \in {"none", "create", "update", "delete", "read"}
    BY DEF IInv, RequestOK
  <2>4. \A a \in Animals : IsAnimal(animals[a]) /\ IsAnimal(list[a])
    BY <1>2, <2>1
  <2>5. \A w \in Which : form[w].open \in BOOLEAN /\ IsAnimal(form[w].data)
    BY <1>2, <2>2
  <2>6. IsAnimal(request.data)
    BY <1>2, <2>3
  <2>7. QED
    BY <2>3, <2>4, <2>5, <2>6 DEF TypeOK, IInv
<1>4. QED
  BY Invariance, <1>3, PTL

\* What the case API holds was validated, through references to components
\* that were drawn again and again.
THEOREM SavedIsCompleteThm == Spec => []SavedIsComplete
<1>1. IInv => SavedIsComplete
  BY DEF IInv, SavedOK, SavedIsComplete, ItemsComplete, AllComplete
<1>2. QED
  BY Invariance, <1>1, PTL

\* No reference that was left behind refuses an edited draft.
THEOREM EditsCanBeSavedThm == Spec => []EditsCanBeSaved
<1>1. IInv => EditsCanBeSaved
  <2> DEFINE d == form["edit"].data
  <2> SUFFICES ASSUME IInv, form["edit"].open, ItemsComplete(d), d.result # "partial",
                      d.drugs # <<>> => DisplayedAuthorization(d) = "ok"
               PROVE  isValid("edit")
    BY DEF EditsCanBeSaved
  <2>1. "edit" \in Which /\ FormOK("edit", form["edit"])
    BY DEF IInv, Which
  <2>2. AllComplete(d.tags) /\ AllComplete(d.drugs)
    BY DEF ItemsComplete, AllComplete
  <2>3. AuthorizationValid("edit", form["edit"].refs.auth)
    <3>1. RefsMatch(form["edit"])
      BY <2>1 DEF FormOK
    <3>2. CASE d.drugs # <<>>
      BY <3>1, <3>2 DEF RefsMatch, AuthorizationValid
    <3>3. CASE d.drugs = <<>>
      BY <3>1, <3>3 DEF RefsMatch, AuthorizationValid
    <3>4. QED
      BY <3>2, <3>3
  <2>4. QED
    BY <2>1, <2>2, <2>3, ValidOK
<1>2. QED
  BY Invariance, <1>1, PTL

\* A change leaves ear tags and drugs where the officer sees them.
THEOREM ShownInPlaceThm == Spec => ShownInPlace
<1> DEFINE Step == /\ \A w \in Which : StaysOpen(w) => SameOrder(form[w].data.tags, form'[w].data.tags)
                   /\ StaysOpen("edit") => SameOrder(form["edit"].data.drugs, form'["edit"].data.drugs)
<1>1. \A s : SameOrder(s, s)
  BY DEF SameOrder
<1>2. ASSUME \A w \in Which : form'[w] = form[w] \/ ~StaysOpen(w)
      PROVE  Step
  BY <1>1, <1>2 DEF Which
<1>3. ASSUME IInv, NEW v \in Which, Change(v) PROVE Step
  <2>1. PICK d : Follows(v, form[v].data, d) /\ Changes(v, d)
    BY <1>3, ChangeFollows
  <2>2. /\ form'[v].data.tags = d.tags /\ form'[v].data.drugs = d.drugs
        /\ \A w \in Which : w # v => form'[w] = form[w]
    BY <1>3, <2>1, ChangesOK
  <2>3. /\ SameOrder(form[v].data.tags, form'[v].data.tags)
        /\ v = "edit" => SameOrder(form[v].data.drugs, form'[v].data.drugs)
    BY <2>1, <2>2 DEF Follows
  <2>4. QED
    BY <1>1, <2>2, <2>3 DEF Which
<1>4. ASSUME IInv, [Next]_vars PROVE Step
  <2>0. form \in [Which -> Form] /\ "edit" \in Which /\ "create" \in Which /\ "edit" # "create"
        /\ \A w \in Which : w = "edit" \/ w = "create"
    BY <1>4 DEF IInv, Which
  <2>1. ASSUME NEW w \in Which, Cancel(w) PROVE Step
    <3>1. form' = [form EXCEPT ![w] = Closed]
      BY <2>1 DEF Cancel
    <3>2. ~form'[w].open /\ \A v \in Which : v # w => form'[v] = form[v]
      BY <2>0, <3>1, EmptyOK
    <3>3. QED
      BY <1>2, <3>2 DEF StaysOpen
  <2>2. CASE OpenCreate
    <3>1. ~form["create"].open /\ form'["edit"] = form["edit"]
      BY <2>0, <2>2 DEF OpenCreate
    <3>2. QED
      BY <1>2, <2>0, <3>1 DEF StaysOpen
  <2>3. ASSUME NEW a \in Animals, OpenEdit(a) PROVE Step
    <3>1. editing' # editing
      BY <2>3 DEF OpenEdit
    <3>2. QED
      BY <1>2, <3>1 DEF StaysOpen
  <2>4. CASE handleUpdate
    <3>1. form' = [form EXCEPT !["edit"] = Closed]
      BY <2>4 DEF handleUpdate
    <3>2. ~form'["edit"].open /\ form'["create"] = form["create"]
      BY <2>0, <3>1, EmptyOK
    <3>3. QED
      BY <1>2, <2>0, <3>2 DEF StaysOpen
  <2>5. CASE ReceiveDone
    <3>1. form' = form \/ form' = [form EXCEPT !["create"] = Closed]
      BY <2>5 DEF ReceiveDone
    <3>2. form'["edit"] = form["edit"] /\ (form'["create"] = form["create"] \/ ~form'["create"].open)
      BY <2>0, <3>1, EmptyOK
    <3>3. QED
      BY <1>2, <2>0, <3>2 DEF StaysOpen
  <2>6. CASE handleSave \/ (\E a \in Animals : Delete(a)) \/ Serve \/ Fails \/ Refresh \/ RefreshFails
    <3>1. form' = form
      BY <2>6 DEF handleSave, Delete, Serve, Fails, Refresh, RefreshFails
    <3>2. QED
      BY <1>2, <3>1
  <2>7. CASE UNCHANGED vars
    <3>1. form' = form
      BY <2>7 DEF vars
    <3>2. QED
      BY <1>2, <3>1
  <2>8. QED
    BY <1>3, <1>4, <2>1, <2>2, <2>3, <2>4, <2>5, <2>6, <2>7 DEF Next, Officer, Change
<1>5. IInv /\ [Next]_vars => [Step]_vars
  BY <1>4
<1>6. QED
  BY Invariance, <1>5, PTL DEF Spec, ShownInPlace

\* The drugs an edit saves are authorized where those it found were.
THEOREM AuthorizationStaysThm == Spec => AuthorizationStays
<1> DEFINE Step == (/\ Authorized(form["edit"].base)
                    /\ request'.op = "update" /\ request' # request /\ request'.data.drugs # <<>>)
                   => Authorized(request'.data)
<1>1. ASSUME IInv, [Next]_vars, Authorized(form["edit"].base),
             request'.op = "update", request' # request, request'.data.drugs # <<>>
      PROVE  Authorized(request'.data)
  <2>1. "edit" \in Which /\ FormOK("edit", form["edit"]) /\ RequestOK(request)
    BY <1>1 DEF IInv, Which
  <2>2. form["edit"].open
    <3>1. ~Authorized(Closed.base)
      BY DEF Authorized, Closed, NoAnimal
    <3>2. QED
      BY <1>1, <2>1, <3>1 DEF FormOK
  <2>3. request.op # "update"
    BY <1>1, <2>2 DEF IInv
  <2>4. ~Serve
    <3>1. Serve => request'.op = request.op
      BY <2>1, AnswersOK DEF Serve, Answers
    <3>2. QED
      BY <1>1, <2>3, <3>1
  <2>5. \A w \in Which : ~Change(w) /\ ~Cancel(w)
    <3>1. ASSUME NEW w \in Which, Change(w) PROVE FALSE
      <4>1. PICK d : Changes(w, d)
        BY <1>1, <3>1, ChangeFollows
      <4>2. request' = request
        BY <4>1 DEF Changes
      <4>3. QED
        BY <1>1, <4>2
    <3>2. ASSUME NEW w \in Which, Cancel(w) PROVE FALSE
      BY <1>1, <3>2 DEF Cancel
    <3>3. QED
      BY <3>1, <3>2
  <2>6. ~OpenCreate /\ ~handleSave /\ \A a \in Animals : ~OpenEdit(a) /\ ~Delete(a)
    BY <1>1 DEF OpenCreate, handleSave, OpenEdit, Delete, Sends
  <2>7. ~Fails /\ ~ReceiveDone /\ ~Refresh /\ ~RefreshFails
    BY <1>1, EmptyOK DEF Fails, ReceiveDone, Refresh, RefreshFails, Sends
  <2>8. handleUpdate
    <3>1. ~UNCHANGED vars
      BY <1>1 DEF vars
    <3>2. QED
      BY <1>1, <2>4, <2>5, <2>6, <2>7, <3>1 DEF Next, Officer, Change
  <2> DEFINE f == form["edit"]
  <2>9. isValid("edit") /\ request'.data = f.data
    BY <2>8 DEF handleUpdate, Sends
  <2>10. AuthorizationValid("edit", f.refs.auth)
    BY <2>9 DEF isValid
  <2>11. f.data.drugs # <<>> /\ RefsMatch(f) /\ f.data.auth # "none"
    BY <1>1, <2>1, <2>2, <2>9 DEF FormOK
  <2>12. f.refs.auth = f.data.auth
    BY <2>11 DEF RefsMatch, DisplayedAuthorization
  <2>13. f.data.auth \in Authorizations
    BY <2>1 DEF FormOK, Form, Animal
  <2>14. f.data.auth = "ok"
    BY <2>10, <2>12, <2>13 DEF AuthorizationValid, Authorizations
  <2>15. QED
    BY <2>9, <2>11, <2>14 DEF Authorized
<1>2. IInv /\ [Next]_vars => [Step]_vars
  BY <1>1
<1>3. QED
  BY Invariance, <1>2, PTL DEF Spec, AuthorizationStays
=============================================================================
