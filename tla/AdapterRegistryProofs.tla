----------------------- MODULE AdapterRegistryProofs -----------------------
(***************************************************************************)
(* The side table of native pools for any number of threads, keys, proxies  *)
(* and calls: the eviction order is that of the pools, no pool is forgotten, *)
(* no stale entry admits a send, the threads leave no mark behind, a live    *)
(* adapter keeps its entry, and the proof of the visible managers is current. *)
(***************************************************************************)
EXTENDS AdapterRegistry, Integers, FiniteSetTheorems, SequenceTheorems, TLAPS

----------------------------------------------------------------------------
(* Orders: lists of keys that hold no key twice.                             *)

Slots == Keys \cup {0}
Orders == {s \in Seq(Slots) : \A i, j \in 1..Len(s) : s[i] = s[j] => i = j}

\* A key leaves an order, and the others keep their places.
LEMMA RemoveFirstOrder ==
    ASSUME NEW s \in Orders, NEW k
    PROVE  /\ RemoveFirst(s, k) \in Orders
           /\ ToSet(RemoveFirst(s, k)) = ToSet(s) \ {k}
           /\ Len(RemoveFirst(s, k)) = IF k \in ToSet(s) THEN Len(s) - 1 ELSE Len(s)
  <1>1. /\ s \in Seq(Slots) /\ Len(s) \in Nat /\ DOMAIN s = 1..Len(s)
        /\ \A i, j \in 1..Len(s) : s[i] = s[j] => i = j
    BY LenProperties DEF Orders
  <1>2. CASE ~\E i \in 1..Len(s) : s[i] = k
    <2>1. RemoveFirst(s, k) = s
      BY <1>2 DEF RemoveFirst
    <2>2. k \notin ToSet(s)
      BY <1>1, <1>2 DEF ToSet
    <2> QED
      BY <2>1, <2>2
  <1>3. ASSUME NEW i \in 1..Len(s), s[i] = k
        PROVE  /\ RemoveFirst(s, k) \in Orders
               /\ ToSet(RemoveFirst(s, k)) = ToSet(s) \ {k}
               /\ Len(RemoveFirst(s, k)) = IF k \in ToSet(s) THEN Len(s) - 1 ELSE Len(s)
    <2>1. {j \in 1..Len(s) : s[j] = k} = {i}
      BY <1>1, <1>3
    <2>2. Min({i}) = i
      BY DEF Min
    <2>3. SelectInSeq(s, LAMBDA v : v = k) = i
      BY <2>1, <2>2 DEF SelectInSeq
    <2>4. RemoveFirst(s, k) = RemoveAt(s, i)
      BY <1>3, <2>3 DEF RemoveFirst
    <2> DEFINE a == SubSeq(s, 1, i - 1)
               b == SubSeq(s, i + 1, Len(s))
    <2>5. /\ a \in Seq(Slots) /\ Len(a) = i - 1 /\ \A j \in 1..(i - 1) : a[j] = s[j]
      <3>1. 1 \in Int /\ i - 1 \in Int /\ \A j \in 1..(i - 1) : s[j] \in Slots
        BY <1>1
      <3>2. /\ a \in Seq(Slots) /\ Len(a) = IF 1 <= i - 1 THEN i - 1 - 1 + 1 ELSE 0
            /\ \A j \in 1..(i - 1 - 1 + 1) : a[j] = s[1 + j - 1]
        BY <3>1, SubSeqProperties
      <3> HIDE DEF a
      <3> QED
        BY <3>2
    <2>6. /\ b \in Seq(Slots) /\ Len(b) = Len(s) - i /\ \A j \in 1..(Len(s) - i) : b[j] = s[i + j]
      <3>1. i + 1 \in Int /\ Len(s) \in Int /\ \A j \in (i + 1)..Len(s) : s[j] \in Slots
        BY <1>1
      <3>2. /\ b \in Seq(Slots) /\ Len(b) = IF i + 1 <= Len(s) THEN Len(s) - (i + 1) + 1 ELSE 0
            /\ \A j \in 1..(Len(s) - (i + 1) + 1) : b[j] = s[i + 1 + j - 1]
        BY <3>1, SubSeqProperties
      <3> HIDE DEF b
      <3>3. Len(b) = Len(s) - i
        <4>1. Len(s) \in Nat /\ i \in Nat /\ i <= Len(s)
          BY <1>1
        <4>2. CASE i + 1 <= Len(s)
          BY <3>2, <4>1, <4>2
        <4>3. CASE i = Len(s)
          BY <3>2, <4>1, <4>3
        <4> QED
          BY <4>1, <4>2, <4>3
      <3>4. ASSUME NEW j \in 1..(Len(s) - i) PROVE b[j] = s[i + j]
        <4>1. j \in 1..(Len(s) - (i + 1) + 1) /\ i + 1 + j - 1 = i + j
          BY <1>1
        <4> QED
          BY <3>2, <4>1
      <3> QED
        BY <3>2, <3>3, <3>4
    <2> HIDE DEF a, b
    <2> DEFINE c == a \o b
    <2>7. /\ c \in Seq(Slots) /\ Len(c) = Len(s) - 1
          /\ \A j \in 1..(Len(s) - 1) : c[j] = IF j <= i - 1 THEN a[j] ELSE b[j - (i - 1)]
      <3>1. /\ c \in Seq(Slots) /\ Len(c) = Len(a) + Len(b)
            /\ \A j \in 1..(Len(a) + Len(b)) : c[j] = IF j <= Len(a) THEN a[j] ELSE b[j - Len(a)]
        BY <2>5, <2>6, ConcatProperties, Zenon
      <3> HIDE DEF c
      <3> QED
        BY <1>1, <2>5, <2>6, <3>1
    <2>8. RemoveFirst(s, k) = c
      BY <2>4 DEF RemoveAt, a, b
    <2> HIDE DEF c
    <2>9. ASSUME NEW j \in 1..(Len(s) - 1) PROVE c[j] = s[IF j <= i - 1 THEN j ELSE j + 1]
      BY <1>1, <2>5, <2>6, <2>7
    <2>10. ASSUME NEW j \in 1..(Len(s) - 1), NEW m \in 1..(Len(s) - 1), c[j] = c[m] PROVE j = m
      <3> DEFINE J(x) == IF x <= i - 1 THEN x ELSE x + 1
      <3>1. J(j) \in 1..Len(s) /\ J(m) \in 1..Len(s)
        BY <1>1
      <3>2. s[J(j)] = s[J(m)]
        BY <2>9, <2>10
      <3>3. J(j) = J(m)
        BY <1>1, <3>1, <3>2
      <3> QED
        BY <3>3
    <2>11. c \in Orders
      BY <2>7, <2>10 DEF Orders
    <2>12. ASSUME NEW x \in ToSet(c) PROVE x \in ToSet(s) \ {k}
      <3>1. PICK j \in 1..(Len(s) - 1) : c[j] = x
        BY <2>7, LenProperties DEF ToSet
      <3>2. (IF j <= i - 1 THEN j ELSE j + 1) \in 1..Len(s) /\ (IF j <= i - 1 THEN j ELSE j + 1) # i
        BY <1>1
      <3> QED
        BY <1>1, <1>3, <2>9, <3>1, <3>2 DEF ToSet
    <2>13. ASSUME NEW x \in ToSet(s) \ {k} PROVE x \in ToSet(c)
      <3>1. PICK j \in 1..Len(s) : s[j] = x
        BY <1>1 DEF ToSet
      <3>2. j # i
        BY <1>3, <3>1
      <3> DEFINE m == IF j < i THEN j ELSE j - 1
      <3>3. m \in 1..(Len(s) - 1) /\ (IF m <= i - 1 THEN m ELSE m + 1) = j
        BY <1>1, <3>2
      <3>4. c[m] = x
        BY <2>9, <3>1, <3>3
      <3>5. DOMAIN c = 1..(Len(s) - 1)
        BY <2>7, LenProperties
      <3> QED
        BY <3>3, <3>4, <3>5 DEF ToSet
    <2>14. k \in ToSet(s)
      BY <1>1, <1>3 DEF ToSet
    <2>15. ToSet(c) = ToSet(s) \ {k}
      BY <2>12, <2>13
    <2> QED
      BY <2>7, <2>8, <2>11, <2>14, <2>15
  <1> QED
    BY <1>2, <1>3

\* A key that was not in the order is its last one.
LEMMA AppendOrder ==
    ASSUME NEW s \in Orders, NEW k \in Slots, k \notin ToSet(s)
    PROVE  /\ Append(s, k) \in Orders
           /\ ToSet(Append(s, k)) = ToSet(s) \cup {k}
           /\ Len(Append(s, k)) = Len(s) + 1
  <1> DEFINE c == Append(s, k)
  <1>1. /\ s \in Seq(Slots) /\ Len(s) \in Nat /\ DOMAIN s = 1..Len(s)
        /\ \A i, j \in 1..Len(s) : s[i] = s[j] => i = j
    BY LenProperties DEF Orders
  <1>2. /\ c \in Seq(Slots) /\ Len(c) = Len(s) + 1 /\ c[Len(s) + 1] = k
        /\ \A i \in 1..Len(s) : c[i] = s[i]
    BY <1>1, AppendProperties
  <1> HIDE DEF c
  <1>3. DOMAIN c = 1..(Len(s) + 1)
    BY <1>2, LenProperties
  <1>4. \A i \in 1..(Len(s) + 1) : i = Len(s) + 1 \/ i \in 1..Len(s)
    BY <1>1
  <1>5. \A i \in 1..Len(s) : s[i] # k
    BY <1>1 DEF ToSet
  <1>6. c \in Orders
    BY <1>1, <1>2, <1>4, <1>5 DEF Orders
  <1>7. Len(s) + 1 \in 1..(Len(s) + 1) /\ \A i \in 1..Len(s) : i \in 1..(Len(s) + 1)
    BY <1>1
  <1>8. ToSet(c) = ToSet(s) \cup {k}
    BY <1>1, <1>2, <1>3, <1>4, <1>7 DEF ToSet
  <1> QED
    BY <1>2, <1>6, <1>8 DEF c

\* The first n keys leave an order.
LEMMA SubSeqOrder ==
    ASSUME NEW s \in Orders, NEW n \in 0..Len(s)
    PROVE  /\ SubSeq(s, n + 1, Len(s)) \in Orders
           /\ ToSet(SubSeq(s, n + 1, Len(s))) = ToSet(s) \ {s[i] : i \in 1..n}
           /\ Len(SubSeq(s, n + 1, Len(s))) = Len(s) - n
  <1> DEFINE c == SubSeq(s, n + 1, Len(s))
  <1>1. /\ s \in Seq(Slots) /\ Len(s) \in Nat /\ DOMAIN s = 1..Len(s) /\ n \in Nat /\ n <= Len(s)
        /\ \A i, j \in 1..Len(s) : s[i] = s[j] => i = j
    BY LenProperties DEF Orders
  <1>2. /\ c \in Seq(Slots) /\ Len(c) = Len(s) - n
        /\ \A i \in 1..(Len(s) - n) : c[i] = s[n + i]
    BY <1>1, SubSeqProperties
  <1> HIDE DEF c
  <1>3. DOMAIN c = 1..(Len(s) - n)
    BY <1>2, LenProperties
  <1>4. \A i \in 1..(Len(s) - n) : n + i \in 1..Len(s) /\ n + i \notin 1..n
    BY <1>1
  <1>5. ASSUME NEW i \in 1..(Len(s) - n), NEW j \in 1..(Len(s) - n), c[i] = c[j] PROVE i = j
    <2>1. n + i = n + j
      BY <1>1, <1>2, <1>4, <1>5
    <2> QED
      BY <1>1, <2>1
  <1>6. c \in Orders
    BY <1>2, <1>5 DEF Orders
  <1>7. ASSUME NEW x \in ToSet(c) PROVE x \in ToSet(s) \ {s[i] : i \in 1..n}
    <2>1. PICK i \in 1..(Len(s) - n) : c[i] = x
      BY <1>3 DEF ToSet
    <2>2. s[n + i] = x /\ n + i \in 1..Len(s) /\ n + i \notin 1..n
      BY <1>2, <1>4, <2>1
    <2>3. \A j \in 1..n : j \in 1..Len(s)
      BY <1>1
    <2>4. \A j \in 1..n : s[j] # x
      BY <1>1, <2>2, <2>3
    <2> QED
      BY <1>1, <2>2, <2>4 DEF ToSet
  <1>8. ASSUME NEW x \in ToSet(s) \ {s[i] : i \in 1..n} PROVE x \in ToSet(c)
    <2>1. PICK i \in 1..Len(s) : s[i] = x
      BY <1>1 DEF ToSet
    <2>2. i \notin 1..n
      BY <1>8, <2>1
    <2>3. i - n \in 1..(Len(s) - n) /\ n + (i - n) = i
      BY <1>1, <2>2
    <2>4. c[i - n] = x
      BY <1>2, <2>1, <2>3
    <2> QED
      BY <1>3, <2>3, <2>4 DEF ToSet
  <1>9. ToSet(c) = ToSet(s) \ {s[i] : i \in 1..n}
    BY <1>7, <1>8
  <1> QED
    BY <1>2, <1>6, <1>9 DEF c

----------------------------------------------------------------------------
(* Types.                                                                    *)

Managers == [is : BOOLEAN, plain : BOOLEAN, keys : Orders, ver : Nat]
Views == [Realms -> Managers]
Pools == [key : Slots, id : Nat \ {0}]
RealmPools == [pools : SUBSET Pools, order : Orders]
Entries == [epoch : Nat \ {0}, adm : Nat, rev : Nat, ref : Nat \ {0}, mgr : Nat, proof : Views,
            realm : [Realms -> RealmPools]]

----------------------------------------------------------------------------
(* The pools of one realm.                                                   *)

\* The eviction order of a realm is a list of its pools, one for each key.
RealmOK(m) ==
    /\ IsFiniteSet(m.pools)
    /\ \A p, q \in m.pools : p.key = q.key => p = q
    /\ ToSet(m.order) = {p.key : p \in m.pools}
    /\ Len(m.order) = Cardinality(m.pools)
    /\ Cardinality(m.pools) <= PoolConnections

\* The pools that go when a key is admitted: none, or the least recently used one
\* of a realm that is full.
LEMMA EvictOne ==
    ASSUME NEW m \in RealmPools, RealmOK(m), NEW n, PoolConnections > 0,
           n = IF Cardinality(m.pools) < PoolConnections THEN 0
               ELSE Cardinality(m.pools) - PoolConnections + 1
    PROVE  LET gone == {m.order[i] : i \in 1..n}
               stay == {p \in m.pools : p.key \notin gone}
               order == SubSeq(m.order, n + 1, Len(m.order))
           IN  /\ n \in 0..1 /\ order \in Orders /\ IsFiniteSet(stay)
               /\ ToSet(order) = {p.key : p \in stay} /\ Len(order) = Cardinality(stay)
               /\ Cardinality(stay) < PoolConnections
  <1> DEFINE gone == {m.order[i] : i \in 1..n}
             stay == {p \in m.pools : p.key \notin gone}
             order == SubSeq(m.order, n + 1, Len(m.order))
  <1>1. m.pools \in SUBSET Pools /\ m.order \in Orders
    BY DEF RealmPools
  <1>2. /\ IsFiniteSet(m.pools) /\ \A p, q \in m.pools : p.key = q.key => p = q
        /\ ToSet(m.order) = {p.key : p \in m.pools}
        /\ Len(m.order) = Cardinality(m.pools) /\ Cardinality(m.pools) <= PoolConnections
    BY DEF RealmOK
  <1>3. Cardinality(m.pools) \in Nat /\ PoolConnections \in Nat
    BY <1>2, FS_CardinalityType, RegistryAssumption
  <1>4. n \in 0..1 /\ n \in 0..Len(m.order)
        /\ Cardinality(m.pools) - n < PoolConnections
    <2> DEFINE c == Cardinality(m.pools)
    <2>1. c \in Nat /\ PoolConnections \in Nat /\ c <= PoolConnections /\ Len(m.order) = c
          /\ PoolConnections > 0 /\ n = IF c < PoolConnections THEN 0 ELSE c - PoolConnections + 1
      BY <1>2, <1>3
    <2> HIDE DEF c
    <2>2. CASE c < PoolConnections
      BY <2>1, <2>2 DEF c
    <2>3. CASE c = PoolConnections
      BY <2>1, <2>3 DEF c
    <2> QED
      BY <2>1, <2>2, <2>3
  <1>5. /\ order \in Orders /\ ToSet(order) = ToSet(m.order) \ gone
        /\ Len(order) = Len(m.order) - n
    BY <1>1, <1>4, SubSeqOrder
  <1>6. ToSet(order) = {p.key : p \in stay}
    <2> HIDE DEF gone, order
    <2> QED
      BY <1>2, <1>5
  <1>7. IsFiniteSet(stay) /\ Cardinality(stay) = Cardinality(m.pools) - n
    <2>1. CASE n = 0
      <3>1. gone = {}
        BY <2>1
      <3>2. stay = m.pools
        BY <3>1
      <3> HIDE DEF stay, gone
      <3> QED
        BY <1>2, <1>3, <2>1, <3>2
    <2>2. CASE n = 1
      <3>1. gone = {m.order[1]}
        BY <2>2
      <3>2. m.order \in Seq(Slots) /\ 1 \in 1..Len(m.order)
        BY <1>1, <1>4, <2>2 DEF Orders
      <3>3. DOMAIN m.order = 1..Len(m.order)
        BY <3>2, LenProperties
      <3>4. m.order[1] \in ToSet(m.order)
        BY <3>2, <3>3 DEF ToSet
      <3>5. PICK p \in m.pools : p.key = m.order[1]
        BY <1>2, <3>4
      <3>6. stay = m.pools \ {p}
        BY <1>2, <3>1, <3>5
      <3>7. IsFiniteSet(m.pools \ {p}) /\ Cardinality(m.pools \ {p}) = Cardinality(m.pools) - 1
        BY <1>2, <3>5, FS_RemoveElement
      <3> HIDE DEF stay, gone
      <3> QED
        BY <2>2, <3>6, <3>7
    <2>3. n = 0 \/ n = 1
      BY <1>4
    <2> HIDE DEF stay, gone
    <2> QED
      BY <2>1, <2>2, <2>3
  <1> HIDE DEF gone, stay, order
  <1>8. /\ n \in 0..1 /\ order \in Orders /\ IsFiniteSet(stay)
        /\ ToSet(order) = {p.key : p \in stay} /\ Len(order) = Cardinality(stay)
        /\ Cardinality(stay) < PoolConnections
    BY <1>2, <1>4, <1>5, <1>6, <1>7
  <1> QED
    BY <1>8 DEF gone, stay, order

\* The admitted key becomes the most recently used one.
LEMMA TouchKnown ==
    ASSUME NEW o \in Orders, NEW k \in Slots, k \in ToSet(o), PoolConnections > 0
    PROVE  /\ TouchOrder(o, k) \in Orders /\ ToSet(TouchOrder(o, k)) = ToSet(o)
           /\ Len(TouchOrder(o, k)) = Len(o)
  <1> DEFINE q == RemoveFirst(o, k)
  <1>1. q \in Orders /\ ToSet(q) = ToSet(o) \ {k} /\ Len(q) = Len(o) - 1
    BY RemoveFirstOrder
  <1> HIDE DEF q
  <1>2. /\ Append(q, k) \in Orders /\ ToSet(Append(q, k)) = ToSet(q) \cup {k}
        /\ Len(Append(q, k)) = Len(q) + 1
    BY <1>1, AppendOrder
  <1>3. Len(o) \in Nat
    BY LenProperties DEF Orders
  <1>4. TouchOrder(o, k) = Append(q, k)
    BY DEF TouchOrder, q
  <1>5. ToSet(Append(q, k)) = ToSet(o)
    BY <1>1, <1>2
  <1> QED
    BY <1>1, <1>2, <1>3, <1>4, <1>5

\* A new key becomes the most recently used one.
LEMMA TouchNew ==
    ASSUME NEW o \in Orders, NEW k \in Slots, k \notin ToSet(o), PoolConnections > 0
    PROVE  /\ TouchOrder(o, k) \in Orders /\ ToSet(TouchOrder(o, k)) = ToSet(o) \cup {k}
           /\ Len(TouchOrder(o, k)) = Len(o) + 1
  <1> DEFINE q == RemoveFirst(o, k)
  <1>1. q \in Orders /\ ToSet(q) = ToSet(o) \ {k} /\ Len(q) = Len(o)
    BY RemoveFirstOrder
  <1> HIDE DEF q
  <1>2. /\ Append(q, k) \in Orders /\ ToSet(Append(q, k)) = ToSet(q) \cup {k}
        /\ Len(Append(q, k)) = Len(q) + 1
    BY <1>1, AppendOrder
  <1>3. TouchOrder(o, k) = Append(q, k)
    BY DEF TouchOrder, q
  <1>4. ToSet(Append(q, k)) = ToSet(o) \cup {k}
    BY <1>1, <1>2
  <1> QED
    BY <1>1, <1>2, <1>3, <1>4

\* The part of AdmitPool that is about one realm: what goes, what stays, what is new.
KnownKey(m, k) == \E p \in m.pools : p.key = k
Popped(m, k) == IF KnownKey(m, k) THEN 0 ELSE Excess(m)
Gone(m, k) == {m.order[i] : i \in 1..Popped(m, k)}
Stay(m, k) == {p \in m.pools : p.key \notin Gone(m, k)}
New(m, k, id) == IF KnownKey(m, k) \/ PoolConnections = 0 THEN {} ELSE {[key |-> k, id |-> id]}
Admitted(m, k, id) ==
    [pools |-> Stay(m, k) \cup New(m, k, id),
     order |-> TouchOrder(SubSeq(m.order, Popped(m, k) + 1, Len(m.order)), k)]

\* Admitting a key keeps the order of a realm that of its pools, and the realm within
\* pool_connections.
LEMMA RealmAdmits ==
    ASSUME NEW m \in RealmPools, RealmOK(m), NEW k \in Slots, NEW id \in Nat \ {0}
    PROVE  Admitted(m, k, id) \in RealmPools /\ RealmOK(Admitted(m, k, id))
  <1>1. m.pools \in SUBSET Pools /\ m.order \in Orders
    BY DEF RealmPools
  <1>2. /\ IsFiniteSet(m.pools) /\ \A p, q \in m.pools : p.key = q.key => p = q
        /\ ToSet(m.order) = {p.key : p \in m.pools}
        /\ Len(m.order) = Cardinality(m.pools) /\ Cardinality(m.pools) <= PoolConnections
    BY DEF RealmOK
  <1>3. Cardinality(m.pools) \in Nat /\ PoolConnections \in Nat /\ Len(m.order) \in Nat
    BY <1>2, FS_CardinalityType, RegistryAssumption
  <1> DEFINE o == SubSeq(m.order, Popped(m, k) + 1, Len(m.order))
             P == Stay(m, k) \cup New(m, k, id)
             O == TouchOrder(o, k)
  <1>4. Admitted(m, k, id) = [pools |-> P, order |-> O]
    BY DEF Admitted
  <1>5. ASSUME P \in SUBSET Pools, O \in Orders, IsFiniteSet(P),
               \A p, q \in P : p.key = q.key => p = q,
               ToSet(O) = {p.key : p \in P}, Len(O) = Cardinality(P),
               Cardinality(P) <= PoolConnections
        PROVE  Admitted(m, k, id) \in RealmPools /\ RealmOK(Admitted(m, k, id))
    <2> HIDE DEF P, O
    <2>1. Admitted(m, k, id).pools = P /\ Admitted(m, k, id).order = O
      BY <1>4
    <2>2. Admitted(m, k, id) \in RealmPools
      BY <1>4, <1>5 DEF RealmPools
    <2> QED
      BY <1>5, <2>1, <2>2 DEF RealmOK
  <1>6. CASE KnownKey(m, k)
    <2>1. Popped(m, k) = 0 /\ New(m, k, id) = {}
      BY <1>6 DEF Popped, New
    <2>2. Gone(m, k) = {}
      BY <2>1 DEF Gone
    <2>3. P = m.pools
      BY <2>1, <2>2 DEF Stay
    <2>4. o \in Orders /\ ToSet(o) = ToSet(m.order) /\ Len(o) = Len(m.order)
      <3>1. 0 \in 0..Len(m.order) /\ {m.order[i] : i \in 1..0} = {}
        BY <1>3
      <3>2. /\ SubSeq(m.order, 0 + 1, Len(m.order)) \in Orders
            /\ ToSet(SubSeq(m.order, 0 + 1, Len(m.order))) = ToSet(m.order) \ {m.order[i] : i \in 1..0}
            /\ Len(SubSeq(m.order, 0 + 1, Len(m.order))) = Len(m.order) - 0
        BY <1>1, <3>1, SubSeqOrder
      <3>3. o = SubSeq(m.order, 0 + 1, Len(m.order))
        BY <2>1
      <3>4. ToSet(m.order) \ {m.order[i] : i \in 1..0} = ToSet(m.order) /\ Len(m.order) - 0 = Len(m.order)
        BY <1>3, <3>1
      <3> HIDE DEF o
      <3> QED
        BY <3>2, <3>3, <3>4
    <2>5. k \in ToSet(o)
      BY <1>2, <1>6, <2>4 DEF KnownKey
    <2>6. PoolConnections > 0
      <3>1. m.pools # {}
        BY <1>6 DEF KnownKey
      <3>2. Cardinality(m.pools) # 0
        BY <1>2, <3>1, FS_EmptySet
      <3> QED
        BY <1>2, <1>3, <3>2
    <2> HIDE DEF o
    <2>7. O \in Orders /\ ToSet(O) = ToSet(o) /\ Len(O) = Len(o)
      BY <2>4, <2>5, <2>6, TouchKnown
    <2> HIDE DEF O, P
    <2> QED
      BY <1>1, <1>2, <1>5, <2>3, <2>4, <2>7
  <1>7. CASE ~KnownKey(m, k) /\ PoolConnections > 0
    <2>1. /\ New(m, k, id) = {[key |-> k, id |-> id]}
          /\ Popped(m, k) = IF Cardinality(m.pools) < PoolConnections THEN 0
                            ELSE Cardinality(m.pools) - PoolConnections + 1
      BY <1>3, <1>7 DEF Popped, New, Excess
    <2>2. /\ o \in Orders /\ IsFiniteSet(Stay(m, k))
          /\ ToSet(o) = {p.key : p \in Stay(m, k)} /\ Len(o) = Cardinality(Stay(m, k))
          /\ Cardinality(Stay(m, k)) < PoolConnections
      BY <1>7, <2>1, EvictOne DEF Stay, Gone
    <2>3. Stay(m, k) \subseteq m.pools /\ k \notin ToSet(o)
      BY <1>7, <2>2 DEF Stay, KnownKey
    <2> DEFINE x == [key |-> k, id |-> id]
    <2>4. x \in Pools /\ x.key = k /\ x \notin Stay(m, k)
      BY <1>7, <2>3 DEF Pools, KnownKey
    <2>5. P = Stay(m, k) \cup {x}
      BY <2>1
    <2> HIDE DEF o, x
    <2>6. O \in Orders /\ ToSet(O) = ToSet(o) \cup {k} /\ Len(O) = Len(o) + 1
      BY <1>7, <2>2, <2>3, TouchNew
    <2> HIDE DEF O, P
    <2>7. IsFiniteSet(P) /\ Cardinality(P) = Cardinality(Stay(m, k)) + 1
      BY <2>2, <2>4, <2>5, FS_AddElement
    <2>8. P \in SUBSET Pools
      BY <1>1, <2>3, <2>4, <2>5
    <2>9. \A p, q \in P : p.key = q.key => p = q
      <3>1. \A p \in Stay(m, k) : p \in m.pools /\ p.key # k
        BY <1>7, <2>3 DEF KnownKey
      <3> QED
        BY <1>2, <2>4, <2>5, <3>1
    <2>10. ToSet(O) = {p.key : p \in P}
      BY <2>2, <2>4, <2>5, <2>6
    <2>11. Len(O) = Cardinality(P) /\ Cardinality(P) <= PoolConnections
      <3>1. Cardinality(Stay(m, k)) \in Nat
        BY <2>2, FS_CardinalityType
      <3> QED
        BY <1>3, <2>2, <2>6, <2>7, <3>1
    <2> QED
      BY <1>5, <2>6, <2>7, <2>8, <2>9, <2>10, <2>11
  <1>8. CASE ~KnownKey(m, k) /\ PoolConnections = 0
    <2>1. Cardinality(m.pools) = 0
      BY <1>2, <1>3, <1>8
    <2>2. m.pools = {}
      BY <1>2, <2>1, FS_EmptySet
    <2>3. P = {}
      BY <1>8, <2>2 DEF Stay, New
    <2>4. Popped(m, k) = 0
      BY <1>8 DEF Popped, Excess
    <2>5. ToSet(m.order) = {}
      BY <1>2, <2>2
    <2>6. o \in Orders /\ ToSet(o) = {} /\ Len(o) = 0
      <3>1. 0 \in 0..Len(m.order)
        BY <1>3
      <3>2. /\ SubSeq(m.order, 0 + 1, Len(m.order)) \in Orders
            /\ ToSet(SubSeq(m.order, 0 + 1, Len(m.order))) = ToSet(m.order) \ {m.order[i] : i \in 1..0}
            /\ Len(SubSeq(m.order, 0 + 1, Len(m.order))) = Len(m.order) - 0
        BY <1>1, <3>1, SubSeqOrder
      <3>3. o = SubSeq(m.order, 0 + 1, Len(m.order))
        BY <2>4
      <3> HIDE DEF o
      <3>4. Len(o) = 0
        BY <1>2, <1>3, <2>1, <3>2, <3>3
      <3> QED
        BY <2>5, <3>2, <3>3, <3>4
    <2> HIDE DEF o
    <2>7. O = RemoveFirst(o, k)
      BY <1>8 DEF TouchOrder
    <2>8. O \in Orders /\ ToSet(O) = {} /\ Len(O) = 0
      BY <2>6, <2>7, RemoveFirstOrder
    <2> HIDE DEF O, P
    <2>9. IsFiniteSet(P) /\ Cardinality(P) = 0
      BY <2>3, FS_EmptySet
    <2> QED
      BY <1>3, <1>5, <2>3, <2>8, <2>9
  <1> QED
    BY <1>3, <1>6, <1>7, <1>8

----------------------------------------------------------------------------
(* Type correctness.                                                         *)

PCs == {"idle", "admit", "begin", "native", "insert", "commit", "drop", "unreserve", "inner",
        "proof", "verify", "lookup", "select", "connect", "observe", "record", "sent", "raise",
        "compat", "panic", "dropTable", "closeOwner", "closeRead", "closeTake", "detach",
        "detachDrop", "replace", "exit", "reap"}
Calls == {"none", "send", "close", "nativeClose", "setstate", "elsewhere"}
Locals == [pc : PCs, op : Calls, realm : Realms, key : Slots, epoch : Nat, rev : Nat, adm : Nat,
           ref : Nat, mgr : Nat, has : BOOLEAN, then : {"none", "registration", "send"},
           seen : Views, left : Int]
Reservations == [by : SUBSET Threads, depth : Int, disturbed : BOOLEAN]

RegistryTypeOK ==
    /\ table \in Entries \cup {NoEntry}
    /\ registry \in Nat
    /\ accesses \in [Threads -> Int] /\ transitions \in [Threads -> Int]
    /\ reservation \in Reservations
    /\ visible \in Views /\ manager \in Nat /\ retired \in Seq(Views)
    /\ life \in {"live", "dead", "closed", "freed"}
    /\ at \in [Threads -> Locals]
    /\ made \in Nat /\ cleared \in SUBSET Nat /\ nextEpoch \in Nat \ {0} /\ ops \in Nat

\* An adapter's managers when it has been constructed, and a thread outside of it.
LEMMA StartTypes == Fresh \in Views /\ Idle \in Locals /\ NoPools \in RealmPools /\ <<>> \in Orders
  <1>1. <<>> \in Orders
    BY DEF Orders
  <1>2. \A r \in Realms : [is |-> r = Direct, plain |-> TRUE, keys |-> <<>>, ver |-> 0] \in Managers
    BY <1>1 DEF Managers
  <1>3. Fresh \in Views
    BY <1>2 DEF Fresh, Views
  <1>4. Idle \in Locals
    <2>1. Direct \in Realms /\ 0 \in Slots
      BY RegistryAssumption DEF Slots
    <2> QED
      BY <1>3, <2>1 DEF Idle, Locals, PCs, Calls
  <1>5. NoPools \in RealmPools
    BY <1>1 DEF NoPools, RealmPools
  <1> QED
    BY <1>1, <1>3, <1>4, <1>5

\* The entry of the table is none, or one with all its parts.
LEMMA EntryParts ==
    ASSUME RegistryTypeOK, table # NoEntry
    PROVE  /\ table \in Entries /\ table.epoch \in Nat \ {0} /\ table.adm \in Nat
           /\ table.rev \in Nat /\ table.ref \in Nat \ {0} /\ table.mgr \in Nat
           /\ table.proof \in Views /\ table.realm \in [Realms -> RealmPools]
  BY DEF RegistryTypeOK, Entries

\* A thread's locals.
LEMMA LocalParts ==
    ASSUME RegistryTypeOK, NEW t \in Threads
    PROVE  /\ at[t] \in Locals /\ at[t].pc \in PCs /\ at[t].op \in Calls /\ at[t].realm \in Realms
           /\ at[t].key \in Slots /\ at[t].epoch \in Nat /\ at[t].rev \in Nat /\ at[t].adm \in Nat
           /\ at[t].ref \in Nat /\ at[t].mgr \in Nat /\ at[t].has \in BOOLEAN
           /\ at[t].then \in {"none", "registration", "send"} /\ at[t].seen \in Views
           /\ at[t].left \in Int
  BY DEF RegistryTypeOK, Locals

\* Only thread t moves, and the call it is in stays what it was.
Moves(t) == at' = [at EXCEPT ![t] = at'[t]] /\ at'[t] \in Locals
SameCall(t) == at'[t].op = at[t].op /\ at'[t].realm = at[t].realm /\ at'[t].key = at[t].key

\* The others stay where they are.
LEMMA MovesOne ==
    ASSUME RegistryTypeOK, NEW t \in Threads, Moves(t)
    PROVE  at' \in [Threads -> Locals] /\ \A u \in Threads : u # t => at'[u] = at[u]
  BY DEF Moves, RegistryTypeOK

\* A thread goes to another place with the locals it has.
LEMMA GoEffect ==
    ASSUME RegistryTypeOK, NEW t \in Threads, NEW p \in PCs, Go(t, p)
    PROVE  /\ Moves(t) /\ SameCall(t) /\ at'[t].pc = p /\ at'[t].epoch = at[t].epoch
           /\ at'[t].ref = at[t].ref /\ at'[t].mgr = at[t].mgr /\ at'[t].then = at[t].then
  <1> DEFINE d == [at[t] EXCEPT !.pc = p]
  <1>1. at[t] \in Locals
    BY LocalParts
  <1>2. /\ d \in Locals /\ d.pc = p /\ d.op = at[t].op /\ d.realm = at[t].realm
        /\ d.key = at[t].key /\ d.epoch = at[t].epoch /\ d.ref = at[t].ref /\ d.mgr = at[t].mgr
        /\ d.then = at[t].then
    BY <1>1 DEF Locals
  <1>3. at' = [at EXCEPT ![t] = d]
    BY DEF Go
  <1> HIDE DEF d
  <1>4. at'[t] = d
    BY <1>3 DEF RegistryTypeOK
  <1> QED
    BY <1>2, <1>3, <1>4 DEF Moves, SameCall

\* A thread leaves the adapter.
LEMMA LeaveEffect ==
    ASSUME RegistryTypeOK, NEW t \in Threads, Leave(t)
    PROVE  /\ Moves(t) /\ at'[t] = Idle /\ at'[t].pc = "idle" /\ at'[t].op = "none"
           /\ at'[t].then = "none" /\ Idle.pc = "idle" /\ Idle.op = "none" /\ Idle.then = "none"
  <1>1. at'[t] = Idle /\ at' = [at EXCEPT ![t] = Idle]
    BY DEF Leave, RegistryTypeOK
  <1>2. Idle.pc = "idle" /\ Idle.op = "none" /\ Idle.then = "none"
    BY DEF Idle
  <1>3. Idle \in Locals
    BY StartTypes
  <1> QED
    BY <1>1, <1>2, <1>3 DEF Moves

\* A thread takes other locals.
LEMMA SetEffect ==
    ASSUME RegistryTypeOK, NEW t \in Threads, NEW d \in Locals, at' = [at EXCEPT ![t] = d]
    PROVE  Moves(t) /\ at'[t] = d
  BY DEF RegistryTypeOK, Moves

\* A send or a close begins.
LEMMA EnterEffect ==
    ASSUME RegistryTypeOK, NEW t \in Threads, NEW op \in {"send", "close"}, EnterAccess(t, op)
    PROVE  /\ Moves(t) /\ at'[t].op = op
           /\ at'[t].pc = IF Allowed THEN "admit" ELSE "compat"
  <1>1. PICK r \in IF op = "send" THEN Realms ELSE {Direct}, k \in IF op = "send" THEN Keys ELSE {0} :
          at' = [at EXCEPT ![t] = [Idle EXCEPT !.pc = IF Allowed THEN "admit" ELSE "compat",
                                               !.op = op, !.realm = r, !.key = k]]
    BY DEF EnterAccess
  <1>2. r \in Realms /\ k \in Slots
    BY RegistryAssumption DEF Slots
  <1> DEFINE p == IF Allowed THEN "admit" ELSE "compat"
             d == [Idle EXCEPT !.pc = p, !.op = op, !.realm = r, !.key = k]
  <1>3. p \in PCs /\ op \in Calls /\ Idle \in Locals
    BY StartTypes DEF PCs, Calls
  <1> HIDE DEF p
  <1>4. d \in Locals /\ d.pc = p /\ d.op = op
    BY <1>2, <1>3 DEF Locals
  <1>5. at' = [at EXCEPT ![t] = d]
    BY <1>1 DEF p
  <1> HIDE DEF d
  <1>6. Moves(t) /\ at'[t] = d
    BY <1>4, <1>5, SetEffect
  <1> QED
    BY <1>4, <1>6 DEF p

\* A registration is over.
LEMMA ResumeEffect ==
    ASSUME RegistryTypeOK, NEW t \in Threads, Resume(t)
    PROVE  /\ Moves(t)
           /\ at[t].op # "setstate" => at'[t].pc = "inner" /\ SameCall(t)
           /\ at[t].op = "setstate" => at'[t] = Idle /\ at'[t].pc = "idle" /\ at'[t].op = "none"
  <1>1. CASE at[t].op = "setstate"
    <2>1. at' = [at EXCEPT ![t] = Idle]
      BY <1>1 DEF Resume, Purpose
    <2> QED
      BY <1>1, <2>1, LeaveEffect DEF Leave
  <1>2. CASE at[t].op # "setstate"
    <2>1. Go(t, "inner")
      BY <1>2 DEF Resume, Purpose, Go
    <2>2. "inner" \in PCs
      BY DEF PCs
    <2> QED
      BY <1>2, <2>1, <2>2, GoEffect
  <1> QED
    BY <1>1, <1>2

\* The extension looks at the adapter that is to be registered.
LEMMA RegisterNativeEffect ==
    ASSUME RegistryTypeOK, NEW t \in Threads, RegisterNative(t)
    PROVE  /\ Moves(t) /\ SameCall(t)
           /\ table # NoEntry => at'[t].pc = "proof" /\ at'[t].then = "registration"
           /\ table = NoEntry =>
                /\ at'[t].pc \in {"unreserve", "insert"} /\ at'[t].mgr = manager /\ at'[t].seen = visible
                /\ at'[t].pc = "insert" =>
                     DirectIsPlain /\ \A r \in Realms \ {Direct} : ~visible[r].is
  <1>1. at[t] \in Locals /\ visible \in Views /\ manager \in Nat /\ ProofAttempts \in Int
    BY LocalParts, RegistryAssumption DEF RegistryTypeOK
  <1>2. CASE table # NoEntry
    <2> DEFINE d == [at[t] EXCEPT !.pc = "proof", !.then = "registration", !.left = ProofAttempts]
    <2>1. /\ d \in Locals /\ d.pc = "proof" /\ d.then = "registration"
          /\ d.op = at[t].op /\ d.realm = at[t].realm /\ d.key = at[t].key
      BY <1>1 DEF Locals, PCs
    <2>2. at' = [at EXCEPT ![t] = d]
      BY <1>2 DEF RegisterNative
    <2> HIDE DEF d
    <2> QED
      BY <1>2, <2>1, <2>2, SetEffect DEF SameCall
  <1>3. CASE table = NoEntry
    <2> DEFINE p == IF ~DirectIsPlain \/ \E r \in Realms \ {Direct} : visible[r].is
                    THEN "unreserve" ELSE "insert"
               d == [at[t] EXCEPT !.pc = p, !.mgr = manager, !.seen = visible]
    <2>1. /\ p \in {"unreserve", "insert"} /\ p \in PCs
          /\ p = "insert" => DirectIsPlain /\ \A r \in Realms \ {Direct} : ~visible[r].is
      BY DEF PCs
    <2>2. at' = [at EXCEPT ![t] = d]
      BY <1>3 DEF RegisterNative
    <2> HIDE DEF p
    <2>3. /\ d \in Locals /\ d.pc = p /\ d.mgr = manager /\ d.seen = visible
          /\ d.op = at[t].op /\ d.realm = at[t].realm /\ d.key = at[t].key
      BY <1>1, <2>1 DEF Locals
    <2> HIDE DEF d
    <2> QED
      BY <1>3, <2>1, <2>2, <2>3, SetEffect DEF SameCall
  <1> QED
    BY <1>2, <1>3

\* The entry is in the table.
LEMMA InsertEffect ==
    ASSUME RegistryTypeOK, NEW t \in Threads, InsertEntry(t)
    PROVE  Moves(t) /\ SameCall(t) /\ at'[t].pc = "commit" /\ at'[t].ref = nextEpoch
  <1> DEFINE d == [at[t] EXCEPT !.pc = "commit", !.ref = nextEpoch]
  <1>1. at[t] \in Locals /\ nextEpoch \in Nat
    BY LocalParts DEF RegistryTypeOK
  <1>2. /\ d \in Locals /\ d.pc = "commit" /\ d.ref = nextEpoch
        /\ d.op = at[t].op /\ d.realm = at[t].realm /\ d.key = at[t].key
    BY <1>1 DEF Locals, PCs
  <1>3. at' = [at EXCEPT ![t] = d]
    BY <1>1 DEF InsertEntry, RegistryTypeOK
  <1> HIDE DEF d
  <1> QED
    BY <1>2, <1>3, SetEffect DEF SameCall

\* The inner owner_access: a send goes to the proof of its managers, or is not native.
LEMMA EnterInnerEffect ==
    ASSUME RegistryTypeOK, NEW t \in Threads, EnterInner(t)
    PROVE  /\ Moves(t) /\ SameCall(t) /\ at'[t].then = "send"
           /\ at'[t].pc = IF Allowed /\ at[t].op = "send" THEN "proof" ELSE "compat"
  <1> DEFINE p == IF Allowed /\ at[t].op = "send" THEN "proof" ELSE "compat"
             d == [at[t] EXCEPT !.pc = p, !.then = "send", !.left = ProofAttempts]
  <1>1. at[t] \in Locals /\ p \in PCs /\ ProofAttempts \in Int
    BY LocalParts, RegistryAssumption DEF PCs
  <1>2. at' = [at EXCEPT ![t] = d]
    BY DEF EnterInner, RegistryTypeOK
  <1> HIDE DEF p
  <1>3. /\ d \in Locals /\ d.pc = p /\ d.then = "send"
        /\ d.op = at[t].op /\ d.realm = at[t].realm /\ d.key = at[t].key
    BY <1>1 DEF Locals
  <1> HIDE DEF d
  <1>4. Moves(t) /\ at'[t] = d
    BY <1>2, <1>3, SetEffect
  <1> QED
    BY <1>3, <1>4 DEF SameCall, p

\* The proof is copied from the entry, or the managers are not compared.
LEMMA CopyProofEffect ==
    ASSUME RegistryTypeOK, NEW t \in Threads, CopyProof(t)
    PROVE  /\ Moves(t) /\ SameCall(t) /\ at'[t].then = at[t].then
           /\ \/ at'[t].pc = ProofFallback(t)
              \/ /\ at'[t].pc = "verify" /\ table # NoEntry /\ at'[t].ref = table.ref
                 /\ at'[t].seen = table.proof
  <1>1. at[t] \in Locals
    BY LocalParts
  <1>2. CASE table = NoEntry \/ at[t].left = 0
    <2>1. Go(t, ProofFallback(t)) /\ ProofFallback(t) \in PCs
      BY <1>2 DEF CopyProof, Go, ProofFallback, PCs
    <2> QED
      BY <2>1, GoEffect
  <1>3. CASE ~(table = NoEntry \/ at[t].left = 0)
    <2> DEFINE d == [at[t] EXCEPT !.pc = "verify", !.epoch = table.epoch, !.rev = table.rev,
                                  !.mgr = table.mgr, !.ref = table.ref, !.seen = table.proof]
    <2>1. /\ table.epoch \in Nat /\ table.rev \in Nat /\ table.mgr \in Nat /\ table.ref \in Nat
          /\ table.proof \in Views
      BY <1>3, EntryParts
    <2>2. /\ d \in Locals /\ d.pc = "verify" /\ d.ref = table.ref /\ d.then = at[t].then
          /\ d.seen = table.proof
          /\ d.op = at[t].op /\ d.realm = at[t].realm /\ d.key = at[t].key
      BY <1>1, <2>1 DEF Locals, PCs
    <2>3. at' = [at EXCEPT ![t] = d]
      BY <1>3 DEF CopyProof
    <2> HIDE DEF d
    <2> QED
      BY <1>3, <2>2, <2>3, SetEffect DEF SameCall
  <1> QED
    BY <1>2, <1>3

\* The managers have been compared with the proof.
LEMMA VerifyProofEffect ==
    ASSUME RegistryTypeOK, NEW t \in Threads, VerifyProof(t)
    PROVE  /\ Moves(t) /\ SameCall(t) /\ at'[t].then = at[t].then /\ at'[t].ref = at[t].ref
           /\ \/ at'[t].pc = ProofFallback(t) \/ at'[t].pc = "proof"
              \/ /\ at'[t].pc = IF at[t].then = "send" THEN "lookup" ELSE "commit"
                 /\ ManagersPristine(at[t].seen)
  <1>1. at[t] \in Locals
    BY LocalParts
  <1>2. ProofFallback(t) \in PCs /\ "lookup" \in PCs /\ "commit" \in PCs
    BY DEF ProofFallback, PCs
  <1>3. CASE ~(table = NoEntry \/ table.epoch # at[t].epoch) /\ table.rev # at[t].rev
    <2> DEFINE n == at[t].left - 1
               d == [at[t] EXCEPT !.pc = "proof", !.left = n]
    <2>0. n \in Int
      BY LocalParts
    <2> HIDE DEF n
    <2>1. /\ d \in Locals /\ d.pc = "proof" /\ d.ref = at[t].ref /\ d.then = at[t].then
          /\ d.op = at[t].op /\ d.realm = at[t].realm /\ d.key = at[t].key
      BY <1>1, <2>0 DEF Locals, PCs
    <2>2. at' = [at EXCEPT ![t] = d]
      BY <1>3 DEF VerifyProof, n
    <2> HIDE DEF d
    <2> QED
      BY <2>1, <2>2, SetEffect DEF SameCall
  <1>4. CASE table = NoEntry \/ table.epoch # at[t].epoch
    <2>1. Go(t, ProofFallback(t))
      BY <1>4 DEF VerifyProof, Go
    <2> QED
      BY <1>2, <2>1, GoEffect
  <1>5. CASE ~(table = NoEntry \/ table.epoch # at[t].epoch) /\ table.rev = at[t].rev
    <2> DEFINE p == IF at[t].mgr # manager \/ ~ManagersPristine(at[t].seen) THEN ProofFallback(t)
                    ELSE IF at[t].then = "send" THEN "lookup" ELSE "commit"
    <2>1. p \in PCs
      BY <1>2
    <2>2. Go(t, p)
      BY <1>5 DEF VerifyProof, Go
    <2>3. \/ p = ProofFallback(t)
          \/ p = (IF at[t].then = "send" THEN "lookup" ELSE "commit") /\ ManagersPristine(at[t].seen)
      OBVIOUS
    <2> HIDE DEF p
    <2> QED
      BY <2>1, <2>2, <2>3, GoEffect
  <1> QED
    BY <1>3, <1>4, <1>5

\* The first locked section of adapter_pool has read the entry.
LEMMA LookupEffect ==
    ASSUME RegistryTypeOK, NEW t \in Threads, LookupPool(t)
    PROVE  /\ Moves(t) /\ SameCall(t) /\ at'[t].pc \in {"compat", "select"}
           /\ at'[t].pc = "select" =>
                /\ table # NoEntry /\ at'[t].epoch = table.epoch
                /\ at'[t].has = \E p \in table.realm[at[t].realm].pools : p.key = at[t].key
  <1>1. at[t] \in Locals
    BY LocalParts
  <1>2. CASE table = NoEntry \/ table.mgr # manager
    <2>1. Go(t, "compat") /\ "compat" \in PCs /\ "compat" # "select"
      BY <1>2 DEF LookupPool, Go, PCs
    <2> QED
      BY <2>1, GoEffect
  <1>3. CASE ~(table = NoEntry \/ table.mgr # manager)
    <2> DEFINE h == \E p \in table.realm[at[t].realm].pools : p.key = at[t].key
               d == [at[t] EXCEPT !.pc = "select", !.epoch = table.epoch, !.mgr = table.mgr, !.has = h]
    <2>1. table.epoch \in Nat /\ table.mgr \in Nat
      BY <1>3, EntryParts
    <2>2. at' = [at EXCEPT ![t] = d]
      BY <1>3 DEF LookupPool
    <2>3. h \in BOOLEAN
      OBVIOUS
    <2> HIDE DEF h
    <2>4. /\ d \in Locals /\ d.pc = "select" /\ d.epoch = table.epoch /\ d.has = h
          /\ d.op = at[t].op /\ d.realm = at[t].realm /\ d.key = at[t].key
      BY <1>1, <2>1, <2>3 DEF Locals, PCs
    <2> HIDE DEF d
    <2>5. Moves(t) /\ at'[t] = d
      BY <2>2, <2>4, SetEffect
    <2>6. at'[t].has = h /\ at'[t].pc = "select" /\ at'[t].epoch = table.epoch /\ SameCall(t)
      BY <2>4, <2>5 DEF SameCall
    <2> QED
      BY <1>3, <2>5, <2>6, Zenon DEF h
  <1> QED
    BY <1>2, <1>3

\* The send is native; the visible pools have changed.
LEMMA ConnectEffect ==
    ASSUME RegistryTypeOK, NEW t \in Threads, ConnectManager(t)
    PROVE  Moves(t) /\ SameCall(t) /\ at'[t].pc = "observe"
  <1> DEFINE d == [at[t] EXCEPT !.pc = "observe", !.mgr = manager, !.left = ProofAttempts]
  <1>1. at[t] \in Locals /\ manager \in Nat /\ ProofAttempts \in Int
    BY LocalParts, RegistryAssumption DEF RegistryTypeOK
  <1>2. /\ d \in Locals /\ d.pc = "observe"
        /\ d.op = at[t].op /\ d.realm = at[t].realm /\ d.key = at[t].key
    BY <1>1 DEF Locals, PCs
  <1>3. at' = [at EXCEPT ![t] = d]
    BY <1>1 DEF ConnectManager, RegistryTypeOK
  <1> HIDE DEF d
  <1> QED
    BY <1>2, <1>3, SetEffect DEF SameCall

\* What an entry observes of its managers is a view of them.
LEMMA ObserveTypes == RegistryTypeOK => \A m : Observe(m) \in Views
  BY DEF RegistryTypeOK, Observe

\* The visible managers have been observed.
LEMMA ObserveEffect ==
    ASSUME RegistryTypeOK, NEW t \in Threads, ObserveManagers(t)
    PROVE  /\ Moves(t) /\ SameCall(t)
           /\ \/ at'[t].pc = "raise"
              \/ /\ at'[t].pc = "record" /\ table # NoEntry /\ at'[t].epoch = table.epoch
                 /\ at'[t].rev = table.rev /\ at'[t].seen = Observe(table.mgr)
                 /\ at[t].realm # Direct => table.mgr = manager /\ ProxiesAreCanonical
  <1> DEFINE bad == \/ table = NoEntry \/ table.epoch # at[t].epoch \/ at[t].left = 0
                    \/ at[t].realm = Direct /\ table.mgr # at[t].mgr
                    \/ at[t].realm # Direct /\ (table.mgr # manager \/ ~ProxiesAreCanonical)
             o == Observe(table.mgr)
  <1>1. at[t] \in Locals /\ o \in Views
    BY LocalParts, ObserveTypes
  <1>2. CASE bad
    <2>1. Go(t, "raise") /\ "raise" \in PCs
      BY <1>2 DEF ObserveManagers, PCs
    <2> QED
      BY <2>1, GoEffect
  <1>3. CASE ~bad
    <2> DEFINE d == [at[t] EXCEPT !.pc = "record", !.rev = table.rev, !.seen = o]
    <2>1. /\ table # NoEntry /\ table.epoch = at[t].epoch
          /\ at[t].realm # Direct => table.mgr = manager /\ ProxiesAreCanonical
      BY <1>3
    <2>2. table.rev \in Nat
      BY <2>1, EntryParts
    <2>3. at' = [at EXCEPT ![t] = d]
      BY <1>1, <1>3 DEF ObserveManagers, RegistryTypeOK
    <2> HIDE DEF o
    <2>4. /\ d \in Locals /\ d.pc = "record" /\ d.rev = table.rev /\ d.seen = o
          /\ d.epoch = at[t].epoch
          /\ d.op = at[t].op /\ d.realm = at[t].realm /\ d.key = at[t].key
      BY <1>1, <2>2 DEF Locals, PCs
    <2> HIDE DEF d, bad
    <2> QED
      BY <2>1, <2>3, <2>4, SetEffect DEF SameCall, o
  <1> QED
    BY <1>2, <1>3

\* The proof is recorded, or the managers have to be observed again.
LEMMA RecordEffect ==
    ASSUME RegistryTypeOK, NEW t \in Threads, RecordProof(t)
    PROVE  /\ Moves(t) /\ SameCall(t) /\ at'[t].pc \in {"raise", "observe", "sent"}
           /\ \/ UNCHANGED native
              \/ /\ table # NoEntry /\ table.epoch = at[t].epoch /\ table.rev = at[t].rev
                 /\ table' = [table EXCEPT !.proof = Recorded(t), !.rev = @ + 1]
                 /\ UNCHANGED <<made, cleared, nextEpoch>>
  <1>1. at[t] \in Locals /\ {"raise", "observe", "sent"} \subseteq PCs
    BY LocalParts DEF PCs
  <1>2. CASE table = NoEntry \/ table.epoch # at[t].epoch
    <2>1. Go(t, "raise") /\ UNCHANGED native
      BY <1>2 DEF RecordProof
    <2> QED
      BY <1>1, <2>1, GoEffect
  <1>3. CASE ~(table = NoEntry \/ table.epoch # at[t].epoch) /\ table.rev # at[t].rev
    <2> DEFINE n == at[t].left - 1
               d == [at[t] EXCEPT !.pc = "observe", !.left = n]
    <2>1. n \in Int
      BY LocalParts
    <2>2. at' = [at EXCEPT ![t] = d] /\ UNCHANGED native
      BY <1>1, <1>3 DEF RecordProof, RegistryTypeOK
    <2> HIDE DEF n
    <2>3. /\ d \in Locals /\ d.pc = "observe"
          /\ d.op = at[t].op /\ d.realm = at[t].realm /\ d.key = at[t].key
      BY <1>1, <2>1 DEF Locals, PCs
    <2> HIDE DEF d
    <2> QED
      BY <2>2, <2>3, SetEffect DEF SameCall
  <1>4. CASE ~(table = NoEntry \/ table.epoch # at[t].epoch) /\ table.rev = at[t].rev
    <2>1. /\ Go(t, "sent") /\ UNCHANGED <<made, cleared, nextEpoch>>
          /\ table' = [table EXCEPT !.proof = Recorded(t), !.rev = @ + 1]
      BY <1>4 DEF RecordProof
    <2> QED
      BY <1>1, <1>4, <2>1, GoEffect
  <1> QED
    BY <1>2, <1>3, <1>4

\* The native close begins.
LEMMA StartNativeCloseEffect ==
    ASSUME RegistryTypeOK, NEW t \in Threads, StartNativeClose(t)
    PROVE  Moves(t) /\ at'[t].pc = "closeRead" /\ at'[t].op = "nativeClose"
  <1> DEFINE d == [Idle EXCEPT !.pc = "closeRead", !.op = "nativeClose", !.left = ProofAttempts]
  <1>1. Idle \in Locals /\ ProofAttempts \in Int
    BY StartTypes, RegistryAssumption
  <1>2. d \in Locals /\ d.pc = "closeRead" /\ d.op = "nativeClose"
    BY <1>1 DEF Locals, PCs, Calls
  <1>3. at' = [at EXCEPT ![t] = d]
    BY DEF StartNativeClose
  <1> HIDE DEF d
  <1> QED
    BY <1>2, <1>3, SetEffect

\* The native close has read the entry.
LEMMA CloseReadEffect ==
    ASSUME RegistryTypeOK, NEW t \in Threads, NativeCloseRead(t)
    PROVE  /\ Moves(t)
           /\ \/ at'[t].pc = "idle" /\ at'[t].op = "none"
              \/ /\ at'[t].pc = "closeTake" /\ SameCall(t) /\ table # NoEntry
                 /\ at'[t].epoch = table.epoch /\ at'[t].rev = table.rev
                 /\ at'[t].seen = Observe(table.mgr)
  <1> DEFINE o == Observe(table.mgr)
  <1>1. at[t] \in Locals /\ o \in Views
    BY LocalParts, ObserveTypes
  <1>2. CASE table = NoEntry \/ at[t].left = 0
    <2>1. Leave(t)
      BY <1>2 DEF NativeCloseRead
    <2> QED
      BY <2>1, LeaveEffect
  <1>3. CASE ~(table = NoEntry \/ at[t].left = 0)
    <2> DEFINE d == [at[t] EXCEPT !.pc = "closeTake", !.epoch = table.epoch,
                                  !.adm = table.adm, !.rev = table.rev, !.seen = o]
    <2>1. table.epoch \in Nat /\ table.adm \in Nat /\ table.rev \in Nat
      BY <1>3, EntryParts
    <2>3. at' = [at EXCEPT ![t] = d]
      BY <1>3 DEF NativeCloseRead
    <2> HIDE DEF o
    <2>2. /\ d \in Locals /\ d.pc = "closeTake" /\ d.epoch = table.epoch /\ d.rev = table.rev
          /\ d.seen = o /\ d.op = at[t].op /\ d.realm = at[t].realm /\ d.key = at[t].key
      BY <1>1, <2>1 DEF Locals, PCs
    <2> HIDE DEF d
    <2> QED
      BY <1>3, <2>2, <2>3, SetEffect DEF SameCall, o
  <1> QED
    BY <1>2, <1>3

\* The entry without its pools.
Emptied(t) == [table EXCEPT !.realm = [r \in Realms |-> NoPools], !.proof = Known(at[t].seen),
                            !.epoch = nextEpoch, !.rev = @ + 1]

\* The native close takes the pools, or the entry has changed.
LEMMA CloseTakeEffect ==
    ASSUME RegistryTypeOK, NEW t \in Threads, NativeCloseTake(t)
    PROVE  /\ Moves(t)
           /\ \/ at'[t].pc = "idle" /\ at'[t].op = "none"
              \/ at'[t].pc = "closeRead" /\ SameCall(t)
           /\ \/ UNCHANGED native
              \/ /\ table # NoEntry /\ table.epoch = at[t].epoch /\ table.rev = at[t].rev
                 /\ table' = Emptied(t) /\ nextEpoch' = nextEpoch + 1
                 /\ cleared' = cleared \cup PoolIds(table) /\ UNCHANGED made
  <1>1. at[t] \in Locals
    BY LocalParts
  <1> DEFINE bad == table = NoEntry \/ table.epoch # at[t].epoch \/ table.adm # at[t].adm
  <1>2. CASE bad
    <2>1. Leave(t) /\ UNCHANGED native
      BY <1>2 DEF NativeCloseTake
    <2> QED
      BY <2>1, LeaveEffect
  <1>3. CASE ~bad /\ table.rev # at[t].rev
    <2> DEFINE n == at[t].left - 1
               d == [at[t] EXCEPT !.pc = "closeRead", !.left = n]
    <2>1. n \in Int
      BY LocalParts
    <2>2. at' = [at EXCEPT ![t] = d] /\ UNCHANGED native
      BY <1>1, <1>3 DEF NativeCloseTake, RegistryTypeOK
    <2> HIDE DEF n
    <2>3. /\ d \in Locals /\ d.pc = "closeRead"
          /\ d.op = at[t].op /\ d.realm = at[t].realm /\ d.key = at[t].key
      BY <1>1, <2>1 DEF Locals, PCs
    <2> HIDE DEF d
    <2> QED
      BY <2>2, <2>3, SetEffect DEF SameCall
  <1>4. CASE ~bad /\ table.rev = at[t].rev
    <2>1. /\ Leave(t) /\ table' = Emptied(t) /\ nextEpoch' = nextEpoch + 1
          /\ cleared' = cleared \cup PoolIds(table) /\ UNCHANGED made
      BY <1>4 DEF NativeCloseTake, Emptied
    <2> QED
      BY <1>4, <2>1, LeaveEffect
  <1> QED
    BY <1>2, <1>3, <1>4

\* Unpickling begins.
LEMMA SetstateEffect ==
    ASSUME RegistryTypeOK, NEW t \in Threads, StartSetstate(t)
    PROVE  /\ Moves(t) /\ at'[t].op = "setstate"
           /\ at'[t].pc = IF Active(transitions) = {} THEN "detach" ELSE "replace"
  <1> DEFINE p == IF Active(transitions) = {} THEN "detach" ELSE "replace"
             d == [Idle EXCEPT !.op = "setstate", !.pc = p]
  <1>1. Idle \in Locals /\ p \in PCs
    BY StartTypes DEF PCs
  <1>2. at' = [at EXCEPT ![t] = d]
    BY DEF StartSetstate
  <1> HIDE DEF p
  <1>3. d \in Locals /\ d.pc = p /\ d.op = "setstate"
    BY <1>1 DEF Locals, Calls
  <1> HIDE DEF d
  <1>4. Moves(t) /\ at'[t] = d
    BY <1>2, <1>3, SetEffect
  <1> QED
    BY <1>3, <1>4 DEF p

\* The first transition takes the entry of the facade away.
LEMMA DetachEffect ==
    ASSUME RegistryTypeOK, NEW t \in Threads, DetachReference(t)
    PROVE  /\ Moves(t) /\ SameCall(t)
           /\ \/ table = NoEntry /\ registry' = 0 /\ at'[t].pc = "replace"
              \/ /\ table # NoEntry /\ at'[t].pc = "detachDrop" /\ at'[t].ref = table.ref
                 /\ registry' = IF registry = table.ref THEN 0 ELSE registry
  <1>1. at[t] \in Locals
    BY LocalParts
  <1>2. CASE table = NoEntry
    <2>1. Go(t, "replace") /\ "replace" \in PCs /\ registry' = 0
      BY <1>2 DEF DetachReference, PCs
    <2> QED
      BY <1>2, <2>1, GoEffect
  <1>3. CASE table # NoEntry
    <2> DEFINE d == [at[t] EXCEPT !.pc = "detachDrop", !.ref = table.ref]
    <2>1. table.ref \in Nat
      BY <1>3, EntryParts
    <2>2. /\ d \in Locals /\ d.pc = "detachDrop" /\ d.ref = table.ref
          /\ d.op = at[t].op /\ d.realm = at[t].realm /\ d.key = at[t].key
      BY <1>1, <2>1 DEF Locals, PCs
    <2>3. at' = [at EXCEPT ![t] = d] /\ registry' = IF registry = table.ref THEN 0 ELSE registry
      BY <1>1, <1>3 DEF DetachReference, RegistryTypeOK
    <2> HIDE DEF d
    <2> QED
      BY <1>3, <2>2, <2>3, SetEffect DEF SameCall
  <1> QED
    BY <1>2, <1>3

\* A send on another adapter has found a dead entry, or none.
LEMMA ReapEffect ==
    ASSUME RegistryTypeOK, NEW t \in Threads, StartReap(t)
    PROVE  \/ UNCHANGED at
           \/ /\ Moves(t) /\ at'[t].pc = "reap" /\ at'[t].op = "elsewhere"
              /\ table # NoEntry /\ life # "live" /\ at'[t].epoch = table.epoch
  <1>1. Idle \in Locals
    BY StartTypes
  <1>2. CASE table # NoEntry /\ life # "live"
    <2> DEFINE d == [Idle EXCEPT !.op = "elsewhere", !.pc = "reap", !.epoch = table.epoch]
    <2>1. table.epoch \in Nat
      BY <1>2, EntryParts
    <2>2. d \in Locals /\ d.pc = "reap" /\ d.op = "elsewhere" /\ d.epoch = table.epoch
      BY <1>1, <2>1 DEF Locals, PCs, Calls
    <2>3. at' = [at EXCEPT ![t] = d]
      BY <1>2 DEF StartReap
    <2> HIDE DEF d
    <2> QED
      BY <1>2, <2>2, <2>3, SetEffect
  <1>3. CASE ~(table # NoEntry /\ life # "live")
    BY <1>3 DEF StartReap
  <1> QED
    BY <1>2, <1>3

----------------------------------------------------------------------------
(* The side table.                                                           *)

\* What a step can do to the side table and its pools.
Inserts == \E m \in Nat, s \in Views : Insert(m, s)
Admits == \E r \in Realms, k \in Slots : table # NoEntry /\ AdmitPool(r, k)
Renews ==
    /\ table # NoEntry
    /\ \E s \in Views : table' = [table EXCEPT !.proof = s, !.rev = @ + 1]
    /\ UNCHANGED <<made, cleared, nextEpoch>>
Empties ==
    /\ table # NoEntry
    /\ \E s \in Views : table' = [table EXCEPT !.realm = [r \in Realms |-> NoPools], !.proof = s,
                                               !.epoch = nextEpoch, !.rev = @ + 1]
    /\ nextEpoch' = nextEpoch + 1 /\ cleared' = cleared \cup PoolIds(table) /\ UNCHANGED made
NativeStep == UNCHANGED native \/ Inserts \/ RemoveEntry \/ Admits \/ Renews \/ Empties

\* A proof that is renewed is a proof.
LEMMA RenewedTypes ==
    ASSUME RegistryTypeOK, table # NoEntry, NEW s \in Views
    PROVE  /\ \A r \in Realms : Renewed(table.proof[r], s[r]) \in Managers
           /\ Known(s) \in Views
           /\ \A t \in Threads : at[t].seen = s => Recorded(t) \in Views
  <1>1. \A r \in Realms : table.proof[r] \in Managers /\ s[r] \in Managers
    BY EntryParts DEF Views
  <1>2. ASSUME NEW a \in Managers, NEW b \in Managers PROVE Renewed(a, b) \in Managers
    <2>1. a.plain \in BOOLEAN
      BY DEF Managers
    <2>2. [b EXCEPT !.plain = a.plain] \in Managers
      BY <2>1 DEF Managers
    <2> QED
      BY <2>2 DEF Renewed
  <1>3. \A r \in Realms : Renewed(table.proof[r], s[r]) \in Managers
    BY <1>1, <1>2
  <1>4. Known(s) \in Views
    BY <1>1, <1>3 DEF Known, Views
  <1>5. ASSUME NEW t \in Threads, at[t].seen = s PROVE Recorded(t) \in Views
    BY <1>1, <1>3, <1>5 DEF Recorded, Views
  <1> QED
    BY <1>3, <1>4, <1>5

\* A part of the entry is replaced.
LEMMA RenewsEntry ==
    ASSUME RegistryTypeOK, Renews
    PROVE  /\ table \in Entries /\ table' \in Entries /\ table'.epoch = table.epoch
           /\ table'.ref = table.ref /\ table'.mgr = table.mgr /\ table'.realm = table.realm
           /\ table'.rev = table.rev + 1
  <1>1. PICK s \in Views : table' = [table EXCEPT !.proof = s, !.rev = @ + 1]
    BY DEF Renews
  <1> DEFINE n == table.rev + 1
  <1>2. table \in Entries /\ n \in Nat
    BY EntryParts DEF Renews
  <1>3. table' = [table EXCEPT !.proof = s, !.rev = n]
    BY <1>1
  <1> HIDE DEF n
  <1>4. /\ table' \in Entries /\ table'.epoch = table.epoch /\ table'.ref = table.ref
        /\ table'.mgr = table.mgr /\ table'.realm = table.realm /\ table'.rev = n
    BY <1>2, <1>3 DEF Entries
  <1> QED
    BY <1>2, <1>4 DEF n

\* The pools of the entry are taken away.
LEMMA EmptiesEntry ==
    ASSUME RegistryTypeOK, Empties
    PROVE  /\ table \in Entries /\ table' \in Entries /\ table'.epoch = nextEpoch
           /\ table'.ref = table.ref /\ table'.mgr = table.mgr
           /\ table'.realm = [r \in Realms |-> NoPools]
  <1> DEFINE n == table.rev + 1
             f == [r \in Realms |-> NoPools]
  <1>1. PICK s \in Views : table' = [table EXCEPT !.realm = f, !.proof = s, !.epoch = nextEpoch,
                                                  !.rev = n]
    BY DEF Empties
  <1>2. table \in Entries /\ n \in Nat /\ f \in [Realms -> RealmPools] /\ nextEpoch \in Nat \ {0}
    BY EntryParts, StartTypes DEF Empties, RegistryTypeOK
  <1> HIDE DEF n, f
  <1>3. /\ table' \in Entries /\ table'.epoch = nextEpoch /\ table'.ref = table.ref
        /\ table'.mgr = table.mgr /\ table'.realm = f
    BY <1>1, <1>2 DEF Entries
  <1> QED
    BY <1>2, <1>3 DEF f

\* A new entry.
LEMMA EntryInserted ==
    ASSUME RegistryTypeOK, NEW m \in Nat, NEW s \in Views, Insert(m, s)
    PROVE  /\ table' \in Entries /\ table'.epoch = nextEpoch /\ table'.ref = nextEpoch
           /\ table'.mgr = m /\ table'.realm = [r \in Realms |-> NoPools] /\ table'.proof = s
           /\ table'.rev = 0
  <1>1. [r \in Realms |-> NoPools] \in [Realms -> RealmPools]
    BY StartTypes
  <1>2. nextEpoch \in Nat \ {0}
    BY DEF RegistryTypeOK
  <1> QED
    BY <1>1, <1>2 DEF Insert, Entries

\* AdmitPool in the words of RealmAdmits.
LEMMA AdmitPoolIs ==
    ASSUME NEW r, NEW k, AdmitPool(r, k)
    PROVE  LET m == table.realm[r]
           IN  /\ table' = [table EXCEPT !.adm = @ + 1, !.realm[r] = Admitted(m, k, made + 1)]
               /\ made' = made + Cardinality(New(m, k, made + 1))
               /\ cleared' = cleared \cup {p.id : p \in m.pools \ Stay(m, k)}
               /\ UNCHANGED nextEpoch
  BY DEF AdmitPool, Admitted, New, Stay, Gone, Popped, KnownKey

\* One pool is made, or none.
LEMMA NewCount ==
    ASSUME NEW m, NEW k, NEW id
    PROVE  /\ Cardinality(New(m, k, id)) \in {0, 1}
           /\ Cardinality(New(m, k, id)) = 0 => New(m, k, id) = {}
           /\ Cardinality(New(m, k, id)) = 1 => New(m, k, id) = {[key |-> k, id |-> id]}
  <1>1. New(m, k, id) = {} \/ New(m, k, id) = {[key |-> k, id |-> id]}
    BY DEF New
  <1>2. Cardinality({}) = 0 /\ Cardinality({[key |-> k, id |-> id]}) = 1
    BY FS_EmptySet, FS_Singleton
  <1> QED
    BY <1>1, <1>2

\* Every realm is sound, an id is one pool's, and the pools made so far are those in
\* the table and those that have been cleared.
RealmsSound == table # NoEntry => \A r \in Realms : RealmOK(table.realm[r])
IdsUnique == table # NoEntry => \A r, q \in Realms :
    \A p \in table.realm[r].pools, o \in table.realm[q].pools : p.id = o.id => r = q /\ p = o
IdsMade == PoolIds(table) \subseteq 1..made /\ cleared \subseteq 1..made
LedgerInv == RealmsSound /\ IdsUnique /\ IdsMade /\ NoPoolForgotten

\* The ids of an entry's pools, one by one.
LEMMA PoolIdsAre ==
    ASSUME NEW e, NEW x
    PROVE  x \in PoolIds(e) <=> e # NoEntry /\ \E r \in Realms : \E p \in e.realm[r].pools : p.id = x
  BY DEF PoolIds

\* An entry without pools has no ids.
LEMMA NoIds ==
    /\ PoolIds(NoEntry) = {}
    /\ \A e : e.realm = [r \in Realms |-> NoPools] => PoolIds(e) = {}
  <1>1. PoolIds(NoEntry) = {}
    BY DEF PoolIds
  <1>2. NoPools.pools = {}
    BY DEF NoPools
  <1>3. ASSUME NEW e, e.realm = [r \in Realms |-> NoPools] PROVE PoolIds(e) = {}
    <2>1. \A x : x \notin PoolIds(e)
      BY <1>2, <1>3, PoolIdsAre
    <2> QED
      BY <2>1
  <1> QED
    BY <1>1, <1>3

\* A realm without pools is sound.
LEMMA NoPoolsOK == RealmOK(NoPools)
  <1>1. NoPools.pools = {} /\ NoPools.order = <<>>
    BY DEF NoPools
  <1>2. IsFiniteSet({}) /\ Cardinality({}) = 0
    BY FS_EmptySet
  <1>3. ToSet(<<>>) = {} /\ Len(<<>>) = 0 /\ 0 <= PoolConnections
    BY RegistryAssumption DEF ToSet
  <1> QED
    BY <1>1, <1>2, <1>3 DEF RealmOK

\* A pool that is admitted takes the next id, and the pools it drives out are cleared.
LEMMA AdmitsLedger ==
    ASSUME RegistryTypeOK, LedgerInv, table # NoEntry, NEW r \in Realms, NEW k \in Slots,
           AdmitPool(r, k)
    PROVE  /\ table' \in Entries /\ made' \in Nat /\ cleared' \in SUBSET Nat
           /\ LedgerInv'
           /\ table'.epoch = table.epoch /\ table'.ref = table.ref /\ table'.mgr = table.mgr
           /\ table'.proof = table.proof /\ table'.rev = table.rev
  <1> DEFINE m == table.realm[r]
             new == New(m, k, made + 1)
             stay == Stay(m, k)
             out == m.pools \ stay
             adm == Admitted(m, k, made + 1)
  <1>1. table \in Entries /\ table.realm \in [Realms -> RealmPools] /\ made \in Nat
        /\ cleared \in SUBSET Nat
    BY EntryParts DEF RegistryTypeOK
  <1>2. m \in RealmPools /\ made + 1 \in Nat \ {0}
    BY <1>1
  <1>3. RealmOK(m)
    BY DEF LedgerInv, RealmsSound
  <1>4. /\ table' = [table EXCEPT !.adm = @ + 1, !.realm[r] = adm]
        /\ made' = made + Cardinality(new)
        /\ cleared' = cleared \cup {p.id : p \in out}
    BY AdmitPoolIs
  <1>5. adm \in RealmPools /\ RealmOK(adm) /\ adm.pools = stay \cup new
    <2>1. adm.pools = stay \cup new
      BY DEF Admitted
    <2> QED
      BY <1>2, <1>3, <2>1, RealmAdmits
  <1>6. stay \subseteq m.pools /\ m.pools \subseteq Pools
    BY <1>2 DEF Stay, RealmPools
  <1>7. /\ Cardinality(new) \in {0, 1}
        /\ Cardinality(new) = 0 => new = {}
        /\ Cardinality(new) = 1 => new = {[key |-> k, id |-> made + 1]}
    BY NewCount
  <1> HIDE DEF m, new, stay, out, adm
  <1>8. /\ table' \in Entries /\ table'.epoch = table.epoch /\ table'.ref = table.ref
        /\ table'.mgr = table.mgr /\ table'.realm = [table.realm EXCEPT ![r] = adm]
        /\ table'.proof = table.proof /\ table'.rev = table.rev
    <2> DEFINE f == [table.realm EXCEPT ![r] = adm]
               n == table.adm + 1
    <2>1. f \in [Realms -> RealmPools] /\ n \in Nat
      BY <1>1, <1>5, EntryParts
    <2>2. table' = [table EXCEPT !.adm = n, !.realm = f]
      BY <1>1, <1>4 DEF Entries
    <2> HIDE DEF f, n
    <2>3. /\ table' \in Entries /\ table'.epoch = table.epoch /\ table'.ref = table.ref
          /\ table'.mgr = table.mgr /\ table'.realm = f
          /\ table'.proof = table.proof /\ table'.rev = table.rev
      BY <1>1, <2>1, <2>2 DEF Entries
    <2> QED
      BY <2>3 DEF f
  <1>9. table' # NoEntry
    BY <1>8 DEF Entries, NoEntry
  <1>10. /\ made' \in Nat /\ made <= made'
         /\ \A p \in new : made' = made + 1 /\ p.id = made + 1
         /\ made' # made => \E p \in new : p.id = made + 1 /\ made' = made + 1
    <2>1. CASE Cardinality(new) = 0
      <3>1. new = {} /\ made' = made + 0
        BY <1>4, <1>7, <2>1
      <3> QED
        BY <1>1, <3>1
    <2>2. CASE Cardinality(new) = 1
      <3>1. new = {[key |-> k, id |-> made + 1]} /\ made' = made + 1
        BY <1>4, <1>7, <2>2
      <3>2. [key |-> k, id |-> made + 1].id = made + 1
        OBVIOUS
      <3>3. \A p \in new : p.id = made + 1
        BY <3>1, <3>2
      <3>4. \E p \in new : p.id = made + 1
        BY <3>1, <3>2
      <3>5. made + 1 \in Nat /\ made <= made + 1
        BY <1>1
      <3> QED
        BY <3>1, <3>3, <3>4, <3>5
    <2> QED
      BY <1>7, <2>1, <2>2
  <1>11. \A p \in out : p \in m.pools /\ p \notin stay /\ p.id \in Nat
    <2>1. \A p \in Pools : p.id \in Nat
      BY DEF Pools
    <2> QED
      BY <1>6, <2>1 DEF out
  <1>12. cleared' \in SUBSET Nat
    BY <1>1, <1>4, <1>11
  <1>13. /\ table'.realm[r] = adm
         /\ \A q \in Realms : q # r => table'.realm[q] = table.realm[q]
    BY <1>1, <1>8
  <1>14. RealmsSound'
    <2>1. \A q \in Realms : RealmOK(table.realm[q])
      BY DEF LedgerInv, RealmsSound
    <2>2. ASSUME NEW q \in Realms PROVE RealmOK(table'.realm[q])
      BY <1>5, <1>13, <2>1
    <2>3. RealmsSound' <=> (table' # NoEntry => \A q \in Realms : RealmOK(table'.realm[q]))
      BY DEF RealmsSound, RealmOK
    <2> QED
      BY <2>2, <2>3
  <1>15. \A q \in Realms : \A p \in table.realm[q].pools : p.id \in 1..made
    BY PoolIdsAre DEF LedgerInv, IdsMade
  <1>16. \A q \in Realms : \A p \in table'.realm[q].pools :
            (p \in table.realm[q].pools /\ (q = r => p \in stay)) \/ (q = r /\ p \in new)
    BY <1>5, <1>6, <1>13 DEF m
  <1>17. \A p \in new, q \in new : p = q
    BY <1>7
  <1>18. \A q \in Realms : \A p \in table.realm[q].pools, o \in new : p.id # o.id
    <2>1. \A x \in 1..made : x # made + 1
      BY <1>1
    <2> QED
      BY <1>10, <1>15, <2>1
  <1>19. IdsUnique'
    <2> SUFFICES ASSUME NEW q \in Realms, NEW s \in Realms, NEW p \in table'.realm[q].pools,
                        NEW o \in table'.realm[s].pools, p.id = o.id
                 PROVE  q = s /\ p = o
      BY DEF IdsUnique
    <2>1. CASE p \in table.realm[q].pools /\ o \in table.realm[s].pools
      BY <2>1 DEF LedgerInv, IdsUnique
    <2>2. CASE q = r /\ p \in new
      BY <1>16, <1>17, <1>18, <2>2
    <2>3. CASE s = r /\ o \in new
      BY <1>16, <1>17, <1>18, <2>3
    <2> QED
      BY <1>16, <2>1, <2>2, <2>3
  <1>20. ASSUME NEW x \in PoolIds(table'), x \notin PoolIds(table) PROVE x = made + 1 /\ made' = made + 1
    <2>0. PICK q \in Realms : \E p \in table'.realm[q].pools : p.id = x
      BY <1>20, PoolIdsAre
    <2>1. PICK p \in table'.realm[q].pools : p.id = x
      BY <2>0
    <2>2. p \notin table.realm[q].pools
      BY <1>20, <2>1, PoolIdsAre
    <2> QED
      BY <1>10, <1>16, <2>1, <2>2
  <1>21. \A x \in 1..made : x \in 1..made'
    BY <1>1, <1>10
  <1>22. IdsMade'
    <2>1. PoolIds(table') \subseteq 1..made'
      <3>1. ASSUME NEW x \in PoolIds(table') PROVE x \in 1..made'
        <4>1. CASE x \in PoolIds(table)
          BY <1>21, <4>1 DEF LedgerInv, IdsMade
        <4>2. CASE x \notin PoolIds(table)
          <5>1. x = made + 1 /\ made' = made + 1
            BY <1>20, <4>2
          <5> QED
            BY <1>1, <5>1
        <4> QED
          BY <4>1, <4>2
      <3> QED
        BY <3>1
    <2>2. \A p \in out : p.id \in 1..made
      BY <1>11, <1>15 DEF m
    <2>3. cleared' \subseteq 1..made'
      BY <1>4, <1>21, <2>2 DEF LedgerInv, IdsMade
    <2> QED
      BY <2>1, <2>3 DEF IdsMade
  <1>23. NoPoolForgotten'
    <2> SUFFICES ASSUME NEW x \in 1..made' PROVE x \in PoolIds(table') <=> x \notin cleared'
      BY DEF NoPoolForgotten
    <2>1. CASE x \in 1..made
      <3>1. x # made + 1
        BY <1>1, <2>1
      <3>2. ASSUME x \in PoolIds(table') PROVE x \notin cleared'
        <4>1. x \in PoolIds(table)
          BY <1>20, <3>1, <3>2
        <4>2. x \notin cleared
          BY <2>1, <4>1 DEF LedgerInv, NoPoolForgotten
        <4>0. PICK q \in Realms : \E p \in table'.realm[q].pools : p.id = x
          BY <3>2, PoolIdsAre
        <4>3. PICK p \in table'.realm[q].pools : p.id = x
          BY <4>0
        <4>4. p \in table.realm[q].pools /\ (q = r => p \in stay)
          BY <1>10, <1>16, <3>1, <4>3
        <4>5. \A o \in out : o.id # x
          <5> SUFFICES ASSUME NEW o \in out, o.id = x PROVE FALSE
            OBVIOUS
          <5>1. o \in table.realm[r].pools /\ o \notin stay
            BY <1>11 DEF m
          <5>2. q = r /\ p = o
            BY <4>3, <4>4, <5>1 DEF LedgerInv, IdsUnique
          <5> QED
            BY <4>4, <5>1, <5>2
        <4> QED
          BY <1>4, <4>2, <4>5
      <3>3. ASSUME x \notin cleared' PROVE x \in PoolIds(table')
        <4>1. x \in PoolIds(table)
          BY <1>4, <2>1, <3>3 DEF LedgerInv, NoPoolForgotten
        <4>0. PICK q \in Realms : \E p \in table.realm[q].pools : p.id = x
          BY <4>1, PoolIdsAre
        <4>2. PICK p \in table.realm[q].pools : p.id = x
          BY <4>0
        <4>3. p \in table'.realm[q].pools
          <5>1. CASE q # r
            BY <1>13, <5>1
          <5>2. CASE q = r
            <6>1. p \notin out
              BY <1>4, <3>3, <4>2
            <6>2. p \in stay
              BY <4>2, <5>2, <6>1 DEF out, m
            <6> QED
              BY <1>5, <1>13, <5>2, <6>2
          <5> QED
            BY <5>1, <5>2
        <4> QED
          BY <1>9, <4>2, <4>3, PoolIdsAre
      <3> QED
        BY <3>2, <3>3
    <2>2. CASE x \notin 1..made
      <3>1. x = made + 1 /\ made' = made + 1 /\ made' # made
        <4>1. made' = made \/ made' = made + 1
          BY <1>10
        <4> QED
          BY <1>1, <2>2, <4>1
      <3>2. PICK p \in new : p.id = x
        BY <1>10, <3>1
      <3>3. x \in PoolIds(table')
        <4>1. p \in table'.realm[r].pools
          BY <1>5, <1>13, <3>2
        <4> QED
          BY <1>9, <3>2, <4>1, PoolIdsAre
      <3>4. x \notin cleared'
        <4>1. \A o \in out : o.id # x
          BY <1>11, <1>15, <2>2 DEF m
        <4>2. x \notin cleared
          BY <2>2 DEF LedgerInv, IdsMade
        <4> QED
          BY <1>4, <4>1, <4>2
      <3> QED
        BY <3>3, <3>4
    <2> QED
      BY <2>1, <2>2
  <1> QED
    BY <1>8, <1>10, <1>12, <1>14, <1>19, <1>22, <1>23 DEF LedgerInv

\* Whatever a step does to the side table, the ledger stays right.
LEMMA LedgerStep ==
    ASSUME RegistryTypeOK, LedgerInv, NativeStep
    PROVE  /\ table' \in Entries \cup {NoEntry} /\ made' \in Nat /\ cleared' \in SUBSET Nat
           /\ nextEpoch' \in Nat \ {0}
           /\ LedgerInv'
  <1>1. /\ table \in Entries \cup {NoEntry} /\ made \in Nat /\ cleared \in SUBSET Nat
        /\ nextEpoch \in Nat \ {0}
    BY DEF RegistryTypeOK
  <1>2. PoolIds(table) \subseteq 1..made /\ cleared \subseteq 1..made
        /\ \A x \in 1..made : x \in PoolIds(table) <=> x \notin cleared
    BY DEF LedgerInv, IdsMade, NoPoolForgotten
  <1>3. PoolIds(table) \subseteq Nat /\ 1..made \subseteq Nat
    BY <1>1, <1>2
  <1>4. ASSUME table' \in Entries \cup {NoEntry}, PoolIds(table') = {}, made' = made,
               cleared' = cleared \cup PoolIds(table), RealmsSound', IdsUnique'
        PROVE  cleared' \in SUBSET Nat /\ LedgerInv'
    <2>1. IdsMade' /\ NoPoolForgotten'
      BY <1>2, <1>4 DEF IdsMade, NoPoolForgotten
    <2> QED
      BY <1>1, <1>3, <1>4, <2>1 DEF LedgerInv
  <1>5. ASSUME table'.realm = [r \in Realms |-> NoPools]
        PROVE  PoolIds(table') = {} /\ RealmsSound' /\ IdsUnique'
    <2>1. PoolIds(table') = {}
      BY <1>5, NoIds
    <2>2. \A r \in Realms : table'.realm[r] = NoPools /\ table'.realm[r].pools = {}
      BY <1>5 DEF NoPools
    <2>3. RealmsSound'
      <3>1. \A r \in Realms : RealmOK(table'.realm[r])
        BY <2>2, NoPoolsOK
      <3>2. RealmsSound' <=> (table' # NoEntry => \A q \in Realms : RealmOK(table'.realm[q]))
        BY DEF RealmsSound, RealmOK
      <3> QED
        BY <3>1, <3>2
    <2>4. IdsUnique'
      BY <2>2 DEF IdsUnique
    <2> QED
      BY <2>1, <2>3, <2>4
  <1>6. CASE UNCHANGED native
    <2>1. table' = table /\ made' = made /\ cleared' = cleared /\ nextEpoch' = nextEpoch
      BY <1>6 DEF native
    <2>2. LedgerInv'
      BY <2>1 DEF LedgerInv, RealmsSound, IdsUnique, IdsMade, NoPoolForgotten, RealmOK
    <2> QED
      BY <1>1, <2>1, <2>2
  <1>7. CASE Inserts
    <2>1. PICK m \in Nat, s \in Views : Insert(m, s)
      BY <1>7 DEF Inserts
    <2>2. table' \in Entries /\ table'.realm = [r \in Realms |-> NoPools]
      BY <2>1, EntryInserted
    <2>3. made' = made /\ cleared' = cleared \cup PoolIds(table) /\ nextEpoch' = nextEpoch + 1
      BY <2>1 DEF Insert
    <2>4. nextEpoch + 1 \in Nat \ {0}
      BY <1>1
    <2> QED
      BY <1>1, <1>4, <1>5, <2>2, <2>3, <2>4
  <1>8. CASE RemoveEntry
    <2>1. /\ table' = NoEntry /\ made' = made /\ cleared' = cleared \cup PoolIds(table)
          /\ nextEpoch' = nextEpoch
      BY <1>8 DEF RemoveEntry
    <2>2. PoolIds(table') = {}
      BY <2>1, NoIds
    <2>3. RealmsSound' /\ IdsUnique'
      BY <2>1 DEF RealmsSound, IdsUnique
    <2> QED
      BY <1>1, <1>4, <2>1, <2>2, <2>3
  <1>9. CASE Admits
    <2>1. PICK r \in Realms, k \in Slots : table # NoEntry /\ AdmitPool(r, k)
      BY <1>9 DEF Admits
    <2>2. table' \in Entries /\ made' \in Nat /\ cleared' \in SUBSET Nat /\ LedgerInv'
      BY <2>1, AdmitsLedger
    <2>3. nextEpoch' = nextEpoch
      BY <2>1 DEF AdmitPool
    <2> QED
      BY <1>1, <2>2, <2>3
  <1>10. CASE Renews
    <2>2. table \in Entries /\ table # NoEntry
      BY <1>1, <1>10 DEF Renews
    <2>3. made' = made /\ cleared' = cleared /\ nextEpoch' = nextEpoch
      BY <1>10 DEF Renews
    <2>4. table' \in Entries /\ table'.realm = table.realm
      BY <1>10, RenewsEntry
    <2>5. table' # NoEntry
      BY <2>4 DEF Entries, NoEntry
    <2>6. PoolIds(table') = PoolIds(table)
      BY <2>2, <2>4, <2>5 DEF PoolIds
    <2>7. RealmsSound'
      <3>1. \A r \in Realms : RealmOK(table'.realm[r])
        BY <2>2, <2>4 DEF LedgerInv, RealmsSound
      <3>2. RealmsSound' <=> (table' # NoEntry => \A q \in Realms : RealmOK(table'.realm[q]))
        BY DEF RealmsSound, RealmOK
      <3> QED
        BY <3>1, <3>2
    <2>8. IdsUnique'
      BY <2>2, <2>4 DEF LedgerInv, IdsUnique
    <2>9. IdsMade' /\ NoPoolForgotten'
      BY <1>2, <2>3, <2>6 DEF IdsMade, NoPoolForgotten
    <2> QED
      BY <1>1, <2>3, <2>4, <2>7, <2>8, <2>9 DEF LedgerInv
  <1>11. CASE Empties
    <2>3. made' = made /\ cleared' = cleared \cup PoolIds(table) /\ nextEpoch' = nextEpoch + 1
      BY <1>11 DEF Empties
    <2>4. table' \in Entries /\ table'.realm = [r \in Realms |-> NoPools]
      BY <1>11, EmptiesEntry
    <2>5. nextEpoch + 1 \in Nat \ {0}
      BY <1>1
    <2> QED
      BY <1>1, <1>4, <1>5, <2>3, <2>4, <2>5
  <1> QED
    BY <1>6, <1>7, <1>8, <1>9, <1>10, <1>11 DEF NativeStep

\* The ledger is right for an adapter that has just been made.
LEMMA LedgerInit ==
    ASSUME RegistryInit
    PROVE  RegistryTypeOK /\ LedgerInv
  <1>1. Fresh \in Views /\ Idle \in Locals /\ [r \in Realms |-> NoPools] \in [Realms -> RealmPools]
    BY StartTypes
  <1>2. table \in Entries /\ table.realm = [r \in Realms |-> NoPools]
    BY <1>1 DEF RegistryInit, Entries
  <1>3. NoReservation \in Reservations
    BY DEF NoReservation, Reservations
  <1>4. accesses \in [Threads -> Int] /\ transitions \in [Threads -> Int] /\ at \in [Threads -> Locals]
    BY <1>1 DEF RegistryInit
  <1>5. RegistryTypeOK
    BY <1>1, <1>2, <1>3, <1>4 DEF RegistryInit, RegistryTypeOK
  <1>6. PoolIds(table) = {}
    BY <1>2, NoIds
  <1>7. \A r \in Realms : table.realm[r] = NoPools /\ table.realm[r].pools = {}
    BY <1>2 DEF NoPools
  <1>8. RealmsSound /\ IdsUnique
    BY <1>7, NoPoolsOK DEF RealmsSound, IdsUnique
  <1>9. made = 0 /\ cleared = {} /\ 1..0 = {}
    BY DEF RegistryInit
  <1>10. IdsMade /\ NoPoolForgotten
    BY <1>6, <1>9 DEF IdsMade, NoPoolForgotten
  <1> QED
    BY <1>5, <1>8, <1>10 DEF LedgerInv

----------------------------------------------------------------------------
(* Every step keeps the types and the ledger.                                *)

\* urllib3's container takes a key: nothing but the pools of the realm changes.
LEMMA TouchTypes ==
    ASSUME RegistryTypeOK, NEW r \in Realms, NEW k \in Slots, Touch(r, k)
    PROVE  /\ visible' \in Views
           /\ \A q \in Realms :
                /\ visible'[q].plain = visible[q].plain
                /\ visible'[q].is = TRUE \/ visible'[q].is = visible[q].is
                /\ visible'[q].ver >= visible[q].ver
  <1> DEFINE kept == RemoveFirst(visible[r].keys, k)
             all == Append(kept, k)
             n == IF Len(all) > PoolConnections THEN 1 ELSE 0
             new == SubSeq(all, n + 1, Len(all))
             v == visible[r].ver + 1
             d == [visible[r] EXCEPT !.is = TRUE, !.keys = new, !.ver = v]
  <1>1. visible \in Views /\ visible[r] \in Managers
    BY DEF RegistryTypeOK, Views
  <1>2. visible[r].keys \in Orders /\ v \in Nat
    BY <1>1 DEF Managers
  <1>3. kept \in Orders /\ k \notin ToSet(kept)
    BY <1>2, RemoveFirstOrder
  <1> HIDE DEF kept
  <1>4. all \in Orders /\ Len(all) = Len(kept) + 1
    BY <1>3, AppendOrder
  <1>5. Len(kept) \in Nat
    BY <1>3, LenProperties DEF Orders
  <1> HIDE DEF all
  <1>6. n \in 0..Len(all)
    BY <1>4, <1>5
  <1>7. visible' = [visible EXCEPT ![r].is = TRUE, ![r].keys = new, ![r].ver = v]
    <2>1. SubSeq(all, IF Len(all) > PoolConnections THEN 2 ELSE 1, Len(all)) = new
      OBVIOUS
    <2>2. visible' = [visible EXCEPT ![r].is = TRUE,
                        ![r].keys = SubSeq(all, IF Len(all) > PoolConnections THEN 2 ELSE 1, Len(all)),
                        ![r].ver = visible[r].ver + 1]
      BY <1>1 DEF Touch, all, kept, Views
    <2> QED
      BY <2>1, <2>2
  <1> HIDE DEF n
  <1>8. new \in Orders
    BY <1>4, <1>6, SubSeqOrder
  <1>0. v >= visible[r].ver /\ \A q \in Realms : visible[q].ver \in Nat
    BY <1>1 DEF Views, Managers
  <1> HIDE DEF new, v
  <1>9. d \in Managers /\ d.plain = visible[r].plain /\ d.is = TRUE /\ d.ver = v
    BY <1>1, <1>2, <1>8 DEF Managers
  <1>10. visible' = [visible EXCEPT ![r] = d]
    BY <1>1, <1>7 DEF Views, Managers
  <1> HIDE DEF d
  <1>11. visible' \in Views
    BY <1>1, <1>9, <1>10 DEF Views
  <1>12. ASSUME NEW q \in Realms
         PROVE  /\ visible'[q].plain = visible[q].plain
                /\ visible'[q].is = TRUE \/ visible'[q].is = visible[q].is
                /\ visible'[q].ver >= visible[q].ver
    <2>1. CASE q = r
      <3>1. visible'[q] = d
        BY <1>1, <1>10, <2>1 DEF Views
      <3> QED
        BY <1>0, <1>9, <2>1, <3>1
    <2>2. CASE q # r
      <3>1. visible'[q] = visible[q]
        BY <1>1, <1>10, <2>2 DEF Views
      <3> QED
        BY <1>0, <3>1
    <2> QED
      BY <2>1, <2>2
  <1> QED
    BY <1>11, <1>12

\* A registration that is under way is disturbed, and stays its thread's.
LEMMA DisturbIs ==
    ASSUME RegistryTypeOK
    PROVE  /\ Disturb \in Reservations /\ Disturb.by = reservation.by
           /\ reservation.by # {} => Disturb.disturbed = TRUE
           /\ reservation.disturbed = TRUE => Disturb.disturbed = TRUE
           /\ NoReservation \in Reservations /\ NoReservation.by = {}
  <1>1. reservation \in Reservations
    BY DEF RegistryTypeOK
  <1>2. NoReservation \in Reservations /\ NoReservation.by = {}
    BY DEF NoReservation, Reservations
  <1>3. CASE reservation.by = {}
    <2>1. Disturb = reservation
      BY <1>3 DEF Disturb, Reserved
    <2> QED
      BY <1>1, <1>2, <1>3, <2>1
  <1>4. CASE reservation.by # {}
    <2> DEFINE d == [reservation EXCEPT !.disturbed = TRUE]
    <2>1. d \in Reservations /\ d.by = reservation.by /\ d.disturbed = TRUE
      BY <1>1 DEF Reservations
    <2>2. Disturb = d
      BY <1>4 DEF Disturb, Reserved
    <2> HIDE DEF d
    <2> QED
      BY <1>2, <2>1, <2>2
  <1> QED
    BY <1>3, <1>4

\* What RegistryTypeOK says of everything but the side table.
RestTypes ==
    /\ registry \in Nat
    /\ accesses \in [Threads -> Int] /\ transitions \in [Threads -> Int]
    /\ reservation \in Reservations
    /\ visible \in Views /\ manager \in Nat /\ retired \in Seq(Views)
    /\ life \in {"live", "dead", "closed", "freed"}
    /\ at \in [Threads -> Locals] /\ ops \in Nat

\* The types of the parts that a step leaves alone.
LEMMA RestKept ==
    ASSUME RegistryTypeOK
    PROVE  /\ (UNCHANGED registry => registry' \in Nat)
           /\ (UNCHANGED accesses => accesses' \in [Threads -> Int])
           /\ (UNCHANGED transitions => transitions' \in [Threads -> Int])
           /\ (UNCHANGED reservation => reservation' \in Reservations)
           /\ (reservation' = Disturb => reservation' \in Reservations)
           /\ (reservation' = NoReservation => reservation' \in Reservations)
           /\ (UNCHANGED visible => visible' \in Views)
           /\ (visible' = Fresh => visible' \in Views)
           /\ (UNCHANGED manager => manager' \in Nat)
           /\ (manager' = manager + 1 => manager' \in Nat)
           /\ (UNCHANGED retired => retired' \in Seq(Views))
           /\ (retired' = Append(retired, visible) => retired' \in Seq(Views))
           /\ (UNCHANGED life => life' \in {"live", "dead", "closed", "freed"})
           /\ (UNCHANGED at => at' \in [Threads -> Locals])
           /\ (UNCHANGED ops => ops' \in Nat)
           /\ (ops' = ops + 1 => ops' \in Nat)
           /\ \A t \in Threads : accesses' = [accesses EXCEPT ![t] = @ + 1]
                                    => accesses' \in [Threads -> Int]
           /\ \A t \in Threads : accesses' = [accesses EXCEPT ![t] = @ - 1]
                                    => accesses' \in [Threads -> Int]
           /\ \A t \in Threads : transitions' = [transitions EXCEPT ![t] = @ + 1]
                                    => transitions' \in [Threads -> Int]
           /\ \A t \in Threads : transitions' = [transitions EXCEPT ![t] = @ - 1]
                                    => transitions' \in [Threads -> Int]
           /\ \A t \in Threads : Moves(t) => at' \in [Threads -> Locals]
  <1>1. Disturb \in Reservations /\ NoReservation \in Reservations /\ Fresh \in Views
    BY DisturbIs, StartTypes
  <1>2. \A t \in Threads : Moves(t) => at' \in [Threads -> Locals]
    BY MovesOne
  <1>3. /\ (UNCHANGED retired => retired' \in Seq(Views))
        /\ (retired' = Append(retired, visible) => retired' \in Seq(Views))
    <2>1. retired \in Seq(Views) /\ visible \in Views
      BY DEF RegistryTypeOK
    <2>2. Append(retired, visible) \in Seq(Views)
      BY <2>1, AppendProperties
    <2> QED
      BY <2>1, <2>2
  <1>4. /\ (UNCHANGED accesses => accesses' \in [Threads -> Int])
        /\ (UNCHANGED transitions => transitions' \in [Threads -> Int])
        /\ \A t \in Threads : accesses' = [accesses EXCEPT ![t] = @ + 1]
                                 => accesses' \in [Threads -> Int]
        /\ \A t \in Threads : accesses' = [accesses EXCEPT ![t] = @ - 1]
                                 => accesses' \in [Threads -> Int]
        /\ \A t \in Threads : transitions' = [transitions EXCEPT ![t] = @ + 1]
                                 => transitions' \in [Threads -> Int]
        /\ \A t \in Threads : transitions' = [transitions EXCEPT ![t] = @ - 1]
                                 => transitions' \in [Threads -> Int]
    BY DEF RegistryTypeOK
  <1>5. /\ (UNCHANGED manager => manager' \in Nat)
        /\ (manager' = manager + 1 => manager' \in Nat)
        /\ (UNCHANGED ops => ops' \in Nat)
        /\ (ops' = ops + 1 => ops' \in Nat)
        /\ (UNCHANGED registry => registry' \in Nat)
    BY DEF RegistryTypeOK
  <1>6. /\ (UNCHANGED life => life' \in {"live", "dead", "closed", "freed"})
        /\ (UNCHANGED at => at' \in [Threads -> Locals])
        /\ (UNCHANGED reservation => reservation' \in Reservations)
        /\ (UNCHANGED visible => visible' \in Views)
    BY DEF RegistryTypeOK
  <1> QED
    BY <1>1, <1>2, <1>3, <1>4, <1>5, <1>6

\* The steps of a thread that leave the side table alone.
LEMMA QuietTypes ==
    ASSUME RegistryTypeOK, NEW t \in Threads,
           \/ StartSend(t) \/ StartClose(t) \/ AdmitOwner(t) \/ BeginRegistration(t)
           \/ RegisterNative(t) \/ CommitRegistration(t) \/ ClearRegistration(t) \/ EnterInner(t)
           \/ CopyProof(t) \/ VerifyProof(t) \/ LookupPool(t) \/ ConnectManager(t)
           \/ ObserveManagers(t) \/ ExitSend(t) \/ CompatSend(t) \/ CompatClose(t)
           \/ CloseOwner(t) \/ StartNativeClose(t) \/ NativeCloseRead(t) \/ StartSetstate(t)
           \/ DetachReference(t) \/ ReplaceManagers(t) \/ ExitTransition(t) \/ StartReap(t)
    PROVE  RestTypes' /\ UNCHANGED native
  <1> USE DEF RestTypes, facade, python, native
  <1>1. ASSUME NEW op \in {"send", "close"}, EnterAccess(t, op) PROVE RestTypes' /\ UNCHANGED native
    BY <1>1, EnterEffect, RestKept DEF EnterAccess
  <1>2. CASE StartSend(t) \/ StartClose(t)
    BY <1>1, <1>2 DEF StartSend, StartClose
  <1>3. CASE AdmitOwner(t)
    <2> DEFINE p == IF Reserved \/ registry # 0 THEN "inner" ELSE "begin"
    <2>1. Go(t, p) /\ p \in PCs
      BY <1>3 DEF AdmitOwner, PCs
    <2>2. Moves(t)
      BY <2>1, GoEffect
    <2> QED
      BY <1>3, <2>2, RestKept DEF AdmitOwner
  <1>4. CASE BeginRegistration(t)
    <2> DEFINE free == ~Reserved /\ Active(transitions) = {} /\ Active(accesses) \subseteq {t}
    <2>1. CASE free
      <3> DEFINE d == [by |-> {t}, depth |-> accesses[t], disturbed |-> FALSE]
      <3>1. reservation' = d /\ Go(t, "native") /\ "native" \in PCs
        BY <1>4, <2>1 DEF BeginRegistration, PCs
      <3>2. d \in Reservations
        BY DEF Reservations, RegistryTypeOK
      <3>3. Moves(t)
        BY <3>1, GoEffect
      <3> HIDE DEF d
      <3> QED
        BY <1>4, <3>1, <3>2, <3>3, RestKept DEF BeginRegistration
    <2>2. CASE ~free
      <3>1. reservation' = Disturb /\ Resume(t)
        BY <1>4, <2>2 DEF BeginRegistration
      <3>2. Moves(t)
        BY <3>1, ResumeEffect
      <3> QED
        BY <1>4, <3>1, <3>2, RestKept DEF BeginRegistration
    <2> QED
      BY <2>1, <2>2
  <1>5. CASE RegisterNative(t)
    BY <1>5, RegisterNativeEffect, RestKept DEF RegisterNative
  <1>6. CASE CommitRegistration(t)
    <2>1. CASE RegistrationValid(t)
      <3>1. Resume(t) /\ reservation' = NoReservation
            /\ registry' = IF Purpose(t) = "admit" THEN at[t].ref ELSE registry
        BY <1>6, <2>1 DEF CommitRegistration
      <3>2. registry' \in Nat
        BY <3>1, LocalParts DEF RegistryTypeOK
      <3>3. Moves(t)
        BY <3>1, ResumeEffect
      <3> QED
        BY <1>6, <3>1, <3>2, <3>3, RestKept DEF CommitRegistration
    <2>2. CASE ~RegistrationValid(t)
      <3>1. Go(t, "drop") /\ "drop" \in PCs /\ UNCHANGED reservation
            /\ registry' = IF registry = at[t].ref THEN 0 ELSE registry
        BY <1>6, <2>2 DEF CommitRegistration, PCs
      <3>2. registry' \in Nat
        BY <3>1 DEF RegistryTypeOK
      <3>3. Moves(t)
        BY <3>1, GoEffect
      <3> QED
        BY <1>6, <3>1, <3>2, <3>3, RestKept DEF CommitRegistration
    <2> QED
      BY <2>1, <2>2
  <1>7. CASE ClearRegistration(t)
    <2>1. Moves(t)
      BY <1>7, ResumeEffect DEF ClearRegistration
    <2>2. reservation' = NoReservation \/ UNCHANGED reservation
      BY <1>7 DEF ClearRegistration
    <2> QED
      BY <1>7, <2>1, <2>2, RestKept DEF ClearRegistration
  <1>8. CASE EnterInner(t)
    BY <1>8, EnterInnerEffect, RestKept DEF EnterInner
  <1>9. CASE CopyProof(t)
    BY <1>9, CopyProofEffect, RestKept DEF CopyProof
  <1>10. CASE VerifyProof(t)
    BY <1>10, VerifyProofEffect, RestKept DEF VerifyProof
  <1>11. CASE LookupPool(t)
    BY <1>11, LookupEffect, RestKept DEF LookupPool
  <1>12. CASE ConnectManager(t)
    <2>1. visible' \in Views
      BY <1>12, TouchTypes, LocalParts DEF ConnectManager
    <2> QED
      BY <1>12, <2>1, ConnectEffect, RestKept DEF ConnectManager
  <1>13. CASE ObserveManagers(t)
    BY <1>13, ObserveEffect, RestKept DEF ObserveManagers
  <1>14. CASE ExitSend(t)
    BY <1>14, LeaveEffect, RestKept DEF ExitSend
  <1>15. CASE CompatSend(t)
    <2>1. visible' \in Views
      BY <1>15, TouchTypes, LocalParts DEF CompatSend
    <2> QED
      BY <1>15, <2>1, LeaveEffect, RestKept DEF CompatSend
  <1>16. CASE CompatClose(t)
    <2>1. Go(t, "dropTable") /\ "dropTable" \in PCs
      BY <1>16 DEF CompatClose, PCs
    <2>2. ASSUME NEW r \in Realms PROVE [visible[r] EXCEPT !.keys = <<>>, !.ver = @ + 1] \in Managers
      <3>1. visible[r] \in Managers /\ <<>> \in Orders
        BY StartTypes DEF RegistryTypeOK, Views
      <3>2. visible[r].ver + 1 \in Nat
        BY <3>1 DEF Managers
      <3> QED
        BY <3>1, <3>2 DEF Managers
    <2>3. visible' \in Views
      BY <1>16, <2>2 DEF CompatClose, Views
    <2>4. Moves(t)
      BY <2>1, GoEffect
    <2> QED
      BY <1>16, <2>3, <2>4, RestKept DEF CompatClose
  <1>17. CASE CloseOwner(t)
    <2>1. registry' \in Nat
      BY <1>17 DEF CloseOwner
    <2> QED
      BY <1>17, <2>1, LeaveEffect, RestKept DEF CloseOwner
  <1>18. CASE StartNativeClose(t)
    BY <1>18, StartNativeCloseEffect, RestKept DEF StartNativeClose
  <1>19. CASE NativeCloseRead(t)
    BY <1>19, CloseReadEffect, RestKept DEF NativeCloseRead
  <1>20. CASE StartSetstate(t)
    BY <1>20, SetstateEffect, RestKept DEF StartSetstate
  <1>21. CASE DetachReference(t)
    <2>1. Moves(t) /\ registry' \in Nat
      BY <1>21, DetachEffect DEF RegistryTypeOK
    <2> QED
      BY <1>21, <2>1, RestKept DEF DetachReference
  <1>22. CASE ReplaceManagers(t)
    <2>1. Go(t, "exit") /\ "exit" \in PCs
      BY <1>22 DEF ReplaceManagers, PCs
    <2>2. Moves(t)
      BY <2>1, GoEffect
    <2> QED
      BY <1>22, <2>2, RestKept DEF ReplaceManagers, NewManagers
  <1>23. CASE ExitTransition(t)
    <2>1. Go(t, "begin") \/ Leave(t)
      BY <1>23 DEF ExitTransition
    <2>2. "begin" \in PCs
      BY DEF PCs
    <2>3. Moves(t)
      BY <2>1, <2>2, GoEffect, LeaveEffect
    <2> QED
      BY <1>23, <2>3, RestKept DEF ExitTransition
  <1>24. CASE StartReap(t)
    BY <1>24, ReapEffect, RestKept DEF StartReap
  <1> QED
    BY <1>2, <1>3, <1>4, <1>5, <1>6, <1>7, <1>8, <1>9, <1>10, <1>11, <1>12, <1>13, <1>14, <1>15,
       <1>16, <1>17, <1>18, <1>19, <1>20, <1>21, <1>22, <1>23, <1>24

\* The steps of a thread that may change the side table.
LEMMA TableTypes ==
    ASSUME RegistryTypeOK, NEW t \in Threads,
           \/ InsertEntry(t) \/ DropRegistration(t) \/ TakePool(t) \/ RecordProof(t)
           \/ CloseTable(t) \/ NativeCloseTake(t) \/ DetachDrop(t) \/ ReapDead(t)
    PROVE  RestTypes' /\ NativeStep
  <1> USE DEF RestTypes, facade, python
  <1>1. at[t].mgr \in Nat /\ at[t].seen \in Views /\ at[t].realm \in Realms /\ at[t].key \in Slots
    BY LocalParts
  <1>2. {"unreserve", "compat", "panic", "connect", "closeOwner", "replace"} \subseteq PCs
    BY DEF PCs
  <1>3. CASE InsertEntry(t)
    <2>1. NativeStep
      BY <1>1, <1>3 DEF InsertEntry, NativeStep, Inserts
    <2> QED
      BY <1>3, <2>1, InsertEffect, RestKept DEF InsertEntry
  <1>4. CASE DropRegistration(t)
    <2>1. NativeStep
      BY <1>4 DEF DropRegistration, RemoveReference, NativeStep
    <2>2. Moves(t)
      BY <1>2, <1>4, GoEffect DEF DropRegistration
    <2> QED
      BY <1>4, <2>1, <2>2, RestKept DEF DropRegistration
  <1>5. CASE TakePool(t)
    <2>1. \/ UNCHANGED native /\ (Go(t, "compat") \/ Go(t, "panic"))
          \/ Go(t, "connect") /\ table # NoEntry /\ AdmitPool(at[t].realm, at[t].key)
      BY <1>5 DEF TakePool
    <2>2. NativeStep
      BY <1>1, <2>1 DEF NativeStep, Admits
    <2>3. Moves(t)
      BY <1>2, <2>1, GoEffect
    <2> QED
      BY <1>5, <2>2, <2>3, RestKept DEF TakePool
  <1>6. CASE RecordProof(t)
    <2>1. Moves(t)
      BY <1>6, RecordEffect
    <2>2. CASE UNCHANGED native
      BY <1>6, <2>1, <2>2, RestKept DEF RecordProof, NativeStep
    <2>3. CASE /\ table # NoEntry /\ table' = [table EXCEPT !.proof = Recorded(t), !.rev = @ + 1]
               /\ UNCHANGED <<made, cleared, nextEpoch>>
      <3>1. Recorded(t) \in Views
        BY <1>1, <2>3, RenewedTypes
      <3>2. Renews
        BY <2>3, <3>1 DEF Renews
      <3> QED
        BY <1>6, <2>1, <3>2, RestKept DEF RecordProof, NativeStep
    <2> QED
      BY <1>6, <2>2, <2>3, RecordEffect
  <1>7. CASE CloseTable(t)
    <2>1. NativeStep
      BY <1>7 DEF CloseTable, NativeStep
    <2>2. Moves(t)
      BY <1>2, <1>7, GoEffect DEF CloseTable
    <2> QED
      BY <1>7, <2>1, <2>2, RestKept DEF CloseTable
  <1>8. CASE NativeCloseTake(t)
    <2>1. Moves(t)
      BY <1>8, CloseTakeEffect
    <2>2. CASE UNCHANGED native
      BY <1>8, <2>1, <2>2, RestKept DEF NativeCloseTake, NativeStep
    <2>3. CASE /\ table # NoEntry /\ table' = Emptied(t) /\ nextEpoch' = nextEpoch + 1
               /\ cleared' = cleared \cup PoolIds(table) /\ UNCHANGED made
      <3>1. Known(at[t].seen) \in Views
        BY <1>1, <2>3, RenewedTypes
      <3>2. Empties
        BY <2>3, <3>1 DEF Empties, Emptied
      <3> QED
        BY <1>8, <2>1, <3>2, RestKept DEF NativeCloseTake, NativeStep
    <2> QED
      BY <1>8, <2>2, <2>3, CloseTakeEffect
  <1>9. CASE DetachDrop(t)
    <2>1. NativeStep
      BY <1>9 DEF DetachDrop, RemoveReference, NativeStep
    <2>2. Moves(t)
      BY <1>2, <1>9, GoEffect DEF DetachDrop
    <2> QED
      BY <1>9, <2>1, <2>2, RestKept DEF DetachDrop
  <1>10. CASE ReapDead(t)
    <2>1. NativeStep
      BY <1>10 DEF ReapDead, NativeStep
    <2>2. Moves(t)
      BY <1>10, LeaveEffect DEF ReapDead
    <2> QED
      BY <1>10, <2>1, <2>2, RestKept DEF ReapDead
  <1> QED
    BY <1>3, <1>4, <1>5, <1>6, <1>7, <1>8, <1>9, <1>10

\* The steps that are no thread's.
LEMMA OtherTypes ==
    ASSUME RegistryTypeOK, Tamper \/ Die \/ Finalize \/ Construct
    PROVE  RestTypes' /\ NativeStep
  <1> USE DEF RestTypes, facade, python
  <1>1. CASE Tamper
    <2>1. PICK r \in Realms : visible' = [visible EXCEPT ![r].is = TRUE, ![r].plain = FALSE,
                                                         ![r].ver = @ + 1]
      BY <1>1 DEF Tamper
    <2> DEFINE v == visible[r].ver + 1
               d == [visible[r] EXCEPT !.is = TRUE, !.plain = FALSE, !.ver = v]
    <2>2. visible \in Views /\ visible[r] \in Managers /\ v \in Nat
      BY DEF RegistryTypeOK, Views, Managers
    <2>3. visible' = [visible EXCEPT ![r] = d]
      BY <2>1, <2>2 DEF Views, Managers
    <2> HIDE DEF v
    <2>4. d \in Managers
      BY <2>2 DEF Managers
    <2> HIDE DEF d
    <2>5. visible' \in Views
      BY <2>2, <2>3, <2>4 DEF Views
    <2> QED
      BY <1>1, <2>5, RestKept DEF Tamper, NativeStep
  <1>2. CASE Die
    BY <1>2, RestKept DEF Die, NativeStep
  <1>3. CASE Finalize
    <2>1. registry' \in Nat
      BY <1>3 DEF Finalize, RegistryTypeOK
    <2>2. NativeStep
      BY <1>3 DEF Finalize, NativeStep
    <2>3. life' \in {"live", "dead", "closed", "freed"}
      BY <1>3 DEF Finalize
    <2> QED
      BY <1>3, <2>1, <2>2, <2>3, RestKept DEF Finalize
  <1>4. CASE Construct
    <2>1. Fresh \in Views /\ manager + 1 \in Nat /\ nextEpoch \in Nat
      BY StartTypes DEF RegistryTypeOK
    <2>2. NativeStep
      BY <1>4, <2>1 DEF Construct, NativeStep, Inserts
    <2> QED
      BY <1>4, <2>1, <2>2, RestKept DEF Construct, NewManagers
  <1> QED
    BY <1>1, <1>2, <1>3, <1>4

\* Every step of the registry keeps the types and the ledger.
LEMMA TypesStep ==
    ASSUME RegistryTypeOK, LedgerInv, [RegistryNext]_registryVars
    PROVE  RegistryTypeOK' /\ LedgerInv'
  <1>1. ASSUME RestTypes', NativeStep PROVE RegistryTypeOK' /\ LedgerInv'
    BY <1>1, LedgerStep DEF RestTypes, RegistryTypeOK
  <1>2. CASE UNCHANGED registryVars
    <2>1. UNCHANGED native
      BY <1>2 DEF registryVars, native
    <2>2. RestTypes'
      BY <1>2, RestKept DEF registryVars, RestTypes
    <2> QED
      BY <1>1, <2>1, <2>2 DEF NativeStep
  <1>3. ASSUME NEW t \in Threads, Step(t) PROVE RegistryTypeOK' /\ LedgerInv'
    <2>1. CASE \/ InsertEntry(t) \/ DropRegistration(t) \/ TakePool(t) \/ RecordProof(t)
               \/ CloseTable(t) \/ NativeCloseTake(t) \/ DetachDrop(t) \/ ReapDead(t)
      BY <1>1, <2>1, TableTypes
    <2>2. CASE ~(\/ InsertEntry(t) \/ DropRegistration(t) \/ TakePool(t) \/ RecordProof(t)
                 \/ CloseTable(t) \/ NativeCloseTake(t) \/ DetachDrop(t) \/ ReapDead(t))
      BY <1>1, <1>3, <2>2, QuietTypes DEF Step, NativeStep
    <2> QED
      BY <2>1, <2>2
  <1>4. CASE Tamper \/ Die \/ Finalize \/ Construct
    BY <1>1, <1>4, OtherTypes
  <1> QED
    BY <1>2, <1>3, <1>4 DEF RegistryNext

\* The variables of the registry keep their types, whatever the threads do, and the
\* ledger of the native pools stays right.
THEOREM RegistryTypeCorrect == RegistrySpec => [](RegistryTypeOK /\ LedgerInv)
  <1>1. RegistryInit => RegistryTypeOK /\ LedgerInv
    BY LedgerInit
  <1>2. RegistryTypeOK /\ LedgerInv /\ [RegistryNext]_registryVars => (RegistryTypeOK /\ LedgerInv)'
    BY TypesStep
  <1> QED
    BY <1>1, <1>2, PTL DEF RegistrySpec

\* The eviction order of adapter_pool: it names each pool of a realm once, and there
\* are never more pools than pool_connections, for any number of them.
THEOREM RegistryLruSound == RegistrySpec => []LruSound
  <1>1. RegistryTypeOK /\ LedgerInv => LruSound
    BY DEF LedgerInv, RealmsSound, RealmOK, LruSound
  <1> QED
    BY <1>1, RegistryTypeCorrect, PTL

\* No pool leaves the table without having been cleared: not by eviction, close,
\* unpickling, a refused registration, the reaper or the end of the adapter.
THEOREM RegistryForgetsNoPool == RegistrySpec => []NoPoolForgotten
  <1>1. RegistryTypeOK /\ LedgerInv => NoPoolForgotten
    BY DEF LedgerInv
  <1> QED
    BY <1>1, RegistryTypeCorrect, PTL

----------------------------------------------------------------------------
(* The marks of the facade, and what they keep apart.                        *)

Holder == reservation.by
Disturbed == reservation.disturbed = TRUE

\* A thread inside owner_access, one inside owner_transition, and the one that has
\* reserved the registration.
Accessing(a) == a.op \in {"send", "close"}
Transitioning(a) == a.pc \in {"detach", "detachDrop", "replace", "exit"}
Reserving(a) ==
    \/ a.pc \in {"native", "insert", "commit", "drop", "unreserve"}
    \/ a.pc \in {"proof", "verify"} /\ a.then = "registration"

\* Which call a thread is in at each of its places.
Phase(a) ==
    /\ a.pc = "idle" => a.op = "none"
    /\ a.pc \in {"admit", "inner", "compat"} => a.op \in {"send", "close"}
    /\ a.pc \in {"lookup", "select", "connect", "observe", "record", "sent", "raise", "panic"}
         => a.op = "send"
    /\ a.pc \in {"dropTable", "closeOwner"} => a.op = "close"
    /\ a.pc \in {"begin", "native", "insert", "commit", "drop", "unreserve", "proof", "verify"}
         => a.op \in {"send", "close", "setstate"}
    /\ a.pc \in {"proof", "verify"} => a.then = "registration" \/ (a.then = "send" /\ a.op = "send")
    /\ Transitioning(a) => a.op = "setstate"
    /\ a.pc \in {"closeRead", "closeTake"} => a.op = "nativeClose"
    /\ a.pc = "reap" => a.op = "elsewhere"

\* The marks are those of the threads, and one thread at most registers.
MarkOf(t) ==
    /\ accesses[t] = IF Accessing(at[t]) THEN 1 ELSE 0
    /\ transitions[t] = IF Transitioning(at[t]) THEN 1 ELSE 0
    /\ t \in Holder <=> Reserving(at[t])
OneHolder == \A v, u \in Holder : v = u

\* While nothing has disturbed a registration, its thread has the adapter alone.
Alone ==
    ~Disturbed => \A v \in Holder, u \in Threads :
        ~Transitioning(at[u]) /\ (u # v => ~Accessing(at[u]))

\* Nobody has an adapter that is dead.
Dead == life # "live" => \A t \in Threads : at[t].pc \in {"idle", "reap"}

\* What a thread remembers of the entry is still so.
HeldBy(t) ==
    /\ at[t].pc = "insert" => table = NoEntry /\ (~Disturbed => at[t].mgr = manager)
    /\ Reserving(at[t]) /\ at[t].pc \in {"verify", "commit"} /\ ~Disturbed
         => table # NoEntry /\ table.ref = at[t].ref
    /\ at[t].pc \in {"drop", "detachDrop"} /\ registry # 0 => registry # at[t].ref
    /\ at[t].pc = "reap" => /\ at[t].epoch < nextEpoch
                            /\ life = "live" /\ table # NoEntry => at[t].epoch # table.epoch

\* An entry of a live adapter is about to be taken away, or it is for the managers
\* that the adapter has and no unpickling is under way.
DoomedBy(t) ==
    \/ at[t].pc \in {"commit", "drop"} /\ Disturbed /\ at[t].ref = table.ref
    \/ at[t].pc = "detach"
    \/ at[t].pc = "detachDrop" /\ at[t].ref = table.ref
Fenced ==
    life = "live" /\ table # NoEntry =>
        \/ \E t \in Threads : DoomedBy(t)
        \/ (\A t \in Threads : ~Transitioning(at[t])) /\ table.mgr = manager

\* The facade's entry is that of the side table, or a close is about to remove it.
Registered ==
    life = "live" /\ registry # 0 =>
        (table # NoEntry /\ table.ref = registry) \/ \E t \in Threads : at[t].pc = "closeOwner"
Numbered == table # NoEntry => table.epoch < nextEpoch /\ table.ref < nextEpoch

CoordInv ==
    /\ \A t \in Threads : Phase(at[t])
    /\ \A t \in Threads : MarkOf(t)
    /\ OneHolder /\ Alone /\ Dead
    /\ \A t \in Threads : HeldBy(t)
    /\ Fenced /\ Registered /\ Numbered

\* The marks of the others stay theirs.
LEMMA MarksStep ==
    ASSUME RegistryTypeOK, CoordInv, NEW t \in Threads, Moves(t), MarkOf(t)',
           \A u \in Threads : u # t => accesses'[u] = accesses[u] /\ transitions'[u] = transitions[u],
           \A u \in Threads : u # t => (u \in reservation'.by <=> u \in reservation.by)
    PROVE  \A u \in Threads : MarkOf(u)'
  <1>1. \A u \in Threads : u # t => at'[u] = at[u]
    BY MovesOne
  <1>2. ASSUME NEW u \in Threads, u # t PROVE MarkOf(u)'
    <2>1. MarkOf(u)
      BY DEF CoordInv
    <2>2. /\ accesses'[u] = IF Accessing(at'[u]) THEN 1 ELSE 0
          /\ transitions'[u] = IF Transitioning(at'[u]) THEN 1 ELSE 0
          /\ u \in reservation'.by <=> Reserving(at'[u])
      BY <1>1, <1>2, <2>1 DEF MarkOf, Holder
    <2> QED
      BY <2>2 DEF MarkOf, Holder, Accessing, Transitioning, Reserving
  <1> QED
    BY <1>2

\* What most steps do: one thread moves, the entry and the facade's stay.
Calm(t) ==
    /\ Moves(t)
    /\ life' = life
    /\ manager' = manager \/ Transitioning(at[t])
    /\ registry' = registry \/ registry' = 0
    /\ table' = NoEntry <=> table = NoEntry
    /\ table # NoEntry => /\ table'.ref = table.ref /\ table'.mgr = table.mgr
                          /\ table'.epoch = table.epoch \/ table'.epoch = nextEpoch
                          /\ table'.epoch < nextEpoch'
    /\ nextEpoch' \in {nextEpoch, nextEpoch + 1}
    /\ \A u \in Threads : u # t => accesses'[u] = accesses[u] /\ transitions'[u] = transitions[u]
    /\ reservation'.by = reservation.by
    /\ Disturbed => Disturbed'

\* Such a step keeps the invariant when the moving thread keeps its own part of it.
LEMMA CalmStep ==
    ASSUME RegistryTypeOK, CoordInv, NEW t \in Threads, Calm(t), MarkOf(t)', Phase(at'[t]),
           HeldBy(t)', table = NoEntry \/ (DoomedBy(t) => DoomedBy(t)'),
           at[t].pc # "closeOwner" \/ registry' = 0,
           life # "live" => at'[t].pc \in {"idle", "reap"},
           Transitioning(at'[t]) =>
               \/ Transitioning(at[t])
               \/ /\ at'[t].pc = "detach" \/ \E v \in Threads : Transitioning(at[v])
                  /\ Holder = {} \/ Disturbed',
           Accessing(at'[t]) => Accessing(at[t]) \/ Holder = {} \/ Disturbed'
    PROVE  CoordInv'
  <1>1. at' \in [Threads -> Locals] /\ \A u \in Threads : u # t => at'[u] = at[u]
    BY MovesOne DEF Calm
  <1>2. \A u \in Threads : Phase(at'[u])
    BY <1>1 DEF CoordInv
  <1>3. \A u \in Threads : MarkOf(u)'
    BY MarksStep DEF Calm
  <1>4. OneHolder'
    BY DEF CoordInv, OneHolder, Holder, Calm
  <1>5. Alone'
    <2>1. SUFFICES ASSUME ~Disturbed', NEW v \in reservation.by, NEW u \in Threads
                   PROVE  ~Transitioning(at'[u]) /\ (u # v => ~Accessing(at'[u]))
      BY DEF Alone, Calm, Holder, Transitioning, Accessing
    <2>2. ~Transitioning(at[u]) /\ (u # v => ~Accessing(at[u]))
      BY <2>1 DEF CoordInv, Alone, Calm, Holder
    <2>3. Holder # {}
      BY <2>1 DEF Holder
    <2> QED
      BY <1>1, <2>1, <2>2, <2>3
  <1>6. Dead'
    BY <1>1 DEF CoordInv, Dead, Calm
  <1>7. ASSUME NEW u \in Threads, u # t PROVE HeldBy(u)'
    <2>1. HeldBy(u) /\ at'[u] = at[u]
      BY <1>1, <1>7 DEF CoordInv
    <2>2. nextEpoch \in Nat /\ at[u].epoch \in Nat
      BY LocalParts DEF RegistryTypeOK
    <2>3. /\ Reserving(at'[u]) /\ at'[u].pc \in {"verify", "commit"} /\ ~Disturbed'
               => table' # NoEntry /\ table'.ref = at'[u].ref
          /\ at'[u].pc \in {"drop", "detachDrop"} /\ registry' # 0 => registry' # at'[u].ref
      BY <2>1 DEF HeldBy, Calm
    <2>5. at'[u].pc = "insert" => table' = NoEntry /\ (~Disturbed' => at'[u].mgr = manager')
      <3>1. SUFFICES ASSUME at[u].pc = "insert" PROVE table' = NoEntry /\ (~Disturbed' => at[u].mgr = manager')
        BY <2>1
      <3>2. u \in Holder
        BY <3>1 DEF CoordInv, MarkOf, Reserving
      <3>3. ~Disturbed => ~Transitioning(at[t])
        BY <3>2 DEF CoordInv, Alone
      <3> QED
        BY <2>1, <3>1, <3>3 DEF HeldBy, Calm
    <2>4. at'[u].pc = "reap" => /\ at'[u].epoch < nextEpoch'
                                /\ life' = "live" /\ table' # NoEntry => at'[u].epoch # table'.epoch
      BY <2>1, <2>2 DEF HeldBy, Calm
    <2> QED
      BY <2>3, <2>4, <2>5 DEF HeldBy, Reserving
  <1>8. \A u \in Threads : HeldBy(u)'
    BY <1>7
  <1>9. Fenced'
    <2> SUFFICES ASSUME life = "live", table # NoEntry
                 PROVE  \/ \E u \in Threads : DoomedBy(u)'
                        \/ (\A u \in Threads : ~Transitioning(at'[u])) /\ table'.mgr = manager'
      BY DEF Fenced, Calm, Transitioning
    <2>1. CASE \E u \in Threads : DoomedBy(u)
      <3>1. PICK u \in Threads : DoomedBy(u)
        BY <2>1
      <3>2. CASE u = t
        BY <3>1, <3>2
      <3>3. CASE u # t
        <4>1. at'[u] = at[u] /\ table'.ref = table.ref /\ (Disturbed => Disturbed')
          BY <1>1, <3>3 DEF Calm
        <4>2. DoomedBy(u)'
          BY <3>1, <4>1 DEF DoomedBy
        <4> QED
          BY <4>2
      <3> QED
        BY <3>2, <3>3
    <2>2. CASE (\A u \in Threads : ~Transitioning(at[u])) /\ table.mgr = manager
      <3>1. CASE at'[t].pc = "detach"
        BY <3>1 DEF DoomedBy
      <3>2. CASE at'[t].pc # "detach"
        BY <1>1, <2>2, <3>2 DEF Calm
      <3> QED
        BY <3>1, <3>2
    <2> QED
      BY <2>1, <2>2 DEF CoordInv, Fenced
  <1>10. Registered'
    BY <1>1 DEF CoordInv, Registered, Calm
  <1>11. Numbered'
    <2> SUFFICES ASSUME table # NoEntry PROVE table'.epoch < nextEpoch' /\ table'.ref < nextEpoch'
      BY DEF Numbered, Calm
    <2>1. table'.epoch < nextEpoch' /\ table'.ref = table.ref /\ nextEpoch' \in {nextEpoch, nextEpoch + 1}
      BY DEF Calm
    <2>2. table.ref < nextEpoch /\ table.ref \in Nat /\ nextEpoch \in Nat
      BY EntryParts DEF CoordInv, Numbered, RegistryTypeOK
    <2> QED
      BY <2>1, <2>2
  <1>12. (\A u \in Threads : Phase(at[u]))'
    BY <1>2 DEF Phase, Transitioning
  <1> QED
    BY <1>3, <1>4, <1>5, <1>6, <1>8, <1>9, <1>10, <1>11, <1>12 DEF CoordInv

\* A step that leaves the side table alone is calm.
LEMMA CalmIs ==
    ASSUME RegistryTypeOK, CoordInv, NEW t \in Threads, Moves(t), UNCHANGED native,
           UNCHANGED <<life, manager, registry>>,
           \A u \in Threads : u # t => accesses'[u] = accesses[u] /\ transitions'[u] = transitions[u],
           reservation' = reservation \/ reservation' = Disturb
    PROVE  Calm(t) /\ (reservation' = Disturb => Holder = {} \/ Disturbed')
  <1>1. /\ Disturb.by = reservation.by /\ reservation.by # {} => Disturb.disturbed = TRUE
        /\ reservation.disturbed = TRUE => Disturb.disturbed = TRUE
    BY DisturbIs
  <1>2. reservation'.by = reservation.by /\ (Disturbed => Disturbed')
        /\ (reservation' = Disturb => Holder = {} \/ Disturbed')
    <2>1. CASE reservation' = reservation
      BY <1>1, <2>1 DEF Disturbed, Holder
    <2>2. CASE reservation' = Disturb
      <3>1. reservation'.by = reservation.by /\ (Disturbed => Disturbed')
        BY <1>1, <2>2, DisturbIs DEF Disturbed
      <3>2. reservation.by # {} => Disturbed'
        BY <2>2, DisturbIs DEF Disturbed
      <3> QED
        BY <3>1, <3>2 DEF Holder
    <2> QED
      BY <2>1, <2>2
  <1>3. table' = table /\ nextEpoch' = nextEpoch
    BY DEF native
  <1>4. table # NoEntry => table.epoch < nextEpoch
    BY DEF CoordInv, Numbered
  <1> QED
    BY <1>2, <1>3, <1>4 DEF Calm

\* A thread inside a call goes on in it, with the marks it has.
LEMMA InnerStep ==
    ASSUME RegistryTypeOK, CoordInv, NEW t \in Threads, Calm(t),
           accesses'[t] = accesses[t], transitions'[t] = transitions[t],
           Accessing(at'[t]) <=> Accessing(at[t]), Reserving(at'[t]) <=> Reserving(at[t]),
           Transitioning(at'[t]) <=> Transitioning(at[t]), Phase(at'[t]), HeldBy(t)',
           at[t].pc \notin {"idle", "reap", "commit", "drop", "detach", "detachDrop", "closeOwner"}
    PROVE  CoordInv'
  <1>1. MarkOf(t)'
    <2>1. MarkOf(t)
      BY DEF CoordInv
    <2>2. /\ accesses'[t] = IF Accessing(at'[t]) THEN 1 ELSE 0
          /\ transitions'[t] = IF Transitioning(at'[t]) THEN 1 ELSE 0
          /\ t \in reservation'.by <=> Reserving(at'[t])
      BY <2>1 DEF MarkOf, Holder, Calm
    <2> QED
      BY <2>2 DEF MarkOf, Holder, Accessing, Transitioning, Reserving
  <1>2. ~DoomedBy(t)
    BY DEF DoomedBy
  <1>3. life = "live"
    BY DEF CoordInv, Dead
  <1> QED
    BY <1>1, <1>2, <1>3, CalmStep

\* A thread that holds nothing of the entry.
LEMMA HoldsNothing ==
    ASSUME NEW t \in Threads, at'[t].pc \notin {"insert", "verify", "commit", "drop", "detachDrop", "reap"}
    PROVE  HeldBy(t)'
  BY DEF HeldBy

\* A thread enters the adapter: its mark is set, and a registration disturbed.
LEMMA EnterStep ==
    ASSUME RegistryTypeOK, CoordInv, NEW t \in Threads, NEW op \in {"send", "close"}, EnterAccess(t, op)
    PROVE  CoordInv'
  <1>1. Moves(t) /\ at'[t].op = op /\ at'[t].pc \in {"admit", "compat"}
    BY EnterEffect
  <1>2. /\ life = "live" /\ at[t].pc = "idle" /\ UNCHANGED native /\ UNCHANGED <<life, manager, registry>>
        /\ accesses' = [accesses EXCEPT ![t] = @ + 1] /\ transitions' = transitions
        /\ reservation' = Disturb
    BY DEF EnterAccess, native, python
  <1>3. accesses \in [Threads -> Int] /\ transitions \in [Threads -> Int]
    BY DEF RegistryTypeOK
  <1>4. \A u \in Threads : u # t => accesses'[u] = accesses[u] /\ transitions'[u] = transitions[u]
    BY <1>2, <1>3
  <1>5. Calm(t) /\ (Holder = {} \/ Disturbed')
    BY <1>1, <1>2, <1>4, CalmIs
  <1>6. Phase(at[t]) /\ MarkOf(t)
    BY DEF CoordInv
  <1>7. at[t].op = "none"
    BY <1>2, <1>6 DEF Phase
  <1>8. /\ ~Accessing(at[t]) /\ ~Transitioning(at[t]) /\ ~Reserving(at[t])
        /\ Accessing(at'[t]) /\ ~Transitioning(at'[t]) /\ ~Reserving(at'[t])
    BY <1>1, <1>2, <1>7 DEF Accessing, Transitioning, Reserving
  <1>9. accesses[t] = 0 /\ transitions[t] = 0 /\ t \notin reservation.by
    BY <1>6, <1>8 DEF MarkOf, Holder
  <1>10. accesses'[t] = 1 /\ transitions'[t] = 0 /\ t \notin reservation'.by
    BY <1>2, <1>3, <1>5, <1>9 DEF Calm
  <1>11. MarkOf(t)'
    BY <1>8, <1>10 DEF MarkOf, Holder, Accessing, Transitioning, Reserving
  <1>12. Phase(at'[t])
    BY <1>1, <1>8 DEF Phase
  <1>13. HeldBy(t)'
    BY <1>1, HoldsNothing
  <1>14. ~DoomedBy(t) /\ at[t].pc # "closeOwner"
    BY <1>2 DEF DoomedBy
  <1> QED
    BY <1>2, <1>5, <1>8, <1>11, <1>12, <1>13, <1>14, CalmStep

\* A send leaves the adapter and takes its mark away.
LEMMA LeaveStep ==
    ASSUME RegistryTypeOK, CoordInv, NEW t \in Threads, ExitSend(t) \/ CompatSend(t)
    PROVE  CoordInv'
  <1>1. /\ at[t].pc \in {"sent", "raise", "compat"} /\ at[t].op = "send" /\ Leave(t)
        /\ UNCHANGED native /\ UNCHANGED <<life, manager, registry>>
        /\ accesses' = [accesses EXCEPT ![t] = @ - 1] /\ transitions' = transitions
        /\ reservation' = reservation
    BY DEF ExitSend, CompatSend, python, native
  <1>2. Moves(t) /\ at'[t].pc = "idle" /\ at'[t].op = "none"
    BY <1>1, LeaveEffect
  <1>3. accesses \in [Threads -> Int] /\ transitions \in [Threads -> Int]
    BY DEF RegistryTypeOK
  <1>4. \A u \in Threads : u # t => accesses'[u] = accesses[u] /\ transitions'[u] = transitions[u]
    BY <1>1, <1>3
  <1>5. Calm(t)
    BY <1>1, <1>2, <1>4, CalmIs
  <1>6. MarkOf(t)
    BY DEF CoordInv
  <1>7. /\ Accessing(at[t]) /\ ~Transitioning(at[t]) /\ ~Reserving(at[t])
        /\ ~Accessing(at'[t]) /\ ~Transitioning(at'[t]) /\ ~Reserving(at'[t])
    BY <1>1, <1>2 DEF Accessing, Transitioning, Reserving
  <1>8. accesses[t] = 1 /\ transitions[t] = 0 /\ t \notin reservation.by
    BY <1>6, <1>7 DEF MarkOf, Holder
  <1>9. accesses'[t] = 0 /\ transitions'[t] = 0 /\ t \notin reservation'.by
    BY <1>1, <1>3, <1>5, <1>8 DEF Calm
  <1>10. MarkOf(t)'
    BY <1>7, <1>9 DEF MarkOf, Holder, Accessing, Transitioning, Reserving
  <1>11. Phase(at'[t])
    BY <1>2, <1>7 DEF Phase
  <1>12. HeldBy(t)'
    BY <1>2, HoldsNothing
  <1>13. ~DoomedBy(t) /\ at[t].pc # "closeOwner"
    BY <1>1 DEF DoomedBy
  <1> QED
    BY <1>2, <1>5, <1>7, <1>10, <1>11, <1>12, <1>13, CalmStep

\* A native close and the reaper have no mark.
LEMMA UnmarkedStart ==
    ASSUME RegistryTypeOK, CoordInv, NEW t \in Threads, StartNativeClose(t) \/ StartReap(t)
    PROVE  CoordInv'
  <1>1. CASE UNCHANGED at
    <2>1. UNCHANGED native /\ UNCHANGED <<registry, accesses, transitions, reservation, manager, life, at>>
      BY <1>1 DEF StartNativeClose, StartReap, facade, python
    <2> QED
      BY <2>1 DEF native, CoordInv, Phase, MarkOf, OneHolder, Alone, Dead, HeldBy, Fenced, DoomedBy,
                  Registered, Numbered, Holder, Disturbed, Accessing, Transitioning, Reserving
  <1>2. CASE at' # at
    <2>1. /\ at[t].pc = "idle" /\ UNCHANGED native /\ UNCHANGED <<life, manager, registry>>
          /\ accesses' = accesses /\ transitions' = transitions /\ reservation' = reservation
      BY DEF StartNativeClose, StartReap, facade, python
    <2>2. /\ Moves(t)
          /\ \/ at'[t].pc = "closeRead" /\ at'[t].op = "nativeClose" /\ life = "live"
             \/ /\ at'[t].pc = "reap" /\ at'[t].op = "elsewhere" /\ table # NoEntry
                /\ life # "live" /\ at'[t].epoch = table.epoch
      BY <1>2, StartNativeCloseEffect, ReapEffect DEF StartNativeClose
    <2>3. Calm(t)
      BY <2>1, <2>2, CalmIs
    <2>4. Phase(at[t]) /\ MarkOf(t)
      BY DEF CoordInv
    <2>5. at[t].op = "none"
      BY <2>1, <2>4 DEF Phase
    <2>6. /\ ~Accessing(at[t]) /\ ~Transitioning(at[t]) /\ ~Reserving(at[t])
          /\ ~Accessing(at'[t]) /\ ~Transitioning(at'[t]) /\ ~Reserving(at'[t])
      BY <2>1, <2>2, <2>5 DEF Accessing, Transitioning, Reserving
    <2>7. accesses'[t] = 0 /\ transitions'[t] = 0 /\ t \notin reservation'.by
      BY <2>1, <2>4, <2>6 DEF MarkOf, Holder
    <2>8. MarkOf(t)'
      BY <2>6, <2>7 DEF MarkOf, Holder, Accessing, Transitioning, Reserving
    <2>9. Phase(at'[t])
      BY <2>2, <2>6 DEF Phase
    <2>10. HeldBy(t)'
      <3>1. CASE at'[t].pc = "closeRead"
        BY <3>1, HoldsNothing
      <3>2. CASE /\ at'[t].pc = "reap" /\ table # NoEntry
                 /\ life # "live" /\ at'[t].epoch = table.epoch
        <4>1. at'[t].epoch < nextEpoch' /\ life' # "live"
          BY <2>1, <3>2 DEF CoordInv, Numbered, native
        <4> QED
          BY <3>2, <4>1 DEF HeldBy
      <3> QED
        BY <2>2, <3>1, <3>2
    <2>11. ~DoomedBy(t) /\ at[t].pc # "closeOwner"
      BY <2>1 DEF DoomedBy
    <2> QED
      BY <2>2, <2>3, <2>6, <2>8, <2>9, <2>10, <2>11, CalmStep
  <1> QED
    BY <1>1, <1>2

\* Unpickling begins: the registration is disturbed, and the first transition will
\* take the entry away.
LEMMA SetstateStep ==
    ASSUME RegistryTypeOK, CoordInv, NEW t \in Threads, StartSetstate(t)
    PROVE  CoordInv'
  <1>1. Moves(t) /\ at'[t].op = "setstate"
        /\ at'[t].pc = IF Active(transitions) = {} THEN "detach" ELSE "replace"
    BY SetstateEffect
  <1>2. /\ life = "live" /\ at[t].pc = "idle" /\ UNCHANGED native /\ UNCHANGED <<life, manager, registry>>
        /\ transitions' = [transitions EXCEPT ![t] = @ + 1] /\ accesses' = accesses
        /\ reservation' = Disturb
    BY DEF StartSetstate, python
  <1>3. accesses \in [Threads -> Int] /\ transitions \in [Threads -> Int]
    BY DEF RegistryTypeOK
  <1>4. \A u \in Threads : u # t => accesses'[u] = accesses[u] /\ transitions'[u] = transitions[u]
    BY <1>2, <1>3
  <1>5. Calm(t) /\ (Holder = {} \/ Disturbed')
    BY <1>1, <1>2, <1>4, CalmIs
  <1>6. Phase(at[t]) /\ MarkOf(t)
    BY DEF CoordInv
  <1>7. at[t].op = "none"
    BY <1>2, <1>6 DEF Phase
  <1>8. /\ ~Accessing(at[t]) /\ ~Transitioning(at[t]) /\ ~Reserving(at[t])
        /\ ~Accessing(at'[t]) /\ Transitioning(at'[t]) /\ ~Reserving(at'[t])
    BY <1>1, <1>2, <1>7 DEF Accessing, Transitioning, Reserving
  <1>9. accesses'[t] = 0 /\ transitions'[t] = 1 /\ t \notin reservation'.by
    <2>1. accesses[t] = 0 /\ transitions[t] = 0 /\ t \notin reservation.by
      BY <1>6, <1>8 DEF MarkOf, Holder
    <2> QED
      BY <1>2, <1>3, <1>5, <2>1 DEF Calm
  <1>10. MarkOf(t)'
    BY <1>8, <1>9 DEF MarkOf, Holder, Accessing, Transitioning, Reserving
  <1>11. Phase(at'[t])
    BY <1>1, <1>8 DEF Phase
  <1>12. HeldBy(t)'
    BY <1>1, HoldsNothing
  <1>13. ~DoomedBy(t) /\ at[t].pc # "closeOwner"
    BY <1>2 DEF DoomedBy
  <1>14. at'[t].pc = "detach" \/ \E v \in Threads : Transitioning(at[v])
    <2>1. CASE Active(transitions) = {}
      BY <1>1, <2>1
    <2>2. CASE Active(transitions) # {}
      <3>1. PICK v \in Threads : transitions[v] > 0
        BY <2>2 DEF Active
      <3>2. Transitioning(at[v])
        BY <3>1 DEF CoordInv, MarkOf
      <3> QED
        BY <3>2
    <2> QED
      BY <2>1, <2>2
  <1> QED
    BY <1>2, <1>5, <1>8, <1>10, <1>11, <1>12, <1>13, <1>14, CalmStep

\* A thread inside a call goes on in it and leaves the side table alone.
LEMMA InnerQuiet ==
    ASSUME RegistryTypeOK, CoordInv, NEW t \in Threads, Moves(t), UNCHANGED native,
           UNCHANGED <<life, manager, registry, accesses, transitions>>,
           reservation' = reservation \/ reservation' = Disturb,
           Accessing(at'[t]) <=> Accessing(at[t]), Reserving(at'[t]) <=> Reserving(at[t]),
           Transitioning(at'[t]) <=> Transitioning(at[t]), Phase(at'[t]), HeldBy(t)',
           at[t].pc \notin {"idle", "reap", "commit", "drop", "detach", "detachDrop", "closeOwner"}
    PROVE  CoordInv'
  <1>1. Calm(t)
    BY CalmIs
  <1> QED
    BY <1>1, InnerStep

\* The steps towards the registration and past it that leave the side table alone.
LEMMA AdmissionStep ==
    ASSUME RegistryTypeOK, CoordInv, NEW t \in Threads, AdmitOwner(t) \/ RegisterNative(t) \/ EnterInner(t)
    PROVE  CoordInv'
  <1> USE DEF python, facade
  <1>1. Phase(at[t]) /\ MarkOf(t) /\ HeldBy(t)
    BY DEF CoordInv
  <1>2. CASE AdmitOwner(t)
    <2> DEFINE p == IF Reserved \/ registry # 0 THEN "inner" ELSE "begin"
    <2>1. Go(t, p) /\ p \in PCs /\ p \in {"inner", "begin"} /\ at[t].pc = "admit"
      BY <1>2 DEF AdmitOwner, PCs
    <2>2. Moves(t) /\ at'[t].pc = p /\ at'[t].op = at[t].op /\ at[t].op \in {"send", "close"}
      BY <1>1, <2>1, GoEffect DEF SameCall, Phase
    <2> HIDE DEF p
    <2>3. /\ Accessing(at'[t]) <=> Accessing(at[t])
          /\ ~Reserving(at'[t]) /\ ~Reserving(at[t]) /\ ~Transitioning(at'[t]) /\ ~Transitioning(at[t])
      BY <2>1, <2>2 DEF Accessing, Reserving, Transitioning
    <2>4. Phase(at'[t])
      BY <2>1, <2>2, <2>3 DEF Phase
    <2>5. HeldBy(t)'
      BY <2>1, <2>2, HoldsNothing
    <2>6. /\ UNCHANGED native /\ UNCHANGED <<life, manager, registry, accesses, transitions>>
          /\ reservation' = Disturb
      BY <1>2 DEF AdmitOwner
    <2> QED
      BY <2>1, <2>2, <2>3, <2>4, <2>5, <2>6, InnerQuiet
  <1>3. CASE RegisterNative(t)
    <2>1. Moves(t) /\ at'[t].op = at[t].op /\ at[t].pc = "native"
      BY <1>3, RegisterNativeEffect DEF RegisterNative, SameCall
    <2>2. \/ at'[t].pc = "proof" /\ at'[t].then = "registration"
          \/ at'[t].pc \in {"unreserve", "insert"} /\ at'[t].mgr = manager /\ table = NoEntry
      BY <1>3, RegisterNativeEffect
    <2>3. at[t].op \in {"send", "close", "setstate"}
      BY <1>1, <2>1 DEF Phase
    <2>4. /\ Accessing(at'[t]) <=> Accessing(at[t])
          /\ Reserving(at'[t]) /\ Reserving(at[t]) /\ ~Transitioning(at'[t]) /\ ~Transitioning(at[t])
      BY <2>1, <2>2 DEF Accessing, Reserving, Transitioning
    <2>5. Phase(at'[t])
      BY <2>1, <2>2, <2>3, <2>4 DEF Phase
    <2>6. UNCHANGED native /\ UNCHANGED <<life, manager, registry, accesses, transitions, reservation>>
      BY <1>3 DEF RegisterNative
    <2>7. HeldBy(t)'
      <3>1. CASE at'[t].pc = "insert"
        BY <2>2, <2>6, <3>1 DEF HeldBy, native
      <3>2. CASE at'[t].pc # "insert"
        BY <2>2, <3>2, HoldsNothing
      <3> QED
        BY <3>1, <3>2
    <2> QED
      BY <2>1, <2>4, <2>5, <2>6, <2>7, InnerQuiet
  <1>4. CASE EnterInner(t)
    <2>1. /\ Moves(t) /\ at'[t].op = at[t].op /\ at[t].pc = "inner" /\ at'[t].then = "send"
          /\ at'[t].pc = IF Allowed /\ at[t].op = "send" THEN "proof" ELSE "compat"
      BY <1>4, EnterInnerEffect DEF EnterInner, SameCall
    <2>2. at[t].op \in {"send", "close"} /\ at'[t].pc \in {"proof", "compat"}
          /\ (at'[t].pc = "proof" => at[t].op = "send")
      BY <1>1, <2>1 DEF Phase
    <2>3. /\ Accessing(at'[t]) <=> Accessing(at[t])
          /\ ~Reserving(at'[t]) /\ ~Reserving(at[t]) /\ ~Transitioning(at'[t]) /\ ~Transitioning(at[t])
      BY <2>1, <2>2 DEF Accessing, Reserving, Transitioning
    <2>4. Phase(at'[t])
      BY <2>1, <2>2, <2>3 DEF Phase
    <2>5. HeldBy(t)'
      BY <2>2, HoldsNothing
    <2>6. /\ UNCHANGED native /\ UNCHANGED <<life, manager, registry, accesses, transitions>>
          /\ reservation' = Disturb
      BY <1>4 DEF EnterInner
    <2> QED
      BY <2>1, <2>3, <2>4, <2>5, <2>6, InnerQuiet
  <1> QED
    BY <1>2, <1>3, <1>4

\* The proof of the managers, of a send or of a registration.
LEMMA ProofStep ==
    ASSUME RegistryTypeOK, CoordInv, NEW t \in Threads, CopyProof(t) \/ VerifyProof(t)
    PROVE  CoordInv'
  <1> USE DEF python, facade
  <1>1. Phase(at[t]) /\ HeldBy(t)
    BY DEF CoordInv
  <1>2. at[t].pc \in {"proof", "verify"}
    BY DEF CopyProof, VerifyProof
  <1>3. at[t].then = "registration" \/ (at[t].then = "send" /\ at[t].op = "send")
    BY <1>1, <1>2 DEF Phase
  <1>4. at[t].op \in {"send", "close", "setstate"}
    BY <1>1, <1>2 DEF Phase
  <1>5. Moves(t) /\ at'[t].op = at[t].op /\ at'[t].then = at[t].then
    BY CopyProofEffect, VerifyProofEffect DEF SameCall
  <1>6. UNCHANGED native /\ UNCHANGED <<life, manager, registry, accesses, transitions, reservation>>
    BY DEF CopyProof, VerifyProof
  <1>7. /\ at'[t].pc \in {"unreserve", "compat", "proof", "verify", "lookup", "commit"}
        /\ at'[t].pc \in {"unreserve", "commit"} => at[t].then = "registration"
        /\ at'[t].pc \in {"compat", "lookup"} => at[t].then # "registration"
    <2>1. ProofFallback(t) = IF at[t].then = "registration" THEN "unreserve" ELSE "compat"
      BY DEF ProofFallback
    <2>2. CASE CopyProof(t)
      BY <2>1, <2>2, CopyProofEffect
    <2>3. CASE VerifyProof(t)
      BY <1>3, <2>1, <2>3, VerifyProofEffect
    <2> QED
      BY <2>2, <2>3
  <1>8. /\ Accessing(at'[t]) <=> Accessing(at[t])
        /\ ~Transitioning(at'[t]) /\ ~Transitioning(at[t])
    BY <1>2, <1>5, <1>7 DEF Accessing, Transitioning
  <1>9. Reserving(at'[t]) <=> Reserving(at[t])
    BY <1>2, <1>5, <1>7 DEF Reserving
  <1>10. Phase(at'[t])
    BY <1>3, <1>4, <1>5, <1>7, <1>8 DEF Phase
  <1>11. HeldBy(t)'
    <2>1. table' = table /\ (Disturbed <=> Disturbed')
      BY <1>6 DEF native, Disturbed
    <2>2. CASE at'[t].pc \notin {"verify", "commit"}
      BY <1>7, <2>2, HoldsNothing
    <2>3. CASE CopyProof(t) /\ at'[t].pc = "verify"
      <3>1. table # NoEntry /\ at'[t].ref = table.ref
        BY <1>3, <2>3, CopyProofEffect DEF ProofFallback
      <3> QED
        BY <2>1, <2>3, <3>1 DEF HeldBy
    <2>4. CASE VerifyProof(t) /\ at'[t].pc = "commit"
      <3>1. at[t].pc = "verify" /\ at'[t].ref = at[t].ref /\ Reserving(at[t])
        BY <1>7, <2>4, VerifyProofEffect DEF VerifyProof, Reserving
      <3>2. ~Disturbed => table # NoEntry /\ table.ref = at[t].ref
        BY <1>1, <3>1 DEF HeldBy
      <3> QED
        BY <2>1, <2>4, <3>1, <3>2 DEF HeldBy
    <2>5. \/ CopyProof(t) /\ at'[t].pc # "commit"
          \/ VerifyProof(t) /\ at'[t].pc # "verify"
      <3>1. CASE CopyProof(t)
        BY <3>1, CopyProofEffect DEF ProofFallback
      <3>2. CASE VerifyProof(t)
        BY <3>2, VerifyProofEffect DEF ProofFallback
      <3> QED
        BY <3>1, <3>2
    <2> QED
      BY <2>2, <2>3, <2>4, <2>5
  <1> QED
    BY <1>2, <1>5, <1>6, <1>8, <1>9, <1>10, <1>11, InnerQuiet

\* A change of the entry that keeps its reference and its managers is calm.
LEMMA CalmTable ==
    ASSUME RegistryTypeOK, CoordInv, NEW t \in Threads, Moves(t), Admits \/ Renews \/ Empties,
           LedgerInv, UNCHANGED <<life, manager, registry, accesses, transitions, reservation>>
    PROVE  Calm(t)
  <1>1. table # NoEntry /\ table.epoch < nextEpoch /\ nextEpoch \in Nat
    BY DEF Admits, Renews, Empties, CoordInv, Numbered, RegistryTypeOK
  <1>2. /\ table' \in Entries /\ table'.ref = table.ref /\ table'.mgr = table.mgr
        /\ \/ table'.epoch = table.epoch /\ nextEpoch' = nextEpoch
           \/ table'.epoch = nextEpoch /\ nextEpoch' = nextEpoch + 1
    <2>1. CASE Admits
      <3>1. PICK r \in Realms, k \in Slots : table # NoEntry /\ AdmitPool(r, k)
        BY <2>1 DEF Admits
      <3>2. nextEpoch' = nextEpoch
        BY <3>1 DEF AdmitPool
      <3> QED
        BY <3>1, <3>2, AdmitsLedger
    <2>2. CASE Renews
      BY <2>2, RenewsEntry DEF Renews
    <2>3. CASE Empties
      BY <2>3, EmptiesEntry DEF Empties
    <2> QED
      BY <2>1, <2>2, <2>3
  <1>3. table' # NoEntry
    BY <1>2 DEF Entries, NoEntry
  <1>4. table'.epoch < nextEpoch'
    BY <1>1, <1>2
  <1>5. reservation'.by = reservation.by /\ (Disturbed => Disturbed')
    BY DEF Disturbed
  <1> QED
    BY <1>1, <1>2, <1>3, <1>4, <1>5 DEF Calm

\* A native send from the lookup of its pool to the record of the managers.
LEMMA SendStep ==
    ASSUME RegistryTypeOK, LedgerInv, CoordInv, NEW t \in Threads,
           LookupPool(t) \/ TakePool(t) \/ ConnectManager(t) \/ ObserveManagers(t) \/ RecordProof(t)
    PROVE  CoordInv'
  <1> USE DEF python, facade
  <1>1. Phase(at[t])
    BY DEF CoordInv
  <1>2. at[t].pc \in {"lookup", "select", "connect", "observe", "record"} /\ at[t].op = "send"
    BY <1>1 DEF LookupPool, TakePool, ConnectManager, ObserveManagers, RecordProof, Phase
  <1>3. UNCHANGED <<life, manager, registry, accesses, transitions, reservation>>
    BY DEF LookupPool, TakePool, ConnectManager, ObserveManagers, RecordProof
  <1>4. /\ Moves(t) /\ at'[t].op = "send"
        /\ at'[t].pc \in {"compat", "select", "panic", "connect", "observe", "raise", "record", "sent"}
    <2>1. CASE LookupPool(t)
      BY <1>2, <2>1, LookupEffect DEF SameCall
    <2>2. CASE TakePool(t)
      <3>1. Go(t, "compat") \/ Go(t, "panic") \/ Go(t, "connect")
        BY <2>2 DEF TakePool
      <3>2. {"compat", "panic", "connect"} \subseteq PCs
        BY DEF PCs
      <3> QED
        BY <1>2, <3>1, <3>2, GoEffect DEF SameCall
    <2>3. CASE ConnectManager(t)
      BY <1>2, <2>3, ConnectEffect DEF SameCall
    <2>4. CASE ObserveManagers(t)
      BY <1>2, <2>4, ObserveEffect DEF SameCall
    <2>5. CASE RecordProof(t)
      BY <1>2, <2>5, RecordEffect DEF SameCall
    <2> QED
      BY <2>1, <2>2, <2>3, <2>4, <2>5
  <1>5. UNCHANGED native \/ Admits \/ Renews
    <2>1. at[t].realm \in Realms /\ at[t].key \in Slots /\ at[t].seen \in Views
      BY LocalParts
    <2>2. CASE TakePool(t)
      BY <2>1, <2>2 DEF TakePool, Admits
    <2>3. CASE RecordProof(t)
      <3>1. CASE /\ table # NoEntry /\ table' = [table EXCEPT !.proof = Recorded(t), !.rev = @ + 1]
                 /\ UNCHANGED <<made, cleared, nextEpoch>>
        <4>1. Recorded(t) \in Views
          BY <2>1, <3>1, RenewedTypes
        <4> QED
          BY <3>1, <4>1 DEF Renews
      <3> QED
        BY <2>3, <3>1, RecordEffect
    <2> QED
      BY <2>2, <2>3 DEF LookupPool, ConnectManager, ObserveManagers
  <1>6. /\ Accessing(at'[t]) /\ Accessing(at[t]) /\ ~Reserving(at'[t]) /\ ~Reserving(at[t])
        /\ ~Transitioning(at'[t]) /\ ~Transitioning(at[t])
    BY <1>2, <1>4 DEF Accessing, Reserving, Transitioning
  <1>7. Phase(at'[t])
    BY <1>4, <1>6 DEF Phase
  <1>8. HeldBy(t)'
    BY <1>4, HoldsNothing
  <1>9. Calm(t)
    BY <1>3, <1>4, <1>5, CalmIs, CalmTable
  <1> QED
    BY <1>2, <1>3, <1>6, <1>7, <1>8, <1>9, InnerStep

\* The native close, which keeps the entry, and the Python part of close.
LEMMA NativeCloseStep ==
    ASSUME RegistryTypeOK, LedgerInv, CoordInv, NEW t \in Threads,
           NativeCloseRead(t) \/ NativeCloseTake(t) \/ CompatClose(t)
    PROVE  CoordInv'
  <1> USE DEF python, facade
  <1>1. Phase(at[t])
    BY DEF CoordInv
  <1>2. UNCHANGED <<life, manager, registry, accesses, transitions, reservation>>
    BY DEF NativeCloseRead, NativeCloseTake, CompatClose
  <1>3. CASE CompatClose(t)
    <2>1. at[t].pc = "compat" /\ at[t].op = "close" /\ Go(t, "dropTable") /\ "dropTable" \in PCs
      BY <1>3 DEF CompatClose, PCs
    <2>2. Moves(t) /\ at'[t].pc = "dropTable" /\ at'[t].op = "close"
      BY <2>1, GoEffect DEF SameCall
    <2>3. /\ Accessing(at'[t]) /\ Accessing(at[t]) /\ ~Reserving(at'[t]) /\ ~Reserving(at[t])
          /\ ~Transitioning(at'[t]) /\ ~Transitioning(at[t])
      BY <2>1, <2>2 DEF Accessing, Reserving, Transitioning
    <2>4. Phase(at'[t])
      BY <2>2, <2>3 DEF Phase
    <2>5. HeldBy(t)'
      BY <2>2, HoldsNothing
    <2>6. UNCHANGED native
      BY <1>3 DEF CompatClose
    <2> QED
      BY <1>2, <2>1, <2>2, <2>3, <2>4, <2>5, <2>6, InnerQuiet
  <1>4. CASE NativeCloseRead(t) \/ NativeCloseTake(t)
    <2>1. at[t].pc \in {"closeRead", "closeTake"} /\ at[t].op = "nativeClose"
      BY <1>1, <1>4 DEF NativeCloseRead, NativeCloseTake, Phase
    <2>2. /\ Moves(t)
          /\ \/ at'[t].pc = "idle" /\ at'[t].op = "none"
             \/ at'[t].pc \in {"closeRead", "closeTake"} /\ at'[t].op = "nativeClose"
      BY <1>4, <2>1, CloseReadEffect, CloseTakeEffect DEF SameCall
    <2>3. UNCHANGED native \/ Empties
      <3>1. CASE NativeCloseRead(t)
        BY <3>1 DEF NativeCloseRead
      <3>2. CASE /\ table # NoEntry /\ table' = Emptied(t) /\ nextEpoch' = nextEpoch + 1
                 /\ cleared' = cleared \cup PoolIds(table) /\ UNCHANGED made
        <4>1. at[t].seen \in Views
          BY LocalParts
        <4>2. Known(at[t].seen) \in Views
          BY <3>2, <4>1, RenewedTypes
        <4> QED
          BY <3>2, <4>2 DEF Empties, Emptied
      <3> QED
        BY <1>4, <3>1, <3>2, CloseTakeEffect
    <2>4. /\ ~Accessing(at'[t]) /\ ~Accessing(at[t]) /\ ~Reserving(at'[t]) /\ ~Reserving(at[t])
          /\ ~Transitioning(at'[t]) /\ ~Transitioning(at[t])
      BY <2>1, <2>2 DEF Accessing, Reserving, Transitioning
    <2>5. Phase(at'[t])
      BY <2>2, <2>4 DEF Phase
    <2>6. HeldBy(t)'
      BY <2>2, HoldsNothing
    <2>7. Calm(t)
      BY <1>2, <2>2, <2>3, CalmIs, CalmTable
    <2> QED
      BY <1>2, <2>1, <2>4, <2>5, <2>6, <2>7, InnerStep
  <1> QED
    BY <1>3, <1>4

\* A registration is refused before it has begun, or is not valid any more.
LEMMA RefusedStep ==
    ASSUME RegistryTypeOK, CoordInv, NEW t \in Threads,
           \/ BeginRegistration(t) /\ reservation' = Disturb /\ Resume(t)
           \/ CommitRegistration(t) /\ ~RegistrationValid(t)
    PROVE  CoordInv'
  <1> USE DEF python, facade
  <1>1. Phase(at[t]) /\ MarkOf(t)
    BY DEF CoordInv
  <1>2. CASE BeginRegistration(t) /\ reservation' = Disturb /\ Resume(t)
    <2>1. /\ at[t].pc = "begin" /\ UNCHANGED native
          /\ UNCHANGED <<life, manager, registry, accesses, transitions>>
      BY <1>2 DEF BeginRegistration
    <2>2. at[t].op \in {"send", "close", "setstate"}
      BY <1>1, <2>1 DEF Phase
    <2>3. /\ Moves(t)
          /\ \/ at'[t].pc = "inner" /\ at'[t].op = at[t].op /\ at[t].op # "setstate"
             \/ at'[t].pc = "idle" /\ at'[t].op = "none" /\ at[t].op = "setstate"
      BY <1>2, <2>2, ResumeEffect DEF SameCall
    <2>4. /\ Accessing(at'[t]) <=> Accessing(at[t])
          /\ ~Reserving(at'[t]) /\ ~Reserving(at[t]) /\ ~Transitioning(at'[t]) /\ ~Transitioning(at[t])
      BY <2>1, <2>2, <2>3 DEF Accessing, Reserving, Transitioning
    <2>5. Phase(at'[t])
      BY <2>2, <2>3, <2>4 DEF Phase
    <2>6. HeldBy(t)'
      BY <2>3, HoldsNothing
    <2> QED
      BY <1>2, <2>1, <2>3, <2>4, <2>5, <2>6, InnerQuiet
  <1>3. CASE CommitRegistration(t) /\ ~RegistrationValid(t)
    <2>1. /\ at[t].pc = "commit" /\ Go(t, "drop") /\ "drop" \in PCs
          /\ UNCHANGED native /\ UNCHANGED <<life, manager, accesses, transitions, reservation>>
          /\ registry' = IF registry = at[t].ref THEN 0 ELSE registry
      BY <1>3 DEF CommitRegistration, PCs
    <2>2. Moves(t) /\ at'[t].pc = "drop" /\ at'[t].op = at[t].op /\ at'[t].ref = at[t].ref
      BY <2>1, GoEffect DEF SameCall
    <2>3. at[t].op \in {"send", "close", "setstate"}
      BY <1>1, <2>1 DEF Phase
    <2>4. /\ Accessing(at'[t]) <=> Accessing(at[t])
          /\ Reserving(at'[t]) /\ Reserving(at[t]) /\ ~Transitioning(at'[t]) /\ ~Transitioning(at[t])
      BY <2>1, <2>2 DEF Accessing, Reserving, Transitioning
    <2>5. Phase(at'[t])
      BY <2>2, <2>3, <2>4 DEF Phase
    <2>6. HeldBy(t)'
      BY <2>1, <2>2 DEF HeldBy
    <2>7. MarkOf(t)'
      <3>1. accesses'[t] = accesses[t] /\ transitions'[t] = transitions[t] /\ reservation' = reservation
        BY <2>1
      <3>2. /\ accesses'[t] = IF Accessing(at'[t]) THEN 1 ELSE 0
            /\ transitions'[t] = IF Transitioning(at'[t]) THEN 1 ELSE 0
            /\ t \in reservation'.by <=> Reserving(at'[t])
        BY <1>1, <2>4, <3>1 DEF MarkOf, Holder
      <3> QED
        BY <3>2 DEF MarkOf, Holder, Accessing, Transitioning, Reserving
    <2>8. DoomedBy(t) => DoomedBy(t)'
      BY <2>1, <2>2 DEF DoomedBy, Disturbed, native
    <2>9. Calm(t)
      <3>1. table # NoEntry => table.epoch < nextEpoch
        BY DEF CoordInv, Numbered
      <3> QED
        BY <2>1, <2>2, <3>1 DEF Calm, Disturbed, native
    <2>10. life = "live"
      BY <2>1 DEF CoordInv, Dead
    <2> QED
      BY <2>1, <2>4, <2>5, <2>6, <2>7, <2>8, <2>9, <2>10, CalmStep
  <1> QED
    BY <1>2, <1>3

\* The end of close: the facade's entry goes and the thread's mark with it.
LEMMA CloseOwnerStep ==
    ASSUME RegistryTypeOK, CoordInv, NEW t \in Threads, CloseOwner(t)
    PROVE  CoordInv'
  <1> USE DEF python, facade
  <1>1. Phase(at[t]) /\ MarkOf(t)
    BY DEF CoordInv
  <1>2. /\ at[t].pc = "closeOwner" /\ Leave(t) /\ registry' = 0
        /\ UNCHANGED native /\ UNCHANGED <<life, manager, transitions, reservation>>
        /\ accesses' = [accesses EXCEPT ![t] = @ - 1]
    BY DEF CloseOwner
  <1>3. Moves(t) /\ at'[t].pc = "idle" /\ at'[t].op = "none" /\ at[t].op = "close"
    BY <1>1, <1>2, LeaveEffect DEF Phase
  <1>4. /\ Accessing(at[t]) /\ ~Transitioning(at[t]) /\ ~Reserving(at[t])
        /\ ~Accessing(at'[t]) /\ ~Transitioning(at'[t]) /\ ~Reserving(at'[t])
    BY <1>2, <1>3 DEF Accessing, Transitioning, Reserving
  <1>5. accesses \in [Threads -> Int]
    BY DEF RegistryTypeOK
  <1>6. /\ accesses'[t] = 0 /\ transitions'[t] = 0 /\ t \notin reservation'.by
        /\ \A u \in Threads : u # t => accesses'[u] = accesses[u] /\ transitions'[u] = transitions[u]
    <2>1. accesses[t] = 1 /\ transitions[t] = 0 /\ t \notin reservation.by
      BY <1>1, <1>4 DEF MarkOf, Holder
    <2> QED
      BY <1>2, <1>5, <2>1
  <1>7. MarkOf(t)'
    BY <1>4, <1>6 DEF MarkOf, Holder, Accessing, Transitioning, Reserving
  <1>8. Phase(at'[t])
    BY <1>3, <1>4 DEF Phase
  <1>9. HeldBy(t)'
    BY <1>3, HoldsNothing
  <1>10. Calm(t)
    <2>1. table # NoEntry => table.epoch < nextEpoch
      BY DEF CoordInv, Numbered
    <2> QED
      BY <1>2, <1>3, <1>6, <2>1 DEF Calm, Disturbed, native
  <1>11. ~DoomedBy(t)
    BY <1>2 DEF DoomedBy
  <1> QED
    BY <1>2, <1>3, <1>4, <1>7, <1>8, <1>9, <1>10, <1>11, CalmStep

\* The steps of an unpickling but the drop of the entry: it remembers the entry it has to
\* drop, replaces the managers and gives up its mark.
LEMMA TransitionStep ==
    ASSUME RegistryTypeOK, CoordInv, NEW t \in Threads,
           DetachReference(t) \/ ReplaceManagers(t) \/ ExitTransition(t)
    PROVE  CoordInv'
  <1> USE DEF python, facade
  <1>1. Phase(at[t]) /\ MarkOf(t)
    BY DEF CoordInv
  <1>2. /\ at[t].pc \in {"detach", "replace", "exit"} /\ UNCHANGED native
        /\ UNCHANGED <<life, accesses, reservation>>
    BY DEF DetachReference, ReplaceManagers, ExitTransition
  <1>3. at[t].op = "setstate" /\ Transitioning(at[t]) /\ ~Accessing(at[t]) /\ ~Reserving(at[t])
    BY <1>1, <1>2 DEF Phase, Transitioning, Accessing, Reserving
  <1>4. accesses[t] = 0 /\ transitions[t] = 1 /\ t \notin reservation.by
    BY <1>1, <1>3 DEF MarkOf, Holder
  <1>5. life = "live"
    BY <1>2 DEF CoordInv, Dead
  <1>6. table # NoEntry => table.epoch < nextEpoch
    BY DEF CoordInv, Numbered
  <1>7. ASSUME Moves(t), at'[t].op = "setstate", Transitioning(at'[t]), UNCHANGED transitions,
               registry' = registry \/ registry' = 0, HeldBy(t)',
               table = NoEntry \/ (DoomedBy(t) => DoomedBy(t)')
        PROVE  CoordInv'
    <2>1. ~Accessing(at'[t]) /\ ~Reserving(at'[t])
      BY <1>7 DEF Transitioning, Accessing, Reserving
    <2>2. accesses'[t] = 0 /\ transitions'[t] = 1 /\ t \notin reservation'.by
      BY <1>2, <1>4, <1>7
    <2>3. MarkOf(t)'
      BY <1>7, <2>1, <2>2 DEF MarkOf, Holder, Accessing, Transitioning, Reserving
    <2>4. Phase(at'[t])
      BY <1>7 DEF Phase, Transitioning
    <2>5. Calm(t)
      BY <1>2, <1>3, <1>6, <1>7 DEF Calm, Disturbed, native
    <2> QED
      BY <1>2, <1>3, <1>5, <1>7, <2>1, <2>3, <2>4, <2>5, CalmStep
  <1>8. CASE DetachReference(t)
    <2>1. Moves(t) /\ at'[t].op = "setstate" /\ UNCHANGED transitions
      BY <1>3, <1>8, DetachEffect DEF SameCall, DetachReference
    <2>2. CASE table = NoEntry /\ registry' = 0 /\ at'[t].pc = "replace"
      <3>1. HeldBy(t)' /\ Transitioning(at'[t])
        BY <2>2, HoldsNothing DEF Transitioning
      <3> QED
        BY <1>7, <2>1, <2>2, <3>1
    <2>3. CASE /\ table # NoEntry /\ at'[t].pc = "detachDrop" /\ at'[t].ref = table.ref
               /\ registry' = IF registry = table.ref THEN 0 ELSE registry
      <3>1. HeldBy(t)' /\ Transitioning(at'[t])
        BY <2>3 DEF HeldBy, Transitioning
      <3>2. DoomedBy(t)'
        BY <1>2, <2>3 DEF DoomedBy, native
      <3> QED
        BY <1>7, <2>1, <2>3, <3>1, <3>2
    <2> QED
      BY <1>8, <2>2, <2>3, DetachEffect
  <1>9. CASE ReplaceManagers(t)
    <2>1. Go(t, "exit") /\ "exit" \in PCs /\ UNCHANGED <<transitions, registry>> /\ at[t].pc = "replace"
      BY <1>9 DEF ReplaceManagers, PCs
    <2>2. Moves(t) /\ at'[t].op = "setstate" /\ at'[t].pc = "exit"
      BY <1>3, <2>1, GoEffect DEF SameCall
    <2>3. HeldBy(t)' /\ Transitioning(at'[t]) /\ ~DoomedBy(t)
      BY <2>1, <2>2, HoldsNothing DEF Transitioning, DoomedBy
    <2> QED
      BY <1>7, <2>1, <2>2, <2>3
  <1>10. CASE ExitTransition(t)
    <2>1. /\ Go(t, "begin") \/ Leave(t)
          /\ "begin" \in PCs /\ UNCHANGED <<manager, registry>> /\ at[t].pc = "exit"
          /\ transitions' = [transitions EXCEPT ![t] = @ - 1]
      BY <1>10 DEF ExitTransition, PCs
    <2>2. /\ Moves(t)
          /\ \/ at'[t].pc = "begin" /\ at'[t].op = "setstate"
             \/ at'[t].pc = "idle" /\ at'[t].op = "none"
      BY <1>3, <2>1, GoEffect, LeaveEffect DEF SameCall
    <2>3. ~Accessing(at'[t]) /\ ~Reserving(at'[t]) /\ ~Transitioning(at'[t])
      BY <2>2 DEF Accessing, Reserving, Transitioning
    <2>4. transitions \in [Threads -> Int]
      BY DEF RegistryTypeOK
    <2>5. /\ accesses'[t] = 0 /\ transitions'[t] = 0 /\ t \notin reservation'.by
          /\ \A u \in Threads : u # t => accesses'[u] = accesses[u] /\ transitions'[u] = transitions[u]
      BY <1>2, <1>4, <2>1, <2>4
    <2>6. MarkOf(t)'
      BY <2>3, <2>5 DEF MarkOf, Holder, Accessing, Transitioning, Reserving
    <2>7. Phase(at'[t])
      BY <2>2, <2>3 DEF Phase
    <2>8. HeldBy(t)' /\ ~DoomedBy(t)
      BY <2>1, <2>2, HoldsNothing DEF DoomedBy
    <2>9. Calm(t)
      BY <1>2, <1>6, <2>1, <2>2, <2>5 DEF Calm, Disturbed, native
    <2> QED
      BY <1>2, <1>5, <2>3, <2>6, <2>7, <2>8, <2>9, CalmStep
  <1> QED
    BY <1>8, <1>9, <1>10

\* The entry is taken away by a thread that keeps its marks.
LEMMA RemovalStep ==
    ASSUME RegistryTypeOK, CoordInv, NEW t \in Threads, Moves(t), RemoveEntry,
           UNCHANGED <<life, manager, registry, accesses, transitions, reservation>>,
           Accessing(at'[t]) <=> Accessing(at[t]), Reserving(at'[t]) <=> Reserving(at[t]),
           Transitioning(at'[t]) <=> Transitioning(at[t]), Phase(at'[t]), HeldBy(t)',
           Disturbed \/ Holder \subseteq {t}, Registered',
           life # "live" => at'[t].pc \in {"idle", "reap"}
    PROVE  CoordInv'
  <1>1. at' \in [Threads -> Locals] /\ \A u \in Threads : u # t => at'[u] = at[u]
    BY MovesOne
  <1>2. table' = NoEntry /\ nextEpoch' = nextEpoch
    BY DEF RemoveEntry
  <1>3. (\A u \in Threads : Phase(at[u]))'
    <2>1. \A u \in Threads : Phase(at'[u])
      BY <1>1 DEF CoordInv
    <2> QED
      BY <2>1 DEF Phase, Transitioning
  <1>4. \A u \in Threads : MarkOf(u)'
    <2>1. MarkOf(t)'
      <3>1. MarkOf(t)
        BY DEF CoordInv
      <3>2. /\ accesses'[t] = IF Accessing(at'[t]) THEN 1 ELSE 0
            /\ transitions'[t] = IF Transitioning(at'[t]) THEN 1 ELSE 0
            /\ t \in reservation'.by <=> Reserving(at'[t])
        BY <3>1 DEF MarkOf, Holder
      <3> QED
        BY <3>2 DEF MarkOf, Holder, Accessing, Transitioning, Reserving
    <2> QED
      BY <2>1, MarksStep
  <1>5. OneHolder'
    BY DEF CoordInv, OneHolder, Holder
  <1>6. Alone'
    <2>1. SUFFICES ASSUME ~Disturbed, NEW v \in reservation.by, NEW u \in Threads
                   PROVE  ~Transitioning(at'[u]) /\ (u # v => ~Accessing(at'[u]))
      BY DEF Alone, Holder, Disturbed, Transitioning, Accessing
    <2>2. ~Transitioning(at[u]) /\ (u # v => ~Accessing(at[u]))
      BY <2>1 DEF CoordInv, Alone, Holder
    <2> QED
      BY <1>1, <2>2
  <1>7. Dead'
    BY <1>1 DEF CoordInv, Dead
  <1>8. ASSUME NEW u \in Threads, u # t PROVE HeldBy(u)'
    <2>1. HeldBy(u) /\ at'[u] = at[u] /\ MarkOf(u)
      BY <1>1, <1>8 DEF CoordInv
    <2>2. Reserving(at[u]) => Disturbed
      BY <1>8, <2>1 DEF MarkOf
    <2>3. /\ at'[u].pc = "insert" => table' = NoEntry /\ (~Disturbed' => at'[u].mgr = manager')
          /\ Reserving(at'[u]) /\ at'[u].pc \in {"verify", "commit"} /\ ~Disturbed'
               => table' # NoEntry /\ table'.ref = at'[u].ref
          /\ at'[u].pc \in {"drop", "detachDrop"} /\ registry' # 0 => registry' # at'[u].ref
          /\ at'[u].pc = "reap" => /\ at'[u].epoch < nextEpoch'
                                   /\ life' = "live" /\ table' # NoEntry => at'[u].epoch # table'.epoch
      BY <1>2, <2>1, <2>2 DEF HeldBy, Disturbed
    <2> QED
      BY <2>3 DEF HeldBy, Reserving
  <1>9. Fenced' /\ Numbered'
    BY <1>2 DEF Fenced, Numbered
  <1>10. \A u \in Threads : HeldBy(u)'
    BY <1>8
  <1> QED
    BY <1>3, <1>4, <1>5, <1>6, <1>7, <1>9, <1>10 DEF CoordInv

\* close drops the entry that is there, whosever it is.
LEMMA CloseTableStep ==
    ASSUME RegistryTypeOK, CoordInv, NEW t \in Threads, CloseTable(t)
    PROVE  CoordInv'
  <1> USE DEF python, facade
  <1>1. Phase(at[t]) /\ MarkOf(t)
    BY DEF CoordInv
  <1>2. /\ at[t].pc = "dropTable" /\ Go(t, "closeOwner") /\ "closeOwner" \in PCs
        /\ UNCHANGED <<life, manager, registry, accesses, transitions, reservation>>
    BY DEF CloseTable, PCs
  <1>3. Moves(t) /\ at'[t].pc = "closeOwner" /\ at'[t].op = "close" /\ at[t].op = "close"
    BY <1>1, <1>2, GoEffect DEF SameCall, Phase
  <1>4. /\ Accessing(at'[t]) /\ Accessing(at[t]) /\ ~Reserving(at'[t]) /\ ~Reserving(at[t])
        /\ ~Transitioning(at'[t]) /\ ~Transitioning(at[t])
    BY <1>2, <1>3 DEF Accessing, Reserving, Transitioning
  <1>5. Phase(at'[t])
    BY <1>3, <1>4 DEF Phase
  <1>6. HeldBy(t)'
    BY <1>3, HoldsNothing
  <1>7. CASE UNCHANGED native
    BY <1>2, <1>3, <1>4, <1>5, <1>6, <1>7, InnerQuiet
  <1>8. CASE RemoveEntry
    <2>1. Disturbed \/ Holder \subseteq {t}
      BY <1>4 DEF CoordInv, Alone
    <2>2. Registered'
      BY <1>3 DEF Registered
    <2>3. life = "live"
      BY <1>2 DEF CoordInv, Dead
    <2> QED
      BY <1>2, <1>3, <1>4, <1>5, <1>6, <1>8, <2>1, <2>2, <2>3, RemovalStep
  <1> QED
    BY <1>7, <1>8 DEF CloseTable

\* A refused registration and an unpickling drop the entry they remember, and no other.
LEMMA DropStep ==
    ASSUME RegistryTypeOK, CoordInv, NEW t \in Threads, DropRegistration(t) \/ DetachDrop(t)
    PROVE  CoordInv'
  <1> USE DEF python, facade
  <1>1. Phase(at[t]) /\ MarkOf(t) /\ HeldBy(t)
    BY DEF CoordInv
  <1>2. /\ \/ at[t].pc = "drop" /\ Go(t, "unreserve")
           \/ at[t].pc = "detachDrop" /\ Go(t, "replace")
        /\ RemoveReference(at[t].ref)
        /\ UNCHANGED <<life, manager, registry, accesses, transitions, reservation>>
    BY DEF DropRegistration, DetachDrop
  <1>3. "unreserve" \in PCs /\ "replace" \in PCs
    BY DEF PCs
  <1>4. /\ Moves(t) /\ at'[t].op = at[t].op
        /\ \/ at[t].pc = "drop" /\ at'[t].pc = "unreserve"
           \/ at[t].pc = "detachDrop" /\ at'[t].pc = "replace"
    BY <1>2, <1>3, GoEffect DEF SameCall
  <1>5. at[t].op \in {"send", "close", "setstate"} /\ (at[t].pc = "detachDrop" => at[t].op = "setstate")
    BY <1>1, <1>4 DEF Phase, Transitioning
  <1>6. /\ Accessing(at'[t]) <=> Accessing(at[t])
        /\ Reserving(at'[t]) <=> Reserving(at[t])
        /\ Transitioning(at'[t]) <=> Transitioning(at[t])
    BY <1>4 DEF Accessing, Reserving, Transitioning
  <1>7. Phase(at'[t])
    BY <1>4, <1>5 DEF Phase, Transitioning
  <1>8. HeldBy(t)'
    BY <1>4, HoldsNothing
  <1>9. life = "live"
    BY <1>4 DEF CoordInv, Dead
  <1>10. CASE table # NoEntry /\ table.ref = at[t].ref
    <2>1. RemoveEntry
      BY <1>2, <1>10 DEF RemoveReference
    <2>2. Disturbed \/ Holder \subseteq {t}
      <3>1. CASE at[t].pc = "drop"
        <4>1. t \in Holder
          BY <1>1, <3>1 DEF MarkOf, Reserving
        <4> QED
          BY <4>1 DEF CoordInv, OneHolder
      <3>2. CASE at[t].pc = "detachDrop"
        <4>1. Transitioning(at[t])
          BY <3>2 DEF Transitioning
        <4> QED
          BY <4>1 DEF CoordInv, Alone
      <3> QED
        BY <1>4, <3>1, <3>2
    <2>3. Registered'
      <3>1. SUFFICES ASSUME registry # 0 PROVE \E u \in Threads : at'[u].pc = "closeOwner"
        BY <1>2 DEF Registered
      <3>2. registry # table.ref
        BY <1>1, <1>4, <1>10, <3>1 DEF HeldBy
      <3>3. PICK u \in Threads : at[u].pc = "closeOwner"
        BY <1>9, <3>1, <3>2 DEF CoordInv, Registered
      <3>4. u # t
        BY <1>4, <3>3
      <3>5. at'[u] = at[u]
        BY <1>4, <3>4, MovesOne
      <3> QED
        BY <3>3, <3>5
    <2> QED
      BY <1>2, <1>4, <1>6, <1>7, <1>8, <1>9, <2>1, <2>2, <2>3, RemovalStep
  <1>11. CASE ~(table # NoEntry /\ table.ref = at[t].ref)
    <2>1. UNCHANGED native
      BY <1>2, <1>11 DEF RemoveReference
    <2>2. table = NoEntry \/ ~DoomedBy(t)
      BY <1>4, <1>11 DEF DoomedBy
    <2>3. Calm(t)
      BY <1>2, <1>4, <2>1, CalmIs
    <2>4. MarkOf(t)'
      <3>1. /\ accesses'[t] = IF Accessing(at'[t]) THEN 1 ELSE 0
            /\ transitions'[t] = IF Transitioning(at'[t]) THEN 1 ELSE 0
            /\ t \in reservation'.by <=> Reserving(at'[t])
        BY <1>1, <1>2, <1>6 DEF MarkOf, Holder
      <3> QED
        BY <3>1 DEF MarkOf, Holder, Accessing, Transitioning, Reserving
    <2> QED
      BY <1>4, <1>6, <1>7, <1>8, <1>9, <2>2, <2>3, <2>4, CalmStep
  <1> QED
    BY <1>10, <1>11

\* The reaper drops the entry of the adapter that it found dead, and no later one.
LEMMA ReapStep ==
    ASSUME RegistryTypeOK, CoordInv, NEW t \in Threads, ReapDead(t)
    PROVE  CoordInv'
  <1> USE DEF python, facade
  <1>1. Phase(at[t]) /\ MarkOf(t) /\ HeldBy(t)
    BY DEF CoordInv
  <1>2. /\ at[t].pc = "reap" /\ Leave(t)
        /\ UNCHANGED <<life, manager, registry, accesses, transitions, reservation>>
    BY DEF ReapDead
  <1>3. Moves(t) /\ at'[t].pc = "idle" /\ at'[t].op = "none" /\ at[t].op = "elsewhere"
    BY <1>1, <1>2, LeaveEffect DEF Phase
  <1>4. /\ ~Accessing(at'[t]) /\ ~Accessing(at[t]) /\ ~Reserving(at'[t]) /\ ~Reserving(at[t])
        /\ ~Transitioning(at'[t]) /\ ~Transitioning(at[t])
    BY <1>2, <1>3 DEF Accessing, Reserving, Transitioning
  <1>5. Phase(at'[t])
    BY <1>3, <1>4 DEF Phase
  <1>6. HeldBy(t)'
    BY <1>3, HoldsNothing
  <1>7. CASE table # NoEntry /\ table.epoch = at[t].epoch
    <2>1. RemoveEntry
      BY <1>7 DEF ReapDead
    <2>2. life # "live"
      BY <1>1, <1>2, <1>7 DEF HeldBy
    <2>3. Holder \subseteq {t}
      <3>1. \A u \in Threads : ~Reserving(at[u])
        BY <2>2 DEF CoordInv, Dead, Reserving
      <3>2. Holder \subseteq Threads
        BY DEF RegistryTypeOK, Reservations, Holder
      <3> QED
        BY <3>1, <3>2 DEF CoordInv, MarkOf
    <2>4. Registered'
      BY <1>2, <2>2 DEF Registered
    <2> QED
      BY <1>2, <1>3, <1>4, <1>5, <1>6, <2>1, <2>3, <2>4, RemovalStep
  <1>8. CASE ~(table # NoEntry /\ table.epoch = at[t].epoch)
    <2>1. UNCHANGED native
      BY <1>8 DEF ReapDead
    <2>2. Calm(t)
      BY <1>2, <1>3, <2>1, CalmIs
    <2>3. MarkOf(t)'
      <3>1. accesses'[t] = 0 /\ transitions'[t] = 0 /\ t \notin reservation'.by
        BY <1>1, <1>2, <1>4 DEF MarkOf, Holder
      <3> QED
        BY <1>4, <3>1 DEF MarkOf, Holder, Accessing, Transitioning, Reserving
    <2>4. ~DoomedBy(t)
      BY <1>2 DEF DoomedBy
    <2> QED
      BY <1>2, <1>3, <1>4, <1>5, <1>6, <2>2, <2>3, <2>4, CalmStep
  <1> QED
    BY <1>7, <1>8

\* The parts of the invariant put together after a step of one thread of a live adapter.
LEMMA Together ==
    ASSUME RegistryTypeOK, CoordInv, NEW t \in Threads, Moves(t), Phase(at'[t]), MarkOf(t)',
           UNCHANGED <<accesses, transitions>>, life = "live", life' = life,
           \A u \in Threads : u # t => (u \in reservation'.by <=> u \in reservation.by),
           OneHolder', Alone', HeldBy(t)', \A u \in Threads : u # t => HeldBy(u)',
           Fenced', Registered', Numbered'
    PROVE  CoordInv'
  <1>1. \A u \in Threads : u # t => at'[u] = at[u]
    BY MovesOne
  <1>2. (\A u \in Threads : Phase(at[u]))'
    <2>1. \A u \in Threads : Phase(at'[u])
      BY <1>1 DEF CoordInv
    <2> QED
      BY <2>1 DEF Phase, Transitioning
  <1>3. \A u \in Threads : MarkOf(u)'
    BY MarksStep
  <1>4. Dead'
    BY DEF Dead
  <1> QED
    BY <1>2, <1>3, <1>4 DEF CoordInv

\* The registration is reserved for a thread that has the adapter alone.
LEMMA ReserveStep ==
    ASSUME RegistryTypeOK, CoordInv, NEW t \in Threads, BeginRegistration(t),
           ~Reserved, Active(transitions) = {}, Active(accesses) \subseteq {t}
    PROVE  CoordInv'
  <1> USE DEF python, facade
  <1>1. Phase(at[t]) /\ MarkOf(t)
    BY DEF CoordInv
  <1>2. /\ at[t].pc = "begin" /\ Go(t, "native") /\ "native" \in PCs /\ UNCHANGED native
        /\ UNCHANGED <<life, manager, registry, accesses, transitions>>
        /\ reservation' = [by |-> {t}, depth |-> accesses[t], disturbed |-> FALSE]
    BY DEF BeginRegistration, PCs
  <1>3. Moves(t) /\ at'[t].pc = "native" /\ at'[t].op = at[t].op
    BY <1>2, GoEffect DEF SameCall
  <1>4. \A u \in Threads : u # t => at'[u] = at[u]
    BY <1>3, MovesOne
  <1>5. at[t].op \in {"send", "close", "setstate"}
    BY <1>1, <1>2 DEF Phase
  <1>6. /\ Accessing(at'[t]) <=> Accessing(at[t])
        /\ Reserving(at'[t]) /\ ~Transitioning(at'[t]) /\ ~Transitioning(at[t])
    BY <1>2, <1>3 DEF Accessing, Reserving, Transitioning
  <1>7. Phase(at'[t])
    BY <1>3, <1>5, <1>6 DEF Phase
  <1>8. reservation'.by = {t} /\ Holder = {}
    BY <1>2 DEF Reserved, Holder
  <1>9. MarkOf(t)'
    <2>1. /\ accesses'[t] = IF Accessing(at'[t]) THEN 1 ELSE 0
          /\ transitions'[t] = IF Transitioning(at'[t]) THEN 1 ELSE 0
          /\ t \in reservation'.by <=> Reserving(at'[t])
      BY <1>1, <1>2, <1>6, <1>8 DEF MarkOf
    <2> QED
      BY <2>1 DEF MarkOf, Holder, Accessing, Transitioning, Reserving
  <1>10. \A u \in Threads : ~Reserving(at[u])
    BY <1>8 DEF CoordInv, MarkOf
  <1>11. \A u \in Threads : ~Transitioning(at[u])
    BY DEF Active, CoordInv, MarkOf
  <1>12. \A u \in Threads : u # t => ~Accessing(at[u])
    <2> SUFFICES ASSUME NEW u \in Threads, u # t, Accessing(at[u]) PROVE FALSE
      OBVIOUS
    <2>1. accesses[u] = 1
      BY DEF CoordInv, MarkOf
    <2> QED
      BY <2>1 DEF Active
  <1>13. Alone'
    <2> SUFFICES ASSUME NEW v \in {t}, NEW u \in Threads
                 PROVE  ~Transitioning(at'[u]) /\ (u # v => ~Accessing(at'[u]))
      BY <1>8 DEF Alone, Holder, Transitioning, Accessing
    <2> QED
      BY <1>4, <1>6, <1>11, <1>12
  <1>14. OneHolder'
    BY <1>8 DEF OneHolder, Holder
  <1>15. HeldBy(t)'
    BY <1>3, HoldsNothing
  <1>16. ASSUME NEW u \in Threads, u # t PROVE HeldBy(u)'
    <2>1. HeldBy(u) /\ at'[u] = at[u] /\ ~Reserving(at[u])
      BY <1>4, <1>10, <1>16 DEF CoordInv
    <2>2. at[u].pc \notin {"insert", "commit"}
      BY <2>1 DEF Reserving
    <2>3. ~Reserving(at'[u])
      BY <2>1
    <2> QED
      BY <1>2, <2>1, <2>2, <2>3 DEF HeldBy, Reserving, native
  <1>17. Fenced'
    <2> SUFFICES ASSUME life = "live", table # NoEntry
                 PROVE  (\A u \in Threads : ~Transitioning(at'[u])) /\ table.mgr = manager
      BY <1>2 DEF Fenced, Transitioning, native
    <2>1. \A u \in Threads : ~DoomedBy(u)
      BY <1>10, <1>11 DEF DoomedBy, Reserving, Transitioning
    <2>2. table.mgr = manager
      BY <2>1 DEF CoordInv, Fenced
    <2> QED
      BY <1>4, <1>6, <1>11, <2>2
  <1>18. Registered'
    <2> SUFFICES ASSUME life = "live", registry # 0
                 PROVE  (table # NoEntry /\ table.ref = registry) \/ \E u \in Threads : at'[u].pc = "closeOwner"
      BY <1>2 DEF Registered, native
    <2>1. CASE \E u \in Threads : at[u].pc = "closeOwner"
      BY <1>2, <1>4, <2>1
    <2> QED
      BY <2>1 DEF CoordInv, Registered
  <1>19. Numbered'
    BY <1>2 DEF CoordInv, Numbered, native
  <1>20. life = "live"
    BY <1>2 DEF CoordInv, Dead
  <1>21. \A u \in Threads : u # t => (u \in reservation'.by <=> u \in reservation.by)
    BY <1>8 DEF Holder
  <1> QED
    BY <1>2, <1>3, <1>7, <1>9, <1>13, <1>14, <1>15, <1>16, <1>17, <1>18, <1>19, <1>20, <1>21, Together

\* The new entry: it is for the managers that the adapter has, or its registration
\* will be refused.
LEMMA InsertStep ==
    ASSUME RegistryTypeOK, CoordInv, NEW t \in Threads, InsertEntry(t)
    PROVE  CoordInv'
  <1> USE DEF python, facade
  <1>1. Phase(at[t]) /\ MarkOf(t) /\ HeldBy(t)
    BY DEF CoordInv
  <1>2. /\ at[t].pc = "insert" /\ Insert(at[t].mgr, at[t].seen)
        /\ UNCHANGED <<life, manager, registry, accesses, transitions, reservation>>
    BY DEF InsertEntry
  <1>3. Moves(t) /\ at'[t].pc = "commit" /\ at'[t].op = at[t].op /\ at'[t].ref = nextEpoch
    BY InsertEffect DEF SameCall
  <1>4. \A u \in Threads : u # t => at'[u] = at[u]
    BY <1>3, MovesOne
  <1>5. at[t].op \in {"send", "close", "setstate"}
    BY <1>1, <1>2 DEF Phase
  <1>6. /\ Accessing(at'[t]) <=> Accessing(at[t])
        /\ Reserving(at'[t]) /\ Reserving(at[t]) /\ ~Transitioning(at'[t]) /\ ~Transitioning(at[t])
    BY <1>2, <1>3 DEF Accessing, Reserving, Transitioning
  <1>7. Phase(at'[t])
    BY <1>3, <1>5, <1>6 DEF Phase
  <1>8. t \in Holder /\ \A u \in Threads : u # t => ~Reserving(at[u])
    BY <1>1, <1>6 DEF CoordInv, MarkOf, OneHolder
  <1>9. MarkOf(t)'
    <2>1. /\ accesses'[t] = IF Accessing(at'[t]) THEN 1 ELSE 0
          /\ transitions'[t] = IF Transitioning(at'[t]) THEN 1 ELSE 0
          /\ t \in reservation'.by <=> Reserving(at'[t])
      BY <1>1, <1>2, <1>6 DEF MarkOf, Holder
    <2> QED
      BY <2>1 DEF MarkOf, Holder, Accessing, Transitioning, Reserving
  <1>10. OneHolder'
    BY <1>2 DEF CoordInv, OneHolder, Holder
  <1>11. Alone'
    <2>1. SUFFICES ASSUME ~Disturbed, NEW v \in reservation.by, NEW u \in Threads
                   PROVE  ~Transitioning(at'[u]) /\ (u # v => ~Accessing(at'[u]))
      BY <1>2 DEF Alone, Holder, Disturbed, Transitioning, Accessing
    <2>2. ~Transitioning(at[u]) /\ (u # v => ~Accessing(at[u]))
      BY <2>1 DEF CoordInv, Alone, Holder
    <2> QED
      BY <1>4, <1>6, <2>2
  <1>12. /\ table' \in Entries /\ table'.epoch = nextEpoch /\ table'.ref = nextEpoch
         /\ table'.mgr = at[t].mgr /\ nextEpoch' = nextEpoch + 1
    <2>1. at[t].mgr \in Nat /\ at[t].seen \in Views
      BY LocalParts
    <2>2. nextEpoch' = nextEpoch + 1
      BY <1>2 DEF Insert
    <2> QED
      BY <1>2, <2>1, <2>2, EntryInserted
  <1>13. table' # NoEntry /\ nextEpoch \in Nat
    BY <1>12 DEF Entries, NoEntry, RegistryTypeOK
  <1>14. HeldBy(t)'
    BY <1>3, <1>12, <1>13 DEF HeldBy
  <1>15. ASSUME NEW u \in Threads, u # t PROVE HeldBy(u)'
    <2>1. HeldBy(u) /\ at'[u] = at[u] /\ ~Reserving(at[u]) /\ at[u].epoch \in Nat
      BY <1>4, <1>8, <1>15, LocalParts DEF CoordInv
    <2>2. at[u].pc \notin {"insert", "commit"} /\ ~Reserving(at'[u])
      BY <2>1 DEF Reserving
    <2>3. at[u].pc \in {"drop", "detachDrop"} /\ registry' # 0 => registry' # at[u].ref
      BY <1>2, <2>1 DEF HeldBy
    <2>4. at[u].pc = "reap" => at[u].epoch < nextEpoch' /\ at[u].epoch # table'.epoch
      BY <1>12, <1>13, <2>1 DEF HeldBy
    <2> QED
      BY <2>1, <2>2, <2>3, <2>4 DEF HeldBy, Reserving
  <1>16. Fenced'
    <2>1. CASE Disturbed
      <3>1. DoomedBy(t)'
        BY <1>2, <1>3, <1>12, <2>1 DEF DoomedBy, Disturbed
      <3> QED
        BY <3>1 DEF Fenced
    <2>2. CASE ~Disturbed
      <3>1. \A u \in Threads : ~Transitioning(at[u])
        BY <1>8, <2>2 DEF CoordInv, Alone
      <3>2. at[t].mgr = manager
        BY <1>1, <1>2, <2>2 DEF HeldBy
      <3>3. \A u \in Threads : ~Transitioning(at'[u])
        BY <1>4, <1>6, <3>1
      <3> QED
        BY <1>2, <1>12, <3>2, <3>3 DEF Fenced, Transitioning
    <2> QED
      BY <2>1, <2>2
  <1>17. Registered'
    <2> SUFFICES ASSUME life = "live", registry # 0 PROVE \E u \in Threads : at'[u].pc = "closeOwner"
      BY <1>2 DEF Registered
    <2>1. table = NoEntry
      BY <1>1, <1>2 DEF HeldBy
    <2>2. PICK u \in Threads : at[u].pc = "closeOwner"
      BY <2>1 DEF CoordInv, Registered
    <2> QED
      BY <1>2, <1>4, <2>2
  <1>18. Numbered'
    BY <1>12, <1>13 DEF Numbered
  <1>19. life = "live"
    BY <1>2 DEF CoordInv, Dead
  <1> QED
    BY <1>2, <1>3, <1>7, <1>9, <1>10, <1>11, <1>14, <1>15, <1>16, <1>17, <1>18, <1>19, Together

\* The reservation is given back: by a registration that is committed, or one that
\* came to nothing.
LEMMA ReleaseStep ==
    ASSUME RegistryTypeOK, CoordInv, NEW t \in Threads,
           (CommitRegistration(t) /\ RegistrationValid(t)) \/ ClearRegistration(t)
    PROVE  CoordInv'
  <1> USE DEF python, facade
  <1>1. Phase(at[t]) /\ MarkOf(t) /\ HeldBy(t)
    BY DEF CoordInv
  <1>2. at[t].pc \in {"commit", "unreserve"} /\ Resume(t) /\ UNCHANGED native
        /\ UNCHANGED <<life, manager, accesses, transitions>>
    BY DEF CommitRegistration, ClearRegistration
  <1>3. Reserving(at[t]) /\ ~Transitioning(at[t])
    BY <1>2 DEF Reserving, Transitioning
  <1>4. t \in Holder /\ \A u \in Threads : u # t => ~Reserving(at[u])
    BY <1>1, <1>3 DEF CoordInv, MarkOf, OneHolder
  <1>5. reservation.by = {t}
    BY <1>4 DEF CoordInv, OneHolder, Holder
  <1>6. reservation' = NoReservation /\ reservation'.by = {}
    <2>1. reservation' = NoReservation
      BY <1>5 DEF CommitRegistration, ClearRegistration
    <2> QED
      BY <2>1 DEF NoReservation
  <1>7. at[t].op \in {"send", "close", "setstate"}
    BY <1>1, <1>2 DEF Phase
  <1>8. /\ Moves(t)
        /\ \/ at'[t].pc = "inner" /\ at'[t].op = at[t].op /\ at[t].op # "setstate"
           \/ at'[t].pc = "idle" /\ at'[t].op = "none" /\ at[t].op = "setstate"
    BY <1>2, <1>7, ResumeEffect DEF SameCall
  <1>9. \A u \in Threads : u # t => at'[u] = at[u]
    BY <1>8, MovesOne
  <1>10. /\ Accessing(at'[t]) <=> Accessing(at[t])
         /\ ~Reserving(at'[t]) /\ ~Transitioning(at'[t])
    BY <1>7, <1>8 DEF Accessing, Reserving, Transitioning
  <1>11. Phase(at'[t])
    BY <1>7, <1>8, <1>10 DEF Phase
  <1>12. MarkOf(t)'
    <2>1. /\ accesses'[t] = IF Accessing(at'[t]) THEN 1 ELSE 0
          /\ transitions'[t] = IF Transitioning(at'[t]) THEN 1 ELSE 0
          /\ t \in reservation'.by <=> Reserving(at'[t])
      BY <1>1, <1>2, <1>3, <1>6, <1>10 DEF MarkOf
    <2> QED
      BY <2>1 DEF MarkOf, Holder, Accessing, Transitioning, Reserving
  <1>13. OneHolder' /\ Alone'
    BY <1>6 DEF OneHolder, Alone, Holder
  <1>14. HeldBy(t)'
    BY <1>8, HoldsNothing
  <1>15. CASE CommitRegistration(t) /\ RegistrationValid(t)
    <2>1. at[t].pc = "commit" /\ registry' = IF at[t].op = "setstate" THEN registry ELSE at[t].ref
      BY <1>15 DEF CommitRegistration, Purpose
    <2>2. ~Disturbed /\ Active(transitions) = {}
      BY <1>15 DEF RegistrationValid, Disturbed
    <2>3. \A u \in Threads : ~Transitioning(at[u])
      BY <2>2 DEF Active, CoordInv, MarkOf
    <2>4. table # NoEntry /\ table.ref = at[t].ref
      BY <1>1, <1>3, <2>1, <2>2 DEF HeldBy
    <2>5. registry' = registry \/ registry' = table.ref
      BY <2>1, <2>4
    <2>6. ASSUME NEW u \in Threads, u # t PROVE HeldBy(u)'
      <3>1. HeldBy(u) /\ at'[u] = at[u] /\ ~Reserving(at[u]) /\ ~Transitioning(at[u])
        BY <1>4, <1>9, <2>3, <2>6 DEF CoordInv
      <3>2. at[u].pc \notin {"insert", "commit", "drop", "detachDrop"} /\ ~Reserving(at'[u])
        BY <3>1 DEF Reserving, Transitioning
      <3> QED
        BY <1>2, <3>1, <3>2 DEF HeldBy, Reserving, native
    <2>7. Fenced'
      <3>1. \A u \in Threads : ~DoomedBy(u)
        BY <2>2, <2>3 DEF DoomedBy, Transitioning
      <3>2. \A u \in Threads : ~Transitioning(at'[u])
        BY <1>9, <1>10, <2>3
      <3> QED
        BY <1>2, <3>1, <3>2 DEF CoordInv, Fenced, Transitioning, native
    <2>8. Registered'
      <3>1. CASE registry' = table.ref
        BY <1>2, <2>4, <3>1 DEF Registered, native
      <3>2. CASE registry' = registry
        <4>1. ASSUME NEW u \in Threads, at[u].pc = "closeOwner" PROVE at'[u].pc = "closeOwner"
          BY <1>2, <1>9, <4>1
        <4> QED
          BY <1>2, <3>2, <4>1 DEF CoordInv, Registered, native
      <3> QED
        BY <2>5, <3>1, <3>2
    <2>9. Numbered' /\ life = "live"
      BY <1>2 DEF CoordInv, Numbered, native, Dead
    <2>10. \A u \in Threads : u # t => (u \in reservation'.by <=> u \in reservation.by)
      BY <1>5, <1>6
    <2> QED
      BY <1>2, <1>8, <1>11, <1>12, <1>13, <1>14, <2>6, <2>7, <2>8, <2>9, <2>10, Together
  <1>16. CASE ClearRegistration(t)
    <2>1. at[t].pc = "unreserve" /\ registry' = registry
      BY <1>16 DEF ClearRegistration
    <2>2. ASSUME NEW u \in Threads, u # t PROVE HeldBy(u)'
      <3>1. HeldBy(u) /\ at'[u] = at[u] /\ ~Reserving(at[u])
        BY <1>4, <1>9, <2>2 DEF CoordInv
      <3>2. at[u].pc \notin {"insert", "commit"} /\ ~Reserving(at'[u])
        BY <3>1 DEF Reserving
      <3> QED
        BY <1>2, <2>1, <3>1, <3>2 DEF HeldBy, Reserving, native
    <2>3. Fenced'
      <3> SUFFICES ASSUME life = "live", table # NoEntry
                   PROVE  \/ \E u \in Threads : DoomedBy(u)'
                          \/ (\A u \in Threads : ~Transitioning(at'[u])) /\ table.mgr = manager
        BY <1>2 DEF Fenced, Transitioning, native
      <3>1. CASE \E u \in Threads : DoomedBy(u)
        <4>1. PICK u \in Threads : DoomedBy(u)
          BY <3>1
        <4>2. u # t
          BY <2>1, <4>1 DEF DoomedBy
        <4>3. at'[u] = at[u] /\ at[u].pc \notin {"commit", "drop"}
          BY <1>4, <1>9, <4>2 DEF Reserving
        <4>4. DoomedBy(u)'
          BY <1>2, <4>1, <4>3 DEF DoomedBy, native
        <4> QED
          BY <4>4
      <3>2. CASE (\A u \in Threads : ~Transitioning(at[u])) /\ table.mgr = manager
        BY <1>9, <1>10, <3>2
      <3> QED
        BY <3>1, <3>2 DEF CoordInv, Fenced
    <2>4. Registered'
      <3>1. ASSUME NEW u \in Threads, at[u].pc = "closeOwner" PROVE at'[u].pc = "closeOwner"
        BY <1>2, <1>9, <3>1
      <3> QED
        BY <1>2, <2>1, <3>1 DEF CoordInv, Registered, native
    <2>5. Numbered' /\ life = "live"
      BY <1>2 DEF CoordInv, Numbered, native, Dead
    <2>6. \A u \in Threads : u # t => (u \in reservation'.by <=> u \in reservation.by)
      BY <1>5, <1>6
    <2> QED
      BY <1>2, <1>8, <1>11, <1>12, <1>13, <1>14, <2>2, <2>3, <2>4, <2>5, <2>6, Together
  <1> QED
    BY <1>15, <1>16

\* A step while nobody has the adapter: the marks stay, and so do the threads.
LEMMA AbsentStep ==
    ASSUME RegistryTypeOK, CoordInv, UNCHANGED <<at, accesses, transitions, reservation>>,
           \A t \in Threads : at[t].pc \in {"idle", "reap"},
           \A t \in Threads : at[t].pc = "reap" => HeldBy(t)',
           Fenced', Registered', Numbered'
    PROVE  CoordInv'
  <1>1. (\A t \in Threads : Phase(at[t]))'
    BY DEF CoordInv, Phase, Transitioning
  <1>2. (\A t \in Threads : MarkOf(t))'
    BY DEF CoordInv, MarkOf, Holder, Accessing, Transitioning, Reserving
  <1>3. OneHolder' /\ Alone' /\ Dead'
    BY DEF CoordInv, OneHolder, Alone, Dead, Holder, Disturbed, Accessing, Transitioning
  <1>4. ASSUME NEW t \in Threads PROVE HeldBy(t)'
    <2>1. CASE at[t].pc = "reap"
      BY <2>1
    <2>2. CASE at[t].pc = "idle"
      BY <2>2, HoldsNothing
    <2> QED
      BY <2>1, <2>2
  <1>5. (\A t \in Threads : HeldBy(t))'
    BY <1>4
  <1> QED
    BY <1>1, <1>2, <1>3, <1>5 DEF CoordInv

\* An adapter dies when nobody has it.
LEMMA DieStep ==
    ASSUME RegistryTypeOK, CoordInv, Die
    PROVE  CoordInv'
  <1>1. /\ AllIdle /\ life' = "dead" /\ UNCHANGED native
        /\ UNCHANGED <<registry, at, accesses, transitions, reservation>>
    BY DEF Die, facade
  <1>2. ASSUME NEW t \in Threads PROVE at[t].pc \in {"idle", "reap"}
    <2>1. Phase(at[t]) /\ (at[t].pc = "idle" \/ at[t].op = "elsewhere") /\ at[t].pc \in PCs
      BY <1>1, LocalParts DEF CoordInv, AllIdle
    <2> QED
      BY <2>1 DEF Phase, Transitioning, PCs
  <1>3. ASSUME NEW t \in Threads, at[t].pc = "reap" PROVE HeldBy(t)'
    BY <1>1, <1>3 DEF CoordInv, HeldBy, native
  <1>4. Fenced' /\ Registered' /\ Numbered'
    BY <1>1 DEF CoordInv, Fenced, Registered, Numbered, native
  <1> QED
    BY <1>1, <1>2, <1>3, <1>4, AbsentStep

\* The finaliser closes the facade's entry, then that of the side table.
LEMMA FinalizeStep ==
    ASSUME RegistryTypeOK, CoordInv, Finalize
    PROVE  CoordInv'
  <1>1. /\ life # "live" /\ life' # "live" /\ nextEpoch' = nextEpoch
        /\ table' = table \/ table' = NoEntry
        /\ UNCHANGED <<at, accesses, transitions, reservation>>
    BY DEF Finalize, facade, native, RemoveEntry
  <1>2. \A t \in Threads : at[t].pc \in {"idle", "reap"}
    BY <1>1 DEF CoordInv, Dead
  <1>3. ASSUME NEW t \in Threads, at[t].pc = "reap" PROVE HeldBy(t)'
    BY <1>1, <1>3 DEF CoordInv, HeldBy
  <1>4. Fenced' /\ Registered' /\ Numbered'
    BY <1>1 DEF CoordInv, Fenced, Registered, Numbered
  <1> QED
    BY <1>1, <1>2, <1>3, <1>4, AbsentStep

\* The next adapter at the address has an epoch that no reaper remembers.
LEMMA ConstructStep ==
    ASSUME RegistryTypeOK, CoordInv, Construct
    PROVE  CoordInv'
  <1>1. /\ life = "freed" /\ life' = "live" /\ manager' = manager + 1 /\ registry' = nextEpoch
        /\ Insert(manager + 1, Fresh) /\ nextEpoch' = nextEpoch + 1
        /\ UNCHANGED <<at, accesses, transitions, reservation>>
    BY DEF Construct, NewManagers, Insert
  <1>2. manager + 1 \in Nat /\ Fresh \in Views /\ nextEpoch \in Nat
    BY StartTypes DEF RegistryTypeOK
  <1>3. /\ table' \in Entries /\ table'.epoch = nextEpoch /\ table'.ref = nextEpoch
        /\ table'.mgr = manager'
    BY <1>1, <1>2, EntryInserted
  <1>4. table' # NoEntry
    BY <1>3 DEF Entries, NoEntry
  <1>5. \A t \in Threads : at[t].pc \in {"idle", "reap"}
    BY <1>1 DEF CoordInv, Dead
  <1>6. ASSUME NEW t \in Threads, at[t].pc = "reap" PROVE HeldBy(t)'
    <2>1. HeldBy(t) /\ at[t].epoch \in Nat
      BY LocalParts DEF CoordInv
    <2>2. at[t].epoch < nextEpoch' /\ at[t].epoch # table'.epoch
      BY <1>1, <1>2, <1>3, <1>6, <2>1 DEF HeldBy
    <2> QED
      BY <1>1, <1>6, <2>2 DEF HeldBy
  <1>7. Fenced'
    BY <1>1, <1>3, <1>5 DEF Fenced, Transitioning
  <1>8. Registered' /\ Numbered'
    BY <1>1, <1>2, <1>3, <1>4 DEF Registered, Numbered
  <1> QED
    BY <1>1, <1>5, <1>6, <1>7, <1>8, AbsentStep

\* What the program does to urllib3's managers is nothing to the marks.
LEMMA NothingStep ==
    ASSUME CoordInv, Tamper \/ UNCHANGED registryVars
    PROVE  CoordInv'
  <1>1. UNCHANGED native /\ UNCHANGED <<registry, accesses, transitions, reservation, manager, life, at>>
    BY DEF Tamper, registryVars, facade, native
  <1> QED
    BY <1>1 DEF native, CoordInv, Phase, MarkOf, OneHolder, Alone, Dead, HeldBy, Fenced, DoomedBy,
                Registered, Numbered, Holder, Disturbed, Accessing, Transitioning, Reserving

\* A constructed adapter, and no thread in it.
LEMMA CoordInit ==
    ASSUME RegistryInit
    PROVE  CoordInv
  <1>1. \A t \in Threads : at[t].pc = "idle" /\ at[t].op = "none"
    BY DEF RegistryInit, Idle
  <1>2. /\ accesses = [t \in Threads |-> 0] /\ transitions = [t \in Threads |-> 0]
        /\ reservation.by = {} /\ life = "live"
        /\ table.ref = 1 /\ table.epoch = 1 /\ table.mgr = 1
        /\ registry = 1 /\ manager = 1 /\ nextEpoch = 2
    BY DEF RegistryInit, NoReservation
  <1>3. table # NoEntry
    BY <1>2 DEF NoEntry
  <1>4. \A t \in Threads : ~Accessing(at[t]) /\ ~Transitioning(at[t]) /\ ~Reserving(at[t])
    BY <1>1 DEF Accessing, Transitioning, Reserving
  <1>5. \A t \in Threads : Phase(at[t])
    BY <1>1, <1>4 DEF Phase
  <1>6. \A t \in Threads : MarkOf(t)
    BY <1>2, <1>4 DEF MarkOf, Holder
  <1>7. OneHolder /\ Alone /\ Dead
    BY <1>1, <1>2 DEF OneHolder, Alone, Dead, Holder
  <1>8. \A t \in Threads : HeldBy(t)
    BY <1>1 DEF HeldBy
  <1>9. Fenced /\ Registered /\ Numbered
    BY <1>2, <1>3, <1>4 DEF Fenced, Registered, Numbered
  <1> QED
    BY <1>5, <1>6, <1>7, <1>8, <1>9 DEF CoordInv

\* Every step of a thread, one call after the other.
LEMMA ThreadStep ==
    ASSUME RegistryTypeOK, LedgerInv, CoordInv, NEW t \in Threads, Step(t)
    PROVE  CoordInv'
  <1>1. CASE StartSend(t) \/ StartClose(t)
    BY <1>1, EnterStep DEF StartSend, StartClose
  <1>2. CASE BeginRegistration(t)
    <2>1. CASE ~Reserved /\ Active(transitions) = {} /\ Active(accesses) \subseteq {t}
      BY <1>2, <2>1, ReserveStep
    <2>2. CASE ~(~Reserved /\ Active(transitions) = {} /\ Active(accesses) \subseteq {t})
      <3>1. reservation' = Disturb /\ Resume(t)
        BY <1>2, <2>2 DEF BeginRegistration
      <3> QED
        BY <1>2, <3>1, RefusedStep
    <2> QED
      BY <2>1, <2>2
  <1>3. CASE CommitRegistration(t)
    BY <1>3, RefusedStep, ReleaseStep
  <1>4. CASE AdmitOwner(t) \/ RegisterNative(t) \/ EnterInner(t) \/ ClearRegistration(t)
    BY <1>4, AdmissionStep, ReleaseStep
  <1>5. CASE InsertEntry(t) \/ DropRegistration(t) \/ DetachDrop(t)
    BY <1>5, InsertStep, DropStep
  <1>6. CASE CopyProof(t) \/ VerifyProof(t) \/ ExitSend(t) \/ CompatSend(t)
    BY <1>6, ProofStep, LeaveStep
  <1>7. CASE LookupPool(t) \/ TakePool(t) \/ ConnectManager(t) \/ ObserveManagers(t) \/ RecordProof(t)
    BY <1>7, SendStep
  <1>8. CASE CompatClose(t) \/ NativeCloseRead(t) \/ NativeCloseTake(t)
    BY <1>8, NativeCloseStep
  <1>9. CASE CloseTable(t) \/ CloseOwner(t)
    BY <1>9, CloseTableStep, CloseOwnerStep
  <1>10. CASE StartNativeClose(t) \/ StartReap(t) \/ ReapDead(t)
    BY <1>10, UnmarkedStart, ReapStep
  <1>11. CASE StartSetstate(t) \/ DetachReference(t) \/ ReplaceManagers(t) \/ ExitTransition(t)
    BY <1>11, SetstateStep, TransitionStep
  <1> QED
    BY <1>1, <1>2, <1>3, <1>4, <1>5, <1>6, <1>7, <1>8, <1>9, <1>10, <1>11 DEF Step

\* The three records of an adapter stay coordinated: every mark of the facade is that of
\* a thread at a place that needs it, an undisturbed registration has the adapter alone,
\* and an entry for managers that are gone is about to be taken away.
THEOREM RegistryCoordinated == RegistrySpec => []CoordInv
  <1>1. RegistryInit => CoordInv
    BY CoordInit
  <1>2. ASSUME RegistryTypeOK, LedgerInv, CoordInv, [RegistryNext]_registryVars PROVE CoordInv'
    <2>1. CASE \E t \in Threads : Scheduled(t) /\ Step(t)
      BY <1>2, <2>1, ThreadStep
    <2>2. CASE Tamper \/ UNCHANGED registryVars
      BY <1>2, <2>2, NothingStep
    <2>3. CASE Die \/ Finalize \/ Construct
      BY <1>2, <2>3, DieStep, FinalizeStep, ConstructStep
    <2> QED
      BY <1>2, <2>1, <2>2, <2>3 DEF RegistryNext
  <1>3. RegistryTypeOK /\ LedgerInv /\ CoordInv /\ [RegistryNext]_registryVars => CoordInv'
    BY <1>2
  <1> QED
    BY <1>1, <1>3, RegistryTypeCorrect, PTL DEF RegistrySpec

\* A send is never admitted by an entry for managers that the adapter no longer has: while
\* there is one, a transition is under way or a registration that will be refused.
LEMMA CoordFences ==
    ASSUME RegistryTypeOK, CoordInv
    PROVE  StaleEntryFenced
  <1> SUFFICES ASSUME table # NoEntry, life = "live", table.mgr # manager
               PROVE  Active(transitions) # {} \/ (Reserved /\ Disturbed)
    BY DEF StaleEntryFenced, Disturbed
  <1>1. PICK t \in Threads : DoomedBy(t)
    BY DEF CoordInv, Fenced
  <1>2. MarkOf(t)
    BY DEF CoordInv
  <1>3. CASE at[t].pc \in {"commit", "drop"} /\ Disturbed
    <2>1. Reserving(at[t])
      BY <1>3 DEF Reserving
    <2> QED
      BY <1>2, <1>3, <2>1 DEF MarkOf, Holder, Reserved
  <1>4. CASE at[t].pc \in {"detach", "detachDrop"}
    <2>1. Transitioning(at[t])
      BY <1>4 DEF Transitioning
    <2>2. transitions[t] = 1
      BY <1>2, <2>1 DEF MarkOf
    <2>3. t \in Active(transitions)
      BY <2>2 DEF Active
    <2> QED
      BY <2>3
  <1> QED
    BY <1>1, <1>3, <1>4 DEF DoomedBy

\* When the threads have left, they have left nothing behind.
LEMMA CoordLeaves ==
    ASSUME RegistryTypeOK, CoordInv
    PROVE  NothingLeftBehind
  <1> SUFFICES ASSUME \A t \in Threads : at[t] = Idle
               PROVE  /\ Active(accesses) = {} /\ Active(transitions) = {} /\ ~Reserved
                      /\ registry # 0 /\ life = "live" => table # NoEntry /\ table.ref = registry
    BY DEF NothingLeftBehind
  <1>1. \A t \in Threads : at[t].pc = "idle" /\ at[t].op = "none"
    BY DEF Idle
  <1>2. \A t \in Threads : ~Accessing(at[t]) /\ ~Transitioning(at[t]) /\ ~Reserving(at[t])
    BY <1>1 DEF Accessing, Transitioning, Reserving
  <1>3. \A t \in Threads : accesses[t] = 0 /\ transitions[t] = 0 /\ t \notin reservation.by
    BY <1>2 DEF CoordInv, MarkOf, Holder
  <1>4. reservation.by \subseteq Threads
    BY DEF RegistryTypeOK, Reservations
  <1>5. Active(accesses) = {} /\ Active(transitions) = {} /\ ~Reserved
    BY <1>3, <1>4 DEF Active, Reserved
  <1>6. registry # 0 /\ life = "live" => table # NoEntry /\ table.ref = registry
    BY <1>1 DEF CoordInv, Registered
  <1> QED
    BY <1>5, <1>6

\* The table of native pools is right for any number of threads that send, close and
\* unpickle the adapter: its eviction order, the pools that left it, what a stale entry
\* can admit, and what the threads leave behind.
THEOREM RegistryTableIsSound == RegistrySpec => []TableIsSound
  <1>1. RegistryTypeOK /\ LedgerInv => LruSound /\ NoPoolForgotten
    BY DEF LedgerInv, RealmsSound, RealmOK, LruSound
  <1>2. RegistryTypeOK /\ LedgerInv /\ CoordInv => TableIsSound
    BY <1>1, CoordFences, CoordLeaves DEF TableIsSound
  <1> QED
    BY <1>2, RegistryTypeCorrect, RegistryCoordinated, PTL

----------------------------------------------------------------------------
(* What may take the entry of a live adapter away.                           *)

\* A send and the native close change the entry, and keep it.
LEMMA EntryChange ==
    ASSUME RegistryTypeOK, NEW t \in Threads, TakePool(t) \/ RecordProof(t) \/ NativeCloseTake(t)
    PROVE  UNCHANGED native \/ Admits \/ Renews \/ Empties
  <1>1. at[t].realm \in Realms /\ at[t].key \in Slots /\ at[t].seen \in Views
    BY LocalParts
  <1>2. CASE TakePool(t)
    BY <1>1, <1>2 DEF TakePool, Admits
  <1>3. CASE RecordProof(t)
    <2>1. CASE /\ table # NoEntry /\ table' = [table EXCEPT !.proof = Recorded(t), !.rev = @ + 1]
               /\ UNCHANGED <<made, cleared, nextEpoch>>
      <3>1. Recorded(t) \in Views
        BY <1>1, <2>1, RenewedTypes
      <3> QED
        BY <2>1, <3>1 DEF Renews
    <2> QED
      BY <1>3, <2>1, RecordEffect
  <1>4. CASE NativeCloseTake(t)
    <2>1. CASE /\ table # NoEntry /\ table' = Emptied(t) /\ nextEpoch' = nextEpoch + 1
               /\ cleared' = cleared \cup PoolIds(table) /\ UNCHANGED made
      <3>1. Known(at[t].seen) \in Views
        BY <1>1, <2>1, RenewedTypes
      <3> QED
        BY <2>1, <3>1 DEF Empties, Emptied
    <2> QED
      BY <1>4, <2>1, CloseTakeEffect
  <1> QED
    BY <1>2, <1>3, <1>4

\* An entry whose pools or proof have changed is an entry.
LEMMA ChangedEntry ==
    ASSUME RegistryTypeOK, LedgerInv, Admits \/ Renews \/ Empties
    PROVE  table' # NoEntry
  <1>1. table' \in Entries
    <2>1. CASE Admits
      <3>1. PICK r \in Realms, k \in Slots : table # NoEntry /\ AdmitPool(r, k)
        BY <2>1 DEF Admits
      <3> QED
        BY <3>1, AdmitsLedger
    <2>2. CASE Renews
      BY <2>2, RenewsEntry
    <2>3. CASE Empties
      BY <2>3, EmptiesEntry
    <2> QED
      BY <2>1, <2>2, <2>3
  <1> QED
    BY <1>1 DEF Entries, NoEntry

\* The thread that takes the entry of a live adapter away closes or unpickles it, or has
\* been refused its registration.
LEMMA EntryTaken ==
    ASSUME RegistryTypeOK, LedgerInv, CoordInv, NEW t \in Threads, Step(t),
           life = "live", table # NoEntry, table' = NoEntry
    PROVE  at[t].pc \in {"dropTable", "detachDrop", "drop"} /\ at'[t] # at[t]
  <1>1. CASE CloseTable(t) \/ DetachDrop(t) \/ DropRegistration(t)
    <2>1. /\ at[t].pc \in {"dropTable", "detachDrop", "drop"}
          /\ Go(t, "closeOwner") \/ Go(t, "replace") \/ Go(t, "unreserve")
      BY <1>1 DEF CloseTable, DetachDrop, DropRegistration
    <2>2. {"closeOwner", "replace", "unreserve"} \subseteq PCs
      BY DEF PCs
    <2>3. at'[t].pc \in {"closeOwner", "replace", "unreserve"}
      BY <2>1, <2>2, GoEffect
    <2> QED
      BY <2>1, <2>3
  <1>2. CASE TakePool(t) \/ RecordProof(t) \/ NativeCloseTake(t)
    <2>1. UNCHANGED native => table' = table
      BY DEF native
    <2> QED
      BY <1>2, <2>1, EntryChange, ChangedEntry
  <1>3. CASE InsertEntry(t)
    <2>1. at[t].mgr \in Nat /\ at[t].seen \in Views
      BY LocalParts
    <2>2. table' \in Entries
      BY <1>3, <2>1, EntryInserted DEF InsertEntry
    <2> QED
      BY <2>2 DEF Entries, NoEntry
  <1>4. CASE ReapDead(t)
    <2>1. HeldBy(t) /\ at[t].pc = "reap"
      BY <1>4 DEF CoordInv, ReapDead
    <2>2. table.epoch # at[t].epoch
      BY <2>1 DEF HeldBy
    <2> QED
      BY <1>4, <2>2 DEF ReapDead, native
  <1>5. CASE ~(\/ InsertEntry(t) \/ DropRegistration(t) \/ TakePool(t) \/ RecordProof(t)
               \/ CloseTable(t) \/ NativeCloseTake(t) \/ DetachDrop(t) \/ ReapDead(t))
    BY <1>5, QuietTypes DEF Step, native
  <1> QED
    BY <1>1, <1>2, <1>3, <1>4, <1>5

\* A live adapter never loses its entry to the reaper, which remembers an adapter that was
\* at the same address, nor to the finaliser of that one.
THEOREM RegistryLiveEntryKept == RegistrySpec => LiveEntryKept
  <1> DEFINE Lost == life = "live" /\ table # NoEntry /\ table' = NoEntry
             Taken == \E t \in Threads : at[t].pc \in {"dropTable", "detachDrop", "drop"} /\ at'[t] # at[t]
  <1>1. ASSUME RegistryTypeOK, LedgerInv, CoordInv, [RegistryNext]_registryVars, Lost PROVE Taken
    <2>1. CASE \E t \in Threads : Scheduled(t) /\ Step(t)
      BY <1>1, <2>1, EntryTaken
    <2>2. CASE Tamper \/ Die \/ UNCHANGED registryVars
      BY <1>1, <2>2 DEF Tamper, Die, registryVars, native
    <2>3. CASE Finalize \/ Construct
      BY <1>1, <2>3 DEF Finalize, Construct
    <2> QED
      BY <1>1, <2>1, <2>2, <2>3 DEF RegistryNext
  <1>2. RegistryTypeOK /\ LedgerInv /\ CoordInv /\ [RegistryNext]_registryVars
          => [Lost => Taken]_registryVars
    BY <1>1
  <1>3. LiveEntryKept <=> [][Lost => Taken]_registryVars
    BY DEF LiveEntryKept
  <1> HIDE DEF Lost, Taken
  <1> QED
    BY <1>2, <1>3, RegistryTypeCorrect, RegistryCoordinated, PTL DEF RegistrySpec

----------------------------------------------------------------------------
(* Where the steps lead.                                                     *)

\* The places of a thread that has read the entry or the managers and not used what it
\* read yet, and the steps that may lead there.
Guarded == {"insert", "verify", "lookup", "select", "record", "closeTake", "panic"}
Looks(t) ==
    \/ RegisterNative(t) \/ CopyProof(t) \/ VerifyProof(t) \/ LookupPool(t) \/ TakePool(t)
    \/ ObserveManagers(t) \/ NativeCloseRead(t)

\* No other step does.
LEMMA OtherPlaces ==
    ASSUME RegistryTypeOK, NEW t \in Threads, Step(t), ~Looks(t)
    PROVE  at'[t].pc \notin Guarded /\ (Moves(t) \/ UNCHANGED at)
  <1> DEFINE Away == at'[t].pc \in PCs \ Guarded /\ (Moves(t) \/ UNCHANGED at)
  <1>1. ASSUME NEW p \in PCs \ Guarded, Go(t, p) PROVE Away
    BY <1>1, GoEffect
  <1>2. /\ {"inner", "begin", "native", "drop", "unreserve", "dropTable", "closeOwner", "replace", "exit",
            "idle", "admit", "compat", "commit", "proof", "observe", "raise", "sent", "closeRead",
            "detach", "detachDrop", "reap"} \subseteq PCs \ Guarded
    BY DEF PCs, Guarded
  <1>3. Leave(t) \/ Resume(t) => Away
    BY <1>2, LeaveEffect, ResumeEffect
  <1>4. CASE StartSend(t) \/ StartClose(t)
    <2>1. PICK op \in {"send", "close"} : EnterAccess(t, op)
      BY <1>4 DEF StartSend, StartClose
    <2>2. at'[t].pc \in {"admit", "compat"} /\ Moves(t)
      BY <2>1, EnterEffect
    <2> QED
      BY <1>2, <2>2
  <1>5. CASE AdmitOwner(t)
    <2>1. Go(t, "inner") \/ Go(t, "begin")
      BY <1>5 DEF AdmitOwner
    <2> QED
      BY <1>1, <1>2, <2>1
  <1>6. CASE BeginRegistration(t) \/ CommitRegistration(t) \/ ClearRegistration(t)
    <2>1. Go(t, "native") \/ Go(t, "drop") \/ Resume(t)
      BY <1>6 DEF BeginRegistration, CommitRegistration, ClearRegistration
    <2> QED
      BY <1>1, <1>2, <1>3, <2>1
  <1>7. CASE DropRegistration(t) \/ CompatClose(t) \/ CloseTable(t) \/ DetachDrop(t) \/ ReplaceManagers(t)
    <2>1. \/ Go(t, "unreserve") \/ Go(t, "dropTable") \/ Go(t, "closeOwner") \/ Go(t, "replace")
          \/ Go(t, "exit")
      BY <1>7 DEF DropRegistration, CompatClose, CloseTable, DetachDrop, ReplaceManagers
    <2> QED
      BY <1>1, <1>2, <2>1
  <1>8. CASE ExitSend(t) \/ CompatSend(t) \/ CloseOwner(t) \/ ExitTransition(t) \/ ReapDead(t)
    <2>1. Leave(t) \/ Go(t, "begin")
      BY <1>8 DEF ExitSend, CompatSend, CloseOwner, ExitTransition, ReapDead
    <2> QED
      BY <1>1, <1>2, <1>3, <2>1
  <1>9. CASE InsertEntry(t) \/ EnterInner(t) \/ ConnectManager(t) \/ RecordProof(t)
    <2>1. at'[t].pc \in {"commit", "proof", "compat", "observe", "raise", "sent"} /\ Moves(t)
      BY <1>9, InsertEffect, EnterInnerEffect, ConnectEffect, RecordEffect
    <2> QED
      BY <1>2, <2>1
  <1>10. CASE StartNativeClose(t) \/ NativeCloseTake(t)
    <2>1. at'[t].pc \in {"closeRead", "idle"} /\ Moves(t)
      BY <1>10, StartNativeCloseEffect, CloseTakeEffect
    <2> QED
      BY <1>2, <2>1
  <1>11. CASE StartSetstate(t) \/ DetachReference(t)
    <2>1. at'[t].pc \in {"detach", "replace", "detachDrop"} /\ Moves(t)
      BY <1>11, SetstateEffect, DetachEffect
    <2> QED
      BY <1>2, <2>1
  <1>12. CASE StartReap(t)
    <2>1. at'[t].pc \in {"idle", "reap"} /\ (Moves(t) \/ UNCHANGED at)
      BY <1>12, ReapEffect DEF StartReap
    <2> QED
      BY <1>2, <2>1
  <1> QED
    BY <1>4, <1>5, <1>6, <1>7, <1>8, <1>9, <1>10, <1>11, <1>12 DEF Step, Looks

\* A step of a thread moves no other.
LEMMA StepMoves ==
    ASSUME RegistryTypeOK, NEW t \in Threads, Step(t)
    PROVE  (Moves(t) \/ UNCHANGED at) /\ \A u \in Threads : u # t => at'[u] = at[u]
  <1>1. CASE Looks(t)
    <2>1. CASE TakePool(t)
      <3>1. Go(t, "compat") \/ Go(t, "panic") \/ Go(t, "connect")
        BY <2>1 DEF TakePool
      <3>2. {"compat", "panic", "connect"} \subseteq PCs
        BY DEF PCs
      <3> QED
        BY <3>1, <3>2, GoEffect, MovesOne
    <2>2. CASE ~TakePool(t)
      <3>1. Moves(t)
        BY <1>1, <2>2, RegisterNativeEffect, CopyProofEffect, VerifyProofEffect, LookupEffect,
           ObserveEffect, CloseReadEffect DEF Looks
      <3> QED
        BY <3>1, MovesOne
    <2> QED
      BY <2>1, <2>2
  <1>2. CASE ~Looks(t)
    BY <1>2, OtherPlaces, MovesOne
  <1> QED
    BY <1>1, <1>2

----------------------------------------------------------------------------
(* The two locked sections of adapter_pool where a GIL makes them one.       *)

\* Between the two sections the pool that the first one found is still there.
SelectsBy(t) ==
    at[t].pc = "select" /\ at[t].has = TRUE /\ table # NoEntry /\ table.epoch = at[t].epoch =>
        \E p \in table.realm[at[t].realm].pools : p.key = at[t].key
CandidateInv == \A t \in Threads : at[t].pc # "panic" /\ SelectsBy(t)

\* The thread that steps finds its pool.
LEMMA CandidateStep ==
    ASSUME RegistryTypeOK, LedgerInv, CoordInv, CandidateInv, NEW t \in Threads, Step(t)
    PROVE  at'[t].pc # "panic" /\ SelectsBy(t)'
  <1>1. CASE TakePool(t)
    <2>1. SelectsBy(t) /\ at[t].has \in BOOLEAN
      BY LocalParts DEF CandidateInv
    <2>2. Go(t, "compat") \/ Go(t, "connect")
      BY <1>1, <2>1 DEF TakePool, CandidateMissing, SelectsBy
    <2>3. "compat" \in PCs /\ "connect" \in PCs
      BY DEF PCs
    <2>4. at'[t].pc \in {"compat", "connect"}
      BY <2>2, <2>3, GoEffect
    <2> QED
      BY <2>4 DEF SelectsBy
  <1>2. CASE LookupPool(t)
    <2>1. at'[t].pc \in {"compat", "select"} /\ SameCall(t) /\ table' = table
      BY <1>2, LookupEffect DEF LookupPool, native
    <2>2. at'[t].pc = "select" =>
            at'[t].has = \E p \in table.realm[at[t].realm].pools : p.key = at[t].key
      BY <1>2, LookupEffect
    <2> QED
      BY <2>1, <2>2 DEF SelectsBy, SameCall
  <1>3. CASE ~TakePool(t) /\ ~LookupPool(t)
    <2>1. at'[t].pc \notin {"panic", "select"}
      <3>1. CASE Looks(t)
        <4>1. {at'[t].pc} \cap {"panic", "select"} = {}
          BY <1>3, <3>1, RegisterNativeEffect, CopyProofEffect, VerifyProofEffect, ObserveEffect,
             CloseReadEffect DEF Looks, ProofFallback
        <4> QED
          BY <4>1
      <3>2. CASE ~Looks(t)
        BY <3>2, OtherPlaces DEF Guarded
      <3> QED
        BY <3>1, <3>2
    <2> QED
      BY <2>1 DEF SelectsBy
  <1> QED
    BY <1>1, <1>2, <1>3

\* With a GIL no other thread runs while one is between the two sections, and the adapter
\* is not finalised then.
LEMMA CandidateKept ==
    ASSUME ~FreeThreaded, RegistryTypeOK, LedgerInv, CoordInv, CandidateInv,
           [RegistryNext]_registryVars
    PROVE  CandidateInv'
  <1>1. CASE \E t \in Threads : Scheduled(t) /\ Step(t)
    <2>1. PICK t \in Threads : Scheduled(t) /\ Step(t)
      BY <1>1
    <2>2. at'[t].pc # "panic" /\ SelectsBy(t)'
      BY <2>1, CandidateStep
    <2>3. \A u \in Threads : u # t => at'[u] = at[u]
      BY <2>1, StepMoves
    <2>4. ASSUME NEW u \in Threads, u # t PROVE at'[u].pc \notin {"panic", "select"}
      <3>1. at[u].pc # "panic" /\ at[u].pc # "select"
        BY <2>1, <2>4 DEF Scheduled, CandidateInv
      <3> QED
        BY <2>3, <2>4, <3>1
    <2>5. \A u \in Threads : at'[u].pc # "panic" /\ SelectsBy(u)'
      BY <2>2, <2>4 DEF SelectsBy
    <2> QED
      BY <2>5 DEF CandidateInv
  <1>2. CASE Tamper \/ Die \/ UNCHANGED registryVars
    BY <1>2 DEF Tamper, Die, registryVars, native, CandidateInv, SelectsBy
  <1>3. CASE Finalize \/ Construct
    <2>1. at' = at /\ life # "live"
      BY <1>3 DEF Finalize, Construct
    <2>2. \A t \in Threads : at'[t].pc \in {"idle", "reap"}
      BY <2>1 DEF CoordInv, Dead
    <2>3. \A u \in Threads : at'[u].pc # "panic" /\ SelectsBy(u)'
      BY <2>2 DEF SelectsBy
    <2> QED
      BY <2>3 DEF CandidateInv
  <1> QED
    BY <1>1, <1>2, <1>3 DEF RegistryNext

\* On a build with a GIL the `expect` of adapter_pool never fails: the pool that the first
\* locked section found is there in the second, or a candidate has been made.
THEOREM RegistryCandidateIsThere ==
    ASSUME ~FreeThreaded
    PROVE  RegistrySpec => []CandidateIsThere
  <1>1. RegistryInit => CandidateInv
    BY DEF RegistryInit, CandidateInv, SelectsBy, Idle
  <1>2. RegistryTypeOK /\ LedgerInv /\ CoordInv /\ CandidateInv /\ [RegistryNext]_registryVars
          => CandidateInv'
    BY CandidateKept
  <1>3. CandidateInv => CandidateIsThere
    BY DEF CandidateInv, CandidateIsThere
  <1> QED
    BY <1>1, <1>2, <1>3, RegistryTypeCorrect, RegistryCoordinated, PTL DEF RegistrySpec

----------------------------------------------------------------------------
(* The proof of the visible managers is current.                             *)

Older(a, b) == \A r \in Realms : a[r].ver <= b[r].ver
Plain(v) == \A r \in Realms : v[r].plain = TRUE
HasDirect(v) == v[Direct].is = TRUE

\* The managers that the adapter has had are numbered, each of them had a direct one, and
\* what the adapter has not got is not replaced.
ManagersInv ==
    /\ manager = Len(retired) + 1 /\ HasDirect(visible)
    /\ \A r \in Realms : visible[r].is = TRUE \/ visible[r].plain = TRUE
    /\ \A m \in DOMAIN retired : HasDirect(retired[m])

\* The entry was observed of managers of the adapter, before now, when none was replaced.
EntryInv ==
    table # NoEntry => /\ table.mgr \in 1..manager /\ Older(table.proof, Observe(table.mgr))
                       /\ Plain(table.proof) /\ HasDirect(table.proof)

\* So was what a thread has seen of them; it is newer than the proof that it will replace.
SeenBy(t) ==
    /\ at[t].pc = "insert" => /\ at[t].mgr \in 1..manager /\ Older(at[t].seen, Observe(at[t].mgr))
                              /\ Plain(at[t].seen) /\ HasDirect(at[t].seen)
    /\ at[t].pc = "verify" => Plain(at[t].seen)
    /\ at[t].pc \in {"record", "closeTake"} => at[t].epoch < nextEpoch /\ HasDirect(at[t].seen)
    /\ at[t].pc \in {"record", "closeTake"} /\ table # NoEntry /\ table.epoch = at[t].epoch
         => at[t].rev <= table.rev /\ Older(at[t].seen, Observe(table.mgr))
    /\ at[t].pc = "record" /\ table # NoEntry /\ table.epoch = at[t].epoch /\ table.rev = at[t].rev
         => /\ Older(table.proof, at[t].seen)
            /\ at[t].realm # Direct => \A r \in Realms \ {Direct} :
                 table.proof[r].is = TRUE \/ at[t].seen[r].plain = TRUE
CurrentInv == ManagersInv /\ EntryInv /\ \A t \in Threads : SeenBy(t)

\* The views of urllib3's managers grow.
Grows ==
    /\ UNCHANGED <<manager, retired>>
    /\ \A r \in Realms : /\ visible'[r].ver >= visible[r].ver
                         /\ \/ visible'[r].is = TRUE
                            \/ visible'[r].is = visible[r].is /\ visible'[r].plain = visible[r].plain

\* A step leaves the managers alone, changes their pools or replaces them all.
LEMMA ManagersChange ==
    ASSUME RegistryTypeOK, [RegistryNext]_registryVars
    PROVE  Grows \/ NewManagers
  <1>0. \A r \in Realms : visible[r] \in Managers /\ visible[r].ver \in Nat
    BY DEF RegistryTypeOK, Views, Managers
  <1>1. UNCHANGED <<visible, manager, retired>> => Grows
    BY <1>0 DEF Grows
  <1>2. ASSUME NEW t \in Threads, Step(t) PROVE Grows \/ NewManagers
    <2>1. CASE ConnectManager(t) \/ CompatSend(t)
      <3>1. at[t].realm \in Realms /\ at[t].key \in Slots
        BY LocalParts
      <3>2. Touch(at[t].realm, at[t].key) /\ UNCHANGED <<manager, retired>>
        BY <2>1 DEF ConnectManager, CompatSend
      <3> QED
        BY <3>1, <3>2, TouchTypes DEF Grows
    <2>2. CASE CompatClose(t)
      <3>1. visible' = [r \in Realms |-> [visible[r] EXCEPT !.keys = <<>>, !.ver = @ + 1]]
            /\ UNCHANGED <<manager, retired>>
        BY <2>2 DEF CompatClose
      <3>2. ASSUME NEW r \in Realms
            PROVE  /\ visible'[r].ver >= visible[r].ver
                   /\ visible'[r].is = visible[r].is /\ visible'[r].plain = visible[r].plain
        <4> DEFINE n == visible[r].ver + 1
        <4>1. n >= visible[r].ver
          BY <1>0
        <4>2. visible'[r] = [visible[r] EXCEPT !.keys = <<>>, !.ver = n]
          BY <3>1
        <4> HIDE DEF n
        <4>3. visible'[r].ver = n /\ visible'[r].is = visible[r].is /\ visible'[r].plain = visible[r].plain
          BY <1>0, <4>2 DEF Managers
        <4> QED
          BY <4>1, <4>3
      <3> QED
        BY <3>1, <3>2 DEF Grows
    <2>3. CASE ReplaceManagers(t)
      BY <2>3 DEF ReplaceManagers
    <2>4. CASE ~ConnectManager(t) /\ ~CompatSend(t) /\ ~CompatClose(t) /\ ~ReplaceManagers(t)
      <3>1. UNCHANGED <<visible, manager, retired>>
        BY <1>2, <2>4 DEF Step, python, StartSend, StartClose, EnterAccess, AdmitOwner, BeginRegistration,
           RegisterNative, InsertEntry, CommitRegistration, DropRegistration, ClearRegistration,
           EnterInner, CopyProof, VerifyProof, LookupPool, TakePool, ObserveManagers, RecordProof,
           ExitSend, CloseTable, CloseOwner, StartNativeClose, NativeCloseRead, NativeCloseTake,
           StartSetstate, DetachReference, DetachDrop, ExitTransition, StartReap, ReapDead
      <3> QED
        BY <1>1, <3>1
    <2> QED
      BY <2>1, <2>2, <2>3, <2>4
  <1>3. CASE Tamper
    <2>1. PICK r \in Realms : visible' = [visible EXCEPT ![r].is = TRUE, ![r].plain = FALSE,
                                                         ![r].ver = @ + 1]
      BY <1>3 DEF Tamper
    <2> DEFINE n == visible[r].ver + 1
               d == [visible[r] EXCEPT !.is = TRUE, !.plain = FALSE, !.ver = n]
    <2>2. visible \in Views /\ n >= visible[r].ver
      BY <1>0 DEF RegistryTypeOK
    <2>3. visible' = [visible EXCEPT ![r] = d]
      BY <1>0, <2>1, <2>2 DEF Views, Managers
    <2> HIDE DEF n
    <2>4. d.is = TRUE /\ d.ver = n
      BY <1>0 DEF Managers
    <2> HIDE DEF d
    <2>5. ASSUME NEW q \in Realms
          PROVE  /\ visible'[q].ver >= visible[q].ver
                 /\ \/ visible'[q].is = TRUE
                    \/ visible'[q].is = visible[q].is /\ visible'[q].plain = visible[q].plain
      <3>1. CASE q = r
        BY <2>2, <2>3, <2>4, <3>1 DEF Views
      <3>2. CASE q # r
        <4>1. visible'[q] = visible[q]
          BY <2>2, <2>3, <3>2 DEF Views
        <4> QED
          BY <1>0, <4>1
      <3> QED
        BY <3>1, <3>2
    <2> QED
      BY <1>3, <2>5 DEF Grows, Tamper
  <1>4. CASE Die \/ Finalize \/ UNCHANGED registryVars
    BY <1>1, <1>4 DEF Die, Finalize, registryVars
  <1>5. CASE Construct
    BY <1>5 DEF Construct
  <1> QED
    BY <1>2, <1>3, <1>4, <1>5 DEF RegistryNext

\* What is observed of a generation of managers grows, past its replacement.
LEMMA ManagersStep ==
    ASSUME RegistryTypeOK, ManagersInv, [RegistryNext]_registryVars
    PROVE  /\ ManagersInv' /\ manager' >= manager
           /\ \A m \in 1..manager : Older(Observe(m), Observe(m)')
  <1>1. /\ retired \in Seq(Views) /\ visible \in Views /\ manager \in Nat /\ Len(retired) \in Nat
        /\ DOMAIN retired = 1..Len(retired) /\ manager = Len(retired) + 1
    BY LenProperties DEF RegistryTypeOK, ManagersInv
  <1>2. \A v \in Views, r \in Realms : v[r].ver \in Nat
    BY DEF Views, Managers
  <1>3. \A v \in Views : Older(v, v)
    BY <1>2 DEF Older
  <1>4. \A m \in 1..manager : Observe(m)' = IF m \in DOMAIN retired' THEN retired'[m] ELSE visible'
    BY DEF Observe
  <1>5. CASE Grows
    <2>1. ManagersInv'
      BY <1>5, RegistryAssumption DEF Grows, ManagersInv, HasDirect
    <2>2. Older(visible, visible')
      BY <1>5 DEF Grows, Older
    <2>3. ASSUME NEW m \in 1..manager PROVE Older(Observe(m), Observe(m)')
      <3>1. Observe(m) \in Views
        BY ObserveTypes
      <3>2. CASE m \in DOMAIN retired
        <4>1. Observe(m)' = Observe(m)
          BY <1>4, <1>5, <3>2 DEF Grows, Observe
        <4> QED
          BY <1>3, <3>1, <4>1
      <3>3. CASE m \notin DOMAIN retired
        <4>1. Observe(m)' = visible' /\ Observe(m) = visible
          BY <1>4, <1>5, <3>3 DEF Grows, Observe
        <4> QED
          BY <2>2, <4>1
      <3> QED
        BY <3>2, <3>3
    <2> QED
      BY <1>1, <1>5, <2>1, <2>3 DEF Grows
  <1>6. CASE NewManagers
    <2>1. /\ visible' = Fresh /\ manager' = manager + 1 /\ retired' = Append(retired, visible)
      BY <1>6 DEF NewManagers
    <2>2. /\ retired' \in Seq(Views) /\ Len(retired') = Len(retired) + 1
          /\ \A i \in 1..Len(retired) : retired'[i] = retired[i]
          /\ retired'[Len(retired) + 1] = visible
      BY <1>1, <2>1, AppendProperties
    <2>3. DOMAIN retired' = 1..manager /\ retired'[manager] = visible
      BY <1>1, <2>2, LenProperties
    <2>4. \A r \in Realms : Fresh[r].plain = TRUE /\ (r = Direct => Fresh[r].is = TRUE)
      BY DEF Fresh
    <2>5. ManagersInv'
      <3>1. manager' = Len(retired') + 1
        BY <1>1, <2>1, <2>2
      <3>2. HasDirect(visible') /\ \A r \in Realms : visible'[r].is = TRUE \/ visible'[r].plain = TRUE
        BY <2>1, <2>4, RegistryAssumption DEF HasDirect
      <3>3. \A m \in DOMAIN retired' : HasDirect(retired'[m])
        BY <1>1, <2>2, <2>3 DEF ManagersInv
      <3> QED
        BY <3>1, <3>2, <3>3 DEF ManagersInv, HasDirect
    <2>6. ASSUME NEW m \in 1..manager PROVE Older(Observe(m), Observe(m)')
      <3>1. Observe(m)' = Observe(m)
        BY <1>1, <1>4, <2>2, <2>3 DEF Observe
      <3> QED
        BY <1>3, <3>1, ObserveTypes
    <2> QED
      BY <1>1, <2>1, <2>5, <2>6
  <1> QED
    BY <1>5, <1>6, ManagersChange

\* What a step can do to the entry: nothing that matters here, a recording by the thread that
\* has observed the managers, a native close, or a new entry.
EntrySame ==
    /\ table # NoEntry /\ table' # NoEntry /\ table'.epoch = table.epoch /\ table'.rev = table.rev
    /\ table'.mgr = table.mgr /\ table'.proof = table.proof /\ nextEpoch' = nextEpoch
EntryRecorded(t) ==
    /\ table # NoEntry /\ table' # NoEntry /\ at[t].pc = "record"
    /\ table.epoch = at[t].epoch /\ table.rev = at[t].rev
    /\ table'.epoch = table.epoch /\ table'.rev = table.rev + 1
    /\ table'.mgr = table.mgr /\ table'.proof = Recorded(t) /\ nextEpoch' = nextEpoch
EntryClosed(t) ==
    /\ table # NoEntry /\ table' # NoEntry /\ at[t].pc = "closeTake" /\ table.epoch = at[t].epoch
    /\ table'.epoch = nextEpoch /\ table'.mgr = table.mgr /\ table'.proof = Known(at[t].seen)
    /\ nextEpoch' = nextEpoch + 1
EntryNew(m, s) ==
    /\ table' # NoEntry /\ table'.epoch = nextEpoch /\ table'.mgr = m /\ table'.proof = s
    /\ nextEpoch' = nextEpoch + 1
EntryGone == table' = NoEntry /\ nextEpoch' = nextEpoch

\* Every step of a thread does one of these.
LEMMA EntryKinds ==
    ASSUME RegistryTypeOK, LedgerInv, NEW t \in Threads, Step(t)
    PROVE  \/ EntryGone \/ EntrySame \/ EntryRecorded(t) \/ EntryClosed(t)
           \/ at[t].pc = "insert" /\ EntryNew(at[t].mgr, at[t].seen)
  <1>1. UNCHANGED native => EntryGone \/ EntrySame
    BY DEF native, EntryGone, EntrySame
  <1>2. RemoveEntry => EntryGone
    BY DEF RemoveEntry, EntryGone
  <1>3. \A e \in Entries : e # NoEntry
    BY DEF Entries, NoEntry
  <1>4. at[t].realm \in Realms /\ at[t].key \in Slots /\ at[t].mgr \in Nat /\ at[t].seen \in Views
    BY LocalParts
  <1>5. CASE CloseTable(t) \/ DetachDrop(t) \/ DropRegistration(t) \/ ReapDead(t)
    BY <1>1, <1>2, <1>5 DEF CloseTable, DetachDrop, DropRegistration, ReapDead, RemoveReference
  <1>6. CASE InsertEntry(t)
    <2>1. at[t].pc = "insert" /\ Insert(at[t].mgr, at[t].seen) /\ nextEpoch' = nextEpoch + 1
      BY <1>6 DEF InsertEntry, Insert
    <2> QED
      BY <1>3, <1>4, <2>1, EntryInserted DEF EntryNew
  <1>7. CASE TakePool(t)
    <2>1. CASE table # NoEntry /\ AdmitPool(at[t].realm, at[t].key)
      <3>1. nextEpoch' = nextEpoch
        BY <2>1 DEF AdmitPool
      <3> QED
        BY <1>3, <1>4, <2>1, <3>1, AdmitsLedger DEF EntrySame
    <2> QED
      BY <1>1, <1>7, <2>1 DEF TakePool
  <1>8. CASE RecordProof(t)
    <2>1. CASE /\ table # NoEntry /\ table.epoch = at[t].epoch /\ table.rev = at[t].rev
               /\ table' = [table EXCEPT !.proof = Recorded(t), !.rev = @ + 1]
               /\ UNCHANGED <<made, cleared, nextEpoch>>
      <3>1. Recorded(t) \in Views /\ table \in Entries
        BY <1>4, <2>1, RenewedTypes, EntryParts
      <3>2. Renews
        BY <2>1, <3>1 DEF Renews
      <3>3. table'.proof = Recorded(t)
        BY <2>1, <3>1 DEF Entries
      <3>4. at[t].pc = "record"
        BY <1>8 DEF RecordProof
      <3> QED
        BY <1>3, <2>1, <3>2, <3>3, <3>4, RenewsEntry DEF EntryRecorded
    <2> QED
      BY <1>1, <1>8, <2>1, RecordEffect
  <1>9. CASE NativeCloseTake(t)
    <2>1. CASE /\ table # NoEntry /\ table.epoch = at[t].epoch
               /\ table' = Emptied(t) /\ nextEpoch' = nextEpoch + 1
               /\ cleared' = cleared \cup PoolIds(table) /\ UNCHANGED made
      <3>1. Known(at[t].seen) \in Views /\ table \in Entries
        BY <1>4, <2>1, RenewedTypes, EntryParts
      <3>2. Empties
        BY <2>1, <3>1 DEF Empties, Emptied
      <3>3. table'.proof = Known(at[t].seen)
        BY <2>1, <3>1 DEF Entries, Emptied
      <3>4. at[t].pc = "closeTake"
        BY <1>9 DEF NativeCloseTake
      <3> QED
        BY <1>3, <2>1, <3>2, <3>3, <3>4, EmptiesEntry DEF EntryClosed
    <2> QED
      BY <1>1, <1>9, <2>1, CloseTakeEffect
  <1>10. CASE ~(\/ InsertEntry(t) \/ DropRegistration(t) \/ TakePool(t) \/ RecordProof(t)
                \/ CloseTable(t) \/ NativeCloseTake(t) \/ DetachDrop(t) \/ ReapDead(t))
    BY <1>1, <1>10, QuietTypes DEF Step
  <1> QED
    BY <1>5, <1>6, <1>7, <1>8, <1>9, <1>10

\* The part of a proof that is renewed is as new as the observation, and what was proved of
\* a manager besides its pools stays.
LEMMA RenewedIs ==
    ASSUME NEW a \in Managers, NEW b \in Managers
    PROVE  /\ Renewed(a, b).ver = b.ver /\ Renewed(a, b).is = b.is
           /\ a.plain = TRUE /\ (a.is = TRUE \/ b.plain = TRUE) => Renewed(a, b).plain = TRUE
  <1>1. a.is \in BOOLEAN /\ a.plain \in BOOLEAN
    BY DEF Managers
  <1>2. CASE a.is
    <2>1. Renewed(a, b) = [b EXCEPT !.plain = a.plain]
      BY <1>2 DEF Renewed
    <2> QED
      BY <1>1, <2>1 DEF Managers
  <1>3. CASE ~a.is
    <2>1. Renewed(a, b) = b
      BY <1>3 DEF Renewed
    <2> QED
      BY <1>3, <2>1
  <1> QED
    BY <1>2, <1>3

\* A proof that is recorded is newer than the one before, and was observed; no replaced
\* manager becomes part of it.
LEMMA RecordedIs ==
    ASSUME RegistryTypeOK, EntryInv, NEW t \in Threads, SeenBy(t), table # NoEntry,
           at[t].pc = "record", table.epoch = at[t].epoch, table.rev = at[t].rev
    PROVE  /\ Older(table.proof, Recorded(t)) /\ Older(Recorded(t), Observe(table.mgr))
           /\ Plain(Recorded(t)) /\ HasDirect(Recorded(t))
  <1>1. /\ Older(at[t].seen, Observe(table.mgr)) /\ Older(table.proof, at[t].seen)
        /\ HasDirect(at[t].seen) /\ HasDirect(table.proof) /\ Plain(table.proof)
        /\ Older(table.proof, Observe(table.mgr))
        /\ at[t].realm # Direct => \A r \in Realms \ {Direct} :
             table.proof[r].is = TRUE \/ at[t].seen[r].plain = TRUE
    BY DEF SeenBy, EntryInv
  <1>2. \A r \in Realms : table.proof[r] \in Managers /\ at[t].seen[r] \in Managers
    BY EntryParts, LocalParts DEF Views
  <1>3. \A r \in Realms : table.proof[r].ver \in Nat
    BY <1>2 DEF Managers
  <1>4. ASSUME NEW r \in Realms
        PROVE  /\ table.proof[r].ver <= Recorded(t)[r].ver
               /\ Recorded(t)[r].ver <= Observe(table.mgr)[r].ver
               /\ Recorded(t)[r].plain = TRUE /\ (r = Direct => Recorded(t)[r].is = TRUE)
    <2>1. CASE (r = Direct) <=> (at[t].realm = Direct)
      <3>1. Recorded(t)[r] = Renewed(table.proof[r], at[t].seen[r])
        BY <2>1 DEF Recorded
      <3>2. table.proof[r].is = TRUE \/ at[t].seen[r].plain = TRUE
        BY <1>1, <2>1 DEF HasDirect
      <3>3. table.proof[r].plain = TRUE
        BY <1>1 DEF Plain
      <3>4. /\ Recorded(t)[r].ver = at[t].seen[r].ver /\ Recorded(t)[r].is = at[t].seen[r].is
            /\ Recorded(t)[r].plain = TRUE
        <4> DEFINE a == table.proof[r]
                   b == at[t].seen[r]
        <4>1. a \in Managers /\ b \in Managers /\ a.plain = TRUE /\ (a.is = TRUE \/ b.plain = TRUE)
          BY <1>2, <3>2, <3>3
        <4> HIDE DEF a, b
        <4>2. Renewed(a, b).ver = b.ver /\ Renewed(a, b).is = b.is /\ Renewed(a, b).plain = TRUE
          BY <4>1, RenewedIs
        <4> QED
          BY <3>1, <4>2 DEF a, b
      <3> QED
        BY <1>1, <3>4 DEF Older, HasDirect
    <2>2. CASE ~((r = Direct) <=> (at[t].realm = Direct))
      <3>1. Recorded(t)[r] = table.proof[r]
        BY <2>2 DEF Recorded
      <3> QED
        BY <1>1, <1>3, <3>1 DEF Older, HasDirect, Plain
    <2> QED
      BY <2>1, <2>2
  <1> QED
    BY <1>4, RegistryAssumption DEF Older, Plain, HasDirect

\* So is the proof that a native close renews.
LEMMA KnownIs ==
    ASSUME RegistryTypeOK, EntryInv, NEW t \in Threads, SeenBy(t), table # NoEntry,
           at[t].pc = "closeTake", table.epoch = at[t].epoch
    PROVE  /\ Older(Known(at[t].seen), Observe(table.mgr))
           /\ Plain(Known(at[t].seen)) /\ HasDirect(Known(at[t].seen))
  <1> DEFINE s == at[t].seen
  <1>1. /\ Older(s, Observe(table.mgr)) /\ HasDirect(s) /\ HasDirect(table.proof)
        /\ Plain(table.proof) /\ Older(table.proof, Observe(table.mgr))
    BY DEF SeenBy, EntryInv
  <1>2. \A r \in Realms : table.proof[r] \in Managers /\ s[r] \in Managers
    BY EntryParts, LocalParts DEF Views
  <1> HIDE DEF s
  <1>3. ASSUME NEW r \in Realms
        PROVE  /\ Known(s)[r].ver <= Observe(table.mgr)[r].ver
               /\ Known(s)[r].plain = TRUE /\ (r = Direct => Known(s)[r].is = TRUE)
    <2>1. table.proof[r].is \in BOOLEAN
      BY <1>2 DEF Managers
    <2>2. CASE table.proof[r].is
      <3>1. Known(s)[r] = Renewed(table.proof[r], s[r]) /\ table.proof[r].is = TRUE
        BY <2>1, <2>2 DEF Known
      <3>0. table.proof[r].plain = TRUE
        BY <1>1 DEF Plain
      <3>2. Known(s)[r].ver = s[r].ver /\ Known(s)[r].is = s[r].is /\ Known(s)[r].plain = TRUE
        <4> DEFINE a == table.proof[r]
                   b == s[r]
        <4>1. a \in Managers /\ b \in Managers /\ a.plain = TRUE /\ a.is = TRUE
          BY <1>2, <3>0, <3>1
        <4> HIDE DEF a, b
        <4>2. Renewed(a, b).ver = b.ver /\ Renewed(a, b).is = b.is /\ Renewed(a, b).plain = TRUE
          BY <4>1, RenewedIs
        <4> QED
          BY <3>1, <4>2 DEF a, b
      <3> QED
        BY <1>1, <3>2 DEF Older, HasDirect
    <2>3. CASE ~table.proof[r].is
      <3>1. Known(s)[r] = table.proof[r]
        BY <2>3 DEF Known
      <3> QED
        BY <1>1, <3>1 DEF Older, HasDirect, Plain
    <2> QED
      BY <2>2, <2>3
  <1> QED
    BY <1>3, RegistryAssumption DEF Older, Plain, HasDirect, s

\* Being older is transitive.
LEMMA OlderTrans ==
    ASSUME NEW a \in Views, NEW b \in Views, NEW c \in Views, Older(a, b), Older(b, c)
    PROVE  Older(a, c)
  <1>1. \A r \in Realms : a[r].ver \in Nat /\ b[r].ver \in Nat /\ c[r].ver \in Nat
    BY DEF Views, Managers
  <1> QED
    BY <1>1 DEF Older

\* What was older than the managers of an earlier generation stays so.
LEMMA StaysOlder ==
    ASSUME RegistryTypeOK, RegistryTypeOK', ManagersInv, [RegistryNext]_registryVars,
           NEW s \in Views, NEW m \in 1..manager, Older(s, Observe(m))
    PROVE  Older(s, Observe(m)') /\ m \in 1..manager'
  <1>1. Observe(m) \in Views
    BY ObserveTypes
  <1>2. Observe(m)' \in Views
    BY DEF RegistryTypeOK, Observe
  <1>3. Older(Observe(m), Observe(m)') /\ manager' >= manager /\ manager \in Nat /\ manager' \in Nat
    BY ManagersStep DEF RegistryTypeOK
  <1>4. m \in 1..manager'
    BY <1>3
  <1> DEFINE a == Observe(m)
             b == Observe(m)'
  <1>5. a \in Views /\ b \in Views /\ Older(s, a) /\ Older(a, b)
    BY <1>1, <1>2, <1>3
  <1> HIDE DEF a, b
  <1>6. Older(s, b)
    BY <1>5, OlderTrans
  <1> QED
    BY <1>4, <1>6 DEF b

\* The entry stays current, whatever a step does to it.
LEMMA EntryStep ==
    ASSUME RegistryTypeOK, RegistryTypeOK', ManagersInv, EntryInv, [RegistryNext]_registryVars,
           \/ table' = NoEntry
           \/ EntrySame
           \/ \E t \in Threads : SeenBy(t) /\ (EntryRecorded(t) \/ EntryClosed(t))
           \/ \E t \in Threads : SeenBy(t) /\ at[t].pc = "insert" /\ EntryNew(at[t].mgr, at[t].seen)
           \/ NewManagers /\ EntryNew(manager + 1, Fresh)
    PROVE  EntryInv'
  <1>1. ASSUME NEW s \in Views, NEW m \in 1..manager, Older(s, Observe(m)), Plain(s), HasDirect(s),
               table'.mgr = m, table'.proof = s
        PROVE  EntryInv'
    <2>1. Older(s, Observe(m)') /\ m \in 1..manager'
      BY <1>1, StaysOlder
    <2>2. Older(table'.proof, IF table'.mgr \in DOMAIN retired' THEN retired'[table'.mgr] ELSE visible')
      BY <1>1, <2>1 DEF Observe
    <2>3. EntryInv' <=> (table' # NoEntry =>
             /\ table'.mgr \in 1..manager'
             /\ Older(table'.proof, IF table'.mgr \in DOMAIN retired' THEN retired'[table'.mgr] ELSE visible')
             /\ Plain(table'.proof) /\ HasDirect(table'.proof))
      BY DEF EntryInv, Older, Plain, HasDirect, Observe
    <2> QED
      BY <1>1, <2>1, <2>2, <2>3
  <1>2. CASE table' = NoEntry
    BY <1>2 DEF EntryInv
  <1>3. CASE EntrySame
    <2>1. table.proof \in Views /\ table'.mgr = table.mgr /\ table'.proof = table.proof
      BY <1>3, EntryParts DEF EntrySame
    <2>2. /\ table.mgr \in 1..manager /\ Older(table.proof, Observe(table.mgr))
          /\ Plain(table.proof) /\ HasDirect(table.proof)
      BY <1>3 DEF EntryInv, EntrySame
    <2> QED
      BY <1>1, <2>1, <2>2
  <1>4. ASSUME NEW t \in Threads, SeenBy(t), EntryRecorded(t) PROVE EntryInv'
    <2>1. /\ table # NoEntry /\ at[t].pc = "record" /\ table.epoch = at[t].epoch
          /\ table.rev = at[t].rev /\ table'.mgr = table.mgr /\ table'.proof = Recorded(t)
      BY <1>4 DEF EntryRecorded
    <2>2. /\ Older(Recorded(t), Observe(table.mgr)) /\ Plain(Recorded(t)) /\ HasDirect(Recorded(t))
      BY <1>4, <2>1, RecordedIs
    <2>3. Recorded(t) \in Views /\ table.mgr \in 1..manager
      BY <2>1, LocalParts, RenewedTypes DEF EntryInv
    <2> QED
      BY <1>1, <2>1, <2>2, <2>3
  <1>5. ASSUME NEW t \in Threads, SeenBy(t), EntryClosed(t) PROVE EntryInv'
    <2> DEFINE k == Known(at[t].seen)
    <2>1. /\ table # NoEntry /\ at[t].pc = "closeTake" /\ table.epoch = at[t].epoch
          /\ table'.mgr = table.mgr /\ table'.proof = k
      BY <1>5 DEF EntryClosed
    <2>2. Older(k, Observe(table.mgr)) /\ Plain(k) /\ HasDirect(k)
      BY <1>5, <2>1, KnownIs
    <2>3. k \in Views /\ table.mgr \in 1..manager
      BY <2>1, LocalParts, RenewedTypes DEF EntryInv
    <2> HIDE DEF k
    <2> QED
      BY <1>1, <2>1, <2>2, <2>3
  <1>6. ASSUME NEW t \in Threads, SeenBy(t), at[t].pc = "insert", EntryNew(at[t].mgr, at[t].seen)
        PROVE  EntryInv'
    <2>1. /\ at[t].seen \in Views /\ table'.mgr = at[t].mgr /\ table'.proof = at[t].seen
      BY <1>6, LocalParts DEF EntryNew
    <2>2. /\ at[t].mgr \in 1..manager /\ Older(at[t].seen, Observe(at[t].mgr))
          /\ Plain(at[t].seen) /\ HasDirect(at[t].seen)
      BY <1>6 DEF SeenBy
    <2> QED
      BY <1>1, <2>1, <2>2
  <1>7. CASE NewManagers /\ EntryNew(manager + 1, Fresh)
    <2>1. /\ table'.mgr = manager' /\ table'.proof = Fresh /\ visible' = Fresh
      BY <1>7 DEF NewManagers, EntryNew
    <2>2. ManagersInv' /\ retired' \in Seq(Views) /\ manager' \in Nat
      BY ManagersStep DEF RegistryTypeOK
    <2>3. manager' = Len(retired') + 1
      BY <2>2 DEF ManagersInv
    <2>4. manager' \notin DOMAIN retired' /\ manager' \in 1..manager'
      BY <2>2, <2>3, LenProperties
    <2>5. Fresh \in Views /\ \A r \in Realms : Fresh[r].plain = TRUE /\ (r = Direct => Fresh[r].is = TRUE)
      BY StartTypes DEF Fresh
    <2>6. Older(Fresh, Fresh) /\ Plain(Fresh) /\ HasDirect(Fresh)
      BY <2>5, RegistryAssumption DEF Older, Plain, HasDirect, Views, Managers
    <2> QED
      BY <2>1, <2>4, <2>6 DEF EntryInv, Observe, Older, Plain, HasDirect
  <1> QED
    BY <1>2, <1>3, <1>4, <1>5, <1>6, <1>7

\* What a thread has seen stays so while it waits.
LEMMA WaitingSees ==
    ASSUME RegistryTypeOK, RegistryTypeOK', ManagersInv, EntryInv, [RegistryNext]_registryVars,
           NEW u \in Threads, SeenBy(u), at'[u] = at[u],
           \/ EntryGone \/ EntrySame
           \/ /\ table # NoEntry /\ table'.epoch = table.epoch /\ table'.rev = table.rev + 1
              /\ table'.mgr = table.mgr /\ nextEpoch' = nextEpoch
           \/ table'.epoch = nextEpoch /\ nextEpoch' = nextEpoch + 1
    PROVE  SeenBy(u)'
  <1>0. nextEpoch \in Nat /\ nextEpoch' >= nextEpoch
    <2>1. nextEpoch \in Nat
      BY DEF RegistryTypeOK
    <2>2. nextEpoch' = nextEpoch \/ nextEpoch' = nextEpoch + 1
      BY DEF EntryGone, EntrySame
    <2> QED
      BY <2>1, <2>2
  <1>1. nextEpoch \in Nat /\ nextEpoch' >= nextEpoch /\ at[u].epoch \in Nat /\ at[u].rev \in Nat
        /\ at[u].seen \in Views /\ (table # NoEntry => table.rev \in Nat)
    BY <1>0, LocalParts, EntryParts
  <1> DEFINE O(m) == IF m \in DOMAIN retired' THEN retired'[m] ELSE visible'
  <1>2. ASSUME NEW m \in 1..manager, Older(at[u].seen, Observe(m))
        PROVE  Older(at[u].seen, O(m)) /\ m \in 1..manager'
    <2>1. Older(at[u].seen, Observe(m)') /\ m \in 1..manager'
      BY <1>1, <1>2, StaysOlder
    <2> QED
      BY <2>1 DEF Observe
  <1> HIDE DEF O
  <1>3. at[u].pc = "insert" => /\ at[u].mgr \in 1..manager' /\ Older(at[u].seen, O(at[u].mgr))
                               /\ Plain(at[u].seen) /\ HasDirect(at[u].seen)
    <2> SUFFICES ASSUME at[u].pc = "insert"
                 PROVE  /\ at[u].mgr \in 1..manager' /\ Older(at[u].seen, O(at[u].mgr))
                        /\ Plain(at[u].seen) /\ HasDirect(at[u].seen)
      OBVIOUS
    <2>1. /\ at[u].mgr \in 1..manager /\ Older(at[u].seen, Observe(at[u].mgr))
          /\ Plain(at[u].seen) /\ HasDirect(at[u].seen)
      BY DEF SeenBy
    <2> DEFINE m == at[u].mgr
    <2>2. m \in 1..manager /\ Older(at[u].seen, Observe(m))
      BY <2>1
    <2> HIDE DEF m
    <2>3. Older(at[u].seen, O(m)) /\ m \in 1..manager'
      BY <1>2, <2>2
    <2> QED
      BY <2>1, <2>3 DEF m
  <1>4. /\ at[u].pc = "verify" => Plain(at[u].seen)
        /\ at[u].pc \in {"record", "closeTake"} => at[u].epoch < nextEpoch' /\ HasDirect(at[u].seen)
    <2>1. /\ at[u].pc = "verify" => Plain(at[u].seen)
          /\ at[u].pc \in {"record", "closeTake"} => at[u].epoch < nextEpoch /\ HasDirect(at[u].seen)
      BY DEF SeenBy
    <2>2. nextEpoch' \in Nat
      BY DEF RegistryTypeOK
    <2> QED
      BY <1>1, <2>1, <2>2
  <1>5. ASSUME at[u].pc \in {"record", "closeTake"}, table' # NoEntry, table'.epoch = at[u].epoch
        PROVE  /\ at[u].rev <= table'.rev /\ Older(at[u].seen, O(table'.mgr))
               /\ at[u].pc = "record" /\ table'.rev = at[u].rev
                    => /\ Older(table'.proof, at[u].seen)
                       /\ at[u].realm # Direct => \A r \in Realms \ {Direct} :
                            table'.proof[r].is = TRUE \/ at[u].seen[r].plain = TRUE
    <2>1. at[u].epoch < nextEpoch
      BY <1>5 DEF SeenBy
    <2>2. /\ table # NoEntry /\ table'.epoch = table.epoch /\ table'.mgr = table.mgr
          /\ \/ table'.rev = table.rev /\ table'.proof = table.proof
             \/ table'.rev = table.rev + 1
      BY <1>1, <1>5, <2>1 DEF EntryGone, EntrySame
    <2>3. at[u].rev <= table.rev /\ Older(at[u].seen, Observe(table.mgr)) /\ table.mgr \in 1..manager
      BY <1>5, <2>2 DEF SeenBy, EntryInv
    <2>4. Older(at[u].seen, O(table'.mgr))
      BY <1>2, <2>2, <2>3
    <2>5. at[u].rev <= table'.rev
      BY <1>1, <2>2, <2>3
    <2>6. ASSUME at[u].pc = "record", table'.rev = at[u].rev
          PROVE  /\ Older(table'.proof, at[u].seen)
                 /\ at[u].realm # Direct => \A r \in Realms \ {Direct} :
                      table'.proof[r].is = TRUE \/ at[u].seen[r].plain = TRUE
      <3>1. table'.rev = table.rev /\ table'.proof = table.proof
        BY <1>1, <2>2, <2>3, <2>6
      <3> QED
        BY <1>5, <2>2, <2>6, <3>1 DEF SeenBy
    <2> QED
      BY <2>4, <2>5, <2>6
  <1>6. SeenBy(u)' <=>
          /\ at'[u].pc = "insert" => /\ at'[u].mgr \in 1..manager' /\ Older(at'[u].seen, O(at'[u].mgr))
                                     /\ Plain(at'[u].seen) /\ HasDirect(at'[u].seen)
          /\ at'[u].pc = "verify" => Plain(at'[u].seen)
          /\ at'[u].pc \in {"record", "closeTake"} => at'[u].epoch < nextEpoch' /\ HasDirect(at'[u].seen)
          /\ at'[u].pc \in {"record", "closeTake"} /\ table' # NoEntry /\ table'.epoch = at'[u].epoch
               => at'[u].rev <= table'.rev /\ Older(at'[u].seen, O(table'.mgr))
          /\ at'[u].pc = "record" /\ table' # NoEntry /\ table'.epoch = at'[u].epoch /\ table'.rev = at'[u].rev
               => /\ Older(table'.proof, at'[u].seen)
                  /\ at'[u].realm # Direct => \A r \in Realms \ {Direct} :
                       table'.proof[r].is = TRUE \/ at'[u].seen[r].plain = TRUE
    BY DEF SeenBy, Older, Plain, HasDirect, Observe, O
  <1> QED
    BY <1>3, <1>4, <1>5, <1>6


\* What the thread that steps has seen of the managers is what they are then.
LEMMA MoverSees ==
    ASSUME RegistryTypeOK, ManagersInv, EntryInv, Numbered, NEW t \in Threads, Step(t)
    PROVE  SeenBy(t)'
  <1>1. at'[t].pc \notin {"insert", "verify", "record", "closeTake"} => SeenBy(t)'
    BY DEF SeenBy
  <1>2. CASE ~Looks(t)
    BY <1>1, <1>2, OtherPlaces DEF Guarded
  <1>3. CASE TakePool(t) \/ VerifyProof(t) \/ LookupPool(t)
    <2>1. CASE TakePool(t)
      <3>1. Go(t, "compat") \/ Go(t, "panic") \/ Go(t, "connect")
        BY <2>1 DEF TakePool
      <3>2. {"compat", "panic", "connect"} \subseteq PCs
        BY DEF PCs
      <3>3. at'[t].pc \in {"compat", "panic", "connect"}
        BY <3>1, <3>2, GoEffect
      <3> QED
        BY <1>1, <3>3
    <2>2. CASE VerifyProof(t) \/ LookupPool(t)
      <3>1. at'[t].pc \in {"unreserve", "compat", "proof", "lookup", "commit", "select"}
        BY <2>2, VerifyProofEffect, LookupEffect DEF ProofFallback
      <3> QED
        BY <1>1, <3>1
    <2> QED
      BY <1>3, <2>1, <2>2
  <1>4. CASE RegisterNative(t) \/ CopyProof(t) \/ ObserveManagers(t) \/ NativeCloseRead(t)
    <2> DEFINE a == at'[t]
    <2>1. /\ UNCHANGED <<table, nextEpoch, visible, manager, retired>>
      BY <1>4 DEF RegisterNative, CopyProof, ObserveManagers, NativeCloseRead, native, python
    <2>2. SeenBy(t)' <=>
            /\ a.pc = "insert" => /\ a.mgr \in 1..manager /\ Older(a.seen, Observe(a.mgr))
                                  /\ Plain(a.seen) /\ HasDirect(a.seen)
            /\ a.pc = "verify" => Plain(a.seen)
            /\ a.pc \in {"record", "closeTake"} => a.epoch < nextEpoch /\ HasDirect(a.seen)
            /\ a.pc \in {"record", "closeTake"} /\ table # NoEntry /\ table.epoch = a.epoch
                 => a.rev <= table.rev /\ Older(a.seen, Observe(table.mgr))
            /\ a.pc = "record" /\ table # NoEntry /\ table.epoch = a.epoch /\ table.rev = a.rev
                 => /\ Older(table.proof, a.seen)
                    /\ a.realm # Direct => \A r \in Realms \ {Direct} :
                         table.proof[r].is = TRUE \/ a.seen[r].plain = TRUE
      BY <2>1 DEF SeenBy, Older, Plain, HasDirect, Observe
    <2> HIDE DEF a
    <2>3. \A v \in Views : Older(v, v)
      BY DEF Older, Views, Managers
    <2>4. retired \in Seq(Views) /\ visible \in Views /\ manager \in Nat /\ Len(retired) \in Nat
          /\ DOMAIN retired = 1..Len(retired) /\ manager = Len(retired) + 1
      BY LenProperties DEF RegistryTypeOK, ManagersInv
    <2>5. Observe(manager) = visible /\ manager \in 1..manager
      BY <2>4 DEF Observe
    <2>6. ASSUME NEW m \in Nat PROVE HasDirect(Observe(m)) /\ Observe(m) \in Views
      BY ObserveTypes DEF ManagersInv, Observe
    <2>7. CASE RegisterNative(t)
      <3>1. \/ a.pc \in {"proof", "unreserve"}
            \/ /\ a.pc = "insert" /\ a.mgr = manager /\ a.seen = visible
               /\ DirectIsPlain /\ \A r \in Realms \ {Direct} : ~visible[r].is
        BY <2>7, RegisterNativeEffect DEF a
      <3>2. CASE a.pc = "insert"
        <4>1. /\ a.mgr = manager /\ a.seen = visible /\ DirectIsPlain
              /\ \A r \in Realms \ {Direct} : ~visible[r].is
          BY <3>1, <3>2
        <4>2. visible[Direct].plain \in BOOLEAN /\ \A r \in Realms : visible[r].is \in BOOLEAN
          BY <2>4, RegistryAssumption DEF Views, Managers
        <4>3. visible[Direct].plain = TRUE
          BY <4>1, <4>2 DEF DirectIsPlain
        <4>4. \A r \in Realms \ {Direct} : visible[r].plain = TRUE
          BY <4>1 DEF ManagersInv
        <4>5. Plain(visible) /\ HasDirect(visible) /\ Older(visible, visible)
          BY <2>3, <2>4, <4>3, <4>4 DEF Plain, ManagersInv
        <4>6. a.mgr \in 1..manager /\ Older(a.seen, Observe(a.mgr)) /\ Plain(a.seen) /\ HasDirect(a.seen)
          BY <2>5, <4>1, <4>5
        <4> QED
          BY <2>2, <3>2, <4>6
      <3> QED
        BY <2>2, <3>1, <3>2
    <2>8. CASE CopyProof(t)
      <3>1. \/ a.pc \in {"unreserve", "compat"}
            \/ a.pc = "verify" /\ table # NoEntry /\ a.seen = table.proof
        BY <2>8, CopyProofEffect DEF a, ProofFallback
      <3>2. a.pc = "verify" => Plain(a.seen)
        BY <3>1 DEF EntryInv
      <3> QED
        BY <2>2, <3>1, <3>2
    <2>9. CASE ObserveManagers(t) /\ a.pc # "raise"
      <3>1. /\ a.pc = "record" /\ table # NoEntry /\ a.epoch = table.epoch /\ a.rev = table.rev
            /\ a.seen = Observe(table.mgr) /\ a.realm = at[t].realm
            /\ at[t].realm # Direct => table.mgr = manager /\ ProxiesAreCanonical
        BY <2>9, ObserveEffect DEF a, SameCall
      <3>2. /\ table.mgr \in Nat /\ table.rev \in Nat /\ table.epoch < nextEpoch
            /\ table.proof \in Views /\ Older(table.proof, Observe(table.mgr))
        BY <3>1, EntryParts DEF Numbered, EntryInv
      <3>3. HasDirect(a.seen) /\ Older(a.seen, Observe(table.mgr))
        <4> DEFINE m == table.mgr
        <4>1. m \in Nat /\ a.seen = Observe(m)
          BY <3>1, <3>2
        <4> HIDE DEF m
        <4>2. HasDirect(Observe(m)) /\ Older(Observe(m), Observe(m))
          BY <2>3, <2>6, <4>1
        <4> QED
          BY <4>1, <4>2 DEF m
      <3>4. ASSUME a.realm # Direct, NEW r \in Realms \ {Direct}
            PROVE  table.proof[r].is = TRUE \/ a.seen[r].plain = TRUE
        <4>1. a.seen = visible /\ ProxiesAreCanonical
          BY <2>5, <3>1, <3>4
        <4>2. /\ table.proof[r].is \in BOOLEAN /\ visible[r].is \in BOOLEAN /\ visible[r].plain \in BOOLEAN
          BY <2>4, <3>2 DEF Views, Managers
        <4>3. visible[r].is = TRUE \/ visible[r].plain = TRUE
          BY DEF ManagersInv
        <4>4. visible[r].is => IF table.proof[r].is THEN visible[r].plain = table.proof[r].plain
                               ELSE visible[r].plain
          BY <4>1 DEF ProxiesAreCanonical
        <4>5. CASE visible[r].is = TRUE /\ table.proof[r].is = FALSE
          <5>1. visible[r].plain
            BY <4>4, <4>5
          <5> QED
            BY <4>1, <4>2, <5>1
        <4> QED
          BY <4>1, <4>2, <4>3, <4>5
      <3>5. a.rev <= table.rev
        BY <3>1, <3>2
      <3>6. Older(table.proof, a.seen)
        BY <3>1, <3>2
      <3> QED
        BY <2>2, <3>1, <3>2, <3>3, <3>4, <3>5, <3>6
    <2>10. CASE NativeCloseRead(t) /\ a.pc # "idle"
      <3>1. /\ a.pc = "closeTake" /\ table # NoEntry /\ a.epoch = table.epoch /\ a.rev = table.rev
            /\ a.seen = Observe(table.mgr)
        BY <2>10, CloseReadEffect DEF a
      <3>2. /\ table.mgr \in Nat /\ table.rev \in Nat /\ table.epoch < nextEpoch
        BY <3>1, EntryParts DEF Numbered
      <3>3. HasDirect(a.seen) /\ Older(a.seen, Observe(table.mgr))
        <4> DEFINE m == table.mgr
        <4>1. m \in Nat /\ a.seen = Observe(m)
          BY <3>1, <3>2
        <4> HIDE DEF m
        <4>2. HasDirect(Observe(m)) /\ Older(Observe(m), Observe(m))
          BY <2>3, <2>6, <4>1
        <4> QED
          BY <4>1, <4>2 DEF m
      <3>4. a.rev <= table.rev
        BY <3>1, <3>2
      <3> QED
        BY <2>2, <3>1, <3>2, <3>3, <3>4
    <2>11. CASE a.pc \in {"raise", "idle"}
      BY <1>1, <2>11 DEF a
    <2> QED
      BY <1>4, <2>7, <2>8, <2>9, <2>10, <2>11
  <1> QED
    BY <1>2, <1>3, <1>4 DEF Looks

\* Nothing has been replaced in a constructed adapter.
LEMMA CurrentInit ==
    ASSUME RegistryInit
    PROVE  CurrentInv
  <1>1. /\ visible = Fresh /\ manager = 1 /\ retired = <<>> /\ table.mgr = 1 /\ table.proof = Fresh
        /\ at = [t \in Threads |-> Idle]
    BY DEF RegistryInit
  <1>2. \A r \in Realms : Fresh[r].plain = TRUE /\ (r = Direct => Fresh[r].is = TRUE) /\ Fresh[r].ver = 0
    BY DEF Fresh
  <1>3. DOMAIN retired = {} /\ Len(retired) = 0
    BY <1>1
  <1>4. ManagersInv
    BY <1>1, <1>2, <1>3, RegistryAssumption DEF ManagersInv, HasDirect
  <1>5. Observe(1) = Fresh
    BY <1>1, <1>3 DEF Observe
  <1>6. EntryInv
    BY <1>1, <1>2, <1>5, RegistryAssumption DEF EntryInv, HasDirect, Plain, Older
  <1>7. ASSUME NEW t \in Threads PROVE SeenBy(t)
    <2>1. at[t].pc = "idle"
      BY <1>1 DEF Idle
    <2> QED
      BY <2>1 DEF SeenBy
  <1> QED
    BY <1>4, <1>6, <1>7 DEF CurrentInv


\* A step of a thread leaves the proof and what the threads have seen current.
LEMMA CurrentThread ==
    ASSUME RegistryTypeOK, RegistryTypeOK', LedgerInv, Numbered, CurrentInv,
           NEW t \in Threads, Scheduled(t), Step(t)
    PROVE  CurrentInv'
  <1>1. ManagersInv /\ EntryInv /\ \A u \in Threads : SeenBy(u)
    BY DEF CurrentInv
  <1>2. [RegistryNext]_registryVars
    BY DEF RegistryNext
  <1>3. ManagersInv'
    BY <1>1, <1>2, ManagersStep
  <1>4. \/ EntryGone \/ EntrySame \/ EntryRecorded(t) \/ EntryClosed(t)
        \/ at[t].pc = "insert" /\ EntryNew(at[t].mgr, at[t].seen)
    BY EntryKinds
  <1>5. EntryInv'
    BY <1>1, <1>2, <1>4, EntryStep DEF EntryGone
  <1>6. SeenBy(t)'
    BY <1>1, MoverSees
  <1>7. ASSUME NEW u \in Threads, u # t PROVE SeenBy(u)'
    <2>1. at'[u] = at[u]
      BY <1>7, StepMoves
    <2>2. \/ EntryGone \/ EntrySame
          \/ /\ table # NoEntry /\ table'.epoch = table.epoch /\ table'.rev = table.rev + 1
             /\ table'.mgr = table.mgr /\ nextEpoch' = nextEpoch
          \/ table'.epoch = nextEpoch /\ nextEpoch' = nextEpoch + 1
      BY <1>4 DEF EntryRecorded, EntryClosed, EntryNew
    <2> QED
      BY <1>1, <1>2, <2>1, <2>2, WaitingSees
  <1>8. \A u \in Threads : SeenBy(u)'
    BY <1>6, <1>7
  <1> QED
    BY <1>3, <1>5, <1>8 DEF CurrentInv

\* So do the program's own changes and the end of the adapter.
LEMMA CurrentOther ==
    ASSUME RegistryTypeOK, RegistryTypeOK', CurrentInv,
           Tamper \/ Die \/ Finalize \/ Construct \/ UNCHANGED registryVars
    PROVE  CurrentInv'
  <1>1. ManagersInv /\ EntryInv /\ \A u \in Threads : SeenBy(u)
    BY DEF CurrentInv
  <1>2. [RegistryNext]_registryVars
    BY DEF RegistryNext
  <1>3. ManagersInv'
    BY <1>1, <1>2, ManagersStep
  <1>4. at' = at
    BY DEF Tamper, Die, Finalize, Construct, registryVars
  <1>5. EntryGone \/ EntrySame \/ (NewManagers /\ EntryNew(manager + 1, Fresh))
    <2>1. CASE Construct
      <3>1. Insert(manager + 1, Fresh) /\ NewManagers /\ nextEpoch' = nextEpoch + 1
        BY <2>1 DEF Construct, Insert
      <3>2. manager + 1 \in Nat /\ Fresh \in Views
        BY StartTypes DEF RegistryTypeOK
      <3>3. /\ table' \in Entries /\ table'.epoch = nextEpoch /\ table'.mgr = manager + 1
            /\ table'.proof = Fresh
        BY <3>1, <3>2, EntryInserted
      <3>4. table' # NoEntry
        BY <3>3 DEF Entries, NoEntry
      <3> QED
        BY <3>1, <3>3, <3>4 DEF EntryNew
    <2>2. CASE ~Construct
      <3>1. UNCHANGED native \/ RemoveEntry
        BY <2>2 DEF Tamper, Die, Finalize, registryVars, native
      <3> QED
        BY <3>1 DEF native, RemoveEntry, EntryGone, EntrySame
    <2> QED
      BY <2>1, <2>2
  <1>6. EntryInv'
    BY <1>1, <1>2, <1>5, EntryStep DEF EntryGone
  <1>7. ASSUME NEW u \in Threads PROVE SeenBy(u)'
    <2>1. at'[u] = at[u]
      BY <1>4
    <2>2. EntryGone \/ EntrySame \/ (table'.epoch = nextEpoch /\ nextEpoch' = nextEpoch + 1)
      BY <1>5 DEF EntryNew
    <2> QED
      BY <1>1, <1>2, <2>1, <2>2, WaitingSees
  <1> QED
    BY <1>3, <1>6, <1>7 DEF CurrentInv

\* What the side table has proved of urllib3's managers, and what the threads have seen of
\* them and not recorded yet, was so of the managers the entry is for, and no replaced
\* manager is part of it.
THEOREM RegistryStaysCurrent == RegistrySpec => []CurrentInv
  <1>1. RegistryInit => CurrentInv
    BY CurrentInit
  <1>2. ASSUME RegistryTypeOK, LedgerInv, CoordInv, CurrentInv, [RegistryNext]_registryVars
        PROVE  CurrentInv'
    <2>1. RegistryTypeOK' /\ Numbered
      BY <1>2, TypesStep DEF CoordInv
    <2>2. CASE \E t \in Threads : Scheduled(t) /\ Step(t)
      BY <1>2, <2>1, <2>2, CurrentThread
    <2>3. CASE Tamper \/ Die \/ Finalize \/ Construct \/ UNCHANGED registryVars
      BY <1>2, <2>1, <2>3, CurrentOther
    <2> QED
      BY <1>2, <2>2, <2>3 DEF RegistryNext
  <1>3. RegistryTypeOK /\ LedgerInv /\ CoordInv /\ CurrentInv /\ [RegistryNext]_registryVars
          => CurrentInv'
    BY <1>2
  <1> QED
    BY <1>1, <1>3, RegistryTypeCorrect, RegistryCoordinated, PTL DEF RegistrySpec

\* A step that leaves the entry its epoch leaves its proof or records a newer one.
LEMMA ProofGrows ==
    ASSUME RegistryTypeOK, LedgerInv, Numbered, CurrentInv, [RegistryNext]_registryVars,
           table # NoEntry, table' # NoEntry, table'.epoch = table.epoch
    PROVE  \A r \in Realms : table'.proof[r].ver >= table.proof[r].ver
  <1>1. table.epoch < nextEpoch /\ table.epoch \in Nat /\ nextEpoch \in Nat /\ table.proof \in Views
    BY EntryParts DEF Numbered, RegistryTypeOK
  <1>2. Older(table.proof, table.proof)
    BY <1>1 DEF Older, Views, Managers
  <1>3. Older(table.proof, table'.proof)
    <2>1. ASSUME NEW t \in Threads, Step(t) PROVE Older(table.proof, table'.proof)
      <3>1. \/ EntryGone \/ EntrySame \/ EntryRecorded(t) \/ EntryClosed(t)
            \/ at[t].pc = "insert" /\ EntryNew(at[t].mgr, at[t].seen)
        BY <2>1, EntryKinds
      <3>2. ~EntryGone /\ ~EntryClosed(t) /\ ~EntryNew(at[t].mgr, at[t].seen)
        BY <1>1 DEF EntryGone, EntryClosed, EntryNew
      <3>3. CASE EntrySame
        BY <1>2, <3>3 DEF EntrySame
      <3>4. CASE EntryRecorded(t)
        <4>1. /\ at[t].pc = "record" /\ table.epoch = at[t].epoch /\ table.rev = at[t].rev
              /\ table'.proof = Recorded(t) /\ EntryInv /\ SeenBy(t)
          BY <3>4 DEF EntryRecorded, CurrentInv
        <4>2. Older(table.proof, Recorded(t))
          BY <4>1, RecordedIs
        <4> QED
          BY <4>1, <4>2
      <3> QED
        BY <3>1, <3>2, <3>3, <3>4
    <2>2. CASE Construct
      <3>1. Insert(manager + 1, Fresh)
        BY <2>2 DEF Construct
      <3>2. manager + 1 \in Nat /\ Fresh \in Views
        BY StartTypes DEF RegistryTypeOK
      <3>3. table'.epoch = nextEpoch
        BY <3>1, <3>2, EntryInserted
      <3> QED
        BY <1>1, <3>3
    <2>3. CASE Tamper \/ Die \/ Finalize \/ UNCHANGED registryVars
      <3>1. table' = table
        BY <2>3 DEF Tamper, Die, Finalize, registryVars, native, RemoveEntry
      <3> QED
        BY <1>2, <3>1
    <2> QED
      BY <2>1, <2>2, <2>3 DEF RegistryNext
  <1> QED
    BY <1>3 DEF Older

\* A thread that a comparison lets through has compared the managers with plain ones.
LEMMA PlainAdmitted ==
    ASSUME RegistryTypeOK, CurrentInv, [RegistryNext]_registryVars,
           NEW t \in Threads, at[t].pc = "verify", at'[t].pc = "lookup"
    PROVE  \A r \in Realms : visible[r].plain
  <1>1. at'[t] # at[t]
    OBVIOUS
  <1>2. ~(Tamper \/ Die \/ Finalize \/ Construct \/ UNCHANGED registryVars)
    BY <1>1 DEF Tamper, Die, Finalize, Construct, registryVars
  <1>3. PICK u \in Threads : Step(u)
    BY <1>2 DEF RegistryNext
  <1>4. u = t
    BY <1>1, <1>3, StepMoves
  <1>5. VerifyProof(t)
    BY <1>3, <1>4 DEF Step, StartSend, StartClose, EnterAccess, AdmitOwner, BeginRegistration,
       RegisterNative, InsertEntry, CommitRegistration, DropRegistration, ClearRegistration,
       EnterInner, CopyProof, LookupPool, TakePool, ConnectManager, ObserveManagers, RecordProof,
       ExitSend, CompatSend, CompatClose, CloseTable, CloseOwner, StartNativeClose,
       NativeCloseRead, NativeCloseTake, StartSetstate, DetachReference, DetachDrop,
       ReplaceManagers, ExitTransition, StartReap, ReapDead
  <1>6. ManagersPristine(at[t].seen)
    BY <1>5, VerifyProofEffect DEF ProofFallback
  <1>7. Plain(at[t].seen)
    BY DEF CurrentInv, SeenBy
  <1> QED
    BY <1>6, <1>7 DEF ManagersPristine, Plain

\* The proof that the side table keeps of urllib3's managers never goes back to an older
\* observation however the sends interleave, and a send is admitted only past managers that
\* nobody has replaced, for any number of threads, proxies and pools.
THEOREM RegistryProofIsCurrent == RegistrySpec => ProofNeverGoesBack /\ ReplacedManagerRefused
  <1>1. RegistryTypeOK /\ LedgerInv /\ CoordInv /\ CurrentInv /\ [RegistryNext]_registryVars
          => (table # NoEntry /\ table' # NoEntry /\ table'.epoch = table.epoch =>
                \A r \in Realms : table'.proof[r].ver >= table.proof[r].ver)
    BY ProofGrows DEF CoordInv
  <1>2. RegistryTypeOK /\ CurrentInv /\ [RegistryNext]_registryVars
          => \A t \in Threads : at[t].pc = "verify" /\ at'[t].pc = "lookup" =>
               \A r \in Realms : visible[r].plain
    BY PlainAdmitted
  <1> QED
    BY <1>1, <1>2, RegistryTypeCorrect, RegistryCoordinated, RegistryStaysCurrent, PTL
       DEF RegistrySpec, ProofNeverGoesBack, ReplacedManagerRefused
=============================================================================
