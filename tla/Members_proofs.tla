--------------------------- MODULE Members_proofs ---------------------------
(***************************************************************************)
(* What holds of the members of an object for every registry, every hash   *)
(* function and every limit between a search in order and the hash table.  *)
(***************************************************************************)
EXTENDS Members, TLAPS, FiniteSetTheorems, WellFoundedInduction

\* Induction over the natural numbers, on a set of them.
LEMMA NatSets ==
    ASSUME NEW S, 0 \in S, \A n \in Nat : n \in S => n + 1 \in S
    PROVE  Nat \subseteq S
<1>. DEFINE T == {n \in Nat : n \notin S}
            R == OpToRel(<, Nat)
<1>. SUFFICES ASSUME T # {} PROVE FALSE
  OBVIOUS
<1>1. \A x, y \in Nat : <<x, y>> \in R <=> x < y
  BY DEF OpToRel
<1>2. IsWellFoundedOn(R, Nat)
  BY NatLessThanWellFounded
<1>. HIDE DEF R
<1>3. PICK x \in T : \A y \in T : ~(<<y, x>> \in R)
  <2>1. T \subseteq Nat
    OBVIOUS
  <2>. HIDE DEF T
  <2>. QED  BY <1>2, <2>1, WFMin
<1>4. \A y \in T : ~(y < x)
  BY <1>1, <1>3
<1>5. x # 0 /\ x - 1 \in Nat /\ x - 1 < x
  BY <1>3
<1>6. x - 1 \notin T
  BY <1>4, <1>5
<1>. QED  BY <1>3, <1>5, <1>6

\* The least of some naturals.
LEMMA MinIs ==
    ASSUME NEW S \in SUBSET Nat, S # {}
    PROVE  Min(S) \in S /\ \A y \in S : Min(S) <= y
<1>. DEFINE R == OpToRel(<, Nat)
<1>1. \A x, y \in Nat : <<x, y>> \in R <=> x < y
  BY DEF OpToRel
<1>2. IsWellFoundedOn(R, Nat)
  BY NatLessThanWellFounded
<1>. HIDE DEF R
<1>3. PICK x \in S : \A y \in S : ~(<<y, x>> \in R)
  BY <1>2, WFMin
<1>4. ASSUME NEW y \in S PROVE x <= y
  <2>1. x \in Nat /\ y \in Nat
    OBVIOUS
  <2>2. ~(<<y, x>> \in R)
    BY <1>3
  <2>. QED  BY <1>1, <2>1, <2>2
<1>. QED  BY <1>3, <1>4 DEF Min

\* f holds what is computed from base in 1, 2, ... n steps.
Computes(V, base, n, step, f) ==
    f \in [0 .. n -> V] /\ f[0] = base /\ \A k \in 1 .. n : f[k] = step[<<k, f[k - 1]>>]

LEMMA Steps ==
    ASSUME NEW V, NEW base \in V, NEW n \in Nat, NEW step \in [(1 .. n) \X V -> V]
    PROVE  \E f : Computes(V, base, n, step, f)
<1>. DEFINE Is(f, m) == f[0] = base /\ \A k \in 1 .. m : f[k] = step[<<k, f[k - 1]>>]
            S == {m \in Nat : m <= n => \E f \in [0 .. m -> V] : Is(f, m)}
<1>1. 0 \in S
  <2>. DEFINE f == [k \in 0 .. 0 |-> base]
  <2>1. f \in [0 .. 0 -> V] /\ Is(f, 0)
    OBVIOUS
  <2>. QED  BY <2>1
<1>2. ASSUME NEW m \in Nat, m \in S PROVE m + 1 \in S
  <2>. SUFFICES ASSUME m + 1 <= n PROVE \E f \in [0 .. (m + 1) -> V] : Is(f, m + 1)
    OBVIOUS
  <2>1. PICK f \in [0 .. m -> V] : Is(f, m)
    BY <1>2
  <2>. DEFINE v == step[<<m + 1, f[m]>>]
              g == [k \in 0 .. (m + 1) |-> IF k = m + 1 THEN v ELSE f[k]]
  <2>2. v \in V
    <3>1. m + 1 \in 1 .. n /\ f[m] \in V
      OBVIOUS
    <3>. QED  BY <3>1
  <2>. HIDE DEF v
  <2>3. g \in [0 .. (m + 1) -> V]
    BY <2>2
  <2>4. g[m + 1] = v /\ \A k \in 0 .. m : g[k] = f[k]
    OBVIOUS
  <2>. HIDE DEF g
  <2>5. ASSUME NEW k \in 1 .. (m + 1) PROVE g[k] = step[<<k, g[k - 1]>>]
    <3>1. k - 1 \in 0 .. m
      OBVIOUS
    <3>2. CASE k = m + 1
      <4>1. k - 1 = m
        BY <3>2
      <4>. QED  BY <2>4, <3>1, <3>2, <4>1 DEF v
    <3>3. CASE k # m + 1
      <4>1. k \in 1 .. m /\ k \in 0 .. m
        BY <3>3
      <4>. QED  BY <2>1, <2>4, <3>1, <4>1
    <3>. QED  BY <3>2, <3>3
  <2>6. g[0] = base
    BY <2>1, <2>4
  <2>. QED  BY <2>3, <2>5, <2>6
<1>3. Nat \subseteq S
  <2>. HIDE DEF S
  <2>. QED  BY <1>1, <1>2, NatSets
<1>. QED  BY <1>3 DEF Computes

-----------------------------------------------------------------------------
(* The size of the table.                                                  *)

Doubling(n, f) ==
    f = [i \in 0 .. (2 * n) |->
           IF i = 0 THEN 1 ELSE IF f[i - 1] <= 2 * n THEN 2 * f[i - 1] ELSE f[i - 1]]

LEMMA SizeIs ==
    ASSUME NEW n \in Nat
    PROVE  TableSize(n) \in Nat /\ TableSize(n) > 2 * n
<1>. DEFINE step == [p \in (1 .. (2 * n)) \X Nat |-> IF p[2] <= 2 * n THEN 2 * p[2] ELSE p[2]]
            f == CHOOSE g : Doubling(n, g)
<1>1. Doubling(n, f)
  <2>1. 2 * n \in Nat /\ 1 \in Nat /\ step \in [(1 .. (2 * n)) \X Nat -> Nat]
    OBVIOUS
  <2>2. \A k \in 1 .. (2 * n), v \in Nat : step[<<k, v>>] = IF v <= 2 * n THEN 2 * v ELSE v
    OBVIOUS
  <2>. HIDE DEF step
  <2>3. PICK g : Computes(Nat, 1, 2 * n, step, g)
    BY <2>1, Steps, Zenon
  <2>. DEFINE r == [i \in 0 .. (2 * n) |->
                      IF i = 0 THEN 1 ELSE IF g[i - 1] <= 2 * n THEN 2 * g[i - 1] ELSE g[i - 1]]
  <2>4. ASSUME NEW i \in 0 .. (2 * n) PROVE g[i] = r[i]
    <3>1. CASE i = 0
      BY <2>3, <3>1 DEF Computes
    <3>2. CASE i # 0
      <4>1. i \in 1 .. (2 * n) /\ i - 1 \in 0 .. (2 * n)
        BY <3>2
      <4>2. g[i - 1] \in Nat /\ g[i] = step[<<i, g[i - 1]>>]
        BY <2>3, <4>1 DEF Computes
      <4>. QED  BY <2>2, <3>2, <4>1, <4>2
    <3>. QED  BY <3>1, <3>2
  <2>5. g = r
    BY <2>3, <2>4 DEF Computes
  <2>6. Doubling(n, g)
    BY <2>5 DEF Doubling
  <2>. QED  BY <2>6
<1>2. TableSize(n) = f[2 * n]
  BY DEF TableSize, Doubling
<1>. HIDE DEF f
<1>. DEFINE S == {i \in Nat : i <= 2 * n => f[i] \in Nat /\ f[i] > i}
<1>3. 0 \in S
  BY <1>1 DEF Doubling
<1>4. ASSUME NEW i \in Nat, i \in S PROVE i + 1 \in S
  <2>. SUFFICES ASSUME i + 1 <= 2 * n PROVE f[i + 1] \in Nat /\ f[i + 1] > i + 1
    OBVIOUS
  <2>1. f[i] \in Nat /\ f[i] > i
    BY <1>4
  <2>2. f[i + 1] = IF f[i] <= 2 * n THEN 2 * f[i] ELSE f[i]
    <3>1. i + 1 \in 0 .. (2 * n) /\ i + 1 # 0 /\ (i + 1) - 1 = i
      OBVIOUS
    <3>. QED  BY <1>1, <3>1 DEF Doubling
  <2>. QED  BY <2>1, <2>2
<1>5. 2 * n \in S
  <2>1. 2 * n \in Nat
    OBVIOUS
  <2>. HIDE DEF S
  <2>. QED  BY <1>3, <1>4, <2>1, NatSets
<1>. QED  BY <1>2, <1>5

-----------------------------------------------------------------------------
(* Probing.                                                                *)

LEMMA Remainder ==
    ASSUME NEW s \in Nat \ {0}, NEW q \in Nat, NEW r \in 0 .. (s - 1)
    PROVE  (s * q + r) % s = r
  OBVIOUS

\* From any slot on, every slot is reached.
LEMMA Around ==
    ASSUME NEW s \in Nat \ {0}, NEW h \in Nat, NEW r \in 0 .. (s - 1)
    PROVE  \E d \in 0 .. (s - 1) : (h + d) % s = r
<1>. DEFINE x == h % s
            q == h \div s
<1>1. x \in 0 .. (s - 1)
  OBVIOUS
<1>2. h = s * q + x /\ q \in Nat
  OBVIOUS
<1>. HIDE DEF x, q
<1>3. CASE r >= x
  <2>1. h + (r - x) = s * q + r /\ r - x \in 0 .. (s - 1)
    BY <1>1, <1>2, <1>3
  <2>. QED  BY <1>2, <2>1, Remainder
<1>4. CASE r < x
  <2>. DEFINE d == (r + s) - x
  <2>1. s * (q + 1) = s * q + s
    BY <1>2
  <2>2. h + d = s * (q + 1) + r /\ d \in 0 .. (s - 1)
    BY <1>1, <1>2, <1>4, <2>1
  <2>3. q + 1 \in Nat
    BY <1>2
  <2>4. (s * (q + 1) + r) % s = r
    BY <2>3, Remainder
  <2>. QED  BY <2>2, <2>4
<1>. QED  BY <1>1, <1>3, <1>4

\* The slot at distance d from the hash of k.
Slot(size, h, k, d) == (Hash(h, k) + d) % size

LEMMA ProbeIs ==
    ASSUME NEW size \in Nat \ {0}, NEW table, DOMAIN table = 0 .. (size - 1),
           NEW h, NEW k, Hash(h, k) \in Nat,
           NEW stops \in SUBSET (0 .. (size - 1)), stops # {}
    PROVE  \E d \in 0 .. (size - 1) :
             /\ Probe(table, h, k, stops) = Slot(size, h, k, d)
             /\ Slot(size, h, k, d) \in stops
             /\ \A e \in 0 .. (d - 1) : Slot(size, h, k, e) \notin stops
<1>. DEFINE hits == {d \in 0 .. size - 1 : (Hash(h, k) + d) % size \in stops}
<1>1. Cardinality(DOMAIN table) = size
  <2>1. Cardinality(0 .. (size - 1)) = IF 0 > size - 1 THEN 0 ELSE ((size - 1) - 0) + 1
    BY FS_Interval
  <2>. QED  BY <2>1
<1>2. hits \in SUBSET Nat
  OBVIOUS
<1>3. hits # {}
  <2>1. PICK r \in 0 .. (size - 1) : r \in stops
    OBVIOUS
  <2>2. PICK d \in 0 .. (size - 1) : (Hash(h, k) + d) % size = r
    BY Around
  <2>. QED  BY <2>1, <2>2
<1>. DEFINE d == Min(hits)
<1>4. Probe(table, h, k, stops) = (Hash(h, k) + d) % size
  BY <1>1, <1>3 DEF Probe
<1>5. d \in hits /\ \A e \in hits : d <= e
  <2>. HIDE DEF hits
  <2>. QED  BY <1>2, <1>3, MinIs
<1>. HIDE DEF d
<1>6. ASSUME NEW e \in 0 .. (d - 1) PROVE (Hash(h, k) + e) % size \notin stops
  <2>1. e \in 0 .. (size - 1) /\ e < d
    BY <1>5
  <2>. QED  BY <1>5, <2>1
<1>. QED  BY <1>4, <1>5, <1>6 DEF Slot

-----------------------------------------------------------------------------
(* The table.                                                              *)

Cell == [len : Nat, u64 : Nat, str : Keys \cup {Free.str}, field : Nat]

Table(size) == [0 .. (size - 1) -> Cell]

LEMMA FreeIsCell == Free \in Cell
  BY DEF Free, Cell

LEMMA WordIs == ASSUME NEW k \in Keys PROVE U64(k) \in Nat
  BY KeyAssumption DEF U64

LEMMA EntryIsCell == ASSUME NEW k \in Keys, NEW i \in Nat PROVE Entry(k, i) \in Cell
<1>1. KeyLen[k] % ByteRange \in Nat
  <2>1. KeyLen[k] \in Nat /\ ByteRange \in Nat \ {0}
    BY KeyAssumption
  <2>. QED  BY <2>1
<1>. QED  BY <1>1, WordIs DEF Entry, Cell

LEMMA HashIs == ASSUME NEW h \in HashFunctions, NEW k \in Keys PROVE Hash(h, k) \in Nat
<1>1. h.u64 \in [{U64(l) : l \in Keys} -> Nat] /\ h.str \in [Keys -> Nat]
  BY DEF HashFunctions
<1>2. h.u64[U64(k)] \in Nat
  BY <1>1
<1>3. h.str[k] \in Nat
  BY <1>1
<1>. QED  BY <1>2, <1>3 DEF Hash

\* The slots that are not free are no more than the fields that entered.
Sparse(table, i) ==
    LET taken == {s \in DOMAIN table : table[s].len # 0}
    IN  IsFiniteSet(taken) /\ Cardinality(taken) <= i

LEMMA SomeVacant ==
    ASSUME NEW size \in Nat, NEW table \in Table(size), NEW i \in Nat, i < size, Sparse(table, i)
    PROVE  Vacant(table) # {}
<1>. SUFFICES ASSUME Vacant(table) = {} PROVE FALSE
  OBVIOUS
<1>1. DOMAIN table = 0 .. (size - 1)
  BY DEF Table
<1>. DEFINE taken == {s \in DOMAIN table : table[s].len # 0}
<1>2. taken = 0 .. (size - 1)
  BY <1>1 DEF Vacant
<1>3. Cardinality(0 .. (size - 1)) = IF 0 > size - 1 THEN 0 ELSE ((size - 1) - 0) + 1
  BY FS_Interval
<1>4. Cardinality(taken) <= i
  BY DEF Sparse
<1>. HIDE DEF taken
<1>5. Cardinality(taken) = size
  BY <1>2, <1>3
<1>. QED  BY <1>4, <1>5

\* A field enters the first free slot from its hash on.
LEMMA EnteredAt ==
    ASSUME NEW size \in Nat \ {0}, NEW table \in Table(size), NEW h \in HashFunctions,
           NEW k \in Keys, NEW i \in Nat, Vacant(table) # {}
    PROVE  \E d \in 0 .. (size - 1) :
             /\ Entered(table, h, k, i) = [table EXCEPT ![Slot(size, h, k, d)] = Entry(k, i)]
             /\ Slot(size, h, k, d) \in Vacant(table)
             /\ \A e \in 0 .. (d - 1) : Slot(size, h, k, e) \notin Vacant(table)
<1>1. DOMAIN table = 0 .. (size - 1) /\ Hash(h, k) \in Nat
  BY HashIs DEF Table
<1>2. Vacant(table) \in SUBSET (0 .. (size - 1))
  BY <1>1 DEF Vacant
<1>3. PICK d \in 0 .. (size - 1) :
        /\ Probe(table, h, k, Vacant(table)) = Slot(size, h, k, d)
        /\ Slot(size, h, k, d) \in Vacant(table)
        /\ \A e \in 0 .. (d - 1) : Slot(size, h, k, e) \notin Vacant(table)
  BY <1>1, <1>2, ProbeIs
<1>4. Slot(size, h, k, d) # Stuck
  BY <1>2, <1>3 DEF Stuck
<1>. QED  BY <1>3, <1>4 DEF Entered

LEMMA EnteredIsTable ==
    ASSUME NEW size \in Nat \ {0}, NEW table \in Table(size), NEW h \in HashFunctions,
           NEW k \in Keys, NEW i \in Nat
    PROVE  Entered(table, h, k, i) \in Table(size)
<1>1. CASE Vacant(table) = {}
  <2>1. Probe(table, h, k, Vacant(table)) = Stuck
    BY <1>1 DEF Probe
  <2>. QED  BY <2>1 DEF Entered
<1>2. CASE Vacant(table) # {}
  <2>1. PICK d \in 0 .. (size - 1) :
          Entered(table, h, k, i) = [table EXCEPT ![Slot(size, h, k, d)] = Entry(k, i)]
    BY <1>2, EnteredAt
  <2>. QED  BY <2>1, EntryIsCell DEF Table
<1>. QED  BY <1>1, <1>2

\* Names that are neither empty nor as long as a byte counts.
Proper(names) == \A i \in DOMAIN names : KeyLen[names[i]] \in 1 .. (ByteRange - 1)

\* Slots that are not free hold fields; each of the first m fields is held, and
\* the slots from its hash on to it hold earlier fields.
Holds(table, size, names, h, m) ==
    /\ \A s \in 0 .. (size - 1) :
         table[s].len # 0 => \E j \in 1 .. m : table[s] = Entry(names[j], j)
    /\ \A j \in 1 .. m : \E d \in 0 .. (size - 1) :
         /\ table[Slot(size, h, names[j], d)] = Entry(names[j], j)
         /\ \A e \in 0 .. (d - 1) :
              table[Slot(size, h, names[j], e)].len # 0 /\ table[Slot(size, h, names[j], e)].field < j

Built(table, size, names, h, m) ==
    /\ table \in Table(size) /\ Sparse(table, m)
    /\ \A s \in 0 .. (size - 1) : table[s].field \in 0 .. m
    /\ Proper(names) => Holds(table, size, names, h, m)

LEMMA SlotIs ==
    ASSUME NEW size \in Nat \ {0}, NEW h \in HashFunctions, NEW k \in Keys, NEW d \in Nat
    PROVE  Slot(size, h, k, d) \in 0 .. (size - 1)
<1>1. Hash(h, k) + d \in Nat
  BY HashIs
<1>. QED  BY <1>1 DEF Slot

LEMMA NothingBuilt ==
    ASSUME NEW size \in Nat \ {0}, NEW names, NEW h
    PROVE  Built([s \in 0 .. (size - 1) |-> Free], size, names, h, 0)
<1>. DEFINE table == [s \in 0 .. (size - 1) |-> Free]
<1>1. table \in Table(size)
  BY FreeIsCell DEF Table
<1>2. \A s \in 0 .. (size - 1) : table[s].len = 0 /\ table[s].field = 0
  BY DEF Free
<1>3. DOMAIN table = 0 .. (size - 1)
  OBVIOUS
<1>. HIDE DEF table
<1>4. {s \in DOMAIN table : table[s].len # 0} = {}
  BY <1>2, <1>3
<1>5. Sparse(table, 0)
  BY <1>4, FS_EmptySet DEF Sparse
<1>6. Holds(table, size, names, h, 0)
  BY <1>2 DEF Holds
<1>. QED  BY <1>1, <1>2, <1>5, <1>6 DEF Built, table

LEMMA BuiltFurther ==
    ASSUME NEW size \in Nat \ {0}, NEW names \in Seq(Keys), NEW h \in HashFunctions, NEW table,
           NEW m \in Nat, m + 1 <= Len(names), m < size, Built(table, size, names, h, m)
    PROVE  Built(Entered(table, h, names[m + 1], m + 1), size, names, h, m + 1)
<1>. DEFINE k == names[m + 1]
            more == Entered(table, h, k, m + 1)
<1>1. k \in Keys /\ m + 1 \in Nat /\ m + 1 \in DOMAIN names
  OBVIOUS
<1>. HIDE DEF k
<1>2. table \in Table(size) /\ Vacant(table) # {}
  BY SomeVacant DEF Built
<1>3. PICK d \in 0 .. (size - 1) :
        /\ more = [table EXCEPT ![Slot(size, h, k, d)] = Entry(k, m + 1)]
        /\ Slot(size, h, k, d) \in Vacant(table)
        /\ \A e \in 0 .. (d - 1) : Slot(size, h, k, e) \notin Vacant(table)
  BY <1>1, <1>2, EnteredAt
<1>4. more \in Table(size)
  BY <1>1, <1>2, EnteredIsTable
<1>. HIDE DEF more
<1>. DEFINE at == Slot(size, h, k, d)
<1>5. at \in 0 .. (size - 1) /\ table[at].len = 0
  BY <1>2, <1>3 DEF Vacant, Table
<1>6. DOMAIN table = 0 .. (size - 1) /\ DOMAIN more = 0 .. (size - 1)
  BY <1>2, <1>4 DEF Table
<1>7. more[at] = Entry(k, m + 1) /\ \A s \in 0 .. (size - 1) : s # at => more[s] = table[s]
  BY <1>3, <1>5, <1>6
<1>8. Sparse(more, m + 1)
  <2>. DEFINE taken == {s \in DOMAIN table : table[s].len # 0}
              now == {s \in DOMAIN more : more[s].len # 0}
  <2>1. now \subseteq taken \cup {at}
    BY <1>6, <1>7
  <2>2. IsFiniteSet(taken) /\ Cardinality(taken) <= m
    BY DEF Built, Sparse
  <2>. HIDE DEF taken, now, at
  <2>3. IsFiniteSet(taken \cup {at})
        /\ Cardinality(taken \cup {at}) = IF at \in taken THEN Cardinality(taken) ELSE Cardinality(taken) + 1
    BY <2>2, FS_AddElement
  <2>4. now \in SUBSET (taken \cup {at})
    BY <2>1
  <2>5. IsFiniteSet(now) /\ Cardinality(now) <= Cardinality(taken \cup {at})
    BY <2>3, <2>4, FS_Subset
  <2>6. Cardinality(now) \in Nat /\ Cardinality(taken) \in Nat
    BY <2>2, <2>5, FS_CardinalityType
  <2>7. Cardinality(now) <= m + 1
    <3>1. Cardinality(taken \cup {at}) <= Cardinality(taken) + 1
      BY <2>3, <2>6
    <3>2. Cardinality(taken \cup {at}) \in Nat
      BY <2>3, <2>6
    <3>. QED  BY <2>2, <2>5, <2>6, <3>1, <3>2
  <2>. QED  BY <2>5, <2>7 DEF Sparse, now
<1>9. ASSUME NEW s \in 0 .. (size - 1) PROVE more[s].field \in 0 .. (m + 1)
  <2>1. CASE s = at
    <3>1. more[s].field = m + 1
      BY <1>7, <2>1 DEF Entry
    <3>. QED  BY <3>1
  <2>2. CASE s # at
    <3>1. table[s].field \in 0 .. m
      BY DEF Built
    <3>. QED  BY <1>7, <2>2, <3>1
  <2>. QED  BY <2>1, <2>2
<1>10. ASSUME Proper(names) PROVE Holds(more, size, names, h, m + 1)
  <2>0. Holds(table, size, names, h, m)
    BY <1>10 DEF Built
  <2>1. ASSUME NEW s \in 0 .. (size - 1), more[s].len # 0
        PROVE  \E j \in 1 .. (m + 1) : more[s] = Entry(names[j], j)
    <3>1. CASE s = at
      <4>1. m + 1 \in 1 .. (m + 1)
        OBVIOUS
      <4>. QED  BY <1>7, <3>1, <4>1 DEF k
    <3>2. CASE s # at
      <4>1. more[s] = table[s]
        BY <1>7, <3>2
      <4>2. PICK j \in 1 .. m : table[s] = Entry(names[j], j)
        BY <2>0, <2>1, <4>1 DEF Holds
      <4>3. j \in 1 .. (m + 1)
        OBVIOUS
      <4>. QED  BY <4>1, <4>2, <4>3
    <3>. QED  BY <3>1, <3>2
  <2>2. ASSUME NEW j \in 1 .. (m + 1)
        PROVE  \E c \in 0 .. (size - 1) :
                 /\ more[Slot(size, h, names[j], c)] = Entry(names[j], j)
                 /\ \A e \in 0 .. (c - 1) : /\ more[Slot(size, h, names[j], e)].len # 0
                                            /\ more[Slot(size, h, names[j], e)].field < j
    <3>1. CASE j = m + 1
      <4>1. ASSUME NEW e \in 0 .. (d - 1)
            PROVE  more[Slot(size, h, k, e)].len # 0 /\ more[Slot(size, h, k, e)].field < j
        <5>. DEFINE s == Slot(size, h, k, e)
        <5>0. e \in Nat
          OBVIOUS
        <5>1. s \in 0 .. (size - 1)
          BY <1>1, <5>0, SlotIs
        <5>2. s \notin Vacant(table)
          BY <1>3
        <5>. HIDE DEF s
        <5>3. table[s].len # 0
          BY <1>6, <5>1, <5>2 DEF Vacant
        <5>4. s # at
          BY <1>5, <5>3
        <5>5. more[s] = table[s]
          BY <1>7, <5>1, <5>4
        <5>6. table[s].field \in 0 .. m
          BY <5>1 DEF Built
        <5>. QED  BY <3>1, <5>3, <5>5, <5>6 DEF s
      <4>2. names[j] = k
        BY <3>1 DEF k
      <4>. QED  BY <1>7, <3>1, <4>1, <4>2
    <3>2. CASE j # m + 1
      <4>1. j \in 1 .. m
        BY <3>2
      <4>2. names[j] \in Keys
        BY <4>1
      <4>3. PICK c \in 0 .. (size - 1) :
              /\ table[Slot(size, h, names[j], c)] = Entry(names[j], j)
              /\ \A e \in 0 .. (c - 1) : /\ table[Slot(size, h, names[j], e)].len # 0
                                         /\ table[Slot(size, h, names[j], e)].field < j
        BY <2>0, <4>1 DEF Holds
      <4>4. ASSUME NEW s \in 0 .. (size - 1), table[s].len # 0 PROVE more[s] = table[s]
        BY <1>5, <1>7, <4>4
      <4>5. Entry(names[j], j).len # 0
        <5>1. KeyLen[names[j]] \in 1 .. (ByteRange - 1) /\ ByteRange \in Nat
          BY <1>10, <4>1, KeyAssumption DEF Proper
        <5>2. KeyLen[names[j]] % ByteRange = KeyLen[names[j]]
          BY <5>1
        <5>. QED  BY <5>1, <5>2 DEF Entry
      <4>6. \A e \in Nat : Slot(size, h, names[j], e) \in 0 .. (size - 1)
        BY <4>2, SlotIs
      <4>9. c \in Nat /\ \A e \in 0 .. (c - 1) : e \in Nat
        OBVIOUS
      <4>7. more[Slot(size, h, names[j], c)] = Entry(names[j], j)
        BY <4>3, <4>4, <4>5, <4>6, <4>9
      <4>8. ASSUME NEW e \in 0 .. (c - 1)
            PROVE  /\ more[Slot(size, h, names[j], e)].len # 0
                   /\ more[Slot(size, h, names[j], e)].field < j
        BY <4>3, <4>4, <4>6, <4>9
      <4>. QED  BY <4>7, <4>8
    <3>. QED  BY <3>1, <3>2
  <2>. QED  BY <2>1, <2>2 DEF Holds
<1>. QED  BY <1>4, <1>8, <1>9, <1>10 DEF Built, more, k

\* table holds what is entered after 0, 1, ... fields.
Building(names, h, f) ==
    f = [i \in 0 .. Len(names) |->
           IF i = 0 THEN [s \in 0 .. TableSize(Len(names)) - 1 |-> Free]
           ELSE Entered(f[i - 1], h, names[i], i)]

LEMMA BuildTableIs ==
    ASSUME NEW names \in Seq(Keys), NEW h \in HashFunctions
    PROVE  \E size \in Nat : /\ size > Len(names)
                             /\ Built(BuildTable(names, h), size, names, h, Len(names))
<1>. DEFINE n == Len(names)
            size == TableSize(n)
            none == [s \in 0 .. (size - 1) |-> Free]
            step == [p \in (1 .. n) \X Table(size) |-> Entered(p[2], h, names[p[1]], p[1])]
            f == CHOOSE g : Building(names, h, g)
<1>1. n \in Nat /\ size \in Nat \ {0} /\ size > n
  <2>1. n \in Nat
    OBVIOUS
  <2>2. TableSize(n) \in Nat /\ TableSize(n) > 2 * n
    BY <2>1, SizeIs
  <2>. QED  BY <2>1, <2>2
<1>2. \A k \in 1 .. n : names[k] \in Keys
  OBVIOUS
<1>3. BuildTable(names, h) = f[n]
  BY DEF BuildTable, Building
<1>4. none \in Table(size)
  BY FreeIsCell DEF Table
<1>5. none = [s \in 0 .. TableSize(Len(names)) - 1 |-> Free]
  OBVIOUS
<1>6. \A k \in 1 .. n, t \in Table(size) : step[<<k, t>>] = Entered(t, h, names[k], k)
  OBVIOUS
<1>7. step \in [(1 .. n) \X Table(size) -> Table(size)]
  <2>1. ASSUME NEW p \in (1 .. n) \X Table(size) PROVE Entered(p[2], h, names[p[1]], p[1]) \in Table(size)
    <3>1. p[1] \in 1 .. n /\ p[1] \in Nat /\ p[2] \in Table(size) /\ names[p[1]] \in Keys
      BY <1>2
    <3>. HIDE DEF n, size
    <3>. QED  BY <1>1, <3>1, EnteredIsTable
  <2>. QED  BY <2>1
<1>8. Building(names, h, f)
  <2>. HIDE DEF n, size, none, step
  <2>1. PICK g : Computes(Table(size), none, n, step, g)
    BY <1>1, <1>4, <1>7, Steps, Zenon
  <2>. DEFINE r == [i \in 0 .. n |-> IF i = 0 THEN none ELSE Entered(g[i - 1], h, names[i], i)]
  <2>2. ASSUME NEW i \in 0 .. n PROVE g[i] = r[i]
    <3>1. CASE i = 0
      BY <2>1, <3>1 DEF Computes
    <3>2. CASE i # 0
      <4>1. i \in 1 .. n /\ i - 1 \in 0 .. n
        BY <1>1, <3>2
      <4>2. g[i - 1] \in Table(size) /\ g[i] = step[<<i, g[i - 1]>>]
        BY <2>1, <4>1 DEF Computes
      <4>3. g[i] = Entered(g[i - 1], h, names[i], i)
        BY <1>6, <4>1, <4>2
      <4>. QED  BY <3>2, <4>3
    <3>. QED  BY <3>1, <3>2
  <2>3. g = r
    BY <2>1, <2>2 DEF Computes
  <2>4. Building(names, h, g)
    BY <1>5, <2>3 DEF Building, n
  <2>. QED  BY <2>4
<1>9. f[0] = none
  <2>1. 0 \in 0 .. Len(names)
    BY <1>1
  <2>2. f[0] = [s \in 0 .. TableSize(Len(names)) - 1 |-> Free]
    BY <1>8, <2>1 DEF Building
  <2>. HIDE DEF f
  <2>. QED  BY <1>5, <2>2
<1>10. ASSUME NEW i \in 0 .. (n - 1) PROVE f[i + 1] = Entered(f[i], h, names[i + 1], i + 1)
  <2>1. i + 1 \in 0 .. n /\ i + 1 # 0 /\ (i + 1) - 1 = i
    BY <1>1
  <2>. QED  BY <1>8, <2>1 DEF Building
<1>. HIDE DEF f, size, none
<1>. DEFINE S == {m \in Nat : m <= n => Built(f[m], size, names, h, m)}
<1>11. 0 \in S
  BY <1>1, <1>9, NothingBuilt DEF none
<1>12. ASSUME NEW m \in Nat, m \in S PROVE m + 1 \in S
  <2>. SUFFICES ASSUME m + 1 <= n PROVE Built(f[m + 1], size, names, h, m + 1)
    OBVIOUS
  <2>1. m \in 0 .. (n - 1) /\ m < size /\ m <= n
    BY <1>1
  <2>2. Built(f[m], size, names, h, m)
    BY <1>12, <2>1
  <2>. QED  BY <1>1, <1>10, <2>1, <2>2, BuiltFurther
<1>13. n \in S
  <2>. HIDE DEF S
  <2>. QED  BY <1>1, <1>11, <1>12, NatSets
<1>. QED  BY <1>1, <1>3, <1>13

-----------------------------------------------------------------------------
(* The search.                                                             *)

\* Two keys are the same key exactly when the search takes them for it.
LEMMA SameKeyIs ==
    ASSUME NEW k \in Keys, NEW l \in Keys, KeyLen[l] > 0
    PROVE  SameKey(k, KeyLen[l], U64(l), l) <=> k = l
<1>1. KeyLen[k] \in Nat /\ KeyLen[l] \in Nat /\ Packed[k] \in Nat /\ Packed[l] \in Nat /\ Word \in Nat
  BY KeyAssumption
<1>2. ASSUME KeyLen[k] <= Word, KeyLen[l] = KeyLen[k], U64(l) = U64(k) PROVE k = l
  <2>1. KeyLen[k] \in 1 .. Word /\ KeyLen[l] \in 1 .. Word
    BY <1>1, <1>2
  <2>2. Packed[k] = Packed[l]
    BY <1>2, <2>1 DEF U64
  <2>. QED  BY <1>2, <2>2, KeyAssumption
<1>. QED  BY <1>2 DEF SameKey

\* The first of a set of fields, 0 if there is none.
LEMMA FirstIs ==
    ASSUME NEW n \in Nat, NEW S \in SUBSET (1 .. n)
    PROVE  /\ First(S) \in 0 .. n
           /\ S # {} => First(S) \in S /\ \A i \in S : First(S) <= i
           /\ First(S) = 0 <=> S = {}
<1>1. S \in SUBSET Nat
  OBVIOUS
<1>2. CASE S = {}
  BY <1>2 DEF First
<1>3. CASE S # {}
  <2>1. First(S) = Min(S)
    BY <1>3 DEF First
  <2>2. Min(S) \in S /\ \A i \in S : Min(S) <= i
    BY <1>1, <1>3, MinIs
  <2>3. Min(S) \in 1 .. n
    BY <2>2
  <2>4. First(S) \in 0 .. n /\ First(S) # 0
    BY <2>1, <2>3
  <2>. QED  BY <1>3, <2>1, <2>2, <2>4
<1>. QED  BY <1>2, <1>3

\* The field of a key in the table.
LEMMA SearchTableIs ==
    ASSUME NEW names \in Seq(Keys), NEW h \in HashFunctions, NEW k \in Keys
    PROVE  /\ SearchTable(names, h, k) \in 0 .. Len(names)
           /\ Proper(names) => SearchTable(names, h, k) = First({i \in DOMAIN names : names[i] = k})
<1>. DEFINE n == Len(names)
            table == BuildTable(names, h)
            stops == Stops(table, k)
            slot == Probe(table, h, k, stops)
<1>0. n \in Nat /\ DOMAIN names = 1 .. n /\ \A i \in 1 .. n : names[i] \in Keys
  OBVIOUS
<1>1. PICK size \in Nat : size > n /\ Built(table, size, names, h, n)
  BY BuildTableIs
<1>2. SearchTable(names, h, k) = IF slot = Stuck THEN Stuck
                                 ELSE IF table[slot].len = 0 THEN 0 ELSE table[slot].field
  BY DEF SearchTable
<1>. HIDE DEF n, table
<1>3. size \in Nat \ {0} /\ table \in Table(size) /\ DOMAIN table = 0 .. (size - 1) /\ Hash(h, k) \in Nat
  BY <1>0, <1>1, HashIs DEF Built, Table
<1>4. Vacant(table) # {}
  BY <1>0, <1>1, <1>3, SomeVacant DEF Built
<1>5. stops \in SUBSET (0 .. (size - 1)) /\ stops # {}
  BY <1>3, <1>4 DEF Stops, Vacant
<1>. HIDE DEF stops
<1>6. PICK d \in 0 .. (size - 1) :
        /\ slot = Slot(size, h, k, d)
        /\ Slot(size, h, k, d) \in stops
        /\ \A e \in 0 .. (d - 1) : Slot(size, h, k, e) \notin stops
  BY <1>3, <1>5, ProbeIs
<1>. HIDE DEF slot
<1>7. slot # Stuck /\ slot \in 0 .. (size - 1)
  <2>1. slot \in stops
    BY <1>6
  <2>2. slot \in 0 .. (size - 1)
    BY <1>5, <2>1
  <2>. QED  BY <2>2 DEF Stuck
<1>8. table[slot].field \in 0 .. n
  BY <1>1, <1>7 DEF Built
<1>9. SearchTable(names, h, k) = IF table[slot].len = 0 THEN 0 ELSE table[slot].field
  BY <1>2, <1>7
<1>. DEFINE same == {i \in 1 .. n : names[i] = k}
<1>10. ASSUME Proper(names) PROVE SearchTable(names, h, k) = First(same)
  <2>1. Holds(table, size, names, h, n)
    BY <1>1, <1>10 DEF Built
  \* An entry stops the search exactly when it is one of the key.
  <2>2. ASSUME NEW s \in 0 .. (size - 1), NEW j \in 1 .. n, table[s] = Entry(names[j], j)
        PROVE  /\ table[s].len # 0 /\ table[s].field = j
               /\ s \in stops <=> names[j] = k
    <3>1. KeyLen[names[j]] \in 1 .. (ByteRange - 1) /\ ByteRange \in Nat
      BY <1>0, <1>10, KeyAssumption DEF Proper
    <3>2. KeyLen[names[j]] % ByteRange = KeyLen[names[j]]
      BY <3>1
    <3>3. /\ table[s].len = KeyLen[names[j]] /\ table[s].u64 = U64(names[j])
          /\ table[s].str = names[j] /\ table[s].field = j
      BY <2>2, <3>2 DEF Entry
    <3>4. SameKey(k, KeyLen[names[j]], U64(names[j]), names[j]) <=> k = names[j]
      <4>1. KeyLen[names[j]] > 0 /\ names[j] \in Keys
        BY <1>0, <3>1
      <4>. QED  BY <4>1, SameKeyIs
    <3>5. table[s].len # 0
      BY <3>1, <3>3
    <3>6. s \in stops <=> SameKey(k, table[s].len, table[s].u64, table[s].str)
      BY <1>3, <3>5 DEF Stops, stops
    <3>. QED  BY <3>3, <3>4, <3>5, <3>6
  <2>3. same \in SUBSET (1 .. n)
    OBVIOUS
  <2>4. CASE same = {}
    <3>1. table[slot].len = 0
      <4>. SUFFICES ASSUME table[slot].len # 0 PROVE FALSE
        OBVIOUS
      <4>1. PICK j \in 1 .. n : table[slot] = Entry(names[j], j)
        BY <1>7, <2>1 DEF Holds
      <4>2. names[j] = k
        BY <1>6, <1>7, <2>2, <4>1
      <4>. QED  BY <2>4, <4>2
    <3>. QED  BY <1>9, <2>4, <3>1 DEF First
  <2>5. CASE same # {}
    <3>. DEFINE j == First(same)
    <3>1. j \in same /\ \A i \in same : j <= i
      <4>. HIDE DEF same
      <4>. QED  BY <1>0, <2>3, <2>5, FirstIs
    <3>2. j \in 1 .. n /\ names[j] = k
      BY <3>1
    <3>. HIDE DEF j
    <3>3. PICK c \in 0 .. (size - 1) :
            /\ table[Slot(size, h, k, c)] = Entry(k, j)
            /\ \A e \in 0 .. (c - 1) : table[Slot(size, h, k, e)].len # 0 /\ table[Slot(size, h, k, e)].field < j
      BY <2>1, <3>2 DEF Holds
    <3>4. \A e \in Nat : Slot(size, h, k, e) \in 0 .. (size - 1)
      BY <1>3, SlotIs
    <3>5. ASSUME NEW e \in 0 .. (c - 1) PROVE Slot(size, h, k, e) \notin stops
      <4>. DEFINE s == Slot(size, h, k, e)
      <4>1. s \in 0 .. (size - 1)
        <5>1. e \in Nat
          OBVIOUS
        <5>. QED  BY <3>4, <5>1
      <4>2. table[s].len # 0 /\ table[s].field < j
        BY <3>3
      <4>. HIDE DEF s
      <4>3. PICK i \in 1 .. n : table[s] = Entry(names[i], i)
        BY <2>1, <4>1, <4>2 DEF Holds
      <4>4. table[s].field = i /\ (s \in stops <=> names[i] = k)
        BY <2>2, <4>1, <4>3
      <4>5. i < j
        BY <4>2, <4>4
      <4>6. i \notin same
        BY <3>1, <3>2, <4>5
      <4>. QED  BY <4>4, <4>6 DEF s
    <3>6. Slot(size, h, k, c) \in 0 .. (size - 1)
      <4>1. c \in Nat
        OBVIOUS
      <4>. QED  BY <3>4, <4>1
    <3>7. /\ Slot(size, h, k, c) \in stops
          /\ table[Slot(size, h, k, c)].len # 0 /\ table[Slot(size, h, k, c)].field = j
      BY <2>2, <3>2, <3>3, <3>6
    <3>8. c = d
      <4>1. ~(c < d)
        <5>. SUFFICES ASSUME c < d PROVE FALSE
          OBVIOUS
        <5>1. c \in 0 .. (d - 1)
          OBVIOUS
        <5>. QED  BY <1>6, <3>7, <5>1
      <4>2. ~(d < c)
        <5>. SUFFICES ASSUME d < c PROVE FALSE
          OBVIOUS
        <5>1. d \in 0 .. (c - 1)
          OBVIOUS
        <5>. QED  BY <1>6, <3>5, <5>1
      <4>. QED  BY <4>1, <4>2
    <3>. QED  BY <1>6, <1>9, <3>7, <3>8 DEF j
  <2>. QED  BY <2>4, <2>5
<1>11. {i \in DOMAIN names : names[i] = k} = same
  BY <1>0
<1>12. SearchTable(names, h, k) \in 0 .. n
  BY <1>0, <1>8, <1>9
<1>. HIDE DEF same
<1>. QED  BY <1>10, <1>11, <1>12 DEF n

LEMMA LookupIs ==
    ASSUME NEW names \in Seq(Keys), NEW h \in HashFunctions, NEW k \in Keys
    PROVE  LET same  == First({i \in DOMAIN names : names[i] = k})
               other == First({i \in DOMAIN names : Lower[names[i]] = Lower[k]})
           IN  /\ Lookup(names, h, k) \in 0 .. Len(names)
               /\ Proper(names) => Lookup(names, h, k) = IF same # 0 THEN same ELSE other
<1>. DEFINE n == Len(names)
            S == {i \in DOMAIN names : names[i] = k}
            T == {i \in DOMAIN names : Lower[names[i]] = Lower[k]}
            E == {i \in DOMAIN names : SameKey(k, KeyLen[names[i]], U64(names[i]), names[i])}
            F == {i \in DOMAIN names : Lower[names[i]] = Lower[k] /\ KeyLen[Lower[k]] > 0}
<1>0. n \in Nat /\ DOMAIN names = 1 .. n /\ \A i \in DOMAIN names : names[i] \in Keys
  OBVIOUS
<1>1. S \in SUBSET (1 .. n) /\ E \in SUBSET (1 .. n) /\ F \in SUBSET (1 .. n)
  BY <1>0
<1>2. SearchFields(names, k) = First(E) /\ Fallback(names, k) = First(F)
  BY DEF SearchFields, Fallback
<1>3. First(E) \in 0 .. n /\ First(F) \in 0 .. n
  <2>. HIDE DEF n, E, F
  <2>. QED  BY <1>0, <1>1, FirstIs
<1>4. Exact(names, h, k) \in 0 .. n
  BY <1>2, <1>3, SearchTableIs DEF Exact
<1>5. Lookup(names, h, k) = IF Exact(names, h, k) = 0 THEN First(F) ELSE Exact(names, h, k)
  BY <1>2 DEF Lookup
<1>6. Lookup(names, h, k) \in 0 .. n
  BY <1>3, <1>4, <1>5
<1>7. ASSUME Proper(names) PROVE E = S /\ F = T
  <2>1. ASSUME NEW i \in DOMAIN names PROVE KeyLen[names[i]] \in Nat /\ KeyLen[names[i]] > 0
    <3>1. KeyLen[names[i]] \in 1 .. (ByteRange - 1) /\ ByteRange \in Nat
      BY <1>7, KeyAssumption DEF Proper
    <3>. QED  BY <3>1
  <2>2. ASSUME NEW i \in DOMAIN names
        PROVE  SameKey(k, KeyLen[names[i]], U64(names[i]), names[i]) <=> names[i] = k
    BY <1>0, <2>1, SameKeyIs
  <2>3. ASSUME NEW i \in DOMAIN names, Lower[names[i]] = Lower[k] PROVE KeyLen[Lower[k]] > 0
    <3>1. names[i] \in Keys /\ KeyLen[names[i]] # 0
      BY <1>0, <2>1
    <3>2. Lower[names[i]] \in Keys /\ KeyLen[Lower[names[i]]] \in Nat /\ KeyLen[Lower[names[i]]] # 0
      BY <3>1, KeyAssumption
    <3>. QED  BY <2>3, <3>2
  <2>. QED  BY <2>2, <2>3
<1>8. ASSUME Proper(names) PROVE Exact(names, h, k) = First(S)
  <2>1. SearchTable(names, h, k) = First(S)
    BY <1>8, SearchTableIs
  <2>. QED  BY <1>2, <1>7, <1>8, <2>1 DEF Exact
<1>. HIDE DEF S, T, F, E
<1>9. ASSUME Proper(names) PROVE Lookup(names, h, k) = IF First(S) # 0 THEN First(S) ELSE First(T)
  BY <1>5, <1>7, <1>8, <1>9
<1>. QED  BY <1>6, <1>9 DEF S, T, n

-----------------------------------------------------------------------------
(* The parts of a number.                                                  *)

\* That a literal is a string is nothing the provers know.
Character ==
    STRING \cup ToSet(Digits) \cup Codes
      \cup {"-", "quote", "back", "u", "n", "nl", "bell", "replacement", "pair"}

Text == Seq(Character)

LEMMA DigitIsNo ==
    ASSUME NEW c, IsDigit(c)
    PROVE  c \notin {"end", "-", "+", ".", "e", "E"}
<1>1. PICK i \in DOMAIN Digits : c = Digits[i]
  BY DEF IsDigit, ToSet
<1>. QED  BY <1>1 DEF Digits

LEMMA ZeroIs == IsDigit("0")
BY DEF IsDigit, ToSet, Digits

LEMMA AtIs ==
    ASSUME NEW b \in Text
    PROVE  /\ Len(b) \in Nat
           /\ \A i \in 1 .. Len(b) : At(b, i) = b[i]
           /\ \A i : i \notin 1 .. Len(b) => At(b, i) = "end"
BY DEF Text, At

\* What is a digit, a sign or a point is a character of the text.
LEMMA Inside ==
    ASSUME NEW b \in Text, NEW i \in Int, At(b, i) # "end"
    PROVE  i \in 1 .. Len(b)
BY AtIs

\* Digits from i to the one before j.
Run(b, i, j) == \A k \in i .. (j - 1) : IsDigit(At(b, k))

LEMMA AfterIs ==
    ASSUME NEW b \in Text, NEW i \in 1 .. (Len(b) + 1)
    PROVE  /\ AfterDigits(b, i) \in i .. (Len(b) + 1)
           /\ ~IsDigit(At(b, AfterDigits(b, i))) /\ Run(b, i, AfterDigits(b, i))
<1>. DEFINE S == {j \in i .. (Len(b) + 1) : ~IsDigit(At(b, j))}
            m == AfterDigits(b, i)
<1>1. Len(b) \in Nat /\ Len(b) + 1 \in S
  <2>1. Len(b) \in Nat
    BY AtIs
  <2>2. At(b, Len(b) + 1) = "end"
    BY <2>1, AtIs
  <2>3. ~IsDigit(At(b, Len(b) + 1))
    BY <2>2, DigitIsNo
  <2>4. Len(b) + 1 \in i .. (Len(b) + 1)
    BY <2>1
  <2>. QED  BY <2>1, <2>3, <2>4
<1>2. S \in SUBSET Nat /\ S # {}
  BY <1>1
<1>3. m = Min(S)
  BY DEF AfterDigits
<1>4. m \in S /\ \A j \in S : m <= j
  <2>. HIDE DEF S, m
  <2>. QED  BY <1>2, <1>3, MinIs
<1>5. m \in i .. (Len(b) + 1) /\ ~IsDigit(At(b, m))
  BY <1>4
<1>6. ASSUME NEW k \in i .. (m - 1) PROVE IsDigit(At(b, k))
  <2>. HIDE DEF m
  <2>1. k \in i .. (Len(b) + 1) /\ ~(m <= k)
    BY <1>1, <1>5
  <2>2. k \notin S
    BY <1>4, <2>1
  <2>. QED  BY <2>1, <2>2
<1>. QED  BY <1>5, <1>6 DEF Run

LEMMA AfterAt ==
    ASSUME NEW b \in Text, NEW i \in 1 .. (Len(b) + 1), NEW j \in i .. (Len(b) + 1),
           Run(b, i, j), ~IsDigit(At(b, j))
    PROVE  AfterDigits(b, i) = j
<1>. DEFINE m == AfterDigits(b, i)
<1>1. m \in i .. (Len(b) + 1) /\ ~IsDigit(At(b, m)) /\ Run(b, i, m)
  BY AfterIs
<1>. HIDE DEF m
<1>2. m \in Int /\ j \in Int /\ i <= m /\ i <= j
  BY <1>1
<1>3. ~(m < j)
  BY <1>1, <1>2 DEF Run
<1>4. ~(j < m)
  BY <1>1, <1>2 DEF Run
<1>. QED  BY <1>2, <1>3, <1>4 DEF m

\* Where the digits of a number begin, and those of the exponent whose letter is at e.
IntStart(b) == SkipSign(b, 1, {"-"})
PowStart(b, e) == SkipSign(b, e + 1, {"+", "-"})

LEMMA StartIs ==
    ASSUME NEW b \in Text
    PROVE  /\ IntStart(b) \in {1, 2} /\ IntStart(b) <= Len(b) + 1
           /\ IntStart(b) = 2 <=> At(b, 1) = "-"
           /\ b # <<>> <=> Len(b) >= 1
<1>1. Len(b) \in Nat /\ (b # <<>> <=> Len(b) >= 1)
  BY DEF Text
<1>2. At(b, 1) = "-" => 1 \in 1 .. Len(b)
  BY Inside
<1>. QED  BY <1>1, <1>2 DEF IntStart, SkipSign

LEMMA PowIs ==
    ASSUME NEW b \in Text, NEW e \in 1 .. Len(b)
    PROVE  /\ PowStart(b, e) \in {e + 1, e + 2} /\ PowStart(b, e) <= Len(b) + 1
           /\ PowStart(b, e) = e + 2 <=> At(b, e + 1) \in {"+", "-"}
<1>1. Len(b) \in Nat
  BY AtIs
<1>2. At(b, e + 1) \in {"+", "-"} => e + 1 \in 1 .. Len(b)
  <2>1. e + 1 \in Int /\ "end" \notin {"+", "-"}
    OBVIOUS
  <2>. QED  BY <2>1, Inside
<1>. QED  BY <1>1, <1>2 DEF PowStart, SkipSign

\* The digits before the point or exponent end in front of dot, the fraction, if
\* there is one, in front of exp, where the exponent begins, if there is one.
Parts(b, dot, exp) ==
    /\ IntStart(b) < dot /\ dot <= exp /\ exp <= Len(b) + 1
    /\ Run(b, IntStart(b), dot) /\ (At(b, IntStart(b)) = "0" => dot = IntStart(b) + 1)
    /\ dot = exp \/ (At(b, dot) = "." /\ dot + 1 < exp /\ Run(b, dot + 1, exp))
    /\ \/ exp = Len(b) + 1
       \/ /\ At(b, exp) \in {"e", "E"} /\ PowStart(b, exp) <= Len(b)
          /\ Run(b, PowStart(b, exp), Len(b) + 1)

IsNumber(b) == \E dot \in 1 .. (Len(b) + 1), exp \in 1 .. (Len(b) + 1) : Parts(b, dot, exp)

\* One scan with its exits, and the parts.
LEMMA ValidIs ==
    ASSUME NEW b \in Text
    PROVE  ValidNumber(b) <=> IsNumber(b)
<1>. DEFINE n    == Len(b)
            int  == IntStart(b)
            dot  == IF At(b, int) = "0" THEN int + 1 ELSE AfterDigits(b, int)
            frac == AfterDigits(b, dot + 1)
            exp  == IF At(b, dot) = "." THEN frac ELSE dot
            pow  == PowStart(b, exp)
            end  == IF At(b, exp) \in {"e", "E"} THEN AfterDigits(b, pow) ELSE exp
<1>1. ValidNumber(b) <=>
        /\ IsDigit(At(b, int))
        /\ At(b, dot) = "." => IsDigit(At(b, dot + 1))
        /\ At(b, exp) \in {"e", "E"} => IsDigit(At(b, pow))
        /\ end = n + 1
  BY DEF ValidNumber, IntStart, PowStart
<1>2. n \in Nat /\ int \in {1, 2} /\ int <= n + 1
  BY AtIs, StartIs
<1>. HIDE DEF n, int
<1>3. \A i \in Int : At(b, i) # "end" => i \in 1 .. n
  BY Inside DEF n
<1>4. \A i \in Int : IsDigit(At(b, i)) => i \in 1 .. n
  BY <1>3, DigitIsNo
<1>5. \A i \in 1 .. (n + 1) : /\ AfterDigits(b, i) \in i .. (n + 1)
                              /\ ~IsDigit(At(b, AfterDigits(b, i))) /\ Run(b, i, AfterDigits(b, i))
  BY AfterIs DEF n
<1>6. \A i \in 1 .. (n + 1) : \A j \in i .. (n + 1) : Run(b, i, j) /\ ~IsDigit(At(b, j)) => AfterDigits(b, i) = j
  BY AfterAt DEF n
<1>7. \A e \in 1 .. n : PowStart(b, e) \in 1 .. (n + 1)
  <2>1. ASSUME NEW e \in 1 .. n PROVE PowStart(b, e) \in 1 .. (n + 1)
    <3>1. PowStart(b, e) \in {e + 1, e + 2} /\ PowStart(b, e) <= n + 1
      BY PowIs DEF n
    <3>. QED  BY <1>2, <3>1
  <2>. QED  BY <2>1
<1>8. ASSUME ValidNumber(b) PROVE IsNumber(b)
  <2>1. int \in 1 .. n
    BY <1>1, <1>2, <1>4, <1>8
  <2>2. dot \in (int + 1) .. (n + 1) /\ Run(b, int, dot) /\ (At(b, int) = "0" => dot = int + 1)
    <3>1. CASE At(b, int) = "0"
      <4>1. dot = int + 1
        BY <3>1
      <4>2. Run(b, int, int + 1)
        BY <1>1, <1>2, <1>8 DEF Run
      <4>. QED  BY <1>2, <2>1, <4>1, <4>2
    <3>2. CASE At(b, int) # "0"
      <4>1. dot = AfterDigits(b, int)
        BY <3>2
      <4>. HIDE DEF dot
      <4>2. dot \in int .. (n + 1) /\ ~IsDigit(At(b, dot)) /\ Run(b, int, dot)
        BY <1>2, <1>5, <2>1, <4>1
      <4>3. dot # int
        BY <1>1, <1>8, <4>2 DEF dot
      <4>. QED  BY <1>2, <3>2, <4>2, <4>3
    <3>. QED  BY <3>1, <3>2
  <2>3. At(b, dot) = "." => IsDigit(At(b, dot + 1))
    BY <1>1, <1>8
  <2>4. At(b, exp) \in {"e", "E"} => IsDigit(At(b, pow))
    BY <1>1, <1>8
  <2>5. end = n + 1
    BY <1>1, <1>8
  <2>. HIDE DEF dot
  <2>6. /\ exp \in dot .. (n + 1)
        /\ dot = exp \/ (At(b, dot) = "." /\ dot + 1 < exp /\ Run(b, dot + 1, exp))
    <3>1. CASE At(b, dot) = "."
      <4>1. exp = frac /\ frac = AfterDigits(b, dot + 1) /\ dot + 1 \in 1 .. n
        BY <1>4, <2>2, <2>3, <3>1
      <4>. HIDE DEF frac
      <4>2. dot + 1 \in 1 .. (n + 1)
        BY <1>2, <4>1
      <4>3. frac \in (dot + 1) .. (n + 1) /\ ~IsDigit(At(b, frac)) /\ Run(b, dot + 1, frac)
        BY <1>5, <4>1, <4>2
      <4>4. frac # dot + 1
        BY <2>3, <3>1, <4>3
      <4>. QED  BY <2>2, <3>1, <4>1, <4>3, <4>4
    <3>2. CASE At(b, dot) # "."
      BY <2>2, <3>2
    <3>. QED  BY <3>1, <3>2
  <2>. HIDE DEF exp
  <2>7. \/ exp = n + 1
        \/ /\ At(b, exp) \in {"e", "E"} /\ pow <= n /\ Run(b, pow, n + 1)
    <3>1. CASE At(b, exp) \in {"e", "E"}
      <4>1. exp \in 1 .. n
        <5>1. exp \in Int /\ At(b, exp) # "end"
          BY <2>2, <2>6, <3>1
        <5>. QED  BY <1>3, <5>1
      <4>2. pow \in 1 .. (n + 1) /\ end = AfterDigits(b, pow)
        BY <1>7, <3>1, <4>1
      <4>3. pow \in 1 .. n
        BY <1>4, <2>4, <3>1, <4>2
      <4>4. Run(b, pow, AfterDigits(b, pow))
        BY <1>5, <4>2
      <4>5. Run(b, pow, n + 1)
        BY <2>5, <4>2, <4>4
      <4>. QED  BY <3>1, <4>3, <4>5
    <3>2. CASE At(b, exp) \notin {"e", "E"}
      BY <2>5, <3>2
    <3>. QED  BY <3>1, <3>2
  <2>8. dot \in 1 .. (n + 1) /\ exp \in 1 .. (n + 1) /\ int < dot /\ dot <= exp /\ exp <= n + 1
    BY <1>2, <2>2, <2>6
  <2>9. Parts(b, dot, exp)
    BY <2>2, <2>6, <2>7, <2>8 DEF Parts, int, n
  <2>. QED  BY <2>8, <2>9 DEF IsNumber, n
<1>9. ASSUME NEW d \in 1 .. (n + 1), NEW e \in 1 .. (n + 1), Parts(b, d, e) PROVE ValidNumber(b)
  <2>1. /\ int < d /\ d <= e /\ e <= n + 1
        /\ Run(b, int, d) /\ (At(b, int) = "0" => d = int + 1)
        /\ d = e \/ (At(b, d) = "." /\ d + 1 < e /\ Run(b, d + 1, e))
        /\ e = n + 1 \/ (At(b, e) \in {"e", "E"} /\ PowStart(b, e) <= n /\ Run(b, PowStart(b, e), n + 1))
    BY <1>9 DEF Parts, int, n
  <2>2. At(b, n + 1) = "end"
    BY <1>2, AtIs DEF n
  <2>3. e = n + 1 => At(b, e) = "end"
    BY <2>2
  <2>4. At(b, e) \in {"end", "e", "E"}
    BY <2>1, <2>3
  <2>5. ~IsDigit(At(b, e)) /\ ~IsDigit(At(b, n + 1))
    BY <2>2, <2>4, DigitIsNo
  <2>6. IsDigit(At(b, int))
    BY <1>2, <2>1 DEF Run
  <2>7. ~IsDigit(At(b, d))
    BY <2>1, <2>5, DigitIsNo
  <2>8. dot = d
    <3>1. CASE At(b, int) = "0"
      BY <2>1, <3>1
    <3>2. CASE At(b, int) # "0"
      <4>1. int \in 1 .. (n + 1) /\ d \in int .. (n + 1)
        BY <1>2, <2>1
      <4>2. AfterDigits(b, int) = d
        BY <1>6, <2>1, <2>7, <4>1
      <4>. QED  BY <3>2, <4>2
    <3>. QED  BY <3>1, <3>2
  <2>. HIDE DEF dot
  <2>9. exp = e /\ (At(b, dot) = "." => IsDigit(At(b, dot + 1)))
    <3>1. CASE d = e
      BY <2>4, <2>8, <3>1
    <3>2. CASE d # e
      <4>1. d + 1 \in 1 .. (n + 1) /\ e \in (d + 1) .. (n + 1) /\ Run(b, d + 1, e) /\ d + 1 \in (d + 1) .. (e - 1)
        BY <1>2, <2>1, <3>2
      <4>2. AfterDigits(b, d + 1) = e
        BY <1>6, <2>5, <4>1
      <4>3. IsDigit(At(b, d + 1))
        BY <4>1 DEF Run
      <4>. QED  BY <2>1, <2>8, <3>2, <4>2, <4>3
    <3>. QED  BY <3>1, <3>2
  <2>. HIDE DEF exp
  <2>10. end = n + 1 /\ (At(b, exp) \in {"e", "E"} => IsDigit(At(b, pow)))
    <3>1. CASE At(b, e) \in {"e", "E"}
      <4>1. e # n + 1
        BY <2>3, <3>1
      <4>2. e \in 1 .. n /\ PowStart(b, e) <= n /\ Run(b, PowStart(b, e), n + 1)
        BY <1>2, <2>1, <4>1
      <4>3. pow = PowStart(b, e) /\ pow \in 1 .. (n + 1)
        BY <1>7, <2>9, <4>2
      <4>. HIDE DEF pow
      <4>4. n + 1 \in pow .. (n + 1) /\ pow \in pow .. ((n + 1) - 1)
        BY <1>2, <4>2, <4>3
      <4>5. AfterDigits(b, pow) = n + 1
        BY <1>6, <2>5, <4>2, <4>3, <4>4
      <4>6. IsDigit(At(b, pow))
        BY <4>2, <4>3, <4>4 DEF Run
      <4>. QED  BY <2>9, <3>1, <4>5, <4>6
    <3>2. CASE At(b, e) \notin {"e", "E"}
      BY <2>1, <2>9, <3>2
    <3>. QED  BY <3>1, <3>2
  <2>. QED  BY <1>1, <2>6, <2>9, <2>10
<1>. QED  BY <1>8, <1>9 DEF IsNumber, n

LEMMA SubIs ==
    ASSUME NEW b \in Text, NEW i \in 1 .. (Len(b) + 1), NEW j \in (i - 1) .. Len(b)
    PROVE  /\ SubSeq(b, i, j) \in Text /\ Len(SubSeq(b, i, j)) = (j - i) + 1
           /\ \A k \in 1 .. ((j - i) + 1) : SubSeq(b, i, j)[k] = b[(i + k) - 1]
BY DEF Text

LEMMA SubOfSub ==
    ASSUME NEW b \in Text, NEW i \in 1 .. (Len(b) + 1), NEW j \in i .. Len(b), NEW k \in 1 .. 3,
           k <= (j - i) + 2
    PROVE  SubSeq(SubSeq(b, i, j), k, Len(SubSeq(b, i, j))) = SubSeq(b, (i + k) - 1, j)
<1>. DEFINE s == SubSeq(b, i, j)
            l == (j - i) + 1
<1>1. s \in Text /\ Len(s) = l /\ \A m \in 1 .. l : s[m] = b[(i + m) - 1]
  BY SubIs
<1>2. l \in Nat /\ k \in 1 .. (l + 1) /\ Len(b) \in Nat /\ (i + k) - 1 \in 1 .. (Len(b) + 1)
  BY AtIs
<1>3. l \in (k - 1) .. l /\ j \in (((i + k) - 1) - 1) .. Len(b)
  BY <1>2
<1>. DEFINE u == SubSeq(s, k, l)
            v == SubSeq(b, (i + k) - 1, j)
<1>. HIDE DEF s
<1>4. u \in Text /\ Len(u) = (l - k) + 1 /\ \A m \in 1 .. ((l - k) + 1) : u[m] = s[(k + m) - 1]
  <2>1. k \in 1 .. (Len(s) + 1) /\ l \in (k - 1) .. Len(s)
    BY <1>1, <1>2, <1>3
  <2>. HIDE DEF l
  <2>. QED  BY <1>1, <2>1, SubIs
<1>5. /\ v \in Text /\ Len(v) = (j - ((i + k) - 1)) + 1
      /\ \A m \in 1 .. ((j - ((i + k) - 1)) + 1) : v[m] = b[(((i + k) - 1) + m) - 1]
  BY <1>2, <1>3, SubIs
<1>6. (j - ((i + k) - 1)) + 1 = (l - k) + 1 /\ (l - k) + 1 \in Nat
  BY <1>2
<1>. HIDE DEF u, v
<1>7. ASSUME NEW m \in 1 .. ((l - k) + 1) PROVE u[m] = v[m]
  <2>1. (k + m) - 1 \in 1 .. l /\ (i + ((k + m) - 1)) - 1 = (((i + k) - 1) + m) - 1
    BY <1>2
  <2>2. u[m] = s[(k + m) - 1] /\ v[m] = b[(((i + k) - 1) + m) - 1]
    BY <1>4, <1>5, <1>6
  <2>3. s[(k + m) - 1] = b[(i + ((k + m) - 1)) - 1]
    BY <1>1, <2>1
  <2>. QED  BY <2>1, <2>2, <2>3
<1>8. u = v
  BY <1>4, <1>5, <1>6, <1>7 DEF Text
<1>. QED  BY <1>1, <1>8 DEF u, v, s

\* The grammar asks for runs of digits.
LEMMA DigitsAre ==
    ASSUME NEW b \in Text, NEW i \in 1 .. (Len(b) + 1), NEW j \in (i - 1) .. Len(b)
    PROVE  /\ AllDigits(SubSeq(b, i, j)) <=> i <= j /\ Run(b, i, j + 1)
           /\ Unsigned(SubSeq(b, i, j)) <=> i <= j /\ Run(b, i, j + 1) /\ (At(b, i) = "0" => i = j)
<1>. DEFINE s == SubSeq(b, i, j)
            l == (j - i) + 1
<1>1. s \in Text /\ Len(s) = l /\ \A m \in 1 .. l : s[m] = b[(i + m) - 1]
  BY SubIs
<1>2. l \in Nat /\ Len(b) \in Nat
  BY AtIs
<1>3. \A k \in i .. j : At(b, k) = b[k]
  BY <1>2, AtIs
<1>. HIDE DEF s
<1>4. s # <<>> <=> i <= j
  BY <1>1, <1>2 DEF Text
<1>5. DOMAIN s = 1 .. l
  BY <1>1 DEF Text
<1>6. (\A m \in DOMAIN s : IsDigit(s[m])) <=> Run(b, i, j + 1)
  <2>1. ASSUME \A m \in DOMAIN s : IsDigit(s[m]), NEW k \in i .. j PROVE IsDigit(At(b, k))
    <3>1. (k - i) + 1 \in 1 .. l /\ (i + ((k - i) + 1)) - 1 = k
      BY <1>2
    <3>2. s[(k - i) + 1] = At(b, k)
      BY <1>1, <1>3, <3>1
    <3>. QED  BY <1>5, <2>1, <3>1, <3>2
  <2>2. ASSUME Run(b, i, j + 1), NEW m \in 1 .. l PROVE IsDigit(s[m])
    <3>1. (i + m) - 1 \in i .. j /\ (j + 1) - 1 = j
      BY <1>2
    <3>2. s[m] = At(b, (i + m) - 1)
      BY <1>1, <1>3, <3>1
    <3>. QED  BY <2>2, <3>1, <3>2 DEF Run
  <2>3. (j + 1) - 1 = j
    OBVIOUS
  <2>. QED  BY <1>5, <2>1, <2>2, <2>3 DEF Run
<1>7. AllDigits(s) <=> i <= j /\ Run(b, i, j + 1)
  BY <1>4, <1>6 DEF AllDigits
<1>8. i <= j => s[1] = At(b, i) /\ (Len(s) = 1 <=> i = j)
  <2>. SUFFICES ASSUME i <= j PROVE s[1] = At(b, i) /\ (Len(s) = 1 <=> i = j)
    OBVIOUS
  <2>1. 1 \in 1 .. l /\ (i + 1) - 1 = i /\ i \in i .. j
    BY <1>2
  <2>2. s[1] = At(b, i)
    BY <1>1, <1>3, <2>1
  <2>. QED  BY <1>1, <2>2
<1>. QED  BY <1>7, <1>8 DEF Unsigned, s

LEMMA IntegerIs ==
    ASSUME NEW b \in Text, NEW i \in 1 .. Len(b)
    PROVE  Integer(SubSeq(b, 1, i)) <=>
             IntStart(b) <= i /\ Run(b, IntStart(b), i + 1) /\ (At(b, IntStart(b)) = "0" => i = IntStart(b))
<1>. DEFINE s == SubSeq(b, 1, i)
<1>1. Len(b) \in Nat /\ At(b, 1) = b[1]
  <2>1. Len(b) \in Nat
    BY AtIs
  <2>2. 1 \in 1 .. Len(b)
    BY <2>1
  <2>. QED  BY <2>1, <2>2, AtIs
<1>2. 1 \in 1 .. (Len(b) + 1) /\ 2 \in 1 .. (Len(b) + 1) /\ i \in (1 - 1) .. Len(b) /\ i \in (2 - 1) .. Len(b)
  BY <1>1
<1>3. s \in Text /\ Len(s) = i /\ s[1] = b[1]
  <2>1. /\ s \in Text /\ Len(s) = (i - 1) + 1
        /\ \A k \in 1 .. ((i - 1) + 1) : s[k] = b[(1 + k) - 1]
    BY <1>2, SubIs
  <2>. HIDE DEF s
  <2>2. 1 \in 1 .. ((i - 1) + 1) /\ (1 + 1) - 1 = 1 /\ (i - 1) + 1 = i
    BY <1>1
  <2>. QED  BY <2>1, <2>2
<1>4. Tail(s) = SubSeq(b, 2, i)
  <2>1. i \in 1 .. Len(b) /\ 2 \in 1 .. 3 /\ 2 <= (i - 1) + 2 /\ (1 + 2) - 1 = 2
    BY <1>1
  <2>2. SubSeq(s, 2, Len(s)) = SubSeq(b, 2, i)
    BY <1>2, <2>1, SubOfSub
  <2>. HIDE DEF s
  <2>3. Tail(s) = SubSeq(s, 2, Len(s))
    BY <1>3 DEF Text
  <2>. QED  BY <2>2, <2>3
<1>5. Unsigned(s) <=> 1 <= i /\ Run(b, 1, i + 1) /\ (At(b, 1) = "0" => 1 = i)
  BY <1>2, DigitsAre
<1>6. Unsigned(SubSeq(b, 2, i)) <=> 2 <= i /\ Run(b, 2, i + 1) /\ (At(b, 2) = "0" => 2 = i)
  BY <1>2, DigitsAre
<1>7. s # <<>>
  <2>. HIDE DEF s
  <2>. QED  BY <1>1, <1>3 DEF Text
<1>8. Integer(s) <=> Unsigned(s) \/ (At(b, 1) = "-" /\ Unsigned(SubSeq(b, 2, i)))
  BY <1>1, <1>3, <1>4, <1>7 DEF Integer
<1>. HIDE DEF s
<1>9. CASE At(b, 1) = "-"
  <2>1. IntStart(b) = 2
    BY <1>9, StartIs
  <2>2. ~Run(b, 1, i + 1)
    <3>1. 1 \in 1 .. ((i + 1) - 1)
      BY <1>1
    <3>2. ~IsDigit(At(b, 1))
      BY <1>9, DigitIsNo
    <3>. QED  BY <3>1, <3>2 DEF Run
  <2>. QED  BY <1>5, <1>6, <1>8, <1>9, <2>1, <2>2 DEF s
<1>10. CASE At(b, 1) # "-"
  <2>1. IntStart(b) = 1
    BY <1>10, StartIs
  <2>. QED  BY <1>5, <1>8, <1>10, <2>1 DEF s
<1>. QED  BY <1>9, <1>10

LEMMA TailIs ==
    ASSUME NEW b \in Text, NEW i \in 1 .. (Len(b) + 1), NEW j \in (i - 1) .. Len(b)
    PROVE  /\ SubSeq(b, i, j) = <<>> <=> i > j
           /\ i <= j => /\ SubSeq(b, i, j)[1] = At(b, i) /\ Len(SubSeq(b, i, j)) = (j - i) + 1
                        /\ Tail(SubSeq(b, i, j)) = SubSeq(b, i + 1, j)
<1>. DEFINE s == SubSeq(b, i, j)
<1>1. /\ s \in Text /\ Len(s) = (j - i) + 1
      /\ \A k \in 1 .. ((j - i) + 1) : s[k] = b[(i + k) - 1]
  BY SubIs
<1>2. i <= j => SubSeq(s, 2, Len(s)) = SubSeq(b, i + 1, j)
  <2>. SUFFICES ASSUME i <= j PROVE SubSeq(s, 2, Len(s)) = SubSeq(b, i + 1, j)
    OBVIOUS
  <2>1. j \in i .. Len(b) /\ 2 \in 1 .. 3 /\ 2 <= (j - i) + 2 /\ (i + 2) - 1 = i + 1
    BY AtIs
  <2>. QED  BY <2>1, SubOfSub
<1>. HIDE DEF s
<1>3. Len(b) \in Nat
  BY AtIs
<1>4. s = <<>> <=> i > j
  BY <1>1, <1>3 DEF Text
<1>5. i <= j => s[1] = At(b, i)
  <2>. SUFFICES ASSUME i <= j PROVE s[1] = At(b, i)
    OBVIOUS
  <2>1. 1 \in 1 .. ((j - i) + 1) /\ (i + 1) - 1 = i /\ i \in 1 .. Len(b)
    BY <1>3
  <2>. QED  BY <1>1, <2>1, AtIs
<1>6. i <= j => Tail(s) = SubSeq(s, 2, Len(s))
  <2>. SUFFICES ASSUME i <= j PROVE Tail(s) = SubSeq(s, 2, Len(s))
    OBVIOUS
  <2>1. s \in Text /\ Len(s) \in Nat /\ Len(s) >= 1
    BY <1>1, <1>3
  <2>. QED  BY <2>1 DEF Text
<1>. QED  BY <1>1, <1>2, <1>4, <1>5, <1>6 DEF s

LEMMA ExpIs ==
    ASSUME NEW b \in Text, NEW e \in 1 .. (Len(b) + 1), NEW s, s = SubSeq(b, e, Len(b))
    PROVE  \/ s = <<>>
           \/ /\ s[1] \in {"e", "E"}
              /\ \/ AllDigits(Tail(s))
                 \/ Len(s) > 1 /\ s[2] \in {"+", "-"} /\ AllDigits(SubSeq(s, 3, Len(s)))
           <=> \/ e = Len(b) + 1
               \/ /\ At(b, e) \in {"e", "E"} /\ PowStart(b, e) <= Len(b)
                  /\ Run(b, PowStart(b, e), Len(b) + 1)
<1>. DEFINE n == Len(b)
<1>1. n \in Nat /\ n \in (e - 1) .. Len(b)
  BY AtIs
<1>2. /\ s = <<>> <=> e > n
      /\ e <= n => s[1] = At(b, e) /\ Len(s) = (n - e) + 1 /\ Tail(s) = SubSeq(b, e + 1, n)
  BY <1>1, TailIs
<1>3. e > n <=> e = n + 1
  BY <1>1
<1>. SUFFICES ASSUME e <= n, At(b, e) \in {"e", "E"}
              PROVE  AllDigits(Tail(s)) \/ (Len(s) > 1 /\ s[2] \in {"+", "-"} /\ AllDigits(SubSeq(s, 3, Len(s))))
                     <=> PowStart(b, e) <= n /\ Run(b, PowStart(b, e), n + 1)
  BY <1>1, <1>2, <1>3
<1>4. /\ PowStart(b, e) \in {e + 1, e + 2} /\ PowStart(b, e) <= n + 1
      /\ PowStart(b, e) = e + 2 <=> At(b, e + 1) \in {"+", "-"}
  <2>1. e \in 1 .. Len(b)
    BY <1>1
  <2>. QED  BY <2>1, PowIs
<1>5. AllDigits(Tail(s)) <=> e + 1 <= n /\ Run(b, e + 1, n + 1)
  <2>1. e + 1 \in 1 .. (Len(b) + 1) /\ n \in ((e + 1) - 1) .. Len(b)
    BY <1>1
  <2>2. AllDigits(SubSeq(b, e + 1, n)) <=> e + 1 <= n /\ Run(b, e + 1, n + 1)
    BY <2>1, DigitsAre
  <2>. QED  BY <1>2, <2>2
<1>6. Len(s) > 1 <=> e + 1 <= n
  BY <1>1, <1>2
<1>7. e + 1 <= n => s[2] = At(b, e + 1)
  <2>. SUFFICES ASSUME e + 1 <= n PROVE s[2] = At(b, e + 1)
    OBVIOUS
  <2>1. \A k \in 1 .. ((n - e) + 1) : s[k] = b[(e + k) - 1]
    BY <1>1, SubIs
  <2>2. 2 \in 1 .. ((n - e) + 1) /\ (e + 2) - 1 = e + 1 /\ e + 1 \in 1 .. Len(b)
    BY <1>1
  <2>. QED  BY <2>1, <2>2, AtIs
<1>8. e + 1 <= n => (AllDigits(SubSeq(s, 3, Len(s))) <=> e + 2 <= n /\ Run(b, e + 2, n + 1))
  <2>. SUFFICES ASSUME e + 1 <= n
                PROVE  AllDigits(SubSeq(s, 3, Len(s))) <=> e + 2 <= n /\ Run(b, e + 2, n + 1)
    OBVIOUS
  <2>1. n \in e .. Len(b) /\ 3 \in 1 .. 3 /\ 3 <= (n - e) + 2 /\ (e + 3) - 1 = e + 2
    BY <1>1
  <2>2. SubSeq(s, 3, Len(s)) = SubSeq(b, e + 2, n)
    BY <2>1, SubOfSub
  <2>3. e + 2 \in 1 .. (Len(b) + 1) /\ n \in ((e + 2) - 1) .. Len(b)
    BY <1>1
  <2>4. AllDigits(SubSeq(b, e + 2, n)) <=> e + 2 <= n /\ Run(b, e + 2, n + 1)
    BY <2>3, DigitsAre
  <2>. QED  BY <2>2, <2>4
<1>9. e + 1 <= n /\ At(b, e + 1) \in {"+", "-"} => ~Run(b, e + 1, n + 1)
  <2>1. e + 1 <= n => e + 1 \in (e + 1) .. ((n + 1) - 1)
    BY <1>1
  <2>2. At(b, e + 1) \in {"+", "-"} => ~IsDigit(At(b, e + 1))
    BY DigitIsNo
  <2>. QED  BY <2>1, <2>2 DEF Run
<1>. HIDE DEF n
<1>10. CASE At(b, e + 1) \in {"+", "-"}
  <2>1. PowStart(b, e) = e + 2 /\ e + 1 <= n
    <3>1. PowStart(b, e) = e + 2
      BY <1>4, <1>10
    <3>. QED  BY <1>1, <1>4, <3>1
  <2>. QED  BY <1>5, <1>6, <1>7, <1>8, <1>9, <1>10, <2>1
<1>11. CASE At(b, e + 1) \notin {"+", "-"}
  <2>1. PowStart(b, e) = e + 1
    BY <1>4, <1>11
  <2>. QED  BY <1>5, <1>6, <1>7, <1>11, <2>1
<1>. QED  BY <1>10, <1>11

\* The grammar, and the parts.
LEMMA NumberIs ==
    ASSUME NEW b \in Text
    PROVE  Number(b) <=> IsNumber(b)
<1>. DEFINE n == Len(b)
            frac(i, j) == SubSeq(b, i + 1, j)
            exp(j) == SubSeq(b, j + 1, n)
            fracOk(i, j) == frac(i, j) = <<>> \/ (frac(i, j)[1] = "." /\ AllDigits(Tail(frac(i, j))))
            expOk(j) == \/ exp(j) = <<>>
                        \/ /\ exp(j)[1] \in {"e", "E"}
                           /\ \/ AllDigits(Tail(exp(j)))
                              \/ Len(exp(j)) > 1 /\ exp(j)[2] \in {"+", "-"} /\ AllDigits(SubSeq(exp(j), 3, Len(exp(j))))
<1>1. Number(b) <=> \E i \in 1 .. n : \E j \in i .. n : Integer(SubSeq(b, 1, i)) /\ fracOk(i, j) /\ expOk(j)
  <2>1. DOMAIN b = 1 .. n
    BY DEF Text
  <2>. QED  BY <2>1, Zenon DEF Number
<1>2. n \in Nat
  BY AtIs
<1>3. ASSUME NEW i \in 1 .. n, NEW j \in i .. n
      PROVE  Integer(SubSeq(b, 1, i)) /\ fracOk(i, j) /\ expOk(j) <=> Parts(b, i + 1, j + 1)
  <2>1. Integer(SubSeq(b, 1, i)) <=>
          IntStart(b) <= i /\ Run(b, IntStart(b), i + 1) /\ (At(b, IntStart(b)) = "0" => i = IntStart(b))
    BY IntegerIs
  <2>2. fracOk(i, j) <=> i = j \/ (At(b, i + 1) = "." /\ i + 2 <= j /\ Run(b, i + 2, j + 1))
    <3>1. i + 1 \in 1 .. (Len(b) + 1) /\ j \in ((i + 1) - 1) .. Len(b)
      BY <1>2
    <3>2. /\ frac(i, j) = <<>> <=> i + 1 > j
          /\ i + 1 <= j => frac(i, j)[1] = At(b, i + 1) /\ Tail(frac(i, j)) = SubSeq(b, (i + 1) + 1, j)
      BY <3>1, TailIs
    <3>3. i + 1 <= j => (AllDigits(SubSeq(b, i + 2, j)) <=> i + 2 <= j /\ Run(b, i + 2, j + 1))
      <4>. SUFFICES ASSUME i + 1 <= j PROVE AllDigits(SubSeq(b, i + 2, j)) <=> i + 2 <= j /\ Run(b, i + 2, j + 1)
        OBVIOUS
      <4>1. i + 2 \in 1 .. (Len(b) + 1) /\ j \in ((i + 2) - 1) .. Len(b)
        BY <1>2
      <4>. QED  BY <4>1, DigitsAre
    <3>4. (i + 1) + 1 = i + 2 /\ (i + 1 > j <=> i = j) /\ (i + 1 <= j <=> i # j)
      BY <1>2
    <3>. HIDE DEF frac
    <3>. QED  BY <3>2, <3>3, <3>4
  <2>3. expOk(j) <=> \/ j + 1 = n + 1
                     \/ /\ At(b, j + 1) \in {"e", "E"} /\ PowStart(b, j + 1) <= n
                        /\ Run(b, PowStart(b, j + 1), n + 1)
    <3>1. j + 1 \in 1 .. (Len(b) + 1) /\ exp(j) = SubSeq(b, j + 1, Len(b))
      BY <1>2
    <3>. HIDE DEF exp
    <3>. QED  BY <3>1, ExpIs
  <2>. HIDE DEF fracOk, expOk
  <2>4. IntStart(b) \in Int
    BY StartIs
  <2>5. /\ i + 1 <= j + 1 /\ j + 1 <= n + 1
        /\ IntStart(b) < i + 1 <=> IntStart(b) <= i
        /\ i + 1 = IntStart(b) + 1 <=> i = IntStart(b)
        /\ i + 1 = j + 1 <=> i = j
        /\ (i + 1) + 1 < j + 1 <=> i + 2 <= j
        /\ (i + 1) + 1 = i + 2
    BY <1>2, <2>4
  <2>. QED  BY <2>1, <2>2, <2>3, <2>5 DEF Parts
<1>. HIDE DEF n, fracOk, expOk
<1>4. ASSUME NEW d \in 1 .. (n + 1), NEW e \in 1 .. (n + 1), Parts(b, d, e)
      PROVE  d - 1 \in 1 .. n /\ e - 1 \in (d - 1) .. n /\ Parts(b, (d - 1) + 1, (e - 1) + 1)
  <2>1. IntStart(b) \in {1, 2} /\ IntStart(b) < d /\ d <= e
    BY <1>4, StartIs DEF Parts
  <2>2. (d - 1) + 1 = d /\ (e - 1) + 1 = e
    OBVIOUS
  <2>. QED  BY <1>2, <1>4, <2>1, <2>2
<1>5. ASSUME NEW i \in 1 .. n, NEW j \in i .. n
      PROVE  i + 1 \in 1 .. (n + 1) /\ j + 1 \in 1 .. (n + 1)
  BY <1>2
<1>6. ASSUME Number(b) PROVE IsNumber(b)
  <2>1. PICK i \in 1 .. n : \E j \in i .. n : Integer(SubSeq(b, 1, i)) /\ fracOk(i, j) /\ expOk(j)
    BY <1>1, <1>6
  <2>2. PICK j \in i .. n : Integer(SubSeq(b, 1, i)) /\ fracOk(i, j) /\ expOk(j)
    BY <2>1
  <2>3. Parts(b, i + 1, j + 1)
    BY <1>3, <2>2
  <2>. QED  BY <1>5, <2>3 DEF IsNumber, n
<1>7. ASSUME IsNumber(b) PROVE Number(b)
  <2>1. PICK d \in 1 .. (n + 1), e \in 1 .. (n + 1) : Parts(b, d, e)
    BY <1>7 DEF IsNumber, n
  <2>2. d - 1 \in 1 .. n /\ e - 1 \in (d - 1) .. n /\ Parts(b, (d - 1) + 1, (e - 1) + 1)
    BY <1>4, <2>1
  <2>3. Integer(SubSeq(b, 1, d - 1)) /\ fracOk(d - 1, e - 1) /\ expOk(e - 1)
    BY <1>3, <2>2
  <2>. QED  BY <1>1, <2>2, <2>3
<1>. QED  BY <1>6, <1>7

-----------------------------------------------------------------------------
(* A number cut short.                                                     *)

\* The digits in front of d are those of an integer.
Lead(b, d) ==
    /\ IntStart(b) < d
    /\ Run(b, IntStart(b), d) /\ (At(b, IntStart(b)) = "0" => d = IntStart(b) + 1)

\* What there is ends at the point d, or in an exponent at e that has no digit.
CutParts(b, d, e) ==
    /\ Lead(b, d) /\ d <= e
    /\ \/ At(b, d) = "." /\ d = Len(b)
       \/ /\ d = e \/ (At(b, d) = "." /\ d + 1 < e /\ Run(b, d + 1, e))
          /\ At(b, e) \in {"e", "E"} /\ PowStart(b, e) = Len(b) + 1

IsCut(b) ==
    \/ IntStart(b) = Len(b) + 1 /\ IntStart(b) = 2
    \/ IntStart(b) <= Len(b) /\ \E d \in 1 .. Len(b), e \in 1 .. Len(b) : CutParts(b, d, e)

\* The first character that is no digit is where the digits end, in both scans.
LEMMA DotIs ==
    ASSUME NEW b \in Text, NEW d \in 1 .. (Len(b) + 1), Lead(b, d), ~IsDigit(At(b, d))
    PROVE  /\ AfterDigits(b, IntStart(b)) = d
           /\ (IF At(b, IntStart(b)) = "0" THEN IntStart(b) + 1 ELSE AfterDigits(b, IntStart(b))) = d
           /\ IsDigit(At(b, IntStart(b)))
<1>. DEFINE int == IntStart(b)
<1>1. int \in 1 .. (Len(b) + 1) /\ Len(b) \in Nat
  BY AtIs, StartIs
<1>. HIDE DEF int
<1>2. int < d /\ Run(b, int, d) /\ (At(b, int) = "0" => d = int + 1)
  BY DEF Lead, int
<1>3. d \in int .. (Len(b) + 1) /\ int \in int .. (d - 1)
  BY <1>1, <1>2
<1>4. AfterDigits(b, int) = d
  BY <1>1, <1>2, <1>3, AfterAt
<1>5. IsDigit(At(b, int))
  BY <1>2, <1>3 DEF Run
<1>. QED  BY <1>2, <1>4, <1>5 DEF int

\* Behind a point, the fraction ends where its digits do.
LEMMA FracIs ==
    ASSUME NEW b \in Text, NEW d \in 1 .. Len(b), NEW e \in 1 .. Len(b),
           d + 1 < e, Run(b, d + 1, e), ~IsDigit(At(b, e))
    PROVE  AfterDigits(b, d + 1) = e
<1>1. Len(b) \in Nat
  BY AtIs
<1>2. d + 1 \in 1 .. (Len(b) + 1) /\ e \in (d + 1) .. (Len(b) + 1)
  BY <1>1
<1>. QED  BY <1>2, AfterAt

\* The scan of a number cut short, and its parts.
LEMMA IncompleteIs ==
    ASSUME NEW b \in Text
    PROVE  Incomplete(b) <=> IsCut(b)
<1>. DEFINE n    == Len(b)
            int  == IntStart(b)
            dot  == AfterDigits(b, int)
            frac == AfterDigits(b, dot + 1)
            exp  == IF At(b, dot) = "." THEN frac ELSE dot
            ends == \/ At(b, dot) = "." /\ dot = n
                    \/ /\ At(b, dot) = "." => frac > dot + 1
                       /\ At(b, exp) \in {"e", "E"} /\ PowStart(b, exp) = n + 1
<1>1. Incomplete(b) <=>
        IF int = n + 1 THEN int = 2
        ELSE dot > int /\ ~(dot - int > 1 /\ b[int] = "0") /\ ends
  BY DEF Incomplete, Dangling, IntStart, PowStart
<1>2. n \in Nat /\ int \in {1, 2} /\ int <= n + 1
  BY AtIs, StartIs
<1>3. CASE int = n + 1
  BY <1>1, <1>2, <1>3 DEF IsCut
<1>4. CASE int # n + 1
  <2>1. int \in 1 .. n /\ b[int] = At(b, int)
    <3>1. int \in 1 .. n
      BY <1>2, <1>4
    <3>. QED  BY <3>1, AtIs
  <2>2. dot \in int .. (n + 1) /\ ~IsDigit(At(b, dot)) /\ Run(b, int, dot)
    <3>1. int \in 1 .. (Len(b) + 1)
      BY <1>2
    <3>. QED  BY <3>1, AfterIs
  <2>3. Incomplete(b) <=> dot > int /\ ~(dot - int > 1 /\ At(b, int) = "0") /\ ends
    BY <1>1, <1>4, <2>1
  <2>4. IsCut(b) <=> \E d \in 1 .. n, e \in 1 .. n : CutParts(b, d, e)
    BY <1>2, <2>1 DEF IsCut
  <2>. HIDE DEF n, int
  <2>5. ASSUME Incomplete(b) PROVE \E d \in 1 .. n, e \in 1 .. n : CutParts(b, d, e)
    <3>1. dot > int /\ ~(dot - int > 1 /\ At(b, int) = "0") /\ ends
      BY <2>3, <2>5
    <3>. HIDE DEF dot
    <3>2. Lead(b, dot)
      <4>1. int < dot /\ (At(b, int) = "0" => dot = int + 1)
        BY <1>2, <2>1, <2>2, <3>1
      <4>. QED  BY <2>2, <4>1 DEF Lead, int
    <3>3. CASE At(b, dot) = "." /\ dot = n
      <4>1. dot \in 1 .. n /\ dot <= dot
        BY <1>2, <2>1, <3>3
      <4>2. CutParts(b, dot, dot)
        BY <3>2, <3>3, <4>1 DEF CutParts, n
      <4>. QED  BY <4>1, <4>2
    <3>4. CASE /\ At(b, dot) = "." => frac > dot + 1
               /\ At(b, exp) \in {"e", "E"} /\ PowStart(b, exp) = n + 1
      <4>1. CASE At(b, dot) = "."
        <5>1. dot \in 1 .. n
          <6>1. dot \in Int /\ "." # "end"
            BY <1>2, <2>2
          <6>. QED  BY <4>1, <6>1, Inside DEF n
        <5>2. dot + 1 \in 1 .. (Len(b) + 1)
          BY <1>2, <5>1 DEF n
        <5>3. frac \in (dot + 1) .. (Len(b) + 1) /\ Run(b, dot + 1, frac)
          BY <5>2, AfterIs
        <5>4. exp = frac /\ frac > dot + 1
          BY <3>4, <4>1
        <5>. HIDE DEF frac, exp
        <5>5. exp \in 1 .. n
          <6>1. exp \in Int /\ At(b, exp) # "end"
            BY <1>2, <3>4, <5>1, <5>3, <5>4 DEF n
          <6>. QED  BY <6>1, Inside DEF n
        <5>6. dot <= exp /\ dot + 1 < exp
          BY <1>2, <5>1, <5>4, <5>5
        <5>7. CutParts(b, dot, exp)
          BY <3>2, <3>4, <4>1, <5>3, <5>4, <5>6 DEF CutParts, n
        <5>. QED  BY <5>1, <5>5, <5>7
      <4>2. CASE At(b, dot) # "."
        <5>1. exp = dot
          BY <4>2
        <5>2. dot \in 1 .. n
          <6>1. dot \in Int /\ At(b, dot) # "end"
            BY <1>2, <2>2, <3>4, <5>1
          <6>. QED  BY <6>1, Inside DEF n
        <5>3. dot <= dot
          BY <5>2
        <5>. HIDE DEF exp
        <5>4. CutParts(b, dot, dot)
          BY <3>2, <3>4, <5>1, <5>3 DEF CutParts, n
        <5>. QED  BY <5>2, <5>4
      <4>. QED  BY <4>1, <4>2
    <3>. QED  BY <3>1, <3>3, <3>4
  <2>6. ASSUME NEW d \in 1 .. n, NEW e \in 1 .. n, CutParts(b, d, e) PROVE Incomplete(b)
    <3>1. /\ Lead(b, d) /\ d <= e
          /\ \/ At(b, d) = "." /\ d = n
             \/ /\ d = e \/ (At(b, d) = "." /\ d + 1 < e /\ Run(b, d + 1, e))
                /\ At(b, e) \in {"e", "E"} /\ PowStart(b, e) = n + 1
      BY <2>6 DEF CutParts, n
    <3>2. At(b, d) \in {".", "e", "E"} /\ ~IsDigit(At(b, d))
      <4>1. At(b, d) \in {".", "e", "E"}
        BY <3>1
      <4>. QED  BY <4>1, DigitIsNo
    <3>3. dot = d
      <4>1. d \in 1 .. (Len(b) + 1)
        BY <1>2 DEF n
      <4>. QED  BY <3>1, <3>2, <4>1, DotIs DEF int
    <3>. HIDE DEF dot
    <3>4. dot > int /\ ~(dot - int > 1 /\ At(b, int) = "0")
      <4>1. int < d /\ (At(b, int) = "0" => d = int + 1)
        BY <3>1 DEF Lead, int
      <4>. QED  BY <1>2, <2>1, <3>3, <4>1
    <3>5. ends
      <4>1. CASE At(b, d) = "." /\ d = n
        BY <3>3, <4>1
      <4>2. CASE d = e /\ At(b, e) \in {"e", "E"} /\ PowStart(b, e) = n + 1
        <5>1. At(b, dot) # "."
          BY <3>3, <4>2
        <5>2. exp = e
          BY <3>3, <4>2, <5>1
        <5>. HIDE DEF exp, frac
        <5>. QED  BY <4>2, <5>1, <5>2
      <4>3. CASE /\ At(b, d) = "." /\ d + 1 < e /\ Run(b, d + 1, e)
                 /\ At(b, e) \in {"e", "E"} /\ PowStart(b, e) = n + 1
        <5>1. AfterDigits(b, d + 1) = e
          <6>1. ~IsDigit(At(b, e))
            BY <4>3, DigitIsNo
          <6>. QED  BY <4>3, <6>1, FracIs DEF n
        <5>2. frac = e /\ exp = e
          BY <3>3, <4>3, <5>1
        <5>3. frac > dot + 1
          BY <3>3, <4>3, <5>2
        <5>. HIDE DEF exp, frac
        <5>. QED  BY <4>3, <5>2, <5>3
      <4>. QED  BY <3>1, <4>1, <4>2, <4>3
    <3>. QED  BY <2>3, <3>4, <3>5
  <2>. QED  BY <2>4, <2>5, <2>6
<1>. QED  BY <1>3, <1>4

\* The text with one digit more.
LEMMA AppendedIs ==
    ASSUME NEW b \in Text, b # <<>>, NEW c, c = Append(b, "0")
    PROVE  /\ c \in Text /\ Len(c) = Len(b) + 1 /\ Len(b) \in Nat /\ Len(b) >= 1
           /\ \A i \in 1 .. Len(b) : At(c, i) = At(b, i)
           /\ At(c, Len(b) + 1) = "0" /\ At(b, Len(b) + 1) = "end" /\ IntStart(c) = IntStart(b)
<1>. DEFINE n == Len(b)
<1>1. n \in Nat /\ n >= 1
  BY AtIs, StartIs
<1>2. c \in Text /\ Len(c) = n + 1 /\ c[n + 1] = "0" /\ \A i \in 1 .. n : c[i] = b[i]
  <2>1. "0" \in Character
    BY ZeroIs DEF Character, IsDigit
  <2>. DEFINE z == "0"
  <2>. HIDE DEF z
  <2>2. z \in Character /\ c = Append(b, z)
    BY <2>1 DEF z
  <2>3. c \in Text
    BY <2>2 DEF Text
  <2>4. Len(c) = n + 1
    BY <2>2 DEF Text
  <2>5. c[n + 1] = z
    BY <2>2 DEF Text
  <2>6. \A i \in 1 .. n : c[i] = b[i]
    BY <2>2 DEF Text
  <2>. QED  BY <2>3, <2>4, <2>5, <2>6 DEF z
<1>3. \A i \in 1 .. (n + 1) : At(c, i) = c[i]
  BY <1>2, AtIs
<1>4. \A i \in 1 .. n : At(b, i) = b[i]
  BY AtIs
<1>5. n + 1 \notin 1 .. n
  BY <1>1
<1>6. At(b, n + 1) = "end"
  BY <1>5, AtIs
<1>. HIDE DEF n
<1>7. 1 \in 1 .. n /\ 1 \in 1 .. (n + 1) /\ n + 1 \in 1 .. (n + 1) /\ \A i \in 1 .. n : i \in 1 .. (n + 1)
  BY <1>1
<1>8. At(c, 1) = At(b, 1)
  BY <1>2, <1>3, <1>4, <1>7
<1>9. IntStart(c) = IntStart(b)
  BY <1>8 DEF IntStart, SkipSign
<1>. QED  BY <1>1, <1>2, <1>3, <1>4, <1>6, <1>7, <1>9 DEF n

LEMMA AppendedRun ==
    ASSUME NEW b \in Text, b # <<>>, NEW c, c = Append(b, "0"), NEW i \in 1 .. (Len(b) + 1)
    PROVE  /\ \A j \in 1 .. (Len(b) + 1) : Run(c, i, j) <=> Run(b, i, j)
           /\ Run(c, i, Len(b) + 2) <=> Run(b, i, Len(b) + 1)
<1>. DEFINE n == Len(b)
<1>1. n \in Nat /\ (\A k \in 1 .. n : At(c, k) = At(b, k)) /\ At(c, n + 1) = "0"
  BY AppendedIs
<1>. HIDE DEF n
<1>2. ASSUME NEW j \in 1 .. (n + 1) PROVE Run(c, i, j) <=> Run(b, i, j)
  <2>1. \A k \in i .. (j - 1) : k \in 1 .. n
    BY <1>1 DEF n
  <2>. QED  BY <1>1, <2>1 DEF Run
<1>3. Run(c, i, n + 2) <=> Run(b, i, n + 1)
  <2>1. i \in Nat /\ i <= n + 1 /\ i >= 1
    BY <1>1 DEF n
  <2>2. \A k \in i .. ((n + 1) - 1) : k \in i .. ((n + 2) - 1) /\ k \in 1 .. n
    BY <1>1, <2>1
  <2>3. \A k \in i .. ((n + 2) - 1) : k = n + 1 \/ (k \in i .. ((n + 1) - 1) /\ k \in 1 .. n)
    BY <1>1, <2>1
  <2>4. IsDigit(At(c, n + 1))
    BY <1>1, ZeroIs
  <2>. QED  BY <1>1, <2>2, <2>3, <2>4 DEF Run
<1>. QED  BY <1>2, <1>3 DEF n

LEMMA AppendedPow ==
    ASSUME NEW b \in Text, b # <<>>, NEW c, c = Append(b, "0"), NEW e \in 1 .. Len(b)
    PROVE  PowStart(c, e) = PowStart(b, e) /\ PowStart(b, e) \in 1 .. (Len(b) + 1)
<1>1. /\ Len(b) \in Nat /\ \A i \in 1 .. Len(b) : At(c, i) = At(b, i)
      /\ At(c, Len(b) + 1) = "0" /\ At(b, Len(b) + 1) = "end"
  BY AppendedIs, Zenon
<1>2. At(c, e + 1) = At(b, e + 1) \/ (At(c, e + 1) = "0" /\ At(b, e + 1) = "end")
  <2>1. e + 1 \in 1 .. Len(b) \/ e + 1 = Len(b) + 1
    BY <1>1
  <2>. QED  BY <1>1, <2>1
<1>3. PowStart(c, e) = PowStart(b, e)
  BY <1>2 DEF PowStart, SkipSign
<1>4. PowStart(b, e) \in {e + 1, e + 2} /\ PowStart(b, e) <= Len(b) + 1
  BY PowIs
<1>. QED  BY <1>1, <1>3, <1>4

\* More characters can make it a number, and a digit does.
LEMMA ExtendedIs ==
    ASSUME NEW b \in Text, b # <<>>, ~IsNumber(b)
    PROVE  IsNumber(Append(b, "0")) <=> IsCut(b)
<1>. DEFINE c   == Append(b, "0")
            n   == Len(b)
            int == IntStart(b)
<1>1. /\ c \in Text /\ Len(c) = n + 1 /\ n \in Nat /\ n >= 1
      /\ \A i \in 1 .. n : At(c, i) = At(b, i)
      /\ At(c, n + 1) = "0" /\ At(b, n + 1) = "end" /\ IntStart(c) = int
  BY AppendedIs
<1>2. int \in {1, 2} /\ int <= n + 1
  BY StartIs
<1>3. \A i \in 1 .. (n + 1) : /\ \A j \in 1 .. (n + 1) : Run(c, i, j) <=> Run(b, i, j)
                              /\ Run(c, i, n + 2) <=> Run(b, i, n + 1)
  BY AppendedRun
<1>4. \A e \in 1 .. n : PowStart(c, e) = PowStart(b, e) /\ PowStart(b, e) \in 1 .. (n + 1)
  BY AppendedPow
<1>5. IsNumber(c) <=> \E d \in 1 .. (n + 2), e \in 1 .. (n + 2) : Parts(c, d, e)
  <2>1. Len(c) + 1 = n + 2
    BY <1>1
  <2>. QED  BY <2>1 DEF IsNumber
<1>6. \A d, e : Parts(c, d, e) <=>
        /\ int < d /\ d <= e /\ e <= n + 2
        /\ Run(c, int, d) /\ (At(c, int) = "0" => d = int + 1)
        /\ d = e \/ (At(c, d) = "." /\ d + 1 < e /\ Run(c, d + 1, e))
        /\ e = n + 2 \/ (At(c, e) \in {"e", "E"} /\ PowStart(c, e) <= n + 1 /\ Run(c, PowStart(c, e), n + 2))
  <2>1. Len(c) + 1 = n + 2 /\ Len(c) = n + 1
    BY <1>1
  <2>. HIDE DEF c, n, int
  <2>. QED  BY <1>1, <2>1 DEF Parts
<1>7. \A d, e \in 1 .. (n + 1) : ~(
        /\ int < d /\ d <= e /\ e <= n + 1
        /\ Run(b, int, d) /\ (At(b, int) = "0" => d = int + 1)
        /\ d = e \/ (At(b, d) = "." /\ d + 1 < e /\ Run(b, d + 1, e))
        /\ e = n + 1 \/ (At(b, e) \in {"e", "E"} /\ PowStart(b, e) <= n /\ Run(b, PowStart(b, e), n + 1)))
  <2>1. \A d, e \in 1 .. (n + 1) : ~Parts(b, d, e)
    BY DEF IsNumber
  <2>. QED  BY <2>1 DEF Parts
<1>. HIDE DEF c, n, int
<1>8. CASE int = n + 1
  <2>1. int = 2 /\ n = 1
    BY <1>1, <1>2, <1>8
  <2>2. IsCut(b)
    BY <1>8, <2>1 DEF IsCut, int, n
  <2>3. Run(c, 2, 3)
    <3>1. \A k \in 2 .. (3 - 1) : k = n + 1
      BY <2>1
    <3>. QED  BY <1>1, <3>1, ZeroIs DEF Run
  <2>4. Parts(c, 3, 3)
    BY <1>6, <2>1, <2>3
  <2>. QED  BY <1>5, <2>1, <2>2, <2>4 DEF c
<1>9. CASE int # n + 1
  <2>1. int \in 1 .. n /\ int \in 1 .. (n + 1) /\ At(c, int) = At(b, int)
    BY <1>1, <1>2, <1>9
  <2>2. IsCut(b) <=> \E d \in 1 .. n, e \in 1 .. n : CutParts(b, d, e)
    BY <1>1, <1>9, <2>1 DEF IsCut, int, n
  <2>3. \A d, e : CutParts(b, d, e) <=>
          /\ int < d /\ Run(b, int, d) /\ (At(b, int) = "0" => d = int + 1) /\ d <= e
          /\ \/ At(b, d) = "." /\ d = n
             \/ /\ d = e \/ (At(b, d) = "." /\ d + 1 < e /\ Run(b, d + 1, e))
                /\ At(b, e) \in {"e", "E"} /\ PowStart(b, e) = n + 1
    BY DEF CutParts, Lead, int, n
  <2>4. ASSUME NEW d \in 1 .. n, NEW e \in 1 .. n, CutParts(b, d, e) PROVE IsNumber(c)
    <3>1. int < d /\ Run(b, int, d) /\ (At(b, int) = "0" => d = int + 1) /\ d <= e
      BY <2>3, <2>4
    <3>2. d \in 1 .. (n + 1) /\ At(c, d) = At(b, d)
      BY <1>1
    <3>3. Run(c, int, d)
      BY <1>3, <2>1, <3>1, <3>2
    <3>4. CASE At(b, d) = "." /\ d = n
      <4>1. d + 1 \in 1 .. (n + 1) /\ d + 1 = n + 1 /\ d + 1 < n + 2 /\ d <= n + 2
        BY <1>1, <3>4
      <4>2. Run(b, n + 1, n + 1)
        <5>1. \A k : ~(k \in (n + 1) .. ((n + 1) - 1))
          BY <1>1
        <5>. QED  BY <5>1 DEF Run
      <4>3. Run(c, d + 1, n + 2)
        BY <1>3, <4>1, <4>2
      <4>4. Parts(c, d, n + 2)
        BY <1>1, <1>6, <2>1, <3>1, <3>2, <3>3, <3>4, <4>1, <4>3
      <4>5. d \in 1 .. (n + 2) /\ n + 2 \in 1 .. (n + 2)
        BY <1>1
      <4>. QED  BY <1>5, <4>4, <4>5
    <3>5. CASE /\ d = e \/ (At(b, d) = "." /\ d + 1 < e /\ Run(b, d + 1, e))
               /\ At(b, e) \in {"e", "E"} /\ PowStart(b, e) = n + 1
      <4>1. e \in 1 .. (n + 1) /\ At(c, e) = At(b, e) /\ PowStart(c, e) = n + 1 /\ d + 1 \in 1 .. (n + 1)
        BY <1>1, <1>4, <3>5
      <4>2. Run(c, n + 1, n + 2)
        <5>1. \A k \in (n + 1) .. ((n + 2) - 1) : k = n + 1
          BY <1>1
        <5>. QED  BY <1>1, <5>1, ZeroIs DEF Run
      <4>3. Run(b, d + 1, e) => Run(c, d + 1, e)
        BY <1>3, <4>1
      <4>4. e <= n + 2 /\ d \in 1 .. (n + 2) /\ e \in 1 .. (n + 2) /\ n + 1 <= n + 1
        BY <1>1
      <4>5. Parts(c, d, e)
        BY <1>6, <2>1, <3>1, <3>2, <3>3, <3>5, <4>1, <4>2, <4>3, <4>4
      <4>. QED  BY <1>5, <4>4, <4>5
    <3>. QED  BY <2>3, <2>4, <3>4, <3>5
  <2>5. ASSUME NEW d \in 1 .. (n + 2), NEW e \in 1 .. (n + 2), Parts(c, d, e)
        PROVE  \E x \in 1 .. n, y \in 1 .. n : CutParts(b, x, y)
    <3>1. /\ int < d /\ d <= e /\ e <= n + 2
          /\ Run(c, int, d) /\ (At(b, int) = "0" => d = int + 1)
          /\ d = e \/ (At(c, d) = "." /\ d + 1 < e /\ Run(c, d + 1, e))
          /\ e = n + 2 \/ (At(c, e) \in {"e", "E"} /\ PowStart(c, e) <= n + 1 /\ Run(c, PowStart(c, e), n + 2))
      BY <1>6, <2>1, <2>5
    <3>2. CASE e = n + 2 /\ d = e
      <4>1. Run(b, int, n + 1) /\ At(b, int) # "0"
        BY <1>1, <1>3, <1>9, <2>1, <3>1, <3>2
      <4>2. n + 1 \in 1 .. (n + 1) /\ int < n + 1
        BY <1>1, <2>1
      <4>. QED  BY <1>7, <4>1, <4>2
    <3>3. CASE e = n + 2 /\ d # e
      <4>1. At(c, d) = "." /\ d + 1 < n + 2 /\ Run(c, d + 1, n + 2)
        BY <3>1, <3>3
      <4>2. d \in 1 .. n
        <5>1. d \in 1 .. n \/ d = n + 1
          BY <1>1, <4>1
        <5>. QED  BY <1>1, <4>1, <5>1
      <4>3. d + 1 \in 1 .. (n + 1) /\ d \in 1 .. (n + 1) /\ d <= d
        BY <1>1, <4>2
      <4>4. At(b, d) = "." /\ Run(b, d + 1, n + 1) /\ Run(b, int, d)
        BY <1>1, <1>3, <2>1, <3>1, <4>1, <4>2, <4>3
      <4>5. d = n
        <5>. SUFFICES ASSUME d # n PROVE FALSE
          OBVIOUS
        <5>1. d + 1 < n + 1 /\ d <= n + 1 /\ n + 1 \in 1 .. (n + 1)
          BY <1>1, <4>2
        <5>. QED  BY <1>7, <3>1, <4>3, <4>4, <5>1
      <4>6. CutParts(b, d, d)
        BY <2>3, <3>1, <4>3, <4>4, <4>5
      <4>. QED  BY <4>2, <4>6
    <3>4. CASE e # n + 2
      <4>1. At(c, e) \in {"e", "E"} /\ PowStart(c, e) <= n + 1 /\ Run(c, PowStart(c, e), n + 2)
        BY <3>1, <3>4
      <4>2. e \in 1 .. n /\ d \in 1 .. n
        <5>1. e \in 1 .. n \/ e = n + 1
          BY <1>1, <3>4
        <5>2. e \in 1 .. n
          BY <1>1, <4>1, <5>1
        <5>. QED  BY <1>1, <3>1, <5>2
      <4>3. d + 1 \in 1 .. (n + 1) /\ d \in 1 .. (n + 1) /\ e \in 1 .. (n + 1) /\ e <= n + 1
        BY <1>1, <4>2
      <4>4. At(b, e) \in {"e", "E"} /\ At(b, d) = At(c, d) /\ PowStart(b, e) = PowStart(c, e)
        BY <1>1, <1>4, <4>1, <4>2
      <4>5. PowStart(b, e) \in 1 .. (n + 1) /\ Run(b, PowStart(b, e), n + 1)
        BY <1>3, <1>4, <4>1, <4>2, <4>4
      <4>6. Run(b, int, d) /\ (d = e \/ (At(b, d) = "." /\ d + 1 < e /\ Run(b, d + 1, e)))
        BY <1>3, <2>1, <3>1, <4>3, <4>4
      <4>7. PowStart(b, e) = n + 1
        <5>. SUFFICES ASSUME PowStart(b, e) <= n PROVE FALSE
          BY <1>1, <4>5
        <5>. QED  BY <1>7, <3>1, <4>3, <4>4, <4>5, <4>6
      <4>8. CutParts(b, d, e)
        BY <2>3, <3>1, <4>4, <4>6, <4>7
      <4>. QED  BY <4>2, <4>8
    <3>. QED  BY <3>2, <3>3, <3>4
  <2>. QED  BY <1>5, <2>2, <2>4, <2>5 DEF c
<1>. QED  BY <1>8, <1>9

-----------------------------------------------------------------------------
(* What the digits of a number are worth.                                  *)

LEMMA DigitIs ==
    ASSUME NEW c, IsDigit(c)
    PROVE  Digit(c) \in 0 .. 9
<1>1. PICK i \in DOMAIN Digits : c = Digits[i]
  BY DEF IsDigit, ToSet
<1>2. i - 1 \in 0 .. 9 /\ Digits[(i - 1) + 1] = c
  BY <1>1 DEF Digits
<1>. HIDE DEF Digits
<1>. QED  BY <1>2 DEF Digit

LEMMA CharIs ==
    ASSUME NEW d \in 0 .. 9
    PROVE  /\ IsDigit(Char(d)) /\ Digit(Char(d)) = d /\ Char(d) \in Character
           /\ Char(d) = "0" <=> d = 0
<1>1. d + 1 \in DOMAIN Digits /\ Char(d) = Digits[d + 1]
  BY DEF Digits, Char
<1>2. IsDigit(Char(d))
  BY <1>1 DEF IsDigit, ToSet
<1>3. ASSUME NEW e \in 0 .. 9, Digits[e + 1] = Digits[d + 1] PROVE e = d
  BY <1>3 DEF Digits
<1>4. Digit(Char(d)) = d
  <2>. DEFINE c == Char(d)
  <2>1. d \in 0 .. 9 /\ Digits[d + 1] = c
    BY <1>1
  <2>2. \A e \in 0 .. 9 : Digits[e + 1] = c => e = d
    BY <1>1, <1>3
  <2>. HIDE DEF c
  <2>3. Digit(c) = d
    BY <2>1, <2>2 DEF Digit
  <2>. QED  BY <2>3 DEF c
<1>5. Char(d) \in Character
  BY <1>2 DEF Character, IsDigit
<1>6. Digits[0 + 1] = "0"
  BY DEF Digits
<1>7. Char(d) = "0" <=> d = 0
  <2>1. 0 \in 0 .. 9
    OBVIOUS
  <2>. HIDE DEF Digits
  <2>. QED  BY <1>1, <1>3, <1>6, <2>1
<1>. QED  BY <1>2, <1>4, <1>5, <1>7

LEMMA DigitZero == Digit("0") = 0
<1>1. 0 \in 0 .. 9
  OBVIOUS
<1>2. Char(0) = "0" /\ Digit(Char(0)) = 0
  BY <1>1, CharIs
<1>. QED  BY <1>2

\* Two computations that go on alike end alike.
LEMMA Agree ==
    ASSUME NEW n \in Nat, NEW f, NEW g, f[0] = g[0], \A k \in 1 .. n : f[k - 1] = g[k - 1] => f[k] = g[k]
    PROVE  f[n] = g[n]
<1>. DEFINE S == {k \in Nat : k <= n => f[k] = g[k]}
<1>1. 0 \in S
  OBVIOUS
<1>2. ASSUME NEW k \in Nat, k \in S PROVE k + 1 \in S
  <2>. SUFFICES ASSUME k + 1 <= n PROVE f[k + 1] = g[k + 1]
    OBVIOUS
  <2>1. k + 1 \in 1 .. n /\ (k + 1) - 1 = k /\ f[k] = g[k]
    BY <1>2
  <2>2. f[(k + 1) - 1] = g[(k + 1) - 1]
    BY <2>1
  <2>. QED  BY <2>1, <2>2
<1>3. n \in S
  <2>. HIDE DEF S
  <2>. QED  BY <1>1, <1>2, NatSets
<1>. QED  BY <1>3

\* f counts up the digits among characters i to j of b.
Counting(b, i, j, f) ==
    f = [k \in 0 .. j |->
           IF k < i THEN 0 ELSE IF IsDigit(b[k]) THEN f[k - 1] * 10 + Digit(b[k]) ELSE f[k - 1]]

LEMMA CountingFor ==
    ASSUME NEW b, NEW i \in Nat \ {0}, NEW j \in Nat
    PROVE  \E f : Counting(b, i, j, f) /\ Decimal(b, i, j) = f[j]
<1>. DEFINE next(k, v) == IF k < i THEN 0 ELSE IF IsDigit(b[k]) THEN v * 10 + Digit(b[k]) ELSE v
            step == [p \in (1 .. j) \X Nat |-> next(p[1], p[2])]
            f == CHOOSE g : Counting(b, i, j, g)
<1>1. ASSUME NEW k \in 1 .. j, NEW v \in Nat PROVE next(k, v) \in Nat
  BY DigitIs
<1>2. step \in [(1 .. j) \X Nat -> Nat] /\ \A k \in 1 .. j, v \in Nat : step[<<k, v>>] = next(k, v)
  <2>. HIDE DEF next
  <2>1. \A k \in 1 .. j, v \in Nat : step[<<k, v>>] = next(k, v)
    OBVIOUS
  <2>2. \A p \in (1 .. j) \X Nat : p[1] \in 1 .. j /\ p[2] \in Nat
    OBVIOUS
  <2>3. step \in [(1 .. j) \X Nat -> Nat]
    BY <1>1, <2>2
  <2>. QED  BY <2>1, <2>3
<1>. HIDE DEF step
<1>3. PICK g : Computes(Nat, 0, j, step, g)
  <2>1. 0 \in Nat
    OBVIOUS
  <2>. QED  BY <1>2, <2>1, Steps, Zenon
<1>4. Counting(b, i, j, g)
  <2>. DEFINE r == [k \in 0 .. j |-> IF k < i THEN 0 ELSE IF IsDigit(b[k]) THEN g[k - 1] * 10 + Digit(b[k]) ELSE g[k - 1]]
  <2>1. ASSUME NEW k \in 0 .. j PROVE g[k] = r[k]
    <3>1. CASE k = 0
      BY <1>3, <3>1 DEF Computes
    <3>2. CASE k # 0
      <4>1. k \in 1 .. j /\ k - 1 \in 0 .. j
        BY <3>2
      <4>2. g[k - 1] \in Nat /\ g[k] = step[<<k, g[k - 1]>>]
        BY <1>3, <4>1 DEF Computes
      <4>3. g[k] = next(k, g[k - 1])
        BY <1>2, <4>1, <4>2
      <4>. QED  BY <4>3
    <3>. QED  BY <3>1, <3>2
  <2>2. g = r
    BY <1>3, <2>1 DEF Computes
  <2>. QED  BY <2>2 DEF Counting
<1>5. Counting(b, i, j, f)
  BY <1>4
<1>6. Decimal(b, i, j) = f[j]
  BY DEF Decimal, Counting
<1>. QED  BY <1>5, <1>6

LEMMA DecimalStep ==
    ASSUME NEW b, NEW i \in Nat \ {0}, NEW j \in Nat
    PROVE  /\ Decimal(b, i, 0) = 0
           /\ Decimal(b, i, j + 1) =
                IF j + 1 < i THEN 0
                ELSE IF IsDigit(b[j + 1]) THEN Decimal(b, i, j) * 10 + Digit(b[j + 1]) ELSE Decimal(b, i, j)
<1>. DEFINE next(k, v) == IF k < i THEN 0 ELSE IF IsDigit(b[k]) THEN v * 10 + Digit(b[k]) ELSE v
<1>1. PICK f : Counting(b, i, j, f) /\ Decimal(b, i, j) = f[j]
  BY CountingFor
<1>2. j + 1 \in Nat
  OBVIOUS
<1>3. PICK g : Counting(b, i, j + 1, g) /\ Decimal(b, i, j + 1) = g[j + 1]
  BY <1>2, CountingFor
<1>4. \A k \in 0 .. j : f[k] = next(k, f[k - 1])
  BY <1>1 DEF Counting
<1>5. \A k \in 0 .. (j + 1) : g[k] = next(k, g[k - 1])
  BY <1>3 DEF Counting
<1>6. 0 \in 0 .. j /\ 0 \in 0 .. (j + 1) /\ j + 1 \in 0 .. (j + 1) /\ (j + 1) - 1 = j /\ 0 < i
  OBVIOUS
<1>7. f[0] = 0 /\ g[0] = 0
  BY <1>4, <1>5, <1>6
<1>8. f[j] = g[j]
  <2>1. ASSUME NEW k \in 1 .. j, f[k - 1] = g[k - 1] PROVE f[k] = g[k]
    <3>1. k \in 0 .. j /\ k \in 0 .. (j + 1)
      OBVIOUS
    <3>2. f[k] = next(k, f[k - 1]) /\ g[k] = next(k, g[k - 1])
      BY <1>4, <1>5, <3>1
    <3>. HIDE DEF next
    <3>. QED  BY <2>1, <3>2
  <2>. QED  BY <1>7, <2>1, Agree
<1>9. g[j + 1] = next(j + 1, f[j])
  <2>. HIDE DEF next
  <2>. QED  BY <1>5, <1>6, <1>8
<1>10. Decimal(b, i, 0) = 0
  <2>1. PICK h : Counting(b, i, 0, h) /\ Decimal(b, i, 0) = h[0]
    BY CountingFor
  <2>2. 0 \in 0 .. 0
    OBVIOUS
  <2>3. h[0] = 0
    BY <1>6, <2>1, <2>2 DEF Counting
  <2>. QED  BY <2>1, <2>3
<1>. QED  BY <1>1, <1>3, <1>9, <1>10

LEMMA DecimalIs ==
    ASSUME NEW b, NEW i \in Nat \ {0}, NEW j \in Nat
    PROVE  Decimal(b, i, j) \in Nat /\ (j < i => Decimal(b, i, j) = 0)
<1>. DEFINE S == {k \in Nat : Decimal(b, i, k) \in Nat /\ (k < i => Decimal(b, i, k) = 0)}
<1>1. 0 \in S
  BY DecimalStep
<1>2. ASSUME NEW k \in Nat, k \in S PROVE k + 1 \in S
  <2>. DEFINE d == Decimal(b, i, k)
              e == Decimal(b, i, k + 1)
  <2>1. d \in Nat
    BY <1>2
  <2>2. e = IF k + 1 < i THEN 0 ELSE IF IsDigit(b[k + 1]) THEN d * 10 + Digit(b[k + 1]) ELSE d
    BY DecimalStep
  <2>3. IsDigit(b[k + 1]) => Digit(b[k + 1]) \in Nat
    BY DigitIs
  <2>. HIDE DEF d
  <2>. SUFFICES e \in Nat /\ (k + 1 < i => e = 0)
    OBVIOUS
  <2>. HIDE DEF e
  <2>. QED  BY <2>1, <2>2, <2>3
<1>3. j \in S
  <2>. HIDE DEF S
  <2>. QED  BY <1>1, <1>2, NatSets
<1>. QED  BY <1>3

LEMMA DecimalNext ==
    ASSUME NEW b, NEW j \in Nat
    PROVE  Decimal(b, 1, j + 1) =
             IF IsDigit(b[j + 1]) THEN Decimal(b, 1, j) * 10 + Digit(b[j + 1]) ELSE Decimal(b, 1, j)
<1>. DEFINE i == 1
<1>1. i \in Nat \ {0} /\ ~(j + 1 < i)
  OBVIOUS
<1>. HIDE DEF i
<1>2. Decimal(b, i, j + 1) =
        IF IsDigit(b[j + 1]) THEN Decimal(b, i, j) * 10 + Digit(b[j + 1]) ELSE Decimal(b, i, j)
  BY <1>1, DecimalStep
<1>. QED  BY <1>2 DEF i

LEMMA DecimalFirst ==
    ASSUME NEW b
    PROVE  Decimal(b, 1, 0) = 0 /\ Decimal(b, 1, 1) = IF IsDigit(b[1]) THEN Digit(b[1]) ELSE 0
<1>. DEFINE i == 1
            j == 0
<1>1. i \in Nat \ {0} /\ j \in Nat /\ j + 1 = 1 /\ j = 0
  OBVIOUS
<1>. HIDE DEF i, j
<1>2. Decimal(b, i, 0) = 0
  BY <1>1, DecimalStep
<1>3. Decimal(b, 1, 0) = 0
  BY <1>2 DEF i
<1>4. Decimal(b, 1, j + 1) = IF IsDigit(b[j + 1]) THEN Decimal(b, 1, j) * 10 + Digit(b[j + 1]) ELSE Decimal(b, 1, j)
  BY <1>1, DecimalNext
<1>5. Decimal(b, 1, 1) = IF IsDigit(b[1]) THEN 0 * 10 + Digit(b[1]) ELSE 0
  BY <1>1, <1>3, <1>4
<1>6. IsDigit(b[1]) => Digit(b[1]) \in 0 .. 9
  BY DigitIs
<1>. QED  BY <1>3, <1>5, <1>6

\* A sign is worth nothing.
LEMMA NothingYet ==
    ASSUME NEW b \in Text
    PROVE  Decimal(b, 1, IntStart(b) - 1) = 0
<1>1. IntStart(b) \in {1, 2} /\ (IntStart(b) = 2 <=> At(b, 1) = "-")
  BY StartIs
<1>2. Decimal(b, 1, 0) = 0 /\ Decimal(b, 1, 1) = IF IsDigit(b[1]) THEN Digit(b[1]) ELSE 0
  BY DecimalFirst
<1>3. CASE IntStart(b) = 1
  BY <1>2, <1>3
<1>4. CASE IntStart(b) = 2
  <2>1. 1 \in 1 .. Len(b)
    <3>1. 1 \in Int /\ At(b, 1) # "end"
      BY <1>1, <1>4
    <3>. QED  BY <3>1, Inside
  <2>2. b[1] = "-"
    BY <1>1, <1>4, <2>1, AtIs
  <2>3. ~IsDigit(b[1])
    BY <2>2, DigitIsNo
  <2>. QED  BY <1>2, <1>4, <2>3
<1>. QED  BY <1>1, <1>3, <1>4

\* What stands in front of the digits and is none changes nothing.
LEMMA DecimalShift ==
    ASSUME NEW b, NEW c, NEW m \in Nat, NEW o \in Nat, Decimal(c, 1, o) = 0,
           \A k \in 1 .. m : c[k + o] = b[k]
    PROVE  Decimal(c, 1, m + o) = Decimal(b, 1, m)
<1>. DEFINE S == {k \in Nat : k <= m => Decimal(c, 1, k + o) = Decimal(b, 1, k)}
<1>1. 0 \in S
  <2>1. Decimal(b, 1, 0) = 0 /\ 0 + o = o
    BY DecimalFirst
  <2>. QED  BY <2>1
<1>2. ASSUME NEW k \in Nat, k \in S PROVE k + 1 \in S
  <2>. SUFFICES ASSUME k + 1 <= m PROVE Decimal(c, 1, (k + 1) + o) = Decimal(b, 1, k + 1)
    OBVIOUS
  <2>1. Decimal(c, 1, k + o) = Decimal(b, 1, k)
    BY <1>2
  <2>2. k + 1 \in 1 .. m /\ (k + 1) + o = (k + o) + 1 /\ k + o \in Nat
    OBVIOUS
  <2>3. c[(k + o) + 1] = b[k + 1]
    BY <2>2
  <2>4. Decimal(b, 1, k + 1) = IF IsDigit(b[k + 1]) THEN Decimal(b, 1, k) * 10 + Digit(b[k + 1]) ELSE Decimal(b, 1, k)
    BY DecimalNext
  <2>5. Decimal(c, 1, (k + o) + 1) =
          IF IsDigit(c[(k + o) + 1]) THEN Decimal(c, 1, k + o) * 10 + Digit(c[(k + o) + 1]) ELSE Decimal(c, 1, k + o)
    BY <2>2, DecimalNext
  <2>. QED  BY <2>1, <2>2, <2>3, <2>4, <2>5
<1>3. m \in S
  <2>. HIDE DEF S
  <2>. QED  BY <1>1, <1>2, NatSets
<1>. QED  BY <1>3

LEMMA MantissaIs ==
    ASSUME NEW b \in Text
    PROVE  Mantissa(b) \in Nat /\ (IntStart(b) = Len(b) + 1 => Mantissa(b) = 0)
<1>. DEFINE int  == IntStart(b)
            dot  == AfterDigits(b, int)
            top  == (IF At(b, dot) = "." THEN AfterDigits(b, dot + 1) ELSE dot) - 1
<1>1. Mantissa(b) = Decimal(b, int, top)
  BY DEF Mantissa, IntStart
<1>2. Len(b) \in Nat /\ int \in {1, 2} /\ int <= Len(b) + 1
  BY AtIs, StartIs
<1>. HIDE DEF int
<1>3. int \in 1 .. (Len(b) + 1)
  BY <1>2
<1>4. dot \in int .. (Len(b) + 1)
  BY <1>3, AfterIs
<1>. HIDE DEF dot
<1>5. CASE At(b, dot) = "."
  <2>1. dot \in 1 .. Len(b)
    <3>1. dot \in Int /\ "." # "end"
      BY <1>2, <1>4
    <3>. QED  BY <1>5, <3>1, Inside
  <2>2. dot + 1 \in 1 .. (Len(b) + 1)
    BY <1>2, <2>1
  <2>3. AfterDigits(b, dot + 1) \in (dot + 1) .. (Len(b) + 1)
    BY <2>2, AfterIs
  <2>4. top \in Nat
    BY <1>2, <1>5, <2>1, <2>3
  <2>5. int # Len(b) + 1
    BY <1>2, <1>4, <2>1
  <2>. HIDE DEF top
  <2>. QED  BY <1>1, <1>2, <2>4, <2>5, DecimalIs DEF int
<1>6. CASE At(b, dot) # "."
  <2>1. top = dot - 1 /\ top \in Nat
    BY <1>2, <1>4, <1>6
  <2>2. int = Len(b) + 1 => top < int
    BY <1>2, <1>4, <2>1
  <2>. HIDE DEF top
  <2>. QED  BY <1>1, <1>2, <2>1, <2>2, DecimalIs DEF int
<1>. QED  BY <1>5, <1>6

-----------------------------------------------------------------------------
(* The fast path and the slow one.                                         *)

\* The scans agree on where the digits of an integer end.
LEMMA LeadIs ==
    ASSUME NEW b \in Text, IsDigit(At(b, IntStart(b))), NEW dot,
           dot = IF At(b, IntStart(b)) = "0" THEN IntStart(b) + 1 ELSE AfterDigits(b, IntStart(b))
    PROVE  dot \in 1 .. (Len(b) + 1) /\ Lead(b, dot)
<1>. DEFINE int == IntStart(b)
<1>1. int \in 1 .. (Len(b) + 1) /\ Len(b) \in Nat
  BY AtIs, StartIs
<1>2. int \in 1 .. Len(b)
  <2>1. int \in Int /\ At(b, int) # "end"
    BY <1>1, DigitIsNo
  <2>. QED  BY <2>1, Inside
<1>. HIDE DEF int
<1>3. CASE At(b, int) = "0"
  <2>1. dot = int + 1
    BY <1>3 DEF int
  <2>2. \A k \in int .. ((int + 1) - 1) : k = int
    BY <1>1
  <2>3. Run(b, int, dot)
    BY <2>1, <2>2 DEF Run, int
  <2>. QED  BY <1>1, <1>2, <2>1, <2>3 DEF Lead, int
<1>4. CASE At(b, int) # "0"
  <2>1. dot = AfterDigits(b, int)
    BY <1>4 DEF int
  <2>2. dot \in int .. (Len(b) + 1) /\ ~IsDigit(At(b, dot)) /\ Run(b, int, dot)
    BY <1>1, <2>1, AfterIs
  <2>3. dot # int
    BY <2>2 DEF int
  <2>. QED  BY <1>1, <1>4, <2>2, <2>3 DEF Lead, int
<1>. QED  BY <1>3, <1>4

LEMMA FastIs ==
    ASSUME NEW b \in Text
    PROVE  /\ \E ok, cut \in BOOLEAN : \E val : Fast(b) = [ok |-> ok, cut |-> cut, val |-> val]
           /\ Fast(b).ok => IsNumber(b) /\ ~Fast(b).cut /\ Fast(b).val = Mantissa(b)
           /\ Fast(b).cut => IsCut(b)
           /\ IsCut(b) /\ ~IsNumber(b) /\ Mantissa(b) <= MantissaMax => Fast(b).val = Mantissa(b)
<1>. DEFINE n   == Len(b)
            int == IntStart(b)
            dot == IF At(b, int) = "0" THEN int + 1 ELSE AfterDigits(b, int)
            exp == IF At(b, dot) = "." THEN AfterDigits(b, dot + 1) ELSE dot
            Result(ok, cut) == [ok |-> ok, cut |-> cut, val |-> IF ok \/ cut THEN Mantissa(b) ELSE 0]
            stops == \/ At(b, dot) = "." /\ dot = n
                     \/ At(b, exp) \in {"e", "E"} /\ exp # dot + 1 /\ PowStart(b, exp) = n + 1
<1>1. Fast(b) = IF int = n + 1 THEN [ok |-> FALSE, cut |-> int = 2, val |-> 0]
                ELSE IF ~IsDigit(At(b, int)) \/ Mantissa(b) > MantissaMax THEN Result(FALSE, FALSE)
                ELSE IF stops THEN Result(FALSE, TRUE)
                ELSE Result(ValidNumber(b), FALSE)
  BY DEF Fast, Dangling, IntStart, PowStart
<1>2. n \in Nat /\ int \in {1, 2} /\ int <= n + 1 /\ Mantissa(b) \in Nat /\ MantissaMax \in Nat
  BY AtIs, StartIs, MantissaIs, ScalarsAssumption
<1>3. int = n + 1 => Mantissa(b) = 0
  BY MantissaIs
<1>4. ValidNumber(b) <=> IsNumber(b)
  BY ValidIs
<1>5. IsDigit(At(b, int)) => dot \in 1 .. (n + 1) /\ Lead(b, dot)
  BY LeadIs
<1>6. int # n + 1 => (IsCut(b) <=> \E d \in 1 .. n, e \in 1 .. n : CutParts(b, d, e))
  <2>1. int # n + 1 => int <= n
    BY <1>2
  <2>. QED  BY <2>1 DEF IsCut
<1>7. ASSUME int # n + 1, IsDigit(At(b, int)), stops PROVE IsCut(b)
  <2>1. dot \in 1 .. (n + 1) /\ Lead(b, dot)
    BY <1>5, <1>7
  <2>. HIDE DEF dot
  <2>2. CASE At(b, dot) = "." /\ dot = n
    <3>1. dot \in 1 .. n /\ dot <= dot
      BY <1>2, <2>1, <2>2
    <3>2. CutParts(b, dot, dot)
      BY <2>1, <2>2, <3>1 DEF CutParts
    <3>. HIDE DEF n, int
    <3>. QED  BY <1>6, <1>7, <3>1, <3>2
  <2>3. CASE At(b, exp) \in {"e", "E"} /\ exp # dot + 1 /\ PowStart(b, exp) = n + 1
    <3>1. CASE At(b, dot) = "."
      <4>1. dot \in 1 .. n
        <5>1. dot \in Int /\ "." # "end"
          BY <2>1
        <5>. QED  BY <3>1, <5>1, Inside
      <4>2. exp = AfterDigits(b, dot + 1) /\ dot + 1 \in 1 .. (n + 1)
        BY <1>2, <3>1, <4>1
      <4>3. exp \in (dot + 1) .. (n + 1) /\ Run(b, dot + 1, exp)
        BY <4>2, AfterIs
      <4>. HIDE DEF exp
      <4>4. exp \in 1 .. n
        <5>1. exp \in Int /\ At(b, exp) # "end"
          BY <1>2, <2>3, <4>1, <4>3
        <5>. QED  BY <5>1, Inside
      <4>5. dot <= exp /\ dot + 1 < exp
        BY <1>2, <2>3, <4>1, <4>3
      <4>6. CutParts(b, dot, exp)
        BY <2>1, <2>3, <3>1, <4>3, <4>5 DEF CutParts
      <4>. HIDE DEF n, int
      <4>. QED  BY <1>6, <1>7, <4>1, <4>4, <4>6
    <3>2. CASE At(b, dot) # "."
      <4>1. exp = dot
        BY <3>2
      <4>. HIDE DEF exp
      <4>2. dot \in 1 .. n /\ dot <= dot
        <5>1. dot \in Int /\ At(b, dot) # "end"
          BY <2>1, <2>3, <4>1
        <5>. QED  BY <5>1, Inside
      <4>3. CutParts(b, dot, dot)
        BY <2>1, <2>3, <4>1, <4>2 DEF CutParts
      <4>. HIDE DEF n, int
      <4>. QED  BY <1>6, <1>7, <4>2, <4>3
    <3>. QED  BY <3>1, <3>2
  <2>. QED  BY <1>7, <2>2, <2>3
<1>8. ASSUME int # n + 1, NEW d \in 1 .. n, NEW e \in 1 .. n, CutParts(b, d, e)
      PROVE  IsDigit(At(b, int)) /\ stops
  <2>1. /\ Lead(b, d) /\ d <= e
        /\ \/ At(b, d) = "." /\ d = n
           \/ /\ d = e \/ (At(b, d) = "." /\ d + 1 < e /\ Run(b, d + 1, e))
              /\ At(b, e) \in {"e", "E"} /\ PowStart(b, e) = n + 1
    BY <1>8 DEF CutParts
  <2>2. ~IsDigit(At(b, d))
    <3>1. At(b, d) \in {".", "e", "E"}
      BY <2>1
    <3>. QED  BY <3>1, DigitIsNo
  <2>3. dot = d /\ IsDigit(At(b, int))
    <3>1. d \in 1 .. (n + 1)
      BY <1>2
    <3>. QED  BY <2>1, <2>2, <3>1, DotIs
  <2>. HIDE DEF dot
  <2>4. CASE At(b, d) = "." /\ d = n
    BY <2>3, <2>4
  <2>5. CASE d = e /\ At(b, e) \in {"e", "E"} /\ PowStart(b, e) = n + 1
    <3>1. exp = e
      BY <2>3, <2>5
    <3>. HIDE DEF exp
    <3>2. exp # dot + 1
      BY <2>3, <2>5, <3>1
    <3>. QED  BY <2>3, <2>5, <3>1, <3>2
  <2>6. CASE /\ At(b, d) = "." /\ d + 1 < e /\ Run(b, d + 1, e)
             /\ At(b, e) \in {"e", "E"} /\ PowStart(b, e) = n + 1
    <3>1. AfterDigits(b, d + 1) = e
      <4>1. ~IsDigit(At(b, e))
        BY <2>6, DigitIsNo
      <4>. QED  BY <2>6, <4>1, FracIs
    <3>2. exp = e
      BY <2>3, <2>6, <3>1
    <3>. HIDE DEF exp
    <3>3. exp # dot + 1
      BY <2>3, <2>6, <3>2
    <3>. QED  BY <2>3, <2>6, <3>2, <3>3
  <2>. QED  BY <2>1, <2>4, <2>5, <2>6
<1>. HIDE DEF stops, dot
<1>9. \A ok, cut : /\ Result(ok, cut).ok = ok /\ Result(ok, cut).cut = cut
                   /\ ok \/ cut => Result(ok, cut).val = Mantissa(b)
  OBVIOUS
<1>10. ValidNumber(b) \in BOOLEAN
  BY DEF ValidNumber
<1>11. CASE int = n + 1
  <2>1. Fast(b) = [ok |-> FALSE, cut |-> int = 2, val |-> 0]
    BY <1>1, <1>11
  <2>2. ~Fast(b).ok /\ Fast(b).cut = (int = 2) /\ Fast(b).val = 0
    BY <2>1
  <2>3. Fast(b).cut => IsCut(b)
    BY <1>11, <2>2 DEF IsCut
  <2>4. (int = 2) \in BOOLEAN
    OBVIOUS
  <2>. HIDE DEF n, int
  <2>. QED  BY <1>3, <1>11, <2>1, <2>2, <2>3, <2>4
<1>12. CASE int # n + 1 /\ (~IsDigit(At(b, int)) \/ Mantissa(b) > MantissaMax)
  <2>1. Fast(b) = Result(FALSE, FALSE)
    BY <1>1, <1>12
  <2>2. ~Fast(b).ok /\ ~Fast(b).cut
    BY <1>9, <2>1
  <2>3. ~(IsCut(b) /\ Mantissa(b) <= MantissaMax)
    <3>1. Mantissa(b) > MantissaMax <=> ~(Mantissa(b) <= MantissaMax)
      BY <1>2
    <3>2. IsCut(b) => IsDigit(At(b, int))
      BY <1>6, <1>8, <1>12
    <3>. QED  BY <1>12, <3>1, <3>2
  <2>. QED  BY <2>1, <2>2, <2>3
<1>13. CASE int # n + 1 /\ ~(~IsDigit(At(b, int)) \/ Mantissa(b) > MantissaMax) /\ stops
  <2>1. Fast(b) = Result(FALSE, TRUE)
    BY <1>1, <1>13
  <2>2. ~Fast(b).ok /\ Fast(b).cut /\ Fast(b).val = Mantissa(b)
    BY <1>9, <2>1
  <2>3. IsCut(b)
    BY <1>7, <1>13
  <2>. QED  BY <2>1, <2>2, <2>3
<1>14. CASE int # n + 1 /\ ~(~IsDigit(At(b, int)) \/ Mantissa(b) > MantissaMax) /\ ~stops
  <2>1. Fast(b) = Result(ValidNumber(b), FALSE)
    BY <1>1, <1>14
  <2>2. (Fast(b).ok <=> ValidNumber(b)) /\ ~Fast(b).cut /\ (Fast(b).ok => Fast(b).val = Mantissa(b))
    BY <1>9, <2>1
  <2>3. ~IsCut(b)
    BY <1>6, <1>8, <1>14
  <2>. QED  BY <1>4, <1>10, <2>1, <2>2, <2>3
<1>. QED  BY <1>11, <1>12, <1>13, <1>14

\* What a float field makes of a text.
LEMMA FloatIs ==
    ASSUME NEW b \in Text, NEW out, out = ParseFloat(b)
    PROVE  /\ out.ok <=> Number(b)
           /\ out.cut <=> b # <<>> /\ ~Number(b) /\ Number(Append(b, "0"))
           /\ out.ok \/ (out.cut /\ Mantissa(b) <= MantissaMax) => out.val = Mantissa(b)
<1>. DEFINE fast == Fast(b)
            isCut == b # <<>> /\ ~IsNumber(b) /\ Number(Append(b, "0"))
<1>1. \E ok, cut \in BOOLEAN : \E val : fast = [ok |-> ok, cut |-> cut, val |-> val]
  BY FastIs
<1>2. /\ fast.ok => IsNumber(b) /\ ~fast.cut /\ fast.val = Mantissa(b)
      /\ fast.cut => IsCut(b)
      /\ IsCut(b) /\ ~IsNumber(b) /\ Mantissa(b) <= MantissaMax => fast.val = Mantissa(b)
  BY FastIs
<1>. HIDE DEF fast
<1>3. (Number(b) <=> IsNumber(b)) /\ (ValidNumber(b) <=> IsNumber(b)) /\ (Incomplete(b) <=> IsCut(b))
  BY NumberIs, ValidIs, IncompleteIs
<1>4. isCut <=> ~IsNumber(b) /\ IsCut(b)
  <2>1. CASE b = <<>>
    <3>1. Len(b) = 0 /\ At(b, 1) # "-"
      <4>1. Len(b) = 0
        BY <2>1
      <4>2. 1 \notin 1 .. Len(b)
        BY <4>1
      <4>3. At(b, 1) = "end"
        BY <4>2, AtIs
      <4>. QED  BY <4>1, <4>3
    <3>2. IntStart(b) = 1
      BY <3>1, StartIs
    <3>. QED  BY <2>1, <3>1, <3>2 DEF IsCut
  <2>2. CASE b # <<>>
    <3>1. Append(b, "0") \in Text
      BY <2>2, AppendedIs
    <3>2. Number(Append(b, "0")) <=> IsNumber(Append(b, "0"))
      BY <3>1, NumberIs
    <3>3. ~IsNumber(b) => (IsNumber(Append(b, "0")) <=> IsCut(b))
      BY <2>2, ExtendedIs
    <3>. QED  BY <2>2, <3>2, <3>3
  <2>. QED  BY <2>1, <2>2
<1>. HIDE DEF isCut
<1>5. out = IF fast.ok THEN fast
            ELSE IF ValidNumber(b) THEN [ok |-> TRUE, cut |-> FALSE, val |-> Mantissa(b)]
            ELSE IF fast.cut \/ Incomplete(b) THEN [fast EXCEPT !.cut = TRUE]
            ELSE [ok |-> FALSE, cut |-> FALSE, val |-> 0]
  BY DEF ParseFloat, fast
<1>. SUFFICES /\ out.ok <=> IsNumber(b)
              /\ out.cut <=> isCut
              /\ out.ok \/ (out.cut /\ Mantissa(b) <= MantissaMax) => out.val = Mantissa(b)
  BY <1>3 DEF isCut
<1>6. CASE fast.ok
  <2>1. out = fast
    BY <1>5, <1>6
  <2>. QED  BY <1>2, <1>4, <1>6, <2>1
<1>7. CASE ~fast.ok /\ ValidNumber(b)
  <2>1. out = [ok |-> TRUE, cut |-> FALSE, val |-> Mantissa(b)]
    BY <1>5, <1>7
  <2>2. out.ok /\ ~out.cut /\ out.val = Mantissa(b)
    BY <2>1
  <2>. QED  BY <1>3, <1>4, <1>7, <2>2
<1>8. CASE ~fast.ok /\ ~ValidNumber(b) /\ IsCut(b)
  <2>1. out = [fast EXCEPT !.cut = TRUE]
    BY <1>3, <1>5, <1>8
  <2>2. out.ok = fast.ok /\ out.cut = TRUE /\ out.val = fast.val
    BY <1>1, <2>1
  <2>. QED  BY <1>2, <1>3, <1>4, <1>8, <2>2
<1>9. CASE ~fast.ok /\ ~ValidNumber(b) /\ ~IsCut(b)
  <2>1. out = [ok |-> FALSE, cut |-> FALSE, val |-> 0]
    BY <1>2, <1>3, <1>5, <1>9
  <2>2. ~out.ok /\ ~out.cut
    BY <2>1
  <2>. QED  BY <1>3, <1>4, <1>9, <2>2
<1>. QED  BY <1>6, <1>7, <1>8, <1>9

-----------------------------------------------------------------------------
(* Words.                                                                  *)

Doubled(n, f) == f = [k \in 0 .. n |-> IF k = 0 THEN 1 ELSE 2 * f[k - 1]]

LEMMA DoubledFor ==
    ASSUME NEW n \in Nat
    PROVE  \E f : Doubled(n, f) /\ Pow2(n) = f[n]
<1>. DEFINE step == [p \in (1 .. n) \X Nat |-> 2 * p[2]]
            f == CHOOSE g : Doubled(n, g)
<1>1. 1 \in Nat /\ step \in [(1 .. n) \X Nat -> Nat]
  OBVIOUS
<1>2. \A k \in 1 .. n, v \in Nat : step[<<k, v>>] = 2 * v
  OBVIOUS
<1>. HIDE DEF step
<1>3. PICK g : Computes(Nat, 1, n, step, g)
  BY <1>1, Steps, Zenon
<1>. DEFINE r == [k \in 0 .. n |-> IF k = 0 THEN 1 ELSE 2 * g[k - 1]]
<1>4. ASSUME NEW k \in 0 .. n PROVE g[k] = r[k]
  <2>1. CASE k = 0
    BY <1>3, <2>1 DEF Computes
  <2>2. CASE k # 0
    <3>1. k \in 1 .. n /\ k - 1 \in 0 .. n
      BY <2>2
    <3>2. g[k - 1] \in Nat /\ g[k] = step[<<k, g[k - 1]>>]
      BY <1>3, <3>1 DEF Computes
    <3>. QED  BY <1>2, <2>2, <3>1, <3>2
  <2>. QED  BY <2>1, <2>2
<1>5. g = r
  BY <1>3, <1>4 DEF Computes
<1>6. Doubled(n, g)
  BY <1>5 DEF Doubled
<1>7. Doubled(n, f)
  BY <1>6
<1>8. Pow2(n) = f[n]
  BY DEF Pow2, Doubled
<1>. QED  BY <1>7, <1>8

LEMMA Pow2Step ==
    ASSUME NEW n \in Nat
    PROVE  Pow2(0) = 1 /\ Pow2(n + 1) = 2 * Pow2(n)
<1>1. PICK f : Doubled(n, f) /\ Pow2(n) = f[n]
  BY DoubledFor
<1>2. n + 1 \in Nat /\ 0 \in Nat
  OBVIOUS
<1>3. PICK g : Doubled(n + 1, g) /\ Pow2(n + 1) = g[n + 1]
  BY <1>2, DoubledFor
<1>4. PICK h : Doubled(0, h) /\ Pow2(0) = h[0]
  BY <1>2, DoubledFor
<1>5. f[0] = 1 /\ g[0] = 1 /\ h[0] = 1
  BY <1>1, <1>3, <1>4 DEF Doubled
<1>6. ASSUME NEW k \in 1 .. n, f[k - 1] = g[k - 1] PROVE f[k] = g[k]
  <2>1. k \in 0 .. n /\ k \in 0 .. (n + 1) /\ k # 0
    OBVIOUS
  <2>2. f[k] = 2 * f[k - 1] /\ g[k] = 2 * g[k - 1]
    BY <1>1, <1>3, <2>1 DEF Doubled
  <2>. QED  BY <1>6, <2>2
<1>7. f[n] = g[n]
  BY <1>5, <1>6, Agree
<1>8. g[n + 1] = 2 * g[n]
  <2>1. n + 1 \in 0 .. (n + 1) /\ n + 1 # 0 /\ (n + 1) - 1 = n
    OBVIOUS
  <2>. QED  BY <1>3, <2>1 DEF Doubled
<1>. QED  BY <1>1, <1>3, <1>4, <1>5, <1>7, <1>8

LEMMA Pow2Is == \A n \in Nat : Pow2(n) \in Nat \ {0}
<1>. DEFINE S == {n \in Nat : Pow2(n) \in Nat \ {0}}
<1>1. 0 \in S
  BY Pow2Step
<1>2. ASSUME NEW n \in Nat, n \in S PROVE n + 1 \in S
  <2>1. Pow2(n) \in Nat \ {0} /\ Pow2(n + 1) = 2 * Pow2(n) /\ n + 1 \in Nat
    BY <1>2, Pow2Step
  <2>. QED  BY <2>1
<1>3. Nat \subseteq S
  <2>. HIDE DEF S
  <2>. QED  BY <1>1, <1>2, NatSets
<1>. QED  BY <1>3

LEMMA Pow2Rises ==
    ASSUME NEW m \in Nat, NEW n \in Nat, m <= n
    PROVE  Pow2(m) <= Pow2(n)
<1>. DEFINE S == {k \in Nat : Pow2(m) <= Pow2(m + k)}
<1>1. 0 \in S
  <2>1. m + 0 = m /\ Pow2(m) \in Nat
    BY Pow2Is
  <2>. QED  BY <2>1
<1>2. ASSUME NEW k \in Nat, k \in S PROVE k + 1 \in S
  <2>1. m + k \in Nat /\ m + (k + 1) = (m + k) + 1
    OBVIOUS
  <2>2. Pow2((m + k) + 1) = 2 * Pow2(m + k) /\ Pow2(m + k) \in Nat /\ Pow2(m) \in Nat
    BY <2>1, Pow2Step, Pow2Is
  <2>3. Pow2(m) <= Pow2(m + k)
    BY <1>2
  <2>. QED  BY <2>1, <2>2, <2>3
<1>3. n - m \in S
  <2>1. n - m \in Nat
    OBVIOUS
  <2>. HIDE DEF S
  <2>. QED  BY <1>1, <1>2, <2>1, NatSets
<1>4. m + (n - m) = n
  OBVIOUS
<1>. QED  BY <1>3, <1>4

LEMMA WordsAre ==
    /\ MaxInt \in Nat /\ MaxUint \in Nat
    /\ MinInt = -(MaxInt + 1) /\ MaxUint = 2 * MaxInt + 1
    /\ Pow2(WordBits - 1) = MaxInt + 1 /\ Pow2(WordBits) = MaxUint + 1
<1>1. WordBits - 1 \in Nat /\ WordBits \in Nat /\ (WordBits - 1) + 1 = WordBits
  BY ScalarsAssumption
<1>2. Pow2(WordBits - 1) \in Nat \ {0} /\ Pow2(WordBits) = 2 * Pow2(WordBits - 1)
  <2>1. Pow2((WordBits - 1) + 1) = 2 * Pow2(WordBits - 1)
    BY <1>1, Pow2Step
  <2>. QED  BY <1>1, <2>1, Pow2Is
<1>. QED  BY <1>2 DEF MaxInt, MaxUint, MinInt

-----------------------------------------------------------------------------
(* Integers read.                                                          *)

\* What the accumulator holds of the number x.
Clip(x) == IF x > MaxUint THEN Overflow ELSE x

LEMMA AccumulateIs ==
    ASSUME NEW x \in Nat, NEW d \in 0 .. 9
    PROVE  Accumulate(Clip(x), d) = Clip(x * 10 + d)
<1>. DEFINE max == MaxUint
<1>1. max \in Nat
  BY WordsAre
<1>. HIDE DEF max
<1>2. Clip(x) = (IF x > max THEN -1 ELSE x) /\ Clip(x * 10 + d) = (IF x * 10 + d > max THEN -1 ELSE x * 10 + d)
  BY DEF Clip, Overflow, max
<1>3. Accumulate(Clip(x), d) =
        IF Clip(x) = -1 \/ Clip(x) > (max - d) \div 10 THEN -1 ELSE Clip(x) * 10 + d
  BY DEF Accumulate, Overflow, max
<1>4. x > (max - d) \div 10 <=> x * 10 + d > max
  BY <1>1
<1>5. CASE x > max
  <2>1. x * 10 + d > max
    BY <1>1, <1>5
  <2>. QED  BY <1>2, <1>3, <1>5, <2>1
<1>6. CASE ~(x > max)
  <2>1. Clip(x) = x /\ x # -1
    BY <1>2, <1>6
  <2>. QED  BY <1>2, <1>3, <1>4, <2>1
<1>. QED  BY <1>5, <1>6

\* The text without its sign.
Body(b) == IF At(b, 1) = "-" THEN Tail(b) ELSE b

LEMMA BodyIs ==
    ASSUME NEW b \in Text
    PROVE  /\ Len(Body(b)) = (Len(b) + 1) - IntStart(b) /\ Len(Body(b)) \in Nat
           /\ DOMAIN Body(b) = 1 .. Len(Body(b)) /\ (Body(b) = <<>> <=> Len(Body(b)) = 0)
           /\ \A k \in 1 .. Len(Body(b)) : Body(b)[k] = b[(k + IntStart(b)) - 1]
<1>1. Len(b) \in Nat
  BY AtIs
<1>2. CASE At(b, 1) = "-"
  <2>1. IntStart(b) = 2 /\ Len(b) >= 1
    BY <1>2, StartIs
  <2>2. Body(b) = Tail(b)
    BY <1>2 DEF Body
  <2>3. Tail(b) \in Text /\ Len(Tail(b)) = Len(b) - 1 /\ \A k \in 1 .. (Len(b) - 1) : Tail(b)[k] = b[k + 1]
    BY <1>1, <2>1 DEF Text
  <2>. DEFINE t == Tail(b)
  <2>. HIDE DEF t
  <2>4. DOMAIN t = 1 .. Len(t) /\ (t = <<>> <=> Len(t) = 0)
    <3>1. t \in Text
      BY <2>3 DEF t
    <3>. QED  BY <3>1 DEF Text
  <2>5. \A k \in 1 .. (Len(b) - 1) : (k + 2) - 1 = k + 1
    BY <1>1
  <2>6. (Len(b) + 1) - 2 = Len(b) - 1 /\ Len(b) - 1 \in Nat
    BY <1>1, <2>1
  <2>. QED  BY <2>1, <2>2, <2>3, <2>4, <2>5, <2>6 DEF t
<1>3. CASE At(b, 1) # "-"
  <2>1. IntStart(b) = 1
    BY <1>3, StartIs
  <2>2. Body(b) = b
    BY <1>3 DEF Body
  <2>3. DOMAIN b = 1 .. Len(b) /\ (b = <<>> <=> Len(b) = 0)
    BY DEF Text
  <2>4. (Len(b) + 1) - 1 = Len(b) /\ \A k \in 1 .. Len(b) : (k + 1) - 1 = k
    BY <1>1
  <2>. QED  BY <1>1, <2>1, <2>2, <2>3, <2>4
<1>. QED  BY <1>2, <1>3

Accumulating(s, f) ==
    f = [i \in 0 .. Len(s) |-> IF i = 0 THEN 0 ELSE Accumulate(f[i - 1], Digit(s[i]))]

\* The accumulator holds what the digits so far are worth, or that it is too much.
LEMMA AccumulatedIs ==
    ASSUME NEW b \in Text, NEW s, s = Body(b), \A k \in 1 .. Len(s) : IsDigit(s[k]), Len(s) \in Nat \ {0}
    PROVE  (CHOOSE f : Accumulating(s, f))[Len(s)] = Clip(Decimal(b, 1, Len(b)))
<1>. DEFINE m == Len(s)
            V == Nat \cup {Overflow}
            step == [p \in (1 .. m) \X V |-> Accumulate(p[2], Digit(s[p[1]]))]
            f == CHOOSE g : Accumulating(s, g)
<1>1. m \in Nat /\ 0 \in V
  OBVIOUS
<1>2. MaxUint \in Nat
  BY WordsAre
<1>3. ASSUME NEW k \in 1 .. m, NEW v \in V PROVE Accumulate(v, Digit(s[k])) \in V
  <2>1. Digit(s[k]) \in 0 .. 9
    BY DigitIs
  <2>. QED  BY <1>2, <2>1 DEF Accumulate
<1>4. step \in [(1 .. m) \X V -> V] /\ \A k \in 1 .. m, v \in V : step[<<k, v>>] = Accumulate(v, Digit(s[k]))
  <2>. HIDE DEF V, m
  <2>1. \A p \in (1 .. m) \X V : p[1] \in 1 .. m /\ p[2] \in V
    OBVIOUS
  <2>2. \A k \in 1 .. m, v \in V : step[<<k, v>>] = Accumulate(v, Digit(s[k]))
    OBVIOUS
  <2>3. step \in [(1 .. m) \X V -> V]
    BY <1>3, <2>1
  <2>. QED  BY <2>2, <2>3
<1>. HIDE DEF step
<1>5. PICK g : Computes(V, 0, m, step, g)
  <2>. HIDE DEF V, m
  <2>. QED  BY <1>1, <1>4, Steps, Zenon
<1>6. Accumulating(s, g)
  <2>. DEFINE r == [i \in 0 .. m |-> IF i = 0 THEN 0 ELSE Accumulate(g[i - 1], Digit(s[i]))]
  <2>1. ASSUME NEW k \in 0 .. m PROVE g[k] = r[k]
    <3>1. CASE k = 0
      BY <1>5, <3>1 DEF Computes
    <3>2. CASE k # 0
      <4>1. k \in 1 .. m /\ k - 1 \in 0 .. m
        BY <3>2
      <4>2. g[k - 1] \in V /\ g[k] = step[<<k, g[k - 1]>>]
        BY <1>5, <4>1 DEF Computes
      <4>3. g[k] = Accumulate(g[k - 1], Digit(s[k]))
        BY <1>4, <4>1, <4>2
      <4>. QED  BY <3>2, <4>3
    <3>. QED  BY <3>1, <3>2
  <2>2. g = r
    BY <1>5, <2>1 DEF Computes
  <2>. QED  BY <2>2 DEF Accumulating
<1>7. Accumulating(s, f)
  BY <1>6
<1>. HIDE DEF f
<1>. DEFINE o == IntStart(b) - 1
<1>8. o \in {0, 1} /\ o \in Nat /\ m + o = Len(b) /\ Decimal(b, 1, o) = 0
  <2>1. /\ IntStart(b) \in {1, 2} /\ Len(b) \in Nat /\ m = (Len(b) + 1) - IntStart(b)
    BY AtIs, StartIs, BodyIs
  <2>2. Decimal(b, 1, o) = 0
    BY NothingYet
  <2>. QED  BY <1>1, <2>1, <2>2
<1>9. \A k \in 1 .. m : s[k] = b[k + o]
  <2>1. \A k \in 1 .. m : s[k] = b[(k + IntStart(b)) - 1]
    BY BodyIs
  <2>2. IntStart(b) \in Int
    BY StartIs
  <2>. QED  BY <1>1, <2>1, <2>2
<1>. HIDE DEF o
<1>. DEFINE S == {k \in Nat : k <= m => f[k] = Clip(Decimal(b, 1, k + o))}
<1>10. 0 \in S
  <2>1. f[0] = 0
    BY <1>1, <1>7 DEF Accumulating
  <2>2. Clip(0) = 0
    BY <1>2 DEF Clip
  <2>. QED  BY <1>8, <2>1, <2>2
<1>11. ASSUME NEW k \in Nat, k \in S PROVE k + 1 \in S
  <2>. SUFFICES ASSUME k + 1 <= m PROVE f[k + 1] = Clip(Decimal(b, 1, (k + 1) + o))
    OBVIOUS
  <2>1. f[k] = Clip(Decimal(b, 1, k + o))
    BY <1>1, <1>11
  <2>2. k + 1 \in 1 .. m /\ k + 1 \in 0 .. m /\ (k + 1) + o = (k + o) + 1 /\ k + o \in Nat
    BY <1>1, <1>8
  <2>3. s[k + 1] = b[(k + o) + 1]
    BY <1>9, <2>2
  <2>4. IsDigit(b[(k + o) + 1])
    BY <2>2, <2>3
  <2>5. Decimal(b, 1, (k + o) + 1) = Decimal(b, 1, k + o) * 10 + Digit(b[(k + o) + 1])
    BY <2>2, <2>4, DecimalNext
  <2>6. Digit(b[(k + o) + 1]) \in 0 .. 9 /\ Decimal(b, 1, k + o) \in Nat
    BY <2>2, <2>4, DigitIs, DecimalIs
  <2>7. f[k + 1] = Accumulate(f[k], Digit(s[k + 1]))
    <3>1. (k + 1) - 1 = k /\ k + 1 # 0
      OBVIOUS
    <3>. QED  BY <1>7, <2>2, <3>1 DEF Accumulating
  <2>. QED  BY <2>1, <2>2, <2>3, <2>5, <2>6, <2>7, AccumulateIs
<1>12. m \in S
  <2>. HIDE DEF S
  <2>. QED  BY <1>1, <1>10, <1>11, NatSets
<1>13. f[m] = Clip(Decimal(b, 1, m + o))
  BY <1>1, <1>12
<1>. QED  BY <1>8, <1>13 DEF f

LEMMA IntegerOf ==
    ASSUME NEW b \in Text
    PROVE  Integer(b) <=> /\ Len(b) >= 1 /\ IntStart(b) <= Len(b) /\ Run(b, IntStart(b), Len(b) + 1)
                          /\ At(b, IntStart(b)) = "0" => Len(b) = IntStart(b)
<1>1. Len(b) \in Nat /\ (b # <<>> <=> Len(b) >= 1)
  BY AtIs, StartIs
<1>2. CASE b = <<>>
  BY <1>1, <1>2 DEF Integer, Unsigned, AllDigits
<1>3. CASE b # <<>>
  <2>1. Len(b) \in 1 .. Len(b)
    BY <1>1, <1>3
  <2>2. SubSeq(b, 1, Len(b)) = b
    BY DEF Text
  <2>. QED  BY <1>1, <1>3, <2>1, <2>2, IntegerIs
<1>. QED  BY <1>2, <1>3

\* An integer is taken when a word holds it.
LEMMA ParseIntIs ==
    ASSUME NEW b \in Text, NEW p, p = ParseInt(b)
    PROVE  /\ p.ok <=> Integer(b) /\ Value(b) \in MinInt .. MaxInt
           /\ p.ok => p.val = Value(b)
<1>. DEFINE n   == Len(b)
            int == IntStart(b)
            s   == Body(b)
            m   == Len(s)
            u   == (CHOOSE f : Accumulating(s, f))[m]
            x   == Decimal(b, 1, n)
            v   == Value(b)
            digits == \A i \in DOMAIN s : IsDigit(s[i])
<1>1. p = IF s = <<>> THEN Bad
          ELSE IF s[1] = "0" THEN [ok |-> m = 1, val |-> 0]
          ELSE IF ~digits \/ u = Overflow THEN Bad
          ELSE IF At(b, 1) = "-" THEN [ok |-> u <= MaxInt + 1, val |-> -u]
          ELSE [ok |-> u <= MaxInt, val |-> u]
  BY DEF ParseInt, Body, Accumulating
<1>2. Integer(b) <=> /\ n >= 1 /\ int <= n /\ Run(b, int, n + 1)
                     /\ At(b, int) = "0" => n = int
  BY IntegerOf
<1>3. /\ n \in Nat /\ int \in {1, 2} /\ int <= n + 1 /\ (int = 2 <=> At(b, 1) = "-")
      /\ m = (n + 1) - int /\ m \in Nat /\ DOMAIN s = 1 .. m /\ (s = <<>> <=> m = 0)
      /\ \A k \in 1 .. m : s[k] = b[(k + int) - 1]
  BY AtIs, StartIs, BodyIs
<1>4. m # 0 => u = Clip(x) \/ ~digits
  <2>. SUFFICES ASSUME m # 0, digits PROVE u = Clip(x)
    OBVIOUS
  <2>1. (\A k \in 1 .. Len(s) : IsDigit(s[k])) /\ Len(s) \in Nat \ {0}
    BY <1>3
  <2>. HIDE DEF s
  <2>2. (CHOOSE f : Accumulating(s, f))[Len(s)] = Clip(Decimal(b, 1, Len(b)))
    BY <2>1, AccumulatedIs DEF s
  <2>. QED  BY <2>2
<1>5. n >= 1 => v = IF At(b, 1) = "-" THEN -x ELSE x
  <2>. SUFFICES ASSUME n >= 1 PROVE v = IF At(b, 1) = "-" THEN -x ELSE x
    OBVIOUS
  <2>1. 1 \in 1 .. Len(b)
    BY <1>3
  <2>2. At(b, 1) = b[1]
    BY <2>1, AtIs
  <2>3. x \in Nat
    BY <1>3, DecimalIs
  <2>. HIDE DEF x, n
  <2>4. v = (IF b[1] = "-" THEN -1 ELSE 1) * x
    BY DEF Value, x, n
  <2>. QED  BY <2>2, <2>3, <2>4
<1>6. x \in Nat /\ MaxInt \in Nat /\ MinInt = -(MaxInt + 1) /\ MaxUint = 2 * MaxInt + 1
  BY <1>3, DecimalIs, WordsAre
<1>7. \A k \in 1 .. m : (k + int) - 1 \in int .. n /\ At(b, (k + int) - 1) = s[k]
  <2>1. ASSUME NEW k \in 1 .. m PROVE (k + int) - 1 \in int .. n /\ At(b, (k + int) - 1) = s[k]
    <3>1. (k + int) - 1 \in int .. n /\ (k + int) - 1 \in 1 .. Len(b)
      BY <1>3
    <3>. QED  BY <1>3, <3>1, AtIs
  <2>. QED  BY <2>1
<1>8. digits <=> Run(b, int, n + 1)
  <2>. HIDE DEF s, m, n, int
  <2>1. ASSUME digits, NEW k \in int .. n PROVE IsDigit(At(b, k))
    <3>1. (k - int) + 1 \in 1 .. m /\ (((k - int) + 1) + int) - 1 = k
      BY <1>3
    <3>. QED  BY <1>3, <1>7, <2>1, <3>1
  <2>2. ASSUME Run(b, int, n + 1), NEW k \in 1 .. m PROVE IsDigit(s[k])
    <3>1. (n + 1) - 1 = n
      BY <1>3
    <3>. QED  BY <1>7, <2>2, <3>1 DEF Run
  <2>3. (n + 1) - 1 = n
    BY <1>3
  <2>. QED  BY <1>3, <2>1, <2>2, <2>3 DEF Run
<1>9. m # 0 => s[1] = At(b, int) /\ int <= n /\ n >= 1
  <2>1. (1 + int) - 1 = int
    BY <1>3
  <2>. QED  BY <1>3, <1>7, <2>1
<1>. HIDE DEF n, int, s, m, u, x, v
<1>10. CASE m = 0
  <2>1. ~p.ok
    BY <1>1, <1>3, <1>10 DEF Bad
  <2>2. ~(int <= n)
    BY <1>3, <1>10
  <2>. QED  BY <1>2, <2>1, <2>2
<1>11. CASE m # 0 /\ s[1] = "0"
  <2>1. p = [ok |-> m = 1, val |-> 0]
    BY <1>1, <1>3, <1>11
  <2>2. p.ok = (m = 1) /\ p.val = 0
    BY <2>1
  <2>3. m = 1 <=> n = int
    BY <1>3
  <2>4. n = int => Run(b, int, n + 1)
    <3>. SUFFICES ASSUME n = int PROVE Run(b, int, n + 1)
      OBVIOUS
    <3>1. \A k \in int .. ((n + 1) - 1) : k = int
      BY <1>3
    <3>. QED  BY <1>9, <1>11, <3>1, ZeroIs DEF Run
  <2>5. n = int => v = 0
    <3>. SUFFICES ASSUME n = int PROVE v = 0
      OBVIOUS
    <3>1. (\A k \in 1 .. m : IsDigit(s[k])) /\ Decimal(b, 1, n) = 0
      <4>1. \A k \in 1 .. m : IsDigit(s[k])
        BY <1>3, <1>8, <2>4 DEF digits
      <4>2. Decimal(b, 1, int - 1) = 0
        BY NothingYet DEF int
      <4>3. b[int] = "0"
        <5>1. int \in 1 .. Len(b)
          BY <1>3, <1>9, <1>11 DEF n
        <5>. QED  BY <1>9, <1>11, <5>1, AtIs
      <4>4. int - 1 \in Nat /\ (int - 1) + 1 = int
        BY <1>3
      <4>5. Decimal(b, 1, (int - 1) + 1) = Decimal(b, 1, int - 1) * 10 + Digit("0")
        <5>1. Decimal(b, 1, (int - 1) + 1) =
                IF IsDigit(b[(int - 1) + 1]) THEN Decimal(b, 1, int - 1) * 10 + Digit(b[(int - 1) + 1])
                ELSE Decimal(b, 1, int - 1)
          BY <4>4, DecimalNext
        <5>. QED  BY <4>3, <4>4, <5>1, ZeroIs
      <4>. QED  BY <4>1, <4>2, <4>4, <4>5, DigitZero
    <3>2. x = 0
      BY <3>1 DEF x
    <3>. QED  BY <1>5, <1>9, <1>11, <3>2
  <2>6. 0 \in MinInt .. MaxInt
    BY <1>6
  <2>. QED  BY <1>2, <1>9, <1>11, <2>2, <2>3, <2>4, <2>5, <2>6 DEF v
<1>12. CASE m # 0 /\ s[1] # "0"
  <2>1. Integer(b) <=> digits
    BY <1>2, <1>8, <1>9, <1>12
  <2>2. CASE ~digits
    <3>1. ~p.ok
      BY <1>1, <1>3, <1>12, <2>2 DEF Bad
    <3>. QED  BY <2>1, <2>2, <3>1
  <2>3. CASE digits
    <3>1. u = Clip(x) /\ v = IF At(b, 1) = "-" THEN -x ELSE x
      BY <1>4, <1>5, <1>9, <1>12, <2>3
    <3>2. s # <<>>
      BY <1>3, <1>12
    <3>3. p = IF u = Overflow THEN Bad
              ELSE IF At(b, 1) = "-" THEN [ok |-> u <= MaxInt + 1, val |-> -u]
              ELSE [ok |-> u <= MaxInt, val |-> u]
      BY <1>1, <1>12, <2>3, <3>2
    <3>4. CASE x > MaxUint
      <4>1. ~p.ok
        BY <3>1, <3>3, <3>4 DEF Clip, Bad
      <4>2. ~(v \in MinInt .. MaxInt)
        BY <1>6, <3>1, <3>4
      <4>. QED  BY <4>1, <4>2 DEF v
    <3>5. CASE ~(x > MaxUint) /\ At(b, 1) = "-"
      <4>1. u = x /\ u # Overflow /\ v = -x
        BY <1>6, <3>1, <3>5 DEF Clip, Overflow
      <4>2. p.ok = (x <= MaxInt + 1) /\ p.val = -x
        BY <3>3, <3>5, <4>1
      <4>3. v \in MinInt .. MaxInt <=> x <= MaxInt + 1
        BY <1>6, <4>1
      <4>. QED  BY <2>1, <2>3, <4>1, <4>2, <4>3 DEF v
    <3>6. CASE ~(x > MaxUint) /\ At(b, 1) # "-"
      <4>1. u = x /\ u # Overflow /\ v = x
        BY <1>6, <3>1, <3>6 DEF Clip, Overflow
      <4>2. p.ok = (x <= MaxInt) /\ p.val = x
        BY <3>3, <3>6, <4>1
      <4>3. v \in MinInt .. MaxInt <=> x <= MaxInt
        BY <1>6, <4>1
      <4>. QED  BY <2>1, <2>3, <4>1, <4>2, <4>3 DEF v
    <3>. QED  BY <3>4, <3>5, <3>6
  <2>. QED  BY <2>2, <2>3
<1>. QED  BY <1>10, <1>11, <1>12

-----------------------------------------------------------------------------
(* Integers stored.                                                        *)

LEMMA Wrapped ==
    ASSUME NEW s \in Nat \ {0}, NEW v \in Int, -s <= v, v < s
    PROVE  v % s = IF v < 0 THEN v + s ELSE v
  OBVIOUS

\* Every width is within a word.
LEMMA RangeIs ==
    ASSUME NEW bits \in 1 .. WordBits, NEW unsigned \in BOOLEAN,
           NEW low, low = IF unsigned THEN 0 ELSE -Pow2(bits - 1),
           NEW high, high = IF unsigned /\ bits < WordBits THEN Pow2(bits) - 1
                            ELSE IF bits < WordBits THEN Pow2(bits - 1) - 1 ELSE MaxInt
    PROVE  MinInt \in Int /\ MaxInt \in Int /\ low \in Int /\ high \in Int /\ MinInt <= low /\ high <= MaxInt
<1>. DEFINE half == Pow2(bits - 1)
            all  == Pow2(bits)
            max  == MaxInt
<1>1. WordBits \in Nat \ {0} /\ bits - 1 \in Nat /\ (bits - 1) + 1 = bits /\ bits \in Nat /\ WordBits - 1 \in Nat
  BY ScalarsAssumption
<1>2. half \in Nat \ {0} /\ all = 2 * half
  <2>1. Pow2((bits - 1) + 1) = 2 * Pow2(bits - 1)
    BY <1>1, Pow2Step
  <2>. QED  BY <1>1, <2>1, Pow2Is
<1>3. max \in Nat /\ MinInt = -(max + 1)
  BY WordsAre
<1>4. half <= max + 1
  <2>1. bits - 1 <= WordBits - 1
    BY <1>1
  <2>. QED  BY <1>1, <2>1, Pow2Rises, WordsAre
<1>5. bits < WordBits => all <= max + 1
  <2>. SUFFICES ASSUME bits < WordBits PROVE all <= max + 1
    OBVIOUS
  <2>1. bits <= WordBits - 1
    BY <1>1
  <2>. QED  BY <1>1, <2>1, Pow2Rises, WordsAre
<1>6. low = (IF unsigned THEN 0 ELSE -half) /\
      high = (IF unsigned /\ bits < WordBits THEN all - 1 ELSE IF bits < WordBits THEN half - 1 ELSE max)
  OBVIOUS
<1>. HIDE DEF half, all, max
<1>7. low \in Int /\ MinInt <= low
  BY <1>2, <1>3, <1>4, <1>6
<1>8. high \in Int /\ high <= max
  <2>1. CASE bits < WordBits
    BY <1>2, <1>3, <1>4, <1>5, <1>6, <2>1
  <2>2. CASE ~(bits < WordBits)
    BY <1>3, <1>6, <2>2
  <2>. QED  BY <2>1, <2>2
<1>. QED  BY <1>3, <1>7, <1>8 DEF max

\* What the width of a field holds comes back as it was stored.
LEMMA WidthIs ==
    ASSUME NEW v \in MinInt .. MaxInt, NEW bits \in 1 .. WordBits, NEW unsigned \in BOOLEAN,
           NEW low, low = IF unsigned THEN 0 ELSE -Pow2(bits - 1),
           NEW high, high = IF unsigned /\ bits < WordBits THEN Pow2(bits) - 1
                            ELSE IF bits < WordBits THEN Pow2(bits - 1) - 1 ELSE MaxInt
    PROVE  /\ FitsWidth(v, bits, unsigned) <=> v \in low .. high
           /\ FitsWidth(v, bits, unsigned) => Loaded(Stored(v, bits), bits, unsigned) = v
<1>. DEFINE half == Pow2(bits - 1)
            all  == Pow2(bits)
            max  == MaxInt
<1>1. WordBits \in Nat \ {0} /\ bits - 1 \in Nat /\ (bits - 1) + 1 = bits /\ bits \in Nat /\ WordBits - 1 \in Nat
  BY ScalarsAssumption
<1>2. half \in Nat \ {0} /\ all = 2 * half
  <2>1. Pow2((bits - 1) + 1) = 2 * Pow2(bits - 1)
    BY <1>1, Pow2Step
  <2>. QED  BY <1>1, <2>1, Pow2Is
<1>3. max \in Nat /\ v \in Int /\ -(max + 1) <= v /\ v <= max
  BY WordsAre
<1>4. bits < WordBits => all <= max + 1
  <2>. SUFFICES ASSUME bits < WordBits PROVE all <= max + 1
    OBVIOUS
  <2>1. bits <= WordBits - 1
    BY <1>1
  <2>. QED  BY <1>1, <2>1, Pow2Rises, WordsAre
<1>5. ~(bits < WordBits) => half = max + 1
  <2>1. ~(bits < WordBits) => bits = WordBits
    BY <1>1
  <2>. QED  BY <2>1, WordsAre
<1>6. FitsWidth(v, bits, unsigned) <=>
        IF unsigned THEN v >= 0 /\ (bits < WordBits => v < all)
        ELSE bits < WordBits => v >= -half /\ v < half
  BY DEF FitsWidth
<1>7. Loaded(Stored(v, bits), bits, unsigned) =
        IF unsigned \/ v % all < half THEN v % all ELSE (v % all) - all
  BY DEF Loaded, Stored
<1>8. low = (IF unsigned THEN 0 ELSE -half) /\
      high = (IF unsigned /\ bits < WordBits THEN all - 1 ELSE IF bits < WordBits THEN half - 1 ELSE max)
  OBVIOUS
<1>. HIDE DEF half, all, max
<1>9. low \in Int /\ high \in Int /\ (v \in low .. high <=> low <= v /\ v <= high)
  BY <1>2, <1>3, <1>8
<1>10. FitsWidth(v, bits, unsigned) <=> low <= v /\ v <= high
  <2>1. CASE unsigned /\ bits < WordBits
    <3>1. low = 0 /\ high = all - 1
      BY <1>8, <2>1
    <3>2. FitsWidth(v, bits, unsigned) <=> v >= 0 /\ v < all
      BY <1>6, <2>1
    <3>. QED  BY <1>2, <1>3, <3>1, <3>2
  <2>2. CASE unsigned /\ ~(bits < WordBits)
    BY <1>3, <1>6, <1>8, <2>2
  <2>3. CASE ~unsigned /\ bits < WordBits
    BY <1>2, <1>3, <1>6, <1>8, <2>3
  <2>4. CASE ~unsigned /\ ~(bits < WordBits)
    BY <1>2, <1>3, <1>5, <1>6, <1>8, <2>4
  <2>. QED  BY <2>1, <2>2, <2>3, <2>4
<1>11. ASSUME FitsWidth(v, bits, unsigned) PROVE Loaded(Stored(v, bits), bits, unsigned) = v
  <2>1. CASE unsigned
    <3>1. v >= 0 /\ v < all
      BY <1>2, <1>3, <1>5, <1>6, <1>11, <2>1
    <3>2. v % all = v
      BY <1>2, <1>3, <3>1
    <3>. QED  BY <1>7, <2>1, <3>2
  <2>2. CASE ~unsigned
    <3>1. -half <= v /\ v < half
      BY <1>2, <1>3, <1>5, <1>6, <1>11, <2>2
    <3>2. all \in Nat \ {0} /\ -all <= v /\ v < all
      BY <1>2, <1>3, <3>1
    <3>3. v % all = IF v < 0 THEN v + all ELSE v
      BY <1>3, <3>2, Wrapped
    <3>. DEFINE r == v % all
    <3>4. r = IF v < 0 THEN v + all ELSE v
      BY <3>3
    <3>5. Loaded(Stored(v, bits), bits, unsigned) = IF r < half THEN r ELSE r - all
      BY <1>7, <2>2
    <3>. HIDE DEF r
    <3>. QED  BY <1>2, <1>3, <3>1, <3>4, <3>5
  <2>. QED  BY <2>1, <2>2
<1>. QED  BY <1>9, <1>10, <1>11

-----------------------------------------------------------------------------
(* Integers printed.                                                       *)

\* The digits s write the number k.
Written(s, k) ==
    /\ s \in Text /\ Len(s) >= 1 /\ Run(s, 1, Len(s) + 1)
    /\ At(s, 1) = "0" => k = 0 /\ Len(s) = 1
    /\ Decimal(s, 1, Len(s)) = k

LEMMA OneDigit ==
    ASSUME NEW d \in 0 .. 9
    PROVE  Written(<<Char(d)>>, d)
<1>. DEFINE c == Char(d)
            s == <<c>>
<1>1. IsDigit(c) /\ Digit(c) = d /\ c \in Character /\ (c = "0" <=> d = 0)
  BY CharIs
<1>. HIDE DEF c
<1>2. s \in Text /\ Len(s) = 1 /\ s[1] = c
  BY <1>1 DEF Text
<1>. HIDE DEF s
<1>3. At(s, 1) = c
  <2>1. 1 \in 1 .. Len(s)
    BY <1>2
  <2>. QED  BY <1>2, <2>1, AtIs
<1>4. Run(s, 1, 1 + 1)
  <2>1. \A k \in 1 .. ((1 + 1) - 1) : k = 1
    OBVIOUS
  <2>. QED  BY <1>1, <1>3, <2>1 DEF Run
<1>5. Decimal(s, 1, 1) = d
  <2>1. Decimal(s, 1, 1) = IF IsDigit(s[1]) THEN Digit(s[1]) ELSE 0
    BY DecimalFirst
  <2>. QED  BY <1>1, <1>2, <2>1
<1>6. Written(s, d)
  BY <1>1, <1>2, <1>3, <1>4, <1>5 DEF Written
<1>. QED  BY <1>6 DEF s, c

LEMMA MoreDigits ==
    ASSUME NEW s, NEW k \in Nat \ {0}, Written(s, k), NEW d \in 0 .. 9
    PROVE  Written(Append(s, Char(d)), k * 10 + d)
<1>. DEFINE c == Char(d)
            t == Append(s, c)
            n == Len(s)
<1>1. IsDigit(c) /\ Digit(c) = d /\ c \in Character
  BY CharIs
<1>2. s \in Text /\ n >= 1 /\ Run(s, 1, n + 1) /\ At(s, 1) # "0" /\ Decimal(s, 1, n) = k /\ n \in Nat
  BY AtIs DEF Written
<1>. HIDE DEF c
<1>3. t \in Text
  BY <1>1, <1>2 DEF Text
<1>4. Len(t) = n + 1 /\ t[n + 1] = c /\ \A i \in 1 .. n : t[i] = s[i]
  BY <1>1, <1>2 DEF Text
<1>5. (\A i \in 1 .. (n + 1) : At(t, i) = t[i]) /\ (\A i \in 1 .. n : At(s, i) = s[i])
  BY <1>2, <1>3, <1>4, AtIs
<1>. HIDE DEF t, n
<1>6. Run(t, 1, (n + 1) + 1)
  <2>1. ASSUME NEW i \in 1 .. (((n + 1) + 1) - 1) PROVE IsDigit(At(t, i))
    <3>1. CASE i = n + 1
      <4>1. n + 1 \in 1 .. (n + 1)
        BY <1>2
      <4>. QED  BY <1>1, <1>4, <1>5, <3>1, <4>1
    <3>2. CASE i # n + 1
      <4>1. i \in 1 .. n /\ i \in 1 .. (n + 1) /\ i \in 1 .. ((n + 1) - 1)
        BY <1>2, <3>2
      <4>2. IsDigit(At(s, i))
        BY <1>2, <4>1 DEF Run
      <4>. QED  BY <1>4, <1>5, <4>1, <4>2
    <3>. QED  BY <3>1, <3>2
  <2>. QED  BY <2>1 DEF Run
<1>7. At(t, 1) # "0"
  <2>1. 1 \in 1 .. n /\ 1 \in 1 .. (n + 1)
    BY <1>2
  <2>. QED  BY <1>2, <1>4, <1>5, <2>1
<1>8. Decimal(t, 1, n) = k
  <2>1. Decimal(t, 1, 0) = 0 /\ 0 \in Nat /\ n + 0 = n
    BY <1>2, DecimalFirst
  <2>2. \A i \in 1 .. n : t[i + 0] = s[i]
    <3>1. \A i \in 1 .. n : i + 0 = i
      BY <1>2
    <3>. QED  BY <1>4, <3>1
  <2>3. Decimal(t, 1, n + 0) = Decimal(s, 1, n)
    BY <1>2, <2>1, <2>2, DecimalShift
  <2>. QED  BY <1>2, <2>1, <2>3
<1>9. Decimal(t, 1, n + 1) = k * 10 + d
  <2>1. Decimal(t, 1, n + 1) =
          IF IsDigit(t[n + 1]) THEN Decimal(t, 1, n) * 10 + Digit(t[n + 1]) ELSE Decimal(t, 1, n)
    BY <1>2, DecimalNext
  <2>. QED  BY <1>1, <1>4, <1>8, <2>1
<1>10. n + 1 >= 1
  BY <1>2
<1>11. Written(t, k * 10 + d)
  BY <1>3, <1>4, <1>6, <1>7, <1>9, <1>10 DEF Written
<1>. QED  BY <1>11 DEF t, c

Digitizing(n, f) ==
    f = [k \in 0 .. n |-> IF k < 10 THEN <<Char(k)>> ELSE Append(f[k \div 10], Char(k % 10))]

LEMMA DigitizingFor ==
    ASSUME NEW n \in Nat
    PROVE  \E f : Digitizing(n, f) /\ DecimalsOf(n) = f[n]
<1>. DEFINE S == {m \in Nat : \E f : Digitizing(m, f)}
<1>1. 0 \in S
  <2>. DEFINE f == [k \in 0 .. 0 |-> <<Char(k)>>]
  <2>1. \A k \in 0 .. 0 : k < 10
    OBVIOUS
  <2>2. Digitizing(0, f)
    BY <2>1 DEF Digitizing
  <2>. QED  BY <2>2
<1>2. ASSUME NEW m \in Nat, m \in S PROVE m + 1 \in S
  <2>1. PICK f : Digitizing(m, f)
    BY <1>2
  <2>. DEFINE next(k, h) == IF k < 10 THEN <<Char(k)>> ELSE Append(h[k \div 10], Char(k % 10))
              v == next(m + 1, f)
              g == [k \in 0 .. (m + 1) |-> IF k = m + 1 THEN v ELSE f[k]]
              r == [k \in 0 .. (m + 1) |-> next(k, g)]
  <2>2. \A k \in 0 .. m : f[k] = next(k, f)
    BY <2>1 DEF Digitizing
  <2>. HIDE DEF v
  <2>3. g[m + 1] = v /\ \A k \in 0 .. m : g[k] = f[k]
    OBVIOUS
  <2>4. ASSUME NEW k \in 0 .. (m + 1) PROVE g[k] = next(k, g)
    <3>. HIDE DEF g
    <3>1. k >= 10 => k \div 10 \in 0 .. m
      OBVIOUS
    <3>2. k >= 10 => g[k \div 10] = f[k \div 10]
      BY <2>3, <3>1
    <3>3. k < 10 <=> ~(k >= 10)
      OBVIOUS
    <3>4. next(k, g) = next(k, f)
      BY <3>2, <3>3
    <3>. HIDE DEF next
    <3>5. CASE k = m + 1
      BY <2>3, <3>4, <3>5 DEF v
    <3>6. CASE k # m + 1
      <4>1. k \in 0 .. m
        BY <3>6
      <4>. QED  BY <2>2, <2>3, <3>4, <4>1
    <3>. QED  BY <3>5, <3>6
  <2>5. g = r
    BY <2>4
  <2>6. Digitizing(m + 1, g)
    BY <2>5 DEF Digitizing
  <2>. QED  BY <2>6
<1>3. n \in S
  <2>. HIDE DEF S
  <2>. QED  BY <1>1, <1>2, NatSets
<1>. DEFINE d == CHOOSE f : Digitizing(n, f)
<1>4. Digitizing(n, d)
  BY <1>3
<1>5. DecimalsOf(n) = d[n]
  BY DEF DecimalsOf, Digitizing
<1>. QED  BY <1>4, <1>5

LEMMA DecimalsIs ==
    ASSUME NEW n \in Nat
    PROVE  Written(DecimalsOf(n), n)
<1>1. PICK f : Digitizing(n, f) /\ DecimalsOf(n) = f[n]
  BY DigitizingFor
<1>2. ASSUME NEW k \in 0 .. n PROVE f[k] = IF k < 10 THEN <<Char(k)>> ELSE Append(f[k \div 10], Char(k % 10))
  BY <1>1 DEF Digitizing
<1>. DEFINE S == {m \in Nat : \A k \in 0 .. m : k <= n => Written(f[k], k)}
<1>3. ASSUME NEW m \in Nat, m <= n, \A k \in 0 .. (m - 1) : Written(f[k], k) PROVE Written(f[m], m)
  <2>1. CASE m < 10
    <3>1. m \in 0 .. 9 /\ m \in 0 .. n
      BY <1>3, <2>1
    <3>2. f[m] = <<Char(m)>>
      BY <1>2, <2>1, <3>1
    <3>. QED  BY <3>1, <3>2, OneDigit
  <2>2. CASE ~(m < 10)
    <3>. DEFINE q == m \div 10
                d == m % 10
    <3>1. m \in 0 .. n /\ q \in 0 .. (m - 1) /\ q \in Nat \ {0} /\ d \in 0 .. 9
      BY <1>3, <2>2
    <3>2. m = 10 * q + d
      OBVIOUS
    <3>3. f[m] = Append(f[q], Char(d))
      BY <1>2, <2>2, <3>1
    <3>. HIDE DEF q, d
    <3>4. Written(f[q], q)
      BY <1>3, <3>1
    <3>5. Written(Append(f[q], Char(d)), q * 10 + d)
      BY <3>1, <3>4, MoreDigits
    <3>6. q * 10 + d = m
      BY <3>1, <3>2
    <3>. QED  BY <3>3, <3>5, <3>6
  <2>. QED  BY <2>1, <2>2
<1>4. 0 \in S
  <2>1. 0 \in Nat /\ 0 <= n /\ \A k : ~(k \in 0 .. (0 - 1))
    OBVIOUS
  <2>2. Written(f[0], 0)
    BY <1>3, <2>1
  <2>3. \A k \in 0 .. 0 : k = 0
    OBVIOUS
  <2>. QED  BY <2>1, <2>2, <2>3
<1>5. ASSUME NEW m \in Nat, m \in S PROVE m + 1 \in S
  <2>1. ASSUME NEW k \in 0 .. (m + 1), k <= n PROVE Written(f[k], k)
    <3>1. CASE k = m + 1
      <4>1. m + 1 \in Nat /\ m + 1 <= n /\ \A i \in 0 .. ((m + 1) - 1) : i \in 0 .. m /\ i <= n
        BY <2>1, <3>1
      <4>2. \A i \in 0 .. ((m + 1) - 1) : Written(f[i], i)
        BY <1>5, <4>1
      <4>. QED  BY <1>3, <3>1, <4>1, <4>2
    <3>2. CASE k # m + 1
      <4>1. k \in 0 .. m
        BY <3>2
      <4>. QED  BY <1>5, <2>1, <4>1
    <3>. QED  BY <3>1, <3>2
  <2>. QED  BY <2>1
<1>6. n \in S
  <2>. HIDE DEF S
  <2>. QED  BY <1>4, <1>5, NatSets
<1>7. n \in 0 .. n /\ n <= n
  OBVIOUS
<1>. QED  BY <1>1, <1>6, <1>7

LEMMA WrittenIs ==
    ASSUME NEW s, NEW k \in Nat, Written(s, k)
    PROVE  s \in Text /\ Integer(s) /\ Value(s) = k
<1>1. /\ s \in Text /\ Len(s) >= 1 /\ Run(s, 1, Len(s) + 1) /\ Len(s) \in Nat
      /\ At(s, 1) = "0" => Len(s) = 1
      /\ Decimal(s, 1, Len(s)) = k
  BY AtIs DEF Written
<1>2. At(s, 1) # "-"
  <2>1. 1 \in 1 .. ((Len(s) + 1) - 1)
    BY <1>1
  <2>2. IsDigit(At(s, 1))
    BY <1>1, <2>1 DEF Run
  <2>. QED  BY <2>2, DigitIsNo
<1>3. IntStart(s) = 1
  BY <1>1, <1>2, StartIs
<1>4. Integer(s)
  BY <1>1, <1>3, IntegerOf
<1>5. At(s, 1) = s[1]
  <2>1. 1 \in 1 .. Len(s)
    BY <1>1
  <2>. QED  BY <1>1, <2>1, AtIs
<1>6. Value(s) = 1 * k
  BY <1>1, <1>2, <1>5 DEF Value
<1>. QED  BY <1>1, <1>4, <1>6

LEMMA SignedIs ==
    ASSUME NEW s, NEW k \in Nat, Written(s, k), NEW t, t = <<"-">> \o s
    PROVE  t \in Text /\ Integer(t) /\ Value(t) = -k
<1>. DEFINE n == Len(s)
            z == "-"
<1>1. /\ s \in Text /\ n >= 1 /\ Run(s, 1, n + 1) /\ n \in Nat
      /\ At(s, 1) = "0" => n = 1
      /\ Decimal(s, 1, n) = k
  BY AtIs DEF Written
<1>2. z \in Character
  BY DEF Character
<1>. HIDE DEF z
<1>3. t = <<z>> \o s
  BY DEF z
<1>4. <<z>> \in Text
  BY <1>2 DEF Text
<1>5. t \in Text
  BY <1>1, <1>3, <1>4 DEF Text
<1>6. Len(t) = n + 1 /\ t[1] = z /\ \A i \in 1 .. n : t[i + 1] = s[i]
  BY <1>1, <1>2, <1>3 DEF Text
<1>7. (\A i \in 1 .. (n + 1) : At(t, i) = t[i]) /\ (\A i \in 1 .. n : At(s, i) = s[i])
  BY <1>1, <1>5, <1>6, AtIs
<1>8. 1 \in 1 .. (n + 1) /\ 1 \in 1 .. n
  BY <1>1
<1>9. At(t, 1) = "-" /\ t[1] = "-"
  BY <1>6, <1>7, <1>8 DEF z
<1>. HIDE DEF n
<1>10. IntStart(t) = 2 /\ At(t, 2) = At(s, 1)
  <2>1. 2 = 1 + 1 /\ 2 \in 1 .. (n + 1)
    BY <1>1
  <2>2. t[2] = s[1]
    BY <1>6, <1>8, <2>1
  <2>. QED  BY <1>5, <1>7, <1>8, <1>9, <2>1, <2>2, StartIs
<1>11. Run(t, 2, (n + 1) + 1)
  <2>1. ASSUME NEW i \in 2 .. (((n + 1) + 1) - 1) PROVE IsDigit(At(t, i))
    <3>1. i - 1 \in 1 .. n /\ i - 1 \in 1 .. ((n + 1) - 1) /\ (i - 1) + 1 = i /\ i \in 1 .. (n + 1)
      BY <1>1
    <3>2. IsDigit(At(s, i - 1))
      BY <1>1, <3>1 DEF Run
    <3>3. t[(i - 1) + 1] = s[i - 1]
      BY <1>6, <3>1
    <3>. QED  BY <1>7, <3>1, <3>2, <3>3
  <2>. QED  BY <2>1 DEF Run
<1>12. Integer(t)
  <2>1. n + 1 >= 1 /\ 2 <= n + 1 /\ (n = 1 => n + 1 = 2)
    BY <1>1
  <2>. QED  BY <1>1, <1>5, <1>6, <1>10, <1>11, <2>1, IntegerOf
<1>13. Decimal(t, 1, n + 1) = k
  <2>1. ~IsDigit(t[1])
    BY <1>9, DigitIsNo
  <2>2. Decimal(t, 1, 1) = IF IsDigit(t[1]) THEN Digit(t[1]) ELSE 0
    BY DecimalFirst
  <2>. DEFINE o == 1
  <2>3. o \in Nat /\ Decimal(t, 1, o) = 0 /\ (\A i \in 1 .. n : t[i + o] = s[i]) /\ n + o = n + 1
    BY <1>6, <2>1, <2>2
  <2>. HIDE DEF o
  <2>4. Decimal(t, 1, n + o) = Decimal(s, 1, n)
    <3>1. n \in Nat
      BY <1>1
    <3>2. o \in Nat /\ Decimal(t, 1, o) = 0 /\ \A i \in 1 .. n : t[i + o] = s[i]
      BY <2>3
    <3>. QED  BY <3>1, <3>2, DecimalShift
  <2>. QED  BY <1>1, <2>3, <2>4
<1>14. Value(t) = -1 * k
  BY <1>6, <1>9, <1>13 DEF Value
<1>15. -1 * k = -k
  OBVIOUS
<1>. QED  BY <1>5, <1>12, <1>14, <1>15

\* What is printed is read again as what it was, the most negative word apart.
LEMMA PrintIs ==
    ASSUME NEW v \in MinInt .. MaxInt, NEW kernel, NEW again, again = ParseInt(PrintInt(v, kernel))
    PROVE  again.ok /\ (again.val = v \/ (kernel = "scalar" /\ v = MinInt))
<1>1. MaxInt \in Nat /\ MinInt = -(MaxInt + 1) /\ v \in Int
  BY WordsAre
<1>2. CASE v >= 0
  <2>1. PrintInt(v, kernel) = DecimalsOf(v) /\ v \in Nat
    BY <1>1, <1>2 DEF PrintInt
  <2>2. Written(DecimalsOf(v), v)
    BY <2>1, DecimalsIs
  <2>. DEFINE s == DecimalsOf(v)
  <2>. HIDE DEF s
  <2>3. s \in Text /\ Integer(s) /\ Value(s) = v
    BY <2>1, <2>2, WrittenIs DEF s
  <2>. QED  BY <2>1, <2>3, ParseIntIs DEF s
<1>3. CASE ~(v >= 0) /\ kernel = "scalar" /\ v = MinInt
  <2>1. PrintInt(v, kernel) = <<"-">> \o <<"0">>
    BY <1>3 DEF PrintInt
  <2>2. Written(<<"0">>, 0)
    <3>1. 0 \in 0 .. 9
      OBVIOUS
    <3>2. Char(0) = "0"
      BY <3>1, CharIs
    <3>. QED  BY <3>1, <3>2, OneDigit
  <2>. DEFINE s == <<"-">> \o <<"0">>
  <2>3. s \in Text /\ Integer(s) /\ Value(s) = -0
    BY <2>2, SignedIs
  <2>4. -0 \in MinInt .. MaxInt
    BY <1>1
  <2>. HIDE DEF s
  <2>. QED  BY <1>3, <2>1, <2>3, <2>4, ParseIntIs DEF s
<1>4. CASE ~(v >= 0) /\ ~(kernel = "scalar" /\ v = MinInt)
  <2>1. -v \in Nat /\ -(-v) = v
    BY <1>1, <1>4
  <2>2. PrintInt(v, kernel) = <<"-">> \o DecimalsOf(-v)
    BY <1>4 DEF PrintInt
  <2>3. Written(DecimalsOf(-v), -v)
    BY <2>1, DecimalsIs
  <2>. DEFINE s == <<"-">> \o DecimalsOf(-v)
  <2>4. s \in Text /\ Integer(s) /\ Value(s) = -(-v)
    <3>. DEFINE w == -v
    <3>. HIDE DEF w
    <3>1. w \in Nat /\ Written(DecimalsOf(w), w)
      BY <2>1, <2>3 DEF w
    <3>2. <<"-">> \o DecimalsOf(w) \in Text /\ Integer(<<"-">> \o DecimalsOf(w)) /\ Value(<<"-">> \o DecimalsOf(w)) = -w
      BY <3>1, SignedIs
    <3>. QED  BY <3>2 DEF w
  <2>. HIDE DEF s
  <2>5. ParseInt(s).ok /\ ParseInt(s).val = v
    BY <2>1, <2>4, ParseIntIs
  <2>. QED  BY <2>2, <2>5 DEF s
<1>. QED  BY <1>2, <1>3, <1>4

LEMMA IntIs ==
    ASSUME NEW t \in Type, NEW b \in Text, NEW out, out = ReadInt(t, b),
           NEW low, low = IF t.unsigned THEN 0 ELSE -Pow2(t.bits - 1),
           NEW high, high = IF t.unsigned /\ t.bits < WordBits THEN Pow2(t.bits) - 1
                            ELSE IF t.bits < WordBits THEN Pow2(t.bits - 1) - 1 ELSE MaxInt
    PROVE  /\ out.ok <=> Integer(b) /\ Value(b) \in low .. high
           /\ out.ok => out.val = Value(b) /\ Value(b) \in MinInt .. MaxInt
<1>. DEFINE p == ParseInt(b)
            v == Value(b)
<1>1. (p.ok <=> Integer(b) /\ v \in MinInt .. MaxInt) /\ (p.ok => p.val = v)
  BY ParseIntIs
<1>2. out = IF p.ok /\ FitsWidth(p.val, t.bits, t.unsigned)
            THEN [ok |-> TRUE, val |-> Loaded(Stored(p.val, t.bits), t.bits, t.unsigned)] ELSE Bad
  BY DEF ReadInt
<1>3. t.bits \in 1 .. WordBits /\ t.unsigned \in BOOLEAN
  BY DEF Type
<1>. HIDE DEF p, v
<1>4. v \in MinInt .. MaxInt =>
        /\ FitsWidth(v, t.bits, t.unsigned) <=> v \in low .. high
        /\ FitsWidth(v, t.bits, t.unsigned) => Loaded(Stored(v, t.bits), t.bits, t.unsigned) = v
  BY <1>3, WidthIs
<1>5. Integer(b) => v \in Int
  <2>. SUFFICES ASSUME Integer(b) PROVE v \in Int
    OBVIOUS
  <2>1. Decimal(b, 1, Len(b)) \in Nat
    BY AtIs, DecimalIs
  <2>2. v = (IF b[1] = "-" THEN -1 ELSE 1) * Decimal(b, 1, Len(b))
    BY DEF v, Value
  <2>. QED  BY <2>1, <2>2
<1>6. v \in low .. high /\ v \in Int => v \in MinInt .. MaxInt
  <2>. SUFFICES ASSUME v \in low .. high, v \in Int PROVE v \in MinInt .. MaxInt
    OBVIOUS
  <2>1. MinInt \in Int /\ MaxInt \in Int /\ low \in Int /\ high \in Int /\ MinInt <= low /\ high <= MaxInt
    BY <1>3, RangeIs
  <2>. QED  BY <2>1
<1>7. CASE p.ok /\ FitsWidth(v, t.bits, t.unsigned)
  <2>1. out = [ok |-> TRUE, val |-> Loaded(Stored(v, t.bits), t.bits, t.unsigned)]
    BY <1>1, <1>2, <1>7
  <2>2. out.ok /\ out.val = Loaded(Stored(v, t.bits), t.bits, t.unsigned)
    BY <2>1
  <2>. QED  BY <1>1, <1>4, <1>7, <2>2 DEF v
<1>8. CASE ~(p.ok /\ FitsWidth(v, t.bits, t.unsigned))
  <2>1. out = Bad
    BY <1>1, <1>2, <1>8
  <2>2. ~out.ok
    BY <2>1 DEF Bad
  <2>. QED  BY <1>1, <1>4, <1>5, <1>6, <1>8, <2>2 DEF v
<1>. QED  BY <1>7, <1>8

-----------------------------------------------------------------------------
(* Strings: how one is read.                                               *)

LEMMA CharactersAre ==
    /\ "quote" \in Character /\ "back" \in Character /\ "u" \in Character /\ "n" \in Character
    /\ "nl" \in Character /\ "bell" \in Character /\ "replacement" \in Character /\ "pair" \in Character
    /\ Codes \subseteq Character
BY DEF Character

Joined(c, rest) == IF rest.ok THEN [rest EXCEPT !.val = <<c>> \o @] ELSE NoString

\* What is read from i on when f says what is read from further on.
Piece(src, i, f) ==
    LET Then(c, n) ==
          LET rest == f[i + n]
          IN  IF rest.ok THEN [rest EXCEPT !.val = <<c>> \o @] ELSE NoString
    IN  IF i > Len(src) THEN NoString ELSE
        CASE src[i] = "quote" -> [ok |-> TRUE, val |-> <<>>, used |-> i]
          [] src[i] = "back"  ->
               CASE At(src, i + 1) \in DOMAIN Unescaped -> Then(Unescaped[src[i + 1]], 2)
                 [] At(src, i + 1) = "u" /\ At(src, i + 2) \in Codes ->
                      IF src[i + 2] = "high" /\ Paired(src, i + 2) THEN Then("pair", 6)
                      ELSE Then(Decoded(src[i + 2]), 3)
                 [] OTHER -> NoString
          [] OTHER -> Then(src[i], 1)

Simple == {"quote", "back", "n"}

\* The code at i makes c of the n characters there.
Reads(src, i, n, c) ==
    \/ n = 1 /\ src[i] \notin {"quote", "back"} /\ c = src[i]
    \/ n = 2 /\ src[i] = "back" /\ At(src, i + 1) \in Simple /\ c = Unescaped[src[i + 1]]
    \/ /\ n = 3 /\ src[i] = "back" /\ At(src, i + 1) = "u" /\ At(src, i + 2) \in Codes
       /\ ~(src[i + 2] = "high" /\ Paired(src, i + 2)) /\ c = Decoded(src[i + 2])
    \/ /\ n = 6 /\ src[i] = "back" /\ At(src, i + 1) = "u" /\ At(src, i + 2) = "high"
       /\ Paired(src, i + 2) /\ c = "pair"

\* No escape stands at i.
Refused(src, i) ==
    /\ src[i] = "back" /\ At(src, i + 1) \notin Simple
    /\ ~(At(src, i + 1) = "u" /\ At(src, i + 2) \in Codes)

LEMMA ReadsInside ==
    ASSUME NEW src \in Text, NEW i \in 1 .. Len(src), NEW n, NEW c, Reads(src, i, n, c)
    PROVE  n \in {1, 2, 3, 6} /\ i + n \in (i + 1) .. (Len(src) + 1) /\ c \in Character
<1>1. CASE n = 1 /\ src[i] \notin {"quote", "back"} /\ c = src[i]
  BY <1>1 DEF Text
<1>2. CASE n = 2 /\ src[i] = "back" /\ At(src, i + 1) \in Simple /\ c = Unescaped[src[i + 1]]
  <2>1. i + 1 \in 1 .. Len(src)
    BY <1>2, AtIs DEF Simple
  <2>2. src[i + 1] \in Simple
    BY <1>2, <2>1, AtIs
  <2>3. c \in Character
    BY <1>2, <2>2 DEF Simple, Unescaped, Character
  <2>. QED  BY <1>2, <2>1, <2>3
<1>3. CASE /\ n = 3 /\ src[i] = "back" /\ At(src, i + 1) = "u" /\ At(src, i + 2) \in Codes
           /\ ~(src[i + 2] = "high" /\ Paired(src, i + 2)) /\ c = Decoded(src[i + 2])
  <2>1. i + 2 \in 1 .. Len(src)
    BY <1>3, AtIs DEF Codes
  <2>2. src[i + 2] \in Codes
    BY <1>3, <2>1, AtIs
  <2>3. c \in Character
    BY <1>3, <2>2 DEF Codes, Decoded, Character
  <2>. QED  BY <1>3, <2>1, <2>3
<1>4. CASE /\ n = 6 /\ src[i] = "back" /\ At(src, i + 1) = "u" /\ At(src, i + 2) = "high"
           /\ Paired(src, i + 2) /\ c = "pair"
  <2>1. At(src, (i + 2) + 3) = "low"
    BY <1>4 DEF Paired
  <2>2. (i + 2) + 3 \in 1 .. Len(src)
    BY <2>1, AtIs
  <2>. QED  BY <1>4, <2>2, CharactersAre
<1>. QED  BY <1>1, <1>2, <1>3, <1>4 DEF Reads

LEMMA PieceIs ==
    ASSUME NEW src \in Text, NEW i \in 1 .. Len(src), NEW f
    PROVE  /\ src[i] = "quote" => Piece(src, i, f) = [ok |-> TRUE, val |-> <<>>, used |-> i]
           /\ \A n, c : Reads(src, i, n, c) => Piece(src, i, f) = Joined(c, f[i + n])
           /\ Refused(src, i) => Piece(src, i, f) = NoString
           /\ src[i] = "quote" \/ Refused(src, i) \/ \E n, c : Reads(src, i, n, c)
<1>1. ~(i > Len(src)) /\ Len(src) \in Nat
  BY AtIs
<1>2. DOMAIN Unescaped = Simple
  BY DEF Unescaped, Simple
<1>3. src[i] = "quote" => Piece(src, i, f) = [ok |-> TRUE, val |-> <<>>, used |-> i]
  BY <1>1 DEF Piece
<1>4. ASSUME NEW n, NEW c, Reads(src, i, n, c) PROVE Piece(src, i, f) = Joined(c, f[i + n])
  <2>1. CASE n = 1 /\ src[i] \notin {"quote", "back"} /\ c = src[i]
    BY <1>1, <2>1 DEF Piece, Joined
  <2>2. CASE n = 2 /\ src[i] = "back" /\ At(src, i + 1) \in Simple /\ c = Unescaped[src[i + 1]]
    <3>1. At(src, i + 1) \in DOMAIN Unescaped /\ At(src, i + 1) # "u"
      BY <1>2, <2>2 DEF Simple
    <3>2. Piece(src, i, f) = Joined(Unescaped[src[i + 1]], f[i + 2])
      BY <1>1, <2>2, <3>1 DEF Piece, Joined
    <3>. QED  BY <2>2, <3>2
  <2>3. CASE /\ n = 3 /\ src[i] = "back" /\ At(src, i + 1) = "u" /\ At(src, i + 2) \in Codes
             /\ ~(src[i + 2] = "high" /\ Paired(src, i + 2)) /\ c = Decoded(src[i + 2])
    <3>1. At(src, i + 1) \notin DOMAIN Unescaped
      BY <1>2, <2>3 DEF Simple
    <3>. QED  BY <1>1, <2>3, <3>1 DEF Piece, Joined
  <2>4. CASE /\ n = 6 /\ src[i] = "back" /\ At(src, i + 1) = "u" /\ At(src, i + 2) = "high"
             /\ Paired(src, i + 2) /\ c = "pair"
    <3>1. At(src, i + 1) \notin DOMAIN Unescaped /\ At(src, i + 2) \in Codes
      BY <1>2, <2>4 DEF Simple, Codes
    <3>2. src[i + 2] = "high"
      BY <2>4, AtIs
    <3>. QED  BY <1>1, <2>4, <3>1, <3>2 DEF Piece, Joined
  <2>. QED  BY <1>4, <2>1, <2>2, <2>3, <2>4 DEF Reads
<1>5. ASSUME Refused(src, i) PROVE Piece(src, i, f) = NoString
  BY <1>1, <1>2, <1>5 DEF Piece, Refused
<1>6. src[i] = "quote" \/ Refused(src, i) \/ \E n, c : Reads(src, i, n, c)
  <2>. SUFFICES ASSUME src[i] # "quote", ~Refused(src, i) PROVE \E n, c : Reads(src, i, n, c)
    OBVIOUS
  <2>1. CASE src[i] # "back"
    BY <2>1 DEF Reads
  <2>2. CASE src[i] = "back" /\ At(src, i + 1) \in Simple
    BY <2>2 DEF Reads
  <2>3. CASE src[i] = "back" /\ At(src, i + 1) = "u" /\ At(src, i + 2) \in Codes
    <3>1. CASE src[i + 2] = "high" /\ Paired(src, i + 2)
      <4>1. i + 2 \in 1 .. Len(src)
        BY <2>3, AtIs DEF Codes
      <4>2. At(src, i + 2) = "high"
        BY <3>1, <4>1, AtIs
      <4>3. Reads(src, i, 6, "pair")
        BY <2>3, <3>1, <4>2 DEF Reads
      <4>. QED  BY <4>3
    <3>2. CASE ~(src[i + 2] = "high" /\ Paired(src, i + 2))
      <4>1. Reads(src, i, 3, Decoded(src[i + 2]))
        BY <2>3, <3>2 DEF Reads
      <4>. QED  BY <4>1
    <3>. QED  BY <3>1, <3>2
  <2>. QED  BY <2>1, <2>2, <2>3 DEF Refused
<1>. QED  BY <1>3, <1>4, <1>5, <1>6

LEMMA PieceSame ==
    ASSUME NEW src \in Text, NEW i \in 1 .. (Len(src) + 1), NEW f, NEW g,
           \A j \in (i + 1) .. (Len(src) + 1) : f[j] = g[j]
    PROVE  Piece(src, i, f) = Piece(src, i, g)
<1>1. Len(src) \in Nat
  BY AtIs
<1>2. CASE i = Len(src) + 1
  <2>1. i > Len(src)
    BY <1>1, <1>2
  <2>. QED  BY <2>1 DEF Piece
<1>3. CASE i # Len(src) + 1
  <2>1. i \in 1 .. Len(src)
    BY <1>1, <1>3
  <2>2. CASE src[i] = "quote" \/ Refused(src, i)
    <3>1. ASSUME NEW h
          PROVE  /\ src[i] = "quote" => Piece(src, i, h) = [ok |-> TRUE, val |-> <<>>, used |-> i]
                 /\ Refused(src, i) => Piece(src, i, h) = NoString
      BY <2>1, PieceIs
    <3>. QED  BY <2>2, <3>1
  <2>3. CASE \E n, c : Reads(src, i, n, c)
    <3>1. PICK n, c : Reads(src, i, n, c)
      BY <2>3
    <3>2. i + n \in (i + 1) .. (Len(src) + 1)
      BY <2>1, <3>1, ReadsInside
    <3>3. f[i + n] = g[i + n]
      BY <3>2
    <3>. QED  BY <2>1, <3>1, <3>3, PieceIs
  <2>. QED  BY <2>1, <2>2, <2>3, PieceIs
<1>. QED  BY <1>2, <1>3

Decoding(src, l, f) == f = [i \in l .. (Len(src) + 1) |-> Piece(src, i, f)]

LEMMA DecodingFor ==
    ASSUME NEW src \in Text
    PROVE  \E f : Decoding(src, 1, f) /\ DecodeEscaped(src) = f[1]
<1>. DEFINE l == Len(src)
            S == {m \in Nat : m <= l => \E f : Decoding(src, (l + 1) - m, f)}
<1>1. l \in Nat
  BY AtIs
<1>2. 0 \in S
  <2>. DEFINE f == [i \in (l + 1) .. (l + 1) |-> NoString]
  <2>1. \A i \in (l + 1) .. (l + 1) : Piece(src, i, f) = NoString
    BY <1>1 DEF Piece
  <2>2. f = [i \in (l + 1) .. (l + 1) |-> Piece(src, i, f)]
    BY <2>1
  <2>3. (l + 1) - 0 = l + 1
    BY <1>1
  <2>4. Decoding(src, (l + 1) - 0, f)
    BY <2>2, <2>3 DEF Decoding
  <2>. QED  BY <2>4
<1>3. ASSUME NEW m \in Nat, m \in S PROVE m + 1 \in S
  <2>. SUFFICES ASSUME m + 1 <= l PROVE \E f : Decoding(src, (l + 1) - (m + 1), f)
    OBVIOUS
  <2>1. PICK f : Decoding(src, (l + 1) - m, f)
    BY <1>1, <1>3
  <2>. DEFINE low == (l + 1) - (m + 1)
  <2>2. low \in 1 .. (l + 1) /\ (l + 1) - m = low + 1 /\ l + 1 \in Nat
    BY <1>1
  <2>. HIDE DEF low, l
  <2>3. \A i \in (low + 1) .. (l + 1) : f[i] = Piece(src, i, f)
    BY <2>1, <2>2 DEF Decoding, l
  <2>. DEFINE g == [i \in low .. (l + 1) |-> IF i = low THEN Piece(src, low, f) ELSE f[i]]
  <2>4. g[low] = Piece(src, low, f) /\ \A i \in (low + 1) .. (l + 1) : g[i] = f[i]
    BY <2>2
  <2>5. ASSUME NEW i \in low .. (l + 1) PROVE g[i] = Piece(src, i, g)
    <3>. HIDE DEF g
    <3>1. i \in 1 .. (Len(src) + 1) /\ \A j \in (i + 1) .. (Len(src) + 1) : j \in (low + 1) .. (l + 1)
      BY <1>1, <2>2 DEF l
    <3>2. Piece(src, i, g) = Piece(src, i, f)
      BY <2>4, <3>1, PieceSame
    <3>3. i = low \/ i \in (low + 1) .. (l + 1)
      BY <2>2
    <3>. QED  BY <2>3, <2>4, <3>2, <3>3
  <2>6. g = [i \in low .. (l + 1) |-> Piece(src, i, g)]
    BY <2>5
  <2>7. Decoding(src, low, g)
    BY <2>6 DEF Decoding, l
  <2>. QED  BY <2>7 DEF low
<1>4. l \in S
  <2>. HIDE DEF S, l
  <2>. QED  BY <1>1, <1>2, <1>3, NatSets
<1>5. \E f : Decoding(src, 1, f)
  <2>1. (l + 1) - l = 1 /\ l <= l
    BY <1>1
  <2>. QED  BY <1>4, <2>1
<1>. DEFINE d == CHOOSE f : Decoding(src, 1, f)
<1>6. Decoding(src, 1, d)
  BY <1>5
<1>7. DecodeEscaped(src) = d[1]
  BY DEF DecodeEscaped, Decoding, Piece
<1>. QED  BY <1>6, <1>7

LEMMA Downwards ==
    ASSUME NEW l \in Nat, NEW S, l + 1 \in S,
           \A i \in 1 .. l : (\A j \in (i + 1) .. (l + 1) : j \in S) => i \in S
    PROVE  1 .. (l + 1) \subseteq S
<1>. DEFINE T == {m \in Nat : \A j \in 1 .. (l + 1) : j >= (l + 1) - m => j \in S}
<1>1. 0 \in T
  <2>1. \A j \in 1 .. (l + 1) : j >= (l + 1) - 0 => j = l + 1
    OBVIOUS
  <2>. QED  BY <2>1
<1>2. ASSUME NEW m \in Nat, m \in T PROVE m + 1 \in T
  <2>1. ASSUME NEW j \in 1 .. (l + 1), j >= (l + 1) - (m + 1) PROVE j \in S
    <3>1. CASE j >= (l + 1) - m
      BY <1>2, <3>1
    <3>2. CASE ~(j >= (l + 1) - m)
      <4>1. j \in 1 .. l /\ \A k \in (j + 1) .. (l + 1) : k \in 1 .. (l + 1) /\ k >= (l + 1) - m
        BY <2>1, <3>2
      <4>2. \A k \in (j + 1) .. (l + 1) : k \in S
        BY <1>2, <4>1
      <4>. QED  BY <4>1, <4>2
    <3>. QED  BY <3>1, <3>2
  <2>. QED  BY <2>1
<1>3. l \in T
  <2>. HIDE DEF T
  <2>. QED  BY <1>1, <1>2, NatSets
<1>4. \A j \in 1 .. (l + 1) : j >= (l + 1) - l
  OBVIOUS
<1>. QED  BY <1>3, <1>4

Out == [ok : BOOLEAN, val : Text, used : Nat]

LEMMA JoinedIs ==
    ASSUME NEW c \in Character, NEW rest \in Out
    PROVE  /\ Joined(c, rest) \in Out /\ Joined(c, rest).ok = rest.ok
           /\ rest.ok => Joined(c, rest) = [ok |-> TRUE, val |-> <<c>> \o rest.val, used |-> rest.used]
<1>1. <<c>> \o rest.val \in Text /\ <<>> \in Text
  BY DEF Text, Out
<1>2. CASE rest.ok
  <2>1. Joined(c, rest) = [ok |-> TRUE, val |-> <<c>> \o rest.val, used |-> rest.used]
    BY <1>2 DEF Joined, Out
  <2>. QED  BY <1>1, <1>2, <2>1 DEF Out
<1>3. CASE ~rest.ok
  BY <1>1, <1>3 DEF Joined, NoString, Out
<1>. QED  BY <1>2, <1>3

LEMMA JoinedOk ==
    ASSUME NEW c \in Character, NEW v \in Text, NEW u \in Nat
    PROVE  Joined(c, [ok |-> TRUE, val |-> v, used |-> u]) = [ok |-> TRUE, val |-> <<c>> \o v, used |-> u]
<1>. DEFINE r == [ok |-> TRUE, val |-> v, used |-> u]
<1>1. r \in Out /\ r.ok /\ r.val = v /\ r.used = u
  BY DEF Out
<1>. HIDE DEF r
<1>2. Joined(c, r) = [ok |-> TRUE, val |-> <<c>> \o r.val, used |-> r.used]
  BY <1>1, JoinedIs
<1>. QED  BY <1>1, <1>2 DEF r

\* f says how src is read from each character on.
LEMMA FromReads ==
    ASSUME NEW src \in Text, NEW f, Decoding(src, 1, f), NEW i \in 1 .. Len(src), NEW n, NEW c, Reads(src, i, n, c)
    PROVE  f[i] = Joined(c, f[i + n])
<1>1. i \in 1 .. (Len(src) + 1)
  BY AtIs
<1>2. f[i] = Piece(src, i, f)
  BY <1>1 DEF Decoding
<1>3. \A m, d : Reads(src, i, m, d) => Piece(src, i, f) = Joined(d, f[i + m])
  BY PieceIs
<1>. QED  BY <1>2, <1>3, Zenon

LEMMA FromRefused ==
    ASSUME NEW src \in Text, NEW f, Decoding(src, 1, f), NEW i \in 1 .. Len(src), Refused(src, i)
    PROVE  f[i] = NoString
<1>1. i \in 1 .. (Len(src) + 1)
  BY AtIs
<1>2. f[i] = Piece(src, i, f)
  BY <1>1 DEF Decoding
<1>. QED  BY <1>2, PieceIs

LEMMA FromIs ==
    ASSUME NEW src \in Text, NEW f, Decoding(src, 1, f)
    PROVE  /\ f[Len(src) + 1] = NoString
           /\ \A i \in 1 .. Len(src) : src[i] = "quote" => f[i] = [ok |-> TRUE, val |-> <<>>, used |-> i]
<1>1. Len(src) \in Nat
  BY AtIs
<1>2. \A i \in 1 .. (Len(src) + 1) : f[i] = Piece(src, i, f)
  BY DEF Decoding
<1>3. f[Len(src) + 1] = NoString
  <2>1. Len(src) + 1 > Len(src) /\ Len(src) + 1 \in 1 .. (Len(src) + 1)
    BY <1>1
  <2>2. Piece(src, Len(src) + 1, f) = NoString
    BY <2>1 DEF Piece
  <2>. QED  BY <1>2, <2>1, <2>2
<1>4. ASSUME NEW i \in 1 .. Len(src)
      PROVE  src[i] = "quote" => f[i] = [ok |-> TRUE, val |-> <<>>, used |-> i]
  <2>1. i \in 1 .. (Len(src) + 1)
    BY <1>1
  <2>2. f[i] = Piece(src, i, f)
    BY <1>2, <2>1
  <2>. QED  BY <2>2, PieceIs
<1>. QED  BY <1>3, <1>4

LEMMA DecodedIs ==
    ASSUME NEW src \in Text, NEW f, Decoding(src, 1, f), NEW i \in 1 .. (Len(src) + 1)
    PROVE  f[i] \in Out /\ (f[i].ok => f[i].used \in i .. Len(src) /\ src[f[i].used] = "quote")
<1>. DEFINE l == Len(src)
            Fine(k) == f[k] \in Out /\ (f[k].ok => f[k].used \in k .. l /\ src[f[k].used] = "quote")
            S == {k \in 1 .. (l + 1) : Fine(k)}
<1>1. l \in Nat
  BY AtIs
<1>2. NoString \in Out /\ ~NoString.ok
  BY DEF NoString, Out, Text
<1>3. l + 1 \in S
  BY <1>1, <1>2, FromIs
<1>4. ASSUME NEW k \in 1 .. l, \A j \in (k + 1) .. (l + 1) : j \in S PROVE k \in S
  <2>1. k \in 1 .. (l + 1) /\ k \in k .. l /\ k \in Nat
    BY <1>1
  <2>2. CASE src[k] = "quote"
    <3>1. f[k] = [ok |-> TRUE, val |-> <<>>, used |-> k]
      BY <2>2, FromIs
    <3>2. f[k] \in Out
      BY <2>1, <3>1 DEF Out, Text
    <3>3. f[k].used = k
      BY <3>1
    <3>. QED  BY <2>1, <2>2, <3>2, <3>3
  <2>3. CASE Refused(src, k)
    BY <1>2, <2>1, <2>3, FromRefused
  <2>4. CASE \E n, c : Reads(src, k, n, c)
    <3>1. PICK n, c : Reads(src, k, n, c)
      BY <2>4
    <3>2. k + n \in (k + 1) .. (l + 1) /\ c \in Character
      BY <3>1, ReadsInside
    <3>3. f[k] = Joined(c, f[k + n])
      BY <3>1, FromReads
    <3>. DEFINE m == k + n
                r == f[m]
    <3>. HIDE DEF m
    <3>4. m \in (k + 1) .. (l + 1) /\ f[k] = Joined(c, r)
      BY <3>2, <3>3 DEF m
    <3>5. Fine(m)
      BY <1>4, <3>4
    <3>. HIDE DEF r
    <3>6. r \in Out /\ (r.ok => r.used \in m .. l /\ src[r.used] = "quote")
      BY <3>5 DEF r
    <3>7. f[k] \in Out /\ f[k].ok = r.ok /\ (r.ok => f[k].used = r.used)
      <4>1. /\ Joined(c, r) \in Out /\ Joined(c, r).ok = r.ok
            /\ r.ok => Joined(c, r) = [ok |-> TRUE, val |-> <<c>> \o r.val, used |-> r.used]
        BY <3>2, <3>6, JoinedIs
      <4>2. r.ok => Joined(c, r).used = r.used
        BY <4>1
      <4>. QED  BY <3>4, <4>1, <4>2
    <3>8. r.ok => r.used \in k .. l
      BY <1>1, <3>4, <3>6
    <3>. QED  BY <2>1, <3>6, <3>7, <3>8
  <2>. QED  BY <2>2, <2>3, <2>4, PieceIs
<1>5. i \in S
  <2>. HIDE DEF S, l
  <2>. QED  BY <1>1, <1>3, <1>4, Downwards DEF l
<1>. QED  BY <1>5

-----------------------------------------------------------------------------
(* Strings: what one stands for.                                           *)

\* n characters of b from i on are a unit.
UnitAt(b, i, n) ==
    \/ n = 1 /\ b[i] \notin {"quote", "back"}
    \/ n = 2 /\ b[i] = "back" /\ b[i + 1] \in Simple
    \/ n = 3 /\ b[i] = "back" /\ b[i + 1] = "u" /\ b[i + 2] \in Codes
    \/ /\ n = 6 /\ b[i] = "back" /\ b[i + 1] = "u" /\ b[i + 2] = "high"
       /\ b[i + 3] = "back" /\ b[i + 4] = "u" /\ b[i + 5] = "low"

MeaningAt(b, i, n) ==
    CASE n = 1 -> b[i]
      [] n = 2 -> IF b[i + 1] = "n" THEN "nl" ELSE b[i + 1]
      [] n = 3 -> Decoded(b[i + 2])
      [] OTHER -> "pair"

LEMMA UnitsAre ==
    ASSUME NEW u \in Text
    PROVE  IsUnit(u) <=> UnitAt(u, 1, Len(u))
<1>1. Len(u) = 2 => (u \in {<<"back", "quote">>, <<"back", "back">>, <<"back", "n">>} <=> u[1] = "back" /\ u[2] \in Simple)
  BY DEF Text, Simple
<1>2. Len(u) = 3 => (u \in {<<"back", "u", c>> : c \in Codes} <=> u[1] = "back" /\ u[2] = "u" /\ u[3] \in Codes)
  <2>1. ASSUME NEW c \in Codes PROVE Len(u) = 3 => (u = <<"back", "u", c>> <=> u[1] = "back" /\ u[2] = "u" /\ u[3] = c)
    BY DEF Text
  <2>. QED  BY <2>1
<1>3. Len(u) = 6 => (u = <<"back", "u", "high", "back", "u", "low">> <=>
        u[1] = "back" /\ u[2] = "u" /\ u[3] = "high" /\ u[4] = "back" /\ u[5] = "u" /\ u[6] = "low")
  BY DEF Text
<1>4. /\ u \in {<<"back", "quote">>, <<"back", "back">>, <<"back", "n">>} => Len(u) = 2
      /\ u \in {<<"back", "u", c>> : c \in Codes} => Len(u) = 3
      /\ u = <<"back", "u", "high", "back", "u", "low">> => Len(u) = 6
  OBVIOUS
<1>5. 1 + 1 = 2 /\ 1 + 2 = 3 /\ 1 + 3 = 4 /\ 1 + 4 = 5 /\ 1 + 5 = 6
  OBVIOUS
<1>. QED  BY <1>1, <1>2, <1>3, <1>4, <1>5 DEF IsUnit, UnitAt

\* A unit in the midst of b.
LEMMA UnitIs ==
    ASSUME NEW b \in Text, NEW i \in 1 .. Len(b), NEW n \in Nat \ {0}, i + n <= Len(b) + 1
    PROVE  /\ IsUnit(SubSeq(b, i, (i + n) - 1)) <=> UnitAt(b, i, n)
           /\ UnitAt(b, i, n) => Meaning(SubSeq(b, i, (i + n) - 1)) = MeaningAt(b, i, n)
<1>. DEFINE j == (i + n) - 1
            u == SubSeq(b, i, j)
<1>1. Len(b) \in Nat /\ i \in 1 .. (Len(b) + 1) /\ j \in (i - 1) .. Len(b) /\ (j - i) + 1 = n
  BY AtIs
<1>. HIDE DEF j
<1>2. u \in Text /\ Len(u) = n /\ \A k \in 1 .. n : u[k] = b[(i + k) - 1]
  BY <1>1, SubIs
<1>. HIDE DEF u
<1>3. /\ n >= 1 => u[1] = b[i]
      /\ n >= 2 => u[2] = b[i + 1]
      /\ n >= 3 => u[3] = b[i + 2]
      /\ n >= 6 => u[4] = b[i + 3] /\ u[5] = b[i + 4] /\ u[6] = b[i + 5]
  <2>1. /\ n >= 1 => 1 \in 1 .. n /\ (i + 1) - 1 = i
        /\ n >= 2 => 2 \in 1 .. n /\ (i + 2) - 1 = i + 1
        /\ n >= 3 => 3 \in 1 .. n /\ (i + 3) - 1 = i + 2
        /\ n >= 6 => /\ 4 \in 1 .. n /\ (i + 4) - 1 = i + 3
                     /\ 5 \in 1 .. n /\ (i + 5) - 1 = i + 4
                     /\ 6 \in 1 .. n /\ (i + 6) - 1 = i + 5
    OBVIOUS
  <2>. QED  BY <1>2, <2>1
<1>4. UnitAt(u, 1, n) <=> UnitAt(b, i, n)
  <2>1. 1 + 1 = 2 /\ 1 + 2 = 3 /\ 1 + 3 = 4 /\ 1 + 4 = 5 /\ 1 + 5 = 6
    OBVIOUS
  <2>2. CASE n = 1
    BY <1>3, <2>2 DEF UnitAt
  <2>3. CASE n = 2
    BY <1>3, <2>1, <2>3 DEF UnitAt
  <2>4. CASE n = 3
    BY <1>3, <2>1, <2>4 DEF UnitAt
  <2>5. CASE n = 6
    BY <1>3, <2>1, <2>5 DEF UnitAt
  <2>6. CASE n \notin {1, 2, 3, 6}
    BY <2>6 DEF UnitAt
  <2>. QED  BY <2>2, <2>3, <2>4, <2>5, <2>6
<1>5. IsUnit(u) <=> UnitAt(b, i, n)
  BY <1>2, <1>4, UnitsAre
<1>6. ASSUME UnitAt(b, i, n) PROVE Meaning(u) = MeaningAt(b, i, n)
  <2>1. n \in {1, 2, 3, 6}
    BY <1>6 DEF UnitAt
  <2>. QED  BY <1>2, <1>3, <2>1 DEF Meaning, MeaningAt
<1>. QED  BY <1>5, <1>6 DEF u, j

Halved(u, r) == r # <<>> /\ IsUnit(u \o r[1])

\* The ways to read b from i on when f says how to read it from further on.
Pieces(b, i, f) ==
    IF i > Len(b) THEN {<<>>}
    ELSE UNION {LET u == SubSeq(b, i, i + n - 1)
                IN  IF IsUnit(u) THEN {<<u>> \o r : r \in {r \in f[i + n] : ~Halved(u, r)}} ELSE {} :
                  n \in {n \in {1, 2, 3, 6} : i + n <= Len(b) + 1}}

Values(ways) == {[k \in DOMAIN r |-> Meaning(r[k])] : r \in ways}

Unit(b, i, n) == SubSeq(b, i, (i + n) - 1)

\* The way x begins with n characters and goes on as r.
Begins(b, i, f, x, n, r) ==
    /\ i + n <= Len(b) + 1 /\ r \in f[i + n] /\ UnitAt(b, i, n)
    /\ ~Halved(Unit(b, i, n), r) /\ x = <<Unit(b, i, n)>> \o r

LEMMA PiecesIs ==
    ASSUME NEW b \in Text, NEW i \in 1 .. Len(b), NEW f, NEW x
    PROVE  x \in Pieces(b, i, f) <=> \E n \in {1, 2, 3, 6} : \E r : Begins(b, i, f, x, n, r)
<1>1. ~(i > Len(b)) /\ Len(b) \in Nat
  BY AtIs
<1>. DEFINE N == {n \in {1, 2, 3, 6} : i + n <= Len(b) + 1}
            ways(n) == IF IsUnit(Unit(b, i, n)) THEN {<<Unit(b, i, n)>> \o r : r \in {r \in f[i + n] : ~Halved(Unit(b, i, n), r)}} ELSE {}
            old(n) == LET u == SubSeq(b, i, i + n - 1)
                      IN  IF IsUnit(u) THEN {<<u>> \o r : r \in {r \in f[i + n] : ~Halved(u, r)}} ELSE {}
<1>2. \A n \in N : SubSeq(b, i, i + n - 1) = Unit(b, i, n)
  <2>1. \A n \in {1, 2, 3, 6} : i + n - 1 = (i + n) - 1
    OBVIOUS
  <2>. QED  BY <2>1 DEF Unit
<1>3. \A n \in N : old(n) = ways(n)
  BY <1>2
<1>4. Pieces(b, i, f) = UNION {old(n) : n \in N}
  BY <1>1 DEF Pieces
<1>5. \A n \in N : IsUnit(Unit(b, i, n)) <=> UnitAt(b, i, n)
  <2>1. ASSUME NEW n \in N PROVE n \in Nat \ {0} /\ i + n <= Len(b) + 1
    OBVIOUS
  <2>. HIDE DEF N
  <2>. QED  BY <2>1, UnitIs DEF Unit
<1>6. \A n \in N : x \in ways(n) <=> \E r : Begins(b, i, f, x, n, r)
  BY <1>5 DEF Begins
<1>7. x \in UNION {old(n) : n \in N} <=> \E n \in N : x \in old(n)
  OBVIOUS
<1>8. \A n \in {1, 2, 3, 6} : (\E r : Begins(b, i, f, x, n, r)) => n \in N
  BY DEF Begins
<1>9. N \subseteq {1, 2, 3, 6}
  OBVIOUS
<1>. HIDE DEF N, ways, old
<1>. QED  BY <1>3, <1>4, <1>6, <1>7, <1>8, <1>9

LEMMA PiecesSame ==
    ASSUME NEW b \in Text, NEW i \in 1 .. (Len(b) + 1), NEW f, NEW g,
           \A j \in (i + 1) .. (Len(b) + 1) : f[j] = g[j]
    PROVE  Pieces(b, i, f) = Pieces(b, i, g)
<1>1. Len(b) \in Nat
  BY AtIs
<1>2. CASE i = Len(b) + 1
  <2>1. i > Len(b)
    BY <1>1, <1>2
  <2>. QED  BY <2>1 DEF Pieces
<1>3. CASE i # Len(b) + 1
  <2>1. i \in 1 .. Len(b)
    BY <1>1, <1>3
  <2>2. ASSUME NEW n \in {1, 2, 3, 6}, i + n <= Len(b) + 1 PROVE f[i + n] = g[i + n]
    <3>1. i + n \in (i + 1) .. (Len(b) + 1)
      BY <1>1, <2>2
    <3>. QED  BY <3>1
  <2>3. ASSUME NEW x, NEW n \in {1, 2, 3, 6}, NEW r PROVE Begins(b, i, f, x, n, r) <=> Begins(b, i, g, x, n, r)
    BY <2>2 DEF Begins
  <2>4. \A x : x \in Pieces(b, i, f) <=> x \in Pieces(b, i, g)
    <3>1. ASSUME NEW x PROVE x \in Pieces(b, i, f) <=> x \in Pieces(b, i, g)
      <4>1. x \in Pieces(b, i, f) <=> \E n \in {1, 2, 3, 6} : \E r : Begins(b, i, f, x, n, r)
        BY <2>1, PiecesIs
      <4>2. x \in Pieces(b, i, g) <=> \E n \in {1, 2, 3, 6} : \E r : Begins(b, i, g, x, n, r)
        BY <2>1, PiecesIs
      <4>. QED  BY <2>3, <4>1, <4>2
    <3>. QED  BY <3>1
  <2>. QED  BY <2>4
<1>. QED  BY <1>2, <1>3

Reading(b, l, f) == f = [i \in l .. (Len(b) + 1) |-> Pieces(b, i, f)]

LEMMA ReadingFor ==
    ASSUME NEW b \in Text
    PROVE  \E f : Reading(b, 1, f) /\ Readings(b) = Values(f[1])
<1>. DEFINE l == Len(b)
            S == {m \in Nat : m <= l => \E f : Reading(b, (l + 1) - m, f)}
<1>1. l \in Nat
  BY AtIs
<1>2. 0 \in S
  <2>. DEFINE f == [i \in (l + 1) .. (l + 1) |-> {<<>>}]
  <2>1. \A i \in (l + 1) .. (l + 1) : Pieces(b, i, f) = {<<>>}
    BY <1>1 DEF Pieces
  <2>2. f = [i \in (l + 1) .. (l + 1) |-> Pieces(b, i, f)]
    BY <2>1
  <2>3. (l + 1) - 0 = l + 1
    BY <1>1
  <2>4. Reading(b, (l + 1) - 0, f)
    BY <2>2, <2>3 DEF Reading
  <2>. QED  BY <2>4
<1>3. ASSUME NEW m \in Nat, m \in S PROVE m + 1 \in S
  <2>. SUFFICES ASSUME m + 1 <= l PROVE \E f : Reading(b, (l + 1) - (m + 1), f)
    OBVIOUS
  <2>1. PICK f : Reading(b, (l + 1) - m, f)
    BY <1>1, <1>3
  <2>. DEFINE low == (l + 1) - (m + 1)
  <2>2. low \in 1 .. (l + 1) /\ (l + 1) - m = low + 1 /\ l + 1 \in Nat
    BY <1>1
  <2>. HIDE DEF low, l
  <2>3. \A i \in (low + 1) .. (l + 1) : f[i] = Pieces(b, i, f)
    BY <2>1, <2>2 DEF Reading, l
  <2>. DEFINE g == [i \in low .. (l + 1) |-> IF i = low THEN Pieces(b, low, f) ELSE f[i]]
  <2>4. g[low] = Pieces(b, low, f) /\ \A i \in (low + 1) .. (l + 1) : g[i] = f[i]
    BY <2>2
  <2>5. ASSUME NEW i \in low .. (l + 1) PROVE g[i] = Pieces(b, i, g)
    <3>. HIDE DEF g
    <3>1. i \in 1 .. (Len(b) + 1) /\ \A j \in (i + 1) .. (Len(b) + 1) : j \in (low + 1) .. (l + 1)
      BY <1>1, <2>2 DEF l
    <3>2. Pieces(b, i, g) = Pieces(b, i, f)
      BY <2>4, <3>1, PiecesSame
    <3>3. i = low \/ i \in (low + 1) .. (l + 1)
      BY <2>2
    <3>. QED  BY <2>3, <2>4, <3>2, <3>3
  <2>6. g = [i \in low .. (l + 1) |-> Pieces(b, i, g)]
    BY <2>5
  <2>7. Reading(b, low, g)
    BY <2>6 DEF Reading, l
  <2>. QED  BY <2>7 DEF low
<1>4. l \in S
  <2>. HIDE DEF S, l
  <2>. QED  BY <1>1, <1>2, <1>3, NatSets
<1>5. \E f : Reading(b, 1, f)
  <2>1. (l + 1) - l = 1 /\ l <= l
    BY <1>1
  <2>. QED  BY <1>4, <2>1
<1>. DEFINE d == CHOOSE f : Reading(b, 1, f)
<1>6. Reading(b, 1, d)
  BY <1>5
<1>7. Readings(b) = Values(d[1])
  BY DEF Readings, Reading, Pieces, Halved, Values
<1>. QED  BY <1>6, <1>7

LEMMA UnitSub ==
    ASSUME NEW b \in Text, NEW i \in 1 .. Len(b), NEW n \in Nat \ {0}, i + n <= Len(b) + 1
    PROVE  /\ Unit(b, i, n) \in Text /\ Len(Unit(b, i, n)) = n
           /\ \A k \in 1 .. n : Unit(b, i, n)[k] = b[(i + k) - 1]
<1>1. Len(b) \in Nat /\ i \in 1 .. (Len(b) + 1) /\ (i + n) - 1 \in (i - 1) .. Len(b) /\ (((i + n) - 1) - i) + 1 = n
  BY AtIs
<1>. DEFINE j == (i + n) - 1
<1>. HIDE DEF j
<1>2. j \in (i - 1) .. Len(b) /\ (j - i) + 1 = n
  BY <1>1 DEF j
<1>3. /\ SubSeq(b, i, j) \in Text /\ Len(SubSeq(b, i, j)) = (j - i) + 1
      /\ \A k \in 1 .. ((j - i) + 1) : SubSeq(b, i, j)[k] = b[(i + k) - 1]
  BY <1>1, <1>2, SubIs
<1>. QED  BY <1>2, <1>3 DEF Unit, j

LEMMA UnitsJoin ==
    ASSUME NEW b \in Text, NEW i \in 1 .. Len(b), NEW n \in Nat \ {0}, NEW l \in Nat \ {0}, (i + n) + l <= Len(b) + 1
    PROVE  Unit(b, i, n) \o Unit(b, i + n, l) = Unit(b, i, n + l)
<1>1. Len(b) \in Nat
  BY AtIs
<1>2. i + n <= Len(b) + 1 /\ i + (n + l) <= Len(b) + 1 /\ i + n \in 1 .. Len(b) /\ n + l \in Nat \ {0}
  BY <1>1
<1>. DEFINE u == Unit(b, i, n)
            v == Unit(b, i + n, l)
            w == Unit(b, i, n + l)
<1>3. u \in Text /\ Len(u) = n /\ \A k \in 1 .. n : u[k] = b[(i + k) - 1]
  BY <1>2, UnitSub
<1>4. v \in Text /\ Len(v) = l /\ \A k \in 1 .. l : v[k] = b[((i + n) + k) - 1]
  BY <1>2, UnitSub
<1>5. w \in Text /\ Len(w) = n + l /\ \A k \in 1 .. (n + l) : w[k] = b[(i + k) - 1]
  BY <1>2, UnitSub
<1>. HIDE DEF u, v, w
<1>6. /\ u \o v \in Text /\ Len(u \o v) = n + l
      /\ \A k \in 1 .. (n + l) : (u \o v)[k] = IF k <= n THEN u[k] ELSE v[k - n]
  <2>1. u \in Seq(Character) /\ v \in Seq(Character) /\ Len(u) = n /\ Len(v) = l
    BY <1>3, <1>4 DEF Text
  <2>2. u \o v \in Seq(Character)
    BY <2>1
  <2>3. Len(u \o v) = n + l
    BY <2>1
  <2>4. \A k \in 1 .. (n + l) : (u \o v)[k] = IF k <= n THEN u[k] ELSE v[k - n]
    BY <2>1
  <2>. QED  BY <2>2, <2>3, <2>4 DEF Text
<1>7. ASSUME NEW k \in 1 .. (n + l) PROVE (u \o v)[k] = w[k]
  <2>1. CASE k <= n
    <3>1. k \in 1 .. n
      BY <2>1
    <3>. QED  BY <1>3, <1>5, <1>6, <2>1, <3>1
  <2>2. CASE ~(k <= n)
    <3>1. k - n \in 1 .. l /\ ((i + n) + (k - n)) - 1 = (i + k) - 1
      BY <2>2
    <3>2. v[k - n] = b[((i + n) + (k - n)) - 1]
      BY <1>4, <3>1
    <3>. QED  BY <1>5, <1>6, <2>2, <3>1, <3>2
  <2>. QED  BY <2>1, <2>2
<1>8. u \o v = w
  <2>. DEFINE x == u \o v
  <2>. HIDE DEF x
  <2>1. x \in Seq(Character) /\ w \in Seq(Character) /\ Len(x) = Len(w) /\ \A k \in 1 .. Len(w) : x[k] = w[k]
    BY <1>5, <1>6, <1>7 DEF x, Text
  <2>2. x = w
    BY <2>1
  <2>. QED  BY <2>2 DEF x
<1>. QED  BY <1>8 DEF u, v, w

PairAt(b, i) == i + 6 <= Len(b) + 1 /\ UnitAt(b, i, 6)

\* Two units are one only when they are the halves of a pair.
LEMMA HalvedIs ==
    ASSUME NEW b \in Text, NEW i \in 1 .. Len(b), NEW n \in {1, 2, 3, 6}, UnitAt(b, i, n),
           NEW j, j = i + n, NEW l \in {1, 2, 3, 6}, j + l <= Len(b) + 1, UnitAt(b, j, l)
    PROVE  IsUnit(Unit(b, i, n) \o Unit(b, j, l)) <=> n = 3 /\ PairAt(b, i)
<1>1. Len(b) \in Nat
  BY AtIs
<1>2. n \in Nat \ {0} /\ l \in Nat \ {0} /\ n + l \in Nat \ {0} /\ i + (n + l) <= Len(b) + 1
  BY <1>1
<1>3. Unit(b, i, n) \o Unit(b, j, l) = Unit(b, i, n + l)
  BY <1>2, UnitsJoin
<1>4. IsUnit(Unit(b, i, n + l)) <=> UnitAt(b, i, n + l)
  BY <1>2, UnitIs DEF Unit
<1>5. UnitAt(b, i, n + l) => n = 3 /\ l = 3
  <2>1. (n = 1 => b[i] # "back") /\ (n = 2 => b[i + 1] # "u")
    BY DEF UnitAt, Simple
  <2>. DEFINE m == n + l
  <2>2. /\ n = 1 => m \in {2, 3, 4, 7}
        /\ n = 2 => m \in {3, 4, 5, 8}
        /\ n = 3 => m \in {4, 5, 6, 9} /\ (m = 6 => l = 3)
        /\ n = 6 => m \in {7, 8, 9, 12}
    OBVIOUS
  <2>. HIDE DEF m
  <2>3. UnitAt(b, i, m) => m \in {1, 2, 3, 6} /\ (m # 1 => b[i] = "back") /\ (m = 3 => b[i + 1] = "u")
    BY DEF UnitAt
  <2>4. UnitAt(b, i, m) => n \notin {1, 2, 6}
    <3>1. n = 1 => ~UnitAt(b, i, m)
      BY <2>1, <2>2, <2>3
    <3>2. n = 2 => ~UnitAt(b, i, m)
      BY <2>1, <2>2, <2>3
    <3>3. n = 6 => ~UnitAt(b, i, m)
      BY <2>2, <2>3
    <3>. QED  BY <3>1, <3>2, <3>3
  <2>5. UnitAt(b, i, m) => n = 3 /\ l = 3
    BY <2>2, <2>3, <2>4
  <2>. QED  BY <2>5 DEF m
<1>6. n = 3 /\ UnitAt(b, i, 6) => l = 3
  <2>1. SUFFICES ASSUME n = 3, UnitAt(b, i, 6) PROVE l = 3
    OBVIOUS
  <2>2. b[i + 3] = "back" /\ b[i + 4] = "u" /\ b[i + 5] = "low"
    BY <2>1 DEF UnitAt
  <2>3. i + n = i + 3 /\ (i + 3) + 1 = i + 4 /\ (i + 3) + 2 = i + 5
    BY <2>1
  <2>4. UnitAt(b, i + 3, l)
    BY <2>3
  <2>. QED  BY <2>2, <2>3, <2>4 DEF UnitAt, Simple
<1>7. 3 + 3 = 6 /\ (i + 3) + 3 = i + 6
  OBVIOUS
<1>8. n = 3 /\ l = 3 => n + l = 6 /\ i + 6 <= Len(b) + 1
  BY <1>2, <1>7
<1>9. UnitAt(b, i, n + l) <=> n = 3 /\ PairAt(b, i)
  BY <1>5, <1>6, <1>8 DEF PairAt
<1>. QED  BY <1>3, <1>4, <1>9

\* The ways to read b from i on, as f says.
LEMMA WaysIs ==
    ASSUME NEW b \in Text, NEW f, Reading(b, 1, f)
    PROVE  /\ f[Len(b) + 1] = {<<>>}
           /\ \A i \in 1 .. Len(b) : \A x : x \in f[i] <=> \E n \in {1, 2, 3, 6} : \E r : Begins(b, i, f, x, n, r)
<1>1. Len(b) \in Nat
  BY AtIs
<1>2. \A i \in 1 .. (Len(b) + 1) : f[i] = Pieces(b, i, f)
  BY DEF Reading
<1>3. f[Len(b) + 1] = {<<>>}
  <2>1. Len(b) + 1 > Len(b) /\ Len(b) + 1 \in 1 .. (Len(b) + 1)
    BY <1>1
  <2>2. Pieces(b, Len(b) + 1, f) = {<<>>}
    BY <2>1 DEF Pieces
  <2>. QED  BY <1>2, <2>1, <2>2
<1>4. ASSUME NEW i \in 1 .. Len(b), NEW x
      PROVE  x \in f[i] <=> \E n \in {1, 2, 3, 6} : \E r : Begins(b, i, f, x, n, r)
  <2>1. i \in 1 .. (Len(b) + 1)
    BY <1>1
  <2>2. x \in Pieces(b, i, f) <=> \E n \in {1, 2, 3, 6} : \E r : Begins(b, i, f, x, n, r)
    BY PiecesIs
  <2>. QED  BY <1>2, <2>1, <2>2
<1>. QED  BY <1>3, <1>4

LEMMA WayBegins ==
    ASSUME NEW b \in Text, NEW f, Reading(b, 1, f), NEW i \in 1 .. Len(b), NEW x, x \in f[i]
    PROVE  \E n \in {1, 2, 3, 6} : \E r : Begins(b, i, f, x, n, r)
BY WaysIs

\* A way is a sequence of units, empty at the end of b only.
LEMMA WayIs ==
    ASSUME NEW b \in Text, NEW f, Reading(b, 1, f), NEW i \in 1 .. (Len(b) + 1), NEW x \in f[i]
    PROVE  /\ x \in Seq(Text)
           /\ i = Len(b) + 1 => x = <<>>
           /\ i # Len(b) + 1 => /\ x # <<>>
                                /\ \E n \in {1, 2, 3, 6} : /\ i + n <= Len(b) + 1
                                                           /\ UnitAt(b, i, n) /\ x[1] = Unit(b, i, n)
<1>. DEFINE l == Len(b)
            S == {k \in 1 .. (l + 1) : f[k] \subseteq Seq(Text)}
<1>1. l \in Nat
  BY AtIs
<1>2. l + 1 \in S
  <2>1. f[l + 1] = {<<>>}
    BY WaysIs
  <2>2. <<>> \in Seq(Text)
    OBVIOUS
  <2>3. f[l + 1] \subseteq Seq(Text)
    BY <2>1, <2>2
  <2>4. l + 1 \in 1 .. (l + 1)
    BY <1>1
  <2>. QED  BY <2>3, <2>4
<1>3. ASSUME NEW k \in 1 .. l, NEW y, NEW n \in {1, 2, 3, 6}, NEW r \in Seq(Text), Begins(b, k, f, y, n, r)
      PROVE  y \in Seq(Text) /\ y # <<>> /\ y[1] = Unit(b, k, n)
  <2>1. n \in Nat \ {0} /\ k + n <= Len(b) + 1
    BY <1>3 DEF Begins
  <2>2. Unit(b, k, n) \in Text
    BY <2>1, UnitSub
  <2>. DEFINE u == Unit(b, k, n)
  <2>3. y = <<u>> \o r
    BY <1>3 DEF Begins
  <2>. HIDE DEF u
  <2>4. u \in Text
    BY <2>2 DEF u
  <2>5. <<u>> \o r \in Seq(Text) /\ Len(<<u>> \o r) = 1 + Len(r) /\ (<<u>> \o r)[1] = u /\ Len(r) \in Nat
    BY <2>4
  <2>6. y # <<>>
    BY <2>3, <2>5
  <2>. QED  BY <2>3, <2>5, <2>6 DEF u
<1>4. ASSUME NEW k \in 1 .. l, \A j \in (k + 1) .. (l + 1) : j \in S PROVE k \in S
  <2>1. ASSUME NEW y \in f[k] PROVE y \in Seq(Text)
    <3>1. PICK n \in {1, 2, 3, 6} : \E r : Begins(b, k, f, y, n, r)
      BY WayBegins
    <3>2. PICK r : Begins(b, k, f, y, n, r)
      BY <3>1
    <3>3. r \in f[k + n] /\ k + n \in (k + 1) .. (l + 1)
      BY <1>1, <3>2 DEF Begins
    <3>4. r \in Seq(Text)
      BY <1>4, <3>3
    <3>. QED  BY <1>3, <3>2, <3>4
  <2>2. k \in 1 .. (l + 1)
    BY <1>1
  <2>. QED  BY <2>1, <2>2
<1>5. \A k \in 1 .. (l + 1) : f[k] \subseteq Seq(Text)
  <2>1. 1 .. (l + 1) \subseteq S
    <3>. HIDE DEF S, l
    <3>. QED  BY <1>1, <1>2, <1>4, Downwards
  <2>. QED  BY <2>1
<1>6. i = l + 1 => x = <<>>
  <2>1. f[l + 1] = {<<>>}
    BY WaysIs
  <2>. QED  BY <2>1
<1>7. ASSUME i # l + 1 PROVE /\ x # <<>>
                              /\ \E n \in {1, 2, 3, 6} : i + n <= l + 1 /\ UnitAt(b, i, n) /\ x[1] = Unit(b, i, n)
  <2>1. i \in 1 .. l
    BY <1>1, <1>7
  <2>2. PICK n \in {1, 2, 3, 6} : \E r : Begins(b, i, f, x, n, r)
    BY <2>1, WayBegins
  <2>3. PICK r : Begins(b, i, f, x, n, r)
    BY <2>2
  <2>4. r \in f[i + n] /\ i + n <= l + 1 /\ UnitAt(b, i, n) /\ i + n \in 1 .. (l + 1)
    BY <1>1, <2>3 DEF Begins
  <2>5. r \in Seq(Text)
    BY <1>5, <2>4
  <2>6. x # <<>> /\ x[1] = Unit(b, i, n)
    BY <1>3, <2>1, <2>3, <2>5
  <2>. QED  BY <2>4, <2>6
<1>. QED  BY <1>5, <1>6, <1>7

\* A first half goes together with the second half behind it.
LEMMA HalvesStay ==
    ASSUME NEW b \in Text, NEW f, Reading(b, 1, f), NEW i \in 1 .. Len(b), NEW n \in {1, 2, 3, 6},
           i + n <= Len(b) + 1, UnitAt(b, i, n), NEW r \in f[i + n]
    PROVE  Halved(Unit(b, i, n), r) <=> n = 3 /\ PairAt(b, i)
<1>1. Len(b) \in Nat
  BY AtIs
<1>. DEFINE j == i + n
<1>2. j \in 1 .. (Len(b) + 1) /\ (j # Len(b) + 1 => j \in 1 .. Len(b))
  BY <1>1
<1>. HIDE DEF j
<1>3. r \in f[j]
  BY DEF j
<1>4. CASE j = Len(b) + 1
  <2>1. r = <<>>
    BY <1>2, <1>3, <1>4, WayIs
  <2>2. ~(n = 3 /\ PairAt(b, i))
    BY <1>1, <1>4 DEF PairAt, j
  <2>. QED  BY <2>1, <2>2 DEF Halved
<1>5. CASE j # Len(b) + 1
  <2>1. r # <<>> /\ \E l \in {1, 2, 3, 6} : j + l <= Len(b) + 1 /\ UnitAt(b, j, l) /\ r[1] = Unit(b, j, l)
    BY <1>2, <1>3, <1>5, WayIs
  <2>2. PICK l \in {1, 2, 3, 6} : j + l <= Len(b) + 1 /\ UnitAt(b, j, l) /\ r[1] = Unit(b, j, l)
    BY <2>1
  <2>3. j = i + n
    BY DEF j
  <2>4. IsUnit(Unit(b, i, n) \o Unit(b, j, l)) <=> n = 3 /\ PairAt(b, i)
    BY <2>2, <2>3, HalvedIs
  <2>. QED  BY <2>1, <2>2, <2>4 DEF Halved
<1>. QED  BY <1>4, <1>5

LEMMA UnitsDiffer ==
    ASSUME NEW b, NEW i, NEW n, NEW m, UnitAt(b, i, n), UnitAt(b, i, m), m # n
    PROVE  (n = 3 /\ m = 6) \/ (n = 6 /\ m = 3)
BY DEF UnitAt, Simple

LEMMA NoWays ==
    ASSUME NEW b \in Text, NEW f, Reading(b, 1, f), NEW i \in 1 .. Len(b),
           \A n \in {1, 2, 3, 6} : ~(i + n <= Len(b) + 1 /\ UnitAt(b, i, n))
    PROVE  f[i] = {}
<1>1. ASSUME NEW x, x \in f[i] PROVE FALSE
  <2>1. PICK m \in {1, 2, 3, 6} : \E r : Begins(b, i, f, x, m, r)
    BY <1>1, WayBegins
  <2>2. PICK r : Begins(b, i, f, x, m, r)
    BY <2>1
  <2>3. i + m <= Len(b) + 1 /\ UnitAt(b, i, m)
    BY <2>2 DEF Begins
  <2>. QED  BY <2>3
<1>. QED  BY <1>1

\* What a way beginning with the unit u stands for.
LEMMA ValuesAre ==
    ASSUME NEW ways \in SUBSET Seq(Text), NEW u \in Text, NEW more, \A x : x \in more <=> \E r \in ways : x = <<u>> \o r
    PROVE  Values(more) = {<<Meaning(u)>> \o v : v \in Values(ways)}
<1>. DEFINE M == {Meaning(t) : t \in Text}
            mean(r) == [k \in DOMAIN r |-> Meaning(r[k])]
<1>1. ASSUME NEW r \in Seq(Text) PROVE mean(<<u>> \o r) = <<Meaning(u)>> \o mean(r)
  <2>1. Len(r) \in Nat /\ DOMAIN r = 1 .. Len(r) /\ \A k \in 1 .. Len(r) : r[k] \in Text
    OBVIOUS
  <2>. DEFINE x == <<u>> \o r
              v == mean(r)
              c == Meaning(u)
              y == <<c>> \o v
  <2>2. /\ x \in Seq(Text) /\ Len(x) = Len(r) + 1 /\ x[1] = u
        /\ \A k \in 1 .. Len(r) : x[k + 1] = r[k]
    OBVIOUS
  <2>3. v \in Seq(M) /\ Len(v) = Len(r) /\ \A k \in 1 .. Len(r) : v[k] = Meaning(r[k])
    <3>1. \A k \in 1 .. Len(r) : Meaning(r[k]) \in M
      BY <2>1
    <3>2. v = [k \in 1 .. Len(r) |-> Meaning(r[k])]
      BY <2>1
    <3>. HIDE DEF M
    <3>. QED  BY <2>1, <3>1, <3>2
  <2>4. c \in M
    OBVIOUS
  <2>. HIDE DEF v, x, c, M
  <2>5. /\ y \in Seq(M) /\ Len(y) = Len(r) + 1 /\ y[1] = c
        /\ \A k \in 1 .. Len(r) : y[k + 1] = v[k]
    BY <2>1, <2>3, <2>4
  <2>. HIDE DEF y
  <2>6. \A k \in 1 .. (Len(r) + 1) : k = 1 \/ (k - 1 \in 1 .. Len(r) /\ (k - 1) + 1 = k)
    BY <2>1
  <2>7. \A k \in 1 .. (Len(r) + 1) : y[k] = Meaning(x[k])
    <3>1. ASSUME NEW k \in 1 .. (Len(r) + 1) PROVE y[k] = Meaning(x[k])
      <4>1. CASE k = 1
        BY <2>2, <2>5, <4>1 DEF c
      <4>2. CASE k # 1
        <5>. DEFINE j == k - 1
        <5>1. j \in 1 .. Len(r) /\ j + 1 = k
          BY <2>6, <4>2
        <5>. HIDE DEF j
        <5>2. y[j + 1] = Meaning(x[j + 1])
          BY <2>2, <2>3, <2>5, <5>1
        <5>. QED  BY <5>1, <5>2
      <4>. QED  BY <4>1, <4>2
    <3>. QED  BY <3>1
  <2>8. y = [k \in DOMAIN x |-> Meaning(x[k])]
    <3>1. DOMAIN x = 1 .. (Len(r) + 1)
      BY <2>1, <2>2
    <3>2. y = [k \in 1 .. (Len(r) + 1) |-> y[k]]
      BY <2>1, <2>5
    <3>. QED  BY <2>7, <3>1, <3>2
  <2>. QED  BY <2>8 DEF x, y, v, c
<1>2. Values(more) = {mean(x) : x \in more}
  BY DEF Values
<1>3. Values(ways) = {mean(r) : r \in ways}
  BY DEF Values
<1>. HIDE DEF mean
<1>4. ASSUME NEW w \in Values(more) PROVE \E v \in Values(ways) : w = <<Meaning(u)>> \o v
  <2>1. PICK x \in more : w = mean(x)
    BY <1>2
  <2>2. PICK r \in ways : x = <<u>> \o r
    BY <2>1
  <2>3. mean(x) = <<Meaning(u)>> \o mean(r)
    BY <1>1, <2>2
  <2>. QED  BY <1>3, <2>1, <2>2, <2>3
<1>5. ASSUME NEW v \in Values(ways) PROVE <<Meaning(u)>> \o v \in Values(more)
  <2>1. PICK r \in ways : v = mean(r)
    BY <1>3
  <2>2. <<u>> \o r \in more
    BY <2>1
  <2>3. mean(<<u>> \o r) = <<Meaning(u)>> \o v
    BY <1>1, <2>1
  <2>. QED  BY <1>2, <2>2, <2>3
<1>. QED  BY <1>4, <1>5

Prefixed(c, values) == {<<c>> \o v : v \in values}

\* One unit stands at i, and how b is read from there on is how it is read behind it.
LEMMA NextValues ==
    ASSUME NEW b \in Text, NEW f, Reading(b, 1, f), NEW i \in 1 .. Len(b), NEW n \in {1, 2, 3, 6},
           i + n <= Len(b) + 1, UnitAt(b, i, n), n = 3 => ~PairAt(b, i)
    PROVE  Values(f[i]) = Prefixed(MeaningAt(b, i, n), Values(f[i + n]))
<1>1. ASSUME NEW x, x \in f[i] PROVE \E r \in f[i + n] : x = <<Unit(b, i, n)>> \o r
  <2>1. PICK m \in {1, 2, 3, 6} : \E r : Begins(b, i, f, x, m, r)
    BY <1>1, WayBegins
  <2>2. PICK r : Begins(b, i, f, x, m, r)
    BY <2>1
  <2>3. i + m <= Len(b) + 1 /\ UnitAt(b, i, m) /\ r \in f[i + m] /\ ~Halved(Unit(b, i, m), r) /\ x = <<Unit(b, i, m)>> \o r
    BY <2>2 DEF Begins
  <2>4. CASE m = n
    BY <2>3, <2>4
  <2>5. CASE m # n
    <3>1. ~(m = 3 /\ PairAt(b, i))
      BY <2>3, HalvesStay
    <3>2. (n = 3 /\ m = 6) \/ (n = 6 /\ m = 3)
      BY <2>3, <2>5, UnitsDiffer
    <3>. QED  BY <2>3, <3>1, <3>2 DEF PairAt
  <2>. QED  BY <2>4, <2>5
<1>2. ASSUME NEW r \in f[i + n], NEW x, x = <<Unit(b, i, n)>> \o r PROVE x \in f[i]
  <2>1. ~Halved(Unit(b, i, n), r)
    BY HalvesStay
  <2>2. Begins(b, i, f, x, n, r)
    BY <1>2, <2>1 DEF Begins
  <2>3. x \in f[i] <=> \E m \in {1, 2, 3, 6} : \E s : Begins(b, i, f, x, m, s)
    BY WaysIs
  <2>. QED  BY <2>2, <2>3
<1>. DEFINE ways == f[i + n]
            more == f[i]
            u    == Unit(b, i, n)
<1>3. n \in Nat \ {0} /\ i + n \in 1 .. (Len(b) + 1)
  BY AtIs
<1>4. u \in Text /\ Meaning(u) = MeaningAt(b, i, n)
  BY <1>3, UnitIs, UnitSub DEF Unit
<1>5. ways \in SUBSET Seq(Text)
  BY <1>3, WayIs
<1>6. \A x : x \in more <=> \E r \in ways : x = <<u>> \o r
  BY <1>1, <1>2
<1>. HIDE DEF ways, more, u
<1>7. Values(more) = {<<Meaning(u)>> \o v : v \in Values(ways)}
  BY <1>4, <1>5, <1>6, ValuesAre
<1>. QED  BY <1>4, <1>7 DEF ways, more, Prefixed

\* b is what stands in front of the quote at q.
Literal(src, q, b) == q \in 1 .. Len(src) /\ src[q] = "quote" /\ b = SubSeq(src, 1, q - 1)

LEMMA LiteralIs ==
    ASSUME NEW src \in Text, NEW q, NEW b, Literal(src, q, b)
    PROVE  /\ q \in Nat \ {0} /\ b \in Text /\ Len(b) = q - 1
           /\ \A k \in 1 .. (q - 1) : k \in 1 .. Len(src) /\ b[k] = src[k] /\ At(src, k) = src[k]
           /\ At(src, q) = "quote"
<1>1. Len(src) \in Nat /\ q \in 1 .. Len(src) /\ src[q] = "quote"
  BY AtIs DEF Literal
<1>2. 1 \in 1 .. (Len(src) + 1) /\ q - 1 \in (1 - 1) .. Len(src) /\ ((q - 1) - 1) + 1 = q - 1
  BY <1>1
<1>3. /\ SubSeq(src, 1, q - 1) \in Text /\ Len(SubSeq(src, 1, q - 1)) = ((q - 1) - 1) + 1
      /\ \A k \in 1 .. (((q - 1) - 1) + 1) : SubSeq(src, 1, q - 1)[k] = src[(1 + k) - 1]
  BY <1>2, SubIs
<1>4. \A k \in 1 .. (q - 1) : k \in 1 .. Len(src) /\ (1 + k) - 1 = k
  BY <1>1
<1>5. \A k \in 1 .. (q - 1) : b[k] = src[k] /\ At(src, k) = src[k]
  <2>1. b = SubSeq(src, 1, q - 1)
    BY DEF Literal
  <2>. QED  BY <1>2, <1>3, <1>4, <2>1, AtIs
<1>6. b \in Text /\ Len(b) = q - 1
  BY <1>2, <1>3 DEF Literal
<1>. QED  BY <1>1, <1>4, <1>5, <1>6, AtIs

\* What the code reads is a unit of the literal.
LEMMA ReadUnit ==
    ASSUME NEW src \in Text, NEW q, NEW b, Literal(src, q, b), NEW i \in 1 .. (q - 1),
           NEW n, NEW c, Reads(src, i, n, c), i + n <= q
    PROVE  UnitAt(b, i, n) /\ MeaningAt(b, i, n) = c /\ (n = 3 => ~PairAt(b, i))
<1>1. /\ q \in Nat \ {0} /\ b \in Text /\ Len(b) = q - 1
      /\ \A k \in 1 .. (q - 1) : k \in 1 .. Len(src) /\ b[k] = src[k] /\ At(src, k) = src[k]
  BY LiteralIs
<1>2. b[i] = src[i]
  BY <1>1
<1>3. CASE n = 1 /\ src[i] \notin {"quote", "back"} /\ c = src[i]
  BY <1>2, <1>3 DEF UnitAt, MeaningAt
<1>4. CASE n = 2 /\ src[i] = "back" /\ At(src, i + 1) \in Simple /\ c = Unescaped[src[i + 1]]
  <2>1. i + 1 \in 1 .. (q - 1)
    BY <1>1, <1>4
  <2>2. b[i + 1] = src[i + 1] /\ src[i + 1] \in Simple
    BY <1>1, <1>4, <2>1
  <2>3. c = IF b[i + 1] = "n" THEN "nl" ELSE b[i + 1]
    BY <1>4, <2>2 DEF Simple, Unescaped
  <2>. QED  BY <1>2, <1>4, <2>2, <2>3 DEF UnitAt, MeaningAt
<1>5. CASE /\ n = 3 /\ src[i] = "back" /\ At(src, i + 1) = "u" /\ At(src, i + 2) \in Codes
           /\ ~(src[i + 2] = "high" /\ Paired(src, i + 2)) /\ c = Decoded(src[i + 2])
  <2>1. i + 1 \in 1 .. (q - 1) /\ i + 2 \in 1 .. (q - 1)
    BY <1>1, <1>5
  <2>2. b[i + 1] = "u" /\ b[i + 2] = src[i + 2] /\ b[i + 2] \in Codes
    BY <1>1, <1>5, <2>1
  <2>3. ~PairAt(b, i)
    <3>. SUFFICES ASSUME PairAt(b, i) PROVE FALSE
      OBVIOUS
    <3>1. /\ i + 6 <= q /\ b[i + 2] = "high" /\ b[i + 3] = "back" /\ b[i + 4] = "u" /\ b[i + 5] = "low"
      BY <1>1 DEF PairAt, UnitAt
    <3>2. /\ i + 3 \in 1 .. (q - 1) /\ i + 4 \in 1 .. (q - 1) /\ i + 5 \in 1 .. (q - 1)
          /\ (i + 2) + 1 = i + 3 /\ (i + 2) + 2 = i + 4 /\ (i + 2) + 3 = i + 5
      BY <1>1, <3>1
    <3>3. At(src, i + 3) = "back" /\ At(src, i + 4) = "u" /\ At(src, i + 5) = "low"
      BY <1>1, <3>1, <3>2
    <3>4. Paired(src, i + 2)
      BY <3>2, <3>3 DEF Paired
    <3>. QED  BY <1>5, <2>2, <3>1, <3>4
  <2>. QED  BY <1>2, <1>5, <2>2, <2>3 DEF UnitAt, MeaningAt
<1>6. CASE /\ n = 6 /\ src[i] = "back" /\ At(src, i + 1) = "u" /\ At(src, i + 2) = "high"
           /\ Paired(src, i + 2) /\ c = "pair"
  <2>1. /\ i + 1 \in 1 .. (q - 1) /\ i + 2 \in 1 .. (q - 1) /\ i + 3 \in 1 .. (q - 1) /\ i + 4 \in 1 .. (q - 1)
        /\ i + 5 \in 1 .. (q - 1) /\ (i + 2) + 1 = i + 3 /\ (i + 2) + 2 = i + 4 /\ (i + 2) + 3 = i + 5
    BY <1>1, <1>6
  <2>2. At(src, i + 3) = "back" /\ At(src, i + 4) = "u" /\ At(src, i + 5) = "low"
    BY <1>6, <2>1 DEF Paired
  <2>3. b[i + 1] = "u" /\ b[i + 2] = "high" /\ b[i + 3] = "back" /\ b[i + 4] = "u" /\ b[i + 5] = "low"
    BY <1>1, <1>6, <2>1, <2>2
  <2>. QED  BY <1>2, <1>6, <2>3 DEF UnitAt, MeaningAt
<1>. QED  BY <1>3, <1>4, <1>5, <1>6 DEF Reads

\* A quote the code does not stop at, or an escape it refuses, ends or begins no unit.
LEMMA NoUnit ==
    ASSUME NEW src \in Text, NEW q, NEW b, Literal(src, q, b), NEW i \in 1 .. (q - 1),
           \/ src[i] = "quote"
           \/ Refused(src, i)
           \/ \E n, c : Reads(src, i, n, c) /\ i + n > q,
           NEW m \in {1, 2, 3, 6}, i + m <= q
    PROVE  ~UnitAt(b, i, m)
<1>1. /\ q \in Nat \ {0} /\ At(src, q) = "quote"
      /\ \A k \in 1 .. (q - 1) : k \in 1 .. Len(src) /\ b[k] = src[k] /\ At(src, k) = src[k]
  BY LiteralIs
<1>2. b[i] = src[i] /\ i \in 1 .. Len(src)
  BY <1>1
<1>3. CASE src[i] = "quote"
  BY <1>2, <1>3 DEF UnitAt
<1>4. CASE Refused(src, i)
  <2>1. m >= 2 => i + 1 \in 1 .. (q - 1)
    BY <1>1
  <2>2. m >= 3 => i + 2 \in 1 .. (q - 1)
    BY <1>1
  <2>3. (m >= 2 => b[i + 1] = At(src, i + 1)) /\ (m >= 3 => b[i + 2] = At(src, i + 2))
    BY <1>1, <2>1, <2>2
  <2>4. "high" \in Codes
    BY DEF Codes
  <2>. QED  BY <1>2, <1>4, <2>3, <2>4 DEF UnitAt, Refused
<1>5. CASE \E n, c : Reads(src, i, n, c) /\ i + n > q
  <2>1. PICK n, c : Reads(src, i, n, c) /\ i + n > q
    BY <1>5
  <2>2. n \in {1, 2, 3, 6}
    BY <1>2, <2>1, ReadsInside
  <2>3. n # 1
    BY <1>1, <2>1
  <2>4. CASE n = 2
    <3>1. m = 1 /\ src[i] = "back"
      BY <1>1, <2>1, <2>4 DEF Reads
    <3>. QED  BY <1>2, <3>1 DEF UnitAt
  <2>5. CASE n = 3
    <3>1. At(src, i + 1) = "u" /\ At(src, i + 2) \in Codes
      BY <2>1, <2>5 DEF Reads
    <3>2. q = i + 1 \/ q = i + 2
      BY <1>1, <2>1, <2>5
    <3>. QED  BY <1>1, <3>1, <3>2 DEF Codes
  <2>6. CASE n = 6
    <3>1. At(src, i + 1) = "u" /\ At(src, i + 2) = "high" /\ Paired(src, i + 2)
      BY <2>1, <2>6 DEF Reads
    <3>2. At(src, i + 3) = "back" /\ At(src, i + 4) = "u" /\ At(src, i + 5) = "low"
      <4>1. (i + 2) + 1 = i + 3 /\ (i + 2) + 2 = i + 4 /\ (i + 2) + 3 = i + 5
        OBVIOUS
      <4>. QED  BY <3>1, <4>1 DEF Paired
    <3>3. q = i + 1 \/ q = i + 2 \/ q = i + 3 \/ q = i + 4 \/ q = i + 5
      BY <1>1, <2>1, <2>6
    <3>. QED  BY <1>1, <3>1, <3>2, <3>3
  <2>. QED  BY <2>2, <2>3, <2>4, <2>5, <2>6
<1>. QED  BY <1>3, <1>4, <1>5

\* The literal up to a quote can be read when the code stops at that quote, as the
\* code reads it and in no other way.
LEMMA ReadingIs ==
    ASSUME NEW src \in Text, NEW f, Decoding(src, 1, f), NEW q, NEW b, Literal(src, q, b),
           NEW g, Reading(b, 1, g), NEW i \in 1 .. q
    PROVE  Values(g[i]) = IF f[i].ok /\ f[i].used = q THEN {f[i].val} ELSE {}
<1>. DEFINE l == Len(b)
            Same(k) == Values(g[k]) = IF f[k].ok /\ f[k].used = q THEN {f[k].val} ELSE {}
            S == {k \in 1 .. (l + 1) : Same(k)}
<1>1. /\ l \in Nat /\ q = l + 1 /\ b \in Text /\ q \in 1 .. Len(src) /\ src[q] = "quote" /\ Len(src) \in Nat
      /\ \A k \in 1 .. l : k \in 1 .. Len(src) /\ k \in 1 .. (q - 1)
  <2>1. q \in 1 .. Len(src) /\ src[q] = "quote"
    BY DEF Literal
  <2>2. q \in Nat \ {0} /\ b \in Text /\ l = q - 1
    BY LiteralIs
  <2>3. Len(src) \in Nat
    BY AtIs
  <2>. HIDE DEF l
  <2>. QED  BY <2>1, <2>2, <2>3
<1>2. Values({}) = {}
  BY DEF Values
<1>3. l + 1 \in S
  <2>1. g[l + 1] = {<<>>}
    BY <1>1, WaysIs
  <2>2. Values({<<>>}) = {<<>>}
    <3>1. [k \in DOMAIN <<>> |-> Meaning(<<>>[k])] = <<>>
      OBVIOUS
    <3>. QED  BY <3>1 DEF Values
  <2>3. f[q] = [ok |-> TRUE, val |-> <<>>, used |-> q]
    BY <1>1, FromIs
  <2>4. l + 1 \in 1 .. (l + 1)
    BY <1>1
  <2>5. f[l + 1].ok /\ f[l + 1].used = q /\ f[l + 1].val = <<>>
    BY <1>1, <2>3
  <2>. QED  BY <2>1, <2>2, <2>4, <2>5
<1>4. ASSUME NEW k \in 1 .. l, \A j \in (k + 1) .. (l + 1) : j \in S PROVE k \in S
  <2>1. k \in 1 .. (l + 1) /\ k \in 1 .. Len(src) /\ k \in 1 .. (q - 1) /\ k # q
    BY <1>1
  <2>2. ASSUME src[k] = "quote" \/ Refused(src, k) \/ \E n, c : Reads(src, k, n, c) /\ k + n > q
        PROVE  Values(g[k]) = {}
    <3>1. \A m \in {1, 2, 3, 6} : k + m <= q => ~UnitAt(b, k, m)
      BY <2>1, <2>2, NoUnit
    <3>2. g[k] = {}
      BY <1>1, <3>1, NoWays
    <3>. QED  BY <1>2, <3>2
  <2>3. CASE src[k] = "quote"
    <3>1. f[k] = [ok |-> TRUE, val |-> <<>>, used |-> k]
      BY <2>1, <2>3, FromIs
    <3>2. f[k].used = k
      BY <3>1
    <3>. QED  BY <2>1, <2>2, <2>3, <3>2
  <2>4. CASE Refused(src, k)
    <3>1. f[k] = NoString
      BY <2>1, <2>4, FromRefused
    <3>2. ~f[k].ok
      BY <3>1 DEF NoString
    <3>. QED  BY <2>1, <2>2, <2>4, <3>2
  <2>5. CASE \E n, c : Reads(src, k, n, c)
    <3>1. PICK n, c : Reads(src, k, n, c)
      BY <2>5
    <3>. DEFINE m == k + n
                r == f[m]
    <3>2. n \in {1, 2, 3, 6} /\ m \in (k + 1) .. (Len(src) + 1) /\ m \in 1 .. (Len(src) + 1) /\ c \in Character
      BY <2>1, <3>1, ReadsInside
    <3>3. f[k] = Joined(c, r)
      BY <2>1, <3>1, FromReads
    <3>. HIDE DEF m
    <3>4. r \in Out /\ (r.ok => r.used \in m .. Len(src))
      BY <3>2, DecodedIs
    <3>. HIDE DEF r
    <3>5. f[k].ok = r.ok /\ (r.ok => f[k].used = r.used /\ f[k].val = <<c>> \o r.val)
      <4>1. /\ Joined(c, r).ok = r.ok
            /\ r.ok => Joined(c, r) = [ok |-> TRUE, val |-> <<c>> \o r.val, used |-> r.used]
        BY <3>2, <3>4, JoinedIs
      <4>. QED  BY <3>3, <4>1
    <3>6. CASE m > q
      <4>1. Values(g[k]) = {}
        BY <2>2, <3>1, <3>6 DEF m
      <4>2. r.ok => r.used # q
        BY <1>1, <3>2, <3>4, <3>6
      <4>. QED  BY <2>1, <3>5, <4>1, <4>2
    <3>7. CASE ~(m > q)
      <4>1. k + n <= q /\ m \in (k + 1) .. (l + 1) /\ m \in 1 .. (l + 1) /\ k + n <= Len(b) + 1
        BY <1>1, <3>2, <3>7 DEF m
      <4>2. UnitAt(b, k, n) /\ MeaningAt(b, k, n) = c /\ (n = 3 => ~PairAt(b, k))
        BY <2>1, <3>1, <4>1, ReadUnit
      <4>3. Values(g[k]) = {<<c>> \o v : v \in Values(g[m])}
        <5>1. Values(g[k]) = Prefixed(MeaningAt(b, k, n), Values(g[k + n]))
          BY <1>1, <3>2, <4>1, <4>2, NextValues
        <5>. QED  BY <4>2, <5>1 DEF m, Prefixed
      <4>4. Values(g[m]) = IF r.ok /\ r.used = q THEN {r.val} ELSE {}
        BY <1>4, <4>1 DEF r
      <4>. QED  BY <2>1, <3>5, <4>3, <4>4
    <3>. QED  BY <3>6, <3>7
  <2>. QED  BY <2>1, <2>3, <2>4, <2>5, PieceIs
<1>5. i \in S
  <2>1. 1 .. (l + 1) \subseteq S
    <3>. HIDE DEF S, l
    <3>. QED  BY <1>1, <1>3, <1>4, Downwards
  <2>. QED  BY <1>1, <2>1
<1>. QED  BY <1>5

LEMMA DecodeIs ==
    ASSUME NEW src \in Text, NEW out, out = DecodeEscaped(src), NEW ends,
           ends = {u \in DOMAIN src : src[u] = "quote" /\ Readings(SubSeq(src, 1, u - 1)) # {}}
    PROVE  /\ out \in Out
           /\ out.ok <=> ends # {}
           /\ out.ok => ends = {out.used} /\ Readings(SubSeq(src, 1, out.used - 1)) = {out.val}
<1>1. PICK f : Decoding(src, 1, f) /\ out = f[1]
  BY DecodingFor
<1>2. Len(src) \in Nat /\ 1 \in 1 .. (Len(src) + 1) /\ DOMAIN src = 1 .. Len(src)
  BY AtIs DEF Text
<1>3. out \in Out /\ (out.ok => out.used \in 1 .. Len(src) /\ src[out.used] = "quote")
  BY <1>1, <1>2, DecodedIs
<1>4. ASSUME NEW q \in 1 .. Len(src), src[q] = "quote"
      PROVE  Readings(SubSeq(src, 1, q - 1)) = IF out.ok /\ out.used = q THEN {out.val} ELSE {}
  <2>. DEFINE b == SubSeq(src, 1, q - 1)
  <2>1. Literal(src, q, b)
    BY <1>4 DEF Literal
  <2>. HIDE DEF b
  <2>2. b \in Text
    BY <2>1, LiteralIs
  <2>3. PICK g : Reading(b, 1, g) /\ Readings(b) = Values(g[1])
    BY <2>2, ReadingFor
  <2>4. 1 \in 1 .. q
    OBVIOUS
  <2>5. Values(g[1]) = IF f[1].ok /\ f[1].used = q THEN {f[1].val} ELSE {}
    BY <1>1, <2>1, <2>3, <2>4, ReadingIs
  <2>. QED  BY <1>1, <2>3, <2>5 DEF b
<1>5. ends = {u \in 1 .. Len(src) : src[u] = "quote" /\ out.ok /\ out.used = u}
  <2>1. \A u \in 1 .. Len(src) : src[u] = "quote" => (Readings(SubSeq(src, 1, u - 1)) # {} <=> out.ok /\ out.used = u)
    BY <1>4
  <2>. QED  BY <1>2, <2>1
<1>6. out.ok => Readings(SubSeq(src, 1, out.used - 1)) = {out.val}
  BY <1>3, <1>4
<1>. QED  BY <1>3, <1>5, <1>6

-----------------------------------------------------------------------------
(* Strings: read as they are, and written.                                 *)

LEMMA FirstOfIs ==
    ASSUME NEW s \in Text, NEW chars
    PROVE  /\ FirstOf(s, chars) \in 0 .. Len(s)
           /\ FirstOf(s, chars) = 0 => \A k \in 1 .. Len(s) : s[k] \notin chars
           /\ FirstOf(s, chars) # 0 => /\ s[FirstOf(s, chars)] \in chars
                                       /\ \A k \in 1 .. (FirstOf(s, chars) - 1) : s[k] \notin chars
<1>. DEFINE at == {i \in DOMAIN s : s[i] \in chars}
            m  == Min(at)
<1>1. DOMAIN s = 1 .. Len(s) /\ Len(s) \in Nat
  BY DEF Text
<1>2. CASE at = {}
  BY <1>1, <1>2 DEF FirstOf
<1>3. CASE at # {}
  <2>1. at \in SUBSET Nat
    BY <1>1
  <2>. HIDE DEF at
  <2>2. m \in at /\ \A x \in at : m <= x
    BY <1>3, <2>1, MinIs
  <2>3. FirstOf(s, chars) = m
    BY <1>3 DEF FirstOf, at
  <2>. HIDE DEF m
  <2>4. m \in 1 .. Len(s) /\ s[m] \in chars
    BY <1>1, <2>2 DEF at
  <2>5. ASSUME NEW k \in 1 .. (m - 1) PROVE s[k] \notin chars
    <3>1. k \in 1 .. Len(s) /\ ~(m <= k)
      BY <1>1, <2>4
    <3>. QED  BY <1>1, <2>2, <3>1 DEF at
  <2>. QED  BY <1>1, <2>3, <2>4, <2>5
<1>. QED  BY <1>2, <1>3

LEMMA ConsSub ==
    ASSUME NEW s \in Text, NEW k \in 1 .. Len(s), NEW j \in k .. Len(s)
    PROVE  <<s[k]>> \o SubSeq(s, k + 1, j) = SubSeq(s, k, j)
<1>1. Len(s) \in Nat /\ s[k] \in Character
  BY DEF Text
<1>2. /\ k \in 1 .. (Len(s) + 1) /\ j \in (k - 1) .. Len(s) /\ k + 1 \in 1 .. (Len(s) + 1)
      /\ j \in ((k + 1) - 1) .. Len(s) /\ (j - k) + 1 \in Nat /\ (j - (k + 1)) + 1 = j - k /\ j - k \in Nat
  BY <1>1
<1>. DEFINE c == s[k]
            t == SubSeq(s, k + 1, j)
            w == SubSeq(s, k, j)
            x == <<c>> \o t
<1>3. t \in Text /\ Len(t) = (j - (k + 1)) + 1 /\ \A i \in 1 .. ((j - (k + 1)) + 1) : t[i] = s[((k + 1) + i) - 1]
  BY <1>2, SubIs
<1>4. w \in Text /\ Len(w) = (j - k) + 1 /\ \A i \in 1 .. ((j - k) + 1) : w[i] = s[(k + i) - 1]
  BY <1>2, SubIs
<1>5. c \in Character
  BY <1>1
<1>. HIDE DEF c, t, w
<1>6. t \in Seq(Character) /\ Len(t) = j - k
  BY <1>2, <1>3 DEF Text
<1>7. /\ x \in Seq(Character) /\ Len(x) = (j - k) + 1 /\ x[1] = c
      /\ \A i \in 1 .. (j - k) : x[i + 1] = t[i]
  BY <1>2, <1>5, <1>6
<1>. HIDE DEF x
<1>8. ASSUME NEW i \in 1 .. ((j - k) + 1) PROVE x[i] = w[i]
  <2>1. w[i] = s[(k + i) - 1]
    BY <1>4
  <2>2. CASE i = 1
    <3>1. (k + i) - 1 = k
      BY <2>2
    <3>. QED  BY <1>7, <2>1, <2>2, <3>1 DEF c
  <2>3. CASE i # 1
    <3>. DEFINE h == i - 1
    <3>1. h \in 1 .. (j - k) /\ h + 1 = i /\ ((k + 1) + h) - 1 = (k + i) - 1 /\ h \in 1 .. ((j - (k + 1)) + 1)
      BY <1>2, <2>3
    <3>. HIDE DEF h
    <3>2. x[h + 1] = t[h] /\ t[h] = s[((k + 1) + h) - 1]
      BY <1>3, <1>7, <3>1
    <3>. QED  BY <2>1, <3>1, <3>2
  <2>. QED  BY <2>2, <2>3
<1>9. x = w
  <2>1. w \in Seq(Character) /\ Len(x) = Len(w) /\ \A i \in 1 .. Len(w) : x[i] = w[i]
    BY <1>4, <1>7, <1>8 DEF Text
  <2>. QED  BY <1>7, <2>1
<1>. QED  BY <1>9 DEF x, w, t, c

\* A string without an escape is what the loop would read.
LEMMA ReadStringIs ==
    ASSUME NEW src \in Text
    PROVE  ReadString(src) = DecodeEscaped(src)
<1>. DEFINE i == FirstOf(src, {"quote", "back"})
            l == Len(src)
<1>1. PICK f : Decoding(src, 1, f) /\ DecodeEscaped(src) = f[1]
  BY DecodingFor
<1>2. /\ i \in 0 .. l /\ l \in Nat
      /\ i = 0 => \A k \in 1 .. l : src[k] \notin {"quote", "back"}
      /\ i # 0 => src[i] \in {"quote", "back"} /\ \A k \in 1 .. (i - 1) : src[k] \notin {"quote", "back"}
  BY FirstOfIs, AtIs
<1>3. ReadString(src) = IF i = 0 THEN NoString
                        ELSE IF src[i] = "quote" THEN [ok |-> TRUE, val |-> SubSeq(src, 1, i - 1), used |-> i]
                        ELSE DecodeEscaped(src)
  BY DEF ReadString
<1>. HIDE DEF i
<1>4. ASSUME NEW k \in 1 .. l, src[k] \notin {"quote", "back"}
      PROVE  f[k] = Joined(src[k], f[k + 1])
  <2>1. Reads(src, k, 1, src[k])
    BY <1>4 DEF Reads
  <2>. QED  BY <1>1, <2>1, FromReads
<1>5. CASE i = 0
  <2>. DEFINE S == {k \in 1 .. (l + 1) : f[k] = NoString}
  <2>1. l + 1 \in S
    BY <1>1, <1>2, FromIs
  <2>2. ASSUME NEW k \in 1 .. l, \A j \in (k + 1) .. (l + 1) : j \in S PROVE k \in S
    <3>1. k + 1 \in (k + 1) .. (l + 1) /\ k \in 1 .. (l + 1)
      BY <1>2
    <3>2. f[k] = Joined(src[k], f[k + 1]) /\ f[k + 1] = NoString
      BY <1>2, <1>4, <1>5, <2>2, <3>1
    <3>. QED  BY <3>1, <3>2 DEF Joined, NoString
  <2>3. 1 .. (l + 1) \subseteq S
    <3>. HIDE DEF S, l
    <3>. QED  BY <1>2, <2>1, <2>2, Downwards
  <2>4. 1 \in 1 .. (l + 1)
    BY <1>2
  <2>. QED  BY <1>1, <1>3, <1>5, <2>3, <2>4
<1>6. CASE i # 0 /\ src[i] = "quote"
  <2>. DEFINE h == i - 1
              S == {k \in 1 .. (h + 1) : f[k] = [ok |-> TRUE, val |-> SubSeq(src, k, h), used |-> i]}
  <2>1. h \in Nat /\ h + 1 = i /\ i \in 1 .. l /\ \A k \in 1 .. h : k \in 1 .. l /\ k \in 1 .. (i - 1) /\ h \in k .. l
    BY <1>2, <1>6
  <2>. HIDE DEF h
  <2>2. h + 1 \in S
    <3>1. f[i] = [ok |-> TRUE, val |-> <<>>, used |-> i]
      BY <1>1, <1>6, <2>1, FromIs
    <3>2. SubSeq(src, i, h) = <<>>
      BY <2>1 DEF Text
    <3>3. h + 1 \in 1 .. (h + 1)
      BY <2>1
    <3>. QED  BY <2>1, <3>1, <3>2, <3>3
  <2>3. ASSUME NEW k \in 1 .. h, \A j \in (k + 1) .. (h + 1) : j \in S PROVE k \in S
    <3>1. k + 1 \in (k + 1) .. (h + 1) /\ k \in 1 .. (h + 1) /\ k \in 1 .. l /\ h \in k .. l
      BY <2>1
    <3>2. src[k] \notin {"quote", "back"}
      BY <1>2, <1>6, <2>1
    <3>3. f[k] = Joined(src[k], f[k + 1])
      BY <1>4, <3>1, <3>2
    <3>4. f[k + 1] = [ok |-> TRUE, val |-> SubSeq(src, k + 1, h), used |-> i]
      BY <2>3, <3>1
    <3>5. <<src[k]>> \o SubSeq(src, k + 1, h) = SubSeq(src, k, h)
      BY <3>1, ConsSub
    <3>6. Joined(src[k], f[k + 1]) = [ok |-> TRUE, val |-> <<src[k]>> \o SubSeq(src, k + 1, h), used |-> i]
      <4>. DEFINE c == src[k]
                  v == SubSeq(src, k + 1, h)
      <4>. HIDE DEF c, v
      <4>1. c \in Character
        BY <3>1 DEF c, Text
      <4>2. v \in Text
        <5>1. k + 1 \in 1 .. (Len(src) + 1) /\ h \in ((k + 1) - 1) .. Len(src)
          BY <1>2, <3>1
        <5>. QED  BY <5>1, SubIs DEF v
      <4>3. i \in Nat
        BY <1>2
      <4>4. Joined(c, [ok |-> TRUE, val |-> v, used |-> i]) = [ok |-> TRUE, val |-> <<c>> \o v, used |-> i]
        BY <4>1, <4>2, <4>3, JoinedOk
      <4>. QED  BY <3>4, <4>4 DEF c, v
    <3>. QED  BY <3>1, <3>3, <3>5, <3>6
  <2>4. 1 .. (h + 1) \subseteq S
    <3>. HIDE DEF S
    <3>. QED  BY <2>1, <2>2, <2>3, Downwards
  <2>5. 1 \in 1 .. (h + 1)
    BY <2>1
  <2>6. f[1] = [ok |-> TRUE, val |-> SubSeq(src, 1, h), used |-> i]
    BY <2>4, <2>5
  <2>. QED  BY <1>1, <1>3, <1>6, <2>6 DEF h
<1>. QED  BY <1>2, <1>3, <1>5, <1>6

-----------------------------------------------------------------------------
(* Strings printed.                                                        *)

LEMMA ShortText ==
    ASSUME NEW x \in Character, NEW y \in Character, NEW z \in Character
    PROVE  <<x, y>> \in Text /\ Len(<<x, y>>) = 2 /\ <<x, y, z>> \in Text /\ Len(<<x, y, z>>) = 3
BY DEF Text

LEMMA EscapeIs ==
    ASSUME NEW c \in Character
    PROVE  /\ Escape(c) \in Text /\ Len(Escape(c)) \in {1, 2, 3}
           /\ c \notin Special => Escape(c) = <<c>>
<1>1. CASE c \in {"quote", "back"}
  <2>1. Escape(c) = <<"back", c>>
    BY <1>1 DEF Escape
  <2>. QED  BY <1>1, <2>1, CharactersAre, ShortText DEF Special
<1>2. CASE c = "nl"
  <2>1. Escape(c) = <<"back", "n">>
    BY <1>2 DEF Escape
  <2>2. <<"back", "n">> \in Text /\ Len(<<"back", "n">>) = 2
    BY CharactersAre, ShortText
  <2>. QED  BY <1>2, <2>1, <2>2 DEF Special
<1>3. CASE c = "bell"
  <2>1. Escape(c) = <<"back", "u", "ctrl">>
    BY <1>3 DEF Escape
  <2>2. "ctrl" \in Character
    BY CharactersAre DEF Codes
  <2>3. <<"back", "u", "ctrl">> \in Text /\ Len(<<"back", "u", "ctrl">>) = 3
    BY <2>2, CharactersAre, ShortText
  <2>. QED  BY <1>3, <2>1, <2>3 DEF Special
<1>4. CASE c \notin Special
  <2>1. Escape(c) = <<c>>
    BY <1>4 DEF Escape, Special
  <2>. QED  BY <2>1 DEF Text
<1>. QED  BY <1>1, <1>2, <1>3, <1>4 DEF Special

\* What is written of c is read as c.
LEMMA EscapeReads ==
    ASSUME NEW c \in Character, NEW p \in Text, NEW i \in 1 .. Len(p), NEW e, e = Escape(c),
           i + Len(e) <= Len(p) + 1, \A j \in 1 .. Len(e) : p[(i + j) - 1] = e[j]
    PROVE  Reads(p, i, Len(e), c)
<1>1. Len(p) \in Nat
  BY AtIs
<1>2. CASE c \in {"quote", "back"}
  <2>1. e = <<"back", c>>
    BY <1>2 DEF Escape
  <2>2. Len(e) = 2 /\ e[1] = "back" /\ e[2] = c /\ 1 \in 1 .. Len(e) /\ 2 \in 1 .. Len(e)
    BY <2>1
  <2>3. (i + 1) - 1 = i /\ (i + 2) - 1 = i + 1 /\ i + 1 \in 1 .. Len(p)
    BY <1>1, <2>2
  <2>4. p[i] = "back" /\ p[i + 1] = c /\ At(p, i + 1) = c
    BY <2>2, <2>3, AtIs
  <2>5. c \in Simple /\ Unescaped[c] = c
    BY <1>2 DEF Simple, Unescaped
  <2>. QED  BY <2>2, <2>4, <2>5 DEF Reads
<1>3. CASE c = "nl"
  <2>1. e = <<"back", "n">>
    BY <1>3 DEF Escape
  <2>2. Len(e) = 2 /\ e[1] = "back" /\ e[2] = "n" /\ 1 \in 1 .. Len(e) /\ 2 \in 1 .. Len(e)
    BY <2>1
  <2>3. (i + 1) - 1 = i /\ (i + 2) - 1 = i + 1 /\ i + 1 \in 1 .. Len(p)
    BY <1>1, <2>2
  <2>4. p[i] = "back" /\ p[i + 1] = "n" /\ At(p, i + 1) = "n"
    BY <2>2, <2>3, AtIs
  <2>5. "n" \in Simple /\ Unescaped["n"] = "nl"
    BY DEF Simple, Unescaped
  <2>. QED  BY <1>3, <2>2, <2>4, <2>5 DEF Reads
<1>4. CASE c = "bell"
  <2>1. e = <<"back", "u", "ctrl">>
    BY <1>4 DEF Escape
  <2>2. /\ Len(e) = 3 /\ e[1] = "back" /\ e[2] = "u" /\ e[3] = "ctrl"
        /\ 1 \in 1 .. Len(e) /\ 2 \in 1 .. Len(e) /\ 3 \in 1 .. Len(e)
    BY <2>1
  <2>3. /\ (i + 1) - 1 = i /\ (i + 2) - 1 = i + 1 /\ (i + 3) - 1 = i + 2
        /\ i + 1 \in 1 .. Len(p) /\ i + 2 \in 1 .. Len(p)
    BY <1>1, <2>2
  <2>4. p[i] = "back" /\ p[i + 1] = "u" /\ p[i + 2] = "ctrl" /\ At(p, i + 1) = "u" /\ At(p, i + 2) = "ctrl"
    BY <2>2, <2>3, AtIs
  <2>5. "ctrl" \in Codes /\ Decoded("ctrl") = "bell"
    BY DEF Codes, Decoded
  <2>. QED  BY <1>4, <2>2, <2>4, <2>5 DEF Reads
<1>5. CASE c \notin Special
  <2>1. e = <<c>>
    BY <1>5, EscapeIs
  <2>2. Len(e) = 1 /\ e[1] = c /\ 1 \in 1 .. Len(e) /\ (i + 1) - 1 = i
    BY <2>1
  <2>3. p[i] = c
    BY <2>2
  <2>. QED  BY <1>5, <2>2, <2>3 DEF Reads, Special
<1>. QED  BY <1>2, <1>3, <1>4, <1>5 DEF Special

\* h[k] is what is written of the first k characters of s.
Writing(s, h) ==
    h \in [0 .. Len(s) -> Text] /\ h[0] = <<>> /\ \A k \in 1 .. Len(s) : h[k] = h[k - 1] \o Escape(s[k])

LEMMA WritingFor ==
    ASSUME NEW s \in Text
    PROVE  \E h : Writing(s, h)
<1>. DEFINE n == Len(s)
            step == [p \in (1 .. n) \X Text |-> p[2] \o Escape(s[p[1]])]
<1>1. n \in Nat /\ \A k \in 1 .. n : s[k] \in Character
  BY AtIs DEF Text
<1>2. \A k \in 1 .. n, t \in Text : step[<<k, t>>] = t \o Escape(s[k])
  OBVIOUS
<1>3. step \in [(1 .. n) \X Text -> Text]
  <2>1. ASSUME NEW k \in 1 .. n, NEW t \in Text PROVE t \o Escape(s[k]) \in Text
    <3>1. Escape(s[k]) \in Text
      BY <1>1, EscapeIs
    <3>. QED  BY <3>1 DEF Text
  <2>2. \A p \in (1 .. n) \X Text : p[1] \in 1 .. n /\ p[2] \in Text
    OBVIOUS
  <2>. QED  BY <2>1, <2>2
<1>. HIDE DEF step
<1>4. PICK h : Computes(Text, <<>>, n, step, h)
  <2>1. <<>> \in Text
    BY DEF Text
  <2>. QED  BY <1>1, <1>3, <2>1, Steps, Zenon
<1>5. ASSUME NEW k \in 1 .. n PROVE h[k] = h[k - 1] \o Escape(s[k])
  <2>1. k - 1 \in 0 .. n
    BY <1>1
  <2>2. h[k - 1] \in Text /\ h[k] = step[<<k, h[k - 1]>>]
    BY <1>4, <2>1 DEF Computes
  <2>. QED  BY <1>2, <2>2
<1>. QED  BY <1>4, <1>5 DEF Computes, Writing

LEMMA ConcatIs ==
    ASSUME NEW a \in Text, NEW b \in Text
    PROVE  /\ a \o b \in Text /\ Len(a) \in Nat /\ Len(b) \in Nat /\ Len(a \o b) = Len(a) + Len(b)
           /\ \A j \in 1 .. Len(a) : (a \o b)[j] = a[j]
           /\ \A j \in 1 .. Len(b) : (a \o b)[Len(a) + j] = b[j]
BY DEF Text

LEMMA SameText ==
    ASSUME NEW a \in Text, NEW b \in Text, Len(a) = Len(b), \A j \in 1 .. Len(a) : a[j] = b[j]
    PROVE  a = b
BY DEF Text

LEMMA ConcatAssoc ==
    ASSUME NEW a \in Text, NEW b \in Text, NEW c \in Text
    PROVE  (a \o b) \o c = a \o (b \o c)
<1>. DEFINE x == a \o b
            y == b \o c
            v == x \o c
            w == a \o y
<1>1. /\ x \in Text /\ Len(a) \in Nat /\ Len(b) \in Nat /\ Len(c) \in Nat /\ Len(x) = Len(a) + Len(b)
      /\ \A j \in 1 .. Len(a) : x[j] = a[j]
      /\ \A j \in 1 .. Len(b) : x[Len(a) + j] = b[j]
  BY ConcatIs
<1>2. /\ y \in Text /\ Len(y) = Len(b) + Len(c)
      /\ \A j \in 1 .. Len(b) : y[j] = b[j]
      /\ \A j \in 1 .. Len(c) : y[Len(b) + j] = c[j]
  BY ConcatIs
<1>. HIDE DEF x, y
<1>3. /\ v \in Text /\ Len(v) = Len(x) + Len(c)
      /\ \A j \in 1 .. Len(x) : v[j] = x[j]
      /\ \A j \in 1 .. Len(c) : v[Len(x) + j] = c[j]
  BY <1>1, ConcatIs
<1>4. /\ w \in Text /\ Len(w) = Len(a) + Len(y)
      /\ \A j \in 1 .. Len(a) : w[j] = a[j]
      /\ \A j \in 1 .. Len(y) : w[Len(a) + j] = y[j]
  BY <1>2, ConcatIs
<1>. HIDE DEF v, w
<1>5. Len(v) = Len(w)
  BY <1>1, <1>2, <1>3, <1>4
<1>6. ASSUME NEW j \in 1 .. Len(v) PROVE v[j] = w[j]
  <2>1. CASE j \in 1 .. Len(a)
    <3>1. j \in 1 .. Len(x)
      BY <1>1, <2>1
    <3>. QED  BY <1>1, <1>3, <1>4, <2>1, <3>1
  <2>2. CASE j - Len(a) \in 1 .. Len(b)
    <3>. DEFINE k == j - Len(a)
    <3>1. Len(a) + k = j /\ j \in 1 .. Len(x) /\ k \in 1 .. Len(y) /\ k \in 1 .. Len(b)
      BY <1>1, <1>2, <2>2
    <3>. HIDE DEF k
    <3>2. v[j] = x[j] /\ x[Len(a) + k] = b[k] /\ w[Len(a) + k] = y[k] /\ y[k] = b[k]
      BY <1>1, <1>2, <1>3, <1>4, <3>1
    <3>. QED  BY <3>1, <3>2
  <2>3. CASE j - (Len(a) + Len(b)) \in 1 .. Len(c)
    <3>. DEFINE k == j - (Len(a) + Len(b))
                i == Len(b) + k
    <3>1. Len(x) + k = j /\ Len(a) + i = j /\ i \in 1 .. Len(y) /\ k \in 1 .. Len(c)
      BY <1>1, <1>2, <2>3
    <3>2. i = Len(b) + k
      OBVIOUS
    <3>. HIDE DEF k, i
    <3>3. v[Len(x) + k] = c[k] /\ w[Len(a) + i] = y[i] /\ y[Len(b) + k] = c[k]
      BY <1>2, <1>3, <1>4, <3>1
    <3>. QED  BY <3>1, <3>2, <3>3
  <2>4. j \in 1 .. Len(a) \/ j - Len(a) \in 1 .. Len(b) \/ j - (Len(a) + Len(b)) \in 1 .. Len(c)
    BY <1>1, <1>3
  <2>. QED  BY <2>1, <2>2, <2>3, <2>4
<1>7. v = w
  BY <1>3, <1>4, <1>5, <1>6, SameText
<1>. QED  BY <1>7 DEF v, w, x, y

LEMMA SnocSub ==
    ASSUME NEW s \in Text, NEW k \in 1 .. Len(s)
    PROVE  SubSeq(s, 1, k - 1) \o <<s[k]>> = SubSeq(s, 1, k)
<1>1. Len(s) \in Nat /\ s[k] \in Character
  BY DEF Text
<1>2. /\ 1 \in 1 .. (Len(s) + 1) /\ k - 1 \in (1 - 1) .. Len(s) /\ k \in (1 - 1) .. Len(s)
      /\ ((k - 1) - 1) + 1 = k - 1 /\ (k - 1) + 1 = k /\ k - 1 \in Nat
      /\ \A i \in 1 .. k : (1 + i) - 1 = i
  BY <1>1
<1>. DEFINE a == SubSeq(s, 1, k - 1)
            b == <<s[k]>>
            w == SubSeq(s, 1, k)
            x == a \o b
<1>3. a \in Text /\ Len(a) = ((k - 1) - 1) + 1 /\ \A i \in 1 .. (((k - 1) - 1) + 1) : a[i] = s[(1 + i) - 1]
  BY <1>2, SubIs
<1>4. w \in Text /\ Len(w) = (k - 1) + 1 /\ \A i \in 1 .. ((k - 1) + 1) : w[i] = s[(1 + i) - 1]
  BY <1>2, SubIs
<1>5. b \in Text /\ Len(b) = 1 /\ b[1] = s[k]
  BY <1>1 DEF Text
<1>. HIDE DEF a, b, w
<1>6. /\ x \in Text /\ Len(x) = Len(a) + Len(b)
      /\ \A j \in 1 .. Len(a) : x[j] = a[j]
      /\ \A j \in 1 .. Len(b) : x[Len(a) + j] = b[j]
  BY <1>3, <1>5, ConcatIs
<1>. HIDE DEF x
<1>7. ASSUME NEW j \in 1 .. k PROVE x[j] = w[j]
  <2>1. w[j] = s[j]
    BY <1>2, <1>4
  <2>2. CASE j = k
    <3>1. 1 \in 1 .. Len(b) /\ Len(a) + 1 = k
      BY <1>2, <1>3, <1>5
    <3>. QED  BY <1>5, <1>6, <2>1, <2>2, <3>1
  <2>3. CASE j # k
    <3>1. j \in 1 .. (k - 1)
      BY <1>2, <2>3
    <3>2. x[j] = a[j] /\ a[j] = s[(1 + j) - 1]
      BY <1>2, <1>3, <1>6, <3>1
    <3>. QED  BY <1>2, <2>1, <3>2
  <2>. QED  BY <2>2, <2>3
<1>8. Len(x) = k /\ Len(w) = k
  BY <1>2, <1>3, <1>4, <1>5, <1>6
<1>9. x = w
  BY <1>4, <1>6, <1>7, <1>8, SameText
<1>. QED  BY <1>9 DEF x, a, b, w

LEMMA WritingStep ==
    ASSUME NEW s \in Text, NEW h, Writing(s, h), NEW k \in 1 .. Len(s)
    PROVE  /\ h[k - 1] \in Text /\ Escape(s[k]) \in Text /\ Len(Escape(s[k])) \in {1, 2, 3}
           /\ s[k] \in Character /\ h[k] = h[k - 1] \o Escape(s[k])
<1>1. k - 1 \in 0 .. Len(s) /\ s[k] \in Character
  BY DEF Text
<1>2. Escape(s[k]) \in Text /\ Len(Escape(s[k])) \in {1, 2, 3}
  BY <1>1, EscapeIs
<1>3. h[k - 1] \in Text /\ h[k] = h[k - 1] \o Escape(s[k])
  BY <1>1 DEF Writing
<1>. QED  BY <1>1, <1>2, <1>3

LEMMA WritingGrows ==
    ASSUME NEW s \in Text, NEW h, Writing(s, h), NEW k \in 1 .. Len(s)
    PROVE  /\ Len(h[k - 1]) \in Nat /\ Len(h[k]) >= Len(h[k - 1])
           /\ \A j \in 1 .. Len(h[k - 1]) : h[k][j] = h[k - 1][j]
<1>. DEFINE a == h[k - 1]
            b == h[k]
            e == Escape(s[k])
<1>1. a \in Text /\ e \in Text /\ Len(e) \in {1, 2, 3} /\ b = a \o e
  BY WritingStep
<1>. HIDE DEF a, b, e
<1>2. Len(a) \in Nat /\ Len(b) = Len(a) + Len(e) /\ \A j \in 1 .. Len(a) : b[j] = a[j]
  BY <1>1, ConcatIs
<1>3. Len(b) >= Len(a)
  BY <1>1, <1>2
<1>. QED  BY <1>2, <1>3 DEF a, b

\* What is written later is appended.
LEMMA WritingPrefix ==
    ASSUME NEW s \in Text, NEW h, Writing(s, h), NEW k \in 0 .. Len(s)
    PROVE  /\ Len(h[k]) <= Len(h[Len(s)])
           /\ \A j \in 1 .. Len(h[k]) : h[Len(s)][j] = h[k][j]
<1>. DEFINE n == Len(s)
            Kept(i, m) == Len(h[i]) <= Len(h[m]) /\ \A j \in 1 .. Len(h[i]) : h[m][j] = h[i][j]
            S == {m \in Nat : m <= n => \A i \in 0 .. m : Kept(i, m)}
<1>1. n \in Nat /\ \A i \in 0 .. n : h[i] \in Text /\ Len(h[i]) \in Nat
  BY AtIs DEF Writing
<1>2. 0 \in S
  <2>1. \A i \in 0 .. 0 : i = 0
    OBVIOUS
  <2>2. 0 <= n => Len(h[0]) \in Nat
    BY <1>1
  <2>. QED  BY <2>1, <2>2
<1>3. ASSUME NEW m \in Nat, m \in S PROVE m + 1 \in S
  <2>. SUFFICES ASSUME m + 1 <= n, NEW i \in 0 .. (m + 1) PROVE Kept(i, m + 1)
    OBVIOUS
  <2>. DEFINE k1 == m + 1
  <2>1. k1 \in 1 .. n /\ k1 - 1 = m /\ m <= n /\ k1 \in 0 .. n /\ m \in 0 .. n
    BY <1>1
  <2>2. k1 \in 1 .. Len(s)
    BY <2>1
  <2>. HIDE DEF k1, n
  <2>3. /\ Len(h[k1 - 1]) \in Nat /\ Len(h[k1]) >= Len(h[k1 - 1])
        /\ \A j \in 1 .. Len(h[k1 - 1]) : h[k1][j] = h[k1 - 1][j]
    BY <2>2, WritingGrows
  <2>4. Len(h[m]) \in Nat /\ Len(h[k1]) >= Len(h[m]) /\ \A j \in 1 .. Len(h[m]) : h[k1][j] = h[m][j]
    BY <2>1, <2>3
  <2>5. CASE i = k1
    <3>1. Len(h[k1]) \in Nat
      BY <1>1, <2>1
    <3>2. Kept(k1, k1)
      BY <3>1
    <3>. QED  BY <2>5, <3>2 DEF k1
  <2>6. CASE i # k1
    <3>1. i \in 0 .. m /\ i \in 0 .. n
      BY <1>1, <2>1, <2>6 DEF k1
    <3>2. Kept(i, m)
      BY <1>3, <2>1, <3>1
    <3>3. Len(h[i]) \in Nat
      BY <1>1, <3>1
    <3>4. Len(h[i]) <= Len(h[k1])
      <4>1. Len(h[k1]) \in Nat
        BY <1>1, <2>1
      <4>. QED  BY <2>4, <3>2, <3>3, <4>1
    <3>5. ASSUME NEW j \in 1 .. Len(h[i]) PROVE h[k1][j] = h[i][j]
      <4>1. j \in 1 .. Len(h[m])
        BY <2>4, <3>2, <3>3
      <4>. QED  BY <2>4, <3>2, <4>1
    <3>. QED  BY <3>4, <3>5 DEF k1
  <2>. QED  BY <2>5, <2>6
<1>4. n \in S
  <2>. HIDE DEF S, n
  <2>. QED  BY <1>1, <1>2, <1>3, NatSets
<1>5. n <= n
  BY <1>1
<1>6. Kept(k, n)
  BY <1>4, <1>5
<1>. QED  BY <1>6

Flattening(seqs, f) ==
    f = [i \in 1 .. Len(seqs) |-> IF i = 1 THEN seqs[i] ELSE f[i - 1] \o seqs[i]]

LEMMA FlattenIs ==
    ASSUME NEW d \in Nat, NEW seqs \in [1 .. d -> Text], NEW g \in [0 .. d -> Text], g[0] = <<>>,
           \A k \in 1 .. d : g[k] = g[k - 1] \o seqs[k]
    PROVE  FlattenSeq(seqs) = g[d]
<1>1. Len(seqs) = d
  OBVIOUS
<1>2. CASE d = 0
  <2>1. seqs = <<>>
    BY <1>2
  <2>2. FlattenSeq(seqs) = seqs
    BY <1>1, <1>2 DEF FlattenSeq
  <2>. QED  BY <1>2, <2>1, <2>2
<1>3. CASE d # 0
  <2>. DEFINE F == [k \in 1 .. d |-> g[k]]
              f == CHOOSE x : Flattening(seqs, x)
  <2>1. ASSUME NEW k \in 1 .. d PROVE F[k] = IF k = 1 THEN seqs[k] ELSE F[k - 1] \o seqs[k]
    <3>1. CASE k = 1
      <4>1. g[1] = g[1 - 1] \o seqs[1] /\ 1 - 1 = 0 /\ seqs[1] \in Text
        BY <3>1
      <4>2. <<>> \o seqs[1] = seqs[1]
        BY <4>1 DEF Text
      <4>. QED  BY <3>1, <4>1, <4>2
    <3>2. CASE k # 1
      <4>1. k - 1 \in 1 .. d
        BY <3>2
      <4>. QED  BY <3>2, <4>1
    <3>. QED  BY <3>1, <3>2
  <2>2. Flattening(seqs, F)
    <3>. DEFINE r == [i \in 1 .. d |-> IF i = 1 THEN seqs[i] ELSE F[i - 1] \o seqs[i]]
    <3>1. F = r
      <4>1. \A k \in 1 .. d : F[k] = r[k]
        BY <2>1
      <4>. QED  BY <4>1
    <3>. QED  BY <1>1, <3>1 DEF Flattening
  <2>3. Flattening(seqs, f)
    BY <2>2
  <2>4. FlattenSeq(seqs) = f[d]
    BY <1>1, <1>3 DEF FlattenSeq, Flattening
  <2>. HIDE DEF f
  <2>5. \A k \in 1 .. d : f[k] = IF k = 1 THEN seqs[k] ELSE f[k - 1] \o seqs[k]
    BY <1>1, <2>3 DEF Flattening
  <2>. HIDE DEF F
  <2>. DEFINE S == {m \in Nat : m + 1 <= d => f[m + 1] = F[m + 1]}
  <2>6. 0 \in S
    <3>1. 0 + 1 = 1 /\ 1 \in 1 .. d
      BY <1>3
    <3>. QED  BY <2>1, <2>5, <3>1
  <2>7. ASSUME NEW m \in Nat, m \in S PROVE m + 1 \in S
    <3>1. ASSUME (m + 1) + 1 <= d PROVE f[(m + 1) + 1] = F[(m + 1) + 1]
      <4>. DEFINE k == (m + 1) + 1
      <4>1. k \in 1 .. d /\ k # 1 /\ k - 1 = m + 1 /\ m + 1 <= d
        BY <3>1
      <4>. HIDE DEF k
      <4>2. f[m + 1] = F[m + 1]
        BY <2>7, <4>1
      <4>3. f[k] = f[k - 1] \o seqs[k] /\ F[k] = F[k - 1] \o seqs[k]
        BY <2>1, <2>5, <4>1
      <4>. QED  BY <4>1, <4>2, <4>3 DEF k
    <3>. QED  BY <3>1
  <2>8. d - 1 \in S /\ (d - 1) + 1 = d /\ d \in 1 .. d
    <3>1. d - 1 \in Nat /\ (d - 1) + 1 = d /\ d \in 1 .. d
      BY <1>3
    <3>. HIDE DEF S
    <3>. QED  BY <2>6, <2>7, <3>1, NatSets
  <2>9. f[d] = F[d]
    BY <2>8
  <2>. QED  BY <2>4, <2>8, <2>9 DEF F
<1>. QED  BY <1>2, <1>3

LEMMA PrintStringIs ==
    ASSUME NEW s \in Text, NEW h, Writing(s, h)
    PROVE  PrintString(s) = h[Len(s)] \o <<"quote">>
<1>. DEFINE n     == Len(s)
            i     == FirstOf(s, Special)
            plain == IF i = 0 THEN s ELSE SubSeq(s, 1, i - 1)
            m     == Len(plain)
            d     == n - m
            seqs  == [k \in 1 .. d |-> Escape(s[m + k])]
<1>1. /\ n \in Nat /\ i \in 0 .. n
      /\ i = 0 => \A k \in 1 .. n : s[k] \notin Special
      /\ i # 0 => \A k \in 1 .. (i - 1) : s[k] \notin Special
  BY AtIs, FirstOfIs
<1>2. PrintString(s) = (plain \o FlattenSeq(seqs)) \o <<"quote">>
  BY DEF PrintString
<1>. HIDE DEF i
<1>3. m \in 0 .. n /\ plain = SubSeq(s, 1, m) /\ plain \in Text /\ \A k \in 1 .. m : s[k] \notin Special
  <2>1. CASE i = 0
    <3>1. s = SubSeq(s, 1, n)
      BY DEF Text
    <3>2. plain = s
      BY <2>1
    <3>. QED  BY <1>1, <2>1, <3>1, <3>2
  <2>2. CASE i # 0
    <3>1. 1 \in 1 .. (n + 1) /\ i - 1 \in (1 - 1) .. n /\ ((i - 1) - 1) + 1 = i - 1 /\ i - 1 \in 0 .. n
      BY <1>1, <2>2
    <3>2. SubSeq(s, 1, i - 1) \in Text /\ Len(SubSeq(s, 1, i - 1)) = ((i - 1) - 1) + 1
      BY <3>1, SubIs
    <3>3. plain = SubSeq(s, 1, i - 1)
      BY <2>2
    <3>4. m = i - 1
      BY <3>1, <3>2, <3>3
    <3>. HIDE DEF plain, m
    <3>. QED  BY <1>1, <2>2, <3>1, <3>2, <3>3, <3>4
  <2>. QED  BY <2>1, <2>2
<1>. HIDE DEF plain, m
<1>4. h[m] = plain
  <2>. DEFINE S == {k \in Nat : k <= m => h[k] = SubSeq(s, 1, k)}
  <2>1. 0 \in S
    <3>1. SubSeq(s, 1, 0) = <<>>
      BY DEF Text
    <3>. QED  BY <3>1 DEF Writing
  <2>2. ASSUME NEW k \in Nat, k \in S PROVE k + 1 \in S
    <3>. SUFFICES ASSUME k + 1 <= m PROVE h[k + 1] = SubSeq(s, 1, k + 1)
      OBVIOUS
    <3>. DEFINE j == k + 1
    <3>1. j \in 1 .. n /\ j \in 1 .. m /\ j - 1 = k /\ k <= m
      BY <1>1, <1>3
    <3>. HIDE DEF j
    <3>2. h[j] = h[j - 1] \o Escape(s[j])
      BY <3>1 DEF Writing
    <3>3. Escape(s[j]) = <<s[j]>>
      <4>1. s[j] \in Character
        BY <3>1 DEF Text
      <4>. QED  BY <1>3, <3>1, <4>1, EscapeIs
    <3>4. h[k] = SubSeq(s, 1, k)
      BY <2>2, <3>1
    <3>5. SubSeq(s, 1, j - 1) \o <<s[j]>> = SubSeq(s, 1, j)
      BY <3>1, SnocSub
    <3>. QED  BY <3>1, <3>2, <3>3, <3>4, <3>5 DEF j
  <2>3. m \in S /\ m <= m
    <3>1. m \in Nat
      BY <1>1, <1>3
    <3>. HIDE DEF S
    <3>. QED  BY <2>1, <2>2, <3>1, NatSets
  <2>. QED  BY <1>3, <2>3
<1>. DEFINE t == SubSeq(s, m + 1, n)
<1>5. t \in Text /\ Len(t) = d /\ d \in Nat /\ \A k \in 1 .. d : t[k] = s[m + k]
  <2>1. m + 1 \in 1 .. (n + 1) /\ n \in ((m + 1) - 1) .. n /\ (n - (m + 1)) + 1 = d /\ d \in Nat
    BY <1>1, <1>3
  <2>2. /\ t \in Text /\ Len(t) = (n - (m + 1)) + 1
        /\ \A k \in 1 .. ((n - (m + 1)) + 1) : t[k] = s[((m + 1) + k) - 1]
    BY <2>1, SubIs
  <2>. HIDE DEF t
  <2>3. \A k \in 1 .. d : ((m + 1) + k) - 1 = m + k
    BY <1>1, <1>3
  <2>. QED  BY <2>1, <2>2, <2>3
<1>. HIDE DEF t
<1>6. PICK g : Writing(t, g)
  BY <1>5, WritingFor
<1>7. g \in [0 .. d -> Text] /\ g[0] = <<>> /\ \A k \in 1 .. d : g[k] = g[k - 1] \o Escape(s[m + k])
  BY <1>5, <1>6 DEF Writing
<1>8. \A k \in 1 .. d : m + k \in 1 .. n /\ (m + k) - 1 = m + (k - 1)
  BY <1>1, <1>3, <1>5
<1>9. \A k \in 1 .. d : Escape(s[m + k]) \in Text
  <2>1. \A k \in 1 .. d : s[m + k] \in Character
    BY <1>8 DEF Text
  <2>. QED  BY <2>1, EscapeIs
<1>. HIDE DEF d
<1>10. FlattenSeq(seqs) = g[d]
  <2>1. seqs \in [1 .. d -> Text] /\ \A k \in 1 .. d : seqs[k] = Escape(s[m + k])
    BY <1>9
  <2>. HIDE DEF seqs
  <2>2. \A k \in 1 .. d : g[k] = g[k - 1] \o seqs[k]
    BY <1>7, <2>1
  <2>. QED  BY <1>5, <1>7, <2>1, <2>2, FlattenIs
<1>11. h[m + d] = plain \o g[d]
  <2>. DEFINE S == {k \in Nat : k <= d => h[m + k] = plain \o g[k]}
  <2>1. 0 \in S
    <3>1. plain \o <<>> = plain /\ m + 0 = m
      BY <1>1, <1>3 DEF Text
    <3>. QED  BY <1>4, <1>7, <3>1
  <2>2. ASSUME NEW k \in Nat, k \in S PROVE k + 1 \in S
    <3>. SUFFICES ASSUME k + 1 <= d PROVE h[m + (k + 1)] = plain \o g[k + 1]
      OBVIOUS
    <3>. DEFINE j == k + 1
                e == Escape(s[m + j])
    <3>1. j \in 1 .. d /\ j - 1 = k /\ k <= d /\ k \in 0 .. d
      BY <1>5
    <3>. HIDE DEF j
    <3>2. h[m + j] = h[(m + j) - 1] \o e
      BY <1>8, <3>1 DEF Writing
    <3>3. h[(m + j) - 1] = plain \o g[k]
      BY <1>8, <2>2, <3>1
    <3>4. g[j] = g[k] \o e /\ g[k] \in Text /\ e \in Text
      BY <1>7, <1>9, <3>1
    <3>. HIDE DEF e
    <3>5. (plain \o g[k]) \o e = plain \o (g[k] \o e)
      BY <1>3, <3>4, ConcatAssoc
    <3>. QED  BY <3>2, <3>3, <3>4, <3>5 DEF j
  <2>3. d \in S /\ d <= d
    <3>. HIDE DEF S
    <3>1. d \in Nat
      BY <1>5
    <3>. QED  BY <2>1, <2>2, <3>1, NatSets
  <2>. QED  BY <1>5, <2>3
<1>12. m + d = n
  BY <1>1, <1>3 DEF d
<1>. QED  BY <1>2, <1>10, <1>11, <1>12

\* What is printed of a string is read as the string, up to the closing quote.
LEMMA PrintedReads ==
    ASSUME NEW v \in Text, NEW p, p = PrintString(v)
    PROVE  ReadString(p) = [ok |-> TRUE, val |-> v, used |-> Len(p)]
<1>. DEFINE n == Len(v)
<1>1. PICK h : Writing(v, h)
  BY WritingFor
<1>2. n \in Nat /\ \A k \in 0 .. n : h[k] \in Text /\ Len(h[k]) \in Nat
  BY <1>1, AtIs DEF Writing
<1>. DEFINE w == h[n]
            q == Len(w)
            z == <<"quote">>
<1>3. w \in Text /\ z \in Text /\ Len(z) = 1 /\ z[1] = "quote"
  BY <1>2, CharactersAre DEF Text
<1>4. p = w \o z
  BY <1>1, PrintStringIs
<1>. HIDE DEF w, z
<1>5. p \in Text /\ Len(p) = q + 1 /\ q \in Nat /\ p[q + 1] = "quote" /\ \A j \in 1 .. q : p[j] = w[j]
  <2>1. /\ w \o z \in Text /\ Len(w) \in Nat /\ Len(w \o z) = Len(w) + Len(z)
        /\ \A j \in 1 .. Len(w) : (w \o z)[j] = w[j]
        /\ \A j \in 1 .. Len(z) : (w \o z)[Len(w) + j] = z[j]
    BY <1>3, ConcatIs
  <2>. QED  BY <1>3, <1>4, <2>1
<1>6. PICK f : Decoding(p, 1, f) /\ DecodeEscaped(p) = f[1]
  BY <1>5, DecodingFor
<1>. HIDE DEF q
<1>. DEFINE Rest(k) == [ok |-> TRUE, val |-> SubSeq(v, k, n), used |-> q + 1]
            S       == {k \in 1 .. (n + 1) : f[Len(h[k - 1]) + 1] = Rest(k)}
<1>7. n + 1 \in S
  <2>1. SubSeq(v, n + 1, n) = <<>>
    BY <1>2 DEF Text
  <2>2. q + 1 \in 1 .. Len(p) /\ (n + 1) - 1 = n /\ n + 1 \in 1 .. (n + 1)
    BY <1>2, <1>5
  <2>3. f[q + 1] = [ok |-> TRUE, val |-> <<>>, used |-> q + 1]
    BY <1>5, <1>6, <2>2, FromIs
  <2>. QED  BY <2>1, <2>2, <2>3 DEF q, w
<1>8. ASSUME NEW k \in 1 .. n, \A j \in (k + 1) .. (n + 1) : j \in S
      PROVE  k \in S
  <2>. DEFINE a == h[k - 1]
              b == h[k]
              c == v[k]
              e == Escape(c)
              d == Len(e)
              i == Len(a) + 1
              t == SubSeq(v, k + 1, n)
  <2>1. a \in Text /\ e \in Text /\ d \in {1, 2, 3} /\ b = a \o e /\ c \in Character
    BY <1>1, WritingStep
  <2>2. /\ k \in 0 .. n /\ k \in 1 .. (n + 1) /\ k + 1 \in (k + 1) .. (n + 1) /\ (k + 1) - 1 = k
        /\ n \in k .. n /\ k + 1 \in 1 .. (n + 1) /\ n \in ((k + 1) - 1) .. n
    BY <1>2
  <2>3. Len(b) <= q /\ \A j \in 1 .. Len(b) : w[j] = b[j]
    BY <1>1, <2>2, WritingPrefix DEF w, q
  <2>4. f[Len(b) + 1] = Rest(k + 1)
    BY <1>8, <2>2
  <2>5. <<c>> \o t = SubSeq(v, k, n) /\ t \in Text
    BY <2>2, ConsSub, SubIs
  <2>6. e = Escape(c)
    OBVIOUS
  <2>. HIDE DEF e, c, b, a, t
  <2>7. Len(a) \in Nat /\ Len(b) = Len(a) + d /\ \A j \in 1 .. Len(e) : b[Len(a) + j] = e[j]
    BY <2>1, ConcatIs
  <2>8. d = Len(e) /\ d \in Nat /\ d # 0 /\ i = Len(a) + 1
    <3>1. d = Len(e) /\ i = Len(a) + 1
      OBVIOUS
    <3>. HIDE DEF d, i
    <3>. QED  BY <2>1, <3>1
  <2>. HIDE DEF d, i
  <2>9. /\ i \in 1 .. Len(p) /\ i + d <= Len(p) + 1 /\ i + d = Len(b) + 1
        /\ \A j \in 1 .. d : (i + j) - 1 = Len(a) + j /\ Len(a) + j \in 1 .. Len(b) /\ Len(a) + j \in 1 .. q
    BY <1>5, <2>3, <2>7, <2>8
  <2>10. \A j \in 1 .. Len(e) : p[(i + j) - 1] = e[j]
    BY <1>5, <2>3, <2>7, <2>8, <2>9
  <2>11. Reads(p, i, d, c)
    BY <1>5, <2>1, <2>6, <2>8, <2>9, <2>10, EscapeReads
  <2>12. f[i] = Joined(c, f[i + d])
    BY <1>5, <1>6, <2>9, <2>11, FromReads
  <2>13. f[i + d] = [ok |-> TRUE, val |-> t, used |-> q + 1]
    BY <2>4, <2>9 DEF t
  <2>14. q + 1 \in Nat
    BY <1>5
  <2>15. f[i] = [ok |-> TRUE, val |-> <<c>> \o t, used |-> q + 1]
    BY <2>1, <2>5, <2>12, <2>13, <2>14, JoinedOk
  <2>. QED  BY <2>2, <2>5, <2>8, <2>15 DEF a
<1>9. 1 \in S
  <2>. HIDE DEF S
  <2>1. 1 .. (n + 1) \subseteq S
    BY <1>2, <1>7, <1>8, Downwards
  <2>2. 1 \in 1 .. (n + 1)
    BY <1>2
  <2>. QED  BY <2>1, <2>2
<1>10. h[1 - 1] = <<>> /\ Len(<<>>) + 1 = 1
  BY <1>1 DEF Writing
<1>11. SubSeq(v, 1, n) = v
  BY DEF Text
<1>12. f[1] = [ok |-> TRUE, val |-> v, used |-> q + 1]
  BY <1>9, <1>10, <1>11
<1>13. ReadString(p) = f[1]
  BY <1>5, <1>6, ReadStringIs
<1>. QED  BY <1>5, <1>12, <1>13

-----------------------------------------------------------------------------
(* The registry and its members.                                           *)

\* What the variables hold, and where the field of the last member comes from.
Looked ==
    /\ fields \in Seq(Field)
    /\ hash # None => hash \in HashFunctions
    /\ last # None => /\ hash # None /\ last.key \in Keys
                      /\ last.field = Lookup(Names, hash, last.key)

LEMMA InitLooked == Init => Looked
  BY DEF Init, Looked

LEMMA NextLooked == Looked /\ [Next]_vars => Looked'
<1>. SUFFICES ASSUME Looked, [Next]_vars PROVE Looked'
  OBVIOUS
<1>1. ASSUME NEW f, Declare(f) PROVE Looked'
  <2>1. fields' \in Seq(Field)
    BY <1>1 DEF Declare, Looked
  <2>. QED  BY <1>1, <2>1 DEF Declare, Looked
<1>2. ASSUME NEW h, Complete(h) PROVE Looked'
  BY <1>2 DEF Complete, Looked
<1>3. ASSUME NEW k \in Keys, NEW text, DecodeMember(k, text) PROVE Looked'
  <2>1. fields' = fields /\ hash' = hash /\ hash # None
    BY <1>3 DEF DecodeMember
  <2>2. last'.key = k /\ last'.field = Lookup(Names, hash, k)
    BY <1>3 DEF DecodeMember
  <2>3. Names' = Names
    BY <2>1 DEF Names
  <2>. QED  BY <2>1, <2>2, <2>3 DEF Looked
<1>4. CASE UNCHANGED vars
  BY <1>4 DEF vars, Looked, Names
<1>. QED  BY <1>1, <1>2, <1>3, <1>4 DEF Next

\* Whatever the hash function, the names and their order, and however many fields
\* there are, a search ends, at the first field of the key's name, else at the
\* first whose name differs in case only (parser.go:599-685, registry.go:436-484).
THEOREM LookupExactHolds == Spec => []LookupExact
<1>1. Looked => LookupExact
  <2>. SUFFICES ASSUME Looked, last # None PROVE LookupExact
    BY DEF LookupExact
  <2>1. Names \in Seq(Keys)
    <3>1. fields \in Seq(Field)
      BY DEF Looked
    <3>2. ASSUME NEW i \in DOMAIN fields PROVE fields[i].key \in Keys
      <4>1. fields[i] \in Field
        BY <3>1
      <4>. QED  BY <4>1 DEF Field
    <3>. QED  BY <3>1, <3>2 DEF Names
  <2>2. hash \in HashFunctions /\ last.key \in Keys /\ last.field = Lookup(Names, hash, last.key)
    BY DEF Looked
  <2>. DEFINE names == Names
              same  == First({i \in DOMAIN names : names[i] = last.key})
              other == First({i \in DOMAIN names : Lower[names[i]] = Lower[last.key]})
  <2>3. /\ Lookup(names, hash, last.key) \in 0 .. Len(names)
        /\ Proper(names) => Lookup(names, hash, last.key) = IF same # 0 THEN same ELSE other
    BY <2>1, <2>2, LookupIs
  <2>4. Len(names) \in Nat
    BY <2>1
  <2>. HIDE DEF names, same, other
  <2>5. last.field # Stuck
    BY <2>2, <2>3, <2>4 DEF Stuck, names
  <2>6. Proper(names) => last.field = IF same # 0 THEN same ELSE other
    BY <2>2, <2>3 DEF names
  <2>. QED  BY <2>5, <2>6 DEF LookupExact, Proper, names, same, other
<1>. QED  BY <1>1, InitLooked, NextLooked, PTL DEF Spec

\* The last member is what its field makes of the text.
Taken ==
    last # None =>
      /\ hash # None /\ last.text \in Text
      /\ last.out = IF last.field \in DOMAIN fields THEN Read(fields[last.field].type, last.text) ELSE None

LEMMA NextTaken == Taken /\ [Next]_vars => Taken'
<1>. SUFFICES ASSUME Taken, [Next]_vars PROVE Taken'
  OBVIOUS
<1>1. ASSUME NEW f, Declare(f) PROVE Taken'
  BY <1>1 DEF Declare, Taken
<1>2. ASSUME NEW h, Complete(h) PROVE Taken'
  BY <1>2 DEF Complete, Taken
<1>3. ASSUME NEW k \in Keys, NEW text, DecodeMember(k, text) PROVE Taken'
  <2>1. fields' = fields /\ hash' = hash /\ hash # None /\ text \in Seq(STRING)
    BY <1>3 DEF DecodeMember
  <2>. DEFINE i == Lookup(Names, hash, k)
              out == IF i \in DOMAIN fields THEN Read(fields[i].type, text) ELSE None
  <2>2. last' = [key |-> k, text |-> text, field |-> i, out |-> out]
    BY <1>3 DEF DecodeMember
  <2>. HIDE DEF i
  <2>3. last'.text = text /\ last'.field = i /\ last'.out = out
    BY <2>2
  <2>4. text \in Text
    BY <2>1 DEF Text, Character
  <2>. QED  BY <2>1, <2>3, <2>4 DEF Taken
<1>4. CASE UNCHANGED vars
  BY <1>4 DEF vars, Taken
<1>. QED  BY <1>1, <1>2, <1>3, <1>4 DEF Next

\* Whatever the text of a float field is, however long, and whatever mantissa still
\* counts as exact, the fast path, the grammar and the test for a number cut short
\* agree: the text is taken when it is a JSON number and as its mantissa says, and
\* counts as cut short when it is none and characters are missing that would make it
\* one (primitives.go:145-192, 204-353, 370-445).
THEOREM FloatsExactHolds == Spec => []FloatsExact
<1>1. Init => Taken
  BY DEF Init, Taken
<1>2. Taken => FloatsExact
  <2>. SUFFICES ASSUME Taken, Decodes("float") PROVE FloatsExact
    BY DEF FloatsExact
  <2>1. last # None /\ last.out # None /\ fields[last.field].type.kind = "float"
    BY DEF Decodes
  <2>2. last.text \in Text /\ last.out = Read(fields[last.field].type, last.text)
    BY <2>1 DEF Taken
  <2>3. last.out = ParseFloat(last.text)
    BY <2>1, <2>2 DEF Read
  <2>. QED  BY <2>2, <2>3, FloatIs DEF FloatsExact
<1>. QED  BY <1>1, <1>2, NextTaken, PTL DEF Spec

\* For every word size and every set of widths an integer field may have: a text,
\* however long, is taken when it is a JSON integer that the width of the field holds,
\* the accumulator never wrapping unnoticed, nor the store and the load of the field
\* losing a bit; and what is printed of the value is read again as the same value, but
\* for the most negative word without AVX2 (primitives.go:98-143, 465-539).
THEOREM IntsExactHolds == Spec => []IntsExact
<1>1. Init => Taken /\ Looked
  BY InitLooked DEF Init, Taken
<1>2. Taken /\ Looked => IntsExact
  <2>. SUFFICES ASSUME Taken, Looked, Decodes("int") PROVE IntsExact
    BY DEF IntsExact
  <2>. DEFINE i    == last.field
              t    == fields[i].type
              low  == IF t.unsigned THEN 0 ELSE -Pow2(t.bits - 1)
              high == IF t.unsigned /\ t.bits < WordBits THEN Pow2(t.bits) - 1
                      ELSE IF t.bits < WordBits THEN Pow2(t.bits - 1) - 1 ELSE MaxInt
              b    == last.text
              out  == last.out
  <2>1. last # None /\ out # None /\ t.kind = "int"
    BY DEF Decodes
  <2>2. b \in Text /\ i \in DOMAIN fields /\ out = Read(t, b)
    BY <2>1 DEF Taken
  <2>3. t \in Type
    <3>1. fields \in Seq(Field)
      BY DEF Looked
    <3>2. fields[i] \in Field
      BY <2>2, <3>1
    <3>. QED  BY <3>2 DEF Field
  <2>4. out = ReadInt(t, b)
    BY <2>1, <2>2 DEF Read
  <2>5. /\ out.ok <=> Integer(b) /\ Value(b) \in low .. high
        /\ out.ok => out.val = Value(b) /\ Value(b) \in MinInt .. MaxInt
    <3>. HIDE DEF t, b, out
    <3>. QED  BY <2>2, <2>3, <2>4, IntIs
  <2>6. ASSUME out.ok, NEW kernel
        PROVE  LET again == ParseInt(PrintInt(out.val, kernel))
               IN  again.ok /\ (again.val = out.val \/ (kernel = "scalar" /\ out.val = MinInt))
    <3>1. out.val \in MinInt .. MaxInt
      BY <2>5, <2>6
    <3>. HIDE DEF out
    <3>. QED  BY <3>1, PrintIs
  <2>. QED  BY <2>5, <2>6 DEF IntsExact
<1>. QED  BY <1>1, <1>2, NextTaken, NextLooked, PTL DEF Spec

\* A literal, however long and whatever its characters, is taken when it reads in
\* one way and no other as characters and escapes up to a quote, and its value is that
\* reading; no other quote could end it. What is printed of a value, its prefix copied
\* and the rest escaped one by one, is read as the same value up to the closing quote
\* (primitives.go:541-660, registry.go:539-619).
THEOREM StringsExactHolds == Spec => []StringsExact
<1>1. Init => Taken
  BY DEF Init, Taken
<1>2. Taken => StringsExact
  <2>. SUFFICES ASSUME Taken, Decodes("string") PROVE StringsExact
    BY DEF StringsExact
  <2>. DEFINE b    == last.text
              out  == last.out
              ends == {u \in DOMAIN b : b[u] = "quote" /\ Readings(SubSeq(b, 1, u - 1)) # {}}
              p    == PrintString(out.val)
  <2>1. last # None /\ out # None /\ fields[last.field].type.kind = "string"
    BY DEF Decodes
  <2>2. b \in Text /\ out = Read(fields[last.field].type, b)
    BY <2>1 DEF Taken
  <2>3. out = ReadString(b)
    BY <2>1, <2>2 DEF Read
  <2>4. out = DecodeEscaped(b)
    BY <2>2, <2>3, ReadStringIs
  <2>5. ends = {u \in DOMAIN b : b[u] = "quote" /\ Readings(SubSeq(b, 1, u - 1)) # {}}
    OBVIOUS
  <2>. HIDE DEF b, out, ends
  <2>6. /\ out \in Out
        /\ out.ok <=> ends # {}
        /\ out.ok => ends = {out.used} /\ Readings(SubSeq(b, 1, out.used - 1)) = {out.val}
    BY <2>2, <2>4, <2>5, DecodeIs
  <2>7. out.val \in Text
    BY <2>6 DEF Out
  <2>8. ReadString(p) = [ok |-> TRUE, val |-> out.val, used |-> Len(p)]
    <3>. DEFINE v == out.val
    <3>1. v \in Text /\ p = PrintString(v)
      BY <2>7
    <3>. HIDE DEF v, p
    <3>2. ReadString(p) = [ok |-> TRUE, val |-> v, used |-> Len(p)]
      BY <3>1, PrintedReads
    <3>. QED  BY <3>2 DEF v
  <2>9. ASSUME out.ok PROVE [out EXCEPT !.used = Len(p)] = [ok |-> TRUE, val |-> out.val, used |-> Len(p)]
    <3>. HIDE DEF p
    <3>1. out.ok = TRUE
      BY <2>6, <2>9 DEF Out
    <3>2. [out EXCEPT !.used = Len(p)] = [ok |-> out.ok, val |-> out.val, used |-> Len(p)]
      BY <2>6 DEF Out
    <3>. QED  BY <3>1, <3>2
  <2>10. ASSUME out.ok PROVE ReadString(p) = [out EXCEPT !.used = Len(p)]
    BY <2>8, <2>9, <2>10
  <2>. QED  BY <2>6, <2>10 DEF StringsExact, ends, b, out
<1>. QED  BY <1>1, <1>2, NextTaken, PTL DEF Spec
=============================================================================
