-------------------------- MODULE ArrayScan_proofs --------------------------
(***************************************************************************)
(* Lemmas about the operators of ArrayScan, for every array.               *)
(***************************************************************************)
EXTENDS ArrayScan, TLAPS, FiniteSetTheorems, WellFoundedInduction

\* Induction over the natural numbers, on a set of them.
LEMMA NatSets ==
    ASSUME NEW S, 0 \in S, \A n \in Nat : n \in S => n + 1 \in S
    PROVE  Nat \subseteq S
<1>. DEFINE T == {n \in Nat : n \notin S}
            R == OpToRel(<, Nat)
<1>. SUFFICES ASSUME T # {} PROVE FALSE
  OBVIOUS
<1>1. \A x, y \in Nat : <<x, y>> \in R <=> x < y
  BY DEF OpToRel
<1>2. IsWellFoundedOn(R, Nat)
  BY NatLessThanWellFounded
<1>. HIDE DEF R
<1>3. PICK x \in T : \A y \in T : ~(<<y, x>> \in R)
  <2>1. T \subseteq Nat
    OBVIOUS
  <2>. HIDE DEF T
  <2>. QED  BY <1>2, <2>1, WFMin
<1>4. \A y \in T : ~(y < x)
  BY <1>1, <1>3
<1>5. x # 0 /\ x - 1 \in Nat /\ x - 1 < x
  BY <1>3
<1>6. x - 1 \notin T
  BY <1>4, <1>5
<1>. QED  BY <1>3, <1>5, <1>6

\* Induction up to n.
LEMMA UpTo ==
    ASSUME NEW n \in Nat, NEW S, n > 0 => 1 \in S, \A i \in 1 .. (n - 1) : i \in S => i + 1 \in S
    PROVE  \A i \in 1 .. n : i \in S
<1>. DEFINE T == {x \in Nat : x + 1 \in 1 .. n => x + 1 \in S}
<1>1. 0 \in T
  OBVIOUS
<1>2. ASSUME NEW x \in Nat, x \in T PROVE x + 1 \in T
  <2>. SUFFICES ASSUME (x + 1) + 1 \in 1 .. n PROVE (x + 1) + 1 \in S
    OBVIOUS
  <2>1. x + 1 \in 1 .. (n - 1) /\ x + 1 \in 1 .. n
    OBVIOUS
  <2>2. x + 1 \in S
    BY <1>2, <2>1
  <2>. QED  BY <2>1, <2>2
<1>3. Nat \subseteq T
  <2>. HIDE DEF T
  <2>. QED  BY <1>1, <1>2, NatSets
<1>4. ASSUME NEW i \in 1 .. n PROVE i \in S
  <2>1. i - 1 \in Nat /\ (i - 1) + 1 = i
    OBVIOUS
  <2>2. i - 1 \in T
    BY <1>3, <2>1
  <2>. QED  BY <2>1, <2>2
<1>. QED  BY <1>4

-----------------------------------------------------------------------------
(* Picking.                                                                *)

\* f tells for every k what is picked of the first k items.
Upto(s, picks, n, f) ==
    f = [k \in 0 .. n |-> IF k = 0 THEN <<>>
                          ELSE IF picks[k] THEN Append(f[k - 1], s[k]) ELSE f[k - 1]]

LEMMA UptoExists ==
    ASSUME NEW s, NEW picks, NEW n \in Nat
    PROVE  \E f : Upto(s, picks, n, f)
<1>. DEFINE S == {m \in Nat : \E f : Upto(s, picks, m, f)}
<1>1. 0 \in S
  <2>1. Upto(s, picks, 0, [k \in 0 .. 0 |-> <<>>])
    BY DEF Upto
  <2>. QED  BY <2>1
<1>2. ASSUME NEW m \in Nat, m \in S PROVE m + 1 \in S
  <2>1. PICK f : Upto(s, picks, m, f)
    BY <1>2
  <2>. DEFINE g == [k \in 0 .. (m + 1) |->
                      IF k = m + 1
                      THEN IF picks[k] THEN Append(f[m], s[k]) ELSE f[m]
                      ELSE f[k]]
              h == [k \in 0 .. (m + 1) |->
                      IF k = 0 THEN <<>>
                      ELSE IF picks[k] THEN Append(g[k - 1], s[k]) ELSE g[k - 1]]
  <2>2. ASSUME NEW k \in 0 .. (m + 1) PROVE g[k] = h[k]
    <3>1. CASE k = m + 1
      <4>1. m \in 0 .. (m + 1) /\ k - 1 = m /\ k # 0 /\ m # m + 1
        BY <3>1
      <4>2. g[m] = f[m]
        BY <4>1
      <4>. QED  BY <3>1, <4>1, <4>2
    <3>2. CASE k # m + 1
      <4>1. k \in 0 .. m
        BY <3>2
      <4>2. g[k] = f[k]
        BY <3>2
      <4>3. k # 0 => k - 1 \in 0 .. (m + 1) /\ k - 1 # m + 1
        BY <4>1
      <4>4. k # 0 => g[k - 1] = f[k - 1]
        BY <4>3
      <4>5. f[k] = IF k = 0 THEN <<>>
                   ELSE IF picks[k] THEN Append(f[k - 1], s[k]) ELSE f[k - 1]
        BY <2>1, <4>1 DEF Upto
      <4>. QED  BY <4>2, <4>4, <4>5
    <3>. QED  BY <3>1, <3>2
  <2>3. g = h
    BY <2>2
  <2>4. Upto(s, picks, m + 1, g)
    BY <2>3 DEF Upto
  <2>. QED  BY <2>4
<1>3. Nat \subseteq S
  <2>. HIDE DEF S
  <2>. QED  BY <1>1, <1>2, NatSets
<1>. QED  BY <1>3

\* Picking one item after the other.
LEMMA PickedStep ==
    ASSUME NEW s, NEW picks
    PROVE  /\ PickedTo(s, picks, 0) = <<>>
           /\ \A n \in Nat : PickedTo(s, picks, n + 1) =
                IF picks[n + 1] THEN Append(PickedTo(s, picks, n), s[n + 1]) ELSE PickedTo(s, picks, n)
<1>. DEFINE F(n) == CHOOSE g : Upto(s, picks, n, g)
<1>1. ASSUME NEW n \in Nat PROVE Upto(s, picks, n, F(n)) /\ PickedTo(s, picks, n) = F(n)[n]
  <2>1. Upto(s, picks, n, F(n))
    BY UptoExists
  <2>2. PickedTo(s, picks, n) = F(n)[n]
    BY DEF PickedTo, Upto
  <2>. QED  BY <2>1, <2>2
<1>. HIDE DEF F
<1>2. ASSUME NEW n \in Nat, NEW k \in 0 .. n
      PROVE  F(n)[k] = IF k = 0 THEN <<>>
                       ELSE IF picks[k] THEN Append(F(n)[k - 1], s[k]) ELSE F(n)[k - 1]
  BY <1>1 DEF Upto
<1>3. PickedTo(s, picks, 0) = <<>>
  BY <1>1, <1>2
<1>4. ASSUME NEW n \in Nat
      PROVE  PickedTo(s, picks, n + 1) =
               IF picks[n + 1] THEN Append(PickedTo(s, picks, n), s[n + 1]) ELSE PickedTo(s, picks, n)
  <2>. DEFINE f == F(n)
              g == F(n + 1)
              S == {k \in Nat : k <= n => f[k] = g[k]}
  <2>1. \A k \in 0 .. n : f[k] = IF k = 0 THEN <<>>
                                 ELSE IF picks[k] THEN Append(f[k - 1], s[k]) ELSE f[k - 1]
    BY <1>2
  <2>2. \A k \in 0 .. (n + 1) : g[k] = IF k = 0 THEN <<>>
                                       ELSE IF picks[k] THEN Append(g[k - 1], s[k]) ELSE g[k - 1]
    BY <1>2
  <2>3. f[n] = PickedTo(s, picks, n) /\ g[n + 1] = PickedTo(s, picks, n + 1)
    BY <1>1
  <2>. HIDE DEF f, g
  <2>4. 0 \in S
    BY <2>1, <2>2
  <2>5. ASSUME NEW k \in Nat, k \in S PROVE k + 1 \in S
    <3>. SUFFICES ASSUME k + 1 <= n PROVE f[k + 1] = g[k + 1]
      OBVIOUS
    <3>1. k + 1 \in 0 .. n /\ k + 1 \in 0 .. (n + 1) /\ k + 1 # 0 /\ (k + 1) - 1 = k
      OBVIOUS
    <3>2. f[k] = g[k]
      BY <2>5
    <3>3. f[k + 1] = IF picks[k + 1] THEN Append(f[k], s[k + 1]) ELSE f[k]
      BY <2>1, <3>1
    <3>4. g[k + 1] = IF picks[k + 1] THEN Append(g[k], s[k + 1]) ELSE g[k]
      BY <2>2, <3>1
    <3>. QED  BY <3>2, <3>3, <3>4
  <2>6. f[n] = g[n]
    <3>1. Nat \subseteq S
      <4>. HIDE DEF S
      <4>. QED  BY <2>4, <2>5, NatSets
    <3>. QED  BY <3>1
  <2>7. n + 1 \in 0 .. (n + 1) /\ n + 1 # 0 /\ (n + 1) - 1 = n
    OBVIOUS
  <2>8. g[n + 1] = IF picks[n + 1] THEN Append(g[n], s[n + 1]) ELSE g[n]
    BY <2>2, <2>7
  <2>. QED  BY <2>3, <2>6, <2>8
<1>. QED  BY <1>3, <1>4

\* Of the first n items at most n are picked.
LEMMA PickedToIs ==
    ASSUME NEW T, NEW s \in Seq(T), NEW picks, NEW n \in 0 .. Len(s)
    PROVE  PickedTo(s, picks, n) \in Seq(T) /\ Len(PickedTo(s, picks, n)) <= n
<1>. DEFINE P(k) == PickedTo(s, picks, k)
            S == {k \in Nat : k <= Len(s) => P(k) \in Seq(T) /\ Len(P(k)) <= k}
<1>1. P(0) = <<>> /\ \A k \in Nat : P(k + 1) = IF picks[k + 1] THEN Append(P(k), s[k + 1]) ELSE P(k)
  BY PickedStep
<1>. HIDE DEF P
<1>2. 0 \in S
  <2>1. <<>> \in Seq(T) /\ Len(<<>>) = 0
    OBVIOUS
  <2>2. P(0) = <<>>
    BY <1>1
  <2>3. P(0) \in Seq(T) /\ Len(P(0)) = 0
    BY <2>1, <2>2, Zenon
  <2>. QED  BY <2>3
<1>3. ASSUME NEW k \in Nat, k \in S PROVE k + 1 \in S
  <2>. SUFFICES ASSUME k + 1 <= Len(s) PROVE P(k + 1) \in Seq(T) /\ Len(P(k + 1)) <= k + 1
    OBVIOUS
  <2>1. P(k) \in Seq(T) /\ Len(P(k)) <= k
    BY <1>3
  <2>2. s[k + 1] \in T
    OBVIOUS
  <2>3. Append(P(k), s[k + 1]) \in Seq(T) /\ Len(Append(P(k), s[k + 1])) = Len(P(k)) + 1
    BY <2>1, <2>2
  <2>4. P(k + 1) = Append(P(k), s[k + 1]) \/ P(k + 1) = P(k)
    BY <1>1
  <2>5. Len(P(k)) \in Nat
    BY <2>1
  <2>. HIDE DEF S
  <2>6. CASE P(k + 1) = Append(P(k), s[k + 1])
    <3>1. Append(P(k), s[k + 1]) \in Seq(T)
      BY <2>3
    <3>2. Len(Append(P(k), s[k + 1])) <= k + 1
      BY <2>1, <2>3, <2>5
    <3>. QED  BY <2>6, <3>1, <3>2, Zenon
  <2>7. CASE P(k + 1) = P(k)
    BY <2>7, <2>1, <2>5
  <2>. QED  BY <2>4, <2>6, <2>7
<1>4. Nat \subseteq S
  <2>. HIDE DEF S
  <2>. QED  BY <1>2, <1>3, NatSets
<1>5. n \in S /\ n <= Len(s)
  BY <1>4
<1>. QED  BY <1>5 DEF P

\* What is picked depends on the items only and on what the predicate says of them.
LEMMA PickedSame ==
    ASSUME NEW s, NEW picks, NEW t, NEW marks, NEW n \in Nat,
           \A k \in 1 .. n : s[k] = t[k] /\ picks[k] = marks[k]
    PROVE  PickedTo(s, picks, n) = PickedTo(t, marks, n)
<1>. DEFINE S == {k \in Nat : k <= n => PickedTo(s, picks, k) = PickedTo(t, marks, k)}
<1>1. 0 \in S
  BY PickedStep
<1>2. ASSUME NEW k \in Nat, k \in S PROVE k + 1 \in S
  <2>. SUFFICES ASSUME k + 1 <= n PROVE PickedTo(s, picks, k + 1) = PickedTo(t, marks, k + 1)
    OBVIOUS
  <2>1. s[k + 1] = t[k + 1] /\ picks[k + 1] = marks[k + 1]
    OBVIOUS
  <2>2. PickedTo(s, picks, k) = PickedTo(t, marks, k)
    BY <1>2
  <2>3. PickedTo(s, picks, k + 1) =
          IF picks[k + 1] THEN Append(PickedTo(s, picks, k), s[k + 1]) ELSE PickedTo(s, picks, k)
    BY PickedStep
  <2>4. PickedTo(t, marks, k + 1) =
          IF marks[k + 1] THEN Append(PickedTo(t, marks, k), t[k + 1]) ELSE PickedTo(t, marks, k)
    BY PickedStep
  <2>. QED  BY <2>1, <2>2, <2>3, <2>4
<1>. QED
  <2>1. Nat \subseteq S
    <3>. HIDE DEF S
    <3>. QED  BY <1>1, <1>2, NatSets
  <2>. QED  BY <2>1

\* Items that are not marked add nothing.
LEMMA PickedRests ==
    ASSUME NEW s, NEW picks, NEW n \in Nat, NEW m \in Nat, n <= m,
           \A k \in (n + 1) .. m : ~picks[k]
    PROVE  PickedTo(s, picks, m) = PickedTo(s, picks, n)
<1>. DEFINE S == {k \in Nat : n + k <= m => PickedTo(s, picks, n + k) = PickedTo(s, picks, n)}
<1>1. 0 \in S
  OBVIOUS
<1>2. ASSUME NEW k \in Nat, k \in S PROVE k + 1 \in S
  <2>. DEFINE l == n + k
  <2>1. n + (k + 1) = l + 1 /\ l \in Nat
    OBVIOUS
  <2>. SUFFICES ASSUME l + 1 <= m PROVE PickedTo(s, picks, l + 1) = PickedTo(s, picks, n)
    BY <2>1
  <2>2. ~picks[l + 1] /\ PickedTo(s, picks, l) = PickedTo(s, picks, n)
    BY <1>2, <2>1
  <2>. HIDE DEF l
  <2>3. PickedTo(s, picks, l + 1) =
          IF picks[l + 1] THEN Append(PickedTo(s, picks, l), s[l + 1]) ELSE PickedTo(s, picks, l)
    BY <2>1, PickedStep
  <2>. QED  BY <2>2, <2>3
<1>3. m - n \in Nat /\ n + (m - n) = m
  OBVIOUS
<1>4. Nat \subseteq S
  <2>. HIDE DEF S
  <2>. QED  BY <1>1, <1>2, NatSets
<1>5. m - n \in S
  BY <1>3, <1>4
<1>. QED  BY <1>3, <1>5

\* r holds the items of s among the first n that picks marks: the i-th of them
\* is the item at at[i].
Picks(s, picks, n, r, at) ==
    /\ at \in [1 .. Len(r) -> 1 .. n]
    /\ \A i \in 1 .. Len(r) : picks[at[i]] /\ r[i] = s[at[i]]
    /\ \A i, j \in 1 .. Len(r) : i < j => at[i] < at[j]
    /\ \A k \in 1 .. n : picks[k] => \E i \in 1 .. Len(r) : at[i] = k

LEMMA PickedIs ==
    ASSUME NEW T, NEW s \in Seq(T), NEW picks
    PROVE  /\ Picked(s, picks) \in Seq(T)
           /\ \E at : Picks(s, picks, Len(s), Picked(s, picks), at)
<1>. DEFINE n == Len(s)
<1>0. n \in Nat /\ \A k \in 1 .. n : s[k] \in T
  OBVIOUS
<1>. DEFINE f == CHOOSE g : Upto(s, picks, n, g)
<1>1. Upto(s, picks, n, f)
  BY <1>0, UptoExists
<1>2. Picked(s, picks) = f[n]
  BY DEF Picked, PickedTo, Upto
<1>. HIDE DEF f, n
<1>. DEFINE S == {m \in Nat : m <= n => f[m] \in Seq(T) /\ \E at : Picks(s, picks, m, f[m], at)}
<1>3. 0 \in S
  <2>1. f[0] = <<>>
    BY <1>0, <1>1 DEF Upto
  <2>2. Len(<<>>) = 0 /\ 1 .. 0 = {}
    OBVIOUS
  <2>. DEFINE at == [i \in {} |-> 0]
  <2>3. at \in [1 .. Len(<<>>) -> 1 .. 0]
    BY <2>2
  <2>4. \A i \in 1 .. Len(<<>>) : FALSE
    BY <2>2
  <2>5. \A k \in 1 .. 0 : FALSE
    BY <2>2
  <2>. HIDE DEF at
  <2>. DEFINE r == <<>>
  <2>6. /\ at \in [1 .. Len(r) -> 1 .. 0]
        /\ \A i \in 1 .. Len(r) : FALSE
    BY <2>3, <2>4
  <2>. HIDE DEF r
  <2>7. Picks(s, picks, 0, r, at)
    BY <2>5, <2>6 DEF Picks
  <2>8. \E a : Picks(s, picks, 0, f[0], a)
    BY <2>1, <2>7 DEF r
  <2>9. f[0] \in Seq(T)
    BY <2>1
  <2>. QED  BY <2>8, <2>9
<1>4. ASSUME NEW m \in Nat, m \in S PROVE m + 1 \in S
  <2>. SUFFICES ASSUME m + 1 <= n
                PROVE  f[m + 1] \in Seq(T) /\ \E at : Picks(s, picks, m + 1, f[m + 1], at)
    OBVIOUS
  <2>. DEFINE r == f[m]
  <2>0. r \in Seq(T)
    BY <1>0, <1>4
  <2>1. PICK at : Picks(s, picks, m, r, at)
    BY <1>0, <1>4
  <2>2. f[m + 1] = IF picks[m + 1] THEN Append(r, s[m + 1]) ELSE r
    <3>1. m + 1 \in 0 .. n /\ m + 1 # 0 /\ (m + 1) - 1 = m
      BY <1>0
    <3>. QED  BY <1>1, <3>1 DEF Upto
  <2>. HIDE DEF r
  <2>3. Len(r) \in Nat
    BY <2>0
  <2>4. CASE picks[m + 1]
    <3>. DEFINE q == Append(r, s[m + 1])
                w == [i \in 1 .. (Len(r) + 1) |-> IF i = Len(r) + 1 THEN m + 1 ELSE at[i]]
    <3>1. s[m + 1] \in T
      BY <1>0
    <3>2. /\ q \in Seq(T) /\ Len(q) = Len(r) + 1 /\ q[Len(r) + 1] = s[m + 1]
          /\ \A i \in 1 .. Len(r) : q[i] = r[i]
      BY <2>0, <3>1
    <3>. HIDE DEF q
    <3>3. \A i \in 1 .. Len(r) : w[i] = at[i] /\ at[i] \in 1 .. m
      BY <2>1, <2>3 DEF Picks
    <3>4. w[Len(r) + 1] = m + 1
      BY <2>3
    <3>5. w \in [1 .. Len(q) -> 1 .. (m + 1)]
      <4>1. ASSUME NEW i \in 1 .. (Len(r) + 1) PROVE w[i] \in 1 .. (m + 1)
        <5>1. CASE i = Len(r) + 1
          BY <3>4, <5>1
        <5>2. CASE i # Len(r) + 1
          <6>1. i \in 1 .. Len(r)
            BY <2>3, <5>2
          <6>2. w[i] \in 1 .. m
            BY <3>3, <6>1
          <6>. HIDE DEF w
          <6>. QED  BY <6>2
        <5>. QED  BY <5>1, <5>2
      <4>. QED  BY <3>2, <4>1
    <3>. HIDE DEF w
    <3>6. ASSUME NEW i \in 1 .. Len(q) PROVE picks[w[i]] /\ q[i] = s[w[i]]
      <4>1. CASE i = Len(r) + 1
        BY <2>4, <3>2, <3>4, <4>1
      <4>2. CASE i # Len(r) + 1
        <5>1. i \in 1 .. Len(r)
          BY <2>3, <3>2, <4>2
        <5>. QED  BY <2>1, <3>2, <3>3, <5>1 DEF Picks
      <4>. QED  BY <4>1, <4>2
    <3>7. ASSUME NEW i \in 1 .. Len(q), NEW j \in 1 .. Len(q), i < j PROVE w[i] < w[j]
      <4>0. i \in 1 .. Len(r)
        BY <2>3, <3>2, <3>7
      <4>1. CASE j = Len(r) + 1
        BY <3>3, <3>4, <4>0, <4>1
      <4>2. CASE j # Len(r) + 1
        <5>1. j \in 1 .. Len(r)
          BY <2>3, <3>2, <4>2
        <5>. QED  BY <2>1, <3>3, <3>7, <4>0, <5>1 DEF Picks
      <4>. QED  BY <4>1, <4>2
    <3>8. ASSUME NEW k \in 1 .. (m + 1), picks[k] PROVE \E i \in 1 .. Len(q) : w[i] = k
      <4>1. CASE k = m + 1
        <5>1. Len(r) + 1 \in 1 .. Len(q)
          BY <2>3, <3>2
        <5>. QED  BY <3>4, <4>1, <5>1
      <4>2. CASE k # m + 1
        <5>1. k \in 1 .. m
          BY <4>2
        <5>2. PICK i \in 1 .. Len(r) : at[i] = k
          BY <2>1, <3>8, <5>1 DEF Picks
        <5>3. i \in 1 .. Len(q)
          BY <2>3, <3>2
        <5>. QED  BY <3>3, <5>2, <5>3
      <4>. QED  BY <4>1, <4>2
    <3>9. Picks(s, picks, m + 1, q, w)
      BY <3>5, <3>6, <3>7, <3>8 DEF Picks
    <3>. QED  BY <2>2, <2>4, <3>2, <3>9 DEF q
  <2>5. CASE ~picks[m + 1]
    <3>1. at \in [1 .. Len(r) -> 1 .. (m + 1)]
      BY <2>1, <2>3 DEF Picks
    <3>2. ASSUME NEW k \in 1 .. (m + 1), picks[k] PROVE \E i \in 1 .. Len(r) : at[i] = k
      <4>1. k \in 1 .. m
        BY <2>5, <3>2
      <4>. QED  BY <2>1, <3>2, <4>1 DEF Picks
    <3>3. Picks(s, picks, m + 1, r, at)
      BY <2>1, <3>1, <3>2 DEF Picks
    <3>. QED  BY <2>0, <2>2, <2>5, <3>3
  <2>. QED  BY <2>4, <2>5
<1>5. n \in S
  <2>. HIDE DEF S
  <2>. QED  BY <1>0, <1>3, <1>4, NatSets
<1>. QED  BY <1>0, <1>2, <1>5 DEF n

-----------------------------------------------------------------------------
(* The splitter.                                                           *)

\* The ends of the chunks are found in order, and none is left out.
LEMMA EndsAre ==
    ASSUME NEW T, NEW inner \in Seq(T), NEW o \in Nat
    PROVE  /\ Ends(inner, o) \in Seq(Nat)
           /\ \A i \in 1 .. Len(Ends(inner, o)) :
                /\ Ends(inner, o)[i] \in o .. (Len(inner) - 1)
                /\ EndsChunk(inner, o, Ends(inner, o)[i] + 1)
           /\ \A i, j \in 1 .. Len(Ends(inner, o)) :
                i < j => Ends(inner, o)[i] < Ends(inner, o)[j]
           /\ \A p \in (o + 1) .. Len(inner) :
                EndsChunk(inner, o, p) => \E i \in 1 .. Len(Ends(inner, o)) : Ends(inner, o)[i] = p - 1
<1>. DEFINE s == [p \in 1 .. Len(inner) |-> p - 1]
            picks == [p \in 1 .. Len(inner) |-> o < p /\ EndsChunk(inner, o, p)]
            E == Ends(inner, o)
<1>0. Len(inner) \in Nat
  OBVIOUS
<1>1. s \in Seq(Nat) /\ Len(s) = Len(inner) /\ \A p \in 1 .. Len(inner) : s[p] = p - 1
  <2>1. s \in [1 .. Len(inner) -> Nat]
    BY <1>0
  <2>2. s \in Seq(Nat)
    BY <1>0, <2>1
  <2>3. DOMAIN s = 1 .. Len(inner)
    OBVIOUS
  <2>. QED  BY <1>0, <2>2, <2>3
<1>2. \A p \in 1 .. Len(inner) : picks[p] <=> o < p /\ EndsChunk(inner, o, p)
  OBVIOUS
<1>3. E = Picked(s, picks)
  BY DEF Ends
<1>. HIDE DEF s, picks, E
<1>4. E \in Seq(Nat) /\ \E at : Picks(s, picks, Len(s), E, at)
  BY <1>1, <1>3, PickedIs
<1>5. PICK at : Picks(s, picks, Len(s), E, at)
  BY <1>4
<1>6. Len(E) \in Nat
  BY <1>4
<1>7. ASSUME NEW i \in 1 .. Len(E)
      PROVE  /\ at[i] \in 1 .. Len(inner) /\ E[i] = at[i] - 1
             /\ o < at[i] /\ EndsChunk(inner, o, at[i])
  <2>1. at[i] \in 1 .. Len(inner) /\ picks[at[i]] /\ E[i] = s[at[i]]
    BY <1>1, <1>5 DEF Picks
  <2>. QED  BY <1>1, <1>2, <2>1
<1>8. ASSUME NEW i \in 1 .. Len(E)
      PROVE  E[i] \in o .. (Len(inner) - 1) /\ EndsChunk(inner, o, E[i] + 1)
  <2>1. E[i] + 1 = at[i]
    BY <1>0, <1>7
  <2>. QED  BY <1>0, <1>7, <2>1
<1>9. ASSUME NEW i \in 1 .. Len(E), NEW j \in 1 .. Len(E), i < j PROVE E[i] < E[j]
  <2>1. at[i] < at[j]
    BY <1>5, <1>9 DEF Picks
  <2>. QED  BY <1>0, <1>7, <2>1
<1>10. ASSUME NEW p \in (o + 1) .. Len(inner), EndsChunk(inner, o, p)
       PROVE  \E i \in 1 .. Len(E) : E[i] = p - 1
  <2>1. p \in 1 .. Len(s) /\ picks[p]
    BY <1>0, <1>1, <1>2, <1>10
  <2>2. PICK i \in 1 .. Len(E) : at[i] = p
    BY <1>5, <2>1 DEF Picks
  <2>. QED  BY <1>7, <2>2
<1>. QED  BY <1>4, <1>8, <1>9, <1>10 DEF E

Chunk == [start : Nat, end : Nat]

\* c are the pieces, limit at most, that a scan from offset o finds.
IsPieces(inner, o, limit, c) ==
    /\ c \in Seq(Chunk) /\ Len(c) <= limit
    /\ \A i \in 1 .. Len(c) :
         /\ c[i].end \in o .. (Len(inner) - 1)
         /\ c[i].start = IF i = 1 THEN o ELSE c[i - 1].end + 1
         /\ c[i].start <= c[i].end
         /\ EndsChunk(inner, o, c[i].end + 1)
    /\ \A p \in (o + 1) .. Len(inner) :
         /\ EndsChunk(inner, o, p)
         /\ Len(c) < limit \/ \E i \in 1 .. Len(c) : p <= c[i].end + 1
         => \E j \in 1 .. Len(c) : c[j].end = p - 1

IsWindow(inner, o, c) == IsPieces(inner, o, Batch, c)

LEMMA PiecesAre ==
    ASSUME NEW T, NEW inner \in Seq(T), NEW o \in Nat, NEW limit \in Nat
    PROVE  IsPieces(inner, o, limit, Pieces(inner, o, limit))
<1>. DEFINE E == Ends(inner, o)
            n == IF Len(E) < limit THEN Len(E) ELSE limit
            c == Pieces(inner, o, limit)
<1>0. /\ E \in Seq(Nat)
      /\ \A i \in 1 .. Len(E) : E[i] \in o .. (Len(inner) - 1) /\ EndsChunk(inner, o, E[i] + 1)
      /\ \A i, j \in 1 .. Len(E) : i < j => E[i] < E[j]
      /\ \A p \in (o + 1) .. Len(inner) :
           EndsChunk(inner, o, p) => \E i \in 1 .. Len(E) : E[i] = p - 1
  BY EndsAre
<1>1. c = [k \in 1 .. n |-> [start |-> IF k = 1 THEN o ELSE E[k - 1] + 1, end |-> E[k]]]
  BY DEF Pieces
<1>2. Len(inner) \in Nat
  OBVIOUS
<1>. HIDE DEF E, c
<1>3. Len(E) \in Nat /\ n \in Nat /\ n <= Len(E) /\ n <= limit /\ (n < limit => n = Len(E))
  BY <1>0
<1>. HIDE DEF n
<1>4. ASSUME NEW k \in 1 .. n
      PROVE  /\ E[k] \in Nat /\ (k # 1 => E[k - 1] \in Nat /\ E[k - 1] + 1 <= E[k])
  <2>1. k \in 1 .. Len(E)
    BY <1>3
  <2>2. E[k] \in Nat
    BY <1>0, <1>2, <2>1
  <2>3. ASSUME k # 1 PROVE E[k - 1] \in Nat /\ E[k - 1] + 1 <= E[k]
    <3>1. k - 1 \in 1 .. Len(E) /\ k - 1 < k
      BY <1>3, <2>1, <2>3
    <3>2. E[k - 1] < E[k]
      BY <1>0, <2>1, <3>1
    <3>3. E[k - 1] \in Nat
      BY <1>0, <1>2, <3>1
    <3>. QED  BY <2>2, <3>2, <3>3
  <2>. QED  BY <2>2, <2>3
<1>5. \A k \in 1 .. n : c[k].start = (IF k = 1 THEN o ELSE E[k - 1] + 1) /\ c[k].end = E[k]
  BY <1>1
<1>6. c \in Seq(Chunk) /\ Len(c) = n
  <2>1. \A k \in 1 .. n : [start |-> IF k = 1 THEN o ELSE E[k - 1] + 1, end |-> E[k]] \in Chunk
    BY <1>4 DEF Chunk
  <2>2. c \in [1 .. n -> Chunk]
    BY <1>1, <2>1
  <2>. QED  BY <1>3, <2>2
<1>7. ASSUME NEW i \in 1 .. Len(c)
      PROVE  /\ c[i].end \in o .. (Len(inner) - 1)
             /\ c[i].start = IF i = 1 THEN o ELSE c[i - 1].end + 1
             /\ c[i].start <= c[i].end
             /\ EndsChunk(inner, o, c[i].end + 1)
  <2>1. i \in 1 .. n /\ i \in 1 .. Len(E)
    BY <1>3, <1>6
  <2>2. c[i].end = E[i] /\ c[i].start = IF i = 1 THEN o ELSE E[i - 1] + 1
    BY <1>5, <2>1
  <2>3. E[i] \in o .. (Len(inner) - 1) /\ EndsChunk(inner, o, E[i] + 1)
    BY <1>0, <2>1
  <2>4. i # 1 => i - 1 \in 1 .. n
    BY <1>3, <2>1
  <2>5. i # 1 => c[i - 1].end = E[i - 1]
    BY <1>5, <2>4
  <2>6. c[i].start <= c[i].end
    BY <1>2, <1>4, <2>1, <2>2, <2>3
  <2>. QED  BY <2>2, <2>3, <2>5, <2>6
<1>8. ASSUME NEW p \in (o + 1) .. Len(inner), EndsChunk(inner, o, p),
             Len(c) < limit \/ \E i \in 1 .. Len(c) : p <= c[i].end + 1
      PROVE  \E j \in 1 .. Len(c) : c[j].end = p - 1
  <2>1. PICK j \in 1 .. Len(E) : E[j] = p - 1
    BY <1>0, <1>8
  <2>2. j <= n
    <3>1. CASE Len(c) < limit
      BY <1>3, <1>6, <2>1, <3>1
    <3>2. CASE \E i \in 1 .. Len(c) : p <= c[i].end + 1
      <4>1. PICK i \in 1 .. n : p <= c[i].end + 1
        BY <1>6, <3>2
      <4>2. i \in 1 .. Len(E) /\ c[i].end = E[i] /\ E[i] \in Nat
        BY <1>3, <1>4, <1>5, <4>1
      <4>3. ~(i < j)
        BY SMTT(30), <1>0, <1>2, <2>1, <4>1, <4>2
      <4>. QED  BY <1>3, <2>1, <4>1, <4>3
    <3>. QED  BY <1>8, <3>1, <3>2
  <2>3. j \in 1 .. n
    BY <1>3, <2>1, <2>2
  <2>. QED  BY <1>5, <1>6, <2>1, <2>3
<1>9. IsPieces(inner, o, limit, c)
  BY <1>3, <1>6, <1>7, <1>8 DEF IsPieces
<1>. QED  BY <1>9 DEF c

LEMMA SplitIs ==
    ASSUME NEW T, NEW inner \in Seq(T), NEW o \in Nat, Batch \in Nat
    PROVE  IsWindow(inner, o, Split(inner, o))
BY PiecesAre DEF IsWindow, Split

\* v are the pieces of c that are not empty, in order.
IsFilled(c, v, at) ==
    /\ v \in Seq(Chunk)
    /\ at \in [1 .. Len(v) -> 1 .. Len(c)]
    /\ \A i \in 1 .. Len(v) : v[i] = c[at[i]] /\ NonEmpty(v[i])
    /\ \A i, j \in 1 .. Len(v) : i < j => at[i] < at[j]
    /\ \A k \in 1 .. Len(c) : NonEmpty(c[k]) => \E i \in 1 .. Len(v) : at[i] = k

LEMMA FilledIs ==
    ASSUME NEW c \in Seq(Chunk)
    PROVE  Filled(c) \in Seq(Chunk) /\ \E at : IsFilled(c, Filled(c), at)
<1>. DEFINE picks == [k \in DOMAIN c |-> NonEmpty(c[k])]
            v == Filled(c)
<1>1. DOMAIN c = 1 .. Len(c) /\ \A k \in 1 .. Len(c) : picks[k] <=> NonEmpty(c[k])
  OBVIOUS
<1>2. v = Picked(c, picks)
  BY DEF Filled
<1>. HIDE DEF picks, v
<1>3. v \in Seq(Chunk) /\ \E at : Picks(c, picks, Len(c), v, at)
  BY <1>2, PickedIs
<1>4. PICK at : Picks(c, picks, Len(c), v, at)
  BY <1>3
<1>5. ASSUME NEW i \in 1 .. Len(v) PROVE v[i] = c[at[i]] /\ NonEmpty(v[i])
  <2>1. at[i] \in 1 .. Len(c) /\ picks[at[i]] /\ v[i] = c[at[i]]
    BY <1>4 DEF Picks
  <2>. QED  BY <1>1, <2>1
<1>6. IsFilled(c, v, at)
  BY <1>1, <1>3, <1>4, <1>5 DEF IsFilled, Picks
<1>. QED  BY <1>3, <1>6 DEF v

\* The last piece that is not empty.
LEMMA LastFilled ==
    ASSUME NEW c \in Seq(Chunk), c # <<>>, NonEmpty(c[Len(c)])
    PROVE  Filled(c) # <<>> /\ Filled(c)[Len(Filled(c))] = c[Len(c)]
<1>. DEFINE v == Filled(c)
            n == Len(c)
            m == Len(v)
<1>1. v \in Seq(Chunk)
  BY FilledIs
<1>2. PICK at : IsFilled(c, v, at)
  BY FilledIs
<1>. HIDE DEF v
<1>3. n \in 1 .. n /\ m \in Nat
  BY <1>1
<1>4. PICK i \in 1 .. m : at[i] = n
  BY <1>2, <1>3 DEF IsFilled
<1>5. m \in 1 .. m /\ at[m] \in 1 .. n
  BY <1>2, <1>3, <1>4 DEF IsFilled
<1>6. i = m
  <2>. SUFFICES ASSUME i < m PROVE FALSE
    BY <1>3, <1>4
  <2>1. at[i] < at[m]
    BY <1>2, <1>5 DEF IsFilled
  <2>. QED  BY <1>3, <1>4, <1>5, <2>1
<1>7. v[m] = c[at[m]]
  BY <1>2, <1>5 DEF IsFilled
<1>8. v # <<>>
  BY <1>5
<1>. QED  BY <1>4, <1>6, <1>7, <1>8 DEF v

\* Every piece is empty, or among those that are not.
LEMMA AllFilled ==
    ASSUME NEW c \in Seq(Chunk), NEW k \in 1 .. Len(c), NonEmpty(c[k])
    PROVE  \E i \in 1 .. Len(Filled(c)) : Filled(c)[i] = c[k]
<1>1. PICK at : IsFilled(c, Filled(c), at)
  BY FilledIs
<1>2. PICK i \in 1 .. Len(Filled(c)) : at[i] = k
  BY <1>1 DEF IsFilled
<1>3. Filled(c)[i] = c[at[i]]
  BY <1>1 DEF IsFilled
<1>. QED  BY <1>2, <1>3

\* Nothing is picked where nothing is marked.
LEMMA PickedNone ==
    ASSUME NEW T, NEW s \in Seq(T), NEW picks
    PROVE  Picked(s, picks) = <<>> <=> \A k \in 1 .. Len(s) : ~picks[k]
<1>. DEFINE r == Picked(s, picks)
<1>1. r \in Seq(T)
  BY PickedIs
<1>2. PICK at : Picks(s, picks, Len(s), r, at)
  BY PickedIs
<1>. HIDE DEF r
<1>3. ASSUME r = <<>>, NEW k \in 1 .. Len(s), picks[k] PROVE FALSE
  <2>1. PICK i \in 1 .. Len(r) : at[i] = k
    BY <1>2, <1>3 DEF Picks
  <2>2. Len(r) = 0
    BY <1>3
  <2>. QED  BY <2>1, <2>2
<1>4. ASSUME r # <<>> PROVE \E k \in 1 .. Len(s) : picks[k]
  <2>1. 1 \in 1 .. Len(r)
    BY <1>1, <1>4
  <2>2. at[1] \in 1 .. Len(s) /\ picks[at[1]]
    BY <1>2, <2>1 DEF Picks
  <2>. QED  BY <2>2
<1>. QED  BY <1>3, <1>4 DEF r

-----------------------------------------------------------------------------
(* Gaps.                                                                   *)

LEMMA GapOfOne ==
    ASSUME NEW T, NEW inner \in Seq(T), NEW a \in Nat, NEW b \in Nat, b <= Len(inner), b = a + 1
    PROVE  Gap(inner, a, b) = <<inner[b]>>
<1>1. Gap(inner, a, b) = [i \in 1 .. 1 |-> inner[a + i]]
  BY DEF Gap
<1>2. [i \in 1 .. 1 |-> inner[a + i]] = <<inner[a + 1]>>
  OBVIOUS
<1>. QED  BY <1>1, <1>2

LEMMA OneGap ==
    ASSUME NEW T, NEW inner \in Seq(T), NEW a \in Nat, NEW b \in Nat, b <= Len(inner), NEW x,
           Gap(inner, a, b) = <<x>>
    PROVE  b = a + 1 /\ inner[b] = x
<1>1. /\ b > a => Len(Gap(inner, a, b)) = b - a
      /\ b <= a => Gap(inner, a, b) = <<>>
  BY DEF Gap
<1>2. Len(<<x>>) = 1 /\ <<x>> # <<>>
  OBVIOUS
<1>3. b = a + 1
  BY <1>1, <1>2
<1>4. <<inner[b]>> = <<x>>
  BY <1>3, GapOfOne
<1>. QED  BY <1>3, <1>4

LEMMA GapIsOne ==
    ASSUME NEW T, NEW inner \in Seq(T), NEW a \in Nat, NEW b \in Nat, b <= Len(inner), NEW x
    PROVE  Gap(inner, a, b) = <<x>> <=> b = a + 1 /\ inner[b] = x
BY OneGap, GapOfOne

LEMMA GapIsNone ==
    ASSUME NEW T, NEW inner \in Seq(T), NEW a \in Nat, NEW b \in Nat, b <= Len(inner)
    PROVE  Gap(inner, a, b) = <<>> <=> b <= a
<1>1. b > a => Len(Gap(inner, a, b)) = b - a
  BY DEF Gap
<1>2. b <= a => Gap(inner, a, b) = <<>>
  BY DEF Gap
<1>3. Len(<<>>) = 0
  OBVIOUS
<1>. QED  BY <1>1, <1>2, <1>3

\* The array is closed where its last token, a bracket, is all that is left.
LEMMA ClosedAtIs ==
    ASSUME NEW T, NEW inner \in Seq(T), NEW o \in Nat
    PROVE  ClosedAt(inner, o) <=> Len(inner) = o + 1 /\ inner[o + 1] = "rbracket"
<1>1. ClosedAt(inner, o) <=> Gap(inner, o, Len(inner)) = <<"rbracket">>
  BY DEF ClosedAt, Gap
<1>2. Len(inner) \in Nat
  OBVIOUS
<1>3. ASSUME Gap(inner, o, Len(inner)) = <<"rbracket">>
      PROVE  Len(inner) = o + 1 /\ inner[o + 1] = "rbracket"
  <2>1. Len(inner) = o + 1 /\ inner[Len(inner)] = "rbracket"
    BY <1>2, <1>3, OneGap
  <2>. QED  BY <2>1
<1>4. ASSUME Len(inner) = o + 1, inner[o + 1] = "rbracket"
      PROVE  Gap(inner, o, Len(inner)) = <<"rbracket">>
  BY <1>2, <1>4, GapOfOne
<1>. QED  BY <1>1, <1>3, <1>4

-----------------------------------------------------------------------------
(* Where a window ends.                                                    *)

\* No bracket stands between offset o and offset a.
Flat(inner, o, a) == \A q \in (o + 1) .. a : inner[q] \notin {"lbracket", "rbracket"}

\* Then the levels behind a are the same from either.
LEMMA LevelBehind ==
    ASSUME NEW inner, NEW o \in Nat, NEW a \in Nat, o <= a, Flat(inner, o, a)
    PROVE  /\ \A p \in Nat : p >= a => Level(inner, o, p) = Level(inner, a, p)
           /\ \A p \in o .. a : Level(inner, o, p) = 0
<1>1. ASSUME NEW p \in Nat, p >= a, NEW t \in {"lbracket", "rbracket"}
      PROVE  {q \in (o + 1) .. p : inner[q] = t} = {q \in (a + 1) .. p : inner[q] = t}
  <2>1. ASSUME NEW q \in (o + 1) .. p, inner[q] = t PROVE q \in (a + 1) .. p
    BY <1>1, <2>1 DEF Flat
  <2>2. ASSUME NEW q \in (a + 1) .. p PROVE q \in (o + 1) .. p
    OBVIOUS
  <2>. QED  BY <2>1, <2>2
<1>2. ASSUME NEW p \in o .. a, NEW t \in {"lbracket", "rbracket"}
      PROVE  {q \in (o + 1) .. p : inner[q] = t} = {}
  BY <1>2 DEF Flat
<1>4. ASSUME NEW p \in Nat, p >= a PROVE Level(inner, o, p) = Level(inner, a, p)
  <2>1. {q \in (o + 1) .. p : inner[q] = "lbracket"} = {q \in (a + 1) .. p : inner[q] = "lbracket"}
    BY <1>1, <1>4
  <2>2. {q \in (o + 1) .. p : inner[q] = "rbracket"} = {q \in (a + 1) .. p : inner[q] = "rbracket"}
    BY <1>1, <1>4
  <2>. QED  BY <2>1, <2>2 DEF Level
<1>5. ASSUME NEW p \in o .. a PROVE Level(inner, o, p) = 0
  <2>1. {q \in (o + 1) .. p : inner[q] = "lbracket"} = {}
    BY <1>2
  <2>2. {q \in (o + 1) .. p : inner[q] = "rbracket"} = {}
    BY <1>2
  <2>3. Level(inner, o, p) = Cardinality({}) - Cardinality({})
    BY <2>1, <2>2, Zenon DEF Level
  <2>. QED  BY <2>3, FS_EmptySet
<1>. QED  BY <1>4, <1>5

\* No chunk ends behind the first token from offset o.
Stuck(inner, o) == \A p \in (o + 1) .. Len(inner) : EndsChunk(inner, o, p) => p = o + 1

\* Chunks end one behind the other.
LEMMA PiecesRise ==
    ASSUME NEW inner, Len(inner) \in Nat, NEW o \in Nat, NEW limit, NEW c, IsPieces(inner, o, limit, c)
    PROVE  /\ \A i \in 1 .. Len(c) : c[i].end \in Nat /\ c[i].start \in Nat
           /\ \A i, j \in 1 .. Len(c) : i < j => c[i].end < c[j].end /\ c[i].end < c[j].start
<1>. DEFINE n == Len(c)
<1>0. n \in Nat /\ \A i \in 1 .. n : c[i].end \in Nat /\ c[i].start \in Nat
  <2>1. c \in Seq(Chunk)
    BY DEF IsPieces
  <2>2. \A i \in 1 .. n : c[i] \in Chunk
    BY <2>1
  <2>. QED  BY <2>1, <2>2 DEF Chunk
<1>1. \A i \in 1 .. n : /\ c[i].start = IF i = 1 THEN o ELSE c[i - 1].end + 1
                        /\ c[i].start <= c[i].end
  BY DEF IsPieces
<1>. HIDE DEF n
<1>2. ASSUME NEW i \in 1 .. n, i + 1 \in 1 .. n
      PROVE  c[i + 1].start = c[i].end + 1 /\ c[i + 1].end > c[i].end
  <2>1. c[i + 1].start = c[i].end + 1
    BY <1>1, <1>2
  <2>. QED  BY SMTT(30), <1>0, <1>1, <1>2, <2>1
<1>3. ASSUME NEW i \in 1 .. n, NEW j \in 1 .. n, i < j
      PROVE  c[i].end < c[j].end /\ c[i].end < c[j].start
  <2>. DEFINE S == {x \in Nat : i + (x + 1) \in 1 .. n =>
                               c[i].end < c[i + (x + 1)].end /\ c[i].end < c[i + (x + 1)].start}
  <2>1. 0 \in S
    BY <1>0, <1>2
  <2>2. ASSUME NEW x \in Nat, x \in S PROVE x + 1 \in S
    <3>. DEFINE y == i + (x + 1)
    <3>. SUFFICES ASSUME y + 1 \in 1 .. n
                  PROVE  c[i].end < c[y + 1].end /\ c[i].end < c[y + 1].start
      <4>1. i + ((x + 1) + 1) = y + 1
        OBVIOUS
      <4>. QED  BY <4>1
    <3>1. y \in 1 .. n
      BY <1>0
    <3>2. c[i].end < c[y].end
      BY <2>2, <3>1
    <3>. HIDE DEF y, S
    <3>3. c[y + 1].start = c[y].end + 1 /\ c[y + 1].end > c[y].end
      BY <1>2, <3>1
    <3>. QED  BY <1>0, <3>1, <3>2, <3>3
  <2>3. Nat \subseteq S
    <3>. HIDE DEF S
    <3>. QED  BY <2>1, <2>2, NatSets
  <2>4. (j - i) - 1 \in Nat /\ i + (((j - i) - 1) + 1) = j
    BY <1>3
  <2>5. (j - i) - 1 \in S
    BY <2>3, <2>4
  <2>. QED  BY <2>4, <2>5
<1>. QED  BY <1>0, <1>3 DEF n

LEMMA EndsRise ==
    ASSUME NEW inner, Len(inner) \in Nat, NEW o \in Nat, NEW c, IsWindow(inner, o, c)
    PROVE  /\ \A i \in 1 .. Len(c) : c[i].end \in Nat /\ c[i].start \in Nat
           /\ \A i, j \in 1 .. Len(c) : i < j => c[i].end < c[j].end /\ c[i].end < c[j].start
BY PiecesRise DEF IsWindow

\* All chunks of a window but the last end at a comma.
LEMMA CommaBehind ==
    ASSUME NEW T, NEW inner \in Seq(T), NEW o \in Nat, NEW c, IsWindow(inner, o, c),
           NEW i \in 1 .. Len(c), i < Len(c)
    PROVE  inner[c[i].end + 1] = "comma"
<1>. DEFINE n == Len(c)
<1>1. n \in 1 .. n /\ n \in Nat /\ Len(inner) \in Nat
  BY DEF IsWindow, IsPieces
<1>2. /\ c[i].end \in o .. (Len(inner) - 1) /\ EndsChunk(inner, o, c[i].end + 1)
      /\ c[n].end \in o .. (Len(inner) - 1) /\ EndsChunk(inner, o, c[n].end + 1)
  BY <1>1 DEF IsWindow, IsPieces
<1>3. c[i].end < c[n].end
  BY <1>1, EndsRise
<1>. HIDE DEF n
<1>4. c[i].end + 1 \in (o + 1) .. ((c[n].end + 1) - 1)
  <2>. DEFINE a == c[i].end
              e == c[n].end
  <2>1. a \in o .. (Len(inner) - 1) /\ e \in o .. (Len(inner) - 1) /\ a < e
    BY <1>2, <1>3
  <2>. HIDE DEF a, e
  <2>2. a + 1 \in (o + 1) .. ((e + 1) - 1)
    BY <1>1, <2>1
  <2>. QED  BY <2>2 DEF a, e
<1>5. Reached(inner, o, c[n].end + 1)
  BY <1>2 DEF EndsChunk
<1>6. Level(inner, o, c[i].end + 1) >= 0
  BY <1>4, <1>5 DEF Reached
<1>7. Level(inner, o, c[i].end + 1) # -1
  BY <1>6
<1>. QED  BY <1>2, <1>7 DEF EndsChunk

\* A chunk that is one token and no bracket, or none.
IsSingle(inner, x) ==
    NonEmpty(x) => x.end = x.start + 1 /\ inner[x.end] \notin {"comma", "lbracket", "rbracket"}

\* In a window of such chunks there are no brackets up to the end of the last.
LEMMA SinglesAreFlat ==
    ASSUME NEW T, NEW inner \in Seq(T), NEW o \in Nat, NEW c, IsWindow(inner, o, c), c # <<>>,
           \A i \in 1 .. Len(c) : IsSingle(inner, c[i])
    PROVE  Flat(inner, o, c[Len(c)].end)
<1>. DEFINE n == Len(c)
            S == {i \in 1 .. n : Flat(inner, o, c[i].end)}
<1>1. /\ n \in Nat /\ n \in 1 .. n /\ Len(inner) \in Nat
      /\ \A i \in 1 .. n : c[i].start = IF i = 1 THEN o ELSE c[i - 1].end + 1
  BY DEF IsWindow, IsPieces
<1>2. \A i \in 1 .. n : c[i].start \in Nat /\ c[i].end \in Nat
  BY <1>1, EndsRise
<1>3. ASSUME NEW i \in 1 .. n
      PROVE  \A q \in (c[i].start + 1) .. c[i].end : inner[q] \notin {"lbracket", "rbracket"}
  <2>. DEFINE x == c[i].start
              y == c[i].end
  <2>1. x \in Nat /\ y \in Nat /\ (y = x \/ (y = x + 1 /\ inner[y] \notin {"lbracket", "rbracket"}))
    BY <1>2 DEF IsSingle, NonEmpty
  <2>. HIDE DEF x, y
  <2>2. \A q \in (x + 1) .. y : inner[q] \notin {"lbracket", "rbracket"}
    BY <2>1
  <2>. QED  BY <2>2 DEF x, y
<1>4. ASSUME NEW i \in 1 .. (n - 1), i \in S PROVE i + 1 \in S
  <2>1. i \in 1 .. n /\ i + 1 \in 1 .. n /\ i < Len(c)
    BY <1>1
  <2>2. inner[c[i].end + 1] = "comma"
    BY <2>1, CommaBehind
  <2>3. c[i + 1].start = c[i].end + 1
    BY <1>1, <2>1
  <2>4. Flat(inner, o, c[i].end)
    BY <1>4
  <2>5. ASSUME NEW q \in (o + 1) .. c[i + 1].end PROVE inner[q] \notin {"lbracket", "rbracket"}
    <3>. DEFINE x == c[i].end
                y == c[i + 1].end
    <3>1. x \in Nat /\ y \in Nat /\ inner[x + 1] = "comma"
      BY <1>2, <2>1, <2>2
    <3>2. /\ \A r \in (o + 1) .. x : inner[r] \notin {"lbracket", "rbracket"}
          /\ \A r \in ((x + 1) + 1) .. y : inner[r] \notin {"lbracket", "rbracket"}
      BY <1>3, <2>1, <2>3, <2>4 DEF Flat
    <3>3. q \in (o + 1) .. y
      OBVIOUS
    <3>. HIDE DEF x, y
    <3>4. q \in (o + 1) .. x \/ q = x + 1 \/ q \in ((x + 1) + 1) .. y
      BY <3>1, <3>3
    <3>. QED  BY <3>1, <3>2, <3>4
  <2>. QED  BY <2>1, <2>5 DEF Flat
<1>5. n > 0 => 1 \in S
  BY <1>1, <1>3 DEF Flat
<1>6. \A i \in 1 .. n : i \in S
  <2>. HIDE DEF n, S
  <2>. QED  BY <1>1, <1>4, <1>5, UpTo
<1>. QED  BY <1>1, <1>6

\* Behind a window that did not fill the buffer, or that ended at the bracket, no chunk
\* ends any more.
LEMMA LastIsStuck ==
    ASSUME NEW T, NEW inner \in Seq(T), NEW o \in Nat, NEW c, IsWindow(inner, o, c), c # <<>>,
           Flat(inner, o, c[Len(c)].end),
           Len(c) < Batch \/ inner[c[Len(c)].end + 1] = "rbracket"
    PROVE  Stuck(inner, c[Len(c)].end)
<1>. DEFINE n == Len(c)
            a == c[Len(c)].end
<1>1. n \in 1 .. n /\ Len(inner) \in Nat
  BY DEF IsWindow, IsPieces
<1>2. a \in o .. (Len(inner) - 1) /\ EndsChunk(inner, o, a + 1)
  BY <1>1 DEF IsWindow, IsPieces
<1>3. /\ \A q \in Nat : q >= a => Level(inner, o, q) = Level(inner, a, q)
      /\ \A q \in o .. a : Level(inner, o, q) = 0
  <2>1. a \in Nat /\ o <= a
    BY <1>2
  <2>. HIDE DEF a
  <2>2. Flat(inner, o, a)
    BY DEF a
  <2>. QED  BY <2>1, <2>2, LevelBehind
<1>4. n < Batch \/ inner[a + 1] = "rbracket"
  OBVIOUS
<1>5. \A p \in (o + 1) .. Len(inner) :
        EndsChunk(inner, o, p) /\ n < Batch => \E j \in 1 .. n : c[j].end = p - 1
  BY DEF IsWindow, IsPieces
<1>6. \A j \in 1 .. n : c[j].end <= a /\ c[j].end \in Nat
  BY <1>1, EndsRise
<1>. HIDE DEF n, a
<1>7. ASSUME NEW p \in (a + 1) .. Len(inner), EndsChunk(inner, a, p), p # a + 1 PROVE FALSE
  <2>1. p \in Nat /\ p > a + 1 /\ p \in (o + 1) .. Len(inner) /\ a \in Nat
    BY <1>1, <1>2, <1>7
  <2>2. Reached(inner, a, p)
    BY <1>7 DEF EndsChunk
  <2>3. CASE inner[a + 1] = "rbracket"
    <3>1. Level(inner, o, a + 1) = -1
      BY <1>2, <2>3 DEF EndsChunk
    <3>2. Level(inner, a, a + 1) = -1
      BY <1>3, <2>1, <3>1
    <3>3. Level(inner, a, a + 1) >= 0
      BY <1>1, <2>1, <2>2 DEF Reached
    <3>. QED  BY <3>2, <3>3
  <2>4. CASE n < Batch
    <3>1. ASSUME NEW q \in (o + 1) .. (p - 1) PROVE Level(inner, o, q) >= 0
      <4>1. CASE q <= a
        BY <1>2, <1>3, <4>1
      <4>2. CASE q > a
        BY <1>2, <1>3, <2>1, <2>2, <4>2 DEF Reached
      <4>. QED  BY <2>1, <4>1, <4>2
    <3>2. Reached(inner, o, p)
      BY <3>1 DEF Reached
    <3>3. EndsChunk(inner, o, p)
      BY <1>3, <1>7, <2>1, <3>2 DEF EndsChunk
    <3>4. PICK j \in 1 .. n : c[j].end = p - 1
      BY <1>5, <2>1, <2>4, <3>3
    <3>. QED  BY <1>6, <2>1, <3>4
  <2>. QED  BY <1>4, <2>3, <2>4
<1>8. Stuck(inner, a)
  BY <1>7 DEF Stuck
<1>. QED  BY <1>8 DEF a

\* A window without elements: commas up to its end, and the buffer is full or the
\* scan stands still there.
LEMMA EmptyWindow ==
    ASSUME NEW T, NEW inner \in Seq(T), NEW o \in Nat, Batch \in Nat,
           NEW c, IsWindow(inner, o, c), c # <<>>, Filled(c) = <<>>
    PROVE  /\ c[Len(c)].end = o + Len(c) - 1 /\ c[Len(c)].end < Len(inner)
           /\ \A q \in (o + 1) .. c[Len(c)].end : inner[q] = "comma"
           /\ Len(c) = Batch \/ Stuck(inner, c[Len(c)].end)
<1>. DEFINE n == Len(c)
<1>0. /\ c \in Seq(Chunk) /\ n \in Nat \ {0} /\ n <= Batch /\ Len(inner) \in Nat
      /\ \A i \in 1 .. n : c[i] \in Chunk
  BY DEF IsWindow, IsPieces
<1>1. \A i \in 1 .. n : /\ c[i].end \in o .. (Len(inner) - 1)
                        /\ c[i].start = IF i = 1 THEN o ELSE c[i - 1].end + 1
                        /\ EndsChunk(inner, o, c[i].end + 1)
  BY DEF IsWindow, IsPieces
<1>2. \A p \in (o + 1) .. Len(inner) :
         EndsChunk(inner, o, p) /\ n < Batch => \E j \in 1 .. n : c[j].end = p - 1
  BY DEF IsWindow, IsPieces
<1>3. \A i \in 1 .. n : c[i].start = c[i].end
  <2>1. PICK at : IsFilled(c, Filled(c), at)
    BY <1>0, FilledIs
  <2>2. Len(Filled(c)) = 0
    OBVIOUS
  <2>3. \A k \in 1 .. n : ~NonEmpty(c[k])
    BY <2>1, <2>2 DEF IsFilled
  <2>. QED  BY <2>3 DEF NonEmpty
<1>. HIDE DEF n
<1>4. \A i \in 1 .. n : c[i].end = o + i - 1
  <2>. DEFINE S == {m \in Nat : m + 1 \in 1 .. n => c[m + 1].end = o + m}
  <2>1. 0 \in S
    BY <1>0, <1>1, <1>3
  <2>2. ASSUME NEW m \in Nat, m \in S PROVE m + 1 \in S
    <3>. SUFFICES ASSUME (m + 1) + 1 \in 1 .. n PROVE c[(m + 1) + 1].end = o + (m + 1)
      OBVIOUS
    <3>1. m + 1 \in 1 .. n /\ ((m + 1) + 1) - 1 = m + 1 /\ (m + 1) + 1 # 1
      BY <1>0
    <3>2. c[m + 1].end = o + m
      BY <2>2, <3>1
    <3>. QED  BY <1>1, <1>3, <3>1, <3>2
  <2>3. Nat \subseteq S
    <3>. HIDE DEF S
    <3>. QED  BY <2>1, <2>2, NatSets
  <2>4. ASSUME NEW i \in 1 .. n PROVE c[i].end = o + i - 1
    <3>1. i - 1 \in Nat /\ (i - 1) + 1 = i
      OBVIOUS
    <3>2. i - 1 \in S
      BY <2>3, <3>1
    <3>. QED  BY <3>1, <3>2
  <2>. QED  BY <2>4
<1>5. ASSUME NEW q \in (o + 1) .. (o + n - 1) PROVE inner[q] = "comma"
  <2>1. q - o \in 1 .. n /\ (q - o) + 1 \in 1 .. n
    BY <1>0
  <2>2. c[q - o].end + 1 = q /\ c[(q - o) + 1].end + 1 = q + 1
    BY <1>0, <1>4, <2>1
  <2>3. EndsChunk(inner, o, q) /\ EndsChunk(inner, o, q + 1)
    BY <1>1, <2>1, <2>2
  <2>4. Reached(inner, o, q + 1)
    BY <2>3 DEF EndsChunk
  <2>5. Level(inner, o, q) >= 0
    BY <1>0, <2>4 DEF Reached
  <2>. QED  BY <2>3, <2>5 DEF EndsChunk
<1>. DEFINE a == o + n - 1
<1>6. a \in Nat /\ o <= a /\ a < Len(inner) /\ c[n].end = a /\ n \in 1 .. n
  BY SMTT(30), <1>0, <1>1, <1>4
<1>8. n = Batch \/ Stuck(inner, a)
  <2>1. Flat(inner, o, a)
    BY <1>5 DEF Flat
  <2>2. c[Len(c)].end = a
    BY <1>6 DEF n
  <2>. HIDE DEF a
  <2>3. Len(c) < Batch => Stuck(inner, c[Len(c)].end)
    BY <2>1, <2>2, LastIsStuck
  <2>. QED  BY <1>0, <2>2, <2>3 DEF n
<1>. QED  BY <1>5, <1>6, <1>8 DEF n

\* From there a window has one chunk at most.
LEMMA StuckStays ==
    ASSUME NEW T, NEW inner \in Seq(T), NEW o \in Nat, NEW c, IsWindow(inner, o, c),
           Stuck(inner, o), c # <<>>
    PROVE  c[Len(c)].end = o
<1>1. Len(c) \in 1 .. Len(c) /\ Len(inner) \in Nat
  BY DEF IsWindow, IsPieces
<1>2. c[Len(c)].end \in o .. (Len(inner) - 1) /\ EndsChunk(inner, o, c[Len(c)].end + 1)
  BY <1>1 DEF IsWindow, IsPieces
<1>3. c[Len(c)].end + 1 \in (o + 1) .. Len(inner)
  BY <1>1, <1>2
<1>4. c[Len(c)].end + 1 = o + 1
  BY <1>2, <1>3 DEF Stuck
<1>. QED  BY <1>2, <1>4

\* Nor has it one that is not empty.
LEMMA StuckIsEmpty ==
    ASSUME NEW T, NEW inner \in Seq(T), NEW o \in Nat, NEW c, IsWindow(inner, o, c), Stuck(inner, o)
    PROVE  Filled(c) = <<>>
<1>1. c \in Seq(Chunk) /\ Len(c) \in Nat
  BY DEF IsWindow, IsPieces
<1>2. PICK at : IsFilled(c, Filled(c), at)
  BY <1>1, FilledIs
<1>3. ASSUME NEW i \in 1 .. Len(Filled(c)) PROVE FALSE
  <2>1. at[i] \in 1 .. Len(c) /\ NonEmpty(c[at[i]])
    BY <1>2 DEF IsFilled
  <2>. DEFINE k == at[i]
  <2>2. /\ c[k].end \in o .. (Len(inner) - 1) /\ EndsChunk(inner, o, c[k].end + 1)
        /\ c[k].start <= c[k].end
        /\ c[k].start = IF k = 1 THEN o ELSE c[k - 1].end + 1
    BY <2>1 DEF IsWindow, IsPieces
  <2>3. c[k].end = o
    <3>1. c[k].end + 1 \in (o + 1) .. Len(inner)
      BY <2>2
    <3>. HIDE DEF k
    <3>. QED  BY <2>2, <3>1 DEF Stuck
  <2>4. k # 1 => k - 1 \in 1 .. Len(c) /\ c[k - 1].end >= o /\ c[k - 1].end \in Nat
    <3>1. k # 1 => k - 1 \in 1 .. Len(c)
      BY <1>1, <2>1
    <3>. HIDE DEF k
    <3>2. k # 1 => c[k - 1].end \in o .. (Len(inner) - 1)
      BY <3>1 DEF IsWindow, IsPieces
    <3>. QED  BY <3>1, <3>2
  <2>5. k = 1 => c[k].start = c[k].end
    BY <2>2, <2>3
  <2>6. k = 1
    <3>. SUFFICES ASSUME k # 1 PROVE FALSE
      OBVIOUS
    <3>. HIDE DEF k
    <3>. QED  BY <2>2, <2>3, <2>4
  <2>. QED  BY <2>1, <2>5, <2>6 DEF NonEmpty
<1>4. Filled(c) \in Seq(Chunk)
  BY <1>2 DEF IsFilled
<1>. QED  BY <1>3, <1>4

-----------------------------------------------------------------------------
(* Windows of an array without flaw.                                       *)

\* n elements that are one token each, commas between them, and the bracket.
Alternates(inner, n) ==
    /\ Len(inner) = (IF n = 0 THEN 1 ELSE 2 * n) /\ inner[Len(inner)] = "rbracket"
    /\ \A s \in 0 .. (n - 1) : inner[2 * s + 1] \notin {"comma", "lbracket", "rbracket"}
    /\ \A s \in 1 .. (n - 1) : inner[2 * s] = "comma"

\* Where element s of the array lies, behind k commas.
Elem(k, s) == [start |-> k + 2 * s, end |-> k + 2 * s + 1]

\* In such an array chunks end at the commas and at the bracket, and the bracket closes it.
LEMMA GoodEnds ==
    ASSUME NEW T, NEW G \in Seq(T), NEW n \in Nat, Alternates(G, n), NEW o \in Nat
    PROVE  /\ \A p \in (o + 1) .. Len(G) : EndsChunk(G, o, p) <=> n = 0 \/ p % 2 = 0
           /\ o < Len(G) => DepthLeft(G, o) = 0
<1>. DEFINE L == Len(G)
<1>1. /\ L \in Nat /\ L = (IF n = 0 THEN 1 ELSE 2 * n) /\ G[L] = "rbracket"
      /\ \A s \in 0 .. (n - 1) : G[2 * s + 1] \notin {"comma", "lbracket", "rbracket"}
      /\ \A s \in 1 .. (n - 1) : G[2 * s] = "comma"
  BY DEF Alternates
<1>2. ASSUME NEW p \in 1 .. L, p # L
      PROVE  IF p % 2 = 0 THEN G[p] = "comma" ELSE G[p] \notin {"comma", "lbracket", "rbracket"}
  <2>0. n > 0 /\ L = 2 * n
    BY <1>1, <1>2
  <2>. DEFINE s == p \div 2
  <2>1. p % 2 = 0 => p = 2 * s /\ s \in 1 .. (n - 1)
    BY <1>2, <2>0
  <2>2. p % 2 # 0 => p = 2 * s + 1 /\ s \in 0 .. (n - 1)
    BY <1>2, <2>0
  <2>. HIDE DEF s
  <2>. QED  BY <1>1, <2>0, <2>1, <2>2
<1>3. \A p \in 1 .. L : G[p] # "lbracket" /\ (G[p] = "rbracket" <=> p = L)
  BY <1>1, <1>2
<1>4. ASSUME NEW p \in (o + 1) .. L PROVE Level(G, o, p) = IF p = L THEN -1 ELSE 0
  <2>1. {q \in (o + 1) .. p : G[q] = "lbracket"} = {}
    BY <1>1, <1>3
  <2>2. CASE p = L
    <3>1. {q \in (o + 1) .. p : G[q] = "rbracket"} = {L}
      BY <1>1, <1>3, <2>2
    <3>2. Level(G, o, p) = Cardinality({}) - Cardinality({L})
      BY <2>1, <3>1, Zenon DEF Level
    <3>3. Cardinality({}) = 0 /\ Cardinality({L}) = 1
      BY FS_EmptySet, FS_Singleton
    <3>. QED  BY <2>2, <3>2, <3>3
  <2>3. CASE p # L
    <3>1. {q \in (o + 1) .. p : G[q] = "rbracket"} = {}
      BY <1>1, <1>3, <2>3
    <3>2. Level(G, o, p) = Cardinality({}) - Cardinality({})
      BY <2>1, <3>1, Zenon DEF Level
    <3>. QED  BY <2>3, <3>2, FS_EmptySet
  <2>. QED  BY <2>2, <2>3
<1>5. \A p \in (o + 1) .. L : Reached(G, o, p)
  BY <1>1, <1>4 DEF Reached
<1>6. ASSUME NEW p \in (o + 1) .. L PROVE EndsChunk(G, o, p) <=> n = 0 \/ p % 2 = 0
  <2>0. p \in 1 .. L
    OBVIOUS
  <2>1. CASE p = L
    <3>1. EndsChunk(G, o, p)
      BY <1>1, <1>4, <1>5, <2>1 DEF EndsChunk
    <3>2. n = 0 \/ p % 2 = 0
      BY <1>1, <2>1
    <3>. QED  BY <3>1, <3>2
  <2>2. CASE p # L
    <3>1. EndsChunk(G, o, p) <=> G[p] = "comma"
      BY <1>4, <1>5, <2>2 DEF EndsChunk
    <3>2. n # 0
      BY <1>1, <2>0, <2>2
    <3>. QED  BY <1>2, <2>0, <2>2, <3>1, <3>2
  <2>. QED  BY <2>1, <2>2
<1>7. ASSUME o < L PROVE DepthLeft(G, o) = 0
  <2>1. L \in (o + 1) .. L /\ L \in (o + 1) .. ((L + 1) - 1)
    BY <1>1, <1>7
  <2>2. Level(G, o, L) = -1
    BY <1>4, <2>1
  <2>3. ~Reached(G, o, L + 1)
    BY <2>1, <2>2 DEF Reached
  <2>. QED  BY <2>3 DEF DepthLeft
<1>. QED  BY <1>6, <1>7

\* The chunks c of a window hold the next elements behind m of n, one each, behind d
\* empty ones.
Follows(n, m, d, c) ==
    /\ c # <<>>
    /\ \A i \in 1 .. Len(c) : /\ c[i].end = 2 * ((m + i) - d) - 1
                              /\ i > d => c[i] = Elem(0, ((m + i) - d) - 1)
                              /\ i <= d => c[i].start = c[i].end
    /\ (m + Len(c)) - d <= n
    /\ Len(c) < Batch => (m + Len(c)) - d = n

\* A window of a good array, reached with m of its elements accepted: one chunk for each
\* element, behind the empty one before the comma.
LEMMA GoodWindow ==
    ASSUME NEW T, NEW G \in Seq(T), NEW n \in Nat, Alternates(G, n), Batch \in Nat \ {0},
           NEW m \in 0 .. n, NEW o \in Nat, NEW c, NEW d \in {0, 1},
           o = (IF m = 0 THEN 0 ELSE 2 * m - 1), d = (IF m = 0 THEN 0 ELSE 1), n # 0,
           IsWindow(G, o, c)
    PROVE  Follows(n, m, d, c)
<1>. DEFINE L == Len(c)
<1>1. Len(G) = 2 * n
  BY DEF Alternates
<1>2. \A p \in (o + 1) .. (2 * n) : EndsChunk(G, o, p) <=> p % 2 = 0
  BY <1>1, GoodEnds
<1>3. /\ c \in Seq(Chunk) /\ L \in Nat /\ L <= Batch /\ Batch > 0 /\ Batch \in Nat
      /\ \A i \in 1 .. L : /\ c[i] \in Chunk
                           /\ c[i].end \in o .. (2 * n - 1)
                           /\ c[i].start = IF i = 1 THEN o ELSE c[i - 1].end + 1
                           /\ c[i].start <= c[i].end
                           /\ (c[i].end + 1) % 2 = 0
  <2>1. c \in Seq(Chunk) /\ L <= Batch
    BY DEF IsWindow, IsPieces
  <2>2. L \in Nat /\ Batch > 0 /\ Batch \in Nat
    BY <2>1
  <2>3. ASSUME NEW i \in 1 .. L
        PROVE  /\ c[i] \in Chunk
               /\ c[i].end \in o .. (2 * n - 1)
               /\ c[i].start = IF i = 1 THEN o ELSE c[i - 1].end + 1
               /\ c[i].start <= c[i].end
               /\ (c[i].end + 1) % 2 = 0
    <3>1. /\ c[i].end \in o .. (2 * n - 1)
          /\ c[i].start = IF i = 1 THEN o ELSE c[i - 1].end + 1
          /\ c[i].start <= c[i].end /\ EndsChunk(G, o, c[i].end + 1)
      BY <1>1 DEF IsWindow, IsPieces
    <3>2. c[i].end + 1 \in (o + 1) .. (2 * n)
      BY <3>1
    <3>. QED  BY SMTT(30), <1>2, <2>1, <3>1, <3>2
  <2>. QED  BY <2>1, <2>2, <2>3
<1>4. ASSUME NEW p \in (o + 1) .. (2 * n), p % 2 = 0,
             L < Batch \/ \E i \in 1 .. L : p <= c[i].end + 1
      PROVE  \E j \in 1 .. L : c[j].end = p - 1
  BY <1>1, <1>2, <1>4 DEF IsWindow, IsPieces
<1>. HIDE DEF L
<1>. DEFINE E(i) == 2 * ((m + i) - d) - 1
<1>5. E(1) \in Nat /\ E(1) >= o /\ (E(1) + 1) % 2 = 0 /\ E(1) <= 2 * n - 1 /\ E(1) <= o + 1
  OBVIOUS
<1>6. L # 0
  <2>. SUFFICES ASSUME L = 0 PROVE FALSE
    OBVIOUS
  <2>1. E(1) + 1 \in (o + 1) .. (2 * n) /\ (E(1) + 1) % 2 = 0 /\ L < Batch
    BY <1>3, <1>5
  <2>2. \E j \in 1 .. L : c[j].end = (E(1) + 1) - 1
    BY <1>4, <2>1
  <2>. QED  BY <1>3, <2>2
<1>7. ASSUME NEW i \in 1 .. L, i + 1 \in 1 .. L PROVE c[i + 1].end >= c[i].end + 1
  BY <1>3, <1>7
<1>8. ASSUME NEW i \in 1 .. L PROVE \A j \in i .. L : c[i].end <= c[j].end
  <2>1. ASSUME NEW j \in i .. L, i # j PROVE c[i].end < c[j].end
    <3>1. j \in 1 .. L /\ i < j
      BY <1>3, <2>1
    <3>2. Len(G) \in Nat
      OBVIOUS
    <3>. QED  BY <3>1, <3>2, EndsRise DEF L
  <2>2. \A j \in 1 .. L : c[j].end \in Nat
    BY <1>3 DEF Chunk
  <2>3. \A j \in i .. L : j \in 1 .. L
    BY <1>3
  <2>. QED  BY <2>1, <2>2, <2>3
<1>9. c[1].end = E(1)
  <2>1. 1 \in 1 .. L /\ c[1].end \in Nat /\ c[1].end >= o /\ (c[1].end + 1) % 2 = 0
    BY <1>3, <1>6 DEF Chunk
  <2>2. c[1].end >= E(1)
    BY <1>5, <2>1
  <2>3. E(1) + 1 \in (o + 1) .. (2 * n) /\ (E(1) + 1) % 2 = 0 /\ E(1) + 1 <= c[1].end + 1
    BY <1>5, <2>1, <2>2
  <2>. HIDE DEF E
  <2>4. PICK j \in 1 .. L : c[j].end = (E(1) + 1) - 1
    BY <1>4, <2>1, <2>3
  <2>5. c[1].end <= c[j].end
    BY <1>3, <1>8, <2>1, <2>4
  <2>. QED  BY <1>5, <2>1, <2>2, <2>4, <2>5
<1>10. ASSUME NEW i \in 1 .. L, i + 1 \in 1 .. L, c[i].end = E(i) PROVE c[i + 1].end = E(i + 1)
  <2>1. /\ c[i + 1].end \in Nat /\ c[i].end \in Nat /\ c[i].end >= o /\ (c[i + 1].end + 1) % 2 = 0
        /\ (c[i].end + 1) % 2 = 0 /\ c[i + 1].end <= 2 * n - 1 /\ c[i + 1].end >= c[i].end + 1
    <3>. HIDE DEF E
    <3>0. c[i + 1].end \in o .. (2 * n - 1) /\ (c[i + 1].end + 1) % 2 = 0
      BY <1>3, <1>10
    <3>1. c[i + 1].end \in Nat /\ c[i + 1].end <= 2 * n - 1 /\ (c[i + 1].end + 1) % 2 = 0
      BY <3>0
    <3>2. c[i].end \in Nat /\ c[i].end >= o /\ (c[i].end + 1) % 2 = 0
      BY <1>3 DEF Chunk
    <3>. QED  BY <1>7, <1>10, <3>1, <3>2
  <2>2. c[i + 1].end >= c[i].end + 2 /\ (c[i].end + 3) % 2 = 0
    <3>. DEFINE x == c[i].end
                y == c[i + 1].end
    <3>1. x \in Nat /\ y \in Nat /\ (x + 1) % 2 = 0 /\ (y + 1) % 2 = 0 /\ y >= x + 1
      BY <2>1
    <3>. HIDE DEF x, y
    <3>2. y >= x + 2 /\ (x + 3) % 2 = 0
      BY <3>1
    <3>. QED  BY <3>2 DEF x, y
  <2>. DEFINE p == c[i].end + 3
  <2>3. p \in (o + 1) .. (2 * n) /\ p <= c[i + 1].end + 1 /\ p % 2 = 0
    <3>. DEFINE x == c[i].end
                y == c[i + 1].end
    <3>1. x \in Nat /\ y \in Nat /\ x >= o /\ y >= x + 2 /\ y <= 2 * n - 1 /\ (x + 3) % 2 = 0 /\ p = x + 3
      BY <2>1, <2>2
    <3>. HIDE DEF x, y, p
    <3>2. p \in (o + 1) .. (2 * n) /\ p <= y + 1 /\ p % 2 = 0
      BY <3>1
    <3>. QED  BY <3>2 DEF y
  <2>. HIDE DEF p
  <2>4. PICK j \in 1 .. L : c[j].end = p - 1
    BY <1>4, <1>10, <2>3
  <2>5. c[j].end = c[i].end + 2
    BY <2>1, <2>4 DEF p
  <2>6. ~(j <= i)
    <3>. SUFFICES ASSUME j <= i PROVE FALSE
      OBVIOUS
    <3>1. c[j].end <= c[i].end
      BY <1>3, <1>8
    <3>. QED  BY <2>1, <2>5, <3>1
  <2>7. c[i + 1].end <= c[j].end
    <3>1. j \in (i + 1) .. L
      BY <1>3, <2>6
    <3>. QED  BY <1>8, <1>10, <3>1
  <2>8. c[i + 1].end = E(i) + 2
    <3>. HIDE DEF E
    <3>. DEFINE x == c[i].end
                y == c[i + 1].end
    <3>1. x \in Nat /\ y \in Nat /\ y >= x + 2 /\ y <= x + 2
      BY <2>1, <2>2, <2>5, <2>7
    <3>2. x = E(i)
      BY <1>10
    <3>. HIDE DEF x, y
    <3>3. y = x + 2
      BY <3>1
    <3>4. y = E(i) + 2
      BY <3>2, <3>3
    <3>. QED  BY <3>4 DEF y
  <2>. QED  BY <2>8
<1>11. \A i \in 1 .. L : c[i].end = E(i)
  <2>. HIDE DEF E
  <2>. DEFINE S == {x \in Nat : x + 1 \in 1 .. L => c[x + 1].end = E(x + 1)}
  <2>1. 0 \in S
    BY <1>9
  <2>2. ASSUME NEW x \in Nat, x \in S PROVE x + 1 \in S
    <3>. SUFFICES ASSUME (x + 1) + 1 \in 1 .. L PROVE c[(x + 1) + 1].end = E((x + 1) + 1)
      OBVIOUS
    <3>1. x + 1 \in 1 .. L
      BY <1>3
    <3>. QED  BY <1>10, <2>2, <3>1
  <2>3. Nat \subseteq S
    <3>. HIDE DEF S
    <3>. QED  BY <2>1, <2>2, NatSets
  <2>4. ASSUME NEW i \in 1 .. L PROVE c[i].end = E(i)
    <3>1. i - 1 \in Nat /\ (i - 1) + 1 = i
      OBVIOUS
    <3>2. i - 1 \in S
      BY <2>3, <3>1
    <3>. QED  BY <3>1, <3>2
  <2>. QED  BY <2>4
<1>12. ASSUME NEW i \in 1 .. L
       PROVE  /\ i > d => c[i] = Elem(0, ((m + i) - d) - 1)
              /\ i <= d => c[i].start = c[i].end
  <2>1. c[i].end = E(i) /\ c[i].start = IF i = 1 THEN o ELSE c[i - 1].end + 1
    BY <1>3, <1>11
  <2>2. i # 1 => i - 1 \in 1 .. L
    BY <1>3
  <2>3. i # 1 => c[i - 1].end = E(i - 1)
    BY <1>11, <2>2
  <2>4. i <= d => i = 1 /\ o = E(1)
    OBVIOUS
  <2>5. i > d => c[i].start = 2 * (((m + i) - d) - 1) /\ c[i].end = 2 * (((m + i) - d) - 1) + 1
    BY <2>1, <2>2, <2>3
  <2>6. c[i] = [start |-> c[i].start, end |-> c[i].end]
    BY <1>3 DEF Chunk
  <2>7. i > d => c[i] = Elem(0, ((m + i) - d) - 1)
    <3>. SUFFICES ASSUME i > d PROVE c[i] = Elem(0, ((m + i) - d) - 1)
      OBVIOUS
    <3>. DEFINE s == ((m + i) - d) - 1
    <3>1. c[i].start = 0 + 2 * s /\ c[i].end = 0 + 2 * s + 1
      BY <2>5
    <3>. HIDE DEF s
    <3>2. c[i] = Elem(0, s)
      BY <2>6, <3>1 DEF Elem
    <3>. QED  BY <3>2 DEF s
  <2>. QED  BY <2>1, <2>4, <2>7
<1>13. (m + L) - d <= n
  <2>1. L \in 1 .. L
    BY <1>3, <1>6
  <2>2. E(L) <= 2 * n - 1
    <3>1. c[L].end = E(L) /\ c[L].end \in o .. (2 * n - 1)
      BY <1>3, <1>11, <2>1
    <3>. HIDE DEF E
    <3>. QED  BY <3>1
  <2>. QED  BY <1>3, <2>2
<1>14. ASSUME L < Batch PROVE (m + L) - d = n
  <2>1. 2 * n \in (o + 1) .. (2 * n) /\ (2 * n) % 2 = 0
    OBVIOUS
  <2>2. PICK j \in 1 .. L : c[j].end = 2 * n - 1
    BY <1>4, <1>14, <2>1
  <2>3. E(j) = 2 * n - 1
    BY <1>11, <2>2
  <2>. QED  BY <1>3, <1>13, <2>2, <2>3
<1>. QED  BY <1>3, <1>6, <1>11, <1>12, <1>13, <1>14 DEF L, Follows

\* The chunks behind the first d are the ones that are not empty.
LEMMA FilledBehind ==
    ASSUME NEW c \in Seq(Chunk), NEW d \in {0, 1}, d <= Len(c),
           \A i \in 1 .. Len(c) : NonEmpty(c[i]) <=> i > d
    PROVE  /\ Len(Filled(c)) = Len(c) - d
           /\ \A i \in 1 .. Len(Filled(c)) : i + d \in 1 .. Len(c) /\ Filled(c)[i] = c[i + d]
<1>. DEFINE v == Filled(c)
            M == Len(v)
            L == Len(c)
<1>1. PICK at : IsFilled(c, v, at)
  BY FilledIs
<1>2. v \in Seq(Chunk) /\ M \in Nat /\ L \in Nat
  BY <1>1 DEF IsFilled
<1>3. /\ \A i \in 1 .. M : at[i] \in 1 .. L /\ v[i] = c[at[i]] /\ at[i] > d
      /\ \A i, j \in 1 .. M : i < j => at[i] < at[j]
      /\ \A k \in 1 .. L : k > d => \E i \in 1 .. M : at[i] = k
  BY <1>1 DEF IsFilled
<1>. HIDE DEF v, M, L
<1>. DEFINE S == {x \in Nat : x + 1 \in 1 .. M => at[x + 1] = (x + 1) + d}
<1>4. 0 \in S
  <2>. SUFFICES ASSUME 1 \in 1 .. M PROVE at[1] = 1 + d
    OBVIOUS
  <2>1. at[1] \in 1 .. L /\ at[1] >= 1 + d
    BY <1>2, <1>3
  <2>2. 1 + d \in 1 .. L /\ 1 + d > d
    BY <1>2, <2>1
  <2>3. PICK i \in 1 .. M : at[i] = 1 + d
    BY <1>3, <2>2
  <2>4. i # 1 => at[1] < at[i]
    BY <1>2, <1>3
  <2>. QED  BY <2>1, <2>3, <2>4
<1>5. ASSUME NEW x \in Nat, x \in S PROVE x + 1 \in S
  <2>. SUFFICES ASSUME (x + 1) + 1 \in 1 .. M PROVE at[(x + 1) + 1] = ((x + 1) + 1) + d
    OBVIOUS
  <2>. DEFINE y == x + 1
  <2>1. y \in 1 .. M /\ y + 1 \in 1 .. M /\ y \in Nat
    BY <1>2
  <2>2. at[y] = y + d
    BY <1>5, <2>1
  <2>. HIDE DEF y, S
  <2>3. at[y] < at[y + 1] /\ at[y + 1] \in 1 .. L
    BY <1>3, <2>1
  <2>4. (y + 1) + d \in 1 .. L /\ (y + 1) + d > d /\ (y + 1) + d <= at[y + 1]
    BY <1>2, <2>1, <2>2, <2>3
  <2>5. PICK i \in 1 .. M : at[i] = (y + 1) + d
    BY <1>3, <2>4
  <2>6. ~(i < y)
    <3>1. i < y => at[i] < at[y]
      BY <1>3, <2>1
    <3>. QED  BY <2>1, <2>2, <2>5, <3>1
  <2>7. i # y
    BY <2>1, <2>2, <2>5
  <2>8. ~(y + 1 < i)
    <3>1. y + 1 < i => at[y + 1] < at[i]
      BY <1>3, <2>1
    <3>. QED  BY <2>3, <2>4, <2>5, <3>1
  <2>9. i = y + 1
    BY <1>2, <2>1, <2>6, <2>7, <2>8
  <2>. QED  BY <2>5, <2>9 DEF y
<1>6. Nat \subseteq S
  <2>. HIDE DEF S
  <2>. QED  BY <1>4, <1>5, NatSets
<1>7. ASSUME NEW i \in 1 .. M PROVE at[i] = i + d
  <2>1. i - 1 \in Nat /\ (i - 1) + 1 = i
    OBVIOUS
  <2>2. i - 1 \in S
    BY <1>6, <2>1
  <2>. QED  BY <2>1, <2>2
<1>. HIDE DEF S
<1>8. M = L - d
  <2>1. M + d <= L
    <3>1. CASE M = 0
      BY <1>2, <3>1 DEF L
    <3>2. CASE M # 0
      <4>1. M \in 1 .. M
        BY <1>2, <3>2
      <4>2. at[M] = M + d /\ at[M] \in 1 .. L
        BY <1>3, <1>7, <4>1
      <4>3. M + d \in 1 .. L
        BY <4>2
      <4>. QED  BY <1>2, <4>3
    <3>. QED  BY <3>1, <3>2
  <2>2. ~(M + d < L)
    <3>. SUFFICES ASSUME M + d < L PROVE FALSE
      OBVIOUS
    <3>1. (M + 1) + d \in 1 .. L /\ (M + 1) + d > d
      BY <1>2
    <3>2. PICK i \in 1 .. M : at[i] = (M + 1) + d
      BY <1>3, <3>1
    <3>3. at[i] = i + d
      BY <1>7
    <3>. QED  BY <1>2, <3>2, <3>3
  <2>. QED  BY <1>2, <2>1, <2>2
<1>9. \A i \in 1 .. M : i + d \in 1 .. L /\ v[i] = c[i + d]
  BY <1>3, <1>7
<1>. QED  BY <1>8, <1>9 DEF v, M, L

-----------------------------------------------------------------------------
(* Windows against one scan of the whole.                                  *)

LEMMA LevelFrom ==
    ASSUME NEW inner, NEW o \in Nat, Level(inner, 0, o) = 0, NEW p \in Nat, o <= p
    PROVE  Level(inner, o, p) = Level(inner, 0, p)
<1>1. ASSUME NEW t
      PROVE  LET A == {q \in (0 + 1) .. o : inner[q] = t}
                 B == {q \in (o + 1) .. p : inner[q] = t}
                 C == {q \in (0 + 1) .. p : inner[q] = t}
             IN  /\ Cardinality(C) = Cardinality(A) + Cardinality(B)
                 /\ Cardinality(A) \in Nat /\ Cardinality(B) \in Nat
  <2>. DEFINE A == {q \in (0 + 1) .. o : inner[q] = t}
              B == {q \in (o + 1) .. p : inner[q] = t}
              C == {q \in (0 + 1) .. p : inner[q] = t}
  <2>1. C = A \cup B /\ A \cap B = {}
    OBVIOUS
  <2>2. A \in SUBSET (1 .. o) /\ B \in SUBSET ((o + 1) .. p)
    OBVIOUS
  <2>3. IsFiniteSet(1 .. o) /\ IsFiniteSet((o + 1) .. p)
    BY FS_Interval
  <2>. HIDE DEF A, B, C
  <2>4. IsFiniteSet(A) /\ IsFiniteSet(B)
    BY <2>2, <2>3, FS_Subset
  <2>5. Cardinality(A \cup B) = Cardinality(A) + Cardinality(B) - Cardinality(A \cap B)
    BY <2>4, FS_Union, Zenon
  <2>6. Cardinality(A \cap B) = 0
    BY <2>1, FS_EmptySet
  <2>7. Cardinality(A) \in Nat /\ Cardinality(B) \in Nat
    BY <2>4, FS_CardinalityType
  <2>8. Cardinality(C) = Cardinality(A) + Cardinality(B)
    BY <2>1, <2>5, <2>6, <2>7
  <2>. QED  BY <2>7, <2>8 DEF A, B, C
<1>. DEFINE N(t, i, j) == Cardinality({q \in (i + 1) .. j : inner[q] = t})
<1>2. \A t : /\ N(t, 0, p) = N(t, 0, o) + N(t, o, p)
             /\ N(t, 0, o) \in Nat /\ N(t, o, p) \in Nat
  BY <1>1
<1>3. \A i, j : Level(inner, i, j) = N("lbracket", i, j) - N("rbracket", i, j)
  BY DEF Level
<1>. HIDE DEF N
<1>. QED  BY <1>2, <1>3

\* A scan may resume at offset o: nothing is open there.
Resumes(inner, o) == o \in Nat /\ (o = 0 \/ (o < Len(inner) /\ EndsChunk(inner, 0, o + 1)))

LEMMA ResumesLevel ==
    ASSUME NEW inner, NEW o, Resumes(inner, o)
    PROVE  Level(inner, 0, o) = 0 /\ Reached(inner, 0, o + 1)
<1>0. o \in Nat
  BY DEF Resumes
<1>1. CASE o = 0
  <2>1. Flat(inner, 0, 0)
    BY DEF Flat
  <2>2. Level(inner, 0, 0) = 0
    BY <2>1, LevelBehind
  <2>3. Reached(inner, 0, 1)
    BY DEF Reached
  <2>. QED  BY <1>1, <2>2, <2>3
<1>2. CASE o # 0
  <2>1. EndsChunk(inner, 0, o + 1)
    BY <1>2 DEF Resumes
  <2>. DEFINE N(t, j) == {q \in (0 + 1) .. j : inner[q] = t}
  <2>2. ASSUME NEW t PROVE /\ IsFiniteSet(N(t, o)) /\ Cardinality(N(t, o)) \in Nat
                           /\ Cardinality(N(t, o + 1)) =
                                Cardinality(N(t, o)) + (IF inner[o + 1] = t THEN 1 ELSE 0)
    <3>1. N(t, o) \in SUBSET (1 .. o) /\ IsFiniteSet(1 .. o)
      BY <1>0, FS_Interval
    <3>2. N(t, o + 1) = IF inner[o + 1] = t THEN N(t, o) \cup {o + 1} ELSE N(t, o)
      BY <1>0
    <3>3. o + 1 \notin N(t, o)
      BY <1>0
    <3>. HIDE DEF N
    <3>4. IsFiniteSet(N(t, o))
      BY <3>1, FS_Subset
    <3>5. Cardinality(N(t, o) \cup {o + 1}) = Cardinality(N(t, o)) + 1
      BY <3>3, <3>4, FS_AddElement
    <3>6. Cardinality(N(t, o)) \in Nat
      BY <3>4, FS_CardinalityType
    <3>. QED  BY <3>2, <3>4, <3>5, <3>6
  <2>3. \A j : Level(inner, 0, j) = Cardinality(N("lbracket", j)) - Cardinality(N("rbracket", j))
    BY DEF Level
  <2>. DEFINE C(t, j) == Cardinality(N(t, j))
  <2>4. ASSUME NEW t \in {"lbracket", "rbracket"}
        PROVE  C(t, o) \in Nat /\ C(t, o + 1) = C(t, o) + (IF inner[o + 1] = t THEN 1 ELSE 0)
    BY <2>2
  <2>5. \A j : Level(inner, 0, j) = C("lbracket", j) - C("rbracket", j)
    BY <2>3
  <2>. HIDE DEF N, C
  <2>6. C("lbracket", o) \in Nat /\ C("rbracket", o) \in Nat
    BY <2>4
  <2>7. /\ Level(inner, 0, o) = C("lbracket", o) - C("rbracket", o)
        /\ Level(inner, 0, o + 1) = C("lbracket", o + 1) - C("rbracket", o + 1)
    BY <2>5
  <2>10. Reached(inner, 0, o + 1)
    BY <2>1 DEF EndsChunk
  <2>8. CASE inner[o + 1] = "comma" /\ Level(inner, 0, o + 1) = 0
    <3>1. C("lbracket", o + 1) = C("lbracket", o) /\ C("rbracket", o + 1) = C("rbracket", o)
      BY <2>4, <2>6, <2>8
    <3>. QED  BY <2>6, <2>7, <2>8, <2>10, <3>1
  <2>9. CASE inner[o + 1] = "rbracket" /\ Level(inner, 0, o + 1) = -1
    <3>1. C("lbracket", o + 1) = C("lbracket", o) /\ C("rbracket", o + 1) = C("rbracket", o) + 1
      BY <2>4, <2>6, <2>9
    <3>. QED  BY <2>6, <2>7, <2>9, <2>10, <3>1
  <2>. QED  BY <2>1, <2>8, <2>9 DEF EndsChunk
<1>. QED  BY <1>1, <1>2

\* From there the same chunks end as from the beginning.
LEMMA SameEnds ==
    ASSUME NEW inner, Len(inner) \in Nat, NEW o, Resumes(inner, o),
           NEW p \in (o + 1) .. Len(inner)
    PROVE  EndsChunk(inner, o, p) <=> EndsChunk(inner, 0, p)
<1>0. o \in Nat /\ Level(inner, 0, o) = 0 /\ Reached(inner, 0, o + 1)
  BY ResumesLevel DEF Resumes
<1>1. ASSUME NEW q \in (o + 1) .. Len(inner) PROVE Level(inner, o, q) = Level(inner, 0, q)
  <2>1. q \in Nat /\ o <= q
    BY <1>0
  <2>. QED  BY <1>0, <2>1, LevelFrom
<1>2. Reached(inner, o, p) <=> Reached(inner, 0, p)
  <2>1. ASSUME Reached(inner, 0, p), NEW q \in (o + 1) .. (p - 1) PROVE Level(inner, o, q) >= 0
    <3>1. q \in (0 + 1) .. (p - 1) /\ q \in (o + 1) .. Len(inner)
      BY <1>0
    <3>. QED  BY <1>1, <2>1, <3>1 DEF Reached
  <2>2. ASSUME Reached(inner, o, p), NEW q \in (0 + 1) .. (p - 1) PROVE Level(inner, 0, q) >= 0
    <3>1. CASE q <= o
      <4>1. q \in (0 + 1) .. ((o + 1) - 1)
        BY <1>0, <3>1
      <4>. QED  BY <1>0, <4>1 DEF Reached
    <3>2. CASE q > o
      <4>1. q \in (o + 1) .. (p - 1) /\ q \in (o + 1) .. Len(inner)
        BY <1>0, <3>2
      <4>. QED  BY <1>1, <2>2, <4>1 DEF Reached
    <3>. QED  BY <1>0, <3>1, <3>2
  <2>. QED  BY <2>1, <2>2 DEF Reached
<1>. QED  BY <1>1, <1>2 DEF EndsChunk

\* What lies between two ends of the whole scan, and is not empty.
Item(inner, x) ==
    /\ x \in Chunk /\ x.start < x.end /\ x.end < Len(inner)
    /\ EndsChunk(inner, 0, x.end + 1) /\ (x.start = 0 \/ EndsChunk(inner, 0, x.start))
    /\ \A p \in (x.start + 1) .. x.end : ~EndsChunk(inner, 0, p)

\* The pieces of a scan that are not empty are items.
LEMMA PieceIsItem ==
    ASSUME NEW T, NEW inner \in Seq(T), NEW o, Resumes(inner, o), NEW limit \in Nat,
           NEW c, IsPieces(inner, o, limit, c), NEW k \in 1 .. Len(c), NonEmpty(c[k])
    PROVE  Item(inner, c[k]) /\ o <= c[k].start
<1>. DEFINE x == c[k]
<1>0. o \in Nat /\ Len(inner) \in Nat /\ Len(c) \in Nat
  BY DEF Resumes, IsPieces
<1>1. \A i \in 1 .. Len(c) : /\ c[i].end \in o .. (Len(inner) - 1)
                             /\ c[i].start = IF i = 1 THEN o ELSE c[i - 1].end + 1
                             /\ c[i].start <= c[i].end
                             /\ EndsChunk(inner, o, c[i].end + 1)
  BY DEF IsPieces
<1>2. /\ \A i \in 1 .. Len(c) : c[i].end \in Nat /\ c[i].start \in Nat
      /\ \A i, j \in 1 .. Len(c) : i < j => c[i].end < c[j].end /\ c[i].end < c[j].start
  BY <1>0, PiecesRise
<1>3. \A p \in (o + 1) .. Len(inner) :
         EndsChunk(inner, o, p) /\ (\E i \in 1 .. Len(c) : p <= c[i].end + 1)
           => \E j \in 1 .. Len(c) : c[j].end = p - 1
  BY DEF IsPieces
<1>4. \A p \in (o + 1) .. Len(inner) : EndsChunk(inner, o, p) <=> EndsChunk(inner, 0, p)
  BY <1>0, SameEnds
<1>5. x \in Chunk /\ x.start \in Nat /\ x.end \in Nat /\ x.start < x.end /\ x.end < Len(inner)
  <2>1. c \in Seq(Chunk)
    BY DEF IsPieces
  <2>2. x \in Chunk
    BY <2>1
  <2>3. x.start # x.end
    BY DEF NonEmpty
  <2>4. x.start <= x.end /\ x.end <= Len(inner) - 1 /\ x.start \in Nat /\ x.end \in Nat
    BY <1>0, <1>1, <1>2
  <2>. HIDE DEF x
  <2>. QED  BY <1>0, <2>2, <2>3, <2>4
<1>6. EndsChunk(inner, 0, x.end + 1)
  <2>1. x.end + 1 \in (o + 1) .. Len(inner) /\ EndsChunk(inner, o, x.end + 1)
    BY <1>0, <1>1
  <2>. QED  BY <1>4, <2>1
<1>7. CASE k = 1
  <2>1. x.start = o
    BY <1>1, <1>7
  <2>2. o = 0
    <3>. SUFFICES ASSUME o # 0 PROVE FALSE
      OBVIOUS
    <3>1. o + 1 \in (o + 1) .. Len(inner) /\ EndsChunk(inner, 0, o + 1)
      BY <1>0 DEF Resumes
    <3>2. o + 1 <= x.end + 1
      BY <1>0, <1>5, <2>1
    <3>3. PICK j \in 1 .. Len(c) : c[j].end = (o + 1) - 1
      BY <1>3, <1>4, <3>1, <3>2
    <3>4. c[j].end = o
      BY <1>0, <3>3
    <3>5. j = 1 \/ x.end < c[j].end
      BY <1>2, <1>7
    <3>. HIDE DEF x
    <3>6. x.end # o /\ ~(x.end < o)
      BY <1>0, <1>5, <2>1
    <3>. QED  BY <1>7, <3>4, <3>5, <3>6 DEF x
  <2>3. ASSUME NEW p \in (x.start + 1) .. x.end, EndsChunk(inner, 0, p) PROVE FALSE
    <3>1. p \in (o + 1) .. Len(inner) /\ p <= x.end + 1 /\ p - 1 < x.end
      BY <1>0, <1>5, <2>1
    <3>2. PICK j \in 1 .. Len(c) : c[j].end = p - 1
      BY <1>3, <1>4, <2>3, <3>1
    <3>3. j = 1 \/ x.end < c[j].end
      BY <1>2, <1>7
    <3>4. p \in Nat
      BY <1>0, <3>1
    <3>. QED  BY <1>5, <1>7, <3>1, <3>2, <3>3, <3>4
  <2>4. x.start = 0 /\ o <= x.start
    BY <1>0, <2>1, <2>2
  <2>. HIDE DEF x
  <2>5. Item(inner, x)
    BY <1>5, <1>6, <2>3, <2>4 DEF Item
  <2>. QED  BY <2>4, <2>5 DEF x
<1>8. CASE k # 1
  <2>0. k - 1 \in 1 .. Len(c) /\ k - 1 < k
    BY <1>0, <1>8
  <2>. DEFINE e == c[k - 1].end
  <2>1. x.start = e + 1 /\ e \in o .. (Len(inner) - 1) /\ EndsChunk(inner, o, e + 1) /\ e \in Nat
    BY <1>1, <1>2, <1>8, <2>0
  <2>2. EndsChunk(inner, 0, x.start) /\ o <= x.start
    <3>. HIDE DEF e, x
    <3>1. e + 1 \in (o + 1) .. Len(inner)
      BY <1>0, <2>1
    <3>. QED  BY <1>0, <1>4, <2>1, <3>1
  <2>3. ASSUME NEW p \in (x.start + 1) .. x.end, EndsChunk(inner, 0, p) PROVE FALSE
    <3>. HIDE DEF e
    <3>1. p \in (o + 1) .. Len(inner) /\ p <= x.end + 1 /\ p - 1 < x.end /\ p - 1 > e /\ p \in Nat
      <4>. HIDE DEF x
      <4>. QED  BY <1>0, <1>5, <2>1
    <3>2. PICK j \in 1 .. Len(c) : c[j].end = p - 1
      BY <1>3, <1>4, <2>3, <3>1
    <3>3. j <= k - 1 \/ k <= j
      BY <2>0
    <3>4. j <= k - 1 => c[j].end <= e
      <4>1. j <= k - 1 => j = k - 1 \/ j < k - 1
        BY <2>0
      <4>2. j < k - 1 => c[j].end < c[k - 1].end /\ c[j].end \in Nat /\ c[k - 1].end \in Nat
        BY <1>2, <2>0
      <4>. QED  BY <2>1, <4>1, <4>2 DEF e
    <3>5. k <= j => x.end <= c[j].end
      BY <1>2
    <3>. HIDE DEF x
    <3>. QED  BY <1>5, <2>1, <3>1, <3>2, <3>3, <3>4, <3>5
  <2>. HIDE DEF x
  <2>4. Item(inner, x)
    BY <1>5, <1>6, <2>2, <2>3 DEF Item
  <2>. QED  BY <2>2, <2>4 DEF x
<1>. QED  BY <1>7, <1>8

\* Every item from o on that the scan gets to is a piece of it.
LEMMA ItemIsPiece ==
    ASSUME NEW T, NEW inner \in Seq(T), NEW o, Resumes(inner, o), NEW limit \in Nat,
           NEW c, IsPieces(inner, o, limit, c), NEW x, Item(inner, x), o <= x.start,
           Len(c) < limit \/ \E i \in 1 .. Len(c) : x.end <= c[i].end
    PROVE  \E k \in 1 .. Len(c) : c[k] = x
<1>0. o \in Nat /\ Len(inner) \in Nat /\ Len(c) \in Nat
  BY DEF Resumes, IsPieces
<1>1. \A i \in 1 .. Len(c) : /\ c[i].end \in o .. (Len(inner) - 1)
                             /\ c[i].start = IF i = 1 THEN o ELSE c[i - 1].end + 1
                             /\ c[i].start <= c[i].end
                             /\ EndsChunk(inner, o, c[i].end + 1)
  BY DEF IsPieces
<1>2. /\ \A i \in 1 .. Len(c) : c[i].end \in Nat /\ c[i].start \in Nat
      /\ \A i, j \in 1 .. Len(c) : i < j => c[i].end < c[j].end /\ c[i].end < c[j].start
  BY <1>0, PiecesRise
<1>3. \A p \in (o + 1) .. Len(inner) :
         EndsChunk(inner, o, p) /\ (Len(c) < limit \/ \E i \in 1 .. Len(c) : p <= c[i].end + 1)
           => \E j \in 1 .. Len(c) : c[j].end = p - 1
  BY DEF IsPieces
<1>4. \A p \in (o + 1) .. Len(inner) : EndsChunk(inner, o, p) <=> EndsChunk(inner, 0, p)
  BY <1>0, SameEnds
<1>5. /\ x \in Chunk /\ x.start \in Nat /\ x.end \in Nat /\ x.start < x.end /\ x.end < Len(inner)
      /\ EndsChunk(inner, 0, x.end + 1) /\ (x.start = 0 \/ EndsChunk(inner, 0, x.start))
      /\ \A p \in (x.start + 1) .. x.end : ~EndsChunk(inner, 0, p)
  BY DEF Item, Chunk
<1>6. Len(c) < limit \/ \E i \in 1 .. Len(c) : x.end + 1 <= c[i].end + 1
  BY <1>2, <1>5
<1>7. PICK k \in 1 .. Len(c) : c[k].end = x.end
  <2>1. x.end + 1 \in (o + 1) .. Len(inner)
    BY <1>0, <1>5
  <2>2. \E k \in 1 .. Len(c) : c[k].end = (x.end + 1) - 1
    BY <1>3, <1>4, <1>5, <1>6, <2>1
  <2>. QED  BY <1>5, <2>2
\* No chunk ends between the start of the piece and the start of the item.
<1>8. ASSUME o < x.start, c[k].start < x.start PROVE FALSE
  <2>1. x.start \in (o + 1) .. Len(inner) /\ EndsChunk(inner, 0, x.start)
    BY <1>0, <1>5, <1>8
  <2>2. x.start <= c[k].end + 1
    BY <1>5, <1>7
  <2>3. PICK j \in 1 .. Len(c) : c[j].end = x.start - 1
    BY <1>3, <1>4, <2>1, <2>2
  <2>4. j < k
    <3>1. c[j].end < c[k].end
      BY <1>5, <1>7, <2>3
    <3>2. c[j].end \in Nat /\ c[k].end \in Nat
      BY <1>2
    <3>3. ~(k < j) /\ k # j
      BY <1>2, <3>1, <3>2
    <3>. QED  BY <3>3
  <2>5. c[j].end < c[k].start
    BY <1>2, <2>4
  <2>6. c[k].start \in Nat
    BY <1>2
  <2>. QED  BY <1>5, <1>8, <2>3, <2>5, <2>6
<1>9. ASSUME x.start < c[k].start PROVE FALSE
  <2>1. c[k].start \in Nat /\ c[k].start <= x.end
    BY <1>1, <1>2, <1>7
  <2>2. k # 1
    <3>. SUFFICES ASSUME k = 1 PROVE FALSE
      OBVIOUS
    <3>1. c[k].start = o
      BY <1>1
    <3>. QED  BY <1>0, <1>5, <1>9, <3>1
  <2>3. k - 1 \in 1 .. Len(c)
    BY <1>0, <2>2
  <2>4. c[k].start = c[k - 1].end + 1 /\ EndsChunk(inner, o, c[k - 1].end + 1)
        /\ c[k - 1].end \in o .. (Len(inner) - 1)
    BY <1>1, <2>2, <2>3
  <2>5. c[k].start \in (o + 1) .. Len(inner)
    <3>. DEFINE a == c[k - 1].end
    <3>1. a \in o .. (Len(inner) - 1) /\ c[k].start = a + 1
      BY <2>4
    <3>. HIDE DEF a
    <3>2. a + 1 \in (o + 1) .. Len(inner)
      BY <1>0, <3>1
    <3>. QED  BY <3>1, <3>2
  <2>6. EndsChunk(inner, 0, c[k].start)
    BY <1>4, <2>4, <2>5
  <2>7. c[k].start \in (x.start + 1) .. x.end
    BY <1>5, <1>9, <2>1
  <2>. QED  BY <1>5, <2>6, <2>7
<1>10. c[k].start = x.start
  <2>1. c[k].start \in Nat
    BY <1>2
  <2>2. o <= c[k].start
    <3>1. CASE k = 1
      BY <1>0, <1>1, <3>1
    <3>2. CASE k # 1
      <4>1. k - 1 \in 1 .. Len(c)
        BY <1>0, <3>2
      <4>2. c[k].start = c[k - 1].end + 1 /\ c[k - 1].end \in o .. (Len(inner) - 1)
        BY <1>1, <3>2, <4>1
      <4>. QED  BY <1>0, <4>2
    <3>. QED  BY <3>1, <3>2
  <2>. QED  BY <1>0, <1>5, <1>8, <1>9, <2>1, <2>2
<1>11. c[k] \in Chunk
  <2>1. c \in Seq(Chunk)
    BY DEF IsPieces
  <2>. QED  BY <2>1
<1>12. c[k] = x
  BY <1>5, <1>7, <1>10, <1>11 DEF Chunk
<1>. QED  BY <1>12

\* v are items, one behind the other.
Rising(inner, v) ==
    /\ v \in Seq(Chunk)
    /\ \A i \in 1 .. Len(v) : Item(inner, v[i])
    /\ \A i, j \in 1 .. Len(v) : i < j => v[i].end < v[j].end /\ v[i].end < v[j].start

LEMMA FilledRises ==
    ASSUME NEW T, NEW inner \in Seq(T), NEW o, Resumes(inner, o), NEW limit \in Nat,
           NEW c, IsPieces(inner, o, limit, c)
    PROVE  /\ Rising(inner, Filled(c))
           /\ \A i \in 1 .. Len(Filled(c)) : o <= Filled(c)[i].start /\ \E k \in 1 .. Len(c) : Filled(c)[i] = c[k]
           /\ \A x : /\ Item(inner, x) /\ o <= x.start
                     /\ Len(c) < limit \/ \E i \in 1 .. Len(c) : x.end <= c[i].end
                     => \E k \in 1 .. Len(Filled(c)) : Filled(c)[k] = x
<1>. DEFINE v == Filled(c)
<1>0. o \in Nat /\ Len(inner) \in Nat /\ c \in Seq(Chunk)
  BY DEF Resumes, IsPieces
<1>1. v \in Seq(Chunk)
  BY <1>0, FilledIs
<1>2. PICK at : IsFilled(c, v, at)
  BY <1>0, FilledIs
<1>. HIDE DEF v
<1>3. ASSUME NEW i \in 1 .. Len(v)
      PROVE  at[i] \in 1 .. Len(c) /\ v[i] = c[at[i]] /\ Item(inner, v[i]) /\ o <= v[i].start
  <2>1. at[i] \in 1 .. Len(c) /\ v[i] = c[at[i]] /\ NonEmpty(v[i])
    BY <1>2 DEF IsFilled
  <2>. QED  BY <2>1, PieceIsItem
<1>4. ASSUME NEW i \in 1 .. Len(v), NEW j \in 1 .. Len(v), i < j
      PROVE  v[i].end < v[j].end /\ v[i].end < v[j].start
  <2>1. at[i] < at[j]
    BY <1>2, <1>4 DEF IsFilled
  <2>2. \A a, b \in 1 .. Len(c) : a < b => c[a].end < c[b].end /\ c[a].end < c[b].start
    BY <1>0, PiecesRise
  <2>. QED  BY <1>3, <2>1, <2>2
<1>5. ASSUME NEW x, Item(inner, x), o <= x.start,
             Len(c) < limit \/ \E i \in 1 .. Len(c) : x.end <= c[i].end
      PROVE  \E k \in 1 .. Len(v) : v[k] = x
  <2>1. PICK k \in 1 .. Len(c) : c[k] = x
    BY <1>5, ItemIsPiece
  <2>2. NonEmpty(x)
    BY <1>5 DEF Item, NonEmpty, Chunk
  <2>3. \E i \in 1 .. Len(v) : v[i] = c[k]
    BY <1>0, <2>1, <2>2, AllFilled DEF v
  <2>. QED  BY <2>1, <2>3
<1>6. Rising(inner, v)
  BY <1>1, <1>3, <1>4 DEF Rising
<1>7. \A i \in 1 .. Len(v) : o <= v[i].start /\ \E k \in 1 .. Len(c) : v[i] = c[k]
  BY <1>3
<1>. QED  BY <1>5, <1>6, <1>7 DEF v

\* All items, in order.
WholeOf(inner) == Filled(Pieces(inner, 0, Len(inner)))

LEMMA WholeScan ==
    ASSUME NEW T, NEW inner \in Seq(T)
    PROVE  /\ Rising(inner, WholeOf(inner))
           /\ \A x : Item(inner, x) => \E k \in 1 .. Len(WholeOf(inner)) : WholeOf(inner)[k] = x
<1>. DEFINE n == Len(inner)
            c == Pieces(inner, 0, n)
<1>1. n \in Nat /\ Resumes(inner, 0)
  BY DEF Resumes
<1>2. IsPieces(inner, 0, n, c)
  BY <1>1, PiecesAre
<1>. HIDE DEF c
<1>3. /\ Len(c) \in Nat /\ Len(c) <= n /\ \A i \in 1 .. Len(c) : c[i].end \in Nat
      /\ \A i \in 1 .. Len(c) : c[i].start = IF i = 1 THEN 0 ELSE c[i - 1].end + 1
      /\ \A i \in 1 .. Len(c) : c[i].start <= c[i].end
  BY <1>1, <1>2, PiecesRise DEF IsPieces
<1>. HIDE DEF n
\* As many pieces as tokens reach the last token.
<1>4. \A i \in 1 .. Len(c) : c[i].end >= i - 1
  <2>. DEFINE S == {i \in Nat : i \in 1 .. Len(c) => c[i].end >= i - 1}
  <2>1. 0 \in S
    OBVIOUS
  <2>2. ASSUME NEW i \in Nat, i \in S PROVE i + 1 \in S
    <3>. SUFFICES ASSUME i + 1 \in 1 .. Len(c) PROVE c[i + 1].end >= i
      OBVIOUS
    <3>1. c[i + 1].end \in Nat
      BY <1>3
    <3>2. CASE i = 0
      BY <3>1, <3>2
    <3>3. CASE i # 0
      <4>1. i \in 1 .. Len(c) /\ i + 1 # 1 /\ (i + 1) - 1 = i
        BY <1>3, <3>3
      <4>2. c[i].end >= i - 1 /\ c[i].end \in Nat
        BY <1>3, <2>2, <4>1
      <4>3. c[i].end + 1 <= c[i + 1].end
        BY <1>3, <4>1
      <4>. QED  BY <3>1, <4>2, <4>3
    <3>. QED  BY <3>2, <3>3
  <2>3. Nat \subseteq S
    <3>. HIDE DEF S
    <3>. QED  BY <2>1, <2>2, NatSets
  <2>. QED  BY <2>3
<1>5. ASSUME NEW x, Item(inner, x)
      PROVE  0 <= x.start /\ (Len(c) < n \/ \E i \in 1 .. Len(c) : x.end <= c[i].end)
  <2>1. x.start \in Nat /\ x.end \in Nat /\ x.end < n
    BY <1>5 DEF Item, Chunk, n
  <2>2. ASSUME ~(Len(c) < n) PROVE \E i \in 1 .. Len(c) : x.end <= c[i].end
    <3>1. Len(c) = n /\ n \in 1 .. Len(c)
      BY <1>1, <1>3, <2>1, <2>2
    <3>2. c[n].end >= n - 1 /\ c[n].end \in Nat
      BY <1>3, <1>4, <3>1
    <3>. QED  BY <1>1, <2>1, <3>1, <3>2
  <2>. QED  BY <2>1, <2>2
<1>6. Rising(inner, Filled(c))
  BY <1>1, <1>2, FilledRises
<1>7. ASSUME NEW x, Item(inner, x) PROVE \E k \in 1 .. Len(Filled(c)) : Filled(c)[k] = x
  <2>1. 0 <= x.start /\ (Len(c) < n \/ \E i \in 1 .. Len(c) : x.end <= c[i].end)
    BY <1>5, <1>7
  <2>. QED  BY <1>1, <1>2, <1>7, <2>1, FilledRises
<1>. QED  BY <1>6, <1>7 DEF WholeOf, c, n

\* The items v come behind the first m of q, and with an item of q every earlier one behind those m.
Covers(q, v, m) ==
    /\ \A k \in 1 .. Len(v) : \E i \in (m + 1) .. Len(q) : q[i] = v[k]
    /\ \A i \in (m + 1) .. Len(q) :
          (\E j \in 1 .. Len(v) : q[i].end <= v[j].end) => \E k \in 1 .. Len(v) : q[i] = v[k]

\* Then v goes on behind the first m of q without a gap.
GoesOn(q, v, m) == m + Len(v) <= Len(q) /\ \A k \in 1 .. Len(v) : q[m + k] = v[k]

LEMMA Consecutive ==
    ASSUME NEW inner, NEW q, Rising(inner, q), NEW v, Rising(inner, v), NEW m \in 0 .. Len(q),
           Covers(q, v, m)
    PROVE  GoesOn(q, v, m)
<1>. USE DEF Covers, GoesOn
<1>. DEFINE S == {k \in Nat : k <= Len(v) => m + k <= Len(q) /\ (k > 0 => q[m + k] = v[k])}
<1>0. /\ Len(q) \in Nat /\ Len(v) \in Nat /\ m \in Nat
      /\ \A i \in 1 .. Len(q) : q[i].end \in Nat
      /\ \A i \in 1 .. Len(v) : v[i].end \in Nat
      /\ \A i, j \in 1 .. Len(q) : i < j => q[i].end < q[j].end
      /\ \A i, j \in 1 .. Len(v) : i < j => v[i].end < v[j].end
  <2>1. \A x : Item(inner, x) => x.end \in Nat
    BY DEF Item, Chunk
  <2>. QED  BY <2>1 DEF Rising
<1>1. /\ \A i, j \in 1 .. Len(q) : q[i].end < q[j].end => i < j
      /\ \A i, j \in 1 .. Len(v) : v[i].end < v[j].end => i < j
      /\ \A i, j \in 1 .. Len(q) : i < j => q[i].end <= q[j].end
  <2>1. ASSUME NEW i \in 1 .. Len(q), NEW j \in 1 .. Len(q), q[i].end < q[j].end PROVE i < j
    <3>1. ~(j < i) /\ i # j
      BY <1>0, <2>1
    <3>. QED  BY <3>1
  <2>2. ASSUME NEW i \in 1 .. Len(v), NEW j \in 1 .. Len(v), v[i].end < v[j].end PROVE i < j
    <3>1. ~(j < i) /\ i # j
      BY <1>0, <2>2
    <3>. QED  BY <3>1
  <2>3. ASSUME NEW i \in 1 .. Len(q), NEW j \in 1 .. Len(q), i < j PROVE q[i].end <= q[j].end
    BY <1>0, <2>3
  <2>. QED  BY <2>1, <2>2, <2>3
<1>2. 0 \in S
  BY <1>0
<1>3. ASSUME NEW k \in Nat, k \in S PROVE k + 1 \in S
  <2>. SUFFICES ASSUME k + 1 <= Len(v) PROVE m + (k + 1) <= Len(q) /\ q[m + (k + 1)] = v[k + 1]
    BY <1>0
  <2>0. k + 1 \in 1 .. Len(v) /\ m + k <= Len(q) /\ (k > 0 => k \in 1 .. Len(v) /\ q[m + k] = v[k])
    BY <1>0, <1>3
  <2>1. PICK i \in (m + 1) .. Len(q) : q[i] = v[k + 1]
    BY <2>0
  <2>. DEFINE n == (m + k) + 1
  <2>2. i \in 1 .. Len(q) /\ i >= n
    <3>1. i \in 1 .. Len(q)
      BY <1>0
    <3>2. CASE k = 0
      BY <1>0, <3>1, <3>2
    <3>3. CASE k > 0
      <4>1. m + k \in 1 .. Len(q) /\ k < k + 1
        BY <1>0, <2>0, <3>3
      <4>2. q[m + k].end < q[i].end
        BY <1>0, <2>0, <2>1, <3>3
      <4>3. m + k < i
        BY <1>1, <3>1, <4>1, <4>2
      <4>. QED  BY <1>0, <3>1, <4>3
    <3>. QED  BY <3>1, <3>2, <3>3
  <2>3. ASSUME i > n PROVE FALSE
    <3>1. n \in (m + 1) .. Len(q) /\ n \in 1 .. Len(q) /\ n < i
      BY <1>0, <2>2, <2>3
    <3>. HIDE DEF n
    <3>2. q[n].end < v[k + 1].end
      BY <1>0, <2>1, <2>2, <3>1
    <3>3. PICK l \in 1 .. Len(v) : q[n] = v[l]
      <4>1. q[n].end <= q[i].end
        BY <1>1, <2>2, <3>1
      <4>. QED  BY <2>0, <2>1, <3>1, <4>1
    <3>4. l < k + 1
      BY <1>1, <2>0, <3>2, <3>3
    <3>5. CASE k = 0
      BY <3>4, <3>5
    <3>6. CASE k > 0
      <4>1. m + k \in 1 .. Len(q) /\ m + k < n /\ l <= k
        <5>1. l \in Nat /\ (m + k) + 1 = n
          BY <1>0 DEF n
        <5>2. m + k \in 1 .. Len(q)
          BY <1>0, <2>0, <3>6
        <5>. QED  BY <1>0, <3>4, <5>1, <5>2
      <4>2. v[k].end < v[l].end
        <5>1. q[m + k].end < q[n].end
          BY <1>0, <3>1, <4>1
        <5>. QED  BY <2>0, <3>3, <3>6, <5>1
      <4>3. k < l
        BY <1>1, <2>0, <3>3, <3>6, <4>2
      <4>. QED  BY <2>0, <3>3, <3>6, <4>1, <4>3
    <3>. QED  BY <3>5, <3>6
  <2>4. i = n
    BY <1>0, <2>2, <2>3
  <2>. QED  BY <1>0, <2>1, <2>2, <2>4
<1>4. Nat \subseteq S
  <2>. HIDE DEF S
  <2>. QED  BY <1>2, <1>3, NatSets
<1>5. Len(v) \in S
  BY <1>0, <1>4
<1>6. ASSUME NEW k \in 1 .. Len(v) PROVE q[m + k] = v[k]
  <2>1. k \in S /\ k > 0 /\ k <= Len(v)
    BY <1>0, <1>4
  <2>. QED  BY <2>1
<1>. QED  BY <1>0, <1>5, <1>6

\* A scan that resumes at offset o has the first m items behind it and the others ahead.
Between(inner, m, o) ==
    /\ Resumes(inner, o) /\ m \in 0 .. Len(WholeOf(inner))
    /\ \A i \in 1 .. m : WholeOf(inner)[i].end <= o
    /\ \A i \in (m + 1) .. Len(WholeOf(inner)) : o <= WholeOf(inner)[i].start

\* A window with elements has the next items, and the one behind it the items after them.
LEMMA WindowBetween ==
    ASSUME NEW T, NEW inner \in Seq(T), Batch \in Nat, NEW m, NEW o, Between(inner, m, o),
           NEW c, IsWindow(inner, o, c), Filled(c) # <<>>
    PROVE  /\ m + Len(Filled(c)) <= Len(WholeOf(inner))
           /\ \A k \in 1 .. Len(Filled(c)) : WholeOf(inner)[m + k] = Filled(c)[k]
           /\ c # <<>> /\ o < c[Len(c)].end
           /\ Between(inner, m + Len(Filled(c)), c[Len(c)].end)
<1>. DEFINE v == Filled(c)
            q == WholeOf(inner)
            n == Len(c)
            e == c[n].end
<1>0. /\ Resumes(inner, o) /\ o \in Nat /\ Len(inner) \in Nat /\ m \in 0 .. Len(q)
      /\ \A i \in 1 .. m : q[i].end <= o
      /\ \A i \in (m + 1) .. Len(q) : o <= q[i].start
      /\ c \in Seq(Chunk)
  BY DEF Between, Resumes, IsWindow, IsPieces
<1>1. IsPieces(inner, o, Batch, c)
  BY DEF IsWindow
<1>2. Rising(inner, q) /\ \A x : Item(inner, x) => \E k \in 1 .. Len(q) : q[k] = x
  BY WholeScan
<1>3. /\ Rising(inner, v)
      /\ \A i \in 1 .. Len(v) : o <= v[i].start /\ \E k \in 1 .. n : v[i] = c[k]
      /\ \A x : /\ Item(inner, x) /\ o <= x.start
                /\ n < Batch \/ \E i \in 1 .. n : x.end <= c[i].end
                => \E k \in 1 .. Len(v) : v[k] = x
  <2>1. Batch \in Nat
    OBVIOUS
  <2>. QED  BY <1>0, <1>1, <2>1, FilledRises, SMTT(30)
<1>4. v # <<>> /\ v \in Seq(Chunk)
  BY <1>3 DEF Rising
<1>. HIDE DEF v, q
<1>5. /\ Len(q) \in Nat /\ Len(v) \in Nat \ {0} /\ m \in Nat
      /\ \A i \in 1 .. Len(q) : Item(inner, q[i]) /\ q[i].end \in Nat /\ q[i].start \in Nat /\ q[i].start < q[i].end
      /\ \A i \in 1 .. Len(v) : Item(inner, v[i]) /\ v[i].end \in Nat /\ v[i].start \in Nat /\ v[i].start < v[i].end
      /\ \A i, j \in 1 .. Len(q) : i < j => q[i].end < q[j].end
  <2>1. ASSUME NEW x, Item(inner, x)
        PROVE  x.end \in Nat /\ x.start \in Nat /\ x.start < x.end
    BY <2>1 DEF Item, Chunk
  <2>2. Len(q) \in Nat /\ Len(v) \in Nat \ {0} /\ m \in Nat
    BY <1>0, <1>2, <1>4 DEF Rising
  <2>3. /\ \A i \in 1 .. Len(q) : Item(inner, q[i])
        /\ \A i \in 1 .. Len(v) : Item(inner, v[i])
        /\ \A i, j \in 1 .. Len(q) : i < j => q[i].end < q[j].end
    BY <1>2, <1>3 DEF Rising
  <2>. QED  BY <2>1, <2>2, <2>3
<1>6. ASSUME NEW k \in 1 .. Len(v) PROVE \E i \in (m + 1) .. Len(q) : q[i] = v[k]
  <2>1. PICK i \in 1 .. Len(q) : q[i] = v[k]
    BY <1>2, <1>5
  <2>2. ~(i <= m)
    <3>. SUFFICES ASSUME i <= m PROVE FALSE
      OBVIOUS
    <3>1. i \in 1 .. m
      BY <1>5
    <3>2. q[i].end <= o /\ o <= v[k].start /\ v[k].start < v[k].end
      BY <1>0, <1>3, <1>5, <3>1
    <3>. QED  BY <1>0, <1>5, <2>1, <3>2
  <2>3. i \in (m + 1) .. Len(q)
    BY <1>5, <2>2
  <2>. QED  BY <2>1, <2>3
<1>7. ASSUME NEW i \in (m + 1) .. Len(q), NEW j \in 1 .. Len(v), q[i].end <= v[j].end
      PROVE  \E k \in 1 .. Len(v) : q[i] = v[k]
  <2>1. i \in 1 .. Len(q) /\ o <= q[i].start
    BY <1>0, <1>5
  <2>2. PICK k \in 1 .. n : v[j] = c[k]
    BY <1>3
  <2>3. q[i].end <= c[k].end
    BY <1>7, <2>2
  <2>. QED  BY <1>3, <1>5, <2>1, <2>3
<1>8. m + Len(v) <= Len(q) /\ \A k \in 1 .. Len(v) : q[m + k] = v[k]
  <2>1. Rising(inner, q) /\ Rising(inner, v) /\ m \in 0 .. Len(q)
    BY <1>0, <1>2, <1>3
  <2>2. Covers(q, v, m)
    BY <1>6, <1>7 DEF Covers
  <2>3. GoesOn(q, v, m)
    BY <2>1, <2>2, Consecutive, Zenon
  <2>. QED  BY <2>3 DEF GoesOn
<1>9. /\ n \in Nat /\ \A i \in 1 .. n : c[i].end \in Nat
      /\ \A i, j \in 1 .. n : i < j => c[i].end < c[j].end
  BY <1>0, <1>1, PiecesRise
<1>10. c # <<>> /\ n \in 1 .. n
  <2>1. 1 \in 1 .. Len(v)
    BY <1>5
  <2>2. PICK k \in 1 .. n : v[1] = c[k]
    BY <1>3, <2>1
  <2>. QED  BY <1>0, <1>9, <2>2
<1>11. e \in o .. (Len(inner) - 1) /\ EndsChunk(inner, o, e + 1) /\ e \in Nat
  BY <1>1, <1>9, <1>10 DEF IsPieces
<1>12. \A i \in 1 .. n : c[i].end <= e
  <2>1. ASSUME NEW i \in 1 .. n PROVE c[i].end <= e
    <3>1. i = n \/ i < n
      BY <1>9
    <3>. QED  BY <1>9, <1>10, <3>1
  <2>. QED  BY <2>1
<1>. HIDE DEF e
<1>13. \A k \in 1 .. Len(v) : v[k].end <= e
  BY <1>3, <1>12
<1>14. o < e
  <2>1. 1 \in 1 .. Len(v)
    BY <1>5
  <2>2. o <= v[1].start /\ v[1].start < v[1].end /\ v[1].end <= e /\ v[1].start \in Nat /\ v[1].end \in Nat
    BY <1>3, <1>5, <1>13, <2>1
  <2>. QED  BY <1>0, <1>11, <2>2
<1>15. Resumes(inner, e)
  <2>1. e + 1 \in (o + 1) .. Len(inner)
    BY <1>0, <1>11
  <2>2. EndsChunk(inner, 0, e + 1)
    BY <1>0, <1>11, <2>1, SameEnds
  <2>. QED  BY <1>0, <1>11, <2>2 DEF Resumes
<1>. DEFINE t == m + Len(v)
<1>16. t \in 0 .. Len(q) /\ t \in Nat
  BY <1>5, <1>8
<1>17. ASSUME NEW i \in 1 .. t PROVE q[i].end <= e
  <2>1. CASE i <= m
    <3>1. i \in 1 .. m /\ i \in 1 .. Len(q)
      BY <1>5, <1>16, <2>1
    <3>. QED  BY <1>0, <1>5, <1>11, <1>14, <3>1
  <2>2. CASE i > m
    <3>1. i - m \in 1 .. Len(v) /\ m + (i - m) = i
      BY <1>5, <2>2
    <3>2. q[i] = v[i - m]
      BY <1>8, <3>1
    <3>. QED  BY <1>13, <3>1, <3>2
  <2>. QED  BY <1>5, <2>1, <2>2
<1>18. ASSUME NEW i \in (t + 1) .. Len(q) PROVE e <= q[i].start
  <2>. SUFFICES ASSUME q[i].start < e PROVE FALSE
    <3>1. i \in 1 .. Len(q)
      BY <1>16
    <3>. QED  BY <1>5, <1>11, <3>1
  <2>0. i \in 1 .. Len(q) /\ i \in (m + 1) .. Len(q) /\ o <= q[i].start
    BY <1>0, <1>5, <1>16
  <2>1. q[i].end <= e
    <3>. SUFFICES ASSUME e < q[i].end PROVE FALSE
      BY <1>5, <1>11, <2>0
    <3>1. e + 1 \in (q[i].start + 1) .. q[i].end
      BY <1>5, <1>11, <2>0
    <3>2. \A p \in (q[i].start + 1) .. q[i].end : ~EndsChunk(inner, 0, p)
      BY <1>5, <2>0 DEF Item
    <3>3. EndsChunk(inner, 0, e + 1)
      BY <1>14, <1>15, <1>0 DEF Resumes
    <3>. QED  BY <3>1, <3>2, <3>3
  <2>2. q[i].end <= c[n].end
    BY <2>1 DEF e
  <2>3. PICK k \in 1 .. Len(v) : v[k] = q[i]
    BY <1>3, <1>5, <1>10, <2>0, <2>2
  <2>4. m + k \in 1 .. Len(q) /\ m + k < i /\ q[m + k] = v[k]
    <3>1. q[m + k] = v[k]
      BY <1>8
    <3>2. m + k \in 1 .. Len(q) /\ m + k < i
      BY <1>5, <1>16
    <3>. QED  BY <3>1, <3>2
  <2>5. q[m + k].end < q[i].end
    BY <1>5, <2>0, <2>4
  <2>. QED  BY <1>5, <2>0, <2>3, <2>4, <2>5
<1>19. Between(inner, t, e)
  <2>. HIDE DEF t
  <2>. QED  BY <1>15, <1>16, <1>17, <1>18 DEF Between, q
<1>. QED  BY <1>8, <1>10, <1>14, <1>19 DEF v, q, e

\* A window without elements that is not full of commas has every item behind it.
LEMMA WindowEmpty ==
    ASSUME NEW T, NEW inner \in Seq(T), Batch \in Nat \ {0}, NEW m, NEW o, Between(inner, m, o),
           NEW c, IsWindow(inner, o, c), Filled(c) = <<>>,
           ~\E a \in 0 .. (Len(inner) - Batch) : \A k \in 1 .. Batch : inner[a + k] = "comma"
    PROVE  m = Len(WholeOf(inner))
<1>. DEFINE q == WholeOf(inner)
            n == Len(c)
<1>0. /\ Resumes(inner, o) /\ o \in Nat /\ Len(inner) \in Nat /\ m \in 0 .. Len(q)
      /\ \A i \in (m + 1) .. Len(q) : o <= q[i].start
      /\ c \in Seq(Chunk) /\ n \in Nat
  BY DEF Between, Resumes, IsWindow, IsPieces
<1>1. IsPieces(inner, o, Batch, c)
  BY DEF IsWindow
<1>2. Rising(inner, q)
  BY WholeScan
<1>3. \A x : Item(inner, x) /\ o <= x.start
             => ~(n < Batch) /\ \A i \in 1 .. n : ~(x.end <= c[i].end)
  <2>1. Len(Filled(c)) = 0
    OBVIOUS
  <2>2. \A x : /\ Item(inner, x) /\ o <= x.start
               /\ n < Batch \/ \E i \in 1 .. n : x.end <= c[i].end
               => \E k \in 1 .. Len(Filled(c)) : Filled(c)[k] = x
    BY <1>0, <1>1, FilledRises
  <2>. QED  BY <2>1, <2>2
<1>. HIDE DEF q
<1>. SUFFICES ASSUME m # Len(q) PROVE FALSE
  BY DEF q
<1>. DEFINE x == q[m + 1]
<1>4. Item(inner, x) /\ o <= x.start /\ x.end \in Nat /\ x.start \in Nat /\ x.start < x.end /\ x.end < Len(inner)
  <2>1. m + 1 \in (m + 1) .. Len(q) /\ m + 1 \in 1 .. Len(q)
    <3>1. Len(q) \in Nat
      BY <1>2 DEF Rising
    <3>. QED  BY <1>0, <3>1
  <2>2. Item(inner, x) /\ o <= x.start
    BY <1>0, <1>2, <2>1 DEF Rising
  <2>. HIDE DEF x
  <2>. QED  BY <2>2 DEF Item, Chunk
<1>. HIDE DEF x
<1>5. ~(n < Batch) /\ \A i \in 1 .. n : ~(x.end <= c[i].end)
  BY <1>3, <1>4
<1>6. n = Batch /\ c # <<>> /\ n \in 1 .. n
  <2>1. n <= Batch
    BY <1>1 DEF IsPieces
  <2>. QED  BY <1>0, <1>5, <2>1
<1>. DEFINE a == c[n].end
<1>7. /\ a = o + n - 1 /\ a < Len(inner)
      /\ \A p \in (o + 1) .. a : inner[p] = "comma"
  BY <1>0, <1>6, EmptyWindow
<1>8. EndsChunk(inner, o, a + 1) /\ a \in o .. (Len(inner) - 1)
  BY <1>1, <1>6 DEF IsPieces
<1>9. x.end > a
  <2>1. ~(x.end <= a)
    BY <1>5, <1>6
  <2>. HIDE DEF a
  <2>. QED  BY <1>0, <1>4, <1>8, <2>1
<1>. HIDE DEF a, n
<1>10. inner[a + 1] = "comma"
  <2>1. EndsChunk(inner, 0, x.end + 1) /\ x.end + 1 \in (o + 1) .. Len(inner)
    BY <1>0, <1>4 DEF Item
  <2>2. EndsChunk(inner, o, x.end + 1)
    BY <1>0, <2>1, SameEnds
  <2>3. a + 1 \in (o + 1) .. ((x.end + 1) - 1)
    BY <1>0, <1>4, <1>8, <1>9
  <2>4. Level(inner, o, a + 1) >= 0
    BY <2>2, <2>3 DEF EndsChunk, Reached
  <2>5. Level(inner, o, a + 1) # -1
    BY <2>4
  <2>. QED  BY <1>8, <2>5 DEF EndsChunk
<1>11. o \in 0 .. (Len(inner) - Batch)
  BY <1>0, <1>6, <1>7, <1>8
<1>12. ASSUME NEW k \in 1 .. Batch PROVE inner[o + k] = "comma"
  <2>1. o + k \in (o + 1) .. a \/ o + k = a + 1
    BY <1>0, <1>6, <1>7
  <2>. QED  BY <1>7, <1>10, <2>1
<1>. QED  BY <1>11, <1>12
=============================================================================
