-------------------------- MODULE SliceScan_proofs --------------------------
(***************************************************************************)
(* What holds of the serial slice decoders for every input, every length   *)
(* of the caller's slice and every length of the chunk buffer.             *)
(***************************************************************************)
EXTENDS SliceScan, ArrayScan_proofs

Token == {"e", "p", "x", "comma", "lbracket", "rbracket"}

\* What the variables hold that the room in the slice depends on.
Counters ==
    /\ raw \in Seq(Token) /\ (raw = <<>> => pc \in {"enter", "done"})
    /\ capacity \in Nat /\ written \in Nat /\ scanOffset \in Nat /\ stepAdvance \in Nat
    /\ chunks \in Seq(Chunk) /\ next \in Nat \ {0}

\* The records that are not decoded yet have room behind those that are.
Room ==
    /\ written <= capacity
    /\ pc = "gaps" => next = 1
    /\ pc = "records" => next <= Len(chunks) + 1 /\ written + (Len(chunks) - next + 1) <= capacity

IInv == Counters /\ Room

LEMMA InitIInv == Init => IInv
<1>. SUFFICES ASSUME Init PROVE IInv
  OBVIOUS
<1>1. raw \in Seq(Token) /\ capacity \in Nat
  BY SliceAssumption DEF Init, Token
<1>2. chunks \in Seq(Chunk)
  BY DEF Init
<1>. QED  BY <1>1, <1>2 DEF Init, IInv, Counters, Room

\* A scan leaves a window of chunks, and ends no earlier than it started.
LEMMA WindowIs ==
    ASSUME Counters, ScanWindow
    PROVE  chunks' \in Seq(Chunk) /\ stepAdvance' \in Nat
<1>. DEFINE found == Split(Inner, scanOffset)
<1>1. Inner \in Seq(Token) /\ scanOffset \in Nat
  BY DEF Counters, ScanWindow, Inner
<1>2. IsWindow(Inner, scanOffset, found)
  BY <1>1, SplitIs, SliceAssumption
<1>3. /\ chunks' = Filled(found)
      /\ stepAdvance' = IF found = <<>> THEN 0 ELSE found[Len(found)].end - scanOffset
  BY DEF ScanWindow
<1>. HIDE DEF found
<1>4. found \in Seq(Chunk)
  BY <1>2 DEF IsWindow, IsPieces
<1>5. chunks' \in Seq(Chunk)
  BY <1>3, <1>4, FilledIs
<1>6. ASSUME found # <<>> PROVE found[Len(found)].end - scanOffset \in Nat
  <2>1. Len(found) \in 1 .. Len(found)
    BY <1>4, <1>6
  <2>2. found[Len(found)].end \in scanOffset .. (Len(Inner) - 1)
    BY <1>2, <2>1 DEF IsWindow, IsPieces
  <2>. QED  BY <1>1, <2>2
<1>. QED  BY <1>3, <1>5, <1>6

LEMMA NextIInv == IInv /\ [Next]_vars => IInv'
<1>. SUFFICES ASSUME IInv, [Next]_vars PROVE IInv'
  OBVIOUS
<1>. USE DEF IInv, Counters, Room
<1>1. CASE ReturnNothing
  BY <1>1 DEF ReturnNothing, argVars, windowVars
<1>2. CASE Refuse
  BY <1>2 DEF Refuse, Fail, argVars, windowVars
<1>3. CASE Panic
  BY <1>3 DEF Panic, argVars, windowVars
<1>4. CASE Begin
  BY <1>4 DEF Begin, argVars, windowVars
<1>5. CASE ScanWindow
  <2>1. chunks' \in Seq(Chunk) /\ stepAdvance' \in Nat
    BY <1>5, WindowIs
  <2>2. UNCHANGED <<raw, capacity, written, scanOffset>> /\ next' = 1 /\ pc' = "gaps" /\ pc = "window"
    BY <1>5 DEF ScanWindow, argVars
  <2>. QED  BY <2>1, <2>2
<1>6. CASE WindowsOver
  BY <1>6 DEF WindowsOver, argVars, windowVars
<1>7. CASE NothingFound
  <2>1. /\ UNCHANGED <<raw, capacity, written, scanOffset, stepAdvance, chunks, next>>
        /\ pc = "gaps" /\ pc' \in {"done", "tail"}
    BY <1>7 DEF NothingFound, Fail, argVars, windowVars
  <2>. QED  BY <2>1
<1>8. CASE RejectGap
  BY <1>8 DEF RejectGap, Fail, argVars, windowVars
<1>9. CASE EnterRecords
  <2>1. /\ UNCHANGED <<raw, capacity, written, scanOffset, stepAdvance, chunks, next>>
        /\ pc' = "records" /\ pc = "gaps" /\ written + Len(chunks) <= capacity
    BY <1>9 DEF EnterRecords, Fits, argVars, windowVars
  <2>. QED  BY <2>1
<1>10. CASE Overfull
  BY <1>10 DEF Overfull, argVars, windowVars
<1>11. CASE DecodeRecord
  BY <1>11 DEF DecodeRecord, argVars
<1>12. CASE DamagedRecord
  <2>1. /\ UNCHANGED <<raw, capacity, written, scanOffset, stepAdvance, chunks>>
        /\ pc = "records" /\ pc' \in {"done", "records"}
        /\ next <= Len(chunks) /\ next' \in {next, next + 1}
    BY <1>12 DEF DamagedRecord, argVars
  <2>. QED  BY <2>1
<1>13. CASE NextWindow
  <2>1. /\ UNCHANGED <<raw, capacity, written, stepAdvance, chunks, next>>
        /\ pc' \notin {"gaps", "records"} /\ pc = "records"
        /\ scanOffset' \in {scanOffset, scanOffset + stepAdvance}
    BY <1>13 DEF NextWindow, Advance, argVars, windowVars
  <2>. QED  BY <2>1
<1>14. CASE Closed
  BY <1>14 DEF Closed, argVars, windowVars
<1>15. CASE Unterminated
  BY <1>15 DEF Unterminated, Fail, argVars, windowVars
<1>16. CASE Salvage
  BY <1>16 DEF Salvage, argVars, windowVars
<1>17. CASE UNCHANGED vars
  BY <1>17 DEF vars, argVars, windowVars
<1>. QED  BY <1>1, <1>2, <1>3, <1>4, <1>5, <1>6, <1>7, <1>8, <1>9, <1>10, <1>11, <1>12,
             <1>13, <1>14, <1>15, <1>16, <1>17 DEF Next

\* However the input is cut into windows and whatever records are damaged, the
\* slot that is written next lies in the caller's slice (parallel.go:175-178,
\* 283-287).
THEOREM WritesInSliceHolds == Spec => []WritesInSlice
<1>1. IInv => WritesInSlice
  BY DEF IInv, Counters, Room, WritesInSlice
<1>. QED  BY <1>1, InitIInv, NextIInv, PTL DEF Spec

-----------------------------------------------------------------------------
(* Where a window of single tokens ends.                                   *)

\* Counting commas, one token at a time.
LEMMA CommasIs ==
    /\ Commas(0) = 0
    /\ \A p \in Nat : /\ Commas(p) \in Nat
                       /\ Commas(p + 1) = Commas(p) + (IF Inner[p + 1] = "comma" THEN 1 ELSE 0)
<1>. DEFINE C(p) == {q \in 1 .. p : Inner[q] = "comma"}
<1>1. Commas(0) = 0
  <2>1. C(0) = {}
    OBVIOUS
  <2>2. Commas(0) = Cardinality({})
    BY <2>1, Zenon DEF Commas
  <2>. QED  BY <2>2, FS_EmptySet
<1>2. ASSUME NEW p \in Nat
      PROVE  /\ IsFiniteSet(C(p)) /\ Cardinality(C(p)) \in Nat
             /\ C(p + 1) = IF Inner[p + 1] = "comma" THEN C(p) \cup {p + 1} ELSE C(p)
             /\ p + 1 \notin C(p)
  <2>1. IsFiniteSet(1 .. p)
    <3>1. 1 \in Int /\ p \in Int
      OBVIOUS
    <3>. QED  BY <3>1, FS_Interval
  <2>2. C(p) \in SUBSET (1 .. p)
    OBVIOUS
  <2>3. p + 1 \notin C(p)
    OBVIOUS
  <2>4. ASSUME NEW q, q \in C(p + 1)
        PROVE  q \in IF Inner[p + 1] = "comma" THEN C(p) \cup {p + 1} ELSE C(p)
    BY <2>4
  <2>5. ASSUME NEW q, q \in IF Inner[p + 1] = "comma" THEN C(p) \cup {p + 1} ELSE C(p)
        PROVE  q \in C(p + 1)
    BY <2>5
  <2>. HIDE DEF C
  <2>6. IsFiniteSet(C(p))
    BY <2>1, <2>2, FS_Subset
  <2>7. Cardinality(C(p)) \in Nat
    BY <2>6, FS_CardinalityType
  <2>8. C(p + 1) = IF Inner[p + 1] = "comma" THEN C(p) \cup {p + 1} ELSE C(p)
    BY <2>4, <2>5
  <2>. QED  BY <2>3, <2>6, <2>7, <2>8
<1>3. \A p : Commas(p) = Cardinality(C(p))
  BY DEF Commas
<1>. HIDE DEF C
<1>4. ASSUME NEW p \in Nat
      PROVE  Commas(p + 1) = Commas(p) + (IF Inner[p + 1] = "comma" THEN 1 ELSE 0)
  <2>1. CASE Inner[p + 1] = "comma"
    <3>1. Cardinality(C(p + 1)) = Cardinality(C(p)) + 1
      BY <1>2, <2>1, FS_AddElement
    <3>. QED  BY <1>3, <2>1, <3>1
  <2>2. CASE Inner[p + 1] # "comma"
    <3>1. C(p + 1) = C(p) /\ Cardinality(C(p)) \in Nat
      BY <1>2, <2>2
    <3>. QED  BY <1>3, <2>2, <3>1
  <2>. QED  BY <2>1, <2>2
<1>. QED  BY <1>1, <1>2, <1>3, <1>4

\* A window of single tokens ends where no chunk ends any more, or it is full: it holds
\* Batch commas and stops in front of the last, either behind its last element or
\* between two commas.
LEMMA WindowEnd ==
    ASSUME Inner \in Seq(Token), NEW o \in Nat, NEW c, IsWindow(Inner, o, c), c # <<>>,
           Batch \in Nat \ {0, 1},
           \A i \in 1 .. Len(c) : IsSingle(Inner, c[i])
    PROVE  LET a == c[Len(c)].end
           IN  \/ Stuck(Inner, a)
               \/ /\ a < Len(Inner) /\ Inner[a + 1] = "comma"
                  /\ Commas(a + 1) = Commas(o) + Batch
                  /\ \/ Filled(c) # <<>> /\ Filled(c)[Len(Filled(c))].end = a
                     \/ a > 0 /\ Inner[a] = "comma"
<1>. DEFINE n == Len(c)
            a == c[Len(c)].end
            E(i) == c[i].end
<1>1. /\ n \in Nat /\ n \in 1 .. n /\ Len(Inner) \in Nat /\ c \in Seq(Chunk) /\ n <= Batch
      /\ \A i \in 1 .. n : c[i].start = IF i = 1 THEN o ELSE c[i - 1].end + 1
  BY DEF IsWindow, IsPieces
<1>2. \A i \in 1 .. n : c[i].start \in Nat /\ c[i].end \in Nat
  BY <1>1, EndsRise
<1>3. Flat(Inner, o, a)
  BY SinglesAreFlat
<1>4. a \in o .. (Len(Inner) - 1) /\ EndsChunk(Inner, o, a + 1)
  BY <1>1 DEF IsWindow, IsPieces
<1>5. CASE n < Batch \/ Inner[a + 1] = "rbracket"
  <2>1. Stuck(Inner, a)
    BY <1>3, <1>5, LastIsStuck
  <2>. QED  BY <2>1
<1>6. CASE n = Batch /\ Inner[a + 1] = "comma"
  <2>1. \A i \in 1 .. n : Inner[E(i) + 1] = "comma"
    <3>1. ASSUME NEW i \in 1 .. n, i # n PROVE Inner[c[i].end + 1] = "comma"
      <4>1. i < Len(c)
        BY <1>1, <3>1
      <4>. QED  BY <4>1, CommaBehind
    <3>. QED  BY <1>6, <3>1
  <2>2. ASSUME NEW i \in 1 .. n PROVE Commas(c[i].end + 1) = Commas(c[i].start) + 1
    <3>. DEFINE x == c[i].start
                y == c[i].end
    <3>1. /\ x \in Nat /\ y \in Nat /\ Inner[y + 1] = "comma"
          /\ y = x \/ (y = x + 1 /\ Inner[x + 1] # "comma")
      BY <1>2, <2>1 DEF IsSingle, NonEmpty
    <3>. HIDE DEF x, y
    <3>2. /\ Commas(x) \in Nat
          /\ Commas(x + 1) = Commas(x) + (IF Inner[x + 1] = "comma" THEN 1 ELSE 0)
          /\ Commas(y + 1) = Commas(y) + (IF Inner[y + 1] = "comma" THEN 1 ELSE 0)
      BY <3>1, CommasIs, Zenon
    <3>3. Commas(y + 1) = Commas(y) + 1 /\ (y # x => Commas(x + 1) = Commas(x) + 0)
      BY <3>1, <3>2, Zenon
    <3>4. Commas(y + 1) = Commas(x) + 1
      BY <3>1, <3>2, <3>3
    <3>. QED  BY <3>4 DEF x, y
  <2>. DEFINE S == {i \in 1 .. n : Commas(c[i].end + 1) = Commas(o) + i}
  <2>3. ASSUME NEW i \in 1 .. (n - 1), i \in S PROVE i + 1 \in S
    <3>1. i \in 1 .. n /\ i + 1 \in 1 .. n
      BY <1>1
    <3>2. c[i + 1].start = c[i].end + 1
      BY <1>1, <3>1
    <3>3. Commas(c[i + 1].end + 1) = (Commas(o) + i) + 1
      BY <2>2, <2>3, <3>1, <3>2
    <3>4. Commas(o) \in Nat
      BY CommasIs
    <3>. QED  BY <3>1, <3>3, <3>4
  <2>4. n > 0 => 1 \in S
    BY <1>1, <2>2
  <2>5. \A i \in 1 .. n : i \in S
    <3>. HIDE DEF n, S
    <3>. QED  BY <1>1, <2>3, <2>4, UpTo
  <2>6. Commas(a + 1) = Commas(o) + Batch
    BY <1>1, <1>6, <2>5
  <2>7. CASE NonEmpty(c[n])
    <3>1. Filled(c) # <<>> /\ Filled(c)[Len(Filled(c))] = c[n]
      BY <1>1, <2>7, LastFilled
    <3>. QED  BY <1>4, <1>6, <2>6, <3>1
  <2>8. CASE ~NonEmpty(c[n])
    <3>1. n - 1 \in 1 .. n /\ n # 1
      BY <1>1, <1>6
    <3>2. a = c[n - 1].end + 1
      BY <1>1, <2>8, <3>1 DEF NonEmpty
    <3>3. Inner[c[n - 1].end + 1] = "comma" /\ c[n - 1].end \in Nat
      BY <1>2, <2>1, <3>1
    <3>4. a > 0 /\ Inner[a] = "comma"
      <4>. HIDE DEF a, n
      <4>. QED  BY <3>2, <3>3
    <3>. QED  BY <1>4, <1>6, <2>6, <3>4
  <2>. QED  BY <2>7, <2>8
<1>7. Inner[a + 1] \in {"comma", "rbracket"}
  BY <1>4 DEF EndsChunk
<1>. QED  BY <1>1, <1>5, <1>6, <1>7

-----------------------------------------------------------------------------
(* Arrays without flaw.                                                    *)

\* The array of n elements that decode, token by token.
Good(n) ==
    /\ Alternates(Inner, n)
    /\ \A s \in 0 .. (n - 1) : Inner[2 * s + 1] \in {"e", "p"}

LEMMA IsGoodIs ==
    ASSUME Inner \in Seq(Token), NEW n \in Nat
    PROVE  2 * n <= Len(Inner) /\ IsGoodArray(n) <=> Good(n)
<1>. DEFINE es == [k \in 1 .. n |-> Inner[2 * k - 1]]
            M == IF n = 0 THEN 1 ELSE 2 * n
            At(p) == IF n = 0 \/ p = 2 * n THEN "rbracket"
                     ELSE IF p % 2 = 1 THEN Inner[p] ELSE "comma"
<1>1. Len(es) = n /\ (es = <<>> <=> n = 0)
  OBVIOUS
<1>2. ASSUME NEW p \in 1 .. M, p % 2 = 1, ~(n = 0 \/ p = 2 * n)
      PROVE  es[(p + 1) \div 2] = Inner[p]
  <2>1. PICK k \in 1 .. n : p = 2 * k - 1 /\ (p + 1) \div 2 = k
    <3>1. (p + 1) \div 2 \in 1 .. n /\ p = 2 * ((p + 1) \div 2) - 1
      BY <1>2
    <3>. QED  BY <3>1
  <2>2. es[k] = Inner[2 * k - 1]
    OBVIOUS
  <2>. QED  BY <2>1, <2>2
<1>3. Array(es) = [p \in 1 .. M |-> IF n = 0 \/ p = 2 * n THEN "rbracket"
                                   ELSE IF p % 2 = 1 THEN es[(p + 1) \div 2] ELSE "comma"]
  <2>. HIDE DEF es
  <2>. QED  BY <1>1 DEF Array
<1>4. Array(es) = [p \in 1 .. M |-> At(p)]
  <2>. HIDE DEF es
  <2>. QED  BY <1>2, <1>3
<1>5. IsGoodArray(n) <=> /\ \A k \in 0 .. (n - 1) : 2 * k < Len(Inner) /\ Inner[2 * k + 1] \in {"e", "p"}
                         /\ Inner = [p \in 1 .. M |-> At(p)]
  <2>1. IsGoodArray(n) <=> /\ \A k \in 0 .. (n - 1) : 2 * k < Len(Inner) /\ Decodes(2 * k)
                           /\ Inner = Array(es)
    BY DEF IsGoodArray
  <2>. HIDE DEF es, At
  <2>. QED  BY <1>4, <2>1 DEF Decodes
<1>6. M \in Nat /\ Len(Inner) \in Nat /\ Inner = [p \in 1 .. Len(Inner) |-> Inner[p]]
  OBVIOUS
<1>7. ASSUME 2 * n <= Len(Inner), IsGoodArray(n) PROVE Good(n)
  <2>1. Inner = [p \in 1 .. M |-> At(p)]
    BY <1>5, <1>7
  <2>2. Len(Inner) = M /\ \A p \in 1 .. M : Inner[p] = At(p)
    <3>. HIDE DEF At, M
    <3>1. Len([p \in 1 .. M |-> At(p)]) = M
      BY <1>6
    <3>. QED  BY <2>1, <3>1
  <2>3. Inner[M] = "rbracket" /\ M \in 1 .. M
    BY <2>2
  <2>4. ASSUME NEW s \in 0 .. (n - 1) PROVE Inner[2 * s + 1] \in {"e", "p"}
    BY <1>5, <1>7
  <2>5. ASSUME NEW s \in 1 .. (n - 1) PROVE Inner[2 * s] = "comma"
    <3>1. 2 * s \in 1 .. M /\ 2 * s # 2 * n /\ n # 0 /\ (2 * s) % 2 = 0
      OBVIOUS
    <3>. QED  BY <2>2, <3>1
  <2>6. ASSUME NEW s \in 0 .. (n - 1) PROVE Inner[2 * s + 1] \notin {"comma", "lbracket", "rbracket"}
    BY <2>4
  <2>7. Alternates(Inner, n)
    BY <2>2, <2>3, <2>5, <2>6 DEF Alternates
  <2>. QED  BY <2>4, <2>7 DEF Good
<1>8. ASSUME Good(n) PROVE 2 * n <= Len(Inner) /\ IsGoodArray(n)
  <2>1. /\ Len(Inner) = M /\ Inner[M] = "rbracket"
        /\ \A s \in 0 .. (n - 1) : Inner[2 * s + 1] \in {"e", "p"}
        /\ \A s \in 1 .. (n - 1) : Inner[2 * s] = "comma"
    BY <1>8 DEF Good, Alternates
  <2>2. ASSUME NEW p \in 1 .. M PROVE Inner[p] = At(p)
    <3>1. CASE n = 0 \/ p = 2 * n
      BY <2>1, <3>1
    <3>2. CASE ~(n = 0 \/ p = 2 * n) /\ p % 2 = 1
      BY <3>2
    <3>3. CASE ~(n = 0 \/ p = 2 * n) /\ p % 2 # 1
      <4>1. PICK s \in 1 .. (n - 1) : p = 2 * s
        <5>1. p \div 2 \in 1 .. (n - 1) /\ p = 2 * (p \div 2)
          BY <3>3
        <5>. QED  BY <5>1
      <4>. QED  BY <2>1, <3>3, <4>1
    <3>. QED  BY <3>1, <3>2, <3>3
  <2>3. Inner = [p \in 1 .. M |-> At(p)]
    <3>. HIDE DEF At, M
    <3>. QED  BY <1>6, <2>1, <2>2
  <2>4. ASSUME NEW k \in 0 .. (n - 1) PROVE 2 * k < Len(Inner)
    BY <2>1
  <2>5. \A k \in 0 .. (n - 1) : 2 * k < Len(Inner) /\ Inner[2 * k + 1] \in {"e", "p"}
    BY <2>1, <2>4
  <2>6. IsGoodArray(n)
    <3>. HIDE DEF At, M
    <3>. QED  BY <1>5, <2>3, <2>5
  <2>7. 2 * n <= Len(Inner)
    BY <2>1
  <2>. QED  BY <2>6, <2>7
<1>. QED  BY <1>7, <1>8

\* The first m elements, with the commas between them.
EndOf(m) == IF m = 0 THEN 0 ELSE 2 * m - 1

Laid(m) ==
    /\ m \in Nat /\ EndOf(m) <= Len(Inner)
    /\ \A s \in 0 .. (m - 1) : Inner[2 * s + 1] \in {"e", "p"}
    /\ \A s \in 1 .. (m - 1) : Inner[2 * s] = "comma"

\* With the bracket behind them they are the whole array.
LEMMA LaidIsGood ==
    ASSUME Inner \in Seq(Token), NEW m, Laid(m), ClosedAt(Inner, EndOf(m))
    PROVE  Good(m)
<1>1. m \in Nat /\ EndOf(m) \in Nat
  BY DEF Laid, EndOf
<1>2. Len(Inner) = EndOf(m) + 1 /\ Inner[EndOf(m) + 1] = "rbracket"
  BY <1>1, ClosedAtIs
<1>3. Len(Inner) = (IF m = 0 THEN 1 ELSE 2 * m) /\ Inner[Len(Inner)] = "rbracket"
  BY <1>1, <1>2 DEF EndOf
<1>4. /\ \A s \in 0 .. (m - 1) : Inner[2 * s + 1] \in {"e", "p"}
      /\ \A s \in 1 .. (m - 1) : Inner[2 * s] = "comma"
  BY DEF Laid
<1>5. \A s \in 0 .. (m - 1) : Inner[2 * s + 1] \notin {"comma", "lbracket", "rbracket"}
  BY <1>4
<1>. QED  BY <1>3, <1>4, <1>5 DEF Good, Alternates

-----------------------------------------------------------------------------
(* What is noted, and what a window is.                                    *)

Noting == [offset : Int, record : Int]

\* Where scanOffset goes behind the window c.
StepOf(c) == IF c = <<>> THEN 0 ELSE c[Len(c)].end - scanOffset

Modes ==
    /\ mode \in {"strict", "tolerant"} /\ prevEndAbs \in Nat
    /\ problems \in Seq(Noting)
    /\ mode = "strict" => problems = <<>>
    /\ mode = "tolerant" /\ failed => problems # <<>>
    /\ DOMAIN dst = 0 .. (capacity - 1)
    /\ pc \in {"gaps", "records"} =>
         /\ chunks = Filled(Split(Inner, scanOffset))
         /\ stepAdvance = StepOf(Split(Inner, scanOffset))
    /\ pc = "records" => chunks # <<>>
    /\ failed => pc = "done"
    /\ pc = "enter" => scanOffset = 0 /\ written = 0 /\ prevEndAbs = 0 /\ problems = <<>>

LEMMA InitModes == Init => Modes
BY DEF Init, Modes

LEMMA InnerIs == ASSUME Counters, raw # <<>> PROVE Inner \in Seq(Token)
BY DEF Counters, Inner

LEMMA AppendIs ==
    ASSUME NEW T, NEW q \in Seq(T), NEW x \in T
    PROVE  Append(q, x) \in Seq(T) \ {<<>>}
<1>1. Append(q, x) \in Seq(T) /\ Len(Append(q, x)) = Len(q) + 1 /\ Len(q) \in Nat
  OBVIOUS
<1>2. Len(<<>>) = 0
  OBVIOUS
<1>. QED  BY <1>1, <1>2

\* A problem is noted for every bad gap.
LEMMA GapProblemsAre ==
    ASSUME Counters
    PROVE  GapProblems \in Seq(Noting) /\ (GapProblems = <<>> <=> BadGaps = {})
<1>. DEFINE s == [k \in DOMAIN chunks |-> Problem(chunks[k].start, -1)]
            picks == [k \in DOMAIN chunks |-> ~GapIsValid(k)]
<1>1. DOMAIN chunks = 1 .. Len(chunks) /\ Len(chunks) \in Nat /\ \A k \in DOMAIN chunks : chunks[k] \in Chunk
  BY DEF Counters
<1>2. s \in Seq(Noting) /\ Len(s) = Len(chunks)
  <2>1. \A k \in 1 .. Len(chunks) : Problem(chunks[k].start, -1) \in Noting
    BY <1>1 DEF Problem, Noting, Chunk
  <2>2. s = [k \in 1 .. Len(chunks) |-> Problem(chunks[k].start, -1)]
    BY <1>1
  <2>. HIDE DEF s
  <2>. QED  BY <1>1, <2>1, <2>2
<1>3. GapProblems = Picked(s, picks)
  BY DEF GapProblems
<1>4. \A k \in 1 .. Len(chunks) : picks[k] <=> k \in BadGaps
  BY <1>1 DEF BadGaps
<1>5. BadGaps \subseteq 1 .. Len(chunks)
  BY <1>1 DEF BadGaps
<1>. HIDE DEF s, picks
<1>6. GapProblems \in Seq(Noting)
  BY <1>2, <1>3, PickedIs
<1>7. GapProblems = <<>> <=> \A k \in 1 .. Len(chunks) : ~picks[k]
  BY <1>2, <1>3, PickedNone
<1>. QED  BY <1>4, <1>5, <1>6, <1>7

LEMMA NextModes == IInv /\ Modes /\ [Next]_vars => Modes'
<1>. SUFFICES ASSUME IInv, Modes, [Next]_vars PROVE Modes'
  OBVIOUS
<1>0. /\ mode \in {"strict", "tolerant"} /\ prevEndAbs \in Nat /\ problems \in Seq(Noting)
      /\ scanOffset \in Nat /\ written \in Nat /\ chunks \in Seq(Chunk) /\ next \in Nat \ {0}
      /\ Counters
  BY DEF Modes, IInv, Counters
<1>1. \A o, r \in Int : Append(problems, Problem(o, r)) \in Seq(Noting) \ {<<>>}
  <2>. SUFFICES ASSUME NEW o \in Int, NEW r \in Int
                PROVE  Append(problems, Problem(o, r)) \in Seq(Noting) \ {<<>>}
    OBVIOUS
  <2>1. Problem(o, r) \in Noting
    BY DEF Problem, Noting
  <2>. QED  BY <1>0, <2>1
<1>2. ASSUME NEW o \in Int, Fail(o) PROVE Modes'
  <2>1. problems' \in Seq(Noting) /\ (mode = "strict" => problems' = <<>>)
        /\ (mode = "tolerant" => problems' # <<>>)
    BY <1>0, <1>1, <1>2 DEF Fail, Modes
  <2>2. UNCHANGED <<argVars, prevEndAbs, dst>> /\ pc' = "done"
    BY <1>2 DEF Fail
  <2>. QED  BY <2>1, <2>2 DEF Modes, argVars
<1>3. CASE ReturnNothing \/ Panic \/ Begin
  BY <1>3 DEF ReturnNothing, Panic, Begin, Modes, argVars, windowVars
<1>4. CASE Refuse
  BY <1>2, <1>4 DEF Refuse
<1>5. CASE ScanWindow
  <2>1. /\ chunks' = Filled(Split(Inner, scanOffset)) /\ stepAdvance' = StepOf(Split(Inner, scanOffset))
        /\ UNCHANGED <<raw, capacity, mode, scanOffset, prevEndAbs, problems, failed, dst>>
        /\ pc = "window" /\ pc' = "gaps"
    BY <1>5 DEF ScanWindow, argVars, StepOf
  <2>2. Inner' = Inner
    BY <2>1 DEF Inner
  <2>. QED  BY <2>1, <2>2 DEF Modes, StepOf
<1>6. CASE WindowsOver
  BY <1>6 DEF WindowsOver, Modes, argVars, windowVars
<1>7. CASE NothingFound
  <2>1. CASE Fail(scanOffset)
    BY <1>0, <1>2, <2>1
  <2>2. CASE pc' = "tail" /\ UNCHANGED <<argVars, scanOffset, written, prevEndAbs, windowVars, problems, failed, dst>>
    <3>1. pc = "gaps"
      BY <1>7 DEF NothingFound
    <3>. QED  BY <2>2, <3>1 DEF Modes, argVars, windowVars
  <2>. QED  BY <1>7, <2>1, <2>2 DEF NothingFound
<1>8. CASE RejectGap
  BY <1>0, <1>2, <1>8 DEF RejectGap
<1>9. CASE EnterRecords
  <2>1. /\ UNCHANGED <<raw, capacity, mode, scanOffset, prevEndAbs, failed, dst, chunks, stepAdvance>>
        /\ problems' = problems \o GapProblems /\ pc = "gaps" /\ pc' = "records" /\ chunks # <<>>
        /\ mode = "strict" => BadGaps = {}
    BY <1>9 DEF EnterRecords, argVars, windowVars
  <2>2. GapProblems \in Seq(Noting) /\ (mode = "strict" => GapProblems = <<>>)
    BY <1>0, <2>1, GapProblemsAre
  <2>3. /\ problems' \in Seq(Noting) /\ (mode = "strict" => problems' = <<>>)
        /\ problems # <<>> => problems' # <<>>
    BY <1>0, <2>1, <2>2 DEF Modes
  <2>4. Inner' = Inner
    BY <2>1 DEF Inner
  <2>. QED  BY <2>1, <2>3, <2>4 DEF Modes, StepOf
<1>10. CASE Overfull
  <2>1. /\ UNCHANGED <<raw, capacity, mode, scanOffset, prevEndAbs, dst>>
        /\ problems' = IF mode = "strict" THEN problems
                       ELSE Append(problems \o GapProblems, Problem(scanOffset, -1))
        /\ pc' = "done"
    BY <1>10 DEF Overfull, argVars, windowVars
  <2>2. GapProblems \in Seq(Noting) /\ Problem(scanOffset, -1) \in Noting
    BY <1>0, GapProblemsAre DEF Problem, Noting
  <2>3. Append(problems \o GapProblems, Problem(scanOffset, -1)) \in Seq(Noting) \ {<<>>}
    <3>1. problems \o GapProblems \in Seq(Noting)
      BY <1>0, <2>2
    <3>. DEFINE q == problems \o GapProblems
                x == Problem(scanOffset, -1)
    <3>. HIDE DEF q, x
    <3>2. q \in Seq(Noting) /\ x \in Noting
      BY <2>2, <3>1 DEF q, x
    <3>3. Append(q, x) \in Seq(Noting) \ {<<>>}
      BY <3>2, AppendIs
    <3>. QED  BY <3>3 DEF q, x
  <2>. QED  BY <1>0, <2>1, <2>3 DEF Modes
<1>11. CASE DecodeRecord
  <2>1. /\ UNCHANGED <<raw, capacity, mode, scanOffset, prevEndAbs, problems, failed, chunks, stepAdvance, pc>>
        /\ DOMAIN dst' = DOMAIN dst /\ pc = "records"
    BY <1>11 DEF DecodeRecord, argVars
  <2>2. Inner' = Inner
    BY <2>1 DEF Inner
  <2>. QED  BY <2>1, <2>2 DEF Modes, StepOf
<1>12. CASE DamagedRecord
  <2>1. /\ UNCHANGED <<raw, capacity, mode, scanOffset, prevEndAbs, chunks, stepAdvance>>
        /\ DOMAIN dst' = DOMAIN dst /\ pc = "records" /\ pc' \in {"done", "records"}
        /\ \/ mode = "strict" /\ UNCHANGED problems /\ pc' = "done"
           \/ mode # "strict" /\ problems' = Noted(next) /\ UNCHANGED <<failed, pc>>
    BY <1>12 DEF DamagedRecord, argVars
  <2>2. Inner' = Inner
    BY <2>1 DEF Inner
  <2>3. next <= Len(chunks)
    BY <1>12 DEF DamagedRecord
  <2>4. Noted(next) \in Seq(Noting) \ {<<>>}
    <3>0. chunks[next] \in Chunk
      BY <1>0, <2>3
    <3>1. chunks[next].start \in Int /\ (written + next) - 1 \in Int
      BY <1>0, <3>0 DEF Chunk
    <3>2. written + next - 1 = (written + next) - 1
      BY <1>0
    <3>. QED  BY <1>1, <3>1, <3>2 DEF Noted
  <2>. QED  BY <1>0, <2>1, <2>2, <2>4 DEF Modes, StepOf
<1>13. CASE NextWindow
  <2>1. /\ UNCHANGED <<raw, capacity, mode, problems, dst, written>>
        /\ pc = "records" /\ pc' \notin {"gaps", "records"}
        /\ prevEndAbs' = chunks[Len(chunks)].end
        /\ \/ failed' = failed
           \/ failed' = (mode = "strict") /\ pc' = IF mode = "strict" THEN "done" ELSE "tail"
    BY <1>13 DEF NextWindow, argVars
  <2>2. chunks[Len(chunks)].end \in Nat
    <3>1. Len(chunks) \in 1 .. Len(chunks)
      BY <1>0, <2>1 DEF Modes
    <3>2. chunks[Len(chunks)] \in Chunk
      BY <1>0, <3>1
    <3>. QED  BY <3>2 DEF Chunk
  <2>3. pc' \in {"window", "tail", "done"}
    BY <1>13 DEF NextWindow
  <2>4. ~failed
    BY <2>1 DEF Modes
  <2>5. mode = "tolerant" => ~failed'
    BY <2>1, <2>4
  <2>6. failed' => pc' = "done"
    BY <2>1, <2>4
  <2>. QED  BY <1>0, <2>1, <2>2, <2>3, <2>5, <2>6 DEF Modes
<1>14. CASE Closed
  BY <1>14 DEF Closed, Modes, argVars, windowVars
<1>15. CASE Unterminated
  BY <1>0, <1>2, <1>15 DEF Unterminated
<1>16. CASE Salvage
  <2>1. /\ UNCHANGED <<raw, capacity, mode, prevEndAbs, failed>> /\ pc' = "done" /\ mode = "tolerant"
        /\ problems' = Append(problems, Problem(prevEndAbs, -1))
        /\ DOMAIN dst' = DOMAIN dst
    BY <1>16 DEF Salvage, argVars
  <2>2. problems' \in Seq(Noting) \ {<<>>}
    BY <1>0, <1>1, <2>1
  <2>. QED  BY <2>1, <2>2 DEF Modes
<1>17. CASE UNCHANGED vars
  BY <1>17 DEF vars, argVars, windowVars, Modes, StepOf, Inner
<1>. QED  BY <1>3, <1>4, <1>5, <1>6, <1>7, <1>8, <1>9, <1>10, <1>11, <1>12, <1>13, <1>14, <1>15,
             <1>16, <1>17 DEF Next

-----------------------------------------------------------------------------
(* What is accepted without a word is laid out as an array.                *)

Clean == ~failed /\ problems = <<>>

InPlace == \A s \in 0 .. (written - 1) : dst[s].at = 2 * s

\* The windows so far were full: the first took Batch commas, each of the others one less.
Resumed == \E j \in 0 .. Commas(scanOffset) : Commas(scanOffset) = j * (Batch - 1)

\* The next window starts at the comma behind the last element, or finds no element.
AtScan == Stuck(Inner, scanOffset) \/ (scanOffset = prevEndAbs /\ Resumed)

\* The records decoded before this window.
Base == (written - next) + 1

AtRecords ==
    /\ Base \in Nat /\ prevEndAbs = EndOf(Base) /\ scanOffset = prevEndAbs /\ Resumed
    /\ \A k \in 1 .. Len(chunks) : GapBefore(k) = IF Base > 0 \/ k > 1 THEN <<"comma">> ELSE <<>>
    /\ \A k \in 1 .. (next - 1) : chunks[k] = Elem(0, (Base + k) - 1)

Running == pc \in {"window", "gaps", "records", "tail"} \/ Scanned

Sound ==
    Running /\ Clean /\ ~Straddles =>
      /\ Laid(written) /\ InPlace
      /\ pc # "records" => prevEndAbs = EndOf(written)
      /\ pc \in {"window", "gaps"} => AtScan
      /\ pc = "records" => AtRecords
      /\ pc = "done" => ClosedAt(Inner, prevEndAbs)

LEMMA InitSound == Init => Sound
BY DEF Init, Sound, Running, Scanned

\* The chunks that are decoded lie in the window.
LEMMA ChunksLie ==
    ASSUME IInv, Modes, pc \in {"gaps", "records"}
    PROVE  LET w == Split(Inner, scanOffset)
           IN  /\ Inner \in Seq(Token) /\ IsWindow(Inner, scanOffset, w)
               /\ \A i \in 1 .. Len(chunks) : /\ chunks[i] \in Chunk
                                              /\ scanOffset <= chunks[i].start
                                              /\ chunks[i].start < chunks[i].end
                                              /\ chunks[i].end <= Len(Inner) - 1
<1>. DEFINE w == Split(Inner, scanOffset)
<1>1. Inner \in Seq(Token) /\ scanOffset \in Nat
  BY InnerIs DEF IInv, Counters
<1>2. IsWindow(Inner, scanOffset, w)
  BY <1>1, SplitIs, SliceAssumption
<1>3. chunks = Filled(w)
  BY DEF Modes
<1>. HIDE DEF w
<1>4. w \in Seq(Chunk) /\ Len(Inner) \in Nat
  BY <1>1, <1>2 DEF IsWindow, IsPieces
<1>5. PICK at : IsFilled(w, chunks, at)
  BY <1>3, <1>4, FilledIs
<1>6. ASSUME NEW i \in 1 .. Len(chunks)
      PROVE  /\ chunks[i] \in Chunk /\ scanOffset <= chunks[i].start
             /\ chunks[i].start < chunks[i].end /\ chunks[i].end <= Len(Inner) - 1
  <2>1. chunks[i] = w[at[i]] /\ at[i] \in 1 .. Len(w) /\ NonEmpty(chunks[i])
    BY <1>5 DEF IsFilled
  <2>2. PICK k \in 1 .. Len(w) : chunks[i] = w[k]
    BY <2>1
  <2>3. /\ w[k] \in Chunk /\ w[k].end \in scanOffset .. (Len(Inner) - 1) /\ w[k].start <= w[k].end
        /\ w[k].start = IF k = 1 THEN scanOffset ELSE w[k - 1].end + 1
    BY <1>2, <1>4 DEF IsWindow, IsPieces
  <2>4. scanOffset <= w[k].start
    <3>1. CASE k = 1
      BY <1>1, <2>3, <3>1
    <3>2. CASE k # 1
      <4>1. k - 1 \in 1 .. Len(w)
        BY <3>2
      <4>2. w[k - 1].end \in scanOffset .. (Len(Inner) - 1)
        BY <1>2, <4>1 DEF IsWindow, IsPieces
      <4>. QED  BY <1>1, <1>4, <2>3, <3>2, <4>2
    <3>. QED  BY <3>1, <3>2
  <2>5. w[k].start # w[k].end /\ w[k].start \in Nat /\ w[k].end \in Nat
    BY <2>1, <2>2, <2>3 DEF NonEmpty, Chunk
  <2>. QED  BY <1>4, <2>2, <2>3, <2>4, <2>5
<1>. QED  BY <1>1, <1>2, <1>6 DEF w

\* A healthy record behind those that are laid out is the next element.
LEMMA NextLaid ==
    ASSUME IInv, Modes, Laid(written), AtRecords, pc = "records", next <= Len(chunks),
           Healthy(chunks[next])
    PROVE  chunks[next] = Elem(0, written) /\ Laid(written + 1)
<1>. DEFINE a == chunks[next].start
            b == chunks[next].end
            f == IF next = 1 THEN scanOffset ELSE chunks[next - 1].end
<1>1. /\ next \in 1 .. Len(chunks) /\ next \in Nat /\ written \in Nat /\ Inner \in Seq(Token)
      /\ Len(Inner) \in Nat /\ scanOffset \in Nat /\ Base \in Nat /\ chunks[next] \in Chunk
  <2>1. next \in 1 .. Len(chunks) /\ next \in Nat /\ written \in Nat /\ scanOffset \in Nat
    BY DEF IInv, Counters
  <2>2. Inner \in Seq(Token)
    BY ChunksLie
  <2>3. chunks[next] \in Chunk
    BY <2>1, ChunksLie
  <2>. QED  BY <2>1, <2>2, <2>3 DEF AtRecords
<1>2. a \in Nat /\ b \in Nat /\ scanOffset <= a /\ a < b /\ b <= Len(Inner) - 1
  <2>1. scanOffset <= a /\ a < b /\ b <= Len(Inner) - 1
    BY <1>1, ChunksLie
  <2>. QED  BY <1>1, <2>1 DEF Chunk
<1>3. PICK x \in {"e", "p"} : Gap(Inner, a, b) = <<x>>
  BY DEF Healthy
<1>4. Gap(Inner, f, a) = IF Base > 0 \/ next > 1 THEN <<"comma">> ELSE <<>>
  BY <1>1 DEF AtRecords, GapBefore
<1>5. f \in Nat /\ f = EndOf(written) /\ (written > 0 <=> Base > 0 \/ next > 1)
  <2>1. CASE next = 1
    BY <1>1, <2>1 DEF AtRecords, Base
  <2>2. CASE next # 1
    <3>1. next - 1 \in 1 .. (next - 1) /\ (Base + (next - 1)) - 1 = written - 1 /\ written > 0
      BY <1>1, <2>2 DEF Base
    <3>2. chunks[next - 1] = Elem(0, written - 1)
      BY <3>1 DEF AtRecords
    <3>3. f = 2 * (written - 1) + 1
      <4>1. f = chunks[next - 1].end
        BY <2>2
      <4>2. Elem(0, written - 1).end = 2 * (written - 1) + 1
        BY <1>1 DEF Elem
      <4>. HIDE DEF f
      <4>. QED  BY <3>2, <4>1, <4>2
    <3>. QED  BY <1>1, <2>2, <3>1, <3>3 DEF EndOf
  <2>. QED  BY <2>1, <2>2
<1>. HIDE DEF a, b, f
<1>6. b = a + 1 /\ Inner[b] = x
  <2>1. b <= Len(Inner)
    BY <1>1, <1>2
  <2>. QED  BY <1>1, <1>2, <1>3, <2>1, OneGap
<1>7. a = 2 * written /\ (written > 0 => Inner[a] = "comma")
  <2>1. CASE written > 0
    <3>1. Gap(Inner, f, a) = <<"comma">> /\ a <= Len(Inner)
      BY <1>1, <1>2, <1>4, <1>5, <2>1
    <3>2. a = f + 1 /\ Inner[a] = "comma"
      BY <1>1, <1>2, <1>5, <3>1, OneGap
    <3>. QED  BY <1>1, <1>5, <2>1, <3>2 DEF EndOf
  <2>2. CASE ~(written > 0)
    <3>1. written = 0 /\ f = 0
      BY <1>1, <1>5, <2>2 DEF EndOf
    <3>2. Gap(Inner, f, a) = <<>> /\ a <= Len(Inner)
      BY <1>1, <1>2, <1>4, <1>5, <2>2
    <3>3. a <= f
      BY <1>1, <1>2, <1>5, <3>2, GapIsNone
    <3>. QED  BY <1>2, <3>1, <3>3
  <2>. QED  BY <2>1, <2>2
<1>8. chunks[next] = Elem(0, written)
  <2>1. a = 0 + 2 * written /\ b = 0 + 2 * written + 1
    BY <1>1, <1>6, <1>7
  <2>. QED  BY <1>1, <2>1 DEF Elem, Chunk, a, b
<1>9. Laid(written + 1)
  <2>1. EndOf(written + 1) = b /\ b <= Len(Inner)
    BY <1>1, <1>2, <1>6, <1>7 DEF EndOf
  <2>2. ASSUME NEW s \in 0 .. ((written + 1) - 1) PROVE Inner[2 * s + 1] \in {"e", "p"}
    <3>1. CASE s = written
      BY <1>1, <1>6, <1>7, <3>1
    <3>2. CASE s # written
      <4>1. s \in 0 .. (written - 1)
        BY <1>1, <3>2
      <4>. QED  BY <4>1 DEF Laid
    <3>. QED  BY <3>1, <3>2
  <2>3. ASSUME NEW s \in 1 .. ((written + 1) - 1) PROVE Inner[2 * s] = "comma"
    <3>1. CASE s = written
      BY <1>1, <1>7, <3>1
    <3>2. CASE s # written
      <4>1. s \in 1 .. (written - 1)
        BY <1>1, <3>2
      <4>. QED  BY <4>1 DEF Laid
    <3>. QED  BY <3>1, <3>2
  <2>. QED  BY <1>1, <2>1, <2>2, <2>3 DEF Laid
<1>. QED  BY <1>8, <1>9

\* When all its records are laid out, a window ends behind the last of them, or between
\* two commas, or where no element is left.
LEMMA WindowLaid ==
    ASSUME IInv, Modes, Laid(written), AtRecords, pc = "records", next > Len(chunks), ~Straddles
    PROVE  LET a == scanOffset + stepAdvance
           IN  /\ chunks[Len(chunks)].end = EndOf(written)
               /\ a > scanOffset =>
                    \/ Stuck(Inner, a)
                    \/ /\ a = EndOf(written)
                       /\ \E j \in 0 .. Commas(a) : Commas(a) = j * (Batch - 1)
<1>. DEFINE w == Split(Inner, scanOffset)
            a == scanOffset + stepAdvance
            L == Len(chunks)
<1>1. /\ Inner \in Seq(Token) /\ IsWindow(Inner, scanOffset, w) /\ chunks = Filled(w)
      /\ stepAdvance = StepOf(w) /\ chunks # <<>> /\ chunks \in Seq(Chunk) /\ w \in Seq(Chunk)
      /\ scanOffset \in Nat /\ written \in Nat
  <2>1. Inner \in Seq(Token) /\ IsWindow(Inner, scanOffset, w)
    BY ChunksLie
  <2>2. chunks = Filled(w) /\ stepAdvance = StepOf(w) /\ chunks # <<>>
    BY DEF Modes
  <2>3. chunks \in Seq(Chunk) /\ scanOffset \in Nat /\ written \in Nat
    BY DEF IInv, Counters
  <2>4. w \in Seq(Chunk)
    BY <2>1 DEF IsWindow, IsPieces
  <2>. QED  BY <2>1, <2>2, <2>3, <2>4
<1>. HIDE DEF w
<1>2. L \in Nat /\ L \in 1 .. L /\ next = L + 1 /\ Base \in Nat /\ written = Base + L
  <2>1. L \in Nat /\ L # 0
    BY <1>1
  <2>2. next = L + 1
    BY <2>1 DEF IInv, Counters, Room
  <2>3. Base \in Nat
    BY DEF AtRecords
  <2>. QED  BY <1>1, <2>1, <2>2, <2>3 DEF Base
<1>3. ASSUME NEW k \in 1 .. L PROVE chunks[k] = Elem(0, (Base + k) - 1)
  <2>1. k \in 1 .. (next - 1)
    BY <1>2
  <2>. QED  BY <2>1 DEF AtRecords
<1>4. chunks[L].end = EndOf(written)
  <2>1. chunks[L] = Elem(0, written - 1)
    <3>1. (Base + L) - 1 = written - 1
      BY <1>2
    <3>. QED  BY <1>2, <1>3, <3>1
  <2>2. Elem(0, written - 1).end = 2 * written - 1 /\ written # 0
    BY <1>1, <1>2 DEF Elem
  <2>. QED  BY <2>1, <2>2 DEF EndOf
<1>5. w # <<>>
  <2>. SUFFICES ASSUME w = <<>> PROVE FALSE
    OBVIOUS
  <2>1. PICK at : IsFilled(w, chunks, at)
    BY <1>1, FilledIs
  <2>2. at[L] \in 1 .. Len(w) /\ Len(w) = 0
    BY <1>2, <2>1 DEF IsFilled
  <2>. QED  BY <2>2
<1>6. a = w[Len(w)].end
  <2>1. Len(w) \in 1 .. Len(w) /\ Len(Inner) \in Nat
    BY <1>1, <1>5
  <2>2. w[Len(w)].end \in scanOffset .. (Len(Inner) - 1)
    BY <1>1, <2>1 DEF IsWindow, IsPieces
  <2>3. stepAdvance = w[Len(w)].end - scanOffset
    BY <1>1, <1>5 DEF StepOf
  <2>. QED  BY <1>1, <2>1, <2>2, <2>3
<1>7. \A i \in 1 .. Len(w) : IsSingle(Inner, w[i])
  <2>1. ASSUME NEW i \in 1 .. Len(w), NonEmpty(w[i])
        PROVE  w[i].end = w[i].start + 1 /\ Inner[w[i].end] \notin {"comma", "lbracket", "rbracket"}
    <3>1. PICK k \in 1 .. L : chunks[k] = w[i]
      BY <1>1, <2>1, AllFilled
    <3>. DEFINE s == (Base + k) - 1
    <3>2. w[i] = Elem(0, s)
      BY <1>3, <3>1
    <3>3. s \in 0 .. (written - 1)
      BY <1>2
    <3>. HIDE DEF s
    <3>4. Elem(0, s).start = 2 * s /\ Elem(0, s).end = 2 * s + 1
      BY <3>3 DEF Elem
    <3>5. Inner[2 * s + 1] \in {"e", "p"}
      BY <3>3 DEF Laid
    <3>. QED  BY <3>2, <3>4, <3>5
  <2>. QED  BY <2>1 DEF IsSingle
<1>. DEFINE o == scanOffset
<1>8. \/ Stuck(Inner, a)
      \/ /\ a < Len(Inner) /\ Inner[a + 1] = "comma"
         /\ Commas(a + 1) = Commas(o) + Batch
         /\ \/ Filled(w) # <<>> /\ Filled(w)[Len(Filled(w))].end = a
            \/ a > 0 /\ Inner[a] = "comma"
  BY <1>1, <1>5, <1>6, <1>7, WindowEnd, SliceAssumption
<1>9. PICK j \in 0 .. Commas(scanOffset) : Commas(scanOffset) = j * (Batch - 1)
  BY DEF AtRecords, Resumed
<1>10. a \in Nat /\ scanOffset <= a
  <2>1. Len(w) \in 1 .. Len(w) /\ Len(Inner) \in Nat
    BY <1>1, <1>5
  <2>2. w[Len(w)].end \in scanOffset .. (Len(Inner) - 1)
    BY <1>1, <2>1 DEF IsWindow, IsPieces
  <2>. HIDE DEF a
  <2>. QED  BY <1>1, <1>6, <2>1, <2>2
<1>. HIDE DEF a
<1>11. ASSUME a < Len(Inner), Inner[a + 1] = "comma", Commas(a + 1) = Commas(scanOffset) + Batch
       PROVE  /\ j + 1 \in 1 .. Commas(a + 1) /\ Commas(a + 1) = 1 + (j + 1) * (Batch - 1)
              /\ j + 1 \in 0 .. Commas(a) /\ Commas(a) = (j + 1) * (Batch - 1)
  <2>1. Commas(a + 1) = Commas(a) + 1 /\ Commas(a) \in Nat /\ Commas(scanOffset) \in Nat
    <3>1. Commas(a) \in Nat /\ Commas(scanOffset) \in Nat
          /\ Commas(a + 1) = Commas(a) + (IF Inner[a + 1] = "comma" THEN 1 ELSE 0)
      BY <1>1, <1>10, CommasIs, Zenon
    <3>. QED  BY <1>11, <3>1, Zenon
  <2>2. Batch \in Nat /\ Batch >= 2
    BY SliceAssumption
  <2>3. j \in Nat /\ j <= Commas(scanOffset)
    BY <2>1
  <2>4. (j + 1) * (Batch - 1) = j * (Batch - 1) + (Batch - 1)
    BY <2>2, <2>3
  <2>5. Commas(a) = Commas(scanOffset) + (Batch - 1)
    BY <1>11, <2>1, <2>2
  <2>6. Commas(a) = (j + 1) * (Batch - 1)
    BY <1>9, <2>4, <2>5
  <2>7. j + 1 \in 0 .. Commas(a)
    BY <2>1, <2>2, <2>3, <2>5
  <2>. QED  BY <2>1, <2>6, <2>7
<1>12. ASSUME a < Len(Inner), Inner[a + 1] = "comma", Commas(a + 1) = Commas(scanOffset) + Batch,
              a > 0, Inner[a] = "comma"
       PROVE  FALSE
  <2>1. a + 1 \in 2 .. Len(Inner) /\ (a + 1) - 1 = a
    BY <1>1, <1>10, <1>12
  <2>2. \E i \in 1 .. Commas(a + 1) : Commas(a + 1) = 1 + i * (Batch - 1)
    BY <1>11, <1>12
  <2>. QED  BY <1>12, <2>1, <2>2 DEF Straddles
<1>13. \/ Stuck(Inner, a)
       \/ a = EndOf(written) /\ \E i \in 0 .. Commas(a) : Commas(a) = i * (Batch - 1)
  BY <1>1, <1>4, <1>8, <1>11, <1>12
<1>. QED  BY <1>4, <1>13 DEF a

LEMMA NextSound == IInv /\ Modes /\ Sound /\ [Next]_vars => Sound'
<1>. SUFFICES ASSUME IInv, Modes, Sound, [Next]_vars, Running', Clean', ~Straddles'
              PROVE  /\ Laid(written)' /\ InPlace'
                     /\ pc' # "records" => prevEndAbs' = EndOf(written')
                     /\ pc' \in {"window", "gaps"} => AtScan'
                     /\ pc' = "records" => AtRecords'
                     /\ pc' = "done" => ClosedAt(Inner, prevEndAbs)'
  BY DEF Sound
<1>. DEFINE Goal == /\ Laid(written)' /\ InPlace'
                    /\ pc' # "records" => prevEndAbs' = EndOf(written')
                    /\ pc' \in {"window", "gaps"} => AtScan'
                    /\ pc' = "records" => AtRecords'
                    /\ pc' = "done" => ClosedAt(Inner, prevEndAbs)'
<1>0. raw' = raw => /\ Inner' = Inner /\ ~Straddles /\ \A p : Commas(p)' = Commas(p)
                    /\ \A m : Laid(m)' <=> Laid(m)
  BY DEF Inner, Straddles, Commas, Laid, EndOf
<1>1. ASSUME pc \in {"window", "gaps", "records", "tail"}, raw' = raw, problems = <<>>
      PROVE  /\ Laid(written) /\ InPlace
             /\ pc # "records" => prevEndAbs = EndOf(written)
             /\ pc \in {"window", "gaps"} => AtScan
             /\ pc = "records" => AtRecords
  <2>1. ~failed
    BY <1>1 DEF Modes
  <2>2. Running /\ Clean /\ ~Straddles
    BY <1>0, <1>1, <2>1 DEF Running, Clean
  <2>. QED  BY <2>2 DEF Sound
<1>2. ASSUME NEW o, Fail(o) PROVE FALSE
  BY <1>2 DEF Fail, Clean
<1>3. CASE ReturnNothing
  BY <1>3 DEF ReturnNothing, Running, Scanned, argVars
<1>4. CASE Refuse \/ RejectGap \/ Unterminated
  BY <1>2, <1>4 DEF Refuse, RejectGap, Unterminated
<1>5. CASE Panic
  BY <1>5 DEF Panic, Running, Scanned
<1>6. CASE Begin
  <2>1. /\ pc' = "window" /\ raw' = raw /\ raw # <<>>
        /\ written' = 0 /\ scanOffset' = 0 /\ prevEndAbs' = 0
    BY <1>6 DEF Begin, Modes, argVars
  <2>2. Inner \in Seq(Token)
    BY <2>1, InnerIs DEF IInv
  <2>3. Laid(0)
    BY <2>2 DEF Laid, EndOf
  <2>4. Laid(written)'
    <3>1. Laid(0)'
      BY <1>0, <2>1, <2>3
    <3>. QED  BY <2>1, <3>1 DEF Laid, EndOf
  <2>5. Resumed'
    <3>1. Commas(0)' = 0
      BY <1>0, <2>1, CommasIs
    <3>2. Commas(scanOffset)' = 0
      BY <2>1, <3>1 DEF Commas
    <3>3. 0 \in 0 .. Commas(scanOffset)' /\ Commas(scanOffset)' = 0 * (Batch - 1)
      BY <3>2, SliceAssumption
    <3>. QED  BY <3>3 DEF Resumed
  <2>6. InPlace' /\ prevEndAbs' = EndOf(written') /\ AtScan'
    BY <2>1, <2>5 DEF InPlace, EndOf, AtScan
  <2>. QED  BY <2>1, <2>4, <2>6
<1>7. CASE ScanWindow \/ WindowsOver \/ (NothingFound /\ ~Fail(scanOffset))
  <2>1. /\ UNCHANGED <<raw, scanOffset, written, prevEndAbs, problems, dst>>
        /\ \/ pc = "window" /\ pc' \in {"gaps", "tail"}
           \/ pc = "gaps" /\ pc' = "tail"
    BY <1>7 DEF ScanWindow, WindowsOver, NothingFound, argVars
  <2>2. problems = <<>>
    BY <2>1 DEF Clean
  <2>3. Laid(written) /\ InPlace /\ prevEndAbs = EndOf(written) /\ AtScan
    BY <1>1, <2>1, <2>2
  <2>4. Laid(written)'
    BY <1>0, <2>1, <2>3
  <2>5. InPlace' /\ prevEndAbs' = EndOf(written')
    BY <2>1, <2>3 DEF InPlace, EndOf
  <2>6. AtScan'
    BY <1>0, <2>1, <2>3 DEF AtScan, Resumed
  <2>. QED  BY <2>1, <2>4, <2>5, <2>6
<1>8. CASE EnterRecords
  <2>1. /\ UNCHANGED <<raw, scanOffset, written, prevEndAbs, dst, chunks, next>>
        /\ pc = "gaps" /\ pc' = "records" /\ chunks # <<>> /\ problems' = problems \o GapProblems
    BY <1>8 DEF EnterRecords, argVars, windowVars
  <2>2. problems = <<>> /\ BadGaps = {}
    <3>1. problems \in Seq(Noting) /\ GapProblems \in Seq(Noting) /\ (GapProblems = <<>> <=> BadGaps = {})
      BY GapProblemsAre DEF Modes, IInv
    <3>2. problems \o GapProblems = <<>>
      BY <2>1 DEF Clean
    <3>3. Len(problems) + Len(GapProblems) = 0 /\ Len(problems) \in Nat /\ Len(GapProblems) \in Nat
      BY <3>1, <3>2
    <3>4. problems = <<>> /\ GapProblems = <<>>
      BY <3>1, <3>3
    <3>. QED  BY <3>1, <3>4
  <2>3. Laid(written) /\ InPlace /\ prevEndAbs = EndOf(written) /\ AtScan
    BY <1>1, <2>1, <2>2
  <2>4. scanOffset = prevEndAbs /\ Resumed
    <3>1. Stuck(Inner, scanOffset) => chunks = <<>>
      <4>1. /\ Inner \in Seq(Token) /\ scanOffset \in Nat /\ chunks = Filled(Split(Inner, scanOffset))
            /\ IsWindow(Inner, scanOffset, Split(Inner, scanOffset))
        BY <2>1, ChunksLie DEF Modes, IInv, Counters
      <4>. QED  BY <4>1, StuckIsEmpty
    <3>. QED  BY <2>1, <2>3, <3>1 DEF AtScan
  <2>5. next = 1 /\ written \in Nat /\ chunks \in Seq(Chunk)
    BY <2>1 DEF IInv, Counters, Room
  <2>6. Base = written /\ Base' = written
    BY <2>1, <2>5 DEF Base
  <2>7. ASSUME NEW k \in 1 .. Len(chunks)
        PROVE  GapBefore(k) = IF written > 0 \/ k > 1 THEN <<"comma">> ELSE <<>>
    <3>1. k \in DOMAIN chunks
      BY <2>5
    <3>. QED  BY <2>2, <3>1 DEF BadGaps, GapIsValid
  <2>8. \A k : GapBefore(k)' = GapBefore(k)
    BY <1>0, <2>1 DEF GapBefore
  <2>9. Laid(written)'
    BY <1>0, <2>1, <2>3
  <2>10. InPlace'
    BY <2>1, <2>3 DEF InPlace
  <2>11. Resumed' /\ prevEndAbs' = EndOf(Base') /\ scanOffset' = prevEndAbs' /\ Base' \in Nat
    BY <1>0, <2>1, <2>3, <2>4, <2>5, <2>6 DEF Resumed
  <2>12. \A k \in 1 .. Len(chunks') : GapBefore(k)' = IF Base' > 0 \/ k > 1 THEN <<"comma">> ELSE <<>>
    BY <2>1, <2>6, <2>7, <2>8
  <2>13. \A k \in 1 .. (next' - 1) : FALSE
    BY <2>1, <2>5
  <2>14. AtRecords'
    BY <2>11, <2>12, <2>13 DEF AtRecords
  <2>. QED  BY <2>1, <2>9, <2>10, <2>14
<1>9. CASE Overfull
  BY <1>9 DEF Overfull, Clean
<1>10. CASE DecodeRecord
  <2>1. /\ UNCHANGED <<raw, capacity, scanOffset, prevEndAbs, chunks, problems, pc>>
        /\ pc = "records" /\ next <= Len(chunks) /\ Healthy(chunks[next])
        /\ dst' = [dst EXCEPT ![written] = Into(@, chunks[next].start)]
        /\ written' = written + 1 /\ next' = next + 1
    BY <1>10 DEF DecodeRecord, argVars
  <2>2. problems = <<>>
    BY <2>1 DEF Clean
  <2>3. Laid(written) /\ InPlace /\ AtRecords
    BY <1>1, <2>1, <2>2
  <2>4. chunks[next] = Elem(0, written) /\ Laid(written + 1)
    BY <2>1, <2>3, NextLaid
  <2>5. written \in Nat /\ next \in Nat \ {0} /\ written < capacity /\ capacity \in Nat
        /\ DOMAIN dst = 0 .. (capacity - 1) /\ Len(chunks) \in Nat
    <3>1. written \in Nat /\ next \in Nat \ {0} /\ capacity \in Nat /\ Len(chunks) \in Nat
          /\ DOMAIN dst = 0 .. (capacity - 1)
      BY DEF IInv, Counters, Modes
    <3>2. written + (Len(chunks) - next + 1) <= capacity
      BY <2>1 DEF IInv, Room
    <3>. QED  BY <2>1, <3>1, <3>2
  <2>6. ASSUME NEW s \in 0 .. (written' - 1) PROVE dst'[s].at = 2 * s
    <3>1. CASE s = written
      <4>1. dst'[s] = Into(dst[written], chunks[next].start)
        BY <2>1, <2>5, <3>1
      <4>2. chunks[next].start = 2 * written
        BY <2>4, <2>5 DEF Elem
      <4>3. Into(dst[written], chunks[next].start).at = chunks[next].start
        BY DEF Into
      <4>. QED  BY <3>1, <4>1, <4>2, <4>3
    <3>2. CASE s # written
      <4>1. s \in 0 .. (written - 1) /\ s \in DOMAIN dst
        BY <2>1, <2>5, <3>2
      <4>2. dst'[s] = dst[s]
        BY <2>1, <3>2, <4>1
      <4>. QED  BY <2>3, <4>1, <4>2 DEF InPlace
    <3>. QED  BY <3>1, <3>2
  <2>7. Base' = Base
    BY <2>1, <2>5 DEF Base
  <2>8. \A k : GapBefore(k)' = GapBefore(k)
    BY <1>0, <2>1 DEF GapBefore
  <2>9. ASSUME NEW k \in 1 .. (next' - 1) PROVE chunks'[k] = Elem(0, (Base' + k) - 1)
    <3>1. CASE k = next
      <4>1. (Base + next) - 1 = written
        BY <2>5 DEF Base
      <4>. QED  BY <2>1, <2>4, <2>7, <3>1, <4>1
    <3>2. CASE k # next
      <4>1. k \in 1 .. (next - 1)
        BY <2>1, <2>5, <3>2
      <4>. QED  BY <2>1, <2>3, <2>7, <4>1 DEF AtRecords
    <3>. QED  BY <3>1, <3>2
  <2>10. Resumed' /\ prevEndAbs' = EndOf(Base') /\ scanOffset' = prevEndAbs' /\ Base' \in Nat
    BY <1>0, <2>1, <2>3, <2>7 DEF AtRecords, Resumed
  <2>11. \A k \in 1 .. Len(chunks') : GapBefore(k)' = IF Base' > 0 \/ k > 1 THEN <<"comma">> ELSE <<>>
    BY <2>1, <2>3, <2>7, <2>8 DEF AtRecords
  <2>12. AtRecords'
    BY <2>9, <2>10, <2>11 DEF AtRecords
  <2>13. Laid(written)'
    BY <1>0, <2>1, <2>4
  <2>. QED  BY <2>1, <2>6, <2>12, <2>13 DEF InPlace
<1>11. CASE DamagedRecord
  <2>1. mode # "strict" /\ problems' = Noted(next) /\ next <= Len(chunks)
    BY <1>11 DEF DamagedRecord, Clean
  <2>2. problems \in Seq(Noting) /\ next \in 1 .. Len(chunks) /\ chunks \in Seq(Chunk) /\ written \in Nat
    BY <2>1 DEF Modes, IInv, Counters
  <2>3. chunks[next].start \in Nat /\ written + next - 1 \in Int
    <3>1. chunks[next] \in Chunk
      BY <2>2
    <3>. QED  BY <2>2, <3>1 DEF Chunk
  <2>4. Problem(chunks[next].start, written + next - 1) \in Noting
    BY <2>3 DEF Problem, Noting
  <2>5. Noted(next) # <<>>
    BY <2>2, <2>4, AppendIs DEF Noted
  <2>. QED  BY <2>1, <2>5 DEF Clean
<1>12. CASE NextWindow
  <2>1. /\ UNCHANGED <<raw, written, problems, dst>>
        /\ pc = "records" /\ next > Len(chunks)
        /\ prevEndAbs' = chunks[Len(chunks)].end
        /\ \/ /\ scanOffset + stepAdvance > scanOffset
              /\ scanOffset' = scanOffset + stepAdvance /\ pc' = "window"
           \/ pc' = "tail"
           \/ pc' = "done" /\ failed'
    BY <1>12 DEF NextWindow, Advance, argVars
  <2>2. problems = <<>>
    BY <2>1 DEF Clean
  <2>3. Laid(written) /\ InPlace /\ AtRecords /\ ~Straddles
    BY <1>0, <1>1, <2>1, <2>2
  <2>. DEFINE a == scanOffset + stepAdvance
  <2>4. /\ chunks[Len(chunks)].end = EndOf(written)
        /\ a > scanOffset =>
             \/ Stuck(Inner, a)
             \/ /\ a = EndOf(written)
                /\ \E j \in 0 .. Commas(a) : Commas(a) = j * (Batch - 1)
    BY <2>1, <2>3, WindowLaid
  <2>5. Laid(written)'
    BY <1>0, <2>1, <2>3
  <2>6. InPlace' /\ prevEndAbs' = EndOf(written')
    BY <2>1, <2>3, <2>4 DEF InPlace, EndOf
  <2>7. pc' # "done"
    BY <2>1 DEF Clean
  <2>8. ASSUME pc' = "window" PROVE AtScan'
    <3>1. scanOffset' = a /\ a > scanOffset /\ Inner' = Inner
      BY <1>0, <2>1, <2>8
    <3>. HIDE DEF a
    <3>2. CASE Stuck(Inner, a)
      <4>1. Stuck(Inner', scanOffset')
        BY <3>1, <3>2
      <4>. QED  BY <4>1 DEF AtScan, Stuck
    <3>3. CASE a = EndOf(written) /\ \E j \in 0 .. Commas(a) : Commas(a) = j * (Batch - 1)
      <4>1. scanOffset' = prevEndAbs'
        BY <2>1, <2>4, <3>1, <3>3
      <4>2. \E j \in 0 .. Commas(scanOffset)' : Commas(scanOffset)' = j * (Batch - 1)
        <5>1. Commas(scanOffset)' = Commas(a)
          BY <3>1 DEF Commas
        <5>. QED  BY <3>3, <5>1
      <4>. QED  BY <4>1, <4>2 DEF AtScan, Resumed
    <3>. QED  BY <2>4, <3>1, <3>2, <3>3
  <2>. QED  BY <2>1, <2>5, <2>6, <2>7, <2>8
<1>13. CASE Closed
  <2>1. /\ UNCHANGED <<raw, scanOffset, written, prevEndAbs, problems, dst>>
        /\ pc = "tail" /\ pc' = "done" /\ ClosedAt(Inner, prevEndAbs)
    BY <1>13 DEF Closed, argVars
  <2>2. problems = <<>>
    BY <2>1 DEF Clean
  <2>3. Laid(written) /\ InPlace /\ prevEndAbs = EndOf(written)
    BY <1>1, <2>1, <2>2
  <2>4. Laid(written)'
    BY <1>0, <2>1, <2>3
  <2>5. InPlace' /\ prevEndAbs' = EndOf(written')
    BY <2>1, <2>3 DEF InPlace, EndOf
  <2>6. ClosedAt(Inner, prevEndAbs)'
    BY <1>0, <2>1 DEF ClosedAt
  <2>. QED  BY <2>1, <2>4, <2>5, <2>6
<1>14. CASE Salvage
  <2>1. problems' = Append(problems, Problem(prevEndAbs, -1))
    BY <1>14 DEF Salvage
  <2>2. problems \in Seq(Noting) /\ Problem(prevEndAbs, -1) \in Noting
    BY DEF Modes, Problem, Noting
  <2>3. problems' # <<>>
    BY <2>1, <2>2, AppendIs
  <2>. QED  BY <2>3 DEF Clean
<1>15. CASE UNCHANGED vars
  <2>1. /\ UNCHANGED <<raw, pc, scanOffset, written, prevEndAbs, chunks, next, problems, failed, dst>>
    BY <1>15 DEF vars, argVars, windowVars
  <2>2. Running /\ Clean /\ ~Straddles
    BY <1>0, <2>1 DEF Running, Scanned, Clean
  <2>3. Sound'
    BY <2>1 DEF Sound, Running, Scanned, Clean, Straddles, Inner, Commas, Laid, EndOf, InPlace, AtScan, Resumed,
                AtRecords, GapBefore, Base
  <2>. QED  BY <2>3 DEF Sound
<1>16. CASE NothingFound /\ Fail(scanOffset)
  BY <1>2, <1>16
<1>. QED  BY <1>3, <1>4, <1>5, <1>6, <1>7, <1>8, <1>9, <1>10, <1>11, <1>12, <1>13, <1>14, <1>15,
             <1>16 DEF Next

\* Without a word, the input is an array, and the slots hold its elements.
LEMMA SoundIsArray ==
    ASSUME IInv, Sound, Scanned, Clean, ~Straddles
    PROVE  /\ written \in 0 .. capacity /\ Good(written)
           /\ \A s \in 0 .. (written - 1) : dst[s].at = 2 * s
<1>1. raw # <<>> /\ pc = "done" /\ Inner \in Seq(Token)
  BY InnerIs DEF Scanned, IInv
<1>2. Laid(written) /\ InPlace /\ ClosedAt(Inner, EndOf(written))
  BY <1>1 DEF Sound, Running
<1>3. Good(written)
  BY <1>1, <1>2, LaidIsGood
<1>4. written \in 0 .. capacity
  BY DEF IInv, Counters, Room
<1>. QED  BY <1>2, <1>3, <1>4 DEF InPlace

-----------------------------------------------------------------------------
(* An array that fits is read through.                                     *)

Tracks(n) ==
    /\ Clean
    /\ pc \in {"window", "gaps"} =>
         written <= n /\ scanOffset = EndOf(written) /\ prevEndAbs = EndOf(written)
    /\ pc = "records" =>
         /\ Base \in Nat /\ scanOffset = EndOf(Base) /\ Base + Len(chunks) <= n
         /\ \A k \in 1 .. Len(chunks) : chunks[k] = Elem(0, (Base + k) - 1)
         /\ scanOffset + stepAdvance = EndOf(Base + Len(chunks))
    /\ pc = "tail" => prevEndAbs = EndOf(n)

Complete == Running => \A n \in 0 .. capacity : Good(n) => Tracks(n)

LEMMA InitComplete == Init => Complete
BY DEF Init, Complete, Running, Scanned

LEMMA GoodLen ==
    ASSUME Inner \in Seq(Token), NEW n \in Nat, Good(n)
    PROVE  /\ Len(Inner) = EndOf(n) + 1 /\ ClosedAt(Inner, EndOf(n)) /\ EndOf(n) \in Nat
           /\ \A m \in 0 .. n : EndOf(m) \in Nat /\ EndOf(m) <= EndOf(n)
<1>1. Len(Inner) = EndOf(n) + 1 /\ Inner[EndOf(n) + 1] = "rbracket" /\ EndOf(n) \in Nat
  BY DEF Good, Alternates, EndOf
<1>2. ClosedAt(Inner, EndOf(n))
  BY <1>1, ClosedAtIs
<1>3. \A m \in 0 .. n : EndOf(m) \in Nat /\ EndOf(m) <= EndOf(n)
  BY DEF EndOf
<1>. QED  BY <1>1, <1>2, <1>3

\* An element of a good array is healthy.
LEMMA ElemIsHealthy ==
    ASSUME Inner \in Seq(Token), NEW n \in Nat, Good(n), NEW s \in 0 .. (n - 1)
    PROVE  Healthy(Elem(0, s))
<1>1. Inner[2 * s + 1] \in {"e", "p"}
  BY DEF Good
<1>2. 2 * s \in Nat /\ 2 * s + 1 \in Nat /\ 2 * s + 1 <= Len(Inner)
  BY DEF Good, Alternates
<1>3. Gap(Inner, 2 * s, 2 * s + 1) = <<Inner[2 * s + 1]>>
  BY <1>2, GapOfOne
<1>4. Elem(0, s).start = 2 * s /\ Elem(0, s).end = 2 * s + 1
  BY DEF Elem
<1>5. Gap(Inner, 2 * s, 2 * s + 1) \in {<<"e">>, <<"p">>}
  BY <1>1, <1>3
<1>. QED  BY <1>4, <1>5, Zenon DEF Healthy

\* A window of a good array: none of its elements is left, or it holds the next ones, in
\* order and without a bad gap.
LEMMA GoodGaps ==
    ASSUME IInv, Modes, pc = "gaps", NEW n \in 0 .. capacity, Good(n), Tracks(n)
    PROVE  /\ chunks = <<>> => written = n
           /\ chunks # <<>> => written + Len(chunks) <= n
           /\ \A k \in 1 .. Len(chunks) : chunks[k] = Elem(0, (written + k) - 1)
           /\ chunks # <<>> => scanOffset + stepAdvance = EndOf(written + Len(chunks))
           /\ BadGaps = {}
<1>. DEFINE w == Split(Inner, scanOffset)
            m == written
            L == Len(w)
            d == IF m = 0 THEN 0 ELSE 1
<1>1. /\ Inner \in Seq(Token) /\ IsWindow(Inner, scanOffset, w) /\ chunks = Filled(w)
      /\ stepAdvance = StepOf(w) /\ w \in Seq(Chunk) /\ n \in Nat /\ chunks \in Seq(Chunk)
      /\ scanOffset \in Nat /\ m \in 0 .. n /\ scanOffset = EndOf(m)
  <2>1. Inner \in Seq(Token) /\ IsWindow(Inner, scanOffset, w)
    BY ChunksLie
  <2>2. chunks = Filled(w) /\ stepAdvance = StepOf(w)
    BY DEF Modes
  <2>3. scanOffset \in Nat /\ m \in Nat /\ n \in Nat /\ chunks \in Seq(Chunk)
    BY DEF IInv, Counters
  <2>4. m <= n /\ scanOffset = EndOf(m)
    BY DEF Tracks
  <2>5. w \in Seq(Chunk)
    BY <2>1 DEF IsWindow, IsPieces
  <2>. QED  BY <2>1, <2>2, <2>3, <2>4, <2>5
<1>. HIDE DEF w
<1>2. CASE m = n
  <2>1. Len(Inner) = scanOffset + 1
    BY <1>1, <1>2, GoodLen
  <2>2. ASSUME NEW i \in 1 .. Len(chunks) PROVE FALSE
    <3>1. /\ chunks[i] \in Chunk /\ scanOffset <= chunks[i].start
          /\ chunks[i].start < chunks[i].end /\ chunks[i].end <= Len(Inner) - 1
      BY ChunksLie
    <3>. DEFINE x == chunks[i].start
                y == chunks[i].end
    <3>2. x \in Nat /\ y \in Nat /\ scanOffset <= x /\ x < y /\ y <= (scanOffset + 1) - 1
      BY <2>1, <3>1 DEF Chunk
    <3>. HIDE DEF x, y
    <3>. QED  BY <1>1, <3>2
  <2>3. chunks = <<>>
    BY <1>1, <2>2
  <2>4. BadGaps = {}
    BY <2>3 DEF BadGaps
  <2>. QED  BY <1>2, <2>2, <2>3, <2>4
<1>3. CASE m # n
  <2>0. n # 0 /\ m < n /\ d \in {0, 1} /\ Batch \in Nat \ {0} /\ Batch >= 2
    BY <1>1, <1>3, SliceAssumption
  <2>1. /\ w # <<>>
        /\ \A i \in 1 .. L : /\ w[i].end = 2 * ((m + i) - d) - 1
                             /\ i > d => w[i] = Elem(0, ((m + i) - d) - 1)
                             /\ i <= d => w[i].start = w[i].end
        /\ (m + L) - d <= n
        /\ L < Batch => (m + L) - d = n
    <3>1. Alternates(Inner, n) /\ scanOffset = (IF m = 0 THEN 0 ELSE 2 * m - 1)
      BY <1>1 DEF Good, EndOf
    <3>2. PICK e \in {0, 1} : e = d
      BY <2>0
    <3>3. e = (IF m = 0 THEN 0 ELSE 1)
      BY <3>2
    <3>. HIDE DEF d
    <3>4. /\ Inner \in Seq(Token) /\ n \in Nat /\ Alternates(Inner, n) /\ Batch \in Nat \ {0}
          /\ m \in 0 .. n /\ scanOffset \in Nat /\ n # 0 /\ IsWindow(Inner, scanOffset, w)
      BY <1>1, <2>0, <3>1
    <3>5. Follows(n, m, e, w)
      BY <3>1, <3>3, <3>4, GoodWindow, Zenon
    <3>. QED  BY <3>2, <3>5 DEF Follows, L
  <2>2. L \in Nat /\ L # 0 /\ d < L
    BY <1>1, <2>0, <2>1
  <2>. HIDE DEF L
  <2>3. ASSUME NEW i \in 1 .. L PROVE NonEmpty(w[i]) <=> i > d
    <3>1. CASE i > d
      <4>1. w[i] = Elem(0, ((m + i) - d) - 1)
        BY <2>1, <3>1
      <4>2. ((m + i) - d) - 1 \in Nat
        BY <1>1, <3>1
      <4>. QED  BY <3>1, <4>1, <4>2 DEF Elem, NonEmpty
    <3>2. CASE ~(i > d)
      BY <2>1, <2>2, <3>2 DEF NonEmpty
    <3>. QED  BY <3>1, <3>2
  <2>4. /\ Len(chunks) = L - d
        /\ \A i \in 1 .. Len(chunks) : i + d \in 1 .. L /\ chunks[i] = w[i + d]
    BY <1>1, <2>0, <2>2, <2>3, FilledBehind DEF L
  <2>5. Len(chunks) \in Nat /\ Len(chunks) > 0 /\ m + Len(chunks) = (m + L) - d
    BY <1>1, <2>0, <2>2, <2>4
  <2>6. ASSUME NEW k \in 1 .. Len(chunks) PROVE chunks[k] = Elem(0, (m + k) - 1)
    <3>1. k + d \in 1 .. L /\ k + d > d /\ ((m + (k + d)) - d) - 1 = (m + k) - 1
      BY <1>1, <2>0, <2>4
    <3>2. w[k + d] = Elem(0, ((m + (k + d)) - d) - 1)
      BY <2>1, <3>1
    <3>. QED  BY <2>4, <3>1, <3>2
  <2>7. scanOffset + stepAdvance = EndOf(m + Len(chunks))
    <3>1. L \in 1 .. L /\ w[L].end = 2 * ((m + L) - d) - 1
      BY <2>1, <2>2
    <3>2. stepAdvance = w[L].end - scanOffset
      BY <1>1, <2>1 DEF StepOf, L
    <3>3. EndOf(m + Len(chunks)) = 2 * (m + Len(chunks)) - 1
      BY <1>1, <2>5 DEF EndOf
    <3>4. w[L].end = EndOf(m + Len(chunks))
      BY <2>5, <3>1, <3>3
    <3>5. EndOf(m + Len(chunks)) \in Nat
      BY <1>1, <2>5, <3>3
    <3>. QED  BY <1>1, <3>2, <3>4, <3>5
  <2>8. ASSUME NEW k \in DOMAIN chunks PROVE GapIsValid(k)
    <3>. DEFINE a == IF k = 1 THEN scanOffset ELSE chunks[k - 1].end
                b == chunks[k].start
                s == (m + k) - 1
    <3>0. m + Len(chunks) <= n
      BY <2>1, <2>5
    <3>1. k \in 1 .. Len(chunks) /\ s \in Nat /\ s < n /\ k \in Nat
      <4>1. k \in 1 .. Len(chunks)
        BY <1>1
      <4>. QED  BY <1>1, <2>5, <3>0, <4>1
    <3>2. b = 2 * s
      <4>1. chunks[k] = Elem(0, s)
        BY <2>6, <3>1
      <4>2. Elem(0, s).start = 2 * s
        BY <3>1 DEF Elem
      <4>. HIDE DEF s
      <4>. QED  BY <4>1, <4>2
    <3>3. a = EndOf(s)
      <4>1. CASE k = 1
        BY <1>1, <4>1
      <4>2. CASE k # 1
        <5>0. k >= 2 /\ k <= Len(chunks) /\ Len(chunks) \in Nat /\ k \in Nat /\ m \in Nat
          BY <1>1, <3>1, <4>2
        <5>1. k - 1 \in 1 .. Len(chunks) /\ (m + (k - 1)) - 1 = s - 1 /\ s # 0 /\ s - 1 \in Nat
          BY <5>0
        <5>2. chunks[k - 1] = Elem(0, s - 1)
          BY <2>6, <5>1
        <5>3. Elem(0, s - 1).end = 2 * (s - 1) + 1
          BY <5>1 DEF Elem
        <5>4. a = 2 * (s - 1) + 1
          BY <4>2, <5>2, <5>3
        <5>. HIDE DEF a, s
        <5>. QED  BY <3>1, <5>1, <5>4 DEF EndOf
      <4>. QED  BY <4>1, <4>2
    <3>4. s > 0 <=> m > 0 \/ k > 1
      BY <1>1, <3>1
    <3>5. GapIsValid(k) <=> Gap(Inner, a, b) = IF m > 0 \/ k > 1 THEN <<"comma">> ELSE <<>>
      BY DEF GapIsValid, GapBefore
    <3>. HIDE DEF a, b, s
    <3>6. CASE s > 0
      <4>1. a \in Nat /\ b \in Nat /\ b = a + 1
        BY <3>1, <3>2, <3>3, <3>6 DEF EndOf
      <4>2. b <= Len(Inner) /\ Inner[b] = "comma"
        BY <3>1, <3>2, <3>6 DEF Good, Alternates
      <4>3. Gap(Inner, a, b) = <<Inner[b]>>
        BY <1>1, <4>1, <4>2, GapOfOne
      <4>. QED  BY <3>4, <3>5, <3>6, <4>2, <4>3
    <3>7. CASE ~(s > 0)
      <4>1. a = 0 /\ b = 0
        BY <3>1, <3>2, <3>3, <3>7 DEF EndOf
      <4>2. Gap(Inner, a, b) = <<>>
        BY <1>1, <4>1 DEF Gap
      <4>. QED  BY <3>4, <3>5, <3>7, <4>2
    <3>. QED  BY <3>6, <3>7
  <2>9. BadGaps = {}
    BY <2>8 DEF BadGaps
  <2>10. chunks # <<>> /\ m + Len(chunks) <= n
    BY <2>1, <2>5
  <2>. QED  BY <2>6, <2>7, <2>9, <2>10
<1>. QED  BY <1>2, <1>3

LEMMA NextComplete == IInv /\ Modes /\ Complete /\ [Next]_vars => Complete'
<1>. SUFFICES ASSUME IInv, Modes, Complete, [Next]_vars PROVE Complete'
  OBVIOUS
<1>. SUFFICES ASSUME Running',
                     NEW n \in 0 .. capacity, raw' = raw, capacity' = capacity, Good(n)
              PROVE  Tracks(n)'
  <2>1. UNCHANGED <<raw, capacity>>
    <3>1. CASE ReturnNothing \/ Refuse \/ Panic \/ Begin
      BY <3>1 DEF ReturnNothing, Refuse, Panic, Begin, Fail, argVars
    <3>2. CASE ScanWindow \/ WindowsOver
      BY <3>2 DEF ScanWindow, WindowsOver, argVars
    <3>3. CASE NothingFound
      BY <3>3 DEF NothingFound, Fail, argVars
    <3>4. CASE RejectGap \/ EnterRecords \/ Overfull
      BY <3>4 DEF RejectGap, EnterRecords, Overfull, Fail, argVars
    <3>5. CASE DecodeRecord \/ DamagedRecord \/ NextWindow
      BY <3>5 DEF DecodeRecord, DamagedRecord, NextWindow, argVars
    <3>6. CASE Closed \/ Unterminated \/ Salvage
      BY <3>6 DEF Closed, Unterminated, Salvage, Fail, argVars
    <3>7. CASE UNCHANGED vars
      BY <3>7 DEF vars, argVars
    <3>8. Next \/ UNCHANGED vars
      OBVIOUS
    <3>. QED  BY <3>1, <3>2, <3>3, <3>4, <3>5, <3>6, <3>7, <3>8, Zenon DEF Next
  <2>2. \A n : Good(n)' <=> Good(n)
    BY <2>1 DEF Good, Inner
  <2>. QED  BY <2>1, <2>2 DEF Complete
<1>0. Inner' = Inner /\ \A m : EndOf(m)' = EndOf(m)
  BY DEF Inner, EndOf
<1>1. ASSUME Running PROVE Tracks(n)
  BY <1>1 DEF Complete
<1>2. CASE ReturnNothing
  BY <1>2 DEF ReturnNothing, Running, Scanned, argVars
<1>3. CASE Refuse
  BY <1>3 DEF Refuse, Fail, Running, Scanned
<1>4. CASE Panic
  BY <1>4 DEF Panic, Running, Scanned
<1>5. CASE Begin
  <2>1. /\ pc' = "window" /\ written' = 0 /\ scanOffset' = 0 /\ prevEndAbs' = 0
        /\ ~failed' /\ problems' = <<>> /\ n \in Nat
    BY <1>5 DEF Begin, Modes, IInv, Counters
  <2>. QED  BY <2>1 DEF Tracks, Clean, EndOf
<1>a. ASSUME Running
      PROVE  /\ Inner \in Seq(Token) /\ n \in Nat /\ Len(Inner) = EndOf(n) + 1 /\ EndOf(n) \in Nat
             /\ ClosedAt(Inner, EndOf(n))
             /\ \A m \in 0 .. n : EndOf(m) \in Nat /\ EndOf(m) <= EndOf(n)
             /\ Clean /\ written \in Nat
  <2>1. raw # <<>> /\ n \in Nat /\ written \in Nat
    BY <1>a DEF Running, Scanned, IInv, Counters
  <2>2. Inner \in Seq(Token)
    BY <2>1, InnerIs DEF IInv
  <2>3. Clean
    BY <1>1, <1>a DEF Tracks
  <2>. QED  BY <2>1, <2>2, <2>3, GoodLen
<1>6. CASE ScanWindow
  <2>1. Running /\ pc = "window" /\ pc' = "gaps"
        /\ UNCHANGED <<written, scanOffset, prevEndAbs, problems, failed>>
    BY <1>6 DEF ScanWindow, Running
  <2>. QED  BY <1>1, <2>1 DEF Tracks, Clean, EndOf
<1>7. CASE WindowsOver
  <2>1. Running /\ pc = "window" /\ scanOffset >= Len(Inner)
    BY <1>7 DEF WindowsOver, Running
  <2>2. written <= n /\ scanOffset = EndOf(written)
    BY <1>1, <2>1 DEF Tracks
  <2>3. EndOf(written) \in Nat /\ EndOf(written) <= EndOf(n)
    BY <1>a, <2>1, <2>2
  <2>. QED  BY <1>a, <2>1, <2>2, <2>3
<1>8. ASSUME pc = "gaps"
      PROVE  /\ Tracks(n) /\ written <= n /\ scanOffset = EndOf(written) /\ prevEndAbs = EndOf(written)
             /\ chunks = <<>> => written = n
             /\ chunks # <<>> => written + Len(chunks) <= n
             /\ \A k \in 1 .. Len(chunks) : chunks[k] = Elem(0, (written + k) - 1)
             /\ chunks # <<>> => scanOffset + stepAdvance = EndOf(written + Len(chunks))
             /\ BadGaps = {}
  <2>1. Tracks(n)
    BY <1>1, <1>8 DEF Running
  <2>2. written <= n /\ scanOffset = EndOf(written) /\ prevEndAbs = EndOf(written)
    BY <1>8, <2>1 DEF Tracks
  <2>. QED  BY <1>8, <2>1, <2>2, GoodGaps
<1>9. CASE NothingFound
  <2>1. pc = "gaps" /\ chunks = <<>>
    BY <1>9 DEF NothingFound
  <2>2. written = n /\ scanOffset = EndOf(n) /\ prevEndAbs = EndOf(n) /\ Tracks(n)
    BY <1>8, <2>1
  <2>3. ClosedAt(Inner, scanOffset)
    BY <1>a, <2>1, <2>2 DEF Running
  <2>4. pc' = "tail" /\ UNCHANGED <<prevEndAbs, problems, failed>>
    BY <1>9, <2>3 DEF NothingFound
  <2>. QED  BY <2>2, <2>4 DEF Tracks, Clean, EndOf
<1>10. CASE RejectGap
  BY <1>8, <1>10 DEF RejectGap
<1>11. CASE EnterRecords
  <2>1. /\ pc = "gaps" /\ pc' = "records" /\ chunks # <<>> /\ problems' = problems \o GapProblems
        /\ UNCHANGED <<written, scanOffset, chunks, stepAdvance, next, failed>>
    BY <1>11 DEF EnterRecords, windowVars
  <2>2. problems = <<>> /\ ~failed /\ GapProblems = <<>>
    BY <1>8, <2>1, GapProblemsAre DEF IInv, Tracks, Clean
  <2>3. problems' = <<>> /\ ~failed'
    BY <2>1, <2>2
  <2>4. next = 1 /\ written \in Nat
    BY <2>1 DEF IInv, Counters, Room
  <2>5. Base' = written
    BY <2>1, <2>4 DEF Base
  <2>6. /\ Base' \in Nat /\ scanOffset' = EndOf(Base') /\ Base' + Len(chunks') <= n
        /\ \A k \in 1 .. Len(chunks') : chunks'[k] = Elem(0, (Base' + k) - 1)
        /\ scanOffset' + stepAdvance' = EndOf(Base' + Len(chunks'))
    BY <1>8, <2>1, <2>4, <2>5
  <2>. QED  BY <2>1, <2>3, <2>6 DEF Tracks, Clean, EndOf
<1>12. CASE Overfull
  <2>1. pc = "gaps" /\ chunks # <<>> /\ ~(written + Len(chunks) <= capacity)
    BY <1>12 DEF Overfull, Fits
  <2>2. written + Len(chunks) <= n /\ n <= capacity
    BY <1>8, <2>1
  <2>. QED  BY <2>1, <2>2 DEF IInv, Counters
<1>13. ASSUME pc = "records"
       PROVE  /\ Clean /\ Base \in Nat /\ scanOffset = EndOf(Base) /\ Base + Len(chunks) <= n
              /\ \A k \in 1 .. Len(chunks) : chunks[k] = Elem(0, (Base + k) - 1)
              /\ scanOffset + stepAdvance = EndOf(Base + Len(chunks))
  BY <1>1, <1>13 DEF Running, Tracks
<1>14. CASE DecodeRecord
  <2>1. /\ pc = "records" /\ UNCHANGED <<pc, scanOffset, chunks, stepAdvance, problems, failed>>
        /\ written' = written + 1 /\ next' = next + 1
    BY <1>14 DEF DecodeRecord
  <2>2. written \in Nat /\ next \in Nat
    BY DEF IInv, Counters
  <2>3. Base' = Base
    BY <2>1, <2>2 DEF Base
  <2>4. /\ Base' \in Nat /\ scanOffset' = EndOf(Base') /\ Base' + Len(chunks') <= n
        /\ \A k \in 1 .. Len(chunks') : chunks'[k] = Elem(0, (Base' + k) - 1)
        /\ scanOffset' + stepAdvance' = EndOf(Base' + Len(chunks'))
    BY <1>13, <2>1, <2>3
  <2>5. Clean'
    BY <1>13, <2>1 DEF Clean
  <2>. QED  BY <2>1, <2>4, <2>5 DEF Tracks, EndOf
<1>15. CASE DamagedRecord
  <2>1. pc = "records" /\ next <= Len(chunks) /\ ~Healthy(chunks[next])
    BY <1>15 DEF DamagedRecord
  <2>2. next \in 1 .. Len(chunks) /\ Len(chunks) \in Nat
    BY <2>1 DEF IInv, Counters
  <2>3. chunks[next] = Elem(0, (Base + next) - 1)
    BY <1>13, <2>1, <2>2
  <2>4. (Base + next) - 1 \in 0 .. (n - 1) /\ Inner \in Seq(Token) /\ n \in Nat
    <3>1. Base \in Nat /\ Base + Len(chunks) <= n
      BY <1>13, <2>1
    <3>2. Inner \in Seq(Token) /\ n \in Nat
      BY <1>a, <2>1 DEF Running
    <3>. QED  BY <2>2, <3>1, <3>2
  <2>5. Healthy(Elem(0, (Base + next) - 1))
    BY <2>4, ElemIsHealthy
  <2>. QED  BY <2>1, <2>3, <2>5
<1>16. CASE NextWindow
  <2>1. /\ pc = "records" /\ next > Len(chunks) /\ prevEndAbs' = chunks[Len(chunks)].end
        /\ UNCHANGED <<written, problems>>
        /\ scanOffset + stepAdvance > scanOffset =>
             scanOffset' = scanOffset + stepAdvance /\ pc' = "window" /\ UNCHANGED failed
    BY <1>16 DEF NextWindow, Advance
  <2>2. chunks # <<>> /\ chunks \in Seq(Chunk) /\ next <= Len(chunks) + 1 /\ next \in Nat /\ written \in Nat
    BY <2>1 DEF Modes, IInv, Counters, Room
  <2>3. Len(chunks) \in Nat /\ Len(chunks) > 0 /\ next = Len(chunks) + 1
    BY <2>1, <2>2
  <2>4. Base \in Nat /\ written = Base + Len(chunks) /\ written > 0
    BY <1>13, <2>1, <2>2, <2>3 DEF Base
  <2>5. written <= n /\ scanOffset + stepAdvance = EndOf(written) /\ scanOffset = EndOf(Base)
    BY <1>13, <2>1, <2>4
  <2>6. EndOf(written) > EndOf(Base)
    BY <2>3, <2>4 DEF EndOf
  <2>7. scanOffset' = EndOf(written) /\ pc' = "window" /\ UNCHANGED failed
    BY <2>1, <2>5, <2>6
  <2>8. chunks[Len(chunks)].end = EndOf(written)
    <3>1. Len(chunks) \in 1 .. Len(chunks) /\ (Base + Len(chunks)) - 1 = written - 1
      BY <2>3, <2>4
    <3>2. chunks[Len(chunks)] = Elem(0, written - 1)
      BY <1>13, <2>1, <3>1
    <3>3. Elem(0, written - 1).end = 2 * (written - 1) + 1
      BY <2>2 DEF Elem
    <3>4. 2 * (written - 1) + 1 = EndOf(written)
      BY <2>2, <2>4 DEF EndOf
    <3>. QED  BY <3>2, <3>3, <3>4
  <2>9. Clean'
    BY <1>13, <2>1, <2>7 DEF Clean
  <2>. QED  BY <2>1, <2>5, <2>7, <2>8, <2>9 DEF Tracks, EndOf
<1>17. ASSUME pc = "tail" PROVE ClosedAt(Inner, prevEndAbs) /\ Clean
  <2>1. prevEndAbs = EndOf(n) /\ Clean
    BY <1>1, <1>17 DEF Running, Tracks
  <2>. QED  BY <1>a, <1>17, <2>1 DEF Running
<1>18. CASE Closed
  <2>1. pc = "tail" /\ pc' = "done" /\ UNCHANGED <<problems, failed>>
    BY <1>18 DEF Closed
  <2>. QED  BY <1>17, <2>1 DEF Tracks, Clean
<1>19. CASE Unterminated \/ Salvage
  BY <1>17, <1>19 DEF Unterminated, Salvage
<1>20. CASE UNCHANGED vars
  <2>1. UNCHANGED <<raw, pc, scanOffset, written, prevEndAbs, chunks, stepAdvance, next, problems, failed>>
    BY <1>20 DEF vars, argVars, windowVars
  <2>2. Tracks(n)
    BY <1>1, <2>1 DEF Running, Scanned
  <2>. QED  BY <2>1, <2>2 DEF Tracks, Clean, Base, EndOf
<1>. QED  BY <1>2, <1>3, <1>4, <1>5, <1>6, <1>7, <1>9, <1>10, <1>11, <1>12, <1>14, <1>15, <1>16, <1>18,
             <1>19, <1>20 DEF Next

\* An array of no more elements than the slice has slots, and nothing else, is accepted
\* without a word.
LEMMA ExactlyArrays ==
    ASSUME IInv, Modes, Sound, Complete, Scanned, ~Straddles
    PROVE  /\ Clean <=> \E n \in 0 .. capacity : 2 * n <= Len(Inner) /\ IsGoodArray(n)
           /\ Clean => /\ IsGoodArray(written)
                       /\ \A s \in 0 .. (written - 1) : dst[s].at = 2 * s
<1>1. Inner \in Seq(Token) /\ capacity \in Nat
  BY InnerIs DEF Scanned, IInv, Counters
<1>2. ASSUME NEW n \in 0 .. capacity, 2 * n <= Len(Inner), IsGoodArray(n) PROVE Clean
  <2>1. Good(n)
    BY <1>1, <1>2, IsGoodIs
  <2>. QED  BY <2>1 DEF Complete, Running, Tracks
<1>3. ASSUME Clean
      PROVE  /\ written \in 0 .. capacity /\ 2 * written <= Len(Inner) /\ IsGoodArray(written)
             /\ \A s \in 0 .. (written - 1) : dst[s].at = 2 * s
  <2>1. /\ written \in 0 .. capacity /\ Good(written)
        /\ \A s \in 0 .. (written - 1) : dst[s].at = 2 * s
    BY <1>3, SoundIsArray
  <2>2. 2 * written <= Len(Inner) /\ IsGoodArray(written)
    BY <1>1, <2>1, IsGoodIs
  <2>. QED  BY <2>1, <2>2
<1>. QED  BY <1>2, <1>3

\* For every input, slice and length of the chunk buffer, the strict function returns
\* the whole array, each element in its slot, and fails on everything else, a doubled
\* comma that two windows share excepted (parallel.go:112-118, 208-219).
THEOREM StrictIsExactHolds == Spec => []StrictIsExact
<1>1. IInv /\ Modes /\ Sound /\ Complete => StrictIsExact
  <2>. SUFFICES ASSUME IInv, Modes, Sound, Complete, Scanned, mode = "strict", ~Straddles
                PROVE  /\ ~failed <=> \E n \in 0 .. capacity : 2 * n <= Len(Inner) /\ IsGoodArray(n)
                       /\ ~failed => /\ IsGoodArray(written)
                                     /\ \A s \in 0 .. (written - 1) : dst[s].at = 2 * s
    BY DEF StrictIsExact
  <2>1. Clean <=> ~failed
    BY DEF Modes, Clean
  <2>. QED  BY <2>1, ExactlyArrays
<1>. QED  BY <1>1, InitIInv, NextIInv, InitModes, NextModes, InitSound, NextSound, InitComplete,
             NextComplete, PTL DEF Spec

\* For every input, slice and length of the chunk buffer, the tolerant function notes
\* nothing exactly when the strict one succeeds, and then returns the same
\* (tolerant.go:12-14, 58-59).
THEOREM CleanIsStrictHolds == Spec => []CleanIsStrict
<1>1. IInv /\ Modes /\ Sound /\ Complete => CleanIsStrict
  <2>. SUFFICES ASSUME IInv, Modes, Sound, Complete, Scanned, mode = "tolerant", ~Straddles
                PROVE  /\ problems = <<>> <=>
                            \E n \in 0 .. capacity : 2 * n <= Len(Inner) /\ IsGoodArray(n)
                       /\ problems = <<>> => /\ IsGoodArray(written)
                                             /\ \A s \in 0 .. (written - 1) : dst[s].at = 2 * s
    BY DEF CleanIsStrict
  <2>1. Clean <=> problems = <<>>
    BY DEF Modes, Clean
  <2>. QED  BY <2>1, ExactlyArrays
<1>. QED  BY <1>1, InitIInv, NextIInv, InitModes, NextModes, InitSound, NextSound, InitComplete,
             NextComplete, PTL DEF Spec

-----------------------------------------------------------------------------
(* What the tolerant function keeps.                                       *)

Slot == [at : Int, holds : SUBSET Int]

\* Where the first m records end, and which of them are healthy, which damaged.
EndBefore(m) == IF m = 0 THEN 0 ELSE Whole[m].end

KeptTo(m)    == PickedTo(Whole, [k \in DOMAIN Whole |-> Healthy(Whole[k])], m)
DamagedTo(m) == PickedTo(Whole, [k \in DOMAIN Whole |-> ~Healthy(Whole[k])], m)

NotedOf(p) == Picked([k \in DOMAIN p |-> p[k].offset], [k \in DOMAIN p |-> p[k].record >= 0])

\* The first m records have been seen: w of them are kept in the slots d, the
\* others noted in p.
Slots(m, w, d, p) ==
    /\ m \in 0 .. Len(Whole) /\ w = Len(KeptTo(m))
    /\ d \in [0 .. (capacity - 1) -> Slot]
    /\ \A s \in 0 .. (w - 1) :
         /\ d[s].at = KeptTo(m)[s + 1].start
         /\ \A h \in d[s].holds : h <= d[s].at /\ (s > 0 => h > d[s - 1].at)
    /\ w > 0 => d[w - 1].at < EndBefore(m)
    /\ w < capacity => \A h \in d[w].holds : h < EndBefore(m) /\ (w > 0 => h > d[w - 1].at)
    /\ \A s \in (w + 1) .. (capacity - 1) : d[s].holds = {}
    /\ NotedOf(p) = [k \in 1 .. Len(DamagedTo(m)) |-> DamagedTo(m)[k].start]

LEMMA WholeIsOf == Whole = WholeOf(Inner)
BY DEF Whole, WholeOf

LEMMA WholeRises ==
    ASSUME Inner \in Seq(Token)
    PROVE  /\ Whole \in Seq(Chunk) /\ Len(Whole) \in Nat
           /\ \A m \in 0 .. Len(Whole) : EndBefore(m) \in Nat
           /\ \A m \in 0 .. (Len(Whole) - 1) :
                LET x == Whole[m + 1]
                IN  /\ x.start \in Nat /\ x.end \in Nat /\ x \in Chunk
                    /\ EndBefore(m) <= x.start /\ x.start < x.end /\ EndBefore(m + 1) = x.end
<1>1. Rising(Inner, Whole)
  BY WholeScan, WholeIsOf
<1>2. Whole \in Seq(Chunk) /\ Len(Whole) \in Nat
  BY <1>1 DEF Rising
<1>3. \A i \in 1 .. Len(Whole) : /\ Whole[i].start \in Nat /\ Whole[i].end \in Nat /\ Whole[i] \in Chunk
                                 /\ Whole[i].start < Whole[i].end
  BY <1>1 DEF Rising, Item, Chunk
<1>4. \A i, j \in 1 .. Len(Whole) : i < j => Whole[i].end < Whole[j].start
  BY <1>1 DEF Rising
<1>5. \A m \in 0 .. Len(Whole) : EndBefore(m) \in Nat
  BY <1>2, <1>3 DEF EndBefore
<1>6. ASSUME NEW m \in 0 .. (Len(Whole) - 1)
      PROVE  EndBefore(m) <= Whole[m + 1].start /\ EndBefore(m + 1) = Whole[m + 1].end
  <2>1. m + 1 \in 1 .. Len(Whole) /\ (m # 0 => m \in 1 .. Len(Whole))
    BY <1>2
  <2>. QED  BY <1>3, <1>4, <2>1 DEF EndBefore
<1>7. \A m \in 0 .. (Len(Whole) - 1) : m + 1 \in 1 .. Len(Whole)
  BY <1>2
<1>. QED  BY <1>2, <1>3, <1>5, <1>6, <1>7

\* The healthy and the damaged ones, one record after the other.
LEMMA KeptIs ==
    ASSUME Inner \in Seq(Token)
    PROVE  /\ KeptTo(0) = <<>> /\ DamagedTo(0) = <<>>
           /\ KeptTo(Len(Whole)) = Kept /\ DamagedTo(Len(Whole)) = Damaged
           /\ \A m \in 0 .. Len(Whole) : /\ KeptTo(m) \in Seq(Chunk) /\ Len(KeptTo(m)) <= m
                                         /\ DamagedTo(m) \in Seq(Chunk)
           /\ \A m \in 0 .. (Len(Whole) - 1) :
                LET x == Whole[m + 1]
                IN  IF Healthy(x)
                    THEN KeptTo(m + 1) = Append(KeptTo(m), x) /\ DamagedTo(m + 1) = DamagedTo(m)
                    ELSE KeptTo(m + 1) = KeptTo(m) /\ DamagedTo(m + 1) = Append(DamagedTo(m), x)
<1>. DEFINE good == [k \in DOMAIN Whole |-> Healthy(Whole[k])]
            bad  == [k \in DOMAIN Whole |-> ~Healthy(Whole[k])]
<1>1. Whole \in Seq(Chunk) /\ Len(Whole) \in Nat /\ DOMAIN Whole = 1 .. Len(Whole)
  BY WholeRises
<1>2. \A k \in 1 .. Len(Whole) : (good[k] <=> Healthy(Whole[k])) /\ (bad[k] <=> ~Healthy(Whole[k]))
  BY <1>1
<1>3. /\ \A m : KeptTo(m) = PickedTo(Whole, good, m) /\ DamagedTo(m) = PickedTo(Whole, bad, m)
      /\ Kept = PickedTo(Whole, good, Len(Whole)) /\ Damaged = PickedTo(Whole, bad, Len(Whole))
  BY DEF KeptTo, DamagedTo, Kept, Damaged, Picked
<1>. HIDE DEF good, bad
<1>4. \A m \in 0 .. Len(Whole) : /\ KeptTo(m) \in Seq(Chunk) /\ Len(KeptTo(m)) <= m
                                 /\ DamagedTo(m) \in Seq(Chunk)
  BY <1>1, <1>3, PickedToIs
<1>5. ASSUME NEW m \in 0 .. (Len(Whole) - 1)
      PROVE  LET x == Whole[m + 1]
             IN  IF Healthy(x)
                 THEN KeptTo(m + 1) = Append(KeptTo(m), x) /\ DamagedTo(m + 1) = DamagedTo(m)
                 ELSE KeptTo(m + 1) = KeptTo(m) /\ DamagedTo(m + 1) = Append(DamagedTo(m), x)
  <2>1. m \in Nat /\ m + 1 \in 1 .. Len(Whole)
    BY <1>1
  <2>2. /\ PickedTo(Whole, good, m + 1) =
             IF good[m + 1] THEN Append(PickedTo(Whole, good, m), Whole[m + 1]) ELSE PickedTo(Whole, good, m)
        /\ PickedTo(Whole, bad, m + 1) =
             IF bad[m + 1] THEN Append(PickedTo(Whole, bad, m), Whole[m + 1]) ELSE PickedTo(Whole, bad, m)
    BY <2>1, PickedStep
  <2>. QED  BY <1>2, <1>3, <2>1, <2>2
<1>6. KeptTo(0) = <<>> /\ DamagedTo(0) = <<>>
  BY <1>3, PickedStep
<1>. QED  BY <1>3, <1>4, <1>5, <1>6

\* A problem that belongs to a record is noted, the others are not counted.
LEMMA NotedAppend ==
    ASSUME NEW p \in Seq(Noting), NEW x \in Noting
    PROVE  NotedOf(Append(p, x)) = IF x.record >= 0 THEN Append(NotedOf(p), x.offset) ELSE NotedOf(p)
<1>. DEFINE n == Len(p)
            q == Append(p, x)
            at(z) == [k \in DOMAIN z |-> z[k].offset]
            of(z) == [k \in DOMAIN z |-> z[k].record >= 0]
<1>1. n \in Nat /\ q \in Seq(Noting) /\ Len(q) = n + 1 /\ q[n + 1] = x /\ \A k \in 1 .. n : q[k] = p[k]
  OBVIOUS
<1>2. DOMAIN p = 1 .. n /\ DOMAIN q = 1 .. (n + 1)
  BY <1>1
<1>3. \A z \in Seq(Noting) : Len(at(z)) = Len(z)
  <2>. SUFFICES ASSUME NEW z \in Seq(Noting) PROVE Len(at(z)) = Len(z)
    OBVIOUS
  <2>1. at(z) = [k \in 1 .. Len(z) |-> z[k].offset] /\ Len(z) \in Nat
    OBVIOUS
  <2>. HIDE DEF at
  <2>. QED  BY <2>1
<1>4. NotedOf(q) = PickedTo(at(q), of(q), n + 1) /\ NotedOf(p) = PickedTo(at(p), of(p), n)
  BY <1>1, <1>3 DEF NotedOf, Picked
<1>. HIDE DEF q
<1>5. \A k \in 1 .. n : at(p)[k] = at(q)[k] /\ of(p)[k] = of(q)[k]
  <2>. SUFFICES ASSUME NEW k \in 1 .. n PROVE at(p)[k] = at(q)[k] /\ of(p)[k] = of(q)[k]
    OBVIOUS
  <2>1. k \in DOMAIN p /\ k \in DOMAIN q /\ p[k] = q[k]
    BY <1>1, <1>2
  <2>. QED  BY <2>1
<1>6. at(q)[n + 1] = x.offset /\ (of(q)[n + 1] <=> x.record >= 0)
  <2>1. n + 1 \in DOMAIN q
    BY <1>1, <1>2
  <2>. HIDE DEF n
  <2>. QED  BY <1>1, <2>1
<1>. HIDE DEF at, of, n
<1>7. PickedTo(at(p), of(p), n) = PickedTo(at(q), of(q), n)
  BY <1>1, <1>5, PickedSame
<1>8. PickedTo(at(q), of(q), n + 1) =
        IF of(q)[n + 1] THEN Append(PickedTo(at(q), of(q), n), at(q)[n + 1]) ELSE PickedTo(at(q), of(q), n)
  BY <1>1, PickedStep
<1>. QED  BY <1>4, <1>6, <1>7, <1>8 DEF q

LEMMA NotedConcat ==
    ASSUME NEW p \in Seq(Noting), NEW r \in Seq({x \in Noting : x.record = -1})
    PROVE  NotedOf(p \o r) = NotedOf(p) /\ p \o r \in Seq(Noting)
<1>. DEFINE n == Len(p)
            m == n + Len(r)
            q == p \o r
            at(z) == [k \in DOMAIN z |-> z[k].offset]
            of(z) == [k \in DOMAIN z |-> z[k].record >= 0]
<1>1. \A k \in 1 .. Len(r) : r[k] \in Noting /\ r[k].record = -1
  OBVIOUS
<1>2. r \in Seq(Noting)
  <2>1. Len(r) \in Nat /\ r = [k \in 1 .. Len(r) |-> r[k]]
    OBVIOUS
  <2>. QED  BY <1>1, <2>1
<1>3. /\ n \in Nat /\ m \in Nat /\ n <= m /\ q \in Seq(Noting) /\ Len(q) = m
      /\ \A k \in 1 .. n : q[k] = p[k]
      /\ \A k \in (n + 1) .. m : q[k] = r[k - n] /\ k - n \in 1 .. Len(r)
  BY <1>2
<1>4. DOMAIN p = 1 .. n /\ DOMAIN q = 1 .. m
  BY <1>3
<1>5. \A z \in Seq(Noting) : Len(at(z)) = Len(z)
  <2>. SUFFICES ASSUME NEW z \in Seq(Noting) PROVE Len(at(z)) = Len(z)
    OBVIOUS
  <2>1. at(z) = [k \in 1 .. Len(z) |-> z[k].offset] /\ Len(z) \in Nat
    OBVIOUS
  <2>. HIDE DEF at
  <2>. QED  BY <2>1
<1>6. NotedOf(q) = PickedTo(at(q), of(q), m) /\ NotedOf(p) = PickedTo(at(p), of(p), n)
  BY <1>3, <1>5 DEF NotedOf, Picked
<1>. HIDE DEF q
<1>7. \A k \in 1 .. n : at(p)[k] = at(q)[k] /\ of(p)[k] = of(q)[k]
  BY <1>3, <1>4
<1>8. \A k \in (n + 1) .. m : ~of(q)[k]
  <2>. SUFFICES ASSUME NEW k \in (n + 1) .. m PROVE ~of(q)[k]
    OBVIOUS
  <2>1. q[k].record = -1
    BY <1>1, <1>3
  <2>2. k \in DOMAIN q
    BY <1>3, <1>4
  <2>3. of(q)[k] <=> q[k].record >= 0
    BY <2>2
  <2>. HIDE DEF of
  <2>. QED  BY <2>1, <2>3
<1>. HIDE DEF at, of, n, m
<1>9. PickedTo(at(p), of(p), n) = PickedTo(at(q), of(q), n)
  BY <1>3, <1>7, PickedSame
<1>10. PickedTo(at(q), of(q), m) = PickedTo(at(q), of(q), n)
  BY <1>3, <1>8, PickedRests
<1>. QED  BY <1>3, <1>6, <1>9, <1>10 DEF q

\* The problems of gaps belong to no record.
LEMMA GapsAreNotNoted ==
    ASSUME Counters
    PROVE  GapProblems \in Seq({x \in Noting : x.record = -1})
<1>. DEFINE s == [k \in DOMAIN chunks |-> Problem(chunks[k].start, -1)]
            picks == [k \in DOMAIN chunks |-> ~GapIsValid(k)]
            T == {x \in Noting : x.record = -1}
<1>1. DOMAIN chunks = 1 .. Len(chunks) /\ Len(chunks) \in Nat /\ \A k \in DOMAIN chunks : chunks[k] \in Chunk
  BY DEF Counters
<1>2. s \in Seq(T)
  <2>1. \A k \in 1 .. Len(chunks) : Problem(chunks[k].start, -1) \in T
    BY <1>1 DEF Problem, Noting, Chunk
  <2>2. s = [k \in 1 .. Len(chunks) |-> Problem(chunks[k].start, -1)]
    BY <1>1
  <2>. HIDE DEF s, T
  <2>. QED  BY <1>1, <2>1, <2>2
<1>3. GapProblems = Picked(s, picks)
  BY DEF GapProblems
<1>. HIDE DEF s, picks, T
<1>4. GapProblems \in Seq(T)
  BY <1>2, <1>3, PickedIs
<1>. QED  BY <1>4 DEF T

\* A healthy record is decoded into the next slot.
LEMMA KeepSlots ==
    ASSUME Inner \in Seq(Token), capacity \in Nat, NEW m, NEW w, NEW d, NEW p,
           Slots(m, w, d, p), m < Len(Whole), w < capacity, Healthy(Whole[m + 1])
    PROVE  Slots(m + 1, w + 1, [d EXCEPT ![w] = Into(@, Whole[m + 1].start)], p)
<1>. DEFINE x == Whole[m + 1]
            o == x.start
            y == Into(d[w], o)
            e == [d EXCEPT ![w] = y]
            K == KeptTo(m)
            L == KeptTo(m + 1)
<1>0. /\ m \in 0 .. (Len(Whole) - 1) /\ m \in 0 .. Len(Whole) /\ m + 1 \in 0 .. Len(Whole)
      /\ m \in Nat /\ Len(Whole) \in Nat
  BY WholeRises DEF Slots
<1>1. /\ o \in Nat /\ x.end \in Nat /\ x \in Chunk /\ EndBefore(m) \in Nat
      /\ EndBefore(m) <= o /\ o < x.end /\ EndBefore(m + 1) = x.end
  BY <1>0, WholeRises
<1>2. L = Append(K, x) /\ DamagedTo(m + 1) = DamagedTo(m) /\ K \in Seq(Chunk)
  BY <1>0, KeptIs
<1>3. /\ w = Len(K) /\ d \in [0 .. (capacity - 1) -> Slot]
      /\ \A s \in 0 .. (w - 1) :
           /\ d[s].at = K[s + 1].start
           /\ \A h \in d[s].holds : h <= d[s].at /\ (s > 0 => h > d[s - 1].at)
      /\ w > 0 => d[w - 1].at < EndBefore(m)
      /\ \A h \in d[w].holds : h < EndBefore(m) /\ (w > 0 => h > d[w - 1].at)
      /\ \A s \in (w + 1) .. (capacity - 1) : d[s].holds = {}
      /\ NotedOf(p) = [k \in 1 .. Len(DamagedTo(m)) |-> DamagedTo(m)[k].start]
  BY DEF Slots
<1>. HIDE DEF x, K, L
<1>4. /\ w \in Nat /\ Len(L) = w + 1 /\ L[w + 1] = x
      /\ \A s \in 0 .. (w - 1) : L[s + 1] = K[s + 1]
  BY <1>1, <1>2, <1>3
<1>5. \A s \in 0 .. (capacity - 1) : d[s] \in Slot /\ d[s].at \in Int /\ d[s].holds \in SUBSET Int
  BY <1>3 DEF Slot
<1>6. w \in 0 .. (capacity - 1)
  BY <1>4
<1>. HIDE DEF o
<1>7. y \in Slot /\ y.at = o /\ \A h \in y.holds : h \in d[w].holds \/ h = o
  <2>1. y = [at |-> o, holds |-> {o}] \/ y = [at |-> o, holds |-> d[w].holds \cup {o}]
    BY DEF Into
  <2>. HIDE DEF y
  <2>2. {o} \in SUBSET Int /\ d[w].holds \cup {o} \in SUBSET Int
    BY <1>1, <1>5, <1>6
  <2>. QED  BY <1>1, <2>1, <2>2 DEF Slot
<1>. HIDE DEF y
<1>8. /\ e \in [0 .. (capacity - 1) -> Slot] /\ e[w] = y
      /\ \A s \in 0 .. (capacity - 1) : s # w => e[s] = d[s]
  BY <1>3, <1>6, <1>7
<1>. HIDE DEF e
<1>9. ASSUME NEW s \in 0 .. ((w + 1) - 1)
      PROVE  /\ e[s].at = L[s + 1].start
             /\ \A h \in e[s].holds : h <= e[s].at /\ (s > 0 => h > e[s - 1].at)
  <2>1. s \in 0 .. (capacity - 1) /\ (s > 0 => s - 1 \in 0 .. (capacity - 1) /\ s - 1 # w)
    BY <1>4, <1>6
  <2>2. CASE s = w
    <3>1. e[s].at = o /\ L[s + 1].start = o
      BY <1>4, <1>7, <1>8, <2>2 DEF o
    <3>2. ASSUME NEW h \in e[s].holds PROVE h <= e[s].at /\ (s > 0 => h > e[s - 1].at)
      <4>1. h \in d[w].holds \/ h = o
        BY <1>7, <1>8, <2>2, <3>2
      <4>2. h \in Int
        BY <1>1, <1>5, <1>6, <4>1
      <4>3. h <= o
        BY <1>1, <1>3, <4>1, <4>2
      <4>4. s > 0 => h > d[w - 1].at
        <5>. SUFFICES ASSUME s > 0 PROVE h > d[w - 1].at
          OBVIOUS
        <5>1. d[w - 1].at \in Int /\ d[w - 1].at < EndBefore(m)
          BY <1>3, <1>5, <2>1, <2>2
        <5>2. h \in d[w].holds => h > d[w - 1].at
          BY <1>3, <2>2
        <5>. QED  BY <1>1, <4>1, <5>1, <5>2
      <4>5. s > 0 => e[s - 1] = d[w - 1]
        BY <1>8, <2>1, <2>2
      <4>. QED  BY <3>1, <4>3, <4>4, <4>5
    <3>. QED  BY <3>1, <3>2
  <2>3. CASE s # w
    <3>1. s \in 0 .. (w - 1)
      BY <1>4, <2>3
    <3>2. e[s] = d[s] /\ (s > 0 => e[s - 1] = d[s - 1]) /\ L[s + 1] = K[s + 1]
      BY <1>4, <1>8, <2>1, <2>3, <3>1
    <3>. QED  BY <1>3, <3>1, <3>2
  <2>. QED  BY <2>2, <2>3
<1>10. e[(w + 1) - 1].at < EndBefore(m + 1)
  <2>1. (w + 1) - 1 = w
    BY <1>4
  <2>. QED  BY <1>1, <1>7, <1>8, <2>1
<1>11. w + 1 < capacity => \A h \in e[w + 1].holds : FALSE
  <2>. SUFFICES ASSUME w + 1 < capacity PROVE e[w + 1].holds = {}
    OBVIOUS
  <2>1. w + 1 \in 0 .. (capacity - 1) /\ w + 1 # w /\ w + 1 \in (w + 1) .. (capacity - 1)
    BY <1>4
  <2>. QED  BY <1>3, <1>8, <2>1
<1>12. \A s \in ((w + 1) + 1) .. (capacity - 1) : e[s].holds = {}
  <2>1. \A s \in ((w + 1) + 1) .. (capacity - 1) :
          s \in (w + 1) .. (capacity - 1) /\ s \in 0 .. (capacity - 1) /\ s # w
    BY <1>4
  <2>. QED  BY <1>3, <1>8, <2>1
<1>13. Slots(m + 1, w + 1, e, p)
  <2>1. NotedOf(p) = [k \in 1 .. Len(DamagedTo(m + 1)) |-> DamagedTo(m + 1)[k].start]
    BY <1>2, <1>3, Zenon
  <2>2. w + 1 = Len(KeptTo(m + 1)) /\ \A s \in 0 .. ((w + 1) - 1) : e[s].at = KeptTo(m + 1)[s + 1].start
    BY <1>4, <1>9 DEF L
  <2>. QED  BY <1>0, <1>8, <1>9, <1>10, <1>11, <1>12, <2>1, <2>2 DEF Slots
<1>. QED  BY <1>13 DEF e, y, o, x

\* A damaged one leaves its traces in that slot and is noted.
LEMMA DamageSlots ==
    ASSUME Inner \in Seq(Token), capacity \in Nat, NEW m, NEW w, NEW d, NEW p \in Seq(Noting),
           Slots(m, w, d, p), m < Len(Whole), w < capacity, ~Healthy(Whole[m + 1]), NEW r \in Nat
    PROVE  Slots(m + 1, w, [d EXCEPT ![w].holds = @ \cup {Whole[m + 1].start}],
                 Append(p, Problem(Whole[m + 1].start, r)))
<1>. DEFINE x == Whole[m + 1]
            o == x.start
            y == [d[w] EXCEPT !.holds = @ \cup {o}]
            e == [d EXCEPT ![w] = y]
            K == KeptTo(m)
            z == Problem(o, r)
<1>0. /\ m \in 0 .. (Len(Whole) - 1) /\ m \in 0 .. Len(Whole) /\ m + 1 \in 0 .. Len(Whole)
      /\ m \in Nat /\ Len(Whole) \in Nat
  BY WholeRises DEF Slots
<1>1. /\ o \in Nat /\ x.end \in Nat /\ x \in Chunk /\ EndBefore(m) \in Nat
      /\ EndBefore(m) <= o /\ o < x.end /\ EndBefore(m + 1) = x.end
  BY <1>0, WholeRises
<1>2. KeptTo(m + 1) = K /\ DamagedTo(m + 1) = Append(DamagedTo(m), x) /\ K \in Seq(Chunk)
      /\ DamagedTo(m) \in Seq(Chunk)
  BY <1>0, KeptIs
<1>3. /\ w = Len(K) /\ d \in [0 .. (capacity - 1) -> Slot]
      /\ \A s \in 0 .. (w - 1) :
           /\ d[s].at = K[s + 1].start
           /\ \A h \in d[s].holds : h <= d[s].at /\ (s > 0 => h > d[s - 1].at)
      /\ w > 0 => d[w - 1].at < EndBefore(m)
      /\ \A h \in d[w].holds : h < EndBefore(m) /\ (w > 0 => h > d[w - 1].at)
      /\ \A s \in (w + 1) .. (capacity - 1) : d[s].holds = {}
      /\ NotedOf(p) = [k \in 1 .. Len(DamagedTo(m)) |-> DamagedTo(m)[k].start]
  BY DEF Slots
<1>. HIDE DEF x, K
<1>4. w \in Nat /\ w \in 0 .. (capacity - 1)
  BY <1>2, <1>3
<1>5. \A s \in 0 .. (capacity - 1) : d[s] \in Slot /\ d[s].at \in Int /\ d[s].holds \in SUBSET Int
  BY <1>3 DEF Slot
<1>7. y \in Slot /\ y.at = d[w].at /\ y.holds = d[w].holds \cup {o}
  <2>. HIDE DEF o
  <2>1. d[w] \in Slot /\ d[w].holds \cup {o} \in SUBSET Int
    BY <1>1, <1>4, <1>5
  <2>. QED  BY <2>1 DEF Slot
<1>. HIDE DEF y
<1>8. /\ e \in [0 .. (capacity - 1) -> Slot] /\ e[w] = y
      /\ \A s \in 0 .. (capacity - 1) : s # w => e[s] = d[s]
  BY <1>3, <1>4, <1>7
<1>. HIDE DEF e
<1>9. \A s \in 0 .. (w - 1) : e[s] = d[s] /\ (s > 0 => e[s - 1] = d[s - 1])
  <2>1. \A s \in 0 .. (w - 1) : /\ s \in 0 .. (capacity - 1) /\ s # w
                                /\ s > 0 => s - 1 \in 0 .. (capacity - 1) /\ s - 1 # w
    BY <1>4
  <2>. QED  BY <1>8, <2>1
<1>10. w > 0 => e[w - 1].at < EndBefore(m + 1) /\ e[w - 1] = d[w - 1]
  <2>. SUFFICES ASSUME w > 0 PROVE e[w - 1].at < EndBefore(m + 1) /\ e[w - 1] = d[w - 1]
    OBVIOUS
  <2>1. w - 1 \in 0 .. (w - 1) /\ w - 1 \in 0 .. (capacity - 1) /\ w - 1 # w
    BY <1>4
  <2>2. e[w - 1] = d[w - 1] /\ d[w - 1].at \in Int
    BY <1>5, <1>8, <2>1
  <2>. QED  BY <1>1, <1>3, <2>2
<1>11. ASSUME NEW h \in e[w].holds PROVE h < EndBefore(m + 1) /\ (w > 0 => h > e[w - 1].at)
  <2>1. h \in d[w].holds \/ h = o
    BY <1>7, <1>8, <1>11
  <2>2. h \in Int
    BY <1>1, <1>4, <1>5, <2>1
  <2>3. h < EndBefore(m + 1)
    <3>. HIDE DEF o
    <3>. QED  BY <1>1, <1>3, <2>1, <2>2
  <2>4. w > 0 => h > d[w - 1].at
    <3>. SUFFICES ASSUME w > 0 PROVE h > d[w - 1].at
      OBVIOUS
    <3>1. w - 1 \in 0 .. (capacity - 1)
      BY <1>4
    <3>2. d[w - 1].at \in Int /\ d[w - 1].at < EndBefore(m)
      BY <1>3, <1>5, <3>1
    <3>3. h \in d[w].holds => h > d[w - 1].at
      BY <1>3
    <3>. HIDE DEF o
    <3>. QED  BY <1>1, <2>1, <3>2, <3>3
  <2>. QED  BY <1>10, <2>3, <2>4
<1>12. \A s \in (w + 1) .. (capacity - 1) : e[s].holds = {}
  <2>1. \A s \in (w + 1) .. (capacity - 1) : s \in 0 .. (capacity - 1) /\ s # w
    BY <1>4
  <2>. QED  BY <1>3, <1>8, <2>1
<1>13. NotedOf(Append(p, z)) = [k \in 1 .. Len(DamagedTo(m + 1)) |-> DamagedTo(m + 1)[k].start]
  <2>1. z \in Noting /\ z.record >= 0 /\ z.offset = o
    <3>. HIDE DEF o
    <3>. QED  BY <1>1 DEF Problem, Noting
  <2>. HIDE DEF z
  <2>2. NotedOf(Append(p, z)) = Append(NotedOf(p), o)
    BY <2>1, NotedAppend
  <2>. DEFINE D == DamagedTo(m)
              f == [k \in 1 .. Len(D) |-> D[k].start]
  <2>3. /\ Len(D) \in Nat /\ \A k \in 1 .. Len(D) : D[k] \in Chunk /\ D[k].start \in Nat
        /\ Append(D, x) \in Seq(Chunk) /\ Len(Append(D, x)) = Len(D) + 1
        /\ Append(D, x)[Len(D) + 1] = x /\ \A k \in 1 .. Len(D) : Append(D, x)[k] = D[k]
    <3>1. D \in Seq(Chunk) /\ x \in Chunk
      BY <1>1, <1>2
    <3>. HIDE DEF D, o
    <3>2. \A k \in 1 .. Len(D) : D[k] \in Chunk
      BY <3>1
    <3>3. \A k \in 1 .. Len(D) : D[k].start \in Nat
      BY <3>2 DEF Chunk
    <3>. QED  BY <3>1, <3>2, <3>3
  <2>. DEFINE E == Append(D, x)
              g == [k \in 1 .. Len(E) |-> E[k].start]
  <2>. HIDE DEF D, E
  <2>4. f \in Seq(Nat) /\ Len(f) = Len(D)
    BY <2>3
  <2>. DEFINE F == Append(f, o)
  <2>5. F \in Seq(Nat) /\ Len(F) = Len(D) + 1 /\ F[Len(D) + 1] = o /\ \A k \in 1 .. Len(D) : F[k] = f[k]
    <3>. HIDE DEF o, f
    <3>. QED  BY <1>1, <2>4
  <2>6. Len(E) = Len(D) + 1 /\ g \in [1 .. (Len(D) + 1) -> {E[k].start : k \in 1 .. (Len(D) + 1)}]
    BY <2>3 DEF E
  <2>7. ASSUME NEW k \in 1 .. (Len(D) + 1) PROVE F[k] = g[k]
    <3>1. g[k] = E[k].start
      BY <2>6
    <3>2. CASE k = Len(D) + 1
      <4>1. E[k] = x
        BY <2>3, <3>2 DEF E
      <4>2. F[k] = o
        BY <2>5, <3>2
      <4>. QED  BY <3>1, <4>1, <4>2
    <3>3. CASE k # Len(D) + 1
      <4>1. k \in 1 .. Len(D)
        BY <2>3, <3>3
      <4>2. E[k] = D[k] /\ F[k] = f[k] /\ f[k] = D[k].start
        BY <2>3, <2>5, <4>1 DEF E
      <4>. QED  BY <3>1, <4>2
    <3>. QED  BY <3>2, <3>3
  <2>8. F = g
    <3>1. F = [k \in 1 .. (Len(D) + 1) |-> F[k]]
      <4>. HIDE DEF F
      <4>. QED  BY <2>5
    <3>2. g = [k \in 1 .. (Len(D) + 1) |-> g[k]]
      BY <2>6
    <3>. HIDE DEF F, g
    <3>. QED  BY <2>7, <3>1, <3>2
  <2>9. NotedOf(p) = f /\ DamagedTo(m + 1) = E
    BY <1>2, <1>3 DEF D, E
  <2>. QED  BY <2>2, <2>8, <2>9
<1>14. Slots(m + 1, w, e, Append(p, z))
  <2>1. w = Len(KeptTo(m + 1)) /\ KeptTo(m + 1) = K
    BY <1>2, <1>3
  <2>2. \A s \in 0 .. (w - 1) :
          /\ e[s].at = KeptTo(m + 1)[s + 1].start
          /\ \A h \in e[s].holds : h <= e[s].at /\ (s > 0 => h > e[s - 1].at)
    BY <1>3, <1>9, <2>1
  <2>. HIDE DEF z, o
  <2>. QED  BY <1>0, <1>8, <1>10, <1>11, <1>12, <1>13, <2>1, <2>2 DEF Slots
<1>. QED  BY <1>14 DEF e, y, o, x, z

\* What HealthyKept says when a slice is returned.
Result(w, d, p) ==
    /\ w = Len(Kept) + (IF /\ ~ClosedAt(Inner, LastEnd) /\ Salvageable(LastEnd)
                           /\ Len(Kept) < capacity THEN 1 ELSE 0)
    /\ \A s \in 0 .. (w - 1) :
         /\ d[s].at = IF s < Len(Kept) THEN Kept[s + 1].start ELSE TailValue(LastEnd)
         /\ \A h \in d[s].holds : h <= d[s].at /\ (s > 0 => h > d[s - 1].at)
    /\ NotedOf(p) = [k \in DOMAIN Damaged |-> Damaged[k].start]

LEMMA AllSeen ==
    ASSUME Inner \in Seq(Token), NEW w, NEW d, NEW p, Slots(Len(Whole), w, d, p)
    PROVE  /\ w = Len(Kept) /\ w \in Nat /\ LastEnd = EndBefore(Len(Whole)) /\ LastEnd \in Nat
           /\ d \in [0 .. (capacity - 1) -> Slot]
           /\ \A s \in 0 .. (w - 1) :
                /\ d[s].at = Kept[s + 1].start
                /\ \A h \in d[s].holds : h <= d[s].at /\ (s > 0 => h > d[s - 1].at)
           /\ w > 0 => d[w - 1].at < LastEnd
           /\ w < capacity => \A h \in d[w].holds : h < LastEnd /\ (w > 0 => h > d[w - 1].at)
           /\ NotedOf(p) = [k \in DOMAIN Damaged |-> Damaged[k].start]
<1>1. /\ KeptTo(Len(Whole)) = Kept /\ DamagedTo(Len(Whole)) = Damaged
      /\ Kept \in Seq(Chunk) /\ Damaged \in Seq(Chunk)
  <2>1. Len(Whole) \in 0 .. Len(Whole)
    BY WholeRises
  <2>. QED  BY <2>1, KeptIs
<1>2. LastEnd = EndBefore(Len(Whole)) /\ LastEnd \in Nat
  <2>1. Whole \in Seq(Chunk) /\ Len(Whole) \in 0 .. Len(Whole)
    BY WholeRises
  <2>2. Whole = <<>> <=> Len(Whole) = 0
    BY <2>1
  <2>3. LastEnd = EndBefore(Len(Whole))
    BY <2>2 DEF LastEnd, EndBefore
  <2>. QED  BY <2>1, <2>3, WholeRises
<1>3. DOMAIN Damaged = 1 .. Len(Damaged)
  BY <1>1
<1>. QED  BY <1>1, <1>2, <1>3 DEF Slots

\* The end of an array.
LEMMA ClosedResult ==
    ASSUME Inner \in Seq(Token), NEW w, NEW d, NEW p, Slots(Len(Whole), w, d, p),
           ClosedAt(Inner, LastEnd)
    PROVE  Result(w, d, p)
<1>1. /\ w = Len(Kept) /\ w \in Nat
      /\ \A s \in 0 .. (w - 1) :
           /\ d[s].at = Kept[s + 1].start
           /\ \A h \in d[s].holds : h <= d[s].at /\ (s > 0 => h > d[s - 1].at)
      /\ NotedOf(p) = [k \in DOMAIN Damaged |-> Damaged[k].start]
  BY AllSeen
<1>2. w = Len(Kept) + 0
  BY <1>1
<1>3. \A s \in 0 .. (w - 1) : s < Len(Kept)
  BY <1>1
<1>. QED  BY <1>1, <1>2, <1>3 DEF Result

\* The end of the input, with a last record or without.
LEMMA SalvageResult ==
    ASSUME Inner \in Seq(Token), capacity \in Nat, NEW w, NEW d, NEW p \in Seq(Noting),
           Slots(Len(Whole), w, d, p), ~ClosedAt(Inner, LastEnd), NEW v, NEW e,
           IF w < capacity /\ Salvageable(LastEnd)
           THEN e = [d EXCEPT ![w] = Into(@, TailValue(LastEnd))] /\ v = w + 1
           ELSE e = d /\ v = w
    PROVE  Result(v, e, Append(p, Problem(LastEnd, -1)))
<1>. DEFINE o == TailValue(LastEnd)
            q == Append(p, Problem(LastEnd, -1))
<1>1. /\ w = Len(Kept) /\ w \in Nat /\ LastEnd \in Nat
      /\ d \in [0 .. (capacity - 1) -> Slot]
      /\ \A s \in 0 .. (w - 1) :
           /\ d[s].at = Kept[s + 1].start
           /\ \A h \in d[s].holds : h <= d[s].at /\ (s > 0 => h > d[s - 1].at)
      /\ w > 0 => d[w - 1].at < LastEnd
      /\ w < capacity => \A h \in d[w].holds : h < LastEnd /\ (w > 0 => h > d[w - 1].at)
      /\ NotedOf(p) = [k \in DOMAIN Damaged |-> Damaged[k].start]
  BY AllSeen
<1>2. NotedOf(q) = [k \in DOMAIN Damaged |-> Damaged[k].start]
  <2>1. Problem(LastEnd, -1) \in Noting /\ ~(Problem(LastEnd, -1).record >= 0)
    BY <1>1 DEF Problem, Noting
  <2>. DEFINE z == Problem(LastEnd, -1)
  <2>. HIDE DEF z
  <2>2. z \in Noting /\ ~(z.record >= 0)
    BY <2>1 DEF z
  <2>3. NotedOf(Append(p, z)) = NotedOf(p)
    BY <2>2, NotedAppend
  <2>. QED  BY <1>1, <2>3 DEF z
<1>3. o \in Nat /\ LastEnd <= o
  BY <1>1 DEF TailValue
<1>. HIDE DEF o, q
<1>4. CASE ~(w < capacity /\ Salvageable(LastEnd))
  <2>1. e = d /\ v = w
    BY <1>4
  <2>2. w = Len(Kept) + 0
    BY <1>1
  <2>3. \A s \in 0 .. (w - 1) : s < Len(Kept)
    BY <1>1
  <2>4. Result(v, e, q)
    BY <1>1, <1>2, <1>4, <2>1, <2>2, <2>3 DEF Result
  <2>. QED  BY <2>4 DEF q
<1>5. CASE w < capacity /\ Salvageable(LastEnd)
  <2>. DEFINE y == Into(d[w], o)
  <2>1. e = [d EXCEPT ![w] = y] /\ v = w + 1
    BY <1>5 DEF o
  <2>2. w \in 0 .. (capacity - 1)
    BY <1>1, <1>5
  <2>3. \A s \in 0 .. (capacity - 1) : d[s] \in Slot /\ d[s].at \in Int /\ d[s].holds \in SUBSET Int
    BY <1>1 DEF Slot
  <2>4. y.at = o /\ \A h \in y.holds : h \in d[w].holds \/ h = o
    BY DEF Into
  <2>. HIDE DEF y
  <2>5. e[w] = y /\ \A s \in 0 .. (capacity - 1) : s # w => e[s] = d[s]
    BY <1>1, <2>1, <2>2
  <2>6. ASSUME NEW s \in 0 .. (v - 1)
        PROVE  /\ e[s].at = IF s < Len(Kept) THEN Kept[s + 1].start ELSE o
               /\ \A h \in e[s].holds : h <= e[s].at /\ (s > 0 => h > e[s - 1].at)
    <3>1. s \in 0 .. (capacity - 1) /\ (s > 0 => s - 1 \in 0 .. (capacity - 1) /\ s - 1 # w)
      BY <1>1, <2>1, <2>2
    <3>2. CASE s = w
      <4>1. e[s].at = o /\ ~(s < Len(Kept))
        BY <1>1, <2>4, <2>5, <3>2
      <4>2. ASSUME NEW h \in e[s].holds PROVE h <= o /\ (s > 0 => h > d[w - 1].at)
        <5>1. h \in d[w].holds \/ h = o
          BY <2>4, <2>5, <3>2, <4>2
        <5>2. h \in Int
          BY <1>3, <2>2, <2>3, <5>1
        <5>3. s > 0 => d[w - 1].at \in Int
          BY <2>3, <3>1, <3>2
        <5>4. h \in d[w].holds => h < LastEnd /\ (w > 0 => h > d[w - 1].at)
          BY <1>1, <1>5
        <5>5. s = w /\ LastEnd \in Nat /\ (s > 0 => d[w - 1].at < LastEnd)
          BY <1>1, <3>2
        <5>. DEFINE a == d[w - 1].at
        <5>6. s > 0 => a \in Int /\ a < LastEnd
          BY <5>3, <5>5
        <5>7. h \in d[w].holds => h < LastEnd /\ (s > 0 => h > a)
          BY <5>4, <5>5
        <5>. HIDE DEF a
        <5>8. CASE h = o
          BY <1>3, <5>5, <5>6, <5>8 DEF a
        <5>9. CASE h \in d[w].holds
          BY <1>3, <5>2, <5>5, <5>7, <5>9 DEF a
        <5>. QED  BY <5>1, <5>8, <5>9
      <4>3. s > 0 => e[s - 1] = d[w - 1]
        BY <2>5, <3>1, <3>2
      <4>. QED  BY <4>1, <4>2, <4>3
    <3>3. CASE s # w
      <4>1. s \in 0 .. (w - 1) /\ s < Len(Kept)
        BY <1>1, <2>1, <3>3
      <4>2. e[s] = d[s] /\ (s > 0 => e[s - 1] = d[s - 1])
        BY <2>5, <3>1, <3>3
      <4>. QED  BY <1>1, <4>1, <4>2
    <3>. QED  BY <3>2, <3>3
  <2>7. v = Len(Kept) + 1
    BY <1>1, <2>1
  <2>8. Result(v, e, q)
    BY <1>1, <1>2, <1>5, <2>6, <2>7 DEF Result, o
  <2>. QED  BY <2>8 DEF q
<1>. QED  BY <1>4, <1>5

\* The records so far are kept or noted, and the next window starts at the next one.
Faithful ==
    /\ pc = "enter" => dst = [s \in 0 .. (capacity - 1) |-> Zero]
    /\ Running /\ mode = "tolerant" /\ ~CommaRun =>
         /\ pc \in {"window", "gaps"} =>
              \E m \in 0 .. Len(Whole) : /\ Between(Inner, m, scanOffset) /\ prevEndAbs = EndBefore(m)
                                         /\ Slots(m, written, dst, problems)
         /\ pc = "records" =>
              \E b \in 0 .. Len(Whole) : /\ Between(Inner, b, scanOffset)
                                         /\ Slots((b + next) - 1, written, dst, problems)
         /\ pc = "tail" => Slots(Len(Whole), written, dst, problems) /\ prevEndAbs = LastEnd
         /\ pc = "done" => HealthyKept

LEMMA InitFaithful == Init => Faithful
BY DEF Init, Faithful, Running, Scanned

\* All this depends on the input alone.
LEMMA SameInput ==
    ASSUME raw' = raw, capacity' = capacity
    PROVE  /\ Inner' = Inner /\ Whole' = Whole /\ LastEnd' = LastEnd
           /\ CommaRun' = CommaRun
           /\ \A m : EndBefore(m)' = EndBefore(m) /\ KeptTo(m)' = KeptTo(m) /\ DamagedTo(m)' = DamagedTo(m)
           /\ Kept' = Kept /\ Damaged' = Damaged
           /\ Salvageable(LastEnd)' = Salvageable(LastEnd) /\ TailValue(LastEnd)' = TailValue(LastEnd)
<1>1. Inner' = Inner
  BY DEF Inner
<1>2. Whole' = Whole
  BY <1>1 DEF Whole
<1>3. LastEnd' = LastEnd
  BY <1>2 DEF LastEnd
<1>4. CommaRun' = CommaRun
  BY <1>1 DEF CommaRun
<1>5. \A c : Healthy(c)' = Healthy(c)
  BY <1>1 DEF Healthy
<1>6. \A m : EndBefore(m)' = EndBefore(m)
  BY <1>2 DEF EndBefore
<1>7. \A m : KeptTo(m)' = KeptTo(m) /\ DamagedTo(m)' = DamagedTo(m)
  BY <1>1, <1>2 DEF KeptTo, DamagedTo, Healthy
<1>8. Kept' = Kept /\ Damaged' = Damaged
  BY <1>1, <1>2 DEF Kept, Damaged, Healthy
<1>9. Salvageable(LastEnd)' = Salvageable(LastEnd) /\ TailValue(LastEnd)' = TailValue(LastEnd)
  BY <1>1, <1>3 DEF Salvageable, TailValue
<1>. QED  BY <1>1, <1>2, <1>3, <1>4, <1>6, <1>7, <1>8, <1>9

LEMMA SlotsNext ==
    ASSUME raw' = raw, capacity' = capacity, NEW m, Slots(m, written', dst', problems')
    PROVE  Slots(m, written, dst, problems)'
<1>1. Whole' = Whole /\ EndBefore(m)' = EndBefore(m) /\ KeptTo(m)' = KeptTo(m)
      /\ DamagedTo(m)' = DamagedTo(m)
  BY SameInput
<1>2. NotedOf(problems') = NotedOf(problems)'
  BY DEF NotedOf
<1>. QED  BY <1>1, <1>2 DEF Slots

LEMMA ResultNext ==
    ASSUME raw' = raw, capacity' = capacity, Result(written', dst', problems'), ~failed'
    PROVE  HealthyKept'
<1>1. /\ LastEnd' = LastEnd /\ Kept' = Kept /\ Damaged' = Damaged /\ Inner' = Inner
      /\ Salvageable(LastEnd)' = Salvageable(LastEnd) /\ TailValue(LastEnd)' = TailValue(LastEnd)
  BY SameInput
<1>2. NotedAt' = NotedOf(problems')
  BY DEF NotedAt, NotedOf
<1>3. ClosedAt(Inner, LastEnd)' = ClosedAt(Inner, LastEnd)
  BY <1>1 DEF ClosedAt
<1>. QED  BY <1>1, <1>2, <1>3 DEF Result, HealthyKept

\* What a step of the tolerant function leaves.
Carried ==
    /\ pc' \in {"window", "gaps"} =>
         \E m \in 0 .. Len(Whole) : /\ Between(Inner, m, scanOffset') /\ prevEndAbs' = EndBefore(m)
                                    /\ Slots(m, written', dst', problems')
    /\ pc' = "records" =>
         \E b \in 0 .. Len(Whole) : /\ Between(Inner, b, scanOffset')
                                    /\ Slots((b + next') - 1, written', dst', problems')
    /\ pc' = "tail" => Slots(Len(Whole), written', dst', problems') /\ prevEndAbs' = LastEnd
    /\ pc' = "done" => HealthyKept'

LEMMA FaithfulNext ==
    ASSUME raw' = raw, capacity' = capacity, mode' = mode, pc' # "enter",
           mode = "tolerant" /\ ~CommaRun => Carried
    PROVE  Faithful'
<1>. SUFFICES ASSUME mode = "tolerant", ~CommaRun, Carried PROVE Faithful'
  BY SameInput DEF Faithful
<1>0. Inner' = Inner /\ Whole' = Whole /\ LastEnd' = LastEnd /\ \A m : EndBefore(m)' = EndBefore(m)
  BY SameInput
<1>1. ASSUME pc' \in {"window", "gaps"}
      PROVE  (\E m \in 0 .. Len(Whole) : /\ Between(Inner, m, scanOffset) /\ prevEndAbs = EndBefore(m)
                                         /\ Slots(m, written, dst, problems))'
  <2>1. PICK m \in 0 .. Len(Whole) : /\ Between(Inner, m, scanOffset') /\ prevEndAbs' = EndBefore(m)
                                     /\ Slots(m, written', dst', problems')
    BY <1>1 DEF Carried
  <2>2. Slots(m, written, dst, problems)'
    BY <2>1, SlotsNext
  <2>. QED  BY <1>0, <2>1, <2>2
<1>2. ASSUME pc' = "records"
      PROVE  (\E b \in 0 .. Len(Whole) : /\ Between(Inner, b, scanOffset)
                                         /\ Slots((b + next) - 1, written, dst, problems))'
  <2>1. PICK b \in 0 .. Len(Whole) : /\ Between(Inner, b, scanOffset')
                                     /\ Slots((b + next') - 1, written', dst', problems')
    BY <1>2 DEF Carried
  <2>. DEFINE n == (b + next') - 1
  <2>2. Slots((b + next) - 1, written, dst, problems)'
    <3>1. /\ Whole' = Whole /\ EndBefore((b + next) - 1)' = EndBefore(n)
          /\ KeptTo((b + next) - 1)' = KeptTo(n) /\ DamagedTo((b + next) - 1)' = DamagedTo(n)
      BY SameInput DEF EndBefore, KeptTo, DamagedTo, Healthy
    <3>2. NotedOf(problems') = NotedOf(problems)'
      BY DEF NotedOf
    <3>. QED  BY <2>1, <3>1, <3>2 DEF Slots
  <2>. QED  BY <1>0, <2>1, <2>2
<1>3. ASSUME pc' = "tail" PROVE Slots(Len(Whole), written, dst, problems)' /\ prevEndAbs' = LastEnd'
  <2>1. Slots(Len(Whole), written', dst', problems') /\ prevEndAbs' = LastEnd
    BY <1>3 DEF Carried
  <2>2. /\ EndBefore(Len(Whole))' = EndBefore(Len(Whole)) /\ KeptTo(Len(Whole))' = KeptTo(Len(Whole))
        /\ DamagedTo(Len(Whole))' = DamagedTo(Len(Whole))
    BY SameInput DEF EndBefore, KeptTo, DamagedTo, Healthy
  <2>3. NotedOf(problems') = NotedOf(problems)'
    BY DEF NotedOf
  <2>. QED  BY <1>0, <2>1, <2>2, <2>3 DEF Slots
<1>4. pc' = "done" => HealthyKept'
  BY DEF Carried
<1>. QED  BY <1>1, <1>2, <1>3, <1>4 DEF Faithful

LEMMA SlotsStart ==
    ASSUME Inner \in Seq(Token), capacity \in Nat
    PROVE  Slots(0, 0, [s \in 0 .. (capacity - 1) |-> Zero], <<>>)
<1>1. KeptTo(0) = <<>> /\ DamagedTo(0) = <<>> /\ Len(Whole) \in Nat
  BY KeptIs, WholeRises
<1>2. NotedOf(<<>>) = <<>>
  <2>. DEFINE a == [k \in DOMAIN <<>> |-> <<>>[k].offset]
              b == [k \in DOMAIN <<>> |-> <<>>[k].record >= 0]
  <2>1. Len(a) = 0
    OBVIOUS
  <2>2. NotedOf(<<>>) = PickedTo(a, b, 0)
    BY <2>1 DEF NotedOf, Picked
  <2>. HIDE DEF a, b
  <2>. QED  BY <2>2, PickedStep
<1>3. Zero \in Slot /\ Zero.holds = {}
  BY DEF Zero, Slot
<1>4. Len(<<>>) = 0 /\ [k \in 1 .. 0 |-> <<>>[k].start] = <<>>
  OBVIOUS
<1>. DEFINE d == [s \in 0 .. (capacity - 1) |-> Zero]
<1>5. d \in [0 .. (capacity - 1) -> Slot] /\ \A s \in 0 .. (capacity - 1) : d[s].holds = {}
  BY <1>3
<1>. HIDE DEF d
<1>6. 0 < capacity => d[0].holds = {}
  BY <1>5
<1>7. Slots(0, 0, d, <<>>)
  <2>1. \A s \in (0 + 1) .. (capacity - 1) : d[s].holds = {}
    BY <1>5
  <2>2. NotedOf(<<>>) = [k \in 1 .. Len(DamagedTo(0)) |-> DamagedTo(0)[k].start]
    BY <1>1, <1>2, <1>4
  <2>3. 0 \in 0 .. Len(Whole) /\ 0 = Len(KeptTo(0))
    BY <1>1, <1>4
  <2>4. \A s \in 0 .. (0 - 1) : FALSE
    OBVIOUS
  <2>. QED  BY <1>5, <1>6, <2>1, <2>2, <2>3, <2>4 DEF Slots
<1>. QED  BY <1>7 DEF d

LEMMA SlotsNoted ==
    ASSUME NEW m, NEW w, NEW d, NEW p, NEW q, Slots(m, w, d, p), NotedOf(q) = NotedOf(p)
    PROVE  Slots(m, w, d, q)
BY DEF Slots

\* Where the records of a window lie.
LEMMA WindowSlots ==
    ASSUME IInv, Modes, pc \in {"gaps", "records"}, chunks # <<>>,
           NEW b \in 0 .. Len(Whole), Between(Inner, b, scanOffset), Inner \in Seq(Token)
    PROVE  /\ b + Len(chunks) <= Len(Whole)
           /\ \A k \in 1 .. Len(chunks) : Whole[b + k] = chunks[k]
           /\ Advance > scanOffset /\ Between(Inner, b + Len(chunks), Advance)
<1>. DEFINE c == Split(Inner, scanOffset)
<1>1. /\ Batch \in Nat /\ scanOffset \in Nat
      /\ chunks = Filled(c) /\ stepAdvance = StepOf(c)
  BY SliceAssumption DEF Modes, IInv, Counters
<1>2. IsWindow(Inner, scanOffset, c)
  BY <1>1, SplitIs
<1>. HIDE DEF c
<1>3. /\ b + Len(chunks) <= Len(Whole)
      /\ \A k \in 1 .. Len(chunks) : Whole[b + k] = chunks[k]
      /\ c # <<>> /\ scanOffset < c[Len(c)].end
      /\ Between(Inner, b + Len(chunks), c[Len(c)].end)
  BY <1>1, <1>2, WindowBetween, WholeIsOf
<1>4. c[Len(c)].end \in Nat
  BY <1>3 DEF Between, Resumes
<1>5. Advance = c[Len(c)].end
  BY <1>1, <1>3, <1>4 DEF Advance, StepOf
<1>. QED  BY <1>3, <1>5

LEMMA SameVars ==
    ASSUME UNCHANGED vars, HealthyKept
    PROVE  HealthyKept'
<1>1. raw' = raw /\ capacity' = capacity /\ UNCHANGED <<mode, pc, written, problems, failed, dst>>
  BY DEF vars, argVars
<1>2. /\ LastEnd' = LastEnd /\ Kept' = Kept /\ Damaged' = Damaged /\ Inner' = Inner /\ Whole' = Whole
      /\ Salvageable(LastEnd)' = Salvageable(LastEnd) /\ TailValue(LastEnd)' = TailValue(LastEnd)
      /\ CommaRun' = CommaRun
  BY <1>1, SameInput
<1>3. NotedAt' = NotedAt /\ Scanned' = Scanned
  BY <1>1 DEF NotedAt, Scanned
<1>4. ClosedAt(Inner, LastEnd)' = ClosedAt(Inner, LastEnd)
  BY <1>2 DEF ClosedAt
<1>. QED  BY <1>1, <1>2, <1>3, <1>4 DEF HealthyKept

LEMMA NextFaithful == IInv /\ Modes /\ Faithful /\ [Next]_vars => Faithful'
<1>. SUFFICES ASSUME IInv, Modes, Faithful, [Next]_vars PROVE Faithful'
  OBVIOUS
<1>0. /\ Counters /\ mode \in {"strict", "tolerant"} /\ prevEndAbs \in Nat /\ problems \in Seq(Noting)
      /\ scanOffset \in Nat /\ written \in Nat /\ chunks \in Seq(Chunk) /\ next \in Nat \ {0}
      /\ capacity \in Nat /\ written <= capacity
      /\ Batch \in Nat \ {0, 1}
  BY SliceAssumption DEF Modes, IInv, Counters, Room
\* What is known where the tolerant function runs.
<1>2. ASSUME mode = "tolerant", ~CommaRun, pc \in {"window", "gaps", "records", "tail"}
      PROVE  /\ Inner \in Seq(Token) /\ ~failed
             /\ pc \in {"window", "gaps"} =>
                  \E m \in 0 .. Len(Whole) : /\ Between(Inner, m, scanOffset) /\ prevEndAbs = EndBefore(m)
                                             /\ Slots(m, written, dst, problems)
             /\ pc = "records" =>
                  \E b \in 0 .. Len(Whole) : /\ Between(Inner, b, scanOffset)
                                             /\ Slots((b + next) - 1, written, dst, problems)
             /\ pc = "tail" => Slots(Len(Whole), written, dst, problems) /\ prevEndAbs = LastEnd
  <2>1. raw # <<>>
    BY <1>0, <1>2 DEF Counters
  <2>2. Inner \in Seq(Token)
    BY <1>0, <2>1, InnerIs
  <2>3. ~failed
    BY <1>2 DEF Modes
  <2>4. Running
    BY <1>2 DEF Running
  <2>. QED  BY <1>2, <2>2, <2>3, <2>4 DEF Faithful
<1>3. ASSUME UNCHANGED raw, raw = <<>> \/ raw[1] # "lbracket", pc' = "done" PROVE Faithful'
  BY <1>3 DEF Faithful, Running, Scanned
<1>4. CASE ReturnNothing \/ Refuse
  <2>1. UNCHANGED raw /\ (raw = <<>> \/ raw[1] # "lbracket") /\ pc' = "done"
    BY <1>4 DEF ReturnNothing, Refuse, Fail, argVars
  <2>. QED  BY <1>3, <2>1
<1>5. CASE Panic
  <2>1. pc' = "panicked"
    BY <1>5 DEF Panic
  <2>. QED  BY <2>1 DEF Faithful, Running, Scanned
<1>6. CASE Begin
  <2>1. /\ pc = "enter" /\ pc' = "window" /\ raw # <<>>
        /\ UNCHANGED <<raw, capacity, mode, scanOffset, written, prevEndAbs, problems, dst>>
    BY <1>6 DEF Begin, argVars
  <2>2. /\ scanOffset = 0 /\ written = 0 /\ prevEndAbs = 0 /\ problems = <<>>
        /\ dst = [s \in 0 .. (capacity - 1) |-> Zero]
    BY <2>1 DEF Modes, Faithful
  <2>3. Inner \in Seq(Token)
    BY <1>0, <2>1, InnerIs
  <2>4. Slots(0, written', dst', problems')
    BY <1>0, <2>1, <2>2, <2>3, SlotsStart
  <2>5. 0 \in 0 .. Len(Whole) /\ EndBefore(0) = 0
    BY <2>3, WholeRises DEF EndBefore
  <2>6. Between(Inner, 0, 0)
    <3>1. WholeOf(Inner) = Whole /\ Whole \in Seq(Chunk)
      BY <2>3, WholeRises, WholeIsOf
    <3>2. \A i \in 1 .. Len(Whole) : Whole[i].start \in Nat
      <4>1. \A i \in 1 .. Len(Whole) : Whole[i] \in Chunk
        BY <3>1
      <4>. QED  BY <4>1 DEF Chunk
    <3>. QED  BY <2>5, <3>1, <3>2 DEF Between, Resumes
  <2>7. Carried
    BY <2>1, <2>2, <2>4, <2>5, <2>6 DEF Carried
  <2>. QED  BY <2>1, <2>7, FaithfulNext
<1>7. CASE ScanWindow
  <2>1. /\ pc = "window" /\ pc' = "gaps"
        /\ UNCHANGED <<raw, capacity, mode, scanOffset, written, prevEndAbs, problems, dst>>
    BY <1>7 DEF ScanWindow, argVars
  <2>2. ASSUME mode = "tolerant", ~CommaRun PROVE Carried
    BY <1>2, <2>1, <2>2 DEF Carried
  <2>. QED  BY <2>1, <2>2, FaithfulNext
<1>8. CASE WindowsOver
  <2>1. /\ pc = "window" /\ pc' = "tail" /\ scanOffset >= Len(Inner)
        /\ UNCHANGED <<raw, capacity, mode, scanOffset, written, prevEndAbs, problems, dst>>
    BY <1>8 DEF WindowsOver, argVars
  <2>2. ASSUME mode = "tolerant", ~CommaRun PROVE Carried
    <3>1. Inner \in Seq(Token)
      BY <1>2, <2>1, <2>2
    <3>2. PICK m \in 0 .. Len(Whole) : /\ Between(Inner, m, scanOffset) /\ prevEndAbs = EndBefore(m)
                                       /\ Slots(m, written, dst, problems)
      BY <1>2, <2>1, <2>2
    <3>3. Len(Inner) = 0
      <4>1. scanOffset = 0 \/ scanOffset < Len(Inner)
        BY <3>2 DEF Between, Resumes
      <4>2. Len(Inner) \in Nat
        BY <3>1
      <4>. QED  BY <1>0, <2>1, <4>1, <4>2
    <3>4. Len(Whole) = 0
      <4>1. Rising(Inner, Whole)
        BY <3>1, WholeScan, WholeIsOf
      <4>2. \A i \in 1 .. Len(Whole) : FALSE
        <5>1. \A i \in 1 .. Len(Whole) : Item(Inner, Whole[i])
          BY <4>1 DEF Rising
        <5>2. \A x : Item(Inner, x) => FALSE
          BY <3>3 DEF Item, Chunk
        <5>. QED  BY <5>1, <5>2
      <4>3. Len(Whole) \in Nat
        BY <4>1 DEF Rising
      <4>. QED  BY <4>2, <4>3
    <3>5. m = Len(Whole)
      BY <3>4
    <3>6. LastEnd = EndBefore(m)
      BY <3>1, <3>2, <3>5, AllSeen
    <3>. QED  BY <2>1, <3>2, <3>5, <3>6 DEF Carried
  <2>. QED  BY <2>1, <2>2, FaithfulNext
<1>9. CASE NothingFound
  <2>0. UNCHANGED <<raw, capacity, mode>> /\ pc' # "enter"
    BY <1>9 DEF NothingFound, Fail, argVars
  <2>1. ASSUME mode = "tolerant", ~CommaRun PROVE Carried
    <3>1. /\ pc = "gaps" /\ pc' = "tail" /\ chunks = <<>>
          /\ UNCHANGED <<raw, capacity, mode, written, prevEndAbs, problems, dst>>
      BY <1>9, <2>1 DEF NothingFound, argVars
    <3>2. Inner \in Seq(Token)
      BY <1>2, <2>1, <3>1
    <3>3. PICK m \in 0 .. Len(Whole) : /\ Between(Inner, m, scanOffset) /\ prevEndAbs = EndBefore(m)
                                       /\ Slots(m, written, dst, problems)
      BY <1>2, <2>1, <3>1
    <3>. DEFINE c == Split(Inner, scanOffset)
    <3>4. IsWindow(Inner, scanOffset, c) /\ Filled(c) = <<>>
      <4>1. IsWindow(Inner, scanOffset, c)
        BY <1>0, <3>2, SplitIs
      <4>2. Filled(c) = <<>>
        BY <3>1 DEF Modes
      <4>. QED  BY <4>1, <4>2
    <3>. HIDE DEF c
    <3>5. m = Len(Whole)
      <4>1. ~\E a \in 0 .. (Len(Inner) - Batch) : \A k \in 1 .. Batch : Inner[a + k] = "comma"
        BY <2>1 DEF CommaRun
      <4>. QED  BY <1>0, <3>2, <3>3, <3>4, <4>1, WindowEmpty, WholeIsOf
    <3>6. LastEnd = EndBefore(m)
      BY <3>2, <3>3, <3>5, AllSeen
    <3>. QED  BY <3>1, <3>3, <3>5, <3>6 DEF Carried
  <2>. QED  BY <2>0, <2>1, FaithfulNext
<1>10. CASE RejectGap \/ Unterminated
  <2>1. mode = "strict" /\ mode' = "strict" /\ pc' = "done"
    BY <1>10 DEF RejectGap, Unterminated, Fail, argVars
  <2>. QED  BY <2>1 DEF Faithful
<1>11. CASE EnterRecords
  <2>1. /\ pc = "gaps" /\ pc' = "records" /\ next = 1 /\ next' = 1
        /\ UNCHANGED <<raw, capacity, mode, scanOffset, written, dst>>
        /\ problems' = problems \o GapProblems
    BY <1>11 DEF EnterRecords, argVars, windowVars, IInv, Room
  <2>2. ASSUME mode = "tolerant", ~CommaRun PROVE Carried
    <3>1. PICK m \in 0 .. Len(Whole) : /\ Between(Inner, m, scanOffset) /\ prevEndAbs = EndBefore(m)
                                       /\ Slots(m, written, dst, problems)
      BY <1>2, <2>1, <2>2
    <3>2. NotedOf(problems') = NotedOf(problems)
      BY <1>0, <2>1, GapsAreNotNoted, NotedConcat
    <3>3. Slots(m, written, dst, problems')
      BY <3>1, <3>2, SlotsNoted
    <3>4. (m + next') - 1 = m
      BY <2>1
    <3>. QED  BY <2>1, <3>1, <3>3, <3>4 DEF Carried
  <2>. QED  BY <2>1, <2>2, FaithfulNext
<1>12. CASE Overfull
  <2>1. /\ pc = "gaps" /\ pc' = "done" /\ chunks # <<>> /\ ~(written + Len(chunks) <= capacity)
        /\ UNCHANGED <<raw, capacity, mode>> /\ failed' = TRUE
    BY <1>12 DEF Overfull, argVars, Fits
  <2>2. ASSUME mode = "tolerant", ~CommaRun PROVE Carried
    <3>1. Inner \in Seq(Token)
      BY <1>2, <2>1, <2>2
    <3>2. PICK m \in 0 .. Len(Whole) : /\ Between(Inner, m, scanOffset) /\ prevEndAbs = EndBefore(m)
                                       /\ Slots(m, written, dst, problems)
      BY <1>2, <2>1, <2>2
    <3>3. written <= m
      BY <3>1, <3>2, KeptIs DEF Slots
    <3>4. m + Len(chunks) <= Len(Whole)
      BY <2>1, <3>1, <3>2, WindowSlots
    <3>5. Len(Whole) > capacity
      <4>1. Len(Whole) \in Nat /\ Len(chunks) \in Nat
        BY <1>0, <3>1, WholeRises
      <4>. QED  BY <1>0, <2>1, <3>3, <3>4, <4>1
    <3>6. HealthyKept'
      <4>1. Whole' = Whole
        BY <2>1, SameInput
      <4>. QED  BY <2>1, <3>5, <4>1 DEF HealthyKept
    <3>. QED  BY <2>1, <3>6 DEF Carried
  <2>. QED  BY <2>1, <2>2, FaithfulNext
<1>13. ASSUME pc = "records", next <= Len(chunks), mode = "tolerant", ~CommaRun
       PROVE  \E b \in 0 .. Len(Whole) :
                LET m == (b + next) - 1
                IN  /\ Between(Inner, b, scanOffset) /\ Slots(m, written, dst, problems)
                    /\ m < Len(Whole) /\ Whole[m + 1] = chunks[next] /\ (b + (next + 1)) - 1 = m + 1
  <2>1. Inner \in Seq(Token)
    BY <1>2, <1>13
  <2>2. PICK b \in 0 .. Len(Whole) : /\ Between(Inner, b, scanOffset)
                                     /\ Slots((b + next) - 1, written, dst, problems)
    BY <1>2, <1>13
  <2>3. chunks # <<>>
    BY <1>13 DEF Modes
  <2>4. b + Len(chunks) <= Len(Whole) /\ Whole[b + next] = chunks[next]
    <3>1. next \in 1 .. Len(chunks)
      BY <1>0, <1>13
    <3>. QED  BY <1>13, <2>1, <2>2, <2>3, <3>1, WindowSlots
  <2>5. /\ ((b + next) - 1) + 1 = b + next /\ (b + next) - 1 < Len(Whole)
        /\ (b + (next + 1)) - 1 = ((b + next) - 1) + 1
    <3>1. Len(Whole) \in Nat /\ Len(chunks) \in Nat
      BY <1>0, <2>1, WholeRises
    <3>. QED  BY <1>0, <1>13, <2>4, <3>1
  <2>. QED  BY <2>2, <2>4, <2>5
<1>14. CASE DecodeRecord
  <2>1. /\ pc = "records" /\ pc' = "records" /\ next <= Len(chunks) /\ Healthy(chunks[next])
        /\ UNCHANGED <<raw, capacity, mode, scanOffset, problems>>
        /\ dst' = [dst EXCEPT ![written] = Into(@, chunks[next].start)]
        /\ written' = written + 1 /\ next' = next + 1
    BY <1>14 DEF DecodeRecord, argVars
  <2>2. ASSUME mode = "tolerant", ~CommaRun PROVE Carried
    <3>1. PICK b \in 0 .. Len(Whole) :
            LET m == (b + next) - 1
            IN  /\ Between(Inner, b, scanOffset) /\ Slots(m, written, dst, problems)
                /\ m < Len(Whole) /\ Whole[m + 1] = chunks[next] /\ (b + (next + 1)) - 1 = m + 1
      BY <1>13, <2>1, <2>2
    <3>. DEFINE m == (b + next) - 1
    <3>2. Inner \in Seq(Token) /\ written < capacity
      <4>1. Len(chunks) \in Nat
        BY <1>0
      <4>2. written + (Len(chunks) - next + 1) <= capacity
        BY <2>1 DEF IInv, Room
      <4>3. written < capacity
        BY <1>0, <2>1, <4>1, <4>2
      <4>. QED  BY <1>2, <2>1, <2>2, <4>3
    <3>3. /\ Slots(m, written, dst, problems) /\ m < Len(Whole) /\ Whole[m + 1] = chunks[next]
          /\ (b + next') - 1 = m + 1
      BY <2>1, <3>1
    <3>. HIDE DEF m
    <3>4. Slots(m + 1, written + 1, [dst EXCEPT ![written] = Into(@, Whole[m + 1].start)], problems)
      BY <1>0, <2>1, <3>2, <3>3, KeepSlots
    <3>5. Slots((b + next') - 1, written', dst', problems')
      BY <2>1, <3>3, <3>4
    <3>. QED  BY <2>1, <3>1, <3>5 DEF Carried
  <2>. QED  BY <2>1, <2>2, FaithfulNext
<1>15. CASE DamagedRecord
  <2>0. UNCHANGED <<raw, capacity, mode>> /\ pc' # "enter" /\ pc = "records"
    BY <1>15 DEF DamagedRecord, argVars
  <2>1. ASSUME mode = "tolerant", ~CommaRun PROVE Carried
    <3>1. /\ pc' = "records" /\ next <= Len(chunks) /\ ~Healthy(chunks[next])
          /\ UNCHANGED <<scanOffset, written>>
          /\ dst' = [dst EXCEPT ![written].holds = @ \cup {chunks[next].start}]
          /\ problems' = Noted(next) /\ next' = next + 1
      BY <1>15, <2>0, <2>1 DEF DamagedRecord
    <3>2. PICK b \in 0 .. Len(Whole) :
            LET m == (b + next) - 1
            IN  /\ Between(Inner, b, scanOffset) /\ Slots(m, written, dst, problems)
                /\ m < Len(Whole) /\ Whole[m + 1] = chunks[next] /\ (b + (next + 1)) - 1 = m + 1
      BY <1>13, <2>0, <2>1, <3>1
    <3>. DEFINE m == (b + next) - 1
    <3>3. Inner \in Seq(Token) /\ written < capacity
      <4>1. Len(chunks) \in Nat
        BY <1>0
      <4>2. written + (Len(chunks) - next + 1) <= capacity
        BY <2>0 DEF IInv, Room
      <4>3. written < capacity
        BY <1>0, <3>1, <4>1, <4>2
      <4>. QED  BY <1>2, <2>0, <2>1, <4>3
    <3>4. /\ Slots(m, written, dst, problems) /\ m < Len(Whole) /\ Whole[m + 1] = chunks[next]
          /\ (b + next') - 1 = m + 1
      BY <3>1, <3>2
    <3>. HIDE DEF m
    <3>. DEFINE r == written + next - 1
    <3>5. r \in Nat
      BY <1>0
    <3>6. problems' = Append(problems, Problem(Whole[m + 1].start, r))
      BY <3>1, <3>4 DEF Noted
    <3>. HIDE DEF r
    <3>7. Slots(m + 1, written, [dst EXCEPT ![written].holds = @ \cup {Whole[m + 1].start}],
                Append(problems, Problem(Whole[m + 1].start, r)))
      BY <1>0, <3>1, <3>3, <3>4, <3>5, DamageSlots
    <3>8. Slots((b + next') - 1, written', dst', problems')
      BY <3>1, <3>4, <3>6, <3>7
    <3>. QED  BY <3>1, <3>2, <3>8 DEF Carried
  <2>. QED  BY <2>0, <2>1, FaithfulNext
<1>16. CASE NextWindow
  <2>0. UNCHANGED <<raw, capacity, mode, written, problems, dst>> /\ pc' # "enter" /\ pc = "records"
        /\ next > Len(chunks) /\ prevEndAbs' = chunks[Len(chunks)].end
        /\ (Advance > scanOffset => scanOffset' = Advance /\ pc' = "window")
    BY <1>16 DEF NextWindow, argVars
  <2>1. ASSUME mode = "tolerant", ~CommaRun PROVE Carried
    <3>1. Inner \in Seq(Token)
      BY <1>2, <2>0, <2>1
    <3>2. PICK b \in 0 .. Len(Whole) : /\ Between(Inner, b, scanOffset)
                                       /\ Slots((b + next) - 1, written, dst, problems)
      BY <1>2, <2>0, <2>1
    <3>3. chunks # <<>> /\ next <= Len(chunks) + 1
      BY <2>0 DEF Modes, IInv, Room
    <3>. DEFINE m == b + Len(chunks)
    <3>4. Len(chunks) \in 1 .. Len(chunks) /\ (b + next) - 1 = m /\ m # 0 /\ m \in Nat
      BY <1>0, <2>0, <3>3
    <3>5. /\ m <= Len(Whole) /\ Whole[m] = chunks[Len(chunks)]
          /\ Advance > scanOffset /\ Between(Inner, m, Advance)
      BY <2>0, <3>1, <3>2, <3>3, <3>4, WindowSlots
    <3>6. m \in 0 .. Len(Whole) /\ prevEndAbs' = EndBefore(m)
      <4>1. Len(Whole) \in Nat
        BY <3>1, WholeRises
      <4>. QED  BY <2>0, <3>4, <3>5, <4>1 DEF EndBefore
    <3>7. Slots(m, written', dst', problems')
      BY <2>0, <3>2, <3>4
    <3>. HIDE DEF m
    <3>. QED  BY <2>0, <3>5, <3>6, <3>7 DEF Carried
  <2>. QED  BY <2>0, <2>1, FaithfulNext
<1>17. CASE Closed
  <2>1. /\ pc = "tail" /\ pc' = "done" /\ ClosedAt(Inner, prevEndAbs)
        /\ UNCHANGED <<raw, capacity, mode, written, problems, dst, failed>>
    BY <1>17 DEF Closed, argVars
  <2>2. ASSUME mode = "tolerant", ~CommaRun PROVE Carried
    <3>1. /\ Inner \in Seq(Token) /\ ~failed
          /\ Slots(Len(Whole), written, dst, problems) /\ prevEndAbs = LastEnd
      BY <1>2, <2>1, <2>2
    <3>2. Result(written', dst', problems')
      BY <2>1, <3>1, ClosedResult
    <3>3. HealthyKept'
      BY <2>1, <3>1, <3>2, ResultNext
    <3>. QED  BY <2>1, <3>3 DEF Carried
  <2>. QED  BY <2>1, <2>2, FaithfulNext
<1>18. CASE Salvage
  <2>1. /\ pc = "tail" /\ pc' = "done" /\ ~ClosedAt(Inner, prevEndAbs)
        /\ UNCHANGED <<raw, capacity, mode, failed>>
        /\ IF written < capacity /\ Salvageable(prevEndAbs)
           THEN dst' = [dst EXCEPT ![written] = Into(@, TailValue(prevEndAbs))] /\ written' = written + 1
           ELSE dst' = dst /\ written' = written
        /\ problems' = Append(problems, Problem(prevEndAbs, -1))
    BY <1>18 DEF Salvage, argVars
  <2>2. ASSUME mode = "tolerant", ~CommaRun PROVE Carried
    <3>1. /\ Inner \in Seq(Token) /\ ~failed
          /\ Slots(Len(Whole), written, dst, problems) /\ prevEndAbs = LastEnd
      BY <1>2, <2>1, <2>2
    <3>2. IF written < capacity /\ Salvageable(LastEnd)
          THEN dst' = [dst EXCEPT ![written] = Into(@, TailValue(LastEnd))] /\ written' = written + 1
          ELSE dst' = dst /\ written' = written
      BY <2>1, <3>1
    <3>3. Result(written', dst', Append(problems, Problem(LastEnd, -1)))
      BY <1>0, <2>1, <3>1, <3>2, SalvageResult
    <3>4. HealthyKept'
      BY <2>1, <3>1, <3>3, ResultNext
    <3>. QED  BY <2>1, <3>4 DEF Carried
  <2>. QED  BY <2>1, <2>2, FaithfulNext
<1>19. CASE UNCHANGED vars
  <2>1. UNCHANGED <<raw, capacity, mode, pc, scanOffset, written, prevEndAbs, next, problems, dst>>
    BY <1>19 DEF vars, argVars, windowVars
  <2>2. CASE pc = "enter"
    BY <2>1, <2>2 DEF Faithful, Running, Scanned
  <2>3. CASE pc # "enter"
    <3>1. ASSUME mode = "tolerant", ~CommaRun PROVE Carried
      <4>1. CASE pc = "done"
        <5>1. HealthyKept
          BY <3>1, <4>1 DEF Faithful, Running, HealthyKept
        <5>. QED  BY <1>19, <2>1, <4>1, <5>1, SameVars DEF Carried
      <4>2. CASE pc \in {"window", "gaps", "records", "tail"}
        BY <1>2, <2>1, <3>1, <4>2 DEF Carried
      <4>3. CASE pc \notin {"window", "gaps", "records", "tail", "done"}
        BY <2>1, <4>3 DEF Carried
      <4>. QED  BY <4>1, <4>2, <4>3
    <3>. QED  BY <2>1, <2>3, <3>1, FaithfulNext
  <2>. QED  BY <2>2, <2>3
<1>. QED  BY <1>4, <1>5, <1>6, <1>7, <1>8, <1>9, <1>10, <1>11, <1>12, <1>14, <1>15, <1>16, <1>17,
             <1>18, <1>19 DEF Next

\* However many windows an array takes and whatever of it is damaged, the tolerant
\* function returns all healthy records, in order, nothing else, and notes each
\* damaged one once (tolerant.go:5-8, parallel.go:222-338).
THEOREM HealthyKeptHolds == Spec => []HealthyKept
<1>1. Init => IInv /\ Modes /\ Faithful
  BY InitIInv, InitModes, InitFaithful
<1>2. IInv /\ Modes /\ Faithful /\ [Next]_vars => (IInv /\ Modes /\ Faithful)'
  BY NextIInv, NextModes, NextFaithful
<1>3. Faithful => HealthyKept
  BY DEF Faithful, HealthyKept, Running, Scanned
<1>. QED  BY <1>1, <1>2, <1>3, PTL DEF Spec
=============================================================================
