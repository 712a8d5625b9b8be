----------------------- MODULE StreamDecoder_proofs ------------------------
(***************************************************************************)
(* Theorems about StreamDecoder for every set of inputs, every capacity    *)
(* and every way the reader cuts the input.                                *)
(***************************************************************************)
EXTENDS StreamDecoder, TLAPS, FiniteSetTheorems, FunctionTheorems, WellFoundedInduction

\* An input is a sequence.
LEMMA InputIsSeq ==
    ASSUME NEW in \in Inputs
    PROVE  Len(in) \in Nat
BY StreamAssumption

-----------------------------------------------------------------------------
\* A read keeps the buffer well formed and its bytes those of the input.
LEMMA FillKeeps ==
    ASSUME TypeOK, BufferWindow,
           NEW n \in 0 .. Room, NEW err \in {"nil", "EOF", "fail"},
           Fill(n, err)
    PROVE  /\ rpos' \in 0 .. Len(input) /\ hiccups' \in 0 .. MaxHiccups
           /\ cap' \in Nat \ {0} /\ tail' \in 0 .. cap' /\ head' \in 0 .. tail'
           /\ tail' <= rpos' /\ isEOF' \in BOOLEAN
           /\ DOMAIN buf' = 0 .. (tail' - 1)
           /\ BufferWindow'
<1>. USE StreamAssumption DEF TypeOK
<1>1. Len(input) \in Nat
  BY InputIsSeq
<1>2. /\ Room \in Nat /\ n \in Nat /\ n <= Room
      /\ cap <= tail - head + Room
  BY DEF Room
<1>3. /\ rpos' = rpos + n /\ tail' = tail - head + n /\ head' = 0
      /\ cap' = tail - head + Room
      /\ rpos + n <= Len(input) /\ input' = input
      /\ buf' = [i \in 0 .. (tail - head + n - 1) |->
                   IF i < tail - head THEN buf[head + i]
                   ELSE input[rpos + i - (tail - head) + 1]]
  BY DEF Fill
<1>4. hiccups' \in 0 .. MaxHiccups
  BY DEF Fill
<1>5. isEOF' \in BOOLEAN
  BY DEF Fill
<1>6. BufferWindow'
  <2> SUFFICES ASSUME NEW i \in 0 .. (tail' - 1)
               PROVE  buf'[i] = input[rpos' - tail' + i + 1]
    BY <1>3 DEF BufferWindow, Abs
  <2>1. CASE i < tail - head
    <3>1. head + i \in 0 .. (tail - 1)
      BY <2>1, <1>3, SMTT(30)
    <3>2. buf[head + i] = input[rpos - tail + (head + i) + 1]
      BY <3>1 DEF BufferWindow, Abs
    <3>3. rpos - tail + (head + i) + 1 = rpos' - tail' + i + 1
      BY <1>2, <1>3
    <3>. QED  BY <2>1, <3>2, <3>3, <1>3
  <2>2. CASE ~(i < tail - head)
    <3>1. buf'[i] = input[rpos + i - (tail - head) + 1]
      BY <2>2, <1>3
    <3>2. rpos + i - (tail - head) + 1 = rpos' - tail' + i + 1
      BY <1>2, <1>3
    <3>. QED  BY <3>1, <3>2
  <2>. QED  BY <2>1, <2>2
<1>. QED  BY <1>1, <1>2, <1>3, <1>4, <1>5, <1>6

-----------------------------------------------------------------------------
\* What a step must respect when it does not read: it moves head forward inside
\* the live prefix and keeps the other types.
Kept ==
    /\ head' \in 0 .. tail
    /\ hasStarted' \in BOOLEAN /\ hasEnded' \in BOOLEAN
    /\ deliveredFirst' \in BOOLEAN /\ afterComma' \in BOOLEAN
    /\ tailTruncated' \in BOOLEAN
    /\ pc' \in {"idle", "enter", "top", "scan"} /\ api' = api
    /\ sepReports' \in Nat /\ truncReports' \in Nat

LEMMA InsideWindow ==
    ASSUME TypeOK, NEW h \in head .. tail
    PROVE  h \in 0 .. tail /\ (h < tail => h + 1 \in 0 .. tail)
BY DEF TypeOK

LEMMA KeptIsEnough ==
    ASSUME TypeOK, BufferWindow, UNCHANGED readVars, Kept, pc # "idle"
    PROVE  TypeOK' /\ BufferWindow'
BY DEF TypeOK, BufferWindow, Abs, readVars, Kept

LEMMA TruncatedNowKeeps ==
    ASSUME TypeOK, NEW bytes, TruncatedNow(bytes)
    PROVE  /\ hasStarted' \in BOOLEAN /\ hasEnded' \in BOOLEAN
           /\ deliveredFirst' \in BOOLEAN /\ afterComma' \in BOOLEAN
           /\ tailTruncated' \in BOOLEAN
           /\ pc' = "idle" /\ api' = api
           /\ sepReports' \in Nat /\ truncReports' \in Nat
BY DEF TypeOK, TruncatedNow, Return

LEMMA HandOutKeeps ==
    ASSUME NEW e, HandOut(e)
    PROVE  pc' \in {"idle", "enter", "top", "scan"} /\ api' = api
BY DEF HandOut, Return

LEMMA ReadMoreKeeps ==
    ASSUME TypeOK, BufferWindow, ReadMore, pc # "idle"
    PROVE  TypeOK' /\ BufferWindow'
<1>1. PICK n \in 0 .. Room, err \in {"nil", "EOF", "fail"} :
        /\ Fill(n, err)
        /\ \/ pc' = "idle"
           \/ pc' = "top"
  BY DEF ReadMore
<1>2. /\ rpos' \in 0 .. Len(input) /\ hiccups' \in 0 .. MaxHiccups
      /\ cap' \in Nat \ {0} /\ tail' \in 0 .. cap' /\ head' \in 0 .. tail'
      /\ tail' <= rpos' /\ isEOF' \in BOOLEAN
      /\ DOMAIN buf' = 0 .. (tail' - 1)
      /\ BufferWindow'
  BY <1>1, FillKeeps
<1>3. UNCHANGED <<input, tolerant, flagVars, histVars, api>>
  BY <1>1 DEF ReadMore, Fill
<1>. QED  BY <1>1, <1>2, <1>3 DEF TypeOK, flagVars, histVars

-----------------------------------------------------------------------------
LEMMA TopKeeps ==
    ASSUME TypeOK, BufferWindow, Top
    PROVE  TypeOK' /\ BufferWindow'
<1>1. pc = "top"
  BY DEF Top, TopFill, TopDrained, TopSpaces, TopNotArray, TopOpen, TopClose,
         TopScan, CommaRejected, CommaSkipped, TopAt
<1>2. CASE TopFill
  BY <1>1, <1>2, ReadMoreKeeps DEF TopFill
<1>3. CASE TopDrained
  <2>1. Kept /\ UNCHANGED readVars
    BY <1>3, TruncatedNowKeeps DEF TopDrained, Kept, TypeOK
  <2>. QED  BY <1>1, <2>1, KeptIsEnough
<1>4. CASE TopSpaces
  <2>1. Kept /\ UNCHANGED readVars
    BY <1>4 DEF TopSpaces, Kept, TypeOK, flagVars, histVars, callVars
  <2>. QED  BY <1>1, <2>1, KeptIsEnough
<1>5. ASSUME NEW h \in head .. tail,
             TopNotArray(h) \/ TopClose(h) \/ TopScan(h) \/ CommaRejected(h)
      PROVE  TypeOK' /\ BufferWindow'
  <2>1. h \in 0 .. tail
    BY InsideWindow
  <2>2. CASE TopClose(h)
    <3>1. Kept /\ UNCHANGED readVars
      BY <2>1, <2>2 DEF TopClose, Return, Kept, TypeOK, histVars
    <3>. QED  BY <1>1, <3>1, KeptIsEnough
  <2>3. CASE TopNotArray(h) \/ TopScan(h) \/ CommaRejected(h)
    <3>1. Kept /\ UNCHANGED readVars
      BY <2>1, <2>3 DEF TopNotArray, TopScan, CommaRejected, Return, Kept, TypeOK,
                        flagVars, histVars
    <3>. QED  BY <1>1, <3>1, KeptIsEnough
  <2>. QED  BY <1>5, <2>2, <2>3
<1>6. ASSUME NEW h \in head .. tail, TopOpen(h)
      PROVE  TypeOK' /\ BufferWindow'
  <2>1. Kept /\ UNCHANGED readVars
    BY <1>6 DEF TopOpen, Kept, TypeOK, histVars, callVars
  <2>. QED  BY <1>1, <2>1, KeptIsEnough
<1>7. ASSUME NEW h \in head .. tail, NEW g \in head .. tail, CommaSkipped(h, g)
      PROVE  TypeOK' /\ BufferWindow'
  <2>0. g \in 0 .. tail
    BY InsideWindow
  <2>1. sepReports' \in Nat
    <3>1. sepReports \in Nat
      BY DEF TypeOK
    <3>2. PICK x \in {0, 1}, y \in {0, 1} : sepReports' = sepReports + x + y
      BY <1>7 DEF CommaSkipped
    <3>. QED  BY <3>1, <3>2
  <2>2. pc' \in {"idle", "top", "scan"} /\ api' = api
    BY <1>7 DEF CommaSkipped, Return
  <2>3. Kept /\ UNCHANGED readVars
    BY <1>7, <2>0, <2>1, <2>2 DEF CommaSkipped, Kept, TypeOK
  <2>. QED  BY <1>1, <2>3, KeptIsEnough
<1>. QED  BY <1>2, <1>3, <1>4, <1>5, <1>6, <1>7 DEF Top

LEMMA ScanKeeps ==
    ASSUME TypeOK, BufferWindow, Scan
    PROVE  TypeOK' /\ BufferWindow'
<1>1. pc = "scan"
  BY DEF Scan, ScanFill, ChunkElement, ChunkSalvage, ChunkPartial, BlockElements,
         BlockBadGap, BlockPhantomsFill, BlockPhantomsEOF, BlockSalvage, BlockPartial
<1>2. CASE ScanFill \/ BlockPhantomsFill
  BY <1>1, <1>2, ReadMoreKeeps DEF ScanFill, BlockPhantomsFill
<1>3. ASSUME NEW e \in head .. tail, ChunkElement(e)
      PROVE  TypeOK' /\ BufferWindow'
  <2>1. Kept /\ UNCHANGED readVars
    BY <1>3, InsideWindow, HandOutKeeps DEF ChunkElement, Kept, TypeOK
  <2>. QED  BY <1>1, <2>1, KeptIsEnough
<1>4. ASSUME NEW e \in head .. tail, BlockElements(e)
      PROVE  TypeOK' /\ BufferWindow'
  <2>1. Kept /\ UNCHANGED readVars
    BY <1>4, InsideWindow DEF BlockElements, Return, Kept, TypeOK
  <2>. QED  BY <1>1, <2>1, KeptIsEnough
<1>5. CASE ChunkSalvage
  <2>1. truncReports' \in Nat
    BY <1>5 DEF ChunkSalvage, TypeOK
  <2>2. Kept /\ UNCHANGED readVars
    BY <1>5, <2>1, HandOutKeeps DEF ChunkSalvage, Kept, TypeOK
  <2>. QED  BY <1>1, <2>2, KeptIsEnough
<1>6. CASE ChunkPartial
  <2>1. Kept /\ UNCHANGED readVars
    BY <1>6, TruncatedNowKeeps DEF ChunkPartial, Kept, TypeOK
  <2>. QED  BY <1>1, <2>1, KeptIsEnough
<1>7. CASE BlockBadGap
  <2>1. Kept /\ UNCHANGED readVars
    BY <1>7 DEF BlockBadGap, Return, Kept, TypeOK, flagVars, histVars
  <2>. QED  BY <1>1, <2>1, KeptIsEnough
<1>9. CASE BlockSalvage
  <2>1. tail \in 0 .. tail
    BY DEF TypeOK
  <2>2. Kept /\ UNCHANGED readVars
    BY <1>9, <2>1 DEF BlockSalvage, Return, Kept, TypeOK
  <2>. QED  BY <1>1, <2>2, KeptIsEnough
<1>8. CASE BlockPhantomsEOF \/ BlockPartial
  <2>1. Kept /\ UNCHANGED readVars
    BY <1>8, TruncatedNowKeeps DEF BlockPhantomsEOF, BlockPartial, Kept, TypeOK
  <2>. QED  BY <1>1, <2>1, KeptIsEnough
<1>. QED  BY <1>2, <1>3, <1>4, <1>5, <1>6, <1>7, <1>8, <1>9 DEF Scan

-----------------------------------------------------------------------------
\* Whatever the reader does, the unread window stays inside the buffer and the
\* bytes in it are those of the input, none lost and none duplicated
\* (fill and the two scanning loops, stream.go:69-267 and 562-721).
THEOREM WindowSafe == Spec => [](TypeOK /\ BufferWindow)
<1>1. Init => TypeOK /\ BufferWindow
  <2> SUFFICES ASSUME Init
               PROVE  TypeOK /\ BufferWindow
    OBVIOUS
  <2>1. /\ input \in Inputs /\ rpos = 0 /\ hiccups = 0
        /\ buf = [i \in 0 .. -1 |-> "space"] /\ head = 0 /\ tail = 0
        /\ cap \in Capacities
    BY DEF Init
  <2>2. /\ rpos \in 0 .. Len(input) /\ hiccups \in 0 .. MaxHiccups
        /\ cap \in Nat \ {0} /\ tail \in 0 .. cap /\ head \in 0 .. tail
        /\ tail <= rpos
    BY <2>1, StreamAssumption, InputIsSeq
  <2>3. DOMAIN buf = 0 .. (tail - 1) /\ BufferWindow
    BY <2>1 DEF BufferWindow
  <2>. QED  BY <2>2, <2>3 DEF Init, TypeOK
<1>2. TypeOK /\ BufferWindow /\ [Next]_vars => TypeOK' /\ BufferWindow'
  <2> SUFFICES ASSUME TypeOK, BufferWindow, [Next]_vars
               PROVE  TypeOK' /\ BufferWindow'
    OBVIOUS
  <2>1. ASSUME NEW a \in Apis, Call(a)
        PROVE  TypeOK' /\ BufferWindow'
    BY <2>1 DEF Call, TypeOK, BufferWindow, Abs, readVars, flagVars, histVars
  <2>2. CASE EnterEnded \/ EnterTruncated \/ EnterLoop
    <3>1. Kept /\ UNCHANGED readVars /\ pc # "idle"
      BY <2>2 DEF EnterEnded, EnterTruncated, EnterLoop, Return, Kept, TypeOK,
                  flagVars, histVars
    <3>. QED  BY <3>1, KeptIsEnough
  <2>3. CASE Top
    BY <2>3, TopKeeps
  <2>4. CASE Scan
    BY <2>4, ScanKeeps
  <2>5. CASE UNCHANGED vars
    BY <2>5 DEF vars, readVars, flagVars, histVars, callVars, TypeOK, BufferWindow, Abs
  <2>. QED  BY <2>1, <2>2, <2>3, <2>4, <2>5 DEF Next, Step
<1>. QED  BY <1>1, <1>2, PTL DEF Spec

THEOREM WindowHolds == Spec => []BufferWindow
<1>1. TypeOK /\ BufferWindow => BufferWindow
  OBVIOUS
<1>. QED  BY <1>1, WindowSafe, PTL

-----------------------------------------------------------------------------
\* The loops run only while the stream is open; this makes OneEnd inductive.
OpenWhileLooping == pc \in {"top", "scan"} => ~hasEnded /\ ~tailTruncated

\* A step of the loops that does not latch a truncation.
LEMMA NoLatchStep ==
    ASSUME TypeOK, OneEnd, ~hasEnded, ~tailTruncated, UNCHANGED tolerant,
           tailTruncated' = tailTruncated, truncReports' = truncReports,
           hasEnded' => pc' = "idle"
    PROVE  OneEnd' /\ OpenWhileLooping'
BY DEF OneEnd, OpenWhileLooping

\* A step that latches a truncation and tells the sink of a tolerant decoder.
LEMMA LatchStep ==
    ASSUME TypeOK, OneEnd, ~hasEnded, ~tailTruncated, UNCHANGED tolerant,
           tailTruncated', ~hasEnded', pc' \in {"idle", "enter"},
           truncReports' = IF tolerant THEN truncReports + 1 ELSE truncReports
    PROVE  OneEnd' /\ OpenWhileLooping'
<1>1. truncReports = 0
  BY DEF OneEnd
<1>2. truncReports' = IF tolerant THEN 1 ELSE 0
  BY <1>1
<1>. QED  BY <1>2 DEF OneEnd, OpenWhileLooping

LEMMA TruncatedNowLatches ==
    ASSUME TypeOK, api # "NextRawBlock", NEW bytes, TruncatedNow(bytes)
    PROVE  /\ tailTruncated' /\ hasEnded' = hasEnded /\ pc' = "idle"
           /\ truncReports' = IF tolerant THEN truncReports + 1 ELSE truncReports
BY DEF TruncatedNow, Return

\* Without NextRawBlock on the same decoder, a stream ends in one way only and
\* a tolerant one reports its truncation exactly once (stream.go:108-115,
\* 129-134 and 230-258).
THEOREM OneEndHolds ==
    ASSUME "NextRawBlock" \notin Apis
    PROVE  Spec => []OneEnd
<1>1. Init => OneEnd /\ OpenWhileLooping
  BY DEF Init, OneEnd, OpenWhileLooping
<1>2. TypeOK /\ BufferWindow /\ OneEnd /\ OpenWhileLooping /\ [Next]_vars
        => OneEnd' /\ OpenWhileLooping'
  <2> SUFFICES ASSUME TypeOK, OneEnd, OpenWhileLooping, [Next]_vars
               PROVE  OneEnd' /\ OpenWhileLooping'
    OBVIOUS
  <2>1. ASSUME NEW a \in Apis, Call(a)
        PROVE  OneEnd' /\ OpenWhileLooping'
    BY <2>1 DEF Call, OneEnd, OpenWhileLooping, readVars, flagVars, histVars
  <2>2. CASE EnterEnded \/ EnterTruncated
    BY <2>2 DEF EnterEnded, EnterTruncated, Return, OneEnd, OpenWhileLooping,
                readVars, flagVars, histVars
  <2>3. CASE EnterLoop
    BY <2>3 DEF EnterLoop, OneEnd, OpenWhileLooping, readVars, flagVars, histVars
  <2>4. ASSUME pc \in {"top", "scan"}, ReadMore
        PROVE  OneEnd' /\ OpenWhileLooping'
    <3>1. UNCHANGED <<flagVars, histVars, tolerant>>
      BY <2>4 DEF ReadMore, Fill
    <3>. QED  BY <2>4, <3>1, NoLatchStep DEF flagVars, histVars, OpenWhileLooping
  <2>5. CASE Top
    <3>1. pc = "top" /\ ~hasEnded /\ ~tailTruncated /\ api # "NextRawBlock"
      BY <2>5 DEF Top, TopFill, TopDrained, TopSpaces, TopNotArray, TopOpen,
              TopClose, TopScan, CommaRejected, CommaSkipped, TopAt, TypeOK,
              OpenWhileLooping
    <3>2. CASE TopFill
      BY <2>4, <3>1, <3>2 DEF TopFill
    <3>3. CASE TopDrained
      BY <3>1, <3>3, TruncatedNowLatches, LatchStep DEF TopDrained, readVars
    <3>4. CASE TopSpaces
      BY <3>1, <3>4, NoLatchStep DEF TopSpaces, readVars, flagVars, histVars
    <3>5. ASSUME NEW h \in head .. tail,
                 TopNotArray(h) \/ TopScan(h) \/ CommaRejected(h)
          PROVE  OneEnd' /\ OpenWhileLooping'
      <4>1. UNCHANGED <<readVars, flagVars, histVars>>
        BY <3>5 DEF TopNotArray, TopScan, CommaRejected
      <4>. QED  BY <3>1, <4>1, NoLatchStep DEF readVars, flagVars, histVars
    <3>6. ASSUME NEW h \in head .. tail, TopOpen(h)
          PROVE  OneEnd' /\ OpenWhileLooping'
      BY <3>1, <3>6, NoLatchStep DEF TopOpen, readVars, histVars
    <3>7. ASSUME NEW h \in head .. tail, TopClose(h)
          PROVE  OneEnd' /\ OpenWhileLooping'
      BY <3>1, <3>7, NoLatchStep DEF TopClose, Return, readVars, histVars
    <3>8. ASSUME NEW h \in head .. tail, NEW g \in head .. tail, CommaSkipped(h, g)
          PROVE  OneEnd' /\ OpenWhileLooping'
      BY <3>1, <3>8, NoLatchStep DEF CommaSkipped, readVars
    <3>. QED  BY <2>5, <3>2, <3>3, <3>4, <3>5, <3>6, <3>7, <3>8 DEF Top
  <2>6. CASE Scan
    <3>1. pc = "scan" /\ ~hasEnded /\ ~tailTruncated /\ api # "NextRawBlock"
      BY <2>6 DEF Scan, ScanFill, ChunkElement, ChunkSalvage, ChunkPartial,
              BlockElements, BlockBadGap, BlockPhantomsFill, BlockPhantomsEOF,
              BlockSalvage, BlockPartial, TypeOK, OpenWhileLooping
    <3>2. CASE ScanFill
      BY <2>4, <3>1, <3>2 DEF ScanFill
    <3>3. ASSUME NEW e \in head .. tail, ChunkElement(e)
          PROVE  OneEnd' /\ OpenWhileLooping'
      BY <3>1, <3>3, NoLatchStep DEF ChunkElement, readVars
    <3>4. CASE ChunkSalvage
      <4>1. pc' \in {"idle", "enter"}
        BY <3>4 DEF ChunkSalvage, HandOut, Return
      <4>2. truncReports' = IF tolerant THEN truncReports + 1 ELSE truncReports
        BY <3>4 DEF ChunkSalvage, TypeOK
      <4>. QED  BY <3>1, <3>4, <4>1, <4>2, LatchStep DEF ChunkSalvage, readVars
    <3>5. CASE ChunkPartial
      BY <3>1, <3>5, TruncatedNowLatches, LatchStep DEF ChunkPartial, readVars
    <3>. QED
      BY <2>6, <3>1, <3>2, <3>3, <3>4, <3>5
      DEF Scan, BlockElements, BlockBadGap, BlockPhantomsFill, BlockPhantomsEOF,
          BlockSalvage, BlockPartial
  <2>7. CASE UNCHANGED vars
    BY <2>7 DEF vars, readVars, flagVars, histVars, callVars, OneEnd, OpenWhileLooping
  <2>. QED  BY <2>1, <2>2, <2>3, <2>5, <2>6, <2>7 DEF Next, Step
<1>. QED  BY <1>1, <1>2, WindowSafe, PTL DEF Spec

-----------------------------------------------------------------------------
\* Induction over the natural numbers, on a set of them.
LEMMA NatSets ==
    ASSUME NEW S, 0 \in S, \A n \in Nat : n \in S => n + 1 \in S
    PROVE  Nat \subseteq S
<1>. DEFINE T == {n \in Nat : n \notin S}
            R == OpToRel(<, Nat)
<1>. SUFFICES ASSUME T # {} PROVE FALSE
  OBVIOUS
<1>1. \A x, y \in Nat : <<x, y>> \in R <=> x < y
  BY DEF OpToRel
<1>2. IsWellFoundedOn(R, Nat)
  BY NatLessThanWellFounded
<1>. HIDE DEF R
<1>3. PICK x \in T : \A y \in T : ~(<<y, x>> \in R)
  <2>1. T \subseteq Nat
    OBVIOUS
  <2>. HIDE DEF T
  <2>. QED  BY <1>2, <2>1, WFMin
<1>4. \A y \in T : ~(y < x)
  BY <1>1, <1>3
<1>5. x # 0 /\ x - 1 \in Nat /\ x - 1 < x
  BY <1>3
<1>6. x - 1 \notin T
  BY <1>4, <1>5
<1>. QED  BY <1>3, <1>5, <1>6

\* A set of natural numbers has a least element, and a greatest one when bounded.
LEMMA Least ==
    ASSUME NEW S, S # {}, S \subseteq Nat
    PROVE  \E x \in S : \A y \in S : x <= y
<1>. SUFFICES ASSUME \A x \in S : \E y \in S : y < x PROVE FALSE
  OBVIOUS
<1>. DEFINE N == {n \in Nat : \A y \in S : y > n}
<1>1. 0 \in N
  OBVIOUS
<1>2. \A n \in Nat : n \in N => n + 1 \in N
  OBVIOUS
<1>. HIDE DEF N
<1>3. Nat \subseteq N
  BY <1>1, <1>2, NatSets
<1>4. PICK x \in S : TRUE
  OBVIOUS
<1>5. x \in N
  BY <1>3, <1>4
<1>. QED  BY <1>4, <1>5 DEF N

LEMMA Greatest ==
    ASSUME NEW S, S # {}, NEW n \in Nat, S \subseteq 0 .. n
    PROVE  \E x \in S : \A y \in S : y <= x
<1>. DEFINE M == {n - x : x \in S}
<1>1. M # {} /\ M \subseteq Nat
  OBVIOUS
<1>. HIDE DEF M
<1>2. PICK m \in M : \A y \in M : m <= y
  BY <1>1, Least
<1>3. PICK x \in S : m = n - x
  BY DEF M
<1>4. \A y \in S : n - y \in M
  BY DEF M
<1>5. \A y \in S : n - x <= n - y
  BY <1>2, <1>3, <1>4
<1>. QED  BY <1>3, <1>5

-----------------------------------------------------------------------------
\* Members of a stretch, one more at its end.
Stretch(X, a, i) == {j \in a .. (i - 1) : j \in X}

LEMMA CountStep ==
    ASSUME NEW X, NEW a \in Int, NEW b \in Int, a <= b
    PROVE  /\ Cardinality(Stretch(X, a, a)) = 0
           /\ Cardinality(Stretch(X, a, b)) \in Nat
           /\ Cardinality(Stretch(X, a, b + 1))
                = Cardinality(Stretch(X, a, b)) + IF b \in X THEN 1 ELSE 0
<1>. DEFINE S == Stretch(X, a, b)
<1>0. Cardinality(Stretch(X, a, a)) = 0
  <2>1. Stretch(X, a, a) = {}
    BY DEF Stretch
  <2>. QED  BY <2>1, FS_EmptySet
<1>1. IsFiniteSet(S)
  <2>1. IsFiniteSet(a .. (b - 1))
    BY FS_Interval
  <2>2. S \subseteq a .. (b - 1)
    BY DEF Stretch
  <2>. HIDE DEF S
  <2>. QED  BY <2>1, <2>2, FS_Subset
<1>4. Cardinality(S) \in Nat
  BY <1>1, FS_CardinalityType
<1>2. CASE b \in X
  <2>1. Stretch(X, a, b + 1) = S \cup {b}
    BY <1>2 DEF Stretch
  <2>2. b \notin S
    BY DEF Stretch
  <2>. HIDE DEF S
  <2>3. Cardinality(S \cup {b}) = Cardinality(S) + 1
    BY <1>1, <2>2, FS_AddElement
  <2>. QED  BY <1>0, <1>2, <2>1, <2>3, <1>4 DEF S
<1>3. CASE b \notin X
  <2>1. Stretch(X, a, b + 1) = S
    BY <1>3 DEF Stretch
  <2>. HIDE DEF S
  <2>5. Cardinality(Stretch(X, a, b + 1)) = Cardinality(S) + 0
    BY <2>1, <1>4
  <2>. QED  BY <1>0, <1>3, <1>4, <2>5 DEF S
<1>. QED  BY <1>2, <1>3

LEMMA FeedCardinality == \A S : Feed!Cardinality(S) = Cardinality(S)
BY DEF Feed!Cardinality, Cardinality

\* What a byte does to the depth.
Delta(b) == (IF b \in Feed!Openers THEN 1 ELSE 0) - (IF b \in Feed!Closers THEN 1 ELSE 0)

LEMMA FeedDepth ==
    ASSUME Feed!Opening \in Int, NEW p \in Int, Feed!Opening < p
    PROVE  /\ Feed!DepthAt(p) \in Int
           /\ Feed!DepthAt(Feed!Opening + 1) = 0
           /\ Feed!DepthAt(p + 1) = Feed!DepthAt(p) + Delta(Feed!At(p))
<1>. DEFINE a == Feed!Opening + 1
            X == {j \in Int : Feed!At(j) \in Feed!Openers}
            Y == {j \in Int : Feed!At(j) \in Feed!Closers}
<1>1. ASSUME NEW i
      PROVE  Feed!DepthAt(i) = Cardinality(Stretch(X, a, i)) - Cardinality(Stretch(Y, a, i))
  <2>1. Stretch(X, a, i) = {j \in a .. (i - 1) : Feed!At(j) \in Feed!Openers}
    BY DEF Stretch
  <2>2. Stretch(Y, a, i) = {j \in a .. (i - 1) : Feed!At(j) \in Feed!Closers}
    BY DEF Stretch
  <2>. QED  BY <2>1, <2>2, FeedCardinality DEF Feed!DepthAt
<1>2. (p \in X <=> Feed!At(p) \in Feed!Openers) /\ (p \in Y <=> Feed!At(p) \in Feed!Closers)
  OBVIOUS
<1>3. a \in Int /\ a <= p
  OBVIOUS
<1>. HIDE DEF X, Y, a
<1>4. /\ Cardinality(Stretch(X, a, a)) = 0
      /\ Cardinality(Stretch(X, a, p)) \in Nat
      /\ Cardinality(Stretch(X, a, p + 1))
           = Cardinality(Stretch(X, a, p)) + IF p \in X THEN 1 ELSE 0
  BY <1>3, CountStep
<1>5. /\ Cardinality(Stretch(Y, a, a)) = 0
      /\ Cardinality(Stretch(Y, a, p)) \in Nat
      /\ Cardinality(Stretch(Y, a, p + 1))
           = Cardinality(Stretch(Y, a, p)) + IF p \in Y THEN 1 ELSE 0
  BY <1>3, CountStep
<1>6. Feed!DepthAt(a) = 0
  BY <1>1, <1>4, <1>5
<1>7. /\ Feed!DepthAt(p) \in Int
      /\ Feed!DepthAt(p + 1) = Feed!DepthAt(p) + Delta(Feed!At(p))
  BY <1>1, <1>2, <1>4, <1>5 DEF Delta
<1>. QED  BY <1>6, <1>7 DEF a

LEMMA BufferDepth ==
    ASSUME head \in Int, NEW p \in Int, head <= p
    PROVE  /\ DepthAt(p) \in Int
           /\ DepthAt(head) = 0
           /\ DepthAt(p + 1) = DepthAt(p) + Delta(buf[p])
<1>. DEFINE X == {j \in Int : buf[j] \in Feed!Openers}
            Y == {j \in Int : buf[j] \in Feed!Closers}
<1>1. ASSUME NEW i
      PROVE  DepthAt(i) = Cardinality(Stretch(X, head, i)) - Cardinality(Stretch(Y, head, i))
  <2>1. Stretch(X, head, i) = {j \in head .. (i - 1) : buf[j] \in Feed!Openers}
    BY DEF Stretch
  <2>2. Stretch(Y, head, i) = {j \in head .. (i - 1) : buf[j] \in Feed!Closers}
    BY DEF Stretch
  <2>. QED  BY <2>1, <2>2 DEF DepthAt
<1>2. (p \in X <=> buf[p] \in Feed!Openers) /\ (p \in Y <=> buf[p] \in Feed!Closers)
  OBVIOUS
<1>. HIDE DEF X, Y
<1>4. /\ Cardinality(Stretch(X, head, head)) = 0
      /\ Cardinality(Stretch(X, head, p)) \in Nat
      /\ Cardinality(Stretch(X, head, p + 1))
           = Cardinality(Stretch(X, head, p)) + IF p \in X THEN 1 ELSE 0
  BY CountStep
<1>5. /\ Cardinality(Stretch(Y, head, head)) = 0
      /\ Cardinality(Stretch(Y, head, p)) \in Nat
      /\ Cardinality(Stretch(Y, head, p + 1))
           = Cardinality(Stretch(Y, head, p)) + IF p \in Y THEN 1 ELSE 0
  BY CountStep
<1>6. DepthAt(head) = 0
  BY <1>1, <1>4, <1>5
<1>7. /\ DepthAt(p) \in Int
      /\ DepthAt(p + 1) = DepthAt(p) + Delta(buf[p])
  BY <1>1, <1>2, <1>4, <1>5 DEF Delta
<1>. QED  BY <1>6, <1>7

-----------------------------------------------------------------------------
\* Skipping white space ends somewhere, and only there.
LEMMA NonSpace ==
    ASSUME Len(input) \in Nat, NEW i \in 0 .. Len(input)
    PROVE  /\ Feed!NonSpaceFrom(i) \in i .. Len(input)
           /\ \A k \in i .. (Feed!NonSpaceFrom(i) - 1) : Feed!At(k) = "space"
           /\ Feed!NonSpaceFrom(i) < Len(input) => Feed!At(Feed!NonSpaceFrom(i)) # "space"
<1>. DEFINE S == {j \in i .. Len(input) : j < Len(input) => Feed!At(j) # "space"}
<1>1. S # {} /\ S \subseteq Nat
  <2>1. Len(input) \in S
    OBVIOUS
  <2>. QED  BY <2>1
<1>2. PICK m \in S : \A y \in S : m <= y
  <2>. HIDE DEF S
  <2>. QED  BY <1>1, Least
<1>3. \A k \in i .. (m - 1) : Feed!At(k) = "space"
  <2>. SUFFICES ASSUME NEW k \in i .. (m - 1), Feed!At(k) # "space" PROVE FALSE
    OBVIOUS
  <2>1. k \in S
    OBVIOUS
  <2>. QED  BY <1>2, <2>1
<1>4. \E j \in i .. Len(input) : /\ \A k \in i .. (j - 1) : Feed!At(k) = "space"
                                 /\ j < Len(input) => Feed!At(j) # "space"
  BY <1>2, <1>3
<1>. QED  BY <1>4 DEF Feed!NonSpaceFrom

LEMMA NonSpaceIs ==
    ASSUME Len(input) \in Nat, NEW i \in 0 .. Len(input), NEW s \in i .. Len(input),
           \A k \in i .. (s - 1) : Feed!At(k) = "space",
           s < Len(input) => Feed!At(s) # "space"
    PROVE  Feed!NonSpaceFrom(i) = s
<1>. DEFINE r == Feed!NonSpaceFrom(i)
<1>1. /\ r \in i .. Len(input)
      /\ \A k \in i .. (r - 1) : Feed!At(k) = "space"
      /\ r < Len(input) => Feed!At(r) # "space"
  BY NonSpace
<1>. HIDE DEF r
<1>2. ~(r < s)
  BY <1>1
<1>3. ~(s < r)
  BY <1>1
<1>. QED  BY <1>1, <1>2, <1>3 DEF r

-----------------------------------------------------------------------------
\* The positions of the envelope itself: no bracket is open there and none has
\* closed it.
Outer ==
    {p \in (Feed!Opening + 1) .. Len(input) :
        /\ Feed!DepthAt(p) = 0
        /\ \A j \in (Feed!Opening + 1) .. (p - 1) : ~Feed!Stops(j)}

LEMMA OpeningType ==
    ASSUME Len(input) \in Nat
    PROVE  /\ Feed!Opening \in 0 .. Len(input)
           /\ Feed!IsArray => Feed!Opening + 1 \in Outer
<1>1. Feed!Opening \in 0 .. Len(input)
  BY NonSpace DEF Feed!Opening
<1>2. Feed!DepthAt(Feed!Opening + 1) = 0
  <2>. DEFINE a == Feed!Opening
  <2>1. a \in Int /\ a + 1 \in Int /\ a < a + 1
    BY <1>1
  <2>. QED  BY <2>1, FeedDepth
<1>. QED  BY <1>1, <1>2 DEF Outer, Feed!IsArray

\* The cuts are the separators of the envelope.
LEMMA CutsAre ==
    ASSUME Feed!IsArray, Len(input) \in Nat
    PROVE  /\ Feed!Cuts = {c \in Outer : c < Len(input) /\ Feed!At(c) \in {"comma", "rbracket"}}
           /\ Feed!Cuts \subseteq (Feed!Opening + 1) .. (Len(input) - 1)
BY OpeningType DEF Feed!Cuts, Outer

LEMMA CutsBefore ==
    ASSUME Len(input) \in Nat, Feed!IsArray,
           NEW p \in Outer, NEW c \in Feed!Cuts, c < p
    PROVE  Feed!At(c) = "comma"
<1>1. c \in (Feed!Opening + 1) .. (p - 1)
  BY CutsAre, OpeningType DEF Outer
<1>2. Feed!DepthAt(c) = 0 /\ Feed!At(c) \in {"comma", "rbracket"}
  BY CutsAre DEF Outer
<1>3. ~Feed!Stops(c)
  BY <1>1 DEF Outer
<1>. QED  BY <1>2, <1>3 DEF Feed!Stops

LEMMA OuterNext ==
    ASSUME Len(input) \in Nat,
           NEW p \in Outer, p < Len(input), Feed!At(p) \in {"space", "comma"}
    PROVE  p + 1 \in Outer
<1>1. /\ p \in (Feed!Opening + 1) .. Len(input) /\ Feed!Opening \in Nat
      /\ Feed!DepthAt(p) = 0
  BY OpeningType DEF Outer
<1>2. Feed!DepthAt(p + 1) = Feed!DepthAt(p) + Delta(Feed!At(p))
  BY <1>1, FeedDepth
<1>3. Delta(Feed!At(p)) = 0
  BY DEF Delta, Feed!Openers, Feed!Closers
<1>4. ~Feed!Stops(p)
  BY DEF Feed!Stops
<1>5. \A j \in (Feed!Opening + 1) .. p : ~Feed!Stops(j)
  <2>. SUFFICES ASSUME NEW j \in (Feed!Opening + 1) .. p PROVE ~Feed!Stops(j)
    OBVIOUS
  <2>1. CASE j = p
    BY <1>4, <2>1
  <2>2. CASE j # p
    BY <1>1, <2>2 DEF Outer
  <2>. QED  BY <2>1, <2>2
<1>. QED  BY <1>1, <1>2, <1>3, <1>5 DEF Outer

LEMMA OuterSpaces ==
    ASSUME Len(input) \in Nat, NEW p \in Outer, NEW q \in p .. Len(input),
           \A k \in p .. (q - 1) : Feed!At(k) = "space"
    PROVE  q \in Outer
<1>. DEFINE N == {n \in Nat : p + n <= q => p + n \in Outer}
<1>0. p \in Nat
  BY OpeningType DEF Outer
<1>1. 0 \in N
  BY <1>0
<1>2. \A n \in Nat : n \in N => n + 1 \in N
  <2>. SUFFICES ASSUME NEW n \in Nat, n \in N, p + (n + 1) <= q
                PROVE  p + (n + 1) \in Outer
    OBVIOUS
  <2>1. p + n \in Outer
    BY <1>0
  <2>2. p + n < Len(input) /\ Feed!At(p + n) = "space"
    BY <1>0
  <2>3. (p + n) + 1 \in Outer
    BY <2>1, <2>2, OuterNext
  <2>. QED  BY <1>0, <2>3
<1>. HIDE DEF N
<1>3. q - p \in N
  BY <1>0, <1>1, <1>2, NatSets
<1>. QED  BY <1>0, <1>3 DEF N

\* A bracket of the envelope is its last cut.
LEMMA ClosingCut ==
    ASSUME Len(input) \in Nat, Feed!IsArray,
           NEW p \in Outer, p < Len(input), Feed!At(p) = "rbracket"
    PROVE  /\ p \in Feed!Cuts /\ Feed!Closed
           /\ \A c \in Feed!Cuts : c <= p
<1>1. p \in Feed!Cuts
  BY CutsAre
<1>2. ASSUME NEW c \in Feed!Cuts PROVE c <= p
  <2>1. c \in Outer /\ p \in Nat /\ c \in Nat
    BY CutsAre, OpeningType DEF Outer
  <2>. SUFFICES ASSUME p < c PROVE FALSE
    BY <2>1
  <2>2. Feed!At(p) = "comma"
    BY <2>1, <1>1, CutsBefore
  <2>. QED  BY <2>2
<1>. QED  BY <1>1, <1>2 DEF Feed!Closed

-----------------------------------------------------------------------------
\* What stands behind the last of the cuts D that come before s.
Behind(D, s) ==
    /\ \A d \in D : d < s
    /\ \A k \in (Feed!Opening + 1) .. (s - 1) :
         Feed!At(k) # "space" => \E d \in D : k <= d

\* An element, and the rest, start at the first byte behind the cuts before it.
LEMMA StartBehind ==
    ASSUME Len(input) \in Nat, Feed!IsArray, NEW D \in SUBSET Feed!Cuts,
           NEW s \in (Feed!Opening + 1) .. Len(input), Behind(D, s),
           s < Len(input) => Feed!At(s) # "space"
    PROVE  Feed!NonSpaceFrom(IF D = {} THEN Feed!Opening + 1
                             ELSE 1 + CHOOSE d \in D : \A e \in D : e <= d) = s
<1>0. Feed!Opening \in Nat
  BY OpeningType
<1>1. CASE D = {}
  <2>1. Feed!Opening + 1 \in 0 .. Len(input)
    BY <1>0
  <2>2. \A k \in (Feed!Opening + 1) .. (s - 1) : Feed!At(k) = "space"
    BY <1>1 DEF Behind
  <2>3. Feed!NonSpaceFrom(Feed!Opening + 1) = s
    BY <2>1, <2>2, NonSpaceIs
  <2>. QED  BY <1>1, <2>3
<1>2. CASE D # {}
  <2>. DEFINE m == CHOOSE d \in D : \A e \in D : e <= d
  <2>1. D \subseteq 0 .. Len(input) /\ D \subseteq (Feed!Opening + 1) .. Len(input)
    BY <1>0, CutsAre
  <2>2. \E d \in D : \A e \in D : e <= d
    BY <1>2, <2>1, Greatest
  <2>3. m \in D /\ \A e \in D : e <= m
    BY <2>2
  <2>. HIDE DEF m
  <2>4. m + 1 \in 0 .. Len(input) /\ s \in (m + 1) .. Len(input) /\ m \in Nat
        /\ Feed!Opening + 1 <= m
    BY <1>0, <2>1, <2>3 DEF Behind
  <2>5. \A k \in (m + 1) .. (s - 1) : Feed!At(k) = "space"
    <3>. SUFFICES ASSUME NEW k \in (m + 1) .. (s - 1), Feed!At(k) # "space" PROVE FALSE
      OBVIOUS
    <3>1. k \in (Feed!Opening + 1) .. (s - 1)
      BY <1>0, <2>4
    <3>2. PICK d \in D : k <= d
      BY <3>1 DEF Behind
    <3>3. d <= m /\ d \in Nat
      BY <2>1, <2>3
    <3>. QED  BY <2>4, <3>2, <3>3
  <2>6. Feed!NonSpaceFrom(m + 1) = s
    BY <2>4, <2>5, NonSpaceIs
  <2>7. 1 + m = m + 1
    BY <2>4
  <2>. QED  BY <1>2, <2>6, <2>7 DEF m
<1>. QED  BY <1>1, <1>2

Before(c) == {d \in Feed!Cuts : d < c}

LEMMA ElementStartIs ==
    ASSUME Len(input) \in Nat, Feed!IsArray, NEW c \in Feed!Cuts,
           NEW s \in (Feed!Opening + 1) .. Len(input), Behind(Before(c), s),
           s < Len(input) => Feed!At(s) # "space"
    PROVE  Feed!ElementStart(c) = s
<1>1. Before(c) \in SUBSET Feed!Cuts
  BY DEF Before
<1>. QED  BY <1>1, StartBehind DEF Feed!ElementStart, Before

LEMMA RestStartIs ==
    ASSUME Len(input) \in Nat, Feed!IsArray,
           NEW s \in (Feed!Opening + 1) .. Len(input), Behind(Feed!Cuts, s),
           s < Len(input) => Feed!At(s) # "space"
    PROVE  Feed!RestStart = s
BY StartBehind DEF Feed!RestStart

\* Nothing but white space comes between an empty element and the cut before it.
LEMMA EmptyGap ==
    ASSUME Len(input) \in Nat, Feed!IsArray, NEW c \in Feed!Cuts,
           Feed!Empty(c), NEW k \in (Feed!Opening + 1) .. (c - 1),
           \A d \in Before(c) : d < k
    PROVE  Feed!At(k) = "space"
<1>. DEFINE D == Before(c)
<1>0. Feed!Opening \in Nat /\ c \in (Feed!Opening + 1) .. (Len(input) - 1)
  BY OpeningType, CutsAre
<1>1. CASE D = {}
  <2>1. Feed!NonSpaceFrom(Feed!Opening + 1) = c
    BY <1>1 DEF Feed!Empty, Feed!ElementStart, Before
  <2>2. Feed!Opening + 1 \in 0 .. Len(input)
    BY <1>0
  <2>. QED  BY <2>1, <2>2, NonSpace
<1>2. CASE D # {}
  <2>. DEFINE m == CHOOSE d \in D : \A e \in D : e <= d
  <2>0. D \subseteq Feed!Cuts /\ \A d \in D : d < c
    BY DEF Before
  <2>1. D \subseteq 0 .. Len(input)
    <3>1. Feed!Cuts \subseteq 0 .. Len(input)
      BY <1>0, CutsAre
    <3>. QED  BY <2>0, <3>1
  <2>2. \E d \in D : \A e \in D : e <= d
    <3>. HIDE DEF D
    <3>. QED  BY <1>2, <2>1, Greatest
  <2>3. m \in D
    BY <2>2
  <2>4. Feed!NonSpaceFrom(1 + m) = c
    BY <1>2 DEF Feed!Empty, Feed!ElementStart, Before
  <2>. HIDE DEF m
  <2>5. m \in Nat /\ m < c /\ m < k
    BY <2>1, <2>3, <1>0 DEF Before
  <2>. DEFINE i == 1 + m
  <2>6. i \in 0 .. Len(input) /\ k \in i .. (c - 1)
    BY <1>0, <2>5
  <2>7. Feed!NonSpaceFrom(i) = c
    BY <2>4
  <2>. HIDE DEF i
  <2>. QED  BY <2>6, <2>7, NonSpace
<1>. QED  BY <1>1, <1>2

-----------------------------------------------------------------------------
\* The stretch of the input that the buffer holds.
Here == Abs(head)

\* The buffer is at a place of the envelope.
Aligned ==
    /\ TypeOK /\ BufferWindow
    /\ hasStarted /\ Feed!IsArray /\ Here \in Outer

LEMMA AbsType ==
    ASSUME TypeOK, BufferWindow
    PROVE  /\ Len(input) \in Nat /\ Here \in 0 .. Len(input)
           /\ head \in Nat /\ tail \in Nat /\ rpos \in Nat /\ head <= tail
           /\ \A i \in Int : Abs(i) \in Int /\ Abs(i) = Here + (i - head)
           /\ Abs(tail) = rpos /\ rpos <= Len(input)
           /\ \A i \in head .. tail : Abs(i) \in Here .. Len(input)
           /\ \A i \in head .. (tail - 1) : /\ Abs(i) \in Here .. (Len(input) - 1)
                                            /\ buf[i] = Feed!At(Abs(i))
<1>1. Len(input) \in Nat
  BY InputIsSeq DEF TypeOK
<1>2. /\ head \in Nat /\ tail \in Nat /\ rpos \in Nat /\ head <= tail
      /\ tail <= rpos /\ rpos <= Len(input)
  BY <1>1 DEF TypeOK
<1>3. \A i \in head .. (tail - 1) : buf[i] = Feed!At(Abs(i))
  BY <1>2 DEF BufferWindow, Feed!At
<1>. QED  BY <1>1, <1>2, <1>3 DEF Here, Abs

\* Both splitters count the same depth there, and stop at the same places.
LEMMA SameDepth ==
    ASSUME Aligned, NEW i \in head .. tail
    PROVE  DepthAt(i) = Feed!DepthAt(Abs(i))
<1>0. /\ head \in Nat /\ tail \in Nat /\ Here \in Nat /\ Feed!Opening \in Nat
      /\ Here > Feed!Opening /\ Feed!DepthAt(Here) = 0
  BY AbsType, OpeningType DEF Aligned, Outer
<1>. DEFINE N == {n \in Nat : head + n <= tail =>
                                DepthAt(head + n) = Feed!DepthAt(Here + n)}
<1>1. 0 \in N
  <2>1. DepthAt(head) = 0
    BY <1>0, BufferDepth
  <2>. QED  BY <1>0, <2>1
<1>2. \A n \in Nat : n \in N => n + 1 \in N
  <2>. SUFFICES ASSUME NEW n \in Nat, n \in N, head + (n + 1) <= tail
                PROVE  DepthAt(head + (n + 1)) = Feed!DepthAt(Here + (n + 1))
    OBVIOUS
  <2>. DEFINE b == head + n
              p == Here + n
  <2>1. DepthAt(b) = Feed!DepthAt(p)
    BY <1>0
  <2>2. b \in Int /\ head <= b /\ p \in Int /\ Feed!Opening < p
    BY <1>0
  <2>3. buf[b] = Feed!At(p)
    <3>1. b \in head .. (tail - 1) /\ Abs(b) = p
      BY <1>0, AbsType DEF Aligned
    <3>. QED  BY <3>1, AbsType DEF Aligned
  <2>4. head + (n + 1) = b + 1 /\ Here + (n + 1) = p + 1
    BY <1>0
  <2>. HIDE DEF b, p
  <2>5. DepthAt(b + 1) = DepthAt(b) + Delta(buf[b])
    BY <1>0, <2>2, BufferDepth
  <2>6. Feed!DepthAt(p + 1) = Feed!DepthAt(p) + Delta(Feed!At(p))
    BY <1>0, <2>2, FeedDepth
  <2>. QED  BY <2>1, <2>3, <2>4, <2>5, <2>6
<1>. HIDE DEF N
<1>3. i - head \in N
  BY <1>0, <1>1, <1>2, NatSets
<1>4. head + (i - head) = i /\ Here + (i - head) = Abs(i)
  BY <1>0, AbsType DEF Aligned
<1>. QED  BY <1>0, <1>3, <1>4 DEF N

LEMMA SameStops ==
    ASSUME Aligned, NEW i \in head .. (tail - 1)
    PROVE  Stops(i) <=> Feed!Stops(Abs(i))
<1>1. i \in head .. tail /\ buf[i] = Feed!At(Abs(i))
  BY AbsType DEF Aligned
<1>2. DepthAt(i) = Feed!DepthAt(Abs(i))
  BY <1>1, SameDepth
<1>. QED  BY <1>1, <1>2 DEF Stops, Feed!Stops

\* The splitter finds the cuts of the envelope that lie in the buffer.
LEMMA SameCuts ==
    ASSUME Aligned
    PROVE  /\ \A i \in head .. (tail - 1) : i \in Cuts <=> Abs(i) \in Feed!Cuts
           /\ Cuts \subseteq head .. (tail - 1)
           /\ \A c \in Feed!Cuts : c >= Here /\ c < Abs(tail) =>
                \E i \in Cuts : c = Abs(i)
<1>0. /\ head \in Nat /\ tail \in Nat /\ Here \in Nat /\ Feed!Opening \in Nat
      /\ Here > Feed!Opening /\ Len(input) \in Nat /\ Feed!IsArray
      /\ \A j \in (Feed!Opening + 1) .. (Here - 1) : ~Feed!Stops(j)
  BY AbsType, OpeningType DEF Aligned, Outer
<1>1. ASSUME NEW i \in head .. (tail - 1)
      PROVE  i \in Cuts <=> Abs(i) \in Feed!Cuts
  <2>1. /\ Abs(i) \in Here .. (Len(input) - 1)
        /\ buf[i] = Feed!At(Abs(i)) /\ DepthAt(i) = Feed!DepthAt(Abs(i))
        /\ Abs(i) = Here + (i - head)
    <3>1. i \in head .. tail /\ i \in Int
      BY <1>0
    <3>2. DepthAt(i) = Feed!DepthAt(Abs(i))
      BY <3>1, SameDepth
    <3>3. /\ Abs(i) \in Here .. (Len(input) - 1) /\ buf[i] = Feed!At(Abs(i))
          /\ Abs(i) = Here + (i - head)
      BY <3>1, AbsType DEF Aligned
    <3>. QED  BY <3>2, <3>3
  <2>2. ASSUME \A j \in head .. (i - 1) : ~Stops(j)
        PROVE  \A j \in (Feed!Opening + 1) .. (Abs(i) - 1) : ~Feed!Stops(j)
    <3>. SUFFICES ASSUME NEW j \in (Feed!Opening + 1) .. (Abs(i) - 1) PROVE ~Feed!Stops(j)
      OBVIOUS
    <3>1. CASE j < Here
      BY <1>0, <3>1
    <3>2. CASE j >= Here
      <4>. DEFINE b == head + (j - Here)
      <4>1. b \in head .. (i - 1) /\ b \in head .. (tail - 1)
        BY <1>0, <2>1, <3>2
      <4>2. Abs(b) = j
        BY <1>0, AbsType DEF Aligned
      <4>. HIDE DEF b
      <4>. QED  BY <2>2, <4>1, <4>2, SameStops
    <3>. QED  BY <1>0, <3>1, <3>2
  <2>3. ASSUME \A j \in (Feed!Opening + 1) .. (Abs(i) - 1) : ~Feed!Stops(j)
        PROVE  \A j \in head .. (i - 1) : ~Stops(j)
    <3>. SUFFICES ASSUME NEW j \in head .. (i - 1) PROVE ~Stops(j)
      OBVIOUS
    <3>1. j \in head .. (tail - 1)
      BY <1>0
    <3>3. Abs(j) = Here + (j - head)
      BY <1>0, <3>1, AbsType DEF Aligned
    <3>2. Abs(j) \in (Feed!Opening + 1) .. (Abs(i) - 1)
      BY <1>0, <2>1, <3>1, <3>3
    <3>. QED  BY <2>3, <3>1, <3>2, SameStops
  <2>4. Abs(i) \in (Feed!Opening + 1) .. (Len(input) - 1)
    BY <1>0, <2>1
  <2>5. i \in Cuts <=> /\ buf[i] \in {"comma", "rbracket"} /\ DepthAt(i) = 0
                       /\ \A j \in head .. (i - 1) : ~Stops(j)
    BY DEF Cuts
  <2>6. Abs(i) \in Feed!Cuts <=>
          /\ Feed!At(Abs(i)) \in {"comma", "rbracket"} /\ Feed!DepthAt(Abs(i)) = 0
          /\ \A j \in (Feed!Opening + 1) .. (Abs(i) - 1) : ~Feed!Stops(j)
    BY <1>0, <2>4 DEF Feed!Cuts
  <2>. QED  BY <2>1, <2>2, <2>3, <2>5, <2>6
<1>2. Cuts \subseteq head .. (tail - 1)
  BY DEF Cuts
<1>3. ASSUME NEW c \in Feed!Cuts, c >= Here, c < Abs(tail)
      PROVE  \E i \in Cuts : c = Abs(i)
  <2>. DEFINE b == head + (c - Here)
  <2>0. c \in Nat
    BY <1>0, CutsAre
  <2>2. Abs(tail) = Here + (tail - head) /\ Abs(b) = Here + (b - head)
    BY <1>0, <2>0, AbsType DEF Aligned
  <2>1. b \in head .. (tail - 1) /\ Abs(b) = c
    BY <1>0, <1>3, <2>0, <2>2
  <2>. HIDE DEF b
  <2>. QED  BY <1>1, <2>1
<1>. QED  BY <1>1, <1>2, <1>3

-----------------------------------------------------------------------------
\* Where the decoder may stand between two elements: at place p of the envelope,
\* having delivered the element cut off at last, or none; behind it only empty
\* elements were passed, and behind a comma only white space.
Place(p, delivered, comma, last) ==
    /\ p \in Outer
    /\ delivered => last \in Feed!Elements /\ last <= p /\ (~comma => p = last)
    /\ ~delivered => last = -1
    /\ comma \/ ~delivered => Behind(Before(p), p)
    /\ comma => Before(p) # {}
    /\ ~comma /\ ~delivered => Before(p) = {}
    /\ \A d \in Before(p) : last < d => d \in Feed!Empties /\ tolerant

LEMMA PlaceOpen ==
    ASSUME Len(input) \in Nat, Feed!IsArray
    PROVE  Place(Feed!Opening + 1, FALSE, FALSE, -1)
<1>1. Feed!Opening \in Nat /\ Feed!Opening + 1 \in Outer
  BY OpeningType
<1>2. Before(Feed!Opening + 1) = {}
  BY <1>1, CutsAre DEF Before
<1>3. Behind(Before(Feed!Opening + 1), Feed!Opening + 1)
  BY <1>1, <1>2 DEF Behind
<1>. QED  BY <1>1, <1>2, <1>3 DEF Place

LEMMA PlaceType ==
    ASSUME Len(input) \in Nat, Feed!IsArray,
           NEW p, NEW delivered, NEW comma, NEW last, Place(p, delivered, comma, last)
    PROVE  /\ p \in (Feed!Opening + 1) .. Len(input) /\ p \in Nat /\ last \in Int
           /\ Feed!Opening \in Nat
           /\ Feed!Cuts \subseteq Nat
<1>1. Feed!Opening \in Nat
  BY OpeningType
<1>2. Feed!Cuts \subseteq Nat
  BY <1>1, CutsAre
<1>3. last \in Int
  <2>1. CASE delivered
    <3>1. last \in Feed!Elements
      BY <2>1 DEF Place
    <3>2. last \in Feed!Cuts
      BY <3>1 DEF Feed!Elements
    <3>. QED  BY <1>2, <3>2
  <2>2. CASE ~delivered
    BY <2>2 DEF Place
  <2>. QED  BY <2>1, <2>2
<1>4. p \in (Feed!Opening + 1) .. Len(input)
  BY DEF Place, Outer
<1>. QED  BY <1>1, <1>2, <1>3, <1>4

LEMMA PlaceSpaces ==
    ASSUME Len(input) \in Nat, Feed!IsArray,
           NEW p, NEW delivered, NEW comma, NEW last, Place(p, delivered, comma, last),
           NEW q \in p .. Len(input), \A k \in p .. (q - 1) : Feed!At(k) = "space"
    PROVE  /\ Place(q, delivered, comma, last)
           /\ Before(q) = Before(p)
<1>0. /\ p \in (Feed!Opening + 1) .. Len(input) /\ p \in Nat /\ last \in Int
      /\ Feed!Opening \in Nat /\ Feed!Cuts \subseteq Nat
  BY PlaceType
<1>1. q \in Outer
  BY OuterSpaces DEF Place
<1>2. \A d \in Feed!Cuts : d \notin p .. (q - 1)
  BY CutsAre
<1>3. Before(q) = Before(p)
  <2>1. ASSUME NEW d \in Feed!Cuts PROVE d < q <=> d < p
    <3>1. d \in Nat /\ q \in Nat /\ p <= q
      BY <1>0
    <3>2. d \notin p .. (q - 1)
      BY <1>2
    <3>. QED  BY <1>0, <3>1, <3>2
  <2>. QED  BY <2>1 DEF Before
<1>4. delivered /\ ~comma => q = p
  <2>. SUFFICES ASSUME delivered, ~comma, q # p PROVE FALSE
    OBVIOUS
  <2>1. p \in Feed!Cuts
    BY DEF Place, Feed!Elements
  <2>2. p \in p .. (q - 1)
    BY <1>0
  <2>. QED  BY <1>2, <2>1, <2>2
<1>5. comma \/ ~delivered => Behind(Before(q), q)
  <2>. SUFFICES ASSUME comma \/ ~delivered PROVE Behind(Before(q), q)
    OBVIOUS
  <2>1. Behind(Before(p), p)
    BY DEF Place
  <2>2. \A d \in Before(q) : d < q
    BY DEF Before
  <2>3. ASSUME NEW k \in (Feed!Opening + 1) .. (q - 1), Feed!At(k) # "space"
        PROVE  \E d \in Before(q) : k <= d
    <3>1. k \in (Feed!Opening + 1) .. (p - 1)
      BY <1>0, <2>3
    <3>. QED  BY <1>3, <2>1, <2>3, <3>1 DEF Behind
  <2>. QED  BY <2>2, <2>3 DEF Behind
<1>6. delivered => last <= q
  BY <1>0 DEF Place
<1>. QED  BY <1>1, <1>3, <1>4, <1>5, <1>6 DEF Place

\* A comma where none is due follows an empty element.
LEMMA PlaceEmpty ==
    ASSUME Len(input) \in Nat, Feed!IsArray,
           NEW p, NEW delivered, NEW comma, NEW last, Place(p, delivered, comma, last),
           p < Len(input), Feed!At(p) \in {"comma", "rbracket"}
    PROVE  /\ p \in Feed!Cuts
           /\ comma \/ ~delivered => p \in Feed!Empties
           /\ ~(comma \/ ~delivered) => p \notin Feed!Empties /\ p = last
<1>1. p \in Feed!Cuts
  BY CutsAre DEF Place
<1>2. ASSUME comma \/ ~delivered PROVE p \in Feed!Empties
  <2>1. Behind(Before(p), p) /\ p \in (Feed!Opening + 1) .. Len(input)
    BY <1>2, PlaceType DEF Place
  <2>2. Feed!At(p) # "space"
    OBVIOUS
  <2>3. Feed!ElementStart(p) = p
    BY <1>1, <2>1, <2>2, ElementStartIs
  <2>. QED  BY <1>1, <2>3 DEF Feed!Empties, Feed!Empty
<1>3. ~(comma \/ ~delivered) => p \notin Feed!Empties /\ p = last
  BY DEF Place, Feed!Elements
<1>. QED  BY <1>1, <1>2, <1>3

LEMMA PlaceComma ==
    ASSUME Len(input) \in Nat, Feed!IsArray,
           NEW p, NEW delivered, NEW comma, NEW last, Place(p, delivered, comma, last),
           p < Len(input), Feed!At(p) = "comma",
           comma \/ ~delivered => tolerant
    PROVE  /\ Place(p + 1, delivered, TRUE, last)
           /\ Before(p + 1) = Before(p) \cup {p}
<1>0. /\ p \in (Feed!Opening + 1) .. Len(input) /\ p \in Nat /\ last \in Int
      /\ Feed!Opening \in Nat /\ Feed!Cuts \subseteq Nat
  BY PlaceType
<1>1. /\ p \in Feed!Cuts
      /\ comma \/ ~delivered => p \in Feed!Empties
      /\ ~(comma \/ ~delivered) => p = last
  BY PlaceEmpty
<1>2. p + 1 \in Outer
  BY OuterNext DEF Place
<1>3. Before(p + 1) = Before(p) \cup {p}
  <2>1. \A d \in Feed!Cuts : d < p + 1 <=> d < p \/ d = p
    BY <1>0
  <2>. QED  BY <1>1, <2>1 DEF Before
<1>4. Behind(Before(p + 1), p + 1)
  BY <1>0, <1>3 DEF Behind, Before
<1>5. \A d \in Before(p + 1) : last < d => d \in Feed!Empties /\ tolerant
  <2>. SUFFICES ASSUME NEW d \in Before(p + 1), last < d
                PROVE  d \in Feed!Empties /\ tolerant
    OBVIOUS
  <2>1. CASE d = p
    BY <1>0, <1>1, <2>1
  <2>2. CASE d # p
    BY <1>3, <2>2 DEF Place
  <2>. QED  BY <2>1, <2>2
<1>6. delivered => last \in Feed!Elements /\ last <= p + 1
  BY <1>0 DEF Place
<1>7. ~delivered => last = -1
  BY DEF Place
<1>8. Before(p + 1) # {}
  BY <1>3
<1>9. Place(p + 1, delivered, TRUE, last)
  BY <1>2, <1>4, <1>5, <1>6, <1>7, <1>8 DEF Place
<1>. QED  BY <1>3, <1>9

LEMMA PlaceElement ==
    ASSUME Len(input) \in Nat, Feed!IsArray, NEW c \in Feed!Elements
    PROVE  Place(c, TRUE, FALSE, c)
<1>1. c \in Feed!Cuts
  BY DEF Feed!Elements
<1>2. c \in Outer /\ c \in Nat
  BY <1>1, CutsAre, OpeningType
<1>3. \A d \in Before(c) : ~(c < d)
  BY <1>2, CutsAre, OpeningType DEF Before
<1>. QED  BY <1>2, <1>3 DEF Place

\* The next element begins where the scan does.
LEMMA PlaceScan ==
    ASSUME Len(input) \in Nat, Feed!IsArray,
           NEW p, NEW delivered, NEW comma, NEW last, Place(p, delivered, comma, last),
           comma \/ ~delivered, p < Len(input), Feed!At(p) # "space",
           NEW c \in Feed!Cuts, \A d \in Feed!Cuts : d < c => d < p
    PROVE  /\ p <= c => Feed!ElementStart(c) = p
           /\ p < c => c \in Feed!Elements /\ last < c
<1>0. /\ p \in (Feed!Opening + 1) .. Len(input) /\ p \in Nat /\ last \in Int
      /\ Feed!Opening \in Nat /\ Feed!Cuts \subseteq Nat
  BY PlaceType
<1>1. ASSUME p <= c PROVE Feed!ElementStart(c) = p
  <2>1. Before(c) = Before(p)
    <3>1. \A d \in Feed!Cuts : d < c <=> d < p
      BY <1>0, <1>1
    <3>. QED  BY <3>1 DEF Before
  <2>2. Behind(Before(c), p)
    BY <2>1 DEF Place
  <2>. QED  BY <1>0, <2>2, ElementStartIs
<1>2. ASSUME p < c PROVE c \in Feed!Elements /\ last < c
  <2>1. Feed!ElementStart(c) # c /\ c \in Nat
    BY <1>0, <1>1, <1>2
  <2>2. c \in Feed!Elements
    BY <2>1 DEF Feed!Elements, Feed!Empties, Feed!Empty
  <2>3. last < c
    BY <1>0, <1>2, <2>1 DEF Place
  <2>. QED  BY <2>2, <2>3
<1>. QED  BY <1>1, <1>2

\* Nothing is left ahead when no cut is left.
LEMMA PlaceDone ==
    ASSUME Len(input) \in Nat, Feed!IsArray,
           NEW p, NEW delivered, NEW comma, Place(p, delivered, comma, Feed!Frontier),
           \A d \in Feed!Cuts : d < p
    PROVE  /\ ~Feed!Closed
           /\ Feed!Ahead \cap Feed!Elements = {}
<1>1. ~Feed!Closed
  <2>. SUFFICES ASSUME NEW c \in Feed!Cuts, Feed!At(c) = "rbracket" PROVE FALSE
    BY DEF Feed!Closed
  <2>1. Feed!At(c) = "comma"
    BY CutsBefore DEF Place
  <2>. QED  BY <2>1
<1>2. ASSUME NEW c \in Feed!Ahead PROVE c \notin Feed!Elements
  <2>1. c \in Feed!Cuts /\ Feed!Frontier < c
    BY PlaceType DEF Feed!Ahead
  <2>2. c \in Before(p)
    BY <2>1 DEF Before
  <2>. QED  BY <2>1, <2>2 DEF Place, Feed!Elements
<1>. QED  BY <1>1, <1>2

-----------------------------------------------------------------------------
\* A step leaves the input alone, and with it the cuts.
LEMMA SameFeed ==
    ASSUME input' = input
    PROVE  /\ Feed!Opening' = Feed!Opening /\ Feed!IsArray' = Feed!IsArray
           /\ Outer' = Outer /\ Feed!Cuts' = Feed!Cuts
           /\ Feed!Empties' = Feed!Empties /\ Feed!Elements' = Feed!Elements
           /\ Feed!Closed' = Feed!Closed
<1>1. Feed!Opening' = Feed!Opening
  BY DEF Feed!Opening, Feed!NonSpaceFrom, Feed!At
<1>2. Feed!IsArray' = Feed!IsArray
  BY <1>1 DEF Feed!IsArray, Feed!At
<1>3. Outer' = Outer
  BY <1>1 DEF Outer, Feed!DepthAt, Feed!Stops, Feed!At
<1>4. Feed!Cuts' = Feed!Cuts
  BY <1>1, <1>2 DEF Feed!Cuts, Feed!DepthAt, Feed!Stops, Feed!At
<1>5. Feed!Empties' = Feed!Empties
  BY <1>1, <1>4 DEF Feed!Empties, Feed!Empty, Feed!ElementStart, Feed!NonSpaceFrom, Feed!At
<1>6. Feed!Elements' = Feed!Elements
  BY <1>4, <1>5 DEF Feed!Elements
<1>7. Feed!Closed' = Feed!Closed
  BY <1>4 DEF Feed!Closed, Feed!At
<1>. QED  BY <1>1, <1>2, <1>3, <1>4, <1>5, <1>6, <1>7

AtPlace == Place(Here, deliveredFirst, afterComma, Feed!Frontier)

LEMMA PlaceStays ==
    ASSUME UNCHANGED <<input, tolerant>>,
           Place(Here', deliveredFirst', afterComma', Feed!Frontier')
    PROVE  AtPlace'
<1>. USE SameFeed
<1>1. Before(Here)' = Before(Here')
  BY DEF Before
<1>2. Behind(Before(Here), Here)' <=> Behind(Before(Here'), Here')
  BY DEF Behind, Before, Feed!At
<1>. QED  BY <1>1, <1>2 DEF AtPlace, Place

\* What the buffer holds of an element is the stretch of the input.
LEMMA WindowIs ==
    ASSUME TypeOK, BufferWindow, NEW i \in head .. tail, NEW j \in i .. tail
    PROVE  /\ Window(i, j) = Feed!Slice(Abs(i), Abs(j))
           /\ Len(Window(i, j)) = j - i
<1>1. /\ head \in Nat /\ tail \in Nat /\ i \in Nat /\ j \in Nat
      /\ Abs(i) \in Nat /\ Abs(j) = Abs(i) + (j - i) /\ Abs(j) <= Len(input)
      /\ Len(input) \in Nat
  <2>1. /\ head \in Nat /\ tail \in Nat /\ head <= tail /\ Here \in 0 .. Len(input)
        /\ Len(input) \in Nat
    BY AbsType
  <2>2. i \in Int /\ j \in Int /\ j \in head .. tail
    BY <2>1
  <2>3. /\ Abs(i) = Here + (i - head) /\ Abs(j) = Here + (j - head)
        /\ Abs(j) \in Here .. Len(input)
    BY <2>2, AbsType
  <2>. QED  BY <2>1, <2>2, <2>3
<1>2. ASSUME NEW k \in 1 .. (j - i)
      PROVE  buf[i + k - 1] = input[Abs(i) + k]
  <2>. DEFINE b == i + k - 1
  <2>1. b \in head .. (tail - 1) /\ b \in Int /\ Abs(i) = Here + (i - head) /\ Here \in Int
    BY <1>1, AbsType
  <2>2. buf[b] = Feed!At(Abs(b)) /\ Abs(b) = Here + (b - head)
    BY <2>1, AbsType
  <2>3. Abs(b) + 1 = Abs(i) + k
    BY <1>1, <2>1, <2>2
  <2>. QED  BY <2>2, <2>3 DEF Feed!At
<1>3. input \in Seq(Byte)
  BY StreamAssumption DEF TypeOK
<1>4. SubSeq(input, Abs(i) + 1, Abs(j)) = [k \in 1 .. (j - i) |-> input[Abs(i) + k]]
  <2>. DEFINE a == Abs(i) + 1
              b == Abs(j)
  <2>0. a \in Nat /\ b \in Nat /\ 1 <= a /\ b <= Len(input)
    BY <1>1
  <2>2. 1 + b - a = j - i /\ \A k \in 1 .. (j - i) : a + k - 1 = Abs(i) + k
    BY <1>1
  <2>. HIDE DEF a, b
  <2>1. SubSeq(input, a, b) = [k \in 1 .. (1 + b - a) |-> input[a + k - 1]]
    BY <2>0, <1>3
  <2>3. [k \in 1 .. (1 + b - a) |-> input[a + k - 1]]
          = [k \in 1 .. (j - i) |-> input[Abs(i) + k]]
    BY <2>2
  <2>. QED  BY <2>1, <2>3 DEF a, b
<1>5. Window(i, j) = [k \in 1 .. (j - i) |-> input[Abs(i) + k]]
  BY <1>2 DEF Window
<1>6. Len(Window(i, j)) = j - i
  BY <1>1 DEF Window
<1>. QED  BY <1>4, <1>5, <1>6 DEF Feed!Slice

-----------------------------------------------------------------------------
\* What was handed out so far.
Handed == [at : Nat, bytes : Seq(Byte), kind : {"raw", "record", "damaged", "block", "fragment"},
           count : Nat]

\* Before the opening bracket there is white space only, and nothing happened.
NotYet ==
    /\ out = <<>> /\ ~deliveredFirst /\ ~afterComma /\ ~hasEnded
    /\ pc # "scan"
    /\ \A k \in 0 .. (Here - 1) : Feed!At(k) = "space"

\* The splitter is called at the first byte of an element.
Scanning ==
    /\ hasStarted /\ head < tail /\ buf[head] \notin {"space", "rbracket"}
    /\ afterComma \/ ~deliveredFirst

\* How far the decoder is in the input, whatever the buffer looks like.
Track ==
    /\ isEOF => rpos = Len(input)
    /\ ~(hasEnded /\ tailTruncated)
    /\ OpenWhileLooping
    /\ out \in Seq(Handed)
    /\ ~hasStarted => NotYet
    /\ hasStarted => Feed!IsArray
    /\ hasEnded => Feed!Closed
    /\ hasStarted /\ ~hasEnded /\ ~tailTruncated => AtPlace
    /\ pc = "scan" => Scanning

Still == UNCHANGED <<input, tolerant>> /\ (isEOF' => rpos' = Len(input))

LEMMA TrackInit == Init => Track
<1>. SUFFICES ASSUME Init PROVE Track
  OBVIOUS
<1>1. Here = 0
  BY DEF Init, Here, Abs
<1>. QED  BY <1>1 DEF Init, Track, NotYet, OpenWhileLooping

\* Steps that leave the place in the input alone.
LEMMA TrackQuiet ==
    ASSUME TypeOK, Track, Still, Here' = Here,
           UNCHANGED <<flagVars, out>>,
           pc' = "scan" => pc = "scan" /\ UNCHANGED <<buf, head, tail>>,
           pc' \in {"top", "scan"} => ~hasEnded /\ ~tailTruncated
    PROVE  Track' /\ UNCHANGED Feed!feedVars
<1>. USE DEF flagVars, Still
<1>1. Feed!IsArray' = Feed!IsArray /\ Feed!Closed' = Feed!Closed
  BY SameFeed
<1>2. Feed!Frontier' = Feed!Frontier
  BY DEF Feed!Frontier
<1>3. hasStarted /\ ~hasEnded /\ ~tailTruncated => AtPlace'
  BY <1>2, PlaceStays DEF Track, AtPlace
<1>4. ~hasStarted => NotYet'
  BY DEF Track, NotYet, Feed!At
<1>5. pc' = "scan" => Scanning'
  BY DEF Track, Scanning
<1>6. OpenWhileLooping'
  BY DEF OpenWhileLooping
<1>7. Track'
  BY <1>1, <1>3, <1>4, <1>5, <1>6 DEF Track
<1>. QED  BY <1>7 DEF Feed!feedVars

\* Steps inside the envelope of an open stream.
LEMMA TrackOpen ==
    ASSUME Still, hasStarted', ~hasEnded', ~tailTruncated',
           Feed!IsArray, out' \in Seq(Handed),
           Place(Here', deliveredFirst', afterComma', Feed!Frontier'),
           pc' = "scan" => Scanning'
    PROVE  Track'
<1>. USE DEF Still
<1>1. Feed!IsArray'
  BY SameFeed
<1>2. AtPlace'
  BY PlaceStays
<1>. QED  BY <1>1, <1>2 DEF Track, OpenWhileLooping

\* Steps that latch a truncation.
LEMMA TrackTruncated ==
    ASSUME Track, Still, tailTruncated', ~hasEnded', hasStarted' = hasStarted,
           out' \in Seq(Handed), pc' \in {"idle", "enter"},
           ~hasStarted => Here' = Here /\ UNCHANGED <<out, deliveredFirst, afterComma>>
    PROVE  Track'
<1>. USE DEF Still
<1>1. Feed!IsArray' = Feed!IsArray
  BY SameFeed
<1>2. ~hasStarted => NotYet'
  BY DEF Track, NotYet, Feed!At
<1>. QED  BY <1>1, <1>2 DEF Track, OpenWhileLooping

\* Bytes skipped in the buffer are white space of the input.
LEMMA SkipsInput ==
    ASSUME TypeOK, BufferWindow, NEW i \in head .. tail, NEW h \in i .. tail, SkipsTo(i, h)
    PROVE  /\ Abs(h) \in Abs(i) .. Len(input) /\ Abs(i) \in Here .. Len(input)
           /\ \A k \in Abs(i) .. (Abs(h) - 1) : Feed!At(k) = "space"
           /\ h < tail => Abs(h) < Len(input) /\ Feed!At(Abs(h)) = buf[h]
                          /\ buf[h] # "space"
<1>0. /\ head \in Nat /\ tail \in Nat /\ head <= tail /\ Here \in 0 .. Len(input)
      /\ Len(input) \in Nat
  BY AbsType
<1>1. /\ Abs(i) = Here + (i - head) /\ Abs(h) = Here + (h - head)
      /\ Abs(h) \in Here .. Len(input)
      /\ i \in Nat /\ h \in Nat /\ i <= h /\ head <= i /\ h <= tail
  <2>1. i \in Int /\ h \in Int /\ h \in head .. tail
    BY <1>0
  <2>. QED  BY <1>0, <2>1, AbsType
<1>2. ASSUME NEW k \in Abs(i) .. (Abs(h) - 1) PROVE Feed!At(k) = "space"
  <2>. DEFINE b == head + (k - Here)
  <2>1. b \in i .. (h - 1) /\ b \in head .. (tail - 1) /\ b \in Int
    BY <1>0, <1>1
  <2>2. Abs(b) = k
    <3>1. Abs(b) = Here + (b - head)
      BY <2>1, AbsType
    <3>. QED  BY <1>0, <1>1, <3>1
  <2>. HIDE DEF b
  <2>3. buf[b] = Feed!At(Abs(b))
    BY <2>1, AbsType
  <2>. QED  BY <2>1, <2>2, <2>3 DEF SkipsTo
<1>3. ASSUME h < tail
      PROVE  Abs(h) < Len(input) /\ Feed!At(Abs(h)) = buf[h] /\ buf[h] # "space"
  <2>1. h \in head .. (tail - 1)
    BY <1>0, <1>1, <1>3
  <2>2. Abs(h) \in Here .. (Len(input) - 1) /\ buf[h] = Feed!At(Abs(h))
    BY <2>1, AbsType
  <2>. QED  BY <1>0, <1>3, <2>2 DEF SkipsTo
<1>. QED  BY <1>0, <1>1, <1>2, <1>3

-----------------------------------------------------------------------------
LEMMA TrackRead ==
    ASSUME TypeOK, BufferWindow, Track, ReadMore, pc # "idle",
           ~hasEnded, ~tailTruncated
    PROVE  Track' /\ UNCHANGED Feed!feedVars
<1>1. PICK n \in 0 .. Room, err \in {"nil", "EOF", "fail"} :
        Fill(n, err) /\ pc' \in {"idle", "top"}
  BY DEF ReadMore
<1>2. /\ input' = input /\ tolerant' = tolerant
      /\ rpos' = rpos + n /\ tail' = tail - head + n /\ head' = 0
      /\ (isEOF' => err = "EOF") /\ (err = "EOF" => rpos + n = Len(input))
  BY <1>1 DEF Fill
<1>3. n \in Nat /\ rpos \in Nat /\ head \in Nat /\ tail \in Nat
  <2>1. Room \in Nat
    BY DEF Room, TypeOK
  <2>. QED  BY <2>1, AbsType
<1>4. Here' = Here
  BY <1>2, <1>3 DEF Here, Abs
<1>5. Still
  BY <1>2 DEF Still
<1>6. UNCHANGED <<flagVars, out>>
  BY DEF ReadMore, histVars
<1>. QED  BY <1>1, <1>4, <1>5, <1>6, TrackQuiet

\* Steps that skip white space.
LEMMA TrackMoved ==
    ASSUME TypeOK, BufferWindow, Track, pc = "top",
           NEW h \in head .. tail, SkipsTo(head, h),
           head' = h, UNCHANGED <<readVars, flagVars, out>>,
           pc' = "scan" => hasStarted /\ h < tail /\ buf[h] \notin {"comma", "rbracket"}
    PROVE  Track' /\ UNCHANGED Feed!feedVars
<1>. USE DEF readVars, flagVars
<1>0. /\ ~hasEnded /\ ~tailTruncated
  BY DEF Track, OpenWhileLooping
<1>1. Still /\ Here' = Abs(h)
  BY DEF Still, Here, Abs, Track
<1>2. /\ Abs(h) \in Here .. Len(input) /\ Here \in 0 .. Len(input) /\ Len(input) \in Nat
      /\ \A k \in Here .. (Abs(h) - 1) : Feed!At(k) = "space"
      /\ h < tail => /\ Abs(h) < Len(input) /\ Feed!At(Abs(h)) = buf[h]
                     /\ buf[h] # "space"
  <2>1. head \in head .. tail /\ h \in head .. tail
    BY AbsType
  <2>. QED  BY <2>1, AbsType, SkipsInput DEF Here
<1>3. Feed!Frontier' = Feed!Frontier
  BY DEF Feed!Frontier
<1>4. CASE hasStarted
  <2>1. Feed!IsArray /\ Place(Here, deliveredFirst, afterComma, Feed!Frontier)
    BY <1>0, <1>4 DEF Track, AtPlace
  <2>2. Place(Abs(h), deliveredFirst, afterComma, Feed!Frontier)
    BY <1>2, <2>1, PlaceSpaces
  <2>3. ASSUME pc' = "scan" PROVE Scanning'
    <3>1. h < tail /\ buf[h] \notin {"comma", "rbracket", "space"}
      BY <1>2, <2>3
    <3>2. afterComma \/ ~deliveredFirst
      <4>. SUFFICES ASSUME ~afterComma, deliveredFirst PROVE FALSE
        OBVIOUS
      <4>1. Abs(h) \in Feed!Cuts
        BY <2>2 DEF Place, Feed!Elements
      <4>2. Feed!At(Abs(h)) \in {"comma", "rbracket"}
        BY <1>2, <2>1, <4>1, CutsAre
      <4>. QED  BY <1>2, <3>1, <4>2
    <3>. QED  BY <1>4, <3>1, <3>2 DEF Scanning
  <2>4. Place(Here', deliveredFirst', afterComma', Feed!Frontier')
    BY <1>1, <1>3, <2>2
  <2>5. out' \in Seq(Handed)
    BY DEF Track
  <2>6. Track'
    BY <1>0, <1>1, <1>4, <2>1, <2>3, <2>4, <2>5, TrackOpen
  <2>. QED  BY <2>6 DEF Feed!feedVars
<1>5. CASE ~hasStarted
  <2>1. NotYet
    BY <1>5 DEF Track
  <2>2. pc' # "scan"
    BY <1>5
  <2>3. \A k \in 0 .. (Abs(h) - 1) : Feed!At(k) = "space"
    BY <1>2, <2>1 DEF NotYet
  <2>4. NotYet'
    BY <1>1, <2>1, <2>2, <2>3 DEF NotYet, Feed!At
  <2>5. Track'
    BY <1>0, <1>1, <1>5, <2>2, <2>4 DEF Track, OpenWhileLooping, Still
  <2>. QED  BY <2>5 DEF Feed!feedVars
<1>. QED  BY <1>4, <1>5

LEMMA TrackStart ==
    ASSUME TypeOK, BufferWindow, Track, NEW h \in head .. tail, TopOpen(h)
    PROVE  Track' /\ UNCHANGED Feed!feedVars
<1>0. /\ pc = "top" /\ head < tail /\ SkipsTo(head, h) /\ h < tail
      /\ ~hasStarted /\ buf[h] = "lbracket" /\ head' = h + 1 /\ hasStarted'
      /\ UNCHANGED <<readVars, out, pc, hasEnded, deliveredFirst, afterComma, tailTruncated>>
  BY DEF TopOpen, TopAt, histVars, callVars
<1>1. ~hasEnded /\ ~tailTruncated /\ NotYet
  BY <1>0 DEF Track, OpenWhileLooping
<1>2. Still
  BY <1>0 DEF Still, Track, readVars
<1>3. /\ Abs(h) \in Here .. Len(input) /\ Here \in 0 .. Len(input) /\ Len(input) \in Nat
      /\ \A k \in Here .. (Abs(h) - 1) : Feed!At(k) = "space"
      /\ Abs(h) < Len(input) /\ Feed!At(Abs(h)) = "lbracket"
  <2>1. head \in head .. tail /\ h \in head .. tail
    BY AbsType
  <2>. QED  BY <1>0, <2>1, AbsType, SkipsInput DEF Here
<1>4. \A k \in 0 .. (Abs(h) - 1) : Feed!At(k) = "space"
  BY <1>1, <1>3 DEF NotYet
<1>5. Feed!Opening = Abs(h)
  <2>. DEFINE s == Abs(h)
  <2>1. 0 \in 0 .. Len(input) /\ s \in 0 .. Len(input)
    BY <1>3
  <2>2. s < Len(input) => Feed!At(s) # "space"
    BY <1>3
  <2>3. \A k \in 0 .. (s - 1) : Feed!At(k) = "space"
    BY <1>4
  <2>. HIDE DEF s
  <2>4. Feed!NonSpaceFrom(0) = s
    BY <1>3, <2>1, <2>2, <2>3, NonSpaceIs
  <2>. QED  BY <2>4 DEF s, Feed!Opening
<1>6. Feed!IsArray
  BY <1>3, <1>5 DEF Feed!IsArray
<1>7. Here' = Feed!Opening + 1
  BY <1>0, <1>5, AbsType, SMTT(30) DEF Here, Abs, readVars
<1>8. Feed!Frontier' = -1
  BY <1>0, <1>1 DEF Feed!Frontier, NotYet
<1>9. Place(Here', FALSE, FALSE, -1)
  BY <1>3, <1>6, <1>7, PlaceOpen
<1>10. deliveredFirst' = FALSE /\ afterComma' = FALSE
  BY <1>0, <1>1 DEF NotYet, TypeOK
<1>11. Place(Here', deliveredFirst', afterComma', Feed!Frontier')
  BY <1>8, <1>9, <1>10
<1>12. out' \in Seq(Handed)
  BY <1>0 DEF Track
<1>13. Track'
  BY <1>0, <1>1, <1>2, <1>6, <1>11, <1>12, TrackOpen
<1>. QED  BY <1>0, <1>13 DEF Feed!feedVars, readVars

LEMMA TrackComma ==
    ASSUME TypeOK, BufferWindow, Track,
           NEW h \in head .. tail, NEW g \in head .. tail, CommaSkipped(h, g)
    PROVE  Track' /\ UNCHANGED Feed!feedVars
<1>0. /\ pc = "top" /\ head < tail /\ SkipsTo(head, h) /\ h < tail
      /\ hasStarted /\ buf[h] = "comma"
      /\ StrayComma => tolerant /\ api # "NextRawBlock"
      /\ SkipsTo(h + 1, g) /\ head' = g /\ afterComma' = TRUE
      /\ UNCHANGED <<readVars, out, hasStarted, hasEnded, deliveredFirst, tailTruncated>>
  BY DEF CommaSkipped, TopAt
<1>1. ~hasEnded /\ ~tailTruncated
  BY <1>0 DEF Track, OpenWhileLooping
<1>2. Still
  BY <1>0 DEF Still, Track, readVars
<1>3. /\ Abs(h) \in Here .. Len(input) /\ Here \in 0 .. Len(input) /\ Len(input) \in Nat
      /\ \A k \in Here .. (Abs(h) - 1) : Feed!At(k) = "space"
      /\ Abs(h) < Len(input) /\ Feed!At(Abs(h)) = "comma"
      /\ head \in Nat /\ tail \in Nat
  <2>1. head \in head .. tail /\ h \in head .. tail
    BY AbsType
  <2>. QED  BY <1>0, <2>1, AbsType, SkipsInput DEF Here
<1>4. Feed!IsArray /\ Place(Here, deliveredFirst, afterComma, Feed!Frontier)
  BY <1>0, <1>1 DEF Track, AtPlace
<1>5. Place(Abs(h), deliveredFirst, afterComma, Feed!Frontier)
  BY <1>3, <1>4, PlaceSpaces
<1>6. Place(Abs(h) + 1, deliveredFirst, TRUE, Feed!Frontier)
  <2>1. afterComma \/ ~deliveredFirst => tolerant
    BY <1>0 DEF StrayComma
  <2>2. Abs(h) < Len(input) /\ Feed!At(Abs(h)) = "comma"
    BY <1>3
  <2>. QED  BY <1>3, <1>4, <1>5, <2>1, <2>2, PlaceComma
<1>7. g \in (h + 1) .. tail /\ h + 1 \in head .. tail
  BY <1>0, <1>3 DEF SkipsTo
<1>8. /\ Abs(g) \in Abs(h + 1) .. Len(input)
      /\ \A k \in Abs(h + 1) .. (Abs(g) - 1) : Feed!At(k) = "space"
      /\ g < tail => buf[g] # "space"
  BY <1>0, <1>7, SkipsInput
<1>9. Abs(h + 1) = Abs(h) + 1
  BY <1>3, <1>7, AbsType DEF Abs
<1>10. Place(Abs(g), deliveredFirst, TRUE, Feed!Frontier)
  BY <1>3, <1>4, <1>6, <1>8, <1>9, PlaceSpaces
<1>11. Here' = Abs(g) /\ Feed!Frontier' = Feed!Frontier
  BY <1>0 DEF Here, Abs, readVars, Feed!Frontier
<1>12. Place(Here', deliveredFirst', afterComma', Feed!Frontier')
  BY <1>0, <1>10, <1>11
<1>13. pc' = "scan" => g < tail /\ buf[g] \notin {"rbracket", "space"}
  <2>1. pc' = "scan" => g < tail /\ buf[g] # "rbracket"
    BY DEF CommaSkipped, Return
  <2>. QED  BY <1>8, <2>1
<1>14. pc' = "scan" => Scanning'
  BY <1>0, <1>13 DEF Scanning, readVars
<1>15. out' \in Seq(Handed)
  BY <1>0 DEF Track
<1>16. Track'
  BY <1>0, <1>1, <1>2, <1>4, <1>12, <1>14, <1>15, TrackOpen
<1>. QED  BY <1>0, <1>16 DEF Feed!feedVars, readVars

-----------------------------------------------------------------------------
\* The closing bracket is reached when every element has been handed out.
LEMMA TrackClose ==
    ASSUME TypeOK, BufferWindow, Track, NEW h \in head .. tail, TopClose(h)
    PROVE  Track' /\ Feed!Close
<1>0. /\ pc = "top" /\ head < tail /\ SkipsTo(head, h) /\ h < tail
      /\ hasStarted /\ buf[h] = "rbracket" /\ head' = h /\ hasEnded' /\ pc' = "idle"
      /\ UNCHANGED <<readVars, out, hasStarted, deliveredFirst, afterComma, tailTruncated>>
  BY DEF TopClose, TopAt, Return, histVars
<1>1. ~hasEnded /\ ~tailTruncated
  BY <1>0 DEF Track, OpenWhileLooping
<1>3. /\ Abs(h) \in Here .. Len(input) /\ Here \in 0 .. Len(input) /\ Len(input) \in Nat
      /\ \A k \in Here .. (Abs(h) - 1) : Feed!At(k) = "space"
      /\ Abs(h) < Len(input) /\ Feed!At(Abs(h)) = "rbracket"
  <2>1. head \in head .. tail /\ h \in head .. tail
    BY AbsType
  <2>. QED  BY <1>0, <2>1, AbsType, SkipsInput DEF Here
<1>4. Feed!IsArray /\ Place(Here, deliveredFirst, afterComma, Feed!Frontier)
  BY <1>0, <1>1 DEF Track, AtPlace
<1>. DEFINE p == Abs(h)
<1>5. Place(p, deliveredFirst, afterComma, Feed!Frontier)
  BY <1>3, <1>4, PlaceSpaces
<1>6. /\ p \in Nat /\ Feed!Cuts \subseteq Nat /\ Feed!Frontier \in Int
      /\ p < Len(input) /\ Feed!At(p) = "rbracket"
  BY <1>3, <1>4, <1>5, PlaceType
<1>. HIDE DEF p
<1>7. Feed!Closed /\ \A c \in Feed!Cuts : c <= p
  BY <1>3, <1>4, <1>5, <1>6, ClosingCut DEF Place
<1>8. /\ afterComma \/ ~deliveredFirst => p \in Feed!Empties
      /\ ~(afterComma \/ ~deliveredFirst) => p = Feed!Frontier
  BY <1>3, <1>4, <1>5, <1>6, PlaceEmpty
<1>9. ASSUME NEW c \in Feed!Ahead PROVE c \notin Feed!Elements
  <2>1. c \in Feed!Cuts /\ Feed!Frontier < c /\ c <= p
    BY <1>6, <1>7 DEF Feed!Ahead
  <2>2. CASE c = p
    <3>1. p \in Feed!Empties
      BY <1>6, <1>8, <2>1, <2>2
    <3>. QED  BY <2>2, <3>1 DEF Feed!Elements
  <2>3. CASE c # p
    <3>1. c \in Before(p)
      BY <1>6, <2>1, <2>3 DEF Before
    <3>. QED  BY <1>5, <2>1, <3>1 DEF Place, Feed!Elements
  <2>. QED  BY <2>2, <2>3
<1>10. Feed!Close
  <2>1. hasEnded' = TRUE
    BY DEF TopClose
  <2>. QED  BY <1>0, <1>1, <1>7, <1>9, <2>1 DEF Feed!Close, readVars
<1>11. Feed!IsArray' /\ Feed!Closed'
  BY <1>0, <1>4, <1>7, SameFeed DEF readVars
<1>12. Track'
  BY <1>0, <1>1, <1>11 DEF Track, OpenWhileLooping, readVars
<1>. QED  BY <1>10, <1>12

-----------------------------------------------------------------------------
\* At the end of the file, with no cut left in the buffer, none is left at all.
LEMMA NoCutLeft ==
    ASSUME TypeOK, BufferWindow, Track, isEOF, ~hasEnded, ~tailTruncated, hasStarted,
           Cuts = {}
    PROVE  /\ \A d \in Feed!Cuts : d < Here
           /\ ~Feed!Closed /\ Feed!Ahead \cap Feed!Elements = {}
           /\ Abs(tail) = Len(input)
<1>1. Feed!IsArray /\ Place(Here, deliveredFirst, afterComma, Feed!Frontier)
  BY DEF Track, AtPlace
<1>2. /\ Len(input) \in Nat /\ Here \in 0 .. Len(input) /\ Abs(tail) = Len(input)
      /\ Feed!Cuts \subseteq Nat
  BY <1>1, AbsType, PlaceType DEF Track
<1>3. Aligned
  BY <1>1 DEF Aligned, Place
<1>4. ASSUME NEW d \in Feed!Cuts PROVE d < Here
  <2>. SUFFICES ASSUME d >= Here PROVE FALSE
    BY <1>2
  <2>1. d < Len(input)
    BY <1>1, <1>2, CutsAre
  <2>2. \E i \in Cuts : d = Abs(i)
    BY <1>2, <1>3, <2>1, SameCuts
  <2>. QED  BY <2>2
<1>. QED  BY <1>1, <1>2, <1>4, PlaceDone

\* What the buffer holds then is the rest of the input.
LEMMA RestHere ==
    ASSUME TypeOK, BufferWindow, Track, isEOF, pc = "scan", Cuts = {}
    PROVE  /\ ~Feed!Closed /\ Feed!Ahead \cap Feed!Elements = {}
           /\ Feed!RestStart = Here /\ Feed!Rest = Window(head, tail)
           /\ hasStarted /\ ~hasEnded /\ ~tailTruncated
<1>1. hasStarted /\ ~hasEnded /\ ~tailTruncated /\ Scanning
  BY DEF Track, OpenWhileLooping, Scanning
<1>2. /\ \A d \in Feed!Cuts : d < Here
      /\ ~Feed!Closed /\ Feed!Ahead \cap Feed!Elements = {}
      /\ Abs(tail) = Len(input)
  BY <1>1, NoCutLeft
<1>3. Feed!IsArray /\ Place(Here, deliveredFirst, afterComma, Feed!Frontier)
  BY <1>1 DEF Track, AtPlace
<1>4. /\ Len(input) \in Nat /\ head \in head .. (tail - 1) /\ head \in head .. tail
      /\ tail \in head .. tail
  <2>1. Len(input) \in Nat /\ head \in Nat /\ tail \in Nat
    BY AbsType
  <2>2. head < tail
    BY <1>1 DEF Scanning
  <2>. QED  BY <2>1, <2>2
<1>5. Here \in (Feed!Opening + 1) .. Len(input)
  BY <1>3, <1>4, PlaceType
<1>6. Before(Here) = Feed!Cuts
  BY <1>2 DEF Before
<1>7. Behind(Feed!Cuts, Here)
  BY <1>1, <1>3, <1>6 DEF Place, Scanning
<1>8. Feed!At(Here) # "space"
  <2>1. buf[head] = Feed!At(Abs(head))
    BY <1>4, AbsType
  <2>. QED  BY <1>1, <2>1 DEF Here, Scanning
<1>9. Feed!RestStart = Here
  BY <1>3, <1>4, <1>5, <1>7, <1>8, RestStartIs
<1>10. Window(head, tail) = Feed!Slice(Here, Len(input))
  BY <1>2, <1>4, WindowIs DEF Here
<1>. QED  BY <1>1, <1>2, <1>9, <1>10 DEF Feed!Rest

\* The bytes handed out are bytes of the input.
LEMMA HandedType ==
    ASSUME TypeOK, BufferWindow, NEW e \in head .. tail,
           NEW k \in {"raw", "record", "damaged", "block", "fragment"}, NEW n \in Nat
    PROVE  [at |-> Here, bytes |-> Window(head, e), kind |-> k, count |-> n] \in Handed
<1>0. head \in Nat /\ e \in Nat /\ tail \in Nat /\ head <= e /\ e <= tail
  BY AbsType
<1>1. Here \in Nat
  BY AbsType
<1>2. \A i \in head .. (e - 1) : buf[i] \in Byte
  <2>. SUFFICES ASSUME NEW i \in head .. (e - 1) PROVE buf[i] \in Byte
    OBVIOUS
  <2>1. i \in head .. (tail - 1)
    BY <1>0
  <2>4. /\ Abs(i) \in Here .. (Len(input) - 1) /\ buf[i] = Feed!At(Abs(i))
        /\ Len(input) \in Nat
    BY <2>1, AbsType
  <2>2. Abs(i) \in 0 .. (Len(input) - 1) /\ buf[i] = Feed!At(Abs(i)) /\ Len(input) \in Nat
    BY <1>1, <2>4
  <2>3. input \in Seq(Byte)
    BY StreamAssumption DEF TypeOK
  <2>. QED  BY <2>2, <2>3 DEF Feed!At
<1>3. Window(head, e) \in Seq(Byte)
  <2>1. \A m \in 1 .. (e - head) : buf[head + m - 1] \in Byte
    <3>. SUFFICES ASSUME NEW m \in 1 .. (e - head) PROVE buf[head + m - 1] \in Byte
      OBVIOUS
    <3>1. head + m - 1 \in head .. (e - 1)
      BY <1>0
    <3>. QED  BY <1>2, <3>1
  <2>2. e - head \in Nat
    BY <1>0
  <2>. QED  BY <2>1, <2>2 DEF Window
<1>. QED  BY <1>1, <1>3 DEF Handed

LEMMA AppendLast ==
    ASSUME NEW S, NEW s \in Seq(S), NEW x \in S
    PROVE  /\ Append(s, x) \in Seq(S) /\ Append(s, x) # <<>> /\ Append(s, x) # s
           /\ Append(s, x)[Len(Append(s, x))] = x
OBVIOUS

-----------------------------------------------------------------------------
\* A truncation is latched when nothing whole is left.
LEMMA TrackCutOff ==
    ASSUME TypeOK, BufferWindow, Track, ~hasEnded, ~tailTruncated,
           NEW bytes, TruncatedNow(bytes), UNCHANGED readVars,
           \/ ~Feed!Closed /\ Feed!Ahead \cap Feed!Elements = {}
           \/ \E c \in Feed!Ahead \cap Feed!Empties : \A d \in Feed!Ahead : c <= d,
           bytes # <<>> => /\ Feed!RestStart = Here /\ Feed!Rest = bytes
                           /\ bytes = Window(head, tail),
           ~hasStarted => bytes = <<>> /\ head' = head
    PROVE  Track' /\ Feed!Truncate
<1>. DEFINE entry == [at |-> Here, bytes |-> bytes, kind |-> "fragment", count |-> 0]
<1>0. /\ tailTruncated' = TRUE /\ hasEnded' = hasEnded /\ hasStarted' = hasStarted
      /\ deliveredFirst' = deliveredFirst /\ afterComma' = afterComma
      /\ pc' = "idle"
      /\ out' = out \/ (bytes # <<>> /\ out' = Append(out, entry))
  BY DEF TruncatedNow, Return, Here
<1>1. bytes # <<>> => entry \in Handed
  <2>. SUFFICES ASSUME bytes # <<>>
                PROVE  [at |-> Here, bytes |-> Window(head, tail), kind |-> "fragment",
                        count |-> 0] \in Handed
    OBVIOUS
  <2>1. tail \in head .. tail
    BY AbsType
  <2>. QED  BY <2>1, HandedType
<1>2. out' \in Seq(Handed)
  <2>1. out \in Seq(Handed)
    BY DEF Track
  <2>. HIDE DEF entry
  <2>. QED  BY <1>0, <1>1, <2>1
<1>3. Still
  BY DEF Still, Track, readVars
<1>4. ~hasStarted => Here' = Here /\ UNCHANGED <<out, deliveredFirst, afterComma>>
  BY <1>0 DEF Here, Abs, readVars
<1>5. Track'
  BY <1>0, <1>2, <1>3, <1>4, TrackTruncated
<1>6. bytes # <<>> => entry = Feed!Entry(Feed!RestStart, Len(input), "fragment", 0)
  BY DEF Feed!Entry, Feed!Rest
<1>7. Feed!Truncate
  <2>1. out' \in {out, Append(out, Feed!Entry(Feed!RestStart, Len(input), "fragment", 0))}
    BY <1>0, <1>6
  <2>2. input' = input /\ tolerant' = tolerant
    BY DEF readVars
  <2>. QED  BY <1>0, <2>1, <2>2 DEF Feed!Truncate
<1>. QED  BY <1>5, <1>7

LEMMA TrackDrained ==
    ASSUME TypeOK, BufferWindow, Track, TopDrained
    PROVE  Track' /\ Feed!Truncate
<1>0. /\ pc = "top" /\ head >= tail /\ isEOF /\ TruncatedNow(<<>>)
      /\ UNCHANGED readVars /\ head' = head
  BY DEF TopDrained
<1>1. ~hasEnded /\ ~tailTruncated
  BY <1>0 DEF Track, OpenWhileLooping
<1>2. ~Feed!Closed /\ Feed!Ahead \cap Feed!Elements = {}
  <2>1. CASE hasStarted
    <3>1. Cuts = {}
      BY <1>0, AbsType DEF Cuts
    <3>. QED  BY <1>0, <1>1, <2>1, <3>1, NoCutLeft
  <2>2. CASE ~hasStarted
    <3>1. Here = Len(input) /\ Len(input) \in Nat
      <4>1. head = tail
        BY <1>0, AbsType
      <4>. QED  BY <1>0, <4>1, AbsType DEF Here, Track
    <3>2. \A k \in 0 .. (Len(input) - 1) : Feed!At(k) = "space"
      BY <2>2, <3>1 DEF Track, NotYet
    <3>3. ~Feed!IsArray
      BY <3>1, <3>2, OpeningType DEF Feed!IsArray
    <3>. QED  BY <3>3 DEF Feed!Cuts, Feed!Closed, Feed!Ahead
  <2>. QED  BY <2>1, <2>2
<1>. QED  BY <1>0, <1>1, <1>2, TrackCutOff

LEMMA TrackPartial ==
    ASSUME TypeOK, BufferWindow, Track, ChunkPartial \/ BlockPartial
    PROVE  Track' /\ Feed!Truncate
<1>0. /\ pc = "scan" /\ isEOF /\ Cuts = {} /\ TruncatedNow(Window(head, tail))
      /\ UNCHANGED readVars
  BY DEF ChunkPartial, BlockPartial
<1>1. /\ ~Feed!Closed /\ Feed!Ahead \cap Feed!Elements = {}
      /\ Feed!RestStart = Here /\ Feed!Rest = Window(head, tail)
      /\ hasStarted /\ ~hasEnded /\ ~tailTruncated
  BY <1>0, RestHere
<1>. QED  BY <1>0, <1>1, TrackCutOff

\* A complete last element goes out with the truncation.
LEMMA TrackSalvage ==
    ASSUME TypeOK, BufferWindow, Track, ChunkSalvage \/ BlockSalvage
    PROVE  Track' /\ Feed!Salvage
<1>. DEFINE s == Window(head, tail)
            K == Feed!Kinds(s) \cup {"block"}
<1>0. /\ pc = "scan" /\ isEOF /\ Cuts = {} /\ Feed!IsValue(s)
      /\ tailTruncated' = TRUE /\ pc' \in {"idle", "enter"}
      /\ UNCHANGED <<readVars, hasStarted, hasEnded, deliveredFirst, afterComma>>
  BY DEF ChunkSalvage, BlockSalvage, HandOut, Return
<1>1. /\ ~Feed!Closed /\ Feed!Ahead \cap Feed!Elements = {}
      /\ Feed!RestStart = Here /\ Feed!Rest = s
      /\ hasStarted /\ ~hasEnded /\ ~tailTruncated
  BY <1>0, RestHere
<1>2. \E k \in K : out' = Append(out, [at |-> Here, bytes |-> s, kind |-> k, count |-> 1])
  <2>1. CASE ChunkSalvage
    BY <2>1 DEF ChunkSalvage, HandOut, Feed!Kinds, Here
  <2>2. CASE BlockSalvage
    BY <2>2 DEF BlockSalvage, Here
  <2>. QED  BY <2>1, <2>2
<1>3. PICK k \in K : out' = Append(out, [at |-> Here, bytes |-> s, kind |-> k, count |-> 1])
  BY <1>2
<1>4. k \in {"raw", "record", "damaged", "block", "fragment"}
  BY DEF Feed!Kinds
<1>5. [at |-> Here, bytes |-> s, kind |-> k, count |-> 1] \in Handed
  <2>1. tail \in head .. tail
    BY AbsType
  <2>. HIDE DEF K
  <2>. QED  BY <1>4, <2>1, HandedType
<1>6. out' \in Seq(Handed)
  <2>. DEFINE entry == [at |-> Here, bytes |-> s, kind |-> k, count |-> 1]
  <2>1. out \in Seq(Handed) /\ entry \in Handed /\ out' = Append(out, entry)
    BY <1>3, <1>5 DEF Track
  <2>. HIDE DEF entry
  <2>. QED  BY <2>1
<1>7. Still
  BY <1>0 DEF Still, Track, readVars
<1>8. Track'
  BY <1>0, <1>1, <1>6, <1>7, TrackTruncated
<1>9. Feed!Salvage
  <2>1. Feed!Entry(Feed!RestStart, Len(input), k, 1)
          = [at |-> Here, bytes |-> s, kind |-> k, count |-> 1]
    BY <1>1 DEF Feed!Entry, Feed!Rest
  <2>2. input' = input /\ tolerant' = tolerant
    BY <1>0 DEF readVars
  <2>3. \E x \in Feed!Kinds(Feed!Rest) \cup {"block"} :
          out' = Append(out, Feed!Entry(Feed!RestStart, Len(input), x, 1))
    BY <1>1, <1>3, <2>1
  <2>. HIDE DEF s
  <2>. QED  BY <1>0, <1>1, <2>2, <2>3 DEF Feed!Salvage, s
<1>. QED  BY <1>8, <1>9

\* Elements go out together, from c on to the one cut off at buffer index e.
LEMMA TrackDeliver ==
    ASSUME TypeOK, BufferWindow, Track, pc = "scan",
           NEW e \in head .. (tail - 1), head < e,
           NEW c \in Feed!Elements, Abs(e) \in Feed!Elements,
           Feed!Frontier < c, c <= Abs(e), Feed!ElementStart(c) = Here,
           {b \in Feed!Ahead : c <= b /\ b <= Abs(e)} \subseteq Feed!Elements,
           \A b \in Feed!Cuts : b < c => b < Here,
           NEW k \in Feed!Kinds(Window(head, e)) \cup {"block"},
           k # "block" => c = Abs(e), NEW n \in Nat,
           n = Cardinality({b \in Feed!Ahead : c <= b /\ b <= Abs(e)}),
           out' = Append(out, [at |-> Here, bytes |-> Window(head, e),
                               kind |-> k, count |-> n]),
           head' = e, deliveredFirst' = TRUE, afterComma' = FALSE,
           pc' \in {"idle", "enter"},
           UNCHANGED <<readVars, hasStarted, hasEnded, tailTruncated>>
    PROVE  Track' /\ Feed!Deliver
<1>. DEFINE entry == [at |-> Here, bytes |-> Window(head, e), kind |-> k, count |-> n]
<1>1. hasStarted /\ ~hasEnded /\ ~tailTruncated
  BY DEF Track, OpenWhileLooping, Scanning
<1>2. Feed!IsArray /\ Place(Here, deliveredFirst, afterComma, Feed!Frontier)
  BY <1>1 DEF Track, AtPlace
<1>3. /\ head \in Nat /\ e \in Nat /\ tail \in Nat /\ Len(input) \in Nat
      /\ e \in head .. tail /\ head \in head .. tail
  <2>1. head \in Nat /\ tail \in Nat /\ Len(input) \in Nat
    BY AbsType
  <2>. QED  BY <2>1
<1>4. Abs(e) = Here + (e - head) /\ Here \in Nat /\ Abs(e) \in Nat
  <2>1. Abs(e) = Here + (e - head) /\ Here \in Nat
    BY <1>3, AbsType
  <2>. QED  BY <1>3, <2>1
<1>5. Window(head, e) = Feed!Slice(Here, Abs(e)) /\ Len(Window(head, e)) = e - head
  BY <1>3, WindowIs DEF Here
<1>6. entry \in Handed
  <2>1. k \in {"raw", "record", "damaged", "block", "fragment"}
    BY DEF Feed!Kinds
  <2>. QED  BY <1>3, <2>1, HandedType
<1>7. /\ out' \in Seq(Handed) /\ out' # <<>> /\ out' # out
      /\ out'[Len(out')] = entry
  <2>1. out \in Seq(Handed) /\ out' = Append(out, entry)
    BY DEF Track
  <2>. HIDE DEF entry
  <2>. QED  BY <1>6, <2>1, AppendLast
<1>8. Feed!Frontier' = Abs(e)
  BY <1>4, <1>5, <1>7 DEF Feed!Frontier
<1>9. Here' = Abs(e)
  BY DEF Here, Abs, readVars
<1>10. Place(Here', deliveredFirst', afterComma', Feed!Frontier')
  <2>1. Place(Abs(e), TRUE, FALSE, Abs(e))
    BY <1>2, <1>3, PlaceElement
  <2>. QED  BY <1>8, <1>9, <2>1
<1>11. Still
  BY DEF Still, Track, readVars
<1>12. Track'
  BY <1>1, <1>2, <1>7, <1>10, <1>11, TrackOpen
<1>13. Feed!Deliver
  <2>. DEFINE d == Abs(e)
              cut == {b \in Feed!Ahead : c <= b /\ b <= d}
  <2>0. c \in Nat /\ Feed!Frontier \in Int /\ c \in Feed!Cuts /\ d \in Feed!Cuts
    BY <1>2, <1>3, PlaceType DEF Feed!Elements
  <2>1. c \in Feed!Ahead \cap Feed!Elements /\ d \in Feed!Ahead \cap Feed!Elements
    BY <1>4, <2>0 DEF Feed!Ahead
  <2>2. cut # {} /\ cut \subseteq Feed!Elements
    BY <1>4, <2>0, <2>1
  <2>3. ASSUME NEW b \in Feed!Ahead, b < c PROVE tolerant /\ b \in Feed!Empties
    <3>1. b \in Before(Here) /\ Feed!Frontier < b
      BY <2>3, <2>0, PlaceType, <1>2, <1>3 DEF Feed!Ahead, Before
    <3>. QED  BY <1>2, <3>1 DEF Place
  <2>4. Feed!Entry(Feed!ElementStart(c), d, k, Feed!Cardinality(cut)) = entry
    BY <1>5, FeedCardinality DEF Feed!Entry
  <2>5. k \in Feed!Kinds(Feed!Slice(Feed!ElementStart(c), d)) \cup {"block"}
    BY <1>5
  <2>6. input' = input /\ tolerant' = tolerant /\ UNCHANGED <<hasEnded, tailTruncated>>
    BY DEF readVars
  <2>7. out' = Append(out, Feed!Entry(Feed!ElementStart(c), d, k, Feed!Cardinality(cut)))
    BY <2>4
  <2>8. k # "block" => c = d
    OBVIOUS
  <2>. HIDE DEF d, entry
  <2>9. \E x \in Feed!Kinds(Feed!Slice(Feed!ElementStart(c), d)) \cup {"block"} :
          /\ x # "block" => c = d
          /\ out' = Append(out, Feed!Entry(Feed!ElementStart(c), d, x, Feed!Cardinality(cut)))
    BY <2>5, <2>7, <2>8
  <2>10. LET block == {b \in Feed!Ahead : c <= b /\ b <= d}
             s     == Feed!ElementStart(c)
         IN  /\ block # {} /\ block \subseteq Feed!Elements
             /\ \A b \in Feed!Ahead : b < c => (tolerant /\ b \in Feed!Empties)
             /\ \E x \in Feed!Kinds(Feed!Slice(s, d)) \cup {"block"} :
                  /\ x # "block" => c = d
                  /\ out' = Append(out, Feed!Entry(s, d, x, Feed!Cardinality(block)))
    BY <2>2, <2>3, <2>9, Zenon
  <2>11. out' # out
    BY <1>7
  <2>12. (IF hasEnded THEN "ended"
          ELSE IF tailTruncated THEN "truncated" ELSE "open") = "open"
    BY <1>1
  <2>13. UNCHANGED <<input, tolerant, IF hasEnded THEN "ended"
                     ELSE IF tailTruncated THEN "truncated" ELSE "open">>
    BY <2>6
  <2>. QED  BY <2>1, <2>10, <2>11, <2>12, <2>13, Zenon DEF Feed!Deliver
<1>. QED  BY <1>12, <1>13

-----------------------------------------------------------------------------
\* The cuts of the buffer, seen from the splitter.
LEMMA LocalCuts ==
    ASSUME TypeOK, BufferWindow, Track, pc = "scan"
    PROVE  /\ Aligned /\ hasStarted /\ ~hasEnded /\ ~tailTruncated
           /\ Feed!IsArray /\ Place(Here, deliveredFirst, afterComma, Feed!Frontier)
           /\ afterComma \/ ~deliveredFirst
           /\ head \in Nat /\ tail \in Nat /\ Here \in Nat /\ Len(input) \in Nat
           /\ Here < Len(input) /\ Feed!At(Here) # "space"
           /\ Cuts \subseteq head .. (tail - 1) /\ Cuts \subseteq Nat /\ Feed!Cuts \subseteq Nat
           /\ \A i \in Cuts : Abs(i) \in Feed!Cuts /\ Abs(i) = Here + (i - head)
           /\ \A c \in Feed!Cuts : c < Here \/ c >= Abs(tail) \/ \E i \in Cuts : c = Abs(i)
<1>1. hasStarted /\ ~hasEnded /\ ~tailTruncated /\ Scanning
  BY DEF Track, OpenWhileLooping, Scanning
<1>2. Feed!IsArray /\ Place(Here, deliveredFirst, afterComma, Feed!Frontier)
  BY <1>1 DEF Track, AtPlace
<1>3. Aligned
  BY <1>1, <1>2 DEF Aligned, Place
<1>4. head \in Nat /\ tail \in Nat /\ Here \in Nat /\ Len(input) \in Nat
  BY AbsType
<1>5. Here < Len(input) /\ Feed!At(Here) # "space"
  <2>1. head \in head .. (tail - 1)
    BY <1>1, <1>4 DEF Scanning
  <2>2. buf[head] = Feed!At(Abs(head)) /\ Abs(head) \in Here .. (Len(input) - 1)
    BY <2>1, AbsType
  <2>. QED  BY <1>1, <1>4, <2>2 DEF Here, Scanning
<1>6. Cuts \subseteq head .. (tail - 1) /\ Cuts \subseteq Nat
  BY <1>4 DEF Cuts
<1>7. Feed!Cuts \subseteq Nat
  BY <1>2, <1>4, PlaceType
<1>8. ASSUME NEW i \in Cuts PROVE Abs(i) \in Feed!Cuts /\ Abs(i) = Here + (i - head)
  <2>1. i \in head .. (tail - 1) /\ i \in Int
    BY <1>6
  <2>. QED  BY <1>3, <2>1, SameCuts, AbsType
<1>9. ASSUME NEW c \in Feed!Cuts
      PROVE  c < Here \/ c >= Abs(tail) \/ \E i \in Cuts : c = Abs(i)
  <2>1. c \in Nat /\ Abs(tail) \in Nat
    BY <1>7, AbsType
  <2>. QED  BY <1>3, <1>4, <2>1, SameCuts
<1>. QED  BY <1>1, <1>2, <1>3, <1>4, <1>5, <1>6, <1>7, <1>8, <1>9 DEF Scanning

\* The first cut of the buffer ends the element the scan began.
LEMMA FirstElement ==
    ASSUME TypeOK, BufferWindow, Track, pc = "scan", NEW e \in Cuts, FirstCut(e)
    PROVE  /\ \A d \in Feed!Cuts : d < Abs(e) => d < Here
           /\ Feed!ElementStart(Abs(e)) = Here
           /\ e > head => Abs(e) \in Feed!Elements /\ Feed!Frontier < Abs(e)
<1>0. /\ Feed!IsArray /\ Place(Here, deliveredFirst, afterComma, Feed!Frontier)
      /\ afterComma \/ ~deliveredFirst
      /\ head \in Nat /\ tail \in Nat /\ Here \in Nat /\ Len(input) \in Nat
      /\ Here < Len(input) /\ Feed!At(Here) # "space"
      /\ e \in head .. (tail - 1) /\ e \in Nat /\ Feed!Cuts \subseteq Nat
      /\ Cuts \subseteq Nat
      /\ Abs(e) \in Feed!Cuts /\ Abs(e) = Here + (e - head)
  BY LocalCuts
<1>1. ASSUME NEW d \in Feed!Cuts, d < Abs(e) PROVE d < Here
  <2>. SUFFICES ASSUME ~(d < Here) PROVE FALSE
    OBVIOUS
  <2>1. Abs(tail) = Here + (tail - head)
    BY <1>0, AbsType
  <2>2. PICK i \in Cuts : d = Abs(i)
    BY <1>0, <1>1, <2>1, LocalCuts
  <2>3. e <= i /\ i \in Nat /\ Abs(i) = Here + (i - head)
    BY <1>0, LocalCuts DEF FirstCut
  <2>. QED  BY <1>0, <1>1, <2>2, <2>3
<1>. DEFINE c == Abs(e)
<1>2. c \in Feed!Cuts /\ Here <= c /\ (e > head => Here < c)
  BY <1>0
<1>3. \A d \in Feed!Cuts : d < c => d < Here
  BY <1>1
<1>. HIDE DEF c
<1>4. Feed!ElementStart(c) = Here /\ (Here < c => c \in Feed!Elements /\ Feed!Frontier < c)
  BY <1>0, <1>2, <1>3, PlaceScan
<1>. QED  BY <1>1, <1>2, <1>4 DEF c

LEMMA TrackElement ==
    ASSUME TypeOK, BufferWindow, Track, NEW e \in head .. tail, ChunkElement(e)
    PROVE  Track' /\ Feed!Deliver
<1>. DEFINE s == Window(head, e)
            K == Feed!Kinds(s) \cup {"block"}
            c == Abs(e)
<1>0. /\ pc = "scan" /\ e \in Cuts /\ FirstCut(e) /\ e > head
      /\ head' = e /\ deliveredFirst' = TRUE /\ afterComma' = FALSE
      /\ pc' \in {"idle", "enter"}
      /\ UNCHANGED <<readVars, hasStarted, hasEnded, tailTruncated>>
  BY DEF ChunkElement, FirstCut, HandOut, Return
<1>1. /\ e \in head .. (tail - 1) /\ e \in Nat /\ head < e /\ Feed!Cuts \subseteq Nat
      /\ Abs(e) \in Feed!Cuts
  BY <1>0, LocalCuts
<1>2. /\ \A d \in Feed!Cuts : d < Abs(e) => d < Here
      /\ Feed!ElementStart(Abs(e)) = Here
      /\ Abs(e) \in Feed!Elements /\ Feed!Frontier < Abs(e)
  BY <1>0, FirstElement
<1>3. \E k \in K : out' = Append(out, [at |-> Here, bytes |-> s, kind |-> k, count |-> 1])
  BY DEF ChunkElement, HandOut, Feed!Kinds, Here
<1>4. PICK k \in K : out' = Append(out, [at |-> Here, bytes |-> s, kind |-> k, count |-> 1])
  BY <1>3
<1>5. {b \in Feed!Ahead : c <= b /\ b <= c} = {c}
  <2>1. c \in Feed!Ahead /\ c \in Nat /\ Feed!Ahead \subseteq Nat
    BY <1>1, <1>2 DEF Feed!Ahead
  <2>. HIDE DEF c
  <2>2. \A b \in Feed!Ahead : c <= b /\ b <= c <=> b = c
    BY <2>1
  <2>. QED  BY <2>1, <2>2
<1>6. Cardinality({c}) = 1
  BY FS_Singleton
<1>7. /\ c \in Feed!Elements /\ Abs(e) = c /\ c <= c
      /\ {b \in Feed!Ahead : c <= b /\ b <= c} \subseteq Feed!Elements
      /\ 1 = Cardinality({b \in Feed!Ahead : c <= b /\ b <= c})
  BY <1>1, <1>2, <1>5, <1>6
<1>. QED  BY <1>0, <1>1, <1>2, <1>4, <1>7, TrackDeliver

-----------------------------------------------------------------------------
\* The blocks of the scalar splitter.

LEMMA CutsAreFinite ==
    ASSUME TypeOK
    PROVE  \A S \in SUBSET Cuts : IsFiniteSet(S) /\ Cardinality(S) \in Nat
<1>1. IsFiniteSet(head .. (tail - 1)) /\ Cuts \subseteq head .. (tail - 1)
  <2>1. head \in Int /\ tail - 1 \in Int
    BY DEF TypeOK
  <2>. QED  BY <2>1, FS_Interval DEF Cuts
<1>. SUFFICES ASSUME NEW S \in SUBSET Cuts PROVE IsFiniteSet(S) /\ Cardinality(S) \in Nat
  OBVIOUS
<1>2. IsFiniteSet(S)
  BY <1>1, FS_Subset
<1>. QED  BY <1>2, FS_CardinalityType

\* The taken cuts are the first ones.
LEMMA TakenIsPrefix ==
    ASSUME TypeOK, NEW e \in Taken, NEW c \in Cuts, c <= e
    PROVE  c \in Taken
<1>. DEFINE S == {d \in Cuts : d < c}
            T == {d \in Cuts : d < e}
<1>0. Cuts \subseteq Int /\ e \in Int /\ c \in Int
  BY DEF Cuts, Taken, TypeOK
<1>1. S \in SUBSET T /\ T \in SUBSET Cuts /\ S \in SUBSET Cuts
  <2>1. \A d \in Cuts : d < c => d < e
    BY <1>0
  <2>. QED  BY <2>1
<1>2. IsFiniteSet(T) /\ Cardinality(T) \in Nat /\ Cardinality(S) \in Nat
  BY <1>1, CutsAreFinite
<1>3. Cardinality(T) < MaxCount
  BY DEF Taken
<1>. HIDE DEF S, T
<1>4. Cardinality(S) <= Cardinality(T)
  BY <1>1, <1>2, FS_Subset
<1>5. Cardinality(S) < MaxCount
  BY <1>2, <1>3, <1>4, StreamAssumption
<1>. QED  BY <1>5 DEF S, Taken

\* Before the last taken cut every cut is a comma.
LEMMA CutIsComma ==
    ASSUME TypeOK, NEW c \in Cuts, NEW d \in Cuts, c < d
    PROVE  buf[c] = "comma"
<1>1. c \in head .. (d - 1)
  BY DEF Cuts, TypeOK
<1>2. buf[c] \in {"comma", "rbracket"} /\ DepthAt(c) = 0 /\ ~Stops(c)
  BY <1>1 DEF Cuts
<1>. QED  BY <1>2 DEF Stops

\* Where the chunk cut off at c starts, in the scalar splitter.
LastBefore(c) == CHOOSE d \in {a \in Cuts : a < c} : \A b \in {a \in Cuts : a < c} : b <= d

LEMMA LastBeforeIs ==
    ASSUME TypeOK, NEW c \in Cuts, {d \in Cuts : d < c} # {}
    PROVE  /\ LastBefore(c) \in Cuts /\ LastBefore(c) < c
           /\ \A b \in Cuts : b < c => b <= LastBefore(c)
<1>. DEFINE S == {d \in Cuts : d < c}
<1>1. S \subseteq 0 .. tail /\ tail \in Nat
  BY DEF Cuts, TypeOK
<1>. HIDE DEF S
<1>2. \E d \in S : \A b \in S : b <= d
  BY <1>1, Greatest DEF S
<1>3. LastBefore(c) \in S /\ \A b \in S : b <= LastBefore(c)
  BY <1>2 DEF LastBefore, S
<1>. QED  BY <1>3 DEF S

LEMMA StartIs ==
    ASSUME Kernel = "scalar", NEW c, NEW s
    PROVE  ChunkStart(c, s) <=> IF {d \in Cuts : d < c} = {} THEN s = head
                                ELSE SkipsTo(1 + LastBefore(c), s)
BY DEF ChunkStart, LastBefore

LEMMA SkipExists ==
    ASSUME TypeOK, NEW i \in 0 .. tail
    PROVE  \E j \in i .. tail : SkipsTo(i, j)
<1>. DEFINE S == {j \in i .. tail : j < tail => buf[j] # "space"}
<1>0. tail \in Nat
  BY DEF TypeOK
<1>1. S # {} /\ S \subseteq Nat
  <2>1. tail \in S
    BY <1>0
  <2>. QED  BY <2>1
<1>2. PICK m \in S : \A y \in S : m <= y
  <2>. HIDE DEF S
  <2>. QED  BY <1>1, Least
<1>3. \A k \in i .. (m - 1) : buf[k] = "space"
  <2>. SUFFICES ASSUME NEW k \in i .. (m - 1), buf[k] # "space" PROVE FALSE
    OBVIOUS
  <2>1. k \in S
    BY <1>0
  <2>. QED  BY <1>2, <2>1
<1>. QED  BY <1>2, <1>3 DEF SkipsTo

\* A chunk starts behind every cut before it.
LEMMA StartExists ==
    ASSUME TypeOK, Kernel = "scalar", NEW r \in Cuts, NEW c \in Cuts, c < r
    PROVE  \E s \in head .. tail : ChunkStart(r, s) /\ c < s
<1>1. {d \in Cuts : d < r} # {}
  OBVIOUS
<1>2. /\ LastBefore(r) \in Cuts /\ LastBefore(r) < r /\ c <= LastBefore(r)
  BY <1>1, LastBeforeIs
<1>3. /\ head \in Nat /\ tail \in Nat /\ Cuts \subseteq head .. (tail - 1)
  BY DEF TypeOK, Cuts
<1>. DEFINE i == 1 + LastBefore(r)
<1>4. i \in 0 .. tail /\ i \in head .. tail /\ c < i /\ c \in Nat
  <2>1. LastBefore(r) \in head .. (tail - 1) /\ c \in head .. (tail - 1)
    BY <1>2, <1>3
  <2>. QED  BY <1>2, <1>3, <2>1
<1>. HIDE DEF i
<1>5. PICK s \in i .. tail : SkipsTo(i, s)
  BY <1>4, SkipExists
<1>6. s \in head .. tail /\ c < s
  BY <1>3, <1>4
<1>7. ChunkStart(r, s)
  BY <1>1, <1>5, StartIs DEF i
<1>. QED  BY <1>6, <1>7

\* A block leaves no cut out: an empty chunk makes the gap around it invalid.
LEMMA BlockIsWhole ==
    ASSUME TypeOK, Kernel = "scalar", ~BadGap, NEW e \in Real,
           NEW c \in Cuts, c <= e
    PROVE  c \in Real
<1>. SUFFICES ASSUME c \notin Real PROVE FALSE
  OBVIOUS
<1>0. /\ Real \subseteq Cuts /\ Real \subseteq Taken /\ Cuts \subseteq head .. (tail - 1)
      /\ head \in Nat /\ tail \in Nat
  BY DEF Real, Taken, Cuts, TypeOK
<1>1. c \in Nat /\ e \in Nat /\ c < e /\ head <= c /\ Real \subseteq 0 .. tail
      /\ Cuts \subseteq Nat
  <2>1. c \in head .. (tail - 1) /\ e \in head .. (tail - 1)
    BY <1>0
  <2>. QED  BY <1>0, <2>1
<1>. DEFINE R == {r \in Real : c < r}
<1>2. R # {} /\ R \subseteq Nat
  <2>1. e \in R
    BY <1>1
  <2>2. \A r \in Real : r \in Nat
    BY <1>0, <1>1
  <2>. QED  BY <2>1, <2>2
<1>3. PICK r \in R : \A y \in R : r <= y
  <2>. HIDE DEF R
  <2>. QED  BY <1>2, Least
<1>4. r \in Real /\ r \in Cuts /\ c < r /\ r \in Nat
  BY <1>0, <1>1
<1>5. PICK s \in head .. tail : ChunkStart(r, s) /\ c < s
  BY <1>4, StartExists
<1>6. buf[c] = "comma"
  BY <1>4, CutIsComma
<1>. DEFINE before == {d \in Real : d < r}
            gap == IF before = {} THEN head
                   ELSE CHOOSE d \in before : \A b \in before : b <= d
<1>7. ValidGap(gap, s, before # {})
  BY <1>4, <1>5 DEF BadGap
<1>8. s \in Nat /\ head <= s
  BY <1>0
<1>9. CASE before = {}
  <2>. DEFINE S == {k \in head .. (s - 1) : buf[k] = "comma"}
  <2>1. Cardinality(S) = 0
    BY <1>7, <1>9 DEF ValidGap
  <2>2. c \in S
    BY <1>0, <1>1, <1>5, <1>6, <1>8
  <2>3. IsFiniteSet(S)
    <3>1. IsFiniteSet(head .. (s - 1)) /\ S \in SUBSET (head .. (s - 1))
      BY <1>0, <1>8, FS_Interval
    <3>. HIDE DEF S
    <3>. QED  BY <3>1, FS_Subset
  <2>. HIDE DEF S
  <2>. QED  BY <2>1, <2>2, <2>3, FS_EmptySet
<1>10. CASE before # {}
  <2>. DEFINE g == CHOOSE d \in before : \A b \in before : b <= d
              S == {k \in g .. (s - 1) : buf[k] = "comma"}
  <2>1. before \subseteq 0 .. tail
    BY <1>1
  <2>2. \E d \in before : \A b \in before : b <= d
    <3>. HIDE DEF before
    <3>. QED  BY <1>0, <1>10, <2>1, Greatest
  <2>3. g \in before
    BY <2>2
  <2>4. gap = g
    BY <1>10
  <2>. HIDE DEF g, gap
  <2>5. g \in Real /\ g < r /\ g \in Nat /\ g \in Cuts
    BY <1>0, <1>1, <2>3
  <2>6. g < c
    <3>1. g # c
      BY <2>5
    <3>2. ~(c < g)
      BY <1>3, <1>4, <2>5
    <3>. QED  BY <1>1, <2>5, <3>1, <3>2
  <2>7. buf[g] = "comma"
    BY <1>4, <2>5, CutIsComma
  <2>8. Cardinality(S) = 1
    BY <1>7, <1>10, <2>4 DEF ValidGap
  <2>9. g \in S /\ c \in S
    BY <1>1, <1>5, <1>6, <1>8, <2>5, <2>6, <2>7
  <2>10. IsFiniteSet(S)
    <3>0. g \in Int /\ s - 1 \in Int
      BY <1>8, <2>5
    <3>1. IsFiniteSet(g .. (s - 1)) /\ S \in SUBSET (g .. (s - 1))
      BY <3>0, FS_Interval
    <3>. HIDE DEF S
    <3>. QED  BY <3>1, FS_Subset
  <2>. HIDE DEF S
  <2>11. PICK x : S = {x}
    BY <2>8, <2>10, FS_Singleton
  <2>12. g = c
    BY <2>9, <2>11
  <2>. QED  BY <1>1, <2>5, <2>6, <2>12
<1>. QED  BY <1>9, <1>10

\* What the block counts are elements.
LEMMA RealIsElement ==
    ASSUME TypeOK, BufferWindow, Track, pc = "scan", Kernel = "scalar", NEW e \in Real
    PROVE  Abs(e) \in Feed!Elements
<1>0. /\ Feed!IsArray
      /\ head \in Nat /\ tail \in Nat /\ Here \in Nat /\ Len(input) \in Nat
      /\ Cuts \subseteq head .. (tail - 1) /\ Cuts \subseteq Nat /\ Feed!Cuts \subseteq Nat
      /\ Place(Here, deliveredFirst, afterComma, Feed!Frontier)
  BY LocalCuts
<1>1. e \in Cuts /\ ~ChunkStart(e, e)
  BY DEF Real, Taken
<1>2. Abs(e) \in Feed!Cuts /\ Abs(e) = Here + (e - head) /\ e \in Nat /\ head <= e
      /\ e \in head .. (tail - 1)
  BY <1>0, <1>1, LocalCuts
<1>3. CASE {d \in Cuts : d < e} = {}
  <2>1. e # head
    BY <1>1, <1>3, StartIs
  <2>2. FirstCut(e)
    BY <1>0, <1>1, <1>3 DEF FirstCut
  <2>. QED  BY <1>1, <1>2, <2>1, <2>2, <1>0, FirstElement
<1>4. CASE {d \in Cuts : d < e} # {}
  <2>. DEFINE m == LastBefore(e)
  <2>1. m \in Cuts /\ m < e /\ \A b \in Cuts : b < e => b <= m
    BY <1>1, <1>4, LastBeforeIs
  <2>2. ~SkipsTo(1 + m, e)
    BY <1>1, <1>4, StartIs
  <2>. HIDE DEF m
  <2>3. m \in Nat /\ head <= m /\ m \in head .. (tail - 1)
    BY <1>0, <2>1
  <2>4. buf[e] # "space"
    BY <1>1 DEF Cuts
  <2>5. PICK k \in (1 + m) .. (e - 1) : buf[k] # "space"
    BY <1>0, <1>2, <2>1, <2>2, <2>3, <2>4 DEF SkipsTo
  <2>6. k \in head .. (tail - 1) /\ k \in Nat /\ m < k /\ k < e
    BY <1>0, <1>2, <2>3
  <2>7. Abs(k) = Here + (k - head) /\ buf[k] = Feed!At(Abs(k))
    BY <1>0, <2>6, AbsType
  <2>. DEFINE a == Abs(k)
              c == Abs(e)
  <2>8. ASSUME NEW d \in Before(c) PROVE d < a
    <3>0. d \in Feed!Cuts /\ d < c /\ d \in Nat
      BY <1>0 DEF Before
    <3>1. CASE d < Here
      BY <1>0, <2>6, <2>7, <3>0, <3>1
    <3>2. CASE ~(d < Here)
      <4>1. Abs(tail) = Here + (tail - head)
        BY <1>0, AbsType
      <4>2. PICK i \in Cuts : d = Abs(i)
        BY <1>0, <1>2, <3>0, <3>2, <4>1, LocalCuts
      <4>3. i \in Nat /\ Abs(i) = Here + (i - head)
        BY <1>0, LocalCuts
      <4>4. i < e
        BY <1>0, <1>2, <3>0, <4>2, <4>3
      <4>5. i <= m
        BY <2>1, <4>4
      <4>. QED  BY <1>0, <2>3, <2>6, <2>7, <4>2, <4>3, <4>5
    <3>. QED  BY <3>1, <3>2
  <2>9. Feed!Opening \in Nat /\ Feed!Opening < Here
    BY <1>0, PlaceType
  <2>10. a \in (Feed!Opening + 1) .. (c - 1) /\ Feed!At(a) # "space" /\ c \in Feed!Cuts
    BY <1>0, <1>2, <2>5, <2>6, <2>7, <2>9
  <2>. HIDE DEF a, c
  <2>11. ~Feed!Empty(c)
    BY <1>0, <2>8, <2>10, EmptyGap
  <2>12. c \in Feed!Elements
    BY <2>10, <2>11 DEF Feed!Elements, Feed!Empties
  <2>. QED  BY <2>12 DEF c
<1>. QED  BY <1>3, <1>4

LEMMA TrackBlock ==
    ASSUME TypeOK, BufferWindow, Track, Kernel = "scalar",
           NEW e \in head .. tail, BlockElements(e)
    PROVE  Track' /\ Feed!Deliver
<1>. DEFINE s == Window(head, e)
            K == Feed!Kinds(s) \cup {"block"}
            n == Cardinality(Real)
<1>0. /\ pc = "scan" /\ ~BadGap /\ e \in Real /\ (\A c \in Real : c <= e)
      /\ out' = Append(out, [at |-> Here, bytes |-> s, kind |-> "block", count |-> n])
      /\ head' = e /\ deliveredFirst' = TRUE /\ afterComma' = FALSE
      /\ pc' = "idle"
      /\ UNCHANGED <<readVars, hasStarted, hasEnded, tailTruncated>>
  BY DEF BlockElements, Return, Here
<1>1. /\ head \in Nat /\ tail \in Nat /\ Here \in Nat
      /\ Cuts \subseteq head .. (tail - 1) /\ Cuts \subseteq Nat /\ Feed!Cuts \subseteq Nat
      /\ \A i \in Cuts : Abs(i) \in Feed!Cuts /\ Abs(i) = Here + (i - head)
  BY <1>0, LocalCuts
<1>2. Real \subseteq Cuts /\ e \in Cuts
  BY <1>0 DEF Real, Taken
<1>3. PICK f \in Cuts : \A y \in Cuts : f <= y
  <2>1. Cuts # {}
    BY <1>2
  <2>. QED  BY <1>1, <2>1, Least
<1>4. f \in Real
  <2>1. f <= e
    BY <1>2, <1>3
  <2>. QED  BY <1>0, <2>1, BlockIsWhole
<1>5. FirstCut(f) /\ f \in Nat /\ e \in Nat /\ f <= e
  BY <1>1, <1>2, <1>3 DEF FirstCut
<1>6. f > head
  <2>1. {d \in Cuts : d < f} = {}
    <3>1. \A d \in Cuts : d \in Nat /\ f \in Nat /\ f <= d
      BY <1>1, <1>3
    <3>2. \A d \in Cuts : ~(d < f)
      BY <3>1
    <3>. QED  BY <3>2
  <2>2. ~ChunkStart(f, f)
    BY <1>4 DEF Real
  <2>3. f # head
    BY <2>1, <2>2, StartIs
  <2>. QED  BY <1>1, <1>3, <2>3
<1>7. /\ \A d \in Feed!Cuts : d < Abs(f) => d < Here
      /\ Feed!ElementStart(Abs(f)) = Here
      /\ Abs(f) \in Feed!Elements /\ Feed!Frontier < Abs(f)
  BY <1>0, <1>5, <1>6, FirstElement
<1>8. /\ Abs(f) = Here + (f - head) /\ Abs(e) = Here + (e - head)
      /\ e \in head .. (tail - 1) /\ head < e /\ Abs(f) <= Abs(e)
  <2>1. Abs(f) = Here + (f - head) /\ Abs(e) = Here + (e - head)
    BY <1>1, <1>2
  <2>2. e \in head .. (tail - 1)
    BY <1>1, <1>2
  <2>. QED  BY <1>1, <1>5, <1>6, <2>1, <2>2
<1>9. Abs(e) \in Feed!Elements
  BY <1>0, RealIsElement
<1>. DEFINE block == {b \in Feed!Ahead : Abs(f) <= b /\ b <= Abs(e)}
<1>10. \A i \in Real : Abs(i) \in block /\ Abs(i) \in Feed!Elements
  <2>. SUFFICES ASSUME NEW i \in Real PROVE Abs(i) \in block /\ Abs(i) \in Feed!Elements
    OBVIOUS
  <2>1. i \in Cuts /\ i \in Nat /\ f <= i /\ i <= e
    BY <1>0, <1>1, <1>2, <1>3
  <2>2. Abs(i) \in Feed!Cuts /\ Abs(i) = Here + (i - head) /\ Abs(i) \in Nat
    BY <1>1, <2>1
  <2>3. Feed!Frontier \in Int
    BY <1>0, LocalCuts, PlaceType
  <2>4. Abs(f) \in Nat /\ Abs(e) \in Nat /\ Abs(f) <= Abs(i) /\ Abs(i) <= Abs(e)
    BY <1>1, <1>5, <1>6, <1>8, <2>1, <2>2
  <2>5. Feed!Frontier < Abs(i)
    BY <1>7, <2>2, <2>3, <2>4
  <2>6. Abs(i) \in Feed!Elements
    BY <1>0, RealIsElement
  <2>. QED  BY <2>2, <2>4, <2>5, <2>6 DEF Feed!Ahead
<1>11. \A b \in block : \E i \in Real : b = Abs(i)
  <2>. SUFFICES ASSUME NEW b \in block PROVE \E i \in Real : b = Abs(i)
    OBVIOUS
  <2>1. b \in Feed!Cuts /\ Abs(f) <= b /\ b <= Abs(e) /\ b \in Nat
    BY <1>1 DEF Feed!Ahead
  <2>2. Abs(tail) = Here + (tail - head)
    BY <1>1, AbsType
  <2>3. ~(b < Here) /\ ~(b >= Abs(tail))
    BY <1>1, <1>5, <1>6, <1>8, <2>1, <2>2
  <2>4. PICK i \in Cuts : b = Abs(i)
    BY <1>0, <2>1, <2>3, LocalCuts
  <2>5. i <= e
    BY <1>1, <1>5, <1>8, <2>1, <2>4
  <2>6. i \in Real
    BY <1>0, <2>5, BlockIsWhole
  <2>. QED  BY <2>4, <2>6
<1>12. block \subseteq Feed!Elements
  BY <1>10, <1>11
<1>13. n = Cardinality(block) /\ n \in Nat
  <2>. DEFINE F == [i \in Real |-> Abs(i)]
  <2>1. F \in [Real -> block]
    BY <1>10
  <2>2. \A a, b \in Real : F[a] = F[b] => a = b
    <3>. SUFFICES ASSUME NEW a \in Real, NEW b \in Real, Abs(a) = Abs(b) PROVE a = b
      OBVIOUS
    <3>2. a \in Cuts /\ b \in Cuts
      BY <1>2
    <3>1. a \in Nat /\ b \in Nat /\ Abs(a) = Here + (a - head) /\ Abs(b) = Here + (b - head)
      BY <1>1, <3>2
    <3>3. Here + (a - head) = Here + (b - head)
      BY <3>1
    <3>4. a \in Int /\ b \in Int /\ head \in Int /\ Here \in Int
      BY <1>1, <3>1
    <3>. HIDE DEF F, block, n, s, K
    <3>. QED  BY <3>3, <3>4
  <2>3. \A t \in block : \E i \in Real : F[i] = t
    BY <1>11
  <2>. HIDE DEF F, block
  <2>4. F \in Bijection(Real, block)
    BY <2>1, <2>2, <2>3, Fun_IsBij
  <2>5. IsFiniteSet(Real) /\ n \in Nat
    BY <1>2, CutsAreFinite
  <2>. QED  BY <2>4, <2>5, FS_Bijection DEF ExistsBijection
<1>14. "block" \in K
  OBVIOUS
<1>. QED
  BY <1>0, <1>7, <1>8, <1>9, <1>12, <1>13, <1>14, TrackDeliver

\* Nothing but an empty element where the scan began: the block is given up.
LEMMA TrackPhantoms ==
    ASSUME TypeOK, BufferWindow, Track, Kernel = "scalar", BlockPhantomsEOF
    PROVE  Track' /\ Feed!Truncate
<1>0. /\ pc = "scan" /\ Cuts # {} /\ Real = {} /\ TruncatedNow(<<>>)
      /\ UNCHANGED readVars /\ head' = head
  BY DEF BlockPhantomsEOF
<1>1. /\ Feed!IsArray /\ Place(Here, deliveredFirst, afterComma, Feed!Frontier)
      /\ afterComma \/ ~deliveredFirst
      /\ hasStarted /\ ~hasEnded /\ ~tailTruncated
      /\ head \in Nat /\ tail \in Nat /\ Here \in Nat /\ Len(input) \in Nat
      /\ Here < Len(input) /\ Feed!At(Here) # "space"
      /\ Cuts \subseteq Nat /\ Feed!Cuts \subseteq Nat
      /\ \A i \in Cuts : Abs(i) \in Feed!Cuts
  BY <1>0, LocalCuts
<1>2. PICK f \in Cuts : \A y \in Cuts : f <= y
  BY <1>0, <1>1, Least
<1>3. {d \in Cuts : d < f} = {}
  <2>1. \A d \in Cuts : d \in Nat /\ f \in Nat /\ f <= d
    BY <1>1, <1>2
  <2>2. \A d \in Cuts : ~(d < f)
    BY <2>1
  <2>. QED  BY <2>2
<1>4. f \in Taken
  <2>1. Cardinality({d \in Cuts : d < f}) = 0
    BY <1>3, FS_EmptySet
  <2>. QED  BY <2>1, StreamAssumption DEF Taken
<1>5. f = head
  BY <1>0, <1>3, <1>4, StartIs DEF Real
<1>6. Here \in Feed!Cuts
  BY <1>1, <1>5 DEF Here
<1>7. Feed!ElementStart(Here) = Here
  <2>1. \A d \in Feed!Cuts : d < Here => d < Here
    OBVIOUS
  <2>2. Here <= Here
    BY <1>1
  <2>. QED  BY <1>1, <1>6, <2>1, <2>2, PlaceScan
<1>8. Here \in Feed!Empties
  BY <1>6, <1>7 DEF Feed!Empties, Feed!Empty
<1>9. Feed!Frontier < Here
  <2>0. Feed!Frontier \in Int
    BY <1>1, PlaceType
  <2>1. CASE ~deliveredFirst
    BY <1>1, <2>1 DEF Place
  <2>2. CASE deliveredFirst
    <3>1. Feed!Frontier \in Feed!Elements /\ Feed!Frontier <= Here
      BY <1>1, <2>2 DEF Place
    <3>2. Feed!Frontier # Here
      BY <1>8, <3>1 DEF Feed!Elements
    <3>. QED  BY <1>1, <2>0, <3>1, <3>2
  <2>. QED  BY <2>1, <2>2
<1>10. PICK c \in Feed!Ahead : \A d \in Feed!Ahead : c <= d
  <2>1. Here \in Feed!Ahead /\ Feed!Ahead \subseteq Nat
    BY <1>1, <1>6, <1>9 DEF Feed!Ahead
  <2>. QED  BY <2>1, Least
<1>11. c \in Feed!Empties
  <2>1. c \in Feed!Cuts /\ c \in Nat /\ Feed!Frontier < c /\ c <= Here
    BY <1>1, <1>6, <1>9, <1>10, PlaceType DEF Feed!Ahead
  <2>2. CASE c = Here
    BY <1>8, <2>2
  <2>3. CASE c # Here
    <3>1. c \in Before(Here)
      BY <1>1, <2>1, <2>3 DEF Before
    <3>. QED  BY <1>1, <2>1, <3>1 DEF Place
  <2>. QED  BY <2>2, <2>3
<1>. QED  BY <1>0, <1>1, <1>10, <1>11, TrackCutOff

-----------------------------------------------------------------------------
\* The AVX2 splitter behind NextRawBlock counts a phantom where the scalar one
\* skips white space: only the other combinations promise the feed.
FeedAssumption == Kernel = "scalar" \/ "NextRawBlock" \notin Apis

\* Every step of the decoder is a step of the feed, or none of it.
LEMMA TrackStep ==
    ASSUME FeedAssumption, TypeOK, BufferWindow, Track, [Next]_vars
    PROVE  Track' /\ [Feed!FeedNext]_Feed!feedVars
<1>1. CASE UNCHANGED vars
  <2>. USE <1>1 DEF vars, readVars, flagVars, histVars, callVars
  <2>1. Still /\ Here' = Here /\ UNCHANGED <<flagVars, out>>
    BY DEF Still, Here, Abs, Track
  <2>2. pc' \in {"top", "scan"} => ~hasEnded /\ ~tailTruncated
    BY DEF Track, OpenWhileLooping
  <2>3. pc' = "scan" => pc = "scan" /\ UNCHANGED <<buf, head, tail>>
    OBVIOUS
  <2>. QED  BY <2>1, <2>2, <2>3, TrackQuiet
<1>2. ASSUME NEW a \in Apis, Call(a)
      PROVE  Track' /\ UNCHANGED Feed!feedVars
  <2>. USE <1>2 DEF Call, readVars, flagVars, histVars
  <2>1. Still /\ Here' = Here /\ UNCHANGED <<flagVars, out>> /\ pc' = "enter"
    BY DEF Still, Here, Abs, Track
  <2>. QED  BY <2>1, TrackQuiet
<1>3. CASE EnterEnded \/ EnterTruncated \/ EnterLoop
  <2>. USE <1>3 DEF EnterEnded, EnterTruncated, EnterLoop, Return, readVars, flagVars, histVars
  <2>1. Still /\ Here' = Here /\ UNCHANGED <<flagVars, out>>
    BY DEF Still, Here, Abs, Track
  <2>2. pc' # "scan" /\ (pc' = "top" => ~hasEnded /\ ~tailTruncated)
    OBVIOUS
  <2>. QED  BY <2>1, <2>2, TrackQuiet
<1>4. pc \in {"top", "scan"} => ~hasEnded /\ ~tailTruncated
  BY DEF Track, OpenWhileLooping
<1>5. CASE Top
  <2>1. pc = "top" /\ ~hasEnded /\ ~tailTruncated
    BY <1>4, <1>5 DEF Top, TopFill, TopDrained, TopSpaces, TopNotArray, TopOpen,
         TopClose, TopScan, CommaRejected, CommaSkipped, TopAt
  <2>2. CASE TopFill
    BY <2>1, <2>2, TrackRead DEF TopFill
  <2>3. CASE TopDrained
    BY <2>3, TrackDrained DEF Feed!FeedNext
  <2>4. CASE TopSpaces
    <3>1. /\ tail \in head .. tail /\ SkipsTo(head, tail) /\ head' = tail
          /\ UNCHANGED <<readVars, flagVars, out>> /\ pc' # "scan"
      BY <2>1, <2>4, AbsType DEF TopSpaces, TopAt, histVars, callVars
    <3>. QED  BY <2>1, <3>1, TrackMoved
  <2>5. ASSUME NEW h \in head .. tail, TopNotArray(h) \/ TopScan(h) \/ CommaRejected(h)
        PROVE  Track' /\ UNCHANGED Feed!feedVars
    <3>1. /\ SkipsTo(head, h) /\ head' = h
          /\ UNCHANGED <<readVars, flagVars, out>>
          /\ pc' = "scan" => hasStarted /\ h < tail /\ buf[h] \notin {"comma", "rbracket"}
      BY <2>1, <2>5 DEF TopNotArray, TopScan, CommaRejected, TopAt, Return, histVars
    <3>. QED  BY <2>1, <3>1, TrackMoved
  <2>6. ASSUME NEW h \in head .. tail, TopOpen(h)
        PROVE  Track' /\ UNCHANGED Feed!feedVars
    BY <2>6, TrackStart
  <2>7. ASSUME NEW h \in head .. tail, TopClose(h)
        PROVE  Track' /\ Feed!FeedNext
    BY <2>7, TrackClose DEF Feed!FeedNext
  <2>8. ASSUME NEW h \in head .. tail, NEW g \in head .. tail, CommaSkipped(h, g)
        PROVE  Track' /\ UNCHANGED Feed!feedVars
    BY <2>8, TrackComma
  <2>. QED  BY <1>5, <2>2, <2>3, <2>4, <2>5, <2>6, <2>7, <2>8 DEF Top
<1>6. CASE Scan
  <2>1. pc = "scan" /\ ~hasEnded /\ ~tailTruncated
    BY <1>4, <1>6 DEF Scan, ScanFill, ChunkElement, ChunkSalvage, ChunkPartial,
         BlockElements, BlockBadGap, BlockPhantomsFill, BlockPhantomsEOF, BlockSalvage,
         BlockPartial
  <2>2. CASE ScanFill \/ BlockPhantomsFill
    BY <2>1, <2>2, TrackRead DEF ScanFill, BlockPhantomsFill
  <2>3. api = "NextRawBlock" => Kernel = "scalar"
    BY <2>1 DEF TypeOK, FeedAssumption
  <2>4. ASSUME NEW e \in head .. tail, ChunkElement(e)
        PROVE  Track' /\ Feed!FeedNext
    BY <2>4, TrackElement DEF Feed!FeedNext
  <2>5. ASSUME NEW e \in head .. tail, BlockElements(e)
        PROVE  Track' /\ Feed!FeedNext
    <3>1. Kernel = "scalar"
      BY <2>3, <2>5 DEF BlockElements
    <3>. QED  BY <2>5, <3>1, TrackBlock DEF Feed!FeedNext
  <2>6. CASE ChunkSalvage \/ BlockSalvage
    BY <2>6, TrackSalvage DEF Feed!FeedNext
  <2>7. CASE ChunkPartial \/ BlockPartial
    BY <2>7, TrackPartial DEF Feed!FeedNext
  <2>8. CASE BlockBadGap
    <3>1. Still /\ Here' = Here /\ UNCHANGED <<flagVars, out>> /\ pc' = "idle"
      BY <2>8 DEF BlockBadGap, Return, Still, Here, Abs, Track, readVars, flagVars, histVars
    <3>. QED  BY <3>1, TrackQuiet
  <2>9. CASE BlockPhantomsEOF
    <3>1. Kernel = "scalar"
      BY <2>3, <2>9 DEF BlockPhantomsEOF
    <3>. QED  BY <2>9, <3>1, TrackPhantoms DEF Feed!FeedNext
  <2>. QED  BY <1>6, <2>2, <2>4, <2>5, <2>6, <2>7, <2>8, <2>9 DEF Scan
<1>. QED  BY <1>1, <1>2, <1>3, <1>5, <1>6 DEF Next, Step

\* However the reader cuts the input, and whatever the caller mixes, the
\* elements of the whole input are handed out in order, each once and whole,
\* and the stream ends where the input says (nextChunk and NextRawBlock,
\* stream.go:108-267 and 562-721).
THEOREM ImplementsFeedHolds ==
    ASSUME FeedAssumption
    PROVE  Spec => ImplementsFeed
<1>1. Init => Track /\ Feed!FeedInit
  <2>1. Init => Feed!FeedInit
    BY DEF Init, Feed!FeedInit
  <2>. QED  BY <2>1, TrackInit
<1>2. TypeOK /\ BufferWindow /\ Track /\ [Next]_vars
        => Track' /\ [Feed!FeedNext]_Feed!feedVars
  BY TrackStep
<1>. QED  BY <1>1, <1>2, WindowSafe, PTL DEF Spec, ImplementsFeed, Feed!FeedSpec

LEMMA TrackHolds ==
    ASSUME FeedAssumption
    PROVE  Spec => []Track
<1>1. TypeOK /\ BufferWindow /\ Track /\ [Next]_vars => Track'
  BY TrackStep
<1>. QED  BY <1>1, TrackInit, WindowSafe, PTL DEF Spec

-----------------------------------------------------------------------------
\* An end of file is answered only in one of the two end states.
EofEarned == ret = "EOF" => hasEnded \/ (tailTruncated /\ tolerant)

LEMMA EofStep ==
    ASSUME "NextRawBlock" \notin Apis, TypeOK, Track, EofEarned, [Next]_vars
    PROVE  EofEarned'
<1>0. pc # "idle" => api # "NextRawBlock"
  BY DEF TypeOK
<1>1. CASE UNCHANGED vars
  BY <1>1 DEF EofEarned, vars, readVars, flagVars, callVars
<1>2. ASSUME NEW a \in Apis, Call(a) PROVE EofEarned'
  BY <1>2 DEF EofEarned, Call, readVars, flagVars
<1>3. CASE EnterEnded \/ EnterLoop
  BY <1>3 DEF EofEarned, EnterEnded, EnterLoop, Return, readVars, flagVars
<1>4. CASE EnterTruncated
  BY <1>0, <1>4 DEF EofEarned, EnterTruncated, Return, readVars, flagVars
<1>5. ASSUME ReadMore PROVE EofEarned'
  BY <1>5 DEF EofEarned, ReadMore, Fill, flagVars
<1>6. ASSUME NEW bytes, TruncatedNow(bytes), UNCHANGED tolerant PROVE EofEarned'
  BY <1>6 DEF EofEarned, TruncatedNow, Return
<1>7. ASSUME NEW e, HandOut(e), UNCHANGED <<tolerant, hasEnded>>,
             tailTruncated => tailTruncated'
      PROVE  EofEarned'
  BY <1>7 DEF EofEarned, HandOut, Return
<1>8. CASE Top
  <2>1. CASE TopFill \/ TopDrained
    BY <1>5, <1>6, <2>1 DEF TopFill, TopDrained, readVars
  <2>2. CASE TopSpaces
    BY <2>2 DEF TopSpaces, EofEarned, readVars, flagVars, callVars
  <2>3. ASSUME NEW h \in head .. tail, TopNotArray(h) \/ TopScan(h) \/ CommaRejected(h)
        PROVE  EofEarned'
    BY <2>3 DEF TopNotArray, TopScan, CommaRejected, Return, EofEarned, readVars, flagVars
  <2>4. ASSUME NEW h \in head .. tail, TopOpen(h) \/ TopClose(h)
        PROVE  EofEarned'
    BY <2>4 DEF TopOpen, TopClose, Return, EofEarned, readVars, callVars
  <2>5. ASSUME NEW h \in head .. tail, NEW g \in head .. tail, CommaSkipped(h, g)
        PROVE  EofEarned'
    BY <2>5 DEF CommaSkipped, Return, EofEarned, readVars
  <2>. QED  BY <1>8, <2>1, <2>2, <2>3, <2>4, <2>5 DEF Top
<1>9. CASE Scan
  <2>1. CASE ScanFill \/ BlockPhantomsFill \/ ChunkPartial \/ BlockPhantomsEOF \/ BlockPartial
    BY <1>5, <1>6, <2>1 DEF ScanFill, BlockPhantomsFill, ChunkPartial, BlockPhantomsEOF,
         BlockPartial, readVars
  <2>2. ASSUME NEW e \in head .. tail, ChunkElement(e) PROVE EofEarned'
    BY <1>7, <2>2 DEF ChunkElement, readVars
  <2>3. CASE ChunkSalvage
    BY <1>7, <2>3 DEF ChunkSalvage, readVars
  <2>4. CASE BlockBadGap \/ BlockSalvage
    BY <2>4 DEF BlockBadGap, BlockSalvage, Return, EofEarned, readVars, flagVars
  <2>5. ASSUME NEW e \in head .. tail, BlockElements(e) PROVE EofEarned'
    BY <2>5 DEF BlockElements, Return, EofEarned, readVars
  <2>. QED  BY <1>9, <2>1, <2>2, <2>3, <2>4, <2>5 DEF Scan
<1>. QED  BY <1>1, <1>2, <1>3, <1>4, <1>8, <1>9 DEF Next, Step

\* io.EOF is answered only behind the closing bracket, or by a tolerant decoder
\* that has reported the truncation once (stream.go:108-134, 230-258).
THEOREM CleanEOFHolds ==
    ASSUME "NextRawBlock" \notin Apis
    PROVE  Spec => []CleanEOF
<1>0. FeedAssumption
  BY DEF FeedAssumption
<1>1. Init => EofEarned
  BY DEF Init, EofEarned
<1>2. TypeOK /\ BufferWindow /\ Track /\ EofEarned /\ [Next]_vars => EofEarned'
  BY EofStep
<1>3. Track /\ OneEnd /\ EofEarned => CleanEOF
  BY DEF Track, OneEnd, EofEarned, CleanEOF
<1>4. Spec => []Track
  BY <1>0, TrackHolds
<1>5. Spec => []OneEnd
  BY OneEndHolds
<1>. QED  BY <1>1, <1>2, <1>3, <1>4, <1>5, WindowSafe, PTL DEF Spec

-----------------------------------------------------------------------------
\* Empty elements passed before place p.
EmptyBefore(p) == Before(p) \cap Feed!Empties

\* What n reports stand for: every empty element passed before place p, and the
\* one at the bracket when the bracket was seen behind the comma.
Heard(p, comma, n) ==
    \E t \in {0, 1} :
        /\ n = Cardinality(EmptyBefore(p)) + t
        /\ t = 1 => comma /\ p < Len(input) /\ Feed!At(p) = "rbracket"

\* What StrayCommasReported says at the end.
Accounted ==
    LET stray   == IF Feed!Elements = {} /\ Cardinality(Feed!Cuts) = 1
                   THEN {} ELSE Feed!Empties
        certain == {c \in stray : Feed!At(c) = "comma"}
    IN  sepReports \in Cardinality(certain) .. Cardinality(stray)

Strays ==
    /\ ~hasStarted => sepReports = 0
    /\ tolerant /\ hasStarted /\ ~hasEnded /\ ~tailTruncated =>
         Heard(Here, afterComma, sepReports)
    /\ StrayCommasReported

LEMMA EmptyBeforeFinite ==
    ASSUME Len(input) \in Nat, Feed!IsArray
    PROVE  /\ IsFiniteSet(Feed!Cuts)
           /\ \A S \in SUBSET Feed!Cuts : IsFiniteSet(S) /\ Cardinality(S) \in Nat
<1>1. Feed!Opening + 1 \in Int /\ Len(input) - 1 \in Int
  BY OpeningType
<1>2. IsFiniteSet((Feed!Opening + 1) .. (Len(input) - 1))
  BY <1>1, FS_Interval
<1>3. IsFiniteSet(Feed!Cuts)
  BY <1>2, CutsAre, FS_Subset
<1>4. ASSUME NEW S \in SUBSET Feed!Cuts PROVE IsFiniteSet(S) /\ Cardinality(S) \in Nat
  <2>1. IsFiniteSet(S)
    BY <1>3, FS_Subset
  <2>. QED  BY <2>1, FS_CardinalityType
<1>. QED  BY <1>3, <1>4

\* At the closing bracket the reports are counted against the whole input.
LEMMA CloseCounts ==
    ASSUME Len(input) \in Nat, Feed!IsArray,
           NEW p, NEW delivered, NEW comma, NEW last, Place(p, delivered, comma, last),
           p < Len(input), Feed!At(p) = "rbracket",
           NEW t \in {0, 1}, t = 1 => comma,
           sepReports = Cardinality(EmptyBefore(p)) + t
    PROVE  Accounted
<1>. DEFINE stray == IF Feed!Elements = {} /\ Cardinality(Feed!Cuts) = 1
                     THEN {} ELSE Feed!Empties
            certain == {c \in stray : Feed!At(c) = "comma"}
            E == EmptyBefore(p)
<1>0. /\ p \in Nat /\ Feed!Cuts \subseteq Nat /\ p \in Outer
      /\ p \in Feed!Cuts /\ \A c \in Feed!Cuts : c <= p
      /\ comma \/ ~delivered => p \in Feed!Empties
      /\ comma => Before(p) # {}
  BY PlaceType, ClosingCut, PlaceEmpty DEF Place
<1>1. Feed!Cuts = Before(p) \cup {p} /\ p \notin Before(p)
  <2>1. \A c \in Feed!Cuts : c < p \/ c = p
    BY <1>0
  <2>2. Feed!Cuts = Before(p) \cup {p}
    BY <1>0, <2>1 DEF Before
  <2>3. ~(p < p)
    BY <1>0
  <2>. QED  BY <2>2, <2>3 DEF Before
<1>2. \A c \in Before(p) : Feed!At(c) = "comma"
  BY <1>0, CutsBefore DEF Before
<1>3. Feed!Empties \subseteq Feed!Cuts /\ E \subseteq Feed!Cuts
  BY DEF Feed!Empties, EmptyBefore, Before
<1>4. IsFiniteSet(E) /\ Cardinality(E) \in Nat
  BY <1>3, EmptyBeforeFinite
<1>5. CASE Feed!Elements = {} /\ Cardinality(Feed!Cuts) = 1
  <2>1. Before(p) = {}
    <3>1. PICK x : Feed!Cuts = {x}
      BY <1>5, EmptyBeforeFinite, FS_Singleton
    <3>. QED  BY <1>1, <3>1
  <2>2. E = {} /\ t = 0
    BY <1>0, <2>1 DEF EmptyBefore
  <2>3. certain = {} /\ stray = {}
    BY <1>5
  <2>4. Cardinality({}) = 0
    BY FS_EmptySet
  <2>5. sepReports = 0
    BY <2>2, <2>4
  <2>. HIDE DEF stray, certain
  <2>6. sepReports \in Cardinality(certain) .. Cardinality(stray)
    BY <2>3, <2>4, <2>5
  <2>. QED  BY <2>6 DEF Accounted, stray, certain
<1>6. CASE ~(Feed!Elements = {} /\ Cardinality(Feed!Cuts) = 1)
  <2>1. stray = Feed!Empties
    BY <1>6
  <2>2. certain = E
    BY <1>1, <1>2, <1>3, <2>1 DEF EmptyBefore
  <2>3. p \notin E
    BY <1>1 DEF EmptyBefore
  <2>4. stray = E \/ stray = E \cup {p}
    BY <1>1, <1>3, <2>1 DEF EmptyBefore
  <2>5. t = 1 => stray = E \cup {p}
    BY <1>0, <1>1, <1>3, <2>1 DEF EmptyBefore
  <2>. HIDE DEF stray, certain, E
  <2>6. Cardinality(E \cup {p}) = Cardinality(E) + 1
    BY <1>4, <2>3, FS_AddElement
  <2>7. sepReports = Cardinality(E) + t
    BY DEF E
  <2>8. sepReports \in Cardinality(certain) .. Cardinality(stray)
    <3>. DEFINE n == Cardinality(E)
    <3>0. n \in Nat /\ Cardinality(certain) = n /\ sepReports = n + t
      BY <1>4, <2>2, <2>7 DEF E
    <3>1. CASE t = 1
      <4>1. Cardinality(stray) = n + 1
        BY <2>5, <2>6, <3>1
      <4>. HIDE DEF n
      <4>. QED  BY <3>0, <3>1, <4>1
    <3>2. CASE t = 0
      <4>1. Cardinality(stray) = n \/ Cardinality(stray) = n + 1
        BY <2>4, <2>6
      <4>. HIDE DEF n
      <4>. QED  BY <3>0, <3>2, <4>1
    <3>. QED  BY <3>1, <3>2
  <2>. QED  BY <2>8 DEF Accounted, stray, certain
<1>. QED  BY <1>5, <1>6

\* Before the closing bracket is reached nothing is claimed of the reports.
LEMMA StraysOpen ==
    ASSUME UNCHANGED <<input, tolerant>>, hasStarted', ~hasEnded',
           tolerant => Heard(Here', afterComma', sepReports')
    PROVE  Strays'
<1>1. Feed!Cuts' = Feed!Cuts /\ Feed!Empties' = Feed!Empties
  BY SameFeed
<1>2. EmptyBefore(Here)' = EmptyBefore(Here')
  BY <1>1 DEF EmptyBefore, Before
<1>3. tolerant => Heard(Here, afterComma, sepReports)'
  BY <1>2 DEF Heard, Feed!At
<1>. QED  BY <1>3 DEF Strays, StrayCommasReported

LEMMA StraysCut ==
    ASSUME Strays, UNCHANGED <<input, tolerant>>, tailTruncated', ~hasEnded',
           UNCHANGED <<hasStarted, sepReports>>
    PROVE  Strays'
BY DEF Strays, StrayCommasReported

LEMMA StraysQuiet ==
    ASSUME Strays, UNCHANGED <<input, tolerant, flagVars, sepReports>>, Here' = Here
    PROVE  Strays'
<1>. USE DEF flagVars
<1>1. /\ Feed!Cuts' = Feed!Cuts /\ Feed!Empties' = Feed!Empties
      /\ Feed!Elements' = Feed!Elements
  BY SameFeed
<1>2. EmptyBefore(Here)' = EmptyBefore(Here)
  BY <1>1 DEF EmptyBefore, Before
<1>3. Heard(Here, afterComma, sepReports)' <=> Heard(Here, afterComma, sepReports)
  BY <1>2 DEF Heard, Feed!At
<1>4. StrayCommasReported' <=> StrayCommasReported
  BY <1>1 DEF StrayCommasReported, Feed!At
<1>. QED  BY <1>3, <1>4 DEF Strays

\* White space hides no element, and none is skipped behind a bracket.
LEMMA HeardSpaces ==
    ASSUME TypeOK, BufferWindow, Track, hasStarted, ~hasEnded, ~tailTruncated,
           NEW h \in head .. tail, SkipsTo(head, h),
           NEW n, Heard(Here, afterComma, n)
    PROVE  Heard(Abs(h), afterComma, n)
<1>1. /\ Abs(h) \in Here .. Len(input) /\ Here \in 0 .. Len(input) /\ Len(input) \in Nat
      /\ \A k \in Here .. (Abs(h) - 1) : Feed!At(k) = "space"
  <2>1. head \in head .. tail /\ h \in head .. tail
    BY AbsType
  <2>. QED  BY <2>1, AbsType, SkipsInput DEF Here
<1>2. Feed!IsArray /\ Place(Here, deliveredFirst, afterComma, Feed!Frontier)
  BY DEF Track, AtPlace
<1>. DEFINE q == Abs(h)
<1>3. q \in Here .. Len(input) /\ \A k \in Here .. (q - 1) : Feed!At(k) = "space"
  BY <1>1
<1>. HIDE DEF q
<1>4. Before(q) = Before(Here)
  BY <1>1, <1>2, <1>3, PlaceSpaces
<1>5. ASSUME Here < Len(input), Feed!At(Here) = "rbracket" PROVE q = Here
  <2>. SUFFICES ASSUME q # Here PROVE FALSE
    OBVIOUS
  <2>1. Here \in Here .. (q - 1)
    BY <1>1, <1>3
  <2>2. Feed!At(Here) = "space"
    BY <1>3, <2>1
  <2>. QED  BY <1>5, <2>2
<1>. QED  BY <1>4, <1>5 DEF Heard, EmptyBefore, q

LEMMA StraysMoved ==
    ASSUME TypeOK, BufferWindow, Track, Strays, pc = "top",
           NEW h \in head .. tail, SkipsTo(head, h),
           head' = h, UNCHANGED <<readVars, flagVars, sepReports>>
    PROVE  Strays'
<1>. USE DEF readVars, flagVars
<1>1. ~hasEnded /\ ~tailTruncated
  BY DEF Track, OpenWhileLooping
<1>2. Here' = Abs(h)
  BY DEF Here, Abs
<1>3. CASE ~hasStarted
  BY <1>1, <1>3 DEF Strays, StrayCommasReported
<1>4. CASE hasStarted
  <2>1. tolerant => Heard(Abs(h), afterComma, sepReports)
    BY <1>1, <1>4, HeardSpaces DEF Strays
  <2>2. tolerant => Heard(Here', afterComma', sepReports')
    BY <1>2, <2>1
  <2>. QED  BY <1>1, <1>4, <2>2, StraysOpen
<1>. QED  BY <1>3, <1>4

LEMMA StraysStart ==
    ASSUME TypeOK, BufferWindow, Track, Strays, NEW h \in head .. tail, TopOpen(h)
    PROVE  Strays'
<1>0. /\ pc = "top" /\ ~hasStarted /\ hasStarted'
      /\ UNCHANGED <<readVars, hasEnded, afterComma, sepReports, out>>
  BY DEF TopOpen, TopAt, histVars
<1>1. ~hasEnded /\ NotYet /\ sepReports = 0
  BY <1>0 DEF Track, OpenWhileLooping, Strays
<1>2. UNCHANGED <<input, tolerant>>
  BY <1>0 DEF readVars
<1>3. Track' /\ ~deliveredFirst' /\ ~afterComma' /\ ~tailTruncated'
  BY <1>0, <1>1, TrackStart DEF TopOpen, Track, OpenWhileLooping, NotYet
<1>4. Before(Here)' = {}
  <2>1. AtPlace'
    BY <1>0, <1>1, <1>3 DEF Track
  <2>. QED  BY <1>3, <2>1 DEF AtPlace, Place
<1>5. Before(Here)' = Before(Here')
  BY <1>2, SameFeed DEF Before
<1>6. EmptyBefore(Here') = {}
  BY <1>4, <1>5 DEF EmptyBefore
<1>7. Cardinality({}) = 0
  BY FS_EmptySet
<1>8. Heard(Here', afterComma', sepReports')
  BY <1>0, <1>1, <1>6, <1>7 DEF Heard
<1>. QED  BY <1>0, <1>1, <1>2, <1>8, StraysOpen

\* A comma skipped ends an empty element exactly when it is reported.
LEMMA StraysComma ==
    ASSUME TypeOK, BufferWindow, Track, Strays,
           NEW h \in head .. tail, NEW g \in head .. tail, CommaSkipped(h, g)
    PROVE  Strays'
<1>0. /\ pc = "top" /\ head < tail /\ SkipsTo(head, h) /\ h < tail
      /\ hasStarted /\ buf[h] = "comma"
      /\ StrayComma => tolerant /\ api # "NextRawBlock"
      /\ SkipsTo(h + 1, g) /\ head' = g /\ afterComma' = TRUE
      /\ UNCHANGED <<readVars, hasStarted, hasEnded, deliveredFirst, tailTruncated>>
  BY DEF CommaSkipped, TopAt
<1>1. ~hasEnded /\ ~tailTruncated
  BY <1>0 DEF Track, OpenWhileLooping
<1>2. UNCHANGED <<input, tolerant>> /\ Here' = Abs(g)
  BY <1>0 DEF readVars, Here, Abs
<1>. SUFFICES ASSUME tolerant PROVE Heard(Abs(g), TRUE, sepReports')
  BY <1>0, <1>1, <1>2, StraysOpen
<1>3. /\ Abs(h) \in Here .. Len(input) /\ Here \in 0 .. Len(input) /\ Len(input) \in Nat
      /\ \A k \in Here .. (Abs(h) - 1) : Feed!At(k) = "space"
      /\ Abs(h) < Len(input) /\ Feed!At(Abs(h)) = "comma"
      /\ head \in Nat /\ tail \in Nat
  <2>1. head \in head .. tail /\ h \in head .. tail
    BY AbsType
  <2>. QED  BY <1>0, <2>1, AbsType, SkipsInput DEF Here
<1>4. Feed!IsArray /\ Place(Here, deliveredFirst, afterComma, Feed!Frontier)
  BY <1>0, <1>1 DEF Track, AtPlace
<1>5. Place(Abs(h), deliveredFirst, afterComma, Feed!Frontier)
  BY <1>3, <1>4, PlaceSpaces
<1>6. g \in (h + 1) .. tail /\ h + 1 \in head .. tail
  BY <1>0, <1>3 DEF SkipsTo
<1>7. /\ Abs(g) \in Abs(h + 1) .. Len(input)
      /\ \A k \in Abs(h + 1) .. (Abs(g) - 1) : Feed!At(k) = "space"
      /\ g < tail => Abs(g) < Len(input) /\ Feed!At(Abs(g)) = buf[g]
  BY <1>0, <1>6, SkipsInput
<1>8. Abs(h + 1) = Abs(h) + 1
  BY <1>3, <1>6, AbsType DEF Abs
<1>. DEFINE p == Abs(h)
            q == Abs(g)
<1>9. /\ p < Len(input) /\ Feed!At(p) = "comma" /\ p \in Nat
      /\ Place(p, deliveredFirst, afterComma, Feed!Frontier)
      /\ q \in (p + 1) .. Len(input) /\ \A k \in (p + 1) .. (q - 1) : Feed!At(k) = "space"
      /\ g < tail => q < Len(input) /\ Feed!At(q) = buf[g]
  BY <1>3, <1>5, <1>7, <1>8
<1>10. Heard(p, afterComma, sepReports)
  BY <1>0, <1>1, HeardSpaces DEF Strays
<1>. HIDE DEF p, q
<1>11. /\ p \in Feed!Cuts
       /\ p \in Feed!Empties <=> StrayComma
  <2>1. Feed!At(p) \in {"comma", "rbracket"}
    BY <1>9
  <2>2. /\ p \in Feed!Cuts
        /\ afterComma \/ ~deliveredFirst => p \in Feed!Empties
        /\ ~(afterComma \/ ~deliveredFirst) => p \notin Feed!Empties
    BY <1>3, <1>4, <1>9, <2>1, PlaceEmpty
  <2>. QED  BY <2>2 DEF StrayComma
<1>12. /\ Place(p + 1, deliveredFirst, TRUE, Feed!Frontier)
       /\ Before(p + 1) = Before(p) \cup {p}
  BY <1>3, <1>4, <1>9, PlaceComma
<1>13. Before(q) = Before(p + 1)
  BY <1>3, <1>4, <1>9, <1>12, PlaceSpaces
<1>14. IsFiniteSet(EmptyBefore(p)) /\ Cardinality(EmptyBefore(p)) \in Nat
  <2>1. EmptyBefore(p) \in SUBSET Feed!Cuts
    BY DEF EmptyBefore, Before
  <2>. QED  BY <1>3, <1>4, <2>1, EmptyBeforeFinite
<1>15. sepReports = Cardinality(EmptyBefore(p))
  <2>1. PICK t \in {0, 1} : sepReports = Cardinality(EmptyBefore(p)) + t
                            /\ (t = 1 => Feed!At(p) = "rbracket")
    BY <1>10 DEF Heard
  <2>2. t = 0
    BY <1>9, <2>1
  <2>. QED  BY <1>14, <2>1, <2>2
<1>16. p \notin EmptyBefore(p)
  BY <1>9 DEF EmptyBefore, Before
<1>17. Cardinality(EmptyBefore(q)) = sepReports + (IF StrayComma THEN 1 ELSE 0)
  <2>1. CASE StrayComma
    <3>1. EmptyBefore(q) = EmptyBefore(p) \cup {p}
      BY <1>11, <1>12, <1>13, <2>1 DEF EmptyBefore
    <3>2. Cardinality(EmptyBefore(q)) = Cardinality(EmptyBefore(p)) + 1
      BY <1>14, <1>16, <3>1, FS_AddElement
    <3>. QED  BY <1>15, <2>1, <3>2
  <2>2. CASE ~StrayComma
    <3>1. EmptyBefore(q) = EmptyBefore(p)
      BY <1>11, <1>12, <1>13, <2>2 DEF EmptyBefore
    <3>. QED  BY <1>14, <1>15, <2>2, <3>1
  <2>. QED  BY <2>1, <2>2
<1>. DEFINE seen == g < tail /\ buf[g] = "rbracket" /\ tolerant /\ api # "NextRawBlock"
            t == IF seen THEN 1 ELSE 0
<1>18. sepReports' = sepReports + (IF StrayComma THEN 1 ELSE 0) + t
  BY DEF CommaSkipped
<1>19. sepReports' = Cardinality(EmptyBefore(q)) + t
  BY <1>17, <1>18
<1>20. t \in {0, 1} /\ (t = 1 => q < Len(input) /\ Feed!At(q) = "rbracket")
  BY <1>9
<1>21. Heard(q, TRUE, sepReports')
  <2>. HIDE DEF t
  <2>. QED  BY <1>19, <1>20 DEF Heard
<1>. QED  BY <1>21 DEF q

\* At the bracket the reports are counted against the whole input.
LEMMA StraysClose ==
    ASSUME TypeOK, BufferWindow, Track, Strays, NEW h \in head .. tail, TopClose(h)
    PROVE  Strays'
<1>0. /\ pc = "top" /\ head < tail /\ SkipsTo(head, h) /\ h < tail
      /\ hasStarted /\ buf[h] = "rbracket" /\ hasEnded' /\ hasStarted'
      /\ UNCHANGED <<readVars, sepReports>>
  BY DEF TopClose, TopAt, histVars
<1>1. ~hasEnded /\ ~tailTruncated
  BY <1>0 DEF Track, OpenWhileLooping
<1>2. /\ Abs(h) \in Here .. Len(input) /\ Here \in 0 .. Len(input) /\ Len(input) \in Nat
      /\ \A k \in Here .. (Abs(h) - 1) : Feed!At(k) = "space"
      /\ Abs(h) < Len(input) /\ Feed!At(Abs(h)) = "rbracket"
  <2>1. head \in head .. tail /\ h \in head .. tail
    BY AbsType
  <2>. QED  BY <1>0, <2>1, AbsType, SkipsInput DEF Here
<1>3. Feed!IsArray /\ Place(Here, deliveredFirst, afterComma, Feed!Frontier)
  BY <1>0, <1>1 DEF Track, AtPlace
<1>4. Place(Abs(h), deliveredFirst, afterComma, Feed!Frontier)
  BY <1>2, <1>3, PlaceSpaces
<1>5. tolerant => Heard(Abs(h), afterComma, sepReports)
  BY <1>0, <1>1, HeardSpaces DEF Strays
<1>6. tolerant => Accounted
  <2>. SUFFICES ASSUME tolerant PROVE Accounted
    OBVIOUS
  <2>. DEFINE p == Abs(h)
  <2>1. /\ Place(p, deliveredFirst, afterComma, Feed!Frontier)
        /\ p < Len(input) /\ Feed!At(p) = "rbracket" /\ Heard(p, afterComma, sepReports)
    BY <1>2, <1>4, <1>5
  <2>. HIDE DEF p
  <2>2. PICK t \in {0, 1} : /\ sepReports = Cardinality(EmptyBefore(p)) + t
                            /\ t = 1 => afterComma
    BY <2>1 DEF Heard
  <2>. QED  BY <1>2, <1>3, <2>1, <2>2, CloseCounts
<1>7. UNCHANGED <<input, tolerant>>
  BY <1>0 DEF readVars
<1>8. /\ Feed!Cuts' = Feed!Cuts /\ Feed!Empties' = Feed!Empties
      /\ Feed!Elements' = Feed!Elements
  BY <1>7, SameFeed
<1>9. ASSUME tolerant' PROVE StrayCommasReported'
  <2>1. tolerant /\ hasEnded'
    BY <1>0, <1>7, <1>9
  <2>2. sepReports' = sepReports /\ input' = input
    BY <1>0, <1>7
  <2>3. Accounted
    BY <1>6, <2>1
  <2>. QED  BY <1>0, <1>7, <1>8, <2>1, <2>2, <2>3 DEF Accounted, StrayCommasReported, Feed!At
<1>. QED  BY <1>0, <1>9 DEF Strays, StrayCommasReported

\* Elements handed out add no empty element to those passed.
LEMMA EmptyPassed ==
    ASSUME FeedAssumption, TypeOK, BufferWindow, Track, pc = "scan",
           NEW e \in head .. tail, ChunkElement(e) \/ BlockElements(e)
    PROVE  EmptyBefore(Abs(e)) = EmptyBefore(Here)
<1>0. /\ head \in Nat /\ tail \in Nat /\ Here \in Nat
      /\ Cuts \subseteq head .. (tail - 1) /\ Cuts \subseteq Nat /\ Feed!Cuts \subseteq Nat
      /\ \A i \in Cuts : Abs(i) \in Feed!Cuts /\ Abs(i) = Here + (i - head)
  BY LocalCuts
<1>1. e \in Cuts
  BY DEF ChunkElement, BlockElements, FirstCut, Real, Taken
<1>2. /\ e \in Nat /\ head <= e /\ Abs(e) = Here + (e - head) /\ Abs(e) \in Nat
      /\ e < tail
  <2>1. e \in head .. (tail - 1)
    BY <1>0, <1>1
  <2>2. Abs(e) = Here + (e - head)
    BY <1>0, <1>1
  <2>. QED  BY <1>0, <2>1, <2>2
<1>3. ASSUME NEW d \in Feed!Cuts, d < Abs(e), d \notin Feed!Elements PROVE d < Here
  <2>1. CASE ChunkElement(e)
    <3>1. FirstCut(e)
      BY <2>1 DEF ChunkElement
    <3>. QED  BY <1>1, <1>3, <3>1, FirstElement
  <2>2. CASE BlockElements(e)
    <3>1. /\ Kernel = "scalar" /\ ~BadGap /\ e \in Real
      BY <2>2 DEF BlockElements, FeedAssumption, TypeOK
    <3>. SUFFICES ASSUME ~(d < Here) PROVE FALSE
      OBVIOUS
    <3>2. Abs(tail) = Here + (tail - head) /\ d \in Nat
      BY <1>0, AbsType
    <3>3. PICK i \in Cuts : d = Abs(i)
      BY <1>0, <1>2, <1>3, <3>2, LocalCuts
    <3>4. i \in Nat /\ d = Here + (i - head)
      BY <1>0, <3>3
    <3>5. i <= e
      BY <1>0, <1>2, <1>3, <3>2, <3>4
    <3>6. i \in Real
      BY <3>1, <3>5, BlockIsWhole
    <3>. QED  BY <1>3, <3>1, <3>3, <3>6, RealIsElement
  <2>. QED  BY <2>1, <2>2
<1>4. ASSUME NEW d \in Feed!Empties PROVE d < Abs(e) <=> d < Here
  <2>1. d \in Feed!Cuts /\ d \notin Feed!Elements /\ d \in Nat
    BY <1>0 DEF Feed!Empties, Feed!Elements
  <2>2. Here <= Abs(e)
    BY <1>0, <1>2
  <2>. QED  BY <1>0, <1>2, <1>3, <2>1, <2>2
<1>5. ASSUME NEW d PROVE d \in EmptyBefore(Abs(e)) <=> d \in EmptyBefore(Here)
  BY <1>4 DEF EmptyBefore, Before
<1>. QED  BY <1>5

LEMMA StraysElement ==
    ASSUME FeedAssumption, TypeOK, BufferWindow, Track, Strays,
           NEW e \in head .. tail, ChunkElement(e) \/ BlockElements(e)
    PROVE  Strays'
<1>0. /\ pc = "scan" /\ head' = e
      /\ UNCHANGED <<readVars, sepReports, hasStarted, hasEnded, tailTruncated>>
  BY DEF ChunkElement, BlockElements
<1>1. /\ hasStarted /\ ~hasEnded /\ ~tailTruncated /\ Here < Len(input)
      /\ head < tail /\ buf[head] # "rbracket" /\ head \in Nat /\ tail \in Nat
  BY <1>0, LocalCuts DEF Track, Scanning
<1>2. UNCHANGED <<input, tolerant>> /\ Here' = Abs(e)
  BY <1>0 DEF readVars, Here, Abs
<1>3. Feed!At(Here) # "rbracket"
  <2>1. head \in head .. (tail - 1)
    BY <1>1
  <2>. QED  BY <1>1, <2>1, AbsType DEF Here
<1>4. EmptyBefore(Abs(e)) = EmptyBefore(Here)
  BY <1>0, EmptyPassed
<1>5. ASSUME tolerant PROVE Heard(Here', afterComma', sepReports')
  <2>1. Heard(Here, afterComma, sepReports)
    BY <1>1, <1>5 DEF Strays
  <2>2. PICK t \in {0, 1} : sepReports = Cardinality(EmptyBefore(Here)) + t
                            /\ (t = 1 => Feed!At(Here) = "rbracket")
    BY <2>1 DEF Heard
  <2>3. t = 0
    BY <1>3, <2>2
  <2>4. sepReports' = Cardinality(EmptyBefore(Here')) + 0
    BY <1>0, <1>2, <1>4, <2>2, <2>3
  <2>. QED  BY <2>4 DEF Heard
<1>. QED  BY <1>0, <1>1, <1>2, <1>5, StraysOpen

LEMMA StraysRead ==
    ASSUME TypeOK, BufferWindow, Strays, ReadMore
    PROVE  Strays'
<1>1. PICK n \in 0 .. Room, err \in {"nil", "EOF", "fail"} : Fill(n, err)
  BY DEF ReadMore
<1>2. /\ input' = input /\ tolerant' = tolerant
      /\ rpos' = rpos + n /\ tail' = tail - head + n /\ head' = 0
  BY <1>1 DEF Fill
<1>3. n \in Nat /\ rpos \in Nat /\ head \in Nat /\ tail \in Nat
  <2>1. Room \in Nat
    BY DEF Room, TypeOK
  <2>. QED  BY <2>1, AbsType
<1>4. Here' = Here
  BY <1>2, <1>3 DEF Here, Abs
<1>. QED  BY <1>2, <1>4, StraysQuiet DEF ReadMore, histVars

LEMMA StraysStep ==
    ASSUME FeedAssumption, TypeOK, BufferWindow, Track, Strays, [Next]_vars
    PROVE  Strays'
<1>1. CASE UNCHANGED vars
  <2>1. UNCHANGED <<input, tolerant, flagVars, sepReports>> /\ Here' = Here
    BY <1>1 DEF vars, readVars, histVars, Here, Abs
  <2>. QED  BY <2>1, StraysQuiet
<1>2. ASSUME NEW a \in Apis, Call(a) PROVE Strays'
  <2>1. UNCHANGED <<input, tolerant, flagVars, sepReports>> /\ Here' = Here
    BY <1>2 DEF Call, readVars, histVars, Here, Abs
  <2>. QED  BY <2>1, StraysQuiet
<1>3. CASE EnterEnded \/ EnterTruncated \/ EnterLoop
  <2>1. UNCHANGED <<input, tolerant, flagVars, sepReports>> /\ Here' = Here
    BY <1>3 DEF EnterEnded, EnterTruncated, EnterLoop, readVars, histVars, Here, Abs
  <2>. QED  BY <2>1, StraysQuiet
<1>4. pc \in {"top", "scan"} => ~hasEnded /\ ~tailTruncated
  BY DEF Track, OpenWhileLooping
<1>5. ASSUME NEW bytes, TruncatedNow(bytes), UNCHANGED readVars, pc \in {"top", "scan"}
      PROVE  Strays'
  <2>1. /\ UNCHANGED <<input, tolerant, hasStarted, sepReports>>
        /\ tailTruncated' /\ ~hasEnded'
    BY <1>4, <1>5 DEF TruncatedNow, readVars
  <2>. QED  BY <2>1, StraysCut
<1>6. CASE Top
  <2>1. pc = "top"
    BY <1>6 DEF Top, TopFill, TopDrained, TopSpaces, TopNotArray, TopOpen,
         TopClose, TopScan, CommaRejected, CommaSkipped, TopAt
  <2>2. CASE TopFill
    BY <2>2, StraysRead DEF TopFill
  <2>3. CASE TopDrained
    BY <1>5, <2>1, <2>3 DEF TopDrained
  <2>4. CASE TopSpaces
    <3>1. /\ tail \in head .. tail /\ SkipsTo(head, tail) /\ head' = tail
          /\ UNCHANGED <<readVars, flagVars, sepReports>>
      BY <2>4, AbsType DEF TopSpaces, TopAt, histVars
    <3>. QED  BY <2>1, <3>1, StraysMoved
  <2>5. ASSUME NEW h \in head .. tail, TopNotArray(h) \/ TopScan(h) \/ CommaRejected(h)
        PROVE  Strays'
    <3>1. /\ SkipsTo(head, h) /\ head' = h
          /\ UNCHANGED <<readVars, flagVars, sepReports>>
      BY <2>5 DEF TopNotArray, TopScan, CommaRejected, TopAt, histVars
    <3>. QED  BY <2>1, <3>1, StraysMoved
  <2>6. ASSUME NEW h \in head .. tail, TopOpen(h) PROVE Strays'
    BY <2>6, StraysStart
  <2>7. ASSUME NEW h \in head .. tail, TopClose(h) PROVE Strays'
    BY <2>7, StraysClose
  <2>8. ASSUME NEW h \in head .. tail, NEW g \in head .. tail, CommaSkipped(h, g)
        PROVE  Strays'
    BY <2>8, StraysComma
  <2>. QED  BY <1>6, <2>2, <2>3, <2>4, <2>5, <2>6, <2>7, <2>8 DEF Top
<1>7. CASE Scan
  <2>1. pc = "scan" /\ ~hasEnded
    BY <1>4, <1>7 DEF Scan, ScanFill, ChunkElement, ChunkSalvage, ChunkPartial,
         BlockElements, BlockBadGap, BlockPhantomsFill, BlockPhantomsEOF, BlockSalvage,
         BlockPartial
  <2>2. CASE ScanFill \/ BlockPhantomsFill
    BY <2>2, StraysRead DEF ScanFill, BlockPhantomsFill
  <2>3. ASSUME NEW e \in head .. tail, ChunkElement(e) \/ BlockElements(e)
        PROVE  Strays'
    BY <2>3, StraysElement
  <2>4. CASE ChunkSalvage \/ BlockSalvage
    <3>1. /\ UNCHANGED <<input, tolerant, hasStarted, hasEnded, sepReports>>
          /\ tailTruncated'
      BY <2>4 DEF ChunkSalvage, BlockSalvage, readVars
    <3>. QED  BY <2>1, <3>1, StraysCut
  <2>5. CASE ChunkPartial \/ BlockPartial \/ BlockPhantomsEOF
    BY <1>5, <2>1, <2>5 DEF ChunkPartial, BlockPartial, BlockPhantomsEOF
  <2>6. CASE BlockBadGap
    <3>1. UNCHANGED <<input, tolerant, flagVars, sepReports>> /\ Here' = Here
      BY <2>6 DEF BlockBadGap, readVars, histVars, Here, Abs
    <3>. QED  BY <3>1, StraysQuiet
  <2>. QED  BY <1>7, <2>2, <2>3, <2>4, <2>5, <2>6 DEF Scan
<1>. QED  BY <1>1, <1>2, <1>3, <1>6, <1>7 DEF Next, Step

\* A tolerant decoder that reached the closing bracket has reported every stray
\* comma it stepped over, and nothing else (stream.go:162-193).
THEOREM StrayCommasHolds ==
    ASSUME FeedAssumption
    PROVE  Spec => []StrayCommasReported
<1>1. Init => Strays
  BY DEF Init, Strays, StrayCommasReported
<1>2. TypeOK /\ BufferWindow /\ Track /\ Strays /\ [Next]_vars => Strays'
  BY StraysStep
<1>3. Strays => StrayCommasReported
  BY DEF Strays
<1>. QED  BY <1>1, <1>2, <1>3, TrackHolds, WindowSafe, PTL DEF Spec
=============================================================================
