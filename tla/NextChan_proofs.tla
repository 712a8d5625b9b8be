--------------------------- MODULE NextChan_proofs ---------------------------
(* For every BufferSize and every list of records: NextChan sends the      *)
(* records in order and writes to no object that is in the channel or      *)
(* among the last three received.                                          *)
EXTENDS NextChan, TLAPS

\* Two records less than a ring apart are in different slots.
LEMMA SlotsDiffer ==
    ASSUME NEW R \in Nat \ {0}, NEW a \in Nat, NEW b \in Nat,
           a < b, b - a < R
    PROVE  a % R # b % R
<1> SUFFICES ASSUME a % R = b % R PROVE FALSE
  OBVIOUS
<1> DEFINE q == b \div R - a \div R
<1>1. a = R * (a \div R) + (a % R) /\ a \div R \in Int
  OBVIOUS
<1>2. b = R * (b \div R) + (b % R) /\ b \div R \in Int
  OBVIOUS
<1>3. b - a = R * q /\ q \in Int
  BY <1>1, <1>2
<1> HIDE DEF q
<1>4. CASE q <= 0
  BY <1>3, <1>4
<1>5. CASE q >= 1
  BY <1>3, <1>5
<1> QED
  BY <1>3, <1>4, <1>5

-----------------------------------------------------------------------------
(* The invariant: besides the properties, a record waiting to be sent is   *)
(* whole and in its slot, and the channel carries nothing but numbers and  *)
(* the error.                                                              *)

Shape ==
    /\ i \in Nat /\ received \in Nat /\ received <= i
    /\ ch \in Seq(Int) /\ Len(ch) <= BufferSize
    /\ ring \in [0 .. (RingSize - 1) -> Int]
    /\ feed \in Seq({"whole", "damaged"})

Waiting == pc = "send" => ring[Slot(i)] = i /\ feed[i + 1] = "whole"

IInv == Shape /\ TypeOK /\ PointersStable /\ InOrder /\ Waiting

USE NextChanAssumption

\* Every slot number is in the ring.
LEMMA SlotInRing == \A k \in Nat : Slot(k) \in 0 .. (RingSize - 1)
BY DEF Slot, RingSize

\* Everything sent and not yet received is in the channel.
LEMMA ChannelHoldsRest ==
    ASSUME IInv
    PROVE  /\ Len(ch) \in Nat /\ Len(ch) >= i - received
           /\ pc \notin {"close", "done"} => Len(ch) = i - received
<1>1. i \in Nat /\ received \in Nat /\ received <= i /\ Len(ch) \in Nat
  BY DEF IInv, Shape
<1>2. Len(ch) >= i - received
  <2>1. CASE received = i
    BY <1>1, <2>1
  <2>2. CASE received < i
    <3>1. i - received \in 1 .. (i - received)
      BY <1>1, <2>2
    <3> QED
      BY <3>1, <1>1 DEF IInv, InOrder
  <2> QED
    BY <1>1, <2>1, <2>2
<1>3. pc \notin {"close", "done"} => ~(Len(ch) > i - received)
  BY DEF IInv, InOrder
<1> QED
  BY <1>1, <1>2, <1>3

\* Writing the slot of the next record touches no record that is in the
\* channel or among the newest three.
LEMMA WriteIsSafe ==
    ASSUME IInv, NEW x \in Int, ring' = [ring EXCEPT ![Slot(i)] = x],
           UNCHANGED <<i, received>>
    PROVE  PointersStable' /\ ring' \in [0 .. (RingSize - 1) -> Int]
<1>1. i - received <= BufferSize
  BY ChannelHoldsRest DEF IInv, Shape
<1>2. ASSUME NEW k \in 0 .. (i - 1), k + 3 >= received
      PROVE  ring'[Slot(k)] = k
  <2>1. Slot(k) # Slot(i)
    <3>1. /\ RingSize \in Nat \ {0} /\ k \in Nat /\ i \in Nat
          /\ k < i /\ i - k < RingSize
      BY <1>1, <1>2 DEF IInv, Shape, RingSize
    <3> QED
      BY <3>1, SlotsDiffer DEF Slot
  <2>2. Slot(k) \in 0 .. (RingSize - 1)
    BY SlotInRing
  <2> QED
    BY <1>2, <2>1, <2>2 DEF IInv, Shape, PointersStable, StableFor
<1>3. ring' \in [0 .. (RingSize - 1) -> Int]
  BY DEF IInv, Shape
<1> QED
  BY <1>2, <1>3 DEF PointersStable, StableFor, Slot, RingSize

LEMMA InitIInv == Init => IInv
<1> SUFFICES ASSUME Init PROVE IInv
  OBVIOUS
<1> USE DEF Init
<1>1. Shape
  BY DEF Shape, Zero
<1>2. TypeOK
  BY <1>1 DEF Shape, TypeOK, RingSize
<1> QED
  BY <1>1, <1>2 DEF IInv, PointersStable, StableFor, InOrder, Waiting

\* What is received next is the oldest record of the channel, or the error.
LEMMA HeadIsNext ==
    ASSUME IInv, ch # <<>>
    PROVE  /\ Head(ch) # Failure => received < i /\ Head(ch) = received
           /\ Head(ch) = Failure => received = i /\ Len(ch) = 1
<1>1. /\ ch \in Seq(Int) /\ Len(ch) \in Nat /\ Len(ch) > 0 /\ Head(ch) = ch[1]
      /\ i \in Nat /\ received \in Nat
  BY DEF IInv, Shape
<1>2. CASE received < i
  BY <1>1, <1>2 DEF IInv, InOrder, Failure
<1>3. CASE received = i
  <2>1. Len(ch) = 1 /\ ch[Len(ch)] = Failure
    BY <1>1, <1>3 DEF IInv, InOrder
  <2> QED
    BY <1>1, <1>3, <2>1
<1> QED
  BY <1>1, <1>2, <1>3 DEF IInv, Shape

\* Every step keeps the invariant.
LEMMA NextIInv == IInv /\ [Next]_vars => IInv'
<1> SUFFICES ASSUME IInv, [Next]_vars PROVE IInv'
  OBVIOUS
<1>1. CASE NextRecord
  <2>1. PointersStable' /\ ring' \in [0 .. (RingSize - 1) -> Int]
    <3>1. Torn \in Int
      BY DEF Torn
    <3> QED
      BY <1>1, <3>1, WriteIsSafe DEF NextRecord, callerVars
  <2>2. Shape'
    BY <1>1, <2>1 DEF NextRecord, IInv, Shape, callerVars
  <2>3. TypeOK'
    BY <1>1, <2>1 DEF NextRecord, IInv, TypeOK, callerVars
  <2>4. InOrder' /\ Waiting'
    BY <1>1 DEF NextRecord, IInv, InOrder, Waiting, callerVars
  <2> QED
    BY <2>1, <2>2, <2>3, <2>4 DEF IInv
<1>2. CASE NextError \/ NextEOF
  BY <1>2 DEF NextError, IInv, NextEOF, Shape, TypeOK, PointersStable, StableFor,
              InOrder, Waiting, callerVars
<1>3. CASE ParseWhole
  <2>1. PointersStable' /\ ring' \in [0 .. (RingSize - 1) -> Int]
    <3>1. i \in Int
      BY DEF IInv, Shape
    <3> QED
      BY <1>3, <3>1, WriteIsSafe DEF ParseWhole, callerVars
  <2>2. Shape'
    BY <1>3, <2>1 DEF ParseWhole, IInv, Shape, callerVars
  <2>3. TypeOK'
    BY <1>3, <2>1 DEF ParseWhole, IInv, TypeOK, callerVars
  <2>4. InOrder'
    BY <1>3 DEF ParseWhole, IInv, InOrder, callerVars
  <2>5. Waiting'
    BY <1>3, SlotInRing DEF ParseWhole, IInv, Waiting, Shape, callerVars, Slot, RingSize
  <2> QED
    BY <2>1, <2>2, <2>3, <2>4, <2>5 DEF IInv
<1>4. CASE ParseDamaged
  BY <1>4 DEF ParseDamaged, IInv, Shape, TypeOK, PointersStable, StableFor,
              InOrder, Waiting, callerVars
<1>5. CASE Send
  <2>1. Len(ch) = i - received
    BY <1>5, ChannelHoldsRest DEF Send
  <2>2. Shape'
    BY <1>5 DEF Send, IInv, Shape, callerVars
  <2>3. TypeOK'
    BY <1>5, <2>2 DEF Send, IInv, TypeOK, Shape, callerVars
  <2>4. PointersStable'
    BY <1>5 DEF Send, IInv, PointersStable, StableFor, Waiting, Shape, callerVars
  <2>5. InOrder'
    <3>1. /\ i' = i + 1 /\ received' = received /\ ch' = Append(ch, i)
          /\ ch \in Seq(Int) /\ i \in Nat /\ received \in Nat /\ received <= i
          /\ feed' = feed
      BY <1>5 DEF Send, IInv, Shape, callerVars
    <3>2. \A j \in 1 .. (i' - received') : j <= Len(ch') /\ ch'[j] = received' + j - 1
      BY <2>1, <3>1 DEF IInv, InOrder
    <3>3. ~(Len(ch') > i' - received')
      BY <2>1, <3>1
    <3>4. \A k \in 0 .. (i' - 1) : feed'[k + 1] = "whole"
      <4>1. feed[i + 1] = "whole" /\ \A k \in 0 .. (i - 1) : feed[k + 1] = "whole"
        BY <1>5 DEF Send, IInv, InOrder, Waiting
      <4> QED
        BY <3>1, <4>1
    <3> QED
      BY <3>2, <3>3, <3>4 DEF InOrder
  <2>6. Waiting'
    BY <1>5 DEF Send, IInv, Waiting
  <2> QED
    BY <2>2, <2>3, <2>4, <2>5, <2>6 DEF IInv
<1>6. CASE SendError
  <2>1. Len(ch) = i - received
    BY <1>6, ChannelHoldsRest DEF SendError
  <2>2. Shape'
    BY <1>6 DEF SendError, IInv, Shape, Failure, callerVars
  <2>3. TypeOK'
    BY <1>6, <2>2 DEF SendError, IInv, TypeOK, Shape, callerVars
  <2>4. PointersStable' /\ Waiting'
    BY <1>6 DEF SendError, IInv, PointersStable, StableFor, Waiting, callerVars
  <2>5. InOrder'
    BY <1>6, <2>1 DEF SendError, IInv, InOrder, Shape, callerVars
  <2> QED
    BY <2>2, <2>3, <2>4, <2>5 DEF IInv
<1>7. CASE Close
  BY <1>7 DEF Close, IInv, Shape, TypeOK, PointersStable, StableFor, InOrder,
              Waiting, callerVars
<1>8. CASE Receive
  <2>1. /\ Head(ch) # Failure => received < i
        /\ Head(ch) = Failure => received = i /\ Len(ch) = 1
    BY <1>8, HeadIsNext DEF Receive
  <2>2. /\ ch' \in Seq(Int) /\ Len(ch') = Len(ch) - 1
        /\ \A j \in 1 .. Len(ch') : ch'[j] = ch[j + 1]
    BY <1>8 DEF Receive, IInv, Shape
  <2>3. received' \in Nat /\ received' <= i /\ received <= received'
        /\ (Head(ch) = Failure => received' = received)
        /\ (Head(ch) # Failure => received' = received + 1)
    BY <1>8, <2>1 DEF Receive, IInv, Shape
  <2>4. Shape'
    BY <1>8, <2>2, <2>3 DEF Receive, IInv, Shape, prodVars
  <2>5. TypeOK'
    <3>1. told' \in BOOLEAN
      BY <1>8 DEF Receive, IInv, TypeOK
    <3>2. Len(ch') <= BufferSize /\ received' \in 0 .. i'
      BY <2>4 DEF Shape
    <3>3. UNCHANGED <<feed, ending, tolerant, i, ring, closed, pc, caller>>
      BY <1>8 DEF Receive, prodVars
    <3> QED
      BY <3>1, <3>2, <3>3 DEF IInv, TypeOK, RingSize
  <2>6. PointersStable'
    <3>1. i' = i /\ ring' = ring /\ received \in Nat
      BY <1>8 DEF Receive, prodVars, IInv, Shape
    <3>2. ASSUME NEW k \in 0 .. (i - 1), k + 3 >= received'
          PROVE  ring[Slot(k)] = k
      BY <2>3, <3>1, <3>2 DEF IInv, Shape, PointersStable, StableFor
    <3> QED
      BY <3>1, <3>2 DEF PointersStable, StableFor, Slot, RingSize
  <2>7. InOrder'
    <3>1. CASE Head(ch) = Failure
      BY <1>8, <3>1, <2>1, <2>2, <2>3 DEF Receive, IInv, InOrder, Shape, prodVars
    <3>2. CASE Head(ch) # Failure
      BY <1>8, <3>2, <2>1, <2>2, <2>3 DEF Receive, IInv, InOrder, Shape, prodVars
    <3> QED
      BY <3>1, <3>2
  <2>8. Waiting'
    BY <1>8 DEF Receive, IInv, Waiting, prodVars, Slot
  <2> QED
    BY <2>4, <2>5, <2>6, <2>7, <2>8 DEF IInv
<1>9. CASE SeeClosed \/ Leave \/ UNCHANGED vars
  BY <1>9, ZenonT(30) DEF SeeClosed, IInv, Leave, vars, prodVars, callerVars, Shape, TypeOK,
              PointersStable, StableFor, InOrder, Waiting, Slot
<1> QED
  BY <1>1, <1>2, <1>3, <1>4, <1>5, <1>6, <1>7, <1>8, <1>9 DEF Next, Producer

-----------------------------------------------------------------------------
\* For every BufferSize, the objects in the channel and the newest three the
\* caller received are not written to (stream.go:369, 385).
THEOREM PointersHold == Spec => []PointersStable
<1>1. IInv => PointersStable
  BY DEF IInv
<1> QED
  BY InitIInv, NextIInv, <1>1, PTL DEF Spec

\* For every BufferSize, the channel carries the records in order, each once,
\* and at most one error behind them (stream.go:376-394).
THEOREM OrderHolds == Spec => [](TypeOK /\ InOrder)
<1>1. IInv => TypeOK /\ InOrder
  BY DEF IInv
<1> QED
  BY InitIInv, NextIInv, <1>1, PTL DEF Spec

-----------------------------------------------------------------------------
(* Why the goroutine stopped is always visible to a caller that reads on.  *)

Reason == /\ pc \in {"close", "done"} =>
                \/ told
                \/ Len(ch) > i - received
                \/ i = Len(feed) /\ ending = "EOF"
          /\ closed => pc = "done"
          /\ caller = "ended" => closed /\ ch = <<>>

LEMMA NextReason == IInv /\ Reason /\ [Next]_vars => Reason'
<1> SUFFICES ASSUME IInv, Reason, [Next]_vars PROVE Reason'
  OBVIOUS
<1>1. CASE NextRecord \/ NextError \/ NextEOF \/ ParseWhole \/ ParseDamaged
  BY <1>1 DEF NextRecord, NextError, NextEOF, ParseWhole, ParseDamaged,
              Reason, callerVars
<1>2. CASE Send \/ SendError
  <2>1. /\ ch \in Seq(Int) /\ Len(ch) = i - received
        /\ i \in Nat /\ received \in Nat /\ received <= i
    BY <1>2, ChannelHoldsRest DEF Send, SendError, IInv, Shape
  <2>2. CASE Send
    BY <2>2 DEF Send, Reason, callerVars
  <2>3. CASE SendError
    <3>1. Len(ch') > i' - received'
      BY <2>1, <2>3 DEF SendError, callerVars
    <3> QED
      BY <2>3, <3>1 DEF SendError, Reason, callerVars
  <2> QED
    BY <1>2, <2>2, <2>3
<1>3. CASE Close
  BY <1>3 DEF Close, Reason, callerVars
<1>4. CASE Receive
  <2>1. /\ Head(ch) # Failure => received < i
        /\ Len(ch') = Len(ch) - 1
        /\ Len(ch) \in Nat /\ i \in Nat /\ received \in Nat
    BY <1>4, HeadIsNext DEF Receive, IInv, Shape
  <2>2. CASE Head(ch) = Failure
    BY <1>4, <2>2 DEF Receive, Reason, prodVars
  <2>3. CASE Head(ch) # Failure
    <3>1. received' = received + 1 /\ told' = told
      BY <1>4, <2>3 DEF Receive
    <3>2. Len(ch) > i - received => Len(ch') > i - received'
      BY <2>1, <3>1
    <3> QED
      BY <1>4, <3>1, <3>2 DEF Receive, Reason, prodVars
  <2> QED
    BY <2>2, <2>3
<1>5. CASE SeeClosed \/ Leave \/ UNCHANGED vars
  BY <1>5 DEF SeeClosed, Leave, vars, prodVars, callerVars, Reason
<1> QED
  BY <1>1, <1>2, <1>3, <1>4, <1>5 DEF Next, Producer

\* For every BufferSize, a channel that is closed without an error has
\* delivered every record of an input that ended well (stream.go:378-383).
THEOREM CleanCloseHolds == Spec => []CleanCloseIsComplete
<1>1. Init => Reason
  BY DEF Init, Reason
<1>2. IInv /\ Reason => CleanCloseIsComplete
  <2> SUFFICES ASSUME IInv, Reason, caller = "ended", ~told
               PROVE  received = Len(feed) /\ ending = "EOF"
    BY DEF CleanCloseIsComplete
  <2>1. Len(ch) = 0 /\ pc = "done"
    BY DEF Reason
  <2>2. Len(ch) >= i - received /\ i \in Nat /\ received \in Nat /\ received <= i
    BY ChannelHoldsRest DEF IInv, Shape
  <2>3. i = received /\ ~(Len(ch) > i - received)
    BY <2>1, <2>2
  <2> QED
    BY <2>1, <2>3 DEF Reason
<1> QED
  BY InitIInv, NextIInv, NextReason, <1>1, <1>2, PTL DEF Spec
=============================================================================
