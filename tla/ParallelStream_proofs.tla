------------------------ MODULE ParallelStream_proofs ------------------------
(***************************************************************************)
(* For every number of workers, batch size, buffer size and list of        *)
(* blocks: NextChanParallel sends the records in order, no object that is  *)
(* in the channel or was received recently is written to, and an error     *)
(* comes in its place.                                                     *)
(***************************************************************************)
EXTENDS ParallelStream, SequenceTheorems, FiniteSetTheorems, TLAPS

-----------------------------------------------------------------------------
(* The invariant.                                                          *)

PlanBlock == [count : 1 .. Batch, bad : 0 .. Batch]

Record == [base : Nat, count : 1 .. Batch]

Typed ==
    /\ plan \in Seq(PlanBlock) /\ ending \in {"EOF", "error"}
    /\ ppc \in {"read", "fail", "enqueue", "dispatch", "return", "done"}
    /\ blocks \in Seq(Record) /\ Len(blocks) <= Len(plan)
    /\ \A b \in 1 .. Len(blocks) : blocks[b].count = plan[b].count
    /\ batchQueue \in Seq(Nat) /\ taskCh \in Seq(Nat)
    /\ work \in [Workers -> Int]
    /\ done \in [1 .. StreamError -> {"", "ok", "error"}]
    /\ spc \in {"get", "wait", "emit", "fail", "close", "done"}
    /\ cur \in Nat /\ emitted \in Nat
    /\ ch \in Seq(Int) /\ received \in Nat

\* Base, of a list of batches: the records of those built before b.
Start(bs, b) == IF b = 1 THEN 0 ELSE bs[b - 1].base + bs[b - 1].count

\* The batches follow one another without a gap, and none is longer than Batch.
Chain(bs) ==
    /\ \A b \in 1 .. Len(bs) : bs[b].base = Start(bs, b)
    /\ \A b \in 1 .. (Len(bs) + 1) : \A c \in b .. (Len(bs) + 1) :
         Start(bs, b) <= Start(bs, c) /\ Start(bs, c) <= Start(bs, b) + (c - b) * Batch
    /\ \A c \in 1 .. (Len(bs) + 1) : \A k \in 0 .. (Start(bs, c) - 1) :
         \E b \in 1 .. (c - 1) : Start(bs, b) <= k /\ k < Start(bs, b + 1)

Chained == Chain(blocks)

\* Batches the producer has given to the submitter, the stream's error included.
Enqueued ==
    CASE ppc = "enqueue" -> Len(blocks) - 1
      [] ppc \in {"return", "done"} /\ ending = "error" -> Len(blocks) + 1
      [] OTHER -> Len(blocks)

\* The submitter takes them in order.
Queued ==
    /\ cur + Len(batchQueue) = Enqueued /\ Len(batchQueue) <= RawRingSize
    /\ \A i \in 1 .. Len(batchQueue) : batchQueue[i] = cur + i
    /\ ppc \in {"enqueue", "dispatch"} => Len(blocks) >= 1
    /\ ppc \in {"fail", "return", "done"} => Len(blocks) = Len(plan)
    /\ ppc = "fail" => ending = "error"

\* Batches given to the workers.
Dispatched == IF ppc \in {"enqueue", "dispatch"} THEN Len(blocks) - 1 ELSE Len(blocks)

\* The workers take them in order; one that no worker took yet, or that a worker
\* has, is not answered, and each is with one worker.
Tasked ==
    /\ Len(taskCh) <= Dispatched
    /\ \A i \in 1 .. Len(taskCh) : taskCh[i] = Dispatched - Len(taskCh) + i
    /\ \A b \in 1 .. Len(plan) : b > Dispatched - Len(taskCh) => done[b] = ""
    /\ \A w \in Workers : work[w] > 0 =>
         /\ work[w] <= Dispatched - Len(taskCh) /\ done[work[w]] = ""
         /\ \A v \in Workers : work[v] = work[w] => v = w
    /\ done[StreamError] # "ok"

\* What the submitter has sent or begun to send is done.
Submitting ==
    /\ spc = "get" => emitted = (IF cur = 0 THEN 0 ELSE blocks[cur].count) /\ cur <= Len(blocks)
    /\ spc \in {"wait", "emit", "fail"} => cur >= 1
    /\ spc \in {"wait", "fail"} => emitted = 0
    /\ spc = "emit" => cur <= Len(blocks) /\ emitted < blocks[cur].count /\ done[cur] = "ok"
    /\ emitted > 0 => cur \in 1 .. Len(blocks) /\ emitted <= blocks[cur].count /\ done[cur] = "ok"
    /\ \A b \in 1 .. Len(blocks) : b < cur => done[b] = "ok"

\* Until the submitter stops, the channel holds what was sent and not received.
Channel ==
    /\ Len(ch) <= BufferSize
    /\ spc \notin {"close", "done"} => Len(ch) = Sent - received

\* Records are in their slots for as long as the ring has not come round.
Intact ==
    /\ ring \in [0 .. (RingSize - 1) -> Int]
    /\ \A b \in 1 .. Len(blocks) : done[b] = "ok" =>
         \A k \in Start(blocks, b) .. (Start(blocks, b + 1) - 2) :
           k + RingSize >= Start(blocks, Dispatched + 1) => ring[Slot(k)] = k

Order == Typed /\ Chained /\ Queued /\ Tasked /\ Submitting /\ Channel /\ InOrder

IInv == Order /\ Intact

-----------------------------------------------------------------------------
(* Arithmetic and batches.                                                 *)

LEMMA Params == BufferSize \in Nat \ {0} /\ Batch \in Nat \ {0} /\ Pad \in Nat
BY ParallelAssumption

USE Params

LEMMA Times ==
    ASSUME NEW m \in Nat, NEW n \in Nat, m <= n
    PROVE  /\ m * Batch \in Nat /\ n * Batch \in Nat /\ m * Batch <= n * Batch
           /\ (n + 1) * Batch = n * Batch + Batch
<1>1. /\ m * Batch \in Nat /\ n * Batch \in Nat /\ (n - m) * Batch \in Nat
  OBVIOUS
<1>2. n * Batch = m * Batch + (n - m) * Batch
  OBVIOUS
<1>3. (n + 1) * Batch = n * Batch + Batch
  OBVIOUS
<1>. QED  BY <1>1, <1>2, <1>3

LEMMA Sizes ==
    /\ RawRingSize \in Nat /\ RawRingSize * Batch \in Nat
    /\ RingSize = BufferSize + RawRingSize * Batch + 2 * Batch + Pad
    /\ RingSize \in Nat \ {0}
<1>1. RawRingSize \in Nat
  BY ParallelAssumption, FS_CardinalityType DEF RawRingSize
<1>2. RawRingSize * Batch \in Nat /\ (RawRingSize + 2) * Batch = RawRingSize * Batch + 2 * Batch
  BY <1>1
<1>. QED  BY <1>1, <1>2 DEF RingSize

\* Two records less than a ring apart are in different slots.
LEMMA SlotsDiffer ==
    ASSUME NEW a \in Nat, NEW b \in Nat, a < b, b < a + RingSize
    PROVE  Slot(a) # Slot(b)
<1>. SUFFICES ASSUME a % RingSize = b % RingSize PROVE FALSE
  BY DEF Slot
<1>. DEFINE R == RingSize  q == b \div R - a \div R
<1>1. R \in Nat \ {0}
  BY Sizes
<1>. HIDE DEF R
<1>2. /\ a = R * (a \div R) + (a % R) /\ a \div R \in Int
      /\ b = R * (b \div R) + (b % R) /\ b \div R \in Int
  BY <1>1
<1>3. b - a = R * q /\ q \in Int /\ b - a < R /\ b - a > 0
  BY <1>1, <1>2 DEF R
<1>. HIDE DEF q
<1>4. CASE q <= 0
  BY <1>1, <1>3, <1>4
<1>5. CASE q >= 1
  BY <1>1, <1>3, <1>5
<1>. QED  BY <1>3, <1>4, <1>5

LEMMA SlotInRing == \A k \in Nat : Slot(k) \in 0 .. (RingSize - 1)
BY Sizes DEF Slot

LEMMA Lens ==
    ASSUME Typed
    PROVE  /\ Len(blocks) \in Nat /\ Len(plan) \in Nat /\ Len(batchQueue) \in Nat
           /\ Len(taskCh) \in Nat /\ Len(ch) \in Nat /\ Len(blocks) <= Len(plan)
           /\ StreamError = Len(plan) + 1
           /\ cur \in Nat /\ emitted \in Nat /\ received \in Nat
<1>1. /\ plan \in Seq(PlanBlock) /\ blocks \in Seq(Record) /\ batchQueue \in Seq(Nat)
      /\ taskCh \in Seq(Nat) /\ ch \in Seq(Int) /\ Len(blocks) <= Len(plan)
      /\ cur \in Nat /\ emitted \in Nat /\ received \in Nat
  BY DEF Typed
<1>. QED  BY <1>1, LenProperties DEF StreamError

LEMMA BaseIsStart == \A b : Base(b) = Start(blocks, b)
BY DEF Base, Start

LEMMA StartTyped ==
    ASSUME NEW bs \in Seq(Record), NEW b \in 1 .. (Len(bs) + 1)
    PROVE  Start(bs, b) \in Nat
<1>1. CASE b = 1
  BY <1>1 DEF Start
<1>2. CASE b # 1
  <2>1. b - 1 \in 1 .. Len(bs)
    BY <1>2, LenProperties
  <2>2. bs[b - 1] \in Record
    BY <2>1, ElementOfSeq
  <2>. QED  BY <1>2, <2>2 DEF Start, Record
<1>. QED  BY <1>1, <1>2

LEMMA StartNext ==
    ASSUME NEW bs \in Seq(Record), NEW b \in 1 .. Len(bs)
    PROVE  /\ Start(bs, b) \in Nat /\ Start(bs, b + 1) \in Nat
           /\ bs[b].count \in 1 .. Batch /\ bs[b].base \in Nat
           /\ Start(bs, b + 1) = bs[b].base + bs[b].count
<1>1. b \in Nat /\ b \in 1 .. (Len(bs) + 1) /\ b + 1 \in 1 .. (Len(bs) + 1) /\ b + 1 # 1
  BY LenProperties
<1>2. bs[b] \in Record
  BY ElementOfSeq
<1>3. Start(bs, b + 1) = bs[b].base + bs[b].count
  BY <1>1 DEF Start
<1>. QED  BY <1>1, <1>2, <1>3, StartTyped DEF Record

\* A batch r, the n-th, that is added to a chain bs belongs to it.
Extended(bs, cs, n, r) ==
    /\ n \in Nat \ {0} /\ Len(cs) = n /\ cs[n] = r
    /\ \A b \in 1 .. (n - 1) : cs[b] = bs[b]
    /\ \A b \in 1 .. n : Start(cs, b) = Start(bs, b) /\ Start(bs, b) \in Nat
    /\ Start(cs, n + 1) = Start(bs, n) + r.count
    /\ Chain(cs)

LEMMA Extend ==
    ASSUME NEW bs \in Seq(Record), NEW cs \in Seq(Record), NEW n \in Nat, n = Len(bs) + 1,
           NEW r \in Record, r.base = Start(bs, n), cs = Append(bs, r), Chain(bs)
    PROVE  Extended(bs, cs, n, r)
<1>1. /\ cs \in Seq(Record) /\ Len(cs) = n /\ cs[n] = r /\ n \in Nat \ {0} /\ Len(bs) = n - 1
      /\ \A b \in 1 .. (n - 1) : cs[b] = bs[b]
  BY LenProperties, AppendProperties
<1>2. ASSUME NEW b \in 1 .. n PROVE Start(cs, b) = Start(bs, b) /\ Start(bs, b) \in Nat
  <2>1. Start(bs, b) \in Nat
    BY <1>1, StartTyped
  <2>2. b = 1 \/ b - 1 \in 1 .. (n - 1)
    BY <1>1
  <2>. QED  BY <2>1, <2>2, <1>1 DEF Start
<1>3. r.count \in 1 .. Batch /\ Start(cs, n + 1) = Start(bs, n) + r.count
  BY <1>1 DEF Start, Record
<1>4. \A b \in 1 .. n : cs[b].base = Start(cs, b)
  BY <1>1, <1>2 DEF Chain
<1>5. ASSUME NEW b \in 1 .. (n + 1), NEW c \in b .. (n + 1)
      PROVE  Start(cs, b) <= Start(cs, c) /\ Start(cs, c) <= Start(cs, b) + (c - b) * Batch
  <2>1. CASE c <= n
    <3>1. b \in 1 .. n /\ c \in 1 .. n /\ c \in b .. n
      BY <1>1, <2>1
    <3>2. Start(bs, b) <= Start(bs, c) /\ Start(bs, c) <= Start(bs, b) + (c - b) * Batch
      BY <1>1, <3>1 DEF Chain
    <3>. QED  BY <1>2, <3>1, <3>2
  <2>2. CASE c = n + 1 /\ b <= n
    <3>1. b \in 1 .. n /\ n \in b .. n /\ n \in 1 .. n /\ n - b \in Nat /\ c - b = (n - b) + 1
      BY <1>1, <2>2
    <3>2. Start(bs, b) <= Start(bs, n) /\ Start(bs, n) <= Start(bs, b) + (n - b) * Batch
      BY <1>1, <3>1 DEF Chain
    <3>3. (c - b) * Batch = (n - b) * Batch + Batch /\ (n - b) * Batch \in Nat
      BY <3>1, Times
    <3>4. Start(cs, b) = Start(bs, b) /\ Start(bs, b) \in Nat /\ Start(bs, n) \in Nat
      BY <1>2, <3>1
    <3>. QED  BY <1>3, <2>2, <3>2, <3>3, <3>4
  <2>3. CASE b = n + 1
    <3>1. c = b /\ c - b = 0 /\ 0 * Batch = 0 /\ n \in 1 .. n
      BY <1>1, <2>3
    <3>2. Start(cs, n + 1) \in Nat
      BY <1>2, <1>3, <3>1
    <3>. QED  BY <2>3, <3>1, <3>2
  <2>. QED  BY <1>1, <2>1, <2>2, <2>3
<1>6. ASSUME NEW c \in 1 .. (n + 1), NEW k \in 0 .. (Start(cs, c) - 1)
      PROVE  \E b \in 1 .. (c - 1) : Start(cs, b) <= k /\ k < Start(cs, b + 1)
  <2>0. n \in 1 .. n
    BY <1>1
  <2>1. ASSUME NEW d \in 1 .. n, d <= c, k < Start(bs, d)
        PROVE  \E b \in 1 .. (c - 1) : Start(cs, b) <= k /\ k < Start(cs, b + 1)
    <3>1. k \in 0 .. (Start(bs, d) - 1)
      BY <1>2, <2>1
    <3>2. PICK b \in 1 .. (d - 1) : Start(bs, b) <= k /\ k < Start(bs, b + 1)
      BY <1>1, <3>1 DEF Chain
    <3>3. b \in 1 .. n /\ b + 1 \in 1 .. n /\ b \in 1 .. (c - 1)
      BY <1>1, <2>1, <3>2
    <3>. QED  BY <1>2, <3>2, <3>3
  <2>2. CASE c <= n
    BY <1>1, <1>2, <2>1, <2>2
  <2>3. CASE c = n + 1 /\ k < Start(bs, n)
    BY <1>1, <2>0, <2>1, <2>3
  <2>4. CASE c = n + 1 /\ k >= Start(bs, n)
    <3>1. n \in 1 .. (c - 1) /\ Start(cs, n) <= k /\ k < Start(cs, n + 1)
      <4>1. Start(cs, n) = Start(bs, n) /\ Start(bs, n) \in Nat
        BY <1>2, <2>0
      <4>2. Start(cs, n + 1) = Start(cs, c) /\ Start(cs, n + 1) \in Nat /\ n \in 1 .. (c - 1)
        BY <1>1, <1>3, <2>4, <4>1
      <4>3. k < Start(cs, c)
        BY <4>2
      <4>. QED  BY <2>4, <4>1, <4>2, <4>3
    <3>. QED  BY <3>1
  <2>5. Start(bs, n) \in Nat /\ k \in Int
    BY <1>2, <2>0
  <2>. QED  BY <1>1, <2>2, <2>3, <2>4, <2>5
<1>7. Chain(cs)
  BY <1>1, <1>4, <1>5, <1>6 DEF Chain
<1>. QED  BY <1>1, <1>2, <1>3, <1>7 DEF Extended

LEMMA SentTyped ==
    ASSUME Order
    PROVE  /\ cur \in 0 .. (Len(blocks) + 1)
           /\ Sent \in Nat /\ (cur > 0 => Start(blocks, cur) \in Nat /\ Start(blocks, cur) <= Sent)
           /\ (cur = Len(blocks) + 1 => cur = StreamError)
           /\ received <= Sent
<1>. USE DEF Order
<1>1. /\ Len(blocks) \in Nat /\ Len(batchQueue) \in Nat /\ cur \in Nat /\ emitted \in Nat
      /\ StreamError = Len(plan) + 1
  BY Lens
<1>2. Enqueued <= Len(blocks) + 1 /\ (Enqueued = Len(blocks) + 1 => Len(blocks) = Len(plan))
  BY <1>1 DEF Enqueued, Queued
<1>3. cur + Len(batchQueue) = Enqueued
  BY DEF Queued
<1>4. cur \in 0 .. (Len(blocks) + 1) /\ (cur = Len(blocks) + 1 => cur = StreamError)
  BY <1>1, <1>2, <1>3 DEF Enqueued
<1>5. cur > 0 => Start(blocks, cur) \in Nat
  <2>1. blocks \in Seq(Record)
    BY DEF Typed
  <2>2. cur > 0 => cur \in 1 .. (Len(blocks) + 1)
    BY <1>1, <1>4
  <2>. QED  BY <2>1, <2>2, StartTyped
<1>6. Sent = IF cur = 0 THEN 0 ELSE Start(blocks, cur) + emitted
  BY BaseIsStart DEF Sent
<1>. QED  BY <1>1, <1>4, <1>5, <1>6 DEF InOrder

-----------------------------------------------------------------------------
(* Every step keeps the order.  First what each step leaves well typed.    *)

LEMMA NextTyped == Order /\ [Next]_vars => Typed'
<1>. SUFFICES ASSUME Order, [Next]_vars PROVE Typed'
  OBVIOUS
<1>0. /\ Typed /\ Len(blocks) \in Nat /\ Len(plan) \in Nat /\ Len(blocks) <= Len(plan)
      /\ cur \in Nat /\ emitted \in Nat /\ received \in Nat
  BY Lens DEF Order
<1>a. plan \in Seq(PlanBlock) /\ blocks \in Seq(Record)
  BY <1>0 DEF Typed
<1>b. batchQueue \in Seq(Nat) /\ taskCh \in Seq(Nat) /\ ch \in Seq(Int)
  BY <1>0 DEF Typed
<1>c. work \in [Workers -> Int]
  BY <1>0 DEF Typed
<1>e. done \in [1 .. StreamError -> {"", "ok", "error"}]
  BY <1>0 DEF Typed
<1>d. \A b \in 1 .. Len(blocks) : blocks[b].count = plan[b].count
  BY <1>0 DEF Typed
<1>n. Len(blocks) \in Nat /\ cur \in Nat /\ emitted \in Nat /\ received \in Nat
  BY <1>0
<1>. USE DEF inputVars, prodVars, queueVars, taskVars, subVars, callerVars
<1>1. CASE ReadBlock
  <2>. DEFINE n == Len(blocks) + 1  r == [base |-> Base(n), count |-> plan[n].count]
  <2>1. n \in 1 .. Len(plan) /\ plan[n] \in PlanBlock /\ Base(n) \in Nat
    <3>1. n \in 1 .. Len(plan) /\ n \in 1 .. (Len(blocks) + 1)
      BY <1>0, <1>1 DEF ReadBlock
    <3>. QED  BY <1>a, <3>1, ElementOfSeq, StartTyped, BaseIsStart
  <2>2. r \in Record /\ r.count = plan[n].count
    BY <2>1 DEF PlanBlock, Record
  <2>3. blocks' = Append(blocks, r) /\ plan' = plan
    BY <1>1 DEF ReadBlock
  <2>. HIDE DEF r
  <2>4. /\ blocks' \in Seq(Record) /\ Len(blocks') = n /\ blocks'[n] = r
        /\ \A b \in 1 .. Len(blocks) : blocks'[b] = blocks[b]
    BY <1>a, <2>2, <2>3, AppendProperties
  <2>5. \A b \in 1 .. Len(blocks') : blocks'[b].count = plan'[b].count
    BY <1>n, <1>d, <2>2, <2>3, <2>4
  <2>6. Len(blocks') <= Len(plan')
    BY <2>1, <2>3, <2>4
  <2>. QED  BY <1>0, <1>1, <2>4, <2>5, <2>6 DEF ReadBlock, Typed, StreamError
<1>2. CASE ReadError \/ ReadEOF \/ CloseTasks
  BY <1>0, <1>2 DEF ReadError, ReadEOF, CloseTasks, Typed, StreamError
<1>3. CASE Enqueue \/ Dispatch \/ EnqueueError
  <2>1. \A n \in Nat : Append(batchQueue, n) \in Seq(Nat) /\ Append(taskCh, n) \in Seq(Nat)
    BY <1>b, AppendProperties
  <2>s. StreamError \in Nat
    BY <1>0 DEF StreamError
  <2>2. batchQueue' \in Seq(Nat) /\ taskCh' \in Seq(Nat)
    BY <1>n, <1>b, <1>3, <2>s, <2>1 DEF Enqueue, Dispatch, EnqueueError
  <2>. QED  BY <1>0, <1>3, <2>2 DEF Enqueue, Dispatch, EnqueueError, Typed, StreamError
<1>4. ASSUME NEW w \in Workers, Worker(w) PROVE Typed'
  <2>1. CASE TakeTask(w)
    <3>1. Head(taskCh) \in Nat /\ Tail(taskCh) \in Seq(Nat)
      BY <1>b, <2>1, HeadTailProperties DEF TakeTask
    <3>w. work' = [work EXCEPT ![w] = Head(taskCh)] /\ taskCh' = Tail(taskCh)
      BY <2>1 DEF TakeTask
    <3>2. work' \in [Workers -> Int] /\ taskCh' \in Seq(Nat)
      BY <1>b, <1>c, <3>w, <3>1
    <3>. QED  BY <1>0, <2>1, <3>2 DEF TakeTask, Typed, StreamError
  <2>2. CASE FinishTask(w)
    <3>w. /\ work' = [work EXCEPT ![w] = 0]
          /\ done' = [done EXCEPT ![work[w]] = IF Detected(work[w]) THEN "error" ELSE "ok"]
      BY <2>2 DEF FinishTask, Idle
    <3>1. work' \in [Workers -> Int]
      BY <1>c, <3>w
    <3>2. done' \in [1 .. StreamError -> {"", "ok", "error"}]
      BY <1>e, <3>w
    <3>. QED  BY <1>0, <2>2, <3>1, <3>2 DEF FinishTask, Typed, StreamError
  <2>3. CASE WorkerExit(w)
    <3>w. work' = [work EXCEPT ![w] = -1]
      BY <2>3 DEF WorkerExit, Gone
    <3>1. work' \in [Workers -> Int]
      BY <1>c, <3>w
    <3>. QED  BY <1>0, <2>3, <3>1 DEF WorkerExit, Typed, StreamError
  <2>. QED  BY <1>4, <2>1, <2>2, <2>3 DEF Worker
<1>5. CASE GetBatch
  <2>1. Head(batchQueue) \in Nat /\ Tail(batchQueue) \in Seq(Nat)
    BY <1>b, <1>5, HeadTailProperties DEF GetBatch
  <2>. QED  BY <1>0, <1>5, <2>1 DEF GetBatch, Typed, StreamError
<1>6. CASE AwaitDone \/ QueueEnd \/ CloseCh
  BY <1>0, <1>6 DEF AwaitDone, QueueEnd, CloseCh, Typed, StreamError
<1>7. CASE Emit
  <2>1. cur \in 1 .. Len(blocks) /\ blocks[cur].base \in Nat
    <3>1. cur \in 1 .. Len(blocks)
      BY <1>n, <1>7 DEF Emit, Order, Submitting
    <3>. QED  BY <1>a, <3>1, StartNext
  <2>2. /\ ch \in Seq(Int) /\ emitted \in Nat /\ emitted' = emitted + 1
        /\ ch' = Append(ch, blocks[cur].base + emitted)
    BY <1>b, <1>n, <1>7 DEF Emit
  <2>3. ch' \in Seq(Int) /\ emitted' \in Nat
    BY <2>1, <2>2, AppendProperties
  <2>. QED  BY <1>0, <1>7, <2>3 DEF Emit, Typed, StreamError
<1>8. CASE EmitError
  <2>0. ch \in Seq(Int) /\ ch' = Append(ch, Failure) /\ Failure \in Int
    BY <1>b, <1>8 DEF EmitError, Failure
  <2>1. ch' \in Seq(Int)
    BY <2>0, AppendProperties
  <2>. QED  BY <1>0, <1>8, <2>1 DEF EmitError, Typed, StreamError
<1>9. CASE Receive
  <2>0. ch \in Seq(Int) /\ ch # <<>> /\ ch' = Tail(ch)
    BY <1>b, <1>9 DEF Receive
  <2>1. ch' \in Seq(Int)
    BY <2>0, HeadTailProperties
  <2>2. received' \in Nat
    <3>1. received \in Nat /\ (received' = received \/ received' = received + 1)
      BY <1>n, <1>9 DEF Receive
    <3>. QED  BY <3>1
  <2>. QED  BY <1>0, <1>9, <2>1, <2>2 DEF Receive, Typed, StreamError
<1>10. CASE SeeClosed \/ Leave \/ UNCHANGED vars
  BY <1>0, <1>10 DEF SeeClosed, Leave, vars, Typed, StreamError
<1>. QED  BY <1>1, <1>2, <1>3, <1>4, <1>5, <1>6, <1>7, <1>8, <1>9, <1>10
          DEF Next, Producer, Submitter

\* What reading a block does to the batches.
LEMMA AfterRead ==
    ASSUME Order, ReadBlock, NEW n, n = Len(blocks) + 1
    PROVE  /\ n \in Nat \ {0} /\ Len(blocks') = n /\ n <= Len(plan)
           /\ \A b \in 1 .. (n - 1) : blocks'[b] = blocks[b]
           /\ blocks'[n].count \in 1 .. Batch
           /\ \A b \in 1 .. n : Start(blocks', b) = Start(blocks, b) /\ Start(blocks, b) \in Nat
           /\ Start(blocks', n + 1) = Start(blocks, n) + blocks'[n].count
           /\ Chain(blocks')
<1>1. Typed /\ n \in Nat /\ n >= 1 /\ Len(plan) \in Nat /\ n - 1 = Len(blocks)
  BY Lens DEF Order
<1>2. n <= Len(plan)
  BY <1>1 DEF ReadBlock
<1>. DEFINE r == [base |-> Start(blocks, n), count |-> plan[n].count]
<1>3. plan \in Seq(PlanBlock) /\ blocks \in Seq(Record)
  BY <1>1 DEF Typed
<1>4. plan[n] \in PlanBlock /\ Start(blocks, n) \in Nat
  BY <1>1, <1>2, <1>3, ElementOfSeq, StartTyped
<1>5. r \in Record /\ r.base = Start(blocks, n) /\ r.count \in 1 .. Batch
  BY <1>4 DEF PlanBlock, Record
<1>6. blocks' = Append(blocks, r)
  BY BaseIsStart DEF ReadBlock
<1>. HIDE DEF r
<1>a. blocks' \in Seq(Record) /\ n \in Nat
  BY <1>1, <1>3, <1>5, <1>6, AppendProperties
<1>7. Chain(blocks)
  BY DEF Order, Chained
<1>8. n = Len(blocks) + 1
  OBVIOUS
<1>9. Extended(blocks, blocks', n, r)
  BY ONLY <1>a, <1>3, <1>5, <1>6, <1>7, <1>8, Extend
<1>. QED  BY <1>2, <1>5, <1>9 DEF Extended

LEMMA NextChained == Order /\ [Next]_vars => Chained'
<1>. SUFFICES ASSUME Order, [Next]_vars PROVE Chain(blocks')
  BY DEF Chained
<1>1. CASE blocks' = blocks
  BY <1>1 DEF Order, Chained
<1>2. CASE ReadBlock
  BY <1>2, AfterRead
<1>. QED  BY <1>1, <1>2 DEF Next, Producer, Submitter, Worker, vars, inputVars, prodVars,
          ReadError, ReadEOF, Enqueue, Dispatch, EnqueueError, CloseTasks, TakeTask, FinishTask,
          WorkerExit, GetBatch, AwaitDone, Emit, EmitError, QueueEnd, CloseCh, Receive,
          SeeClosed, Leave
LEMMA NextQueued == Order /\ [Next]_vars => Queued'
<1>. SUFFICES ASSUME Order, [Next]_vars PROVE Queued'
  OBVIOUS
<1>. USE DEF inputVars, prodVars, queueVars, taskVars, subVars, callerVars
<1>1. /\ Typed /\ Len(blocks) \in Nat /\ Len(plan) \in Nat /\ cur \in Nat
      /\ Len(batchQueue) \in Nat /\ StreamError = Len(plan) + 1
  BY Lens DEF Order
<1>2. batchQueue \in Seq(Nat)
  BY <1>1 DEF Typed
<1>3. Queued
  BY DEF Order
<1>4. RawRingSize \in Nat
  BY Sizes
<1>5. CASE UNCHANGED <<ppc, blocks, plan, ending, cur, batchQueue>>
  BY <1>3, <1>5 DEF Queued, Enqueued
<1>6. CASE ReadBlock
  <2>1. Len(blocks') = Len(blocks) + 1
    BY <1>6, AfterRead
  <2>2. ppc = "read" /\ ppc' = "enqueue" /\ UNCHANGED <<plan, ending, cur, batchQueue>>
    BY <1>6 DEF ReadBlock
  <2>. QED  BY <1>1, <1>3, <2>1, <2>2 DEF Queued, Enqueued
<1>7. CASE ReadError \/ ReadEOF \/ Dispatch \/ CloseTasks
  <2>1. /\ UNCHANGED <<blocks, plan, ending, cur, batchQueue>>
        /\ \/ ppc = "read" /\ ppc' = "fail" /\ ending = "error" /\ Len(blocks) = Len(plan)
           \/ ppc = "read" /\ ppc' = "return" /\ ending = "EOF" /\ Len(blocks) = Len(plan)
           \/ ppc = "dispatch" /\ ppc' = "read"
           \/ ppc = "return" /\ ppc' = "done"
    BY <1>7 DEF ReadError, ReadEOF, Dispatch, CloseTasks
  <2>. QED  BY <1>1, <1>3, <2>1 DEF Queued, Enqueued
<1>8. CASE Enqueue \/ EnqueueError
  <2>. DEFINE b == IF ppc = "fail" THEN StreamError ELSE Len(blocks)
  <2>1. /\ UNCHANGED <<blocks, plan, ending, cur>> /\ batchQueue' = Append(batchQueue, b)
        /\ Len(batchQueue) < RawRingSize
        /\ \/ ppc = "enqueue" /\ ppc' = "dispatch"
           \/ ppc = "fail" /\ ppc' = "return"
    BY <1>8 DEF Enqueue, EnqueueError
  <2>2. b \in Nat /\ cur + Len(batchQueue) + 1 = b /\ Enqueued' = b
    BY <1>1, <1>3, <2>1 DEF Queued, Enqueued
  <2>. HIDE DEF b
  <2>3. /\ Len(batchQueue') = Len(batchQueue) + 1 /\ batchQueue'[Len(batchQueue) + 1] = b
        /\ \A i \in 1 .. Len(batchQueue) : batchQueue'[i] = batchQueue[i]
    BY <1>2, <2>1, <2>2, AppendProperties
  <2>0. \A i \in 1 .. Len(batchQueue) : batchQueue[i] = cur + i
    BY <1>3 DEF Queued
  <2>4. \A i \in 1 .. Len(batchQueue') : batchQueue'[i] = cur' + i
    <3>. SUFFICES ASSUME NEW i \in 1 .. Len(batchQueue') PROVE batchQueue'[i] = cur' + i
      OBVIOUS
    <3>1. CASE i = Len(batchQueue) + 1
      BY <1>1, <2>1, <2>2, <2>3, <3>1
    <3>2. CASE i # Len(batchQueue) + 1
      <4>1. i \in 1 .. Len(batchQueue)
        BY <1>1, <2>3, <3>2
      <4>. QED  BY <2>0, <2>1, <2>3, <4>1
    <3>. QED  BY <3>1, <3>2
  <2>5. cur' + Len(batchQueue') = Enqueued' /\ Len(batchQueue') <= RawRingSize
    BY <1>1, <1>4, <2>1, <2>2, <2>3
  <2>. QED  BY <1>1, <1>3, <2>1, <2>4, <2>5 DEF Queued
<1>9. CASE GetBatch
  <2>1. /\ batchQueue # <<>> /\ cur' = Head(batchQueue) /\ batchQueue' = Tail(batchQueue)
        /\ UNCHANGED <<ppc, blocks, plan, ending>>
    BY <1>9 DEF GetBatch
  <2>2. /\ Len(batchQueue') = Len(batchQueue) - 1 /\ Len(batchQueue) >= 1
        /\ \A i \in 1 .. Len(batchQueue') : batchQueue'[i] = batchQueue[i + 1]
        /\ cur' = batchQueue[1]
    BY <1>2, <2>1, HeadTailProperties
  <2>3. cur' = cur + 1
    BY <1>1, <1>3, <2>2 DEF Queued
  <2>4. \A i \in 1 .. Len(batchQueue') : batchQueue'[i] = cur' + i
    BY <1>1, <1>3, <2>2, <2>3 DEF Queued
  <2>5. cur' + Len(batchQueue') = Enqueued /\ Enqueued' = Enqueued
        /\ Len(batchQueue') <= RawRingSize
    BY <1>1, <1>3, <1>4, <2>1, <2>2, <2>3, SMTT(30) DEF Queued, Enqueued
  <2>. QED  BY <1>3, <2>1, <2>4, <2>5 DEF Queued
<1>. QED  BY <1>5, <1>6, <1>7, <1>8, <1>9 DEF Next, Producer, Submitter, Worker, vars,
          TakeTask, FinishTask, WorkerExit, AwaitDone, Emit, EmitError, QueueEnd, CloseCh,
          Receive, SeeClosed, Leave
LEMMA NextTasked == Order /\ [Next]_vars => Tasked'
<1>. SUFFICES ASSUME Order, [Next]_vars PROVE Tasked'
  OBVIOUS
<1>. USE DEF inputVars, prodVars, queueVars, taskVars, subVars, callerVars
<1>1. /\ Typed /\ Len(blocks) \in Nat /\ Len(plan) \in Nat /\ Len(taskCh) \in Nat
      /\ Len(blocks) <= Len(plan) /\ StreamError = Len(plan) + 1
  BY Lens DEF Order
<1>2. taskCh \in Seq(Nat)
  BY <1>1 DEF Typed
<1>3. work \in [Workers -> Int]
  BY <1>1 DEF Typed
<1>4. done \in [1 .. (Len(plan) + 1) -> {"", "ok", "error"}]
  BY <1>1 DEF Typed
<1>5. Tasked
  BY DEF Order
<1>6. Dispatched \in Nat /\ Dispatched <= Len(blocks)
  BY <1>1 DEF Dispatched, Order, Queued
<1>a. Len(taskCh) <= Dispatched
  BY <1>5 DEF Tasked
<1>t. PICK t \in Nat : t = Dispatched - Len(taskCh)
  BY <1>1, <1>6, <1>a
<1>7. t <= Len(plan) /\ t <= Dispatched
  BY <1>1, <1>6, <1>t
<1>q. \A i \in 1 .. Len(taskCh) : taskCh[i] = t + i
  BY <1>5, <1>t DEF Tasked
<1>d. \A b \in 1 .. Len(plan) : b > t => done[b] = ""
  BY <1>5, <1>t DEF Tasked
<1>w. ASSUME NEW v \in Workers, work[v] > 0
      PROVE  work[v] \in 1 .. Len(plan) /\ work[v] <= t /\ done[work[v]] = ""
  <2>1. work[v] <= t /\ done[work[v]] = ""
    BY <1>5, <1>t, <1>w DEF Tasked
  <2>2. PICK x \in Int : x = work[v]
    BY <1>3
  <2>3. x > 0 /\ x <= t
    BY <1>w, <2>1, <2>2
  <2>4. x \in 1 .. Len(plan)
    BY <1>1, <1>7, <2>3
  <2>. QED  BY <2>1, <2>2, <2>4
<1>u. \A u, v \in Workers : work[v] > 0 /\ work[u] = work[v] => u = v
  BY <1>5 DEF Tasked
<1>k. ASSUME NEW v \in Workers PROVE work[v] \in Int
  BY <1>3
<1>e. done[Len(plan) + 1] # "ok"
  BY <1>1, <1>5 DEF Tasked
<1>8. CASE UNCHANGED <<ppc, blocks, plan, taskCh, done, work>>
  BY <1>5, <1>8 DEF Tasked, Dispatched, StreamError
<1>9. CASE ReadBlock
  <2>1. Len(blocks') = Len(blocks) + 1
    BY <1>9, AfterRead
  <2>2. ppc = "read" /\ ppc' = "enqueue" /\ UNCHANGED <<plan, taskCh, done, work>>
    BY <1>9 DEF ReadBlock
  <2>3. Dispatched' = Dispatched
    BY <1>1, <2>1, <2>2 DEF Dispatched
  <2>. QED  BY <1>5, <2>2, <2>3 DEF Tasked, StreamError
<1>10. CASE ReadError
  <2>1. /\ ppc = "read" /\ ppc' = "fail" /\ UNCHANGED <<plan, blocks, taskCh, work>>
        /\ done' = [done EXCEPT ![Len(plan) + 1] = "error"]
    BY <1>1, <1>10 DEF ReadError
  <2>2. Dispatched' = Dispatched /\ StreamError' = Len(plan) + 1
    BY <1>1, <2>1 DEF Dispatched, StreamError
  <2>3. \A b \in 1 .. (Len(plan) + 1) : done'[b] = IF b = Len(plan) + 1 THEN "error" ELSE done[b]
    BY <1>4, <2>1
  <2>4. \A b \in 1 .. Len(plan) : done'[b] = done[b]
    BY <1>1, <2>3
  <2>5. Len(plan) + 1 \in 1 .. (Len(plan) + 1)
    BY <1>1
  <2>6. done'[Len(plan) + 1] # "ok"
    BY <2>3, <2>5
  <2>7. \A v \in Workers : work[v] > 0 => work[v] <= t /\ done'[work[v]] = ""
    BY <1>w, <2>4
  <2>8. \A b \in 1 .. Len(plan) : b > t => done'[b] = ""
    BY <1>d, <2>4
  <2>. QED  BY <1>5, <1>t, <1>u, <2>1, <2>2, <2>6, <2>7, <2>8 DEF Tasked
<1>11. CASE ReadEOF \/ Enqueue \/ EnqueueError \/ CloseTasks
  <2>1. UNCHANGED <<plan, blocks, taskCh, work, done>>
    BY <1>11 DEF ReadEOF, Enqueue, EnqueueError, CloseTasks
  <2>2. Dispatched' = Dispatched
    BY <1>11 DEF ReadEOF, Enqueue, EnqueueError, CloseTasks, Dispatched
  <2>. QED  BY <1>5, <2>1, <2>2 DEF Tasked, StreamError
<1>12. CASE Dispatch
  <2>1. /\ ppc = "dispatch" /\ ppc' = "read" /\ UNCHANGED <<plan, blocks, work, done>>
        /\ taskCh' = Append(taskCh, Len(blocks))
    BY <1>12 DEF Dispatch
  <2>2. /\ Len(taskCh') = Len(taskCh) + 1 /\ taskCh'[Len(taskCh) + 1] = Len(blocks)
        /\ \A i \in 1 .. Len(taskCh) : taskCh'[i] = taskCh[i]
    BY <1>1, <1>2, <2>1, AppendProperties
  <2>3. Dispatched' = Len(blocks) /\ Dispatched = Len(blocks) - 1
    BY <1>1, <2>1 DEF Dispatched
  <2>4. Dispatched' - Len(taskCh') = t /\ Len(taskCh') <= Dispatched'
    BY <1>1, <1>t, <2>2, <2>3
  <2>5. ASSUME NEW i \in 1 .. Len(taskCh') PROVE taskCh'[i] = t + i
    <3>1. CASE i = Len(taskCh) + 1
      BY <1>1, <1>t, <2>2, <2>3, <3>1
    <3>2. CASE i # Len(taskCh) + 1
      <4>1. i \in 1 .. Len(taskCh)
        BY <1>1, <2>2, <3>2
      <4>. QED  BY <1>q, <2>2, <4>1
    <3>. QED  BY <3>1, <3>2
  <2>. QED  BY <1>5, <1>t, <2>1, <2>4, <2>5 DEF Tasked, StreamError
<1>13. ASSUME NEW w \in Workers, TakeTask(w) PROVE Tasked'
  <2>1. /\ taskCh # <<>> /\ UNCHANGED <<ppc, plan, blocks, done>>
        /\ work' = [work EXCEPT ![w] = Head(taskCh)] /\ taskCh' = Tail(taskCh)
    BY <1>13 DEF TakeTask
  <2>2. /\ Len(taskCh') = Len(taskCh) - 1 /\ Len(taskCh) >= 1 /\ Head(taskCh) = taskCh[1]
        /\ \A i \in 1 .. Len(taskCh') : taskCh'[i] = taskCh[i + 1]
    BY <1>2, <2>1, HeadTailProperties
  <2>3. Head(taskCh) = t + 1
    <3>1. 1 \in 1 .. Len(taskCh)
      BY <1>1, <2>2
    <3>. QED  BY <1>q, <2>2, <3>1
  <2>4. Dispatched' = Dispatched
    BY <2>1 DEF Dispatched
  <2>5. Dispatched - Len(taskCh') = t + 1 /\ Len(taskCh') <= Dispatched
    BY <1>1, <1>6, <1>t, <1>a, <2>2
  <2>6. ASSUME NEW i \in 1 .. Len(taskCh') PROVE taskCh'[i] = (t + 1) + i
    <3>1. i + 1 \in 1 .. Len(taskCh)
      BY <1>1, <2>2
    <3>2. taskCh[i + 1] = t + (i + 1)
      BY <1>q, <3>1
    <3>. QED  BY <2>2, <3>2
  <2>7. t + 1 \in 1 .. Len(plan)
    BY <1>1, <1>6, <1>t, <2>2
  <2>8. done[t + 1] = ""
    <3>1. t + 1 > t
      OBVIOUS
    <3>. QED  BY <1>d, <2>7, <3>1
  <2>9. \A v \in Workers : work'[v] = IF v = w THEN t + 1 ELSE work[v]
    BY <1>3, <2>1, <2>3
  <2>10. ASSUME NEW v \in Workers, work'[v] > 0
         PROVE  work'[v] <= t + 1 /\ done[work'[v]] = ""
    <3>1. CASE v = w
      <4>1. work'[v] = t + 1 /\ t + 1 <= t + 1
        BY <2>9, <3>1
      <4>. QED  BY <2>8, <4>1
    <3>2. CASE v # w
      <4>1. work'[v] = work[v] /\ work[v] > 0
        BY <2>9, <2>10, <3>2
      <4>2. PICK x \in Int : x = work[v]
        BY <1>k
      <4>3. x <= t
        BY <1>w, <4>1, <4>2
      <4>4. x <= t + 1
        BY <4>3
      <4>5. done[x] = ""
        BY <1>w, <4>1, <4>2
      <4>. QED  BY <4>1, <4>2, <4>4, <4>5
    <3>. QED  BY <3>1, <3>2
  <2>11. ASSUME NEW v \in Workers, v # w, work[v] > 0 PROVE work[v] # t + 1
    <3>1. work[v] <= t /\ work[v] \in Int
      BY <1>w, <1>k, <2>11
    <3>. QED  BY <3>1
  <2>12. \A u, v \in Workers : work'[v] > 0 /\ work'[u] = work'[v] => u = v
    BY <1>u, <2>9, <2>11
  <2>13. \A b \in 1 .. Len(plan) : b > t + 1 => done[b] = ""
    <3>. SUFFICES ASSUME NEW b \in 1 .. Len(plan), b > t + 1 PROVE done[b] = ""
      OBVIOUS
    <3>1. b > t
      OBVIOUS
    <3>. QED  BY <1>d, <3>1
  <2>. QED  BY <1>5, <2>1, <2>4, <2>5, <2>6, <2>10, <2>12, <2>13 DEF Tasked, StreamError
<1>14. ASSUME NEW w \in Workers, FinishTask(w) PROVE Tasked'
  <2>1. PICK a \in {"ok", "error"} : done' = [done EXCEPT ![work[w]] = a]
    BY <1>14 DEF FinishTask
  <2>2. /\ work[w] > 0 /\ work' = [work EXCEPT ![w] = 0]
        /\ UNCHANGED <<ppc, plan, blocks, taskCh>>
    BY <1>14 DEF FinishTask, Idle
  <2>3. Dispatched' = Dispatched /\ StreamError' = Len(plan) + 1
    BY <1>1, <2>2 DEF Dispatched, StreamError
  <2>4. work[w] \in 1 .. Len(plan) /\ work[w] <= t
    BY <1>w, <2>2
  <2>5. \A b \in 1 .. (Len(plan) + 1) : b # work[w] => done'[b] = done[b]
    BY <1>4, <2>1
  <2>6. \A b \in 1 .. Len(plan) : b # work[w] => done'[b] = done[b]
    BY <1>1, <2>5
  <2>7. \A v \in Workers : work'[v] = IF v = w THEN 0 ELSE work[v]
    BY <1>3, <2>2
  <2>8. ASSUME NEW v \in Workers, work'[v] > 0
        PROVE  work'[v] <= t /\ done'[work'[v]] = ""
    <3>1. v # w
      BY <2>7, <2>8
    <3>2. work'[v] = work[v] /\ work[v] > 0
      BY <2>7, <2>8, <3>1
    <3>3. work[v] \in 1 .. Len(plan) /\ work[v] <= t /\ done[work[v]] = ""
      BY <1>w, <3>2
    <3>4. work[v] # work[w]
      BY <1>u, <2>2, <3>1
    <3>. QED  BY <2>6, <3>2, <3>3, <3>4
  <2>9. \A u, v \in Workers : work'[v] > 0 /\ work'[u] = work'[v] => u = v
    BY <1>u, <2>7
  <2>10. ASSUME NEW b \in 1 .. Len(plan), b > t PROVE done'[b] = ""
    <3>1. b # work[w]
      BY <2>4, <2>10
    <3>. QED  BY <1>d, <2>6, <2>10, <3>1
  <2>11. done'[Len(plan) + 1] # "ok"
    <3>1. Len(plan) + 1 \in 1 .. (Len(plan) + 1) /\ Len(plan) + 1 # work[w]
      BY <1>1, <2>4
    <3>. QED  BY <1>e, <2>5, <3>1
  <2>. QED  BY <1>5, <1>t, <2>2, <2>3, <2>8, <2>9, <2>10, <2>11 DEF Tasked
<1>15. ASSUME NEW w \in Workers, WorkerExit(w) PROVE Tasked'
  <2>1. work' = [work EXCEPT ![w] = -1] /\ UNCHANGED <<ppc, plan, blocks, taskCh, done>>
    BY <1>15 DEF WorkerExit, Gone
  <2>2. \A v \in Workers : work'[v] = IF v = w THEN -1 ELSE work[v]
    BY <1>3, <2>1
  <2>3. \A v \in Workers : work'[v] > 0 => work'[v] <= t /\ done[work'[v]] = ""
    <3>. SUFFICES ASSUME NEW v \in Workers, work'[v] > 0
                  PROVE  work'[v] <= t /\ done[work'[v]] = ""
      OBVIOUS
    <3>1. v # w
      BY <2>2
    <3>2. work'[v] = work[v] /\ work[v] > 0
      BY <2>2, <3>1
    <3>. QED  BY <1>w, <3>2
  <2>4. \A u, v \in Workers : work'[v] > 0 /\ work'[u] = work'[v] => u = v
    BY <1>u, <2>2
  <2>5. Dispatched' = Dispatched
    BY <2>1 DEF Dispatched
  <2>. QED  BY <1>5, <1>t, <2>1, <2>3, <2>4, <2>5 DEF Tasked, StreamError
<1>. QED  BY <1>8, <1>9, <1>10, <1>11, <1>12, <1>13, <1>14, <1>15
          DEF Next, Producer, Submitter, Worker, vars, GetBatch,
          AwaitDone, Emit, EmitError, QueueEnd, CloseCh, Receive, SeeClosed, Leave

\* Batches are only added, and an answer is final.
LEMMA Grows ==
    ASSUME Order, [Next]_vars
    PROVE  /\ Len(blocks) \in Nat /\ Len(blocks') \in Nat /\ Len(blocks) <= Len(blocks')
           /\ \A b \in 1 .. Len(blocks) : blocks'[b] = blocks[b]
           /\ \A b \in 1 .. (Len(blocks) + 1) : Start(blocks', b) = Start(blocks, b)
           /\ \A b \in 1 .. Len(blocks) : done[b] = "ok" => done'[b] = "ok"
<1>1. Typed /\ Len(blocks) \in Nat /\ Len(plan) \in Nat /\ Len(blocks) <= Len(plan)
  BY Lens DEF Order
<1>2. /\ Len(blocks') \in Nat /\ Len(blocks) <= Len(blocks')
      /\ \A b \in 1 .. Len(blocks) : blocks'[b] = blocks[b]
      /\ \A b \in 1 .. (Len(blocks) + 1) : Start(blocks', b) = Start(blocks, b)
  <2>1. CASE blocks' = blocks
    BY <1>1, <2>1
  <2>2. CASE ReadBlock
    <3>1. PICK n : n = Len(blocks) + 1
      OBVIOUS
    <3>2. /\ n \in Nat \ {0} /\ Len(blocks') = n
          /\ \A b \in 1 .. (n - 1) : blocks'[b] = blocks[b]
          /\ \A b \in 1 .. n : Start(blocks', b) = Start(blocks, b)
      BY <2>2, <3>1, AfterRead
    <3>. QED  BY <1>1, <3>1, <3>2
  <2>. QED  BY <2>1, <2>2 DEF Next, Producer, Submitter, Worker, vars, inputVars, prodVars,
            ReadError, ReadEOF, Enqueue, Dispatch, EnqueueError, CloseTasks, TakeTask,
            FinishTask, WorkerExit, GetBatch, AwaitDone, Emit, EmitError, QueueEnd, CloseCh,
            Receive, SeeClosed, Leave
<1>3. ASSUME NEW b \in 1 .. Len(blocks), done[b] = "ok" PROVE done'[b] = "ok"
  <2>0. done \in [1 .. (Len(plan) + 1) -> {"", "ok", "error"}]
    BY <1>1, Lens DEF Typed
  <2>b. b \in 1 .. (Len(plan) + 1) /\ b # Len(plan) + 1
    BY <1>1
  <2>1. CASE done' = done
    BY <1>3, <2>1
  <2>2. CASE ReadError
    <3>1. done' = [done EXCEPT ![Len(plan) + 1] = "error"]
      BY <1>1, <2>2, Lens DEF ReadError
    <3>. QED  BY <1>3, <2>0, <2>b, <3>1
  <2>3. ASSUME NEW w \in Workers, FinishTask(w) PROVE done'[b] = "ok"
    <3>1. PICK a : done' = [done EXCEPT ![work[w]] = a]
      BY <2>3 DEF FinishTask
    <3>2. done[work[w]] = ""
      BY <2>3 DEF FinishTask, Order, Tasked
    <3>3. b # work[w]
      BY <1>3, <3>2
    <3>. QED  BY <1>3, <2>0, <2>b, <3>1, <3>3
  <2>. QED  BY <2>1, <2>2, <2>3 DEF Next, Producer, Submitter, Worker, vars, taskVars,
            ReadBlock, ReadEOF, Enqueue, Dispatch, EnqueueError, CloseTasks, TakeTask,
            WorkerExit, GetBatch, AwaitDone, Emit, EmitError, QueueEnd, CloseCh,
            Receive, SeeClosed, Leave
<1>. QED  BY <1>1, <1>2, <1>3

LEMMA NextSubmitting == Order /\ [Next]_vars => Submitting'
<1>. SUFFICES ASSUME Order, [Next]_vars PROVE Submitting'
  OBVIOUS
<1>1. /\ Typed /\ Len(blocks) \in Nat /\ cur \in Nat /\ emitted \in Nat
  BY Lens DEF Order
<1>2. cur \in 0 .. (Len(blocks) + 1) /\ (cur = Len(blocks) + 1 => cur = StreamError)
  BY SentTyped
<1>3. /\ Len(blocks') \in Nat /\ Len(blocks) <= Len(blocks')
      /\ \A b \in 1 .. Len(blocks) : blocks'[b] = blocks[b]
      /\ \A b \in 1 .. Len(blocks) : done[b] = "ok" => done'[b] = "ok"
  BY Grows
<1>4. Submitting
  BY DEF Order
<1>5. cur \in 1 .. Len(blocks) => blocks[cur].count \in 1 .. Batch
  BY <1>1, StartNext DEF Typed
<1>6. ASSUME NEW b \in 1 .. Len(blocks'), b < cur PROVE done'[b] = "ok"
  <2>1. b \in 1 .. Len(blocks)
    BY <1>1, <1>2, <1>6
  <2>. QED  BY <1>3, <1>4, <1>6, <2>1 DEF Submitting
<1>7. cur \in 1 .. Len(blocks) => blocks'[cur] = blocks[cur]
  BY <1>3
<1>8. cur \in 1 .. Len(blocks) /\ done[cur] = "ok" => done'[cur] = "ok"
  BY <1>3
<1>9. CASE UNCHANGED <<spc, cur, emitted>>
  BY <1>1, <1>2, <1>3, <1>4, <1>6, <1>7, <1>8, <1>9 DEF Submitting
<1>10. CASE GetBatch
  <2>1. /\ spc = "get" /\ spc' = "wait" /\ emitted' = 0 /\ cur' = Head(batchQueue)
        /\ batchQueue # <<>> /\ blocks' = blocks /\ done' = done
    BY <1>10 DEF GetBatch, prodVars
  <2>2. cur' = cur + 1
    <3>1. batchQueue \in Seq(Nat) /\ Len(batchQueue) \in Nat
      BY <1>1, Lens DEF Typed
    <3>2. Len(batchQueue) >= 1 /\ Head(batchQueue) = batchQueue[1]
      BY <2>1, <3>1
    <3>. QED  BY <1>1, <2>1, <3>1, <3>2 DEF Order, Queued
  <2>3. ASSUME NEW b \in 1 .. Len(blocks), b < cur + 1 PROVE done[b] = "ok"
    <3>1. CASE b < cur
      BY <1>4, <3>1 DEF Submitting
    <3>2. CASE b = cur
      <4>1. emitted = blocks[cur].count /\ emitted > 0
        BY <1>4, <1>5, <2>1, <3>2 DEF Submitting
      <4>. QED  BY <1>4, <3>2, <4>1 DEF Submitting
    <3>. QED  BY <1>1, <2>3, <3>1, <3>2
  <2>. QED  BY <1>1, <2>1, <2>2, <2>3 DEF Submitting
<1>11. CASE AwaitDone
  <2>1. /\ spc = "wait" /\ UNCHANGED <<cur, emitted, blocks, done>> /\ emitted = 0 /\ cur >= 1
        /\ \/ spc' = "emit" /\ done[cur] = "ok"
           \/ spc' = "fail"
    BY <1>4, <1>11 DEF AwaitDone, Submitting, prodVars
  <2>2. done[cur] = "ok" => cur \in 1 .. Len(blocks)
    <3>1. done[StreamError] # "ok"
      BY DEF Order, Tasked
    <3>2. cur # Len(blocks) + 1 => cur \in 1 .. Len(blocks)
      BY <1>1, <1>2, <2>1
    <3>. QED  BY <1>2, <3>1, <3>2
  <2>. QED  BY <1>1, <1>4, <1>5, <1>6, <2>1, <2>2 DEF Submitting
<1>12. CASE Emit
  <2>1. /\ spc = "emit" /\ UNCHANGED <<cur, blocks, done>> /\ emitted' = emitted + 1
        /\ spc' = IF emitted' = blocks[cur].count THEN "get" ELSE "emit"
    BY <1>12 DEF Emit, prodVars
  <2>2. cur \in 1 .. Len(blocks) /\ emitted < blocks[cur].count /\ done[cur] = "ok"
    BY <1>1, <1>4, <2>1 DEF Submitting
  <2>. QED  BY <1>1, <1>5, <1>6, <2>1, <2>2 DEF Submitting
<1>13. CASE EmitError \/ QueueEnd \/ CloseCh
  <2>1. spc' \in {"close", "done"} /\ UNCHANGED <<cur, emitted, blocks, done>>
    BY <1>13 DEF EmitError, QueueEnd, CloseCh, prodVars
  <2>. QED  BY <1>4, <2>1 DEF Submitting
<1>. QED  BY <1>9, <1>10, <1>11, <1>12, <1>13 DEF Next, Producer, Submitter, Worker, vars,
          subVars, ReadBlock, ReadError, ReadEOF, Enqueue, Dispatch, EnqueueError, CloseTasks,
          TakeTask, FinishTask, WorkerExit, Receive, SeeClosed, Leave

-----------------------------------------------------------------------------
(* The records sent, and what of them is in the channel.                   *)

LEMMA SentIs ==
    /\ Sent = IF cur = 0 THEN 0 ELSE Start(blocks, cur) + emitted
    /\ Sent' = IF cur' = 0 THEN 0 ELSE Start(blocks', cur') + emitted'
BY DEF Sent, Base, Start

LEMMA SentKept ==
    ASSUME Order, [Next]_vars, UNCHANGED <<cur, emitted>> \/ GetBatch
    PROVE  Sent' = Sent
<1>1. /\ Typed /\ Len(blocks) \in Nat /\ cur \in Nat /\ emitted \in Nat
      /\ cur \in 0 .. (Len(blocks) + 1)
  BY Lens, SentTyped DEF Order
<1>2. \A b \in 1 .. (Len(blocks) + 1) : Start(blocks', b) = Start(blocks, b)
  BY Grows
<1>3. CASE UNCHANGED <<cur, emitted>>
  <2>1. cur # 0 => cur \in 1 .. (Len(blocks) + 1)
    BY <1>1
  <2>. QED  BY <1>2, <1>3, <2>1, SentIs
<1>4. CASE GetBatch
  <2>1. spc = "get" /\ emitted' = 0 /\ cur' = Head(batchQueue) /\ batchQueue # <<>> /\ blocks' = blocks
    BY <1>4 DEF GetBatch, prodVars
  <2>2. cur' = cur + 1
    <3>1. batchQueue \in Seq(Nat) /\ Len(batchQueue) \in Nat
      BY <1>1, Lens DEF Typed
    <3>2. Len(batchQueue) >= 1 /\ Head(batchQueue) = batchQueue[1]
      BY <2>1, <3>1
    <3>. QED  BY <1>1, <2>1, <3>1, <3>2 DEF Order, Queued
  <2>3. CASE cur = 0
    <3>1. cur' = 1 /\ Start(blocks', 1) = 0
      BY <2>2, <2>3 DEF Start
    <3>2. Sent' = 0 + 0
      BY <2>1, <3>1, SentIs
    <3>. QED  BY <2>3, <3>2, SentIs
  <2>4. CASE cur # 0
    <3>1. cur \in 1 .. Len(blocks) /\ emitted = blocks[cur].count
      BY <1>1, <2>1, <2>4 DEF Order, Submitting
    <3>2. /\ Start(blocks, cur + 1) = blocks[cur].base + blocks[cur].count
          /\ Start(blocks, cur + 1) \in Nat
      BY <1>1, <3>1, StartNext DEF Typed
    <3>3. blocks[cur].base = Start(blocks, cur)
      BY <3>1 DEF Order, Chained, Chain
    <3>4. Sent = Start(blocks, cur + 1)
      BY <2>4, <3>1, <3>2, <3>3, SentIs
    <3>5. Sent' = Start(blocks, cur + 1) + 0
      BY <1>1, <2>1, <2>2, SentIs
    <3>. QED  BY <3>2, <3>4, <3>5
  <2>. QED  BY <2>3, <2>4
<1>. QED  BY <1>3, <1>4

LEMMA SentOnEmit ==
    ASSUME Order, Emit
    PROVE  Sent' = Sent + 1 /\ ch' = Append(ch, Sent)
<1>1. /\ Typed /\ Len(blocks) \in Nat /\ cur \in Nat /\ emitted \in Nat /\ cur >= 1
  BY Lens DEF Order, Submitting, Emit
<1>2. /\ cur' = cur /\ blocks' = blocks /\ emitted' = emitted + 1
      /\ ch' = Append(ch, blocks[cur].base + emitted)
  BY DEF Emit, prodVars
<1>3. cur \in 1 .. Len(blocks)
  BY <1>1 DEF Order, Submitting, Emit
<1>4. blocks[cur].base = Start(blocks, cur) /\ Start(blocks, cur) \in Nat
  BY <1>1, <1>3, StartNext DEF Order, Chained, Chain, Typed
<1>5. Sent = Start(blocks, cur) + emitted /\ Sent' = Start(blocks, cur) + (emitted + 1)
  BY <1>1, <1>2, SentIs
<1>. QED  BY <1>1, <1>2, <1>4, <1>5

\* Everything sent and not yet received is in the channel.
LEMMA ChannelHoldsRest ==
    ASSUME Order
    PROVE  /\ Sent \in Nat /\ received \in Nat /\ received <= Sent /\ Len(ch) \in Nat
           /\ Sent - received <= Len(ch) /\ Len(ch) <= BufferSize
<1>1. Sent \in Nat /\ received \in Nat /\ received <= Sent /\ Len(ch) \in Nat
  BY Lens, SentTyped DEF Order
<1>2. PICK d \in Nat : d = Sent - received
  BY <1>1
<1>3. \A j \in 1 .. d : j <= Len(ch)
  BY <1>2 DEF Order, InOrder
<1>4. d <= Len(ch)
  <2>1. CASE d = 0
    BY <1>1, <2>1
  <2>2. CASE d > 0
    <3>1. d \in 1 .. d
      BY <1>2, <2>2
    <3>. QED  BY <1>3, <3>1
  <2>. QED  BY <1>2, <2>1, <2>2
<1>5. Len(ch) <= BufferSize
  BY DEF Order, Channel
<1>. QED  BY <1>1, <1>2, <1>4, <1>5

\* What is received next is the oldest record of the channel, or the error.
LEMMA HeadIsNext ==
    ASSUME Order, ch # <<>>
    PROVE  /\ Head(ch) # Failure => received < Sent
           /\ Head(ch) = Failure => received = Sent /\ Len(ch) = 1
<1>1. /\ ch \in Seq(Int) /\ Len(ch) \in Nat /\ Len(ch) > 0 /\ Head(ch) = ch[1]
      /\ Sent \in Nat /\ received \in Nat /\ received <= Sent
  <2>1. ch \in Seq(Int)
    BY DEF Order, Typed
  <2>. QED  BY <2>1, ChannelHoldsRest
<1>2. CASE received < Sent
  <2>1. 1 \in 1 .. (Sent - received)
    BY <1>1, <1>2
  <2>2. ch[1] = received + 1 - 1
    BY <2>1 DEF Order, InOrder
  <2>3. Head(ch) # -1
    BY <1>1, <2>2
  <2>. QED  BY <1>2, <2>3 DEF Failure
<1>3. CASE received = Sent
  <2>1. Len(ch) > Sent - received
    BY <1>1, <1>3
  <2>2. Len(ch) = Sent - received + 1 /\ ch[Len(ch)] = Failure
    BY <2>1 DEF Order, InOrder
  <2>3. Len(ch) = 1
    BY <1>1, <1>3, <2>2
  <2>. QED  BY <1>1, <1>3, <2>2, <2>3
<1>. QED  BY <1>1, <1>2, <1>3

LEMMA NextChannel == Order /\ [Next]_vars => Channel' /\ InOrder'
<1>. SUFFICES ASSUME Order, [Next]_vars PROVE Channel' /\ InOrder'
  OBVIOUS
<1>1. /\ Sent \in Nat /\ received \in Nat /\ received <= Sent /\ Len(ch) \in Nat
      /\ Sent - received <= Len(ch) /\ Len(ch) <= BufferSize
  BY ChannelHoldsRest
<1>2. ch \in Seq(Int)
  BY DEF Order, Typed
<1>3. /\ \A j \in 1 .. (Sent - received) : j <= Len(ch) /\ ch[j] = received + j - 1
      /\ Len(ch) > Sent - received => /\ Len(ch) = Sent - received + 1
                                      /\ ch[Len(ch)] = Failure
  BY DEF Order, InOrder
<1>4. spc \notin {"close", "done"} => Len(ch) = Sent - received
  BY DEF Order, Channel
<1>5. ASSUME UNCHANGED <<cur, emitted>> \/ GetBatch, UNCHANGED <<ch, received>>,
             spc \in {"close", "done"} => spc' \in {"close", "done"}
      PROVE  Channel' /\ InOrder'
  <2>1. Sent' = Sent
    BY <1>5, SentKept
  <2>. QED  BY <1>1, <1>3, <1>4, <1>5, <2>1 DEF Channel, InOrder
<1>6. CASE Emit
  <2>1. Sent' = Sent + 1 /\ ch' = Append(ch, Sent)
    BY <1>6, SentOnEmit
  <2>2. spc = "emit" /\ Len(ch) < BufferSize /\ received' = received
    BY <1>6 DEF Emit, callerVars
  <2>3. /\ Len(ch') = Len(ch) + 1 /\ ch'[Len(ch) + 1] = Sent
        /\ \A j \in 1 .. Len(ch) : ch'[j] = ch[j]
    BY <1>1, <1>2, <2>1, AppendProperties
  <2>4. Len(ch') = Sent' - received' /\ Len(ch') <= BufferSize
    BY <1>1, <1>4, <2>1, <2>2, <2>3
  <2>5. ASSUME NEW j \in 1 .. (Sent' - received')
        PROVE  j <= Len(ch') /\ ch'[j] = received' + j - 1
    <3>1. CASE j = Len(ch) + 1
      BY <1>1, <1>4, <2>1, <2>2, <2>3, <2>4, <3>1
    <3>2. CASE j # Len(ch) + 1
      <4>1. j \in 1 .. (Sent - received) /\ j \in 1 .. Len(ch) /\ j <= Len(ch')
        BY <1>1, <1>4, <2>1, <2>2, <2>3, <2>4, <3>2
      <4>. QED  BY <1>3, <2>2, <2>3, <4>1
    <3>. QED  BY <3>1, <3>2
  <2>6. received' <= Sent' /\ ~(Len(ch') > Sent' - received')
    BY <1>1, <2>1, <2>2, <2>4
  <2>. QED  BY <2>4, <2>5, <2>6 DEF Channel, InOrder
<1>7. CASE EmitError
  <2>1. /\ spc = "fail" /\ spc' = "close" /\ Len(ch) < BufferSize /\ ch' = Append(ch, -1)
        /\ UNCHANGED <<cur, emitted, received>>
    BY <1>7 DEF EmitError, callerVars, Failure
  <2>2. Sent' = Sent
    BY <2>1, SentKept
  <2>3. /\ Len(ch') = Len(ch) + 1 /\ ch'[Len(ch) + 1] = -1
        /\ \A j \in 1 .. Len(ch) : ch'[j] = ch[j]
    BY <1>1, <1>2, <2>1, AppendProperties
  <2>4. Len(ch) = Sent - received
    BY <1>4, <2>1
  <2>5. ASSUME NEW j \in 1 .. (Sent - received) PROVE j <= Len(ch') /\ ch'[j] = received + j - 1
    <3>1. j \in 1 .. Len(ch) /\ j <= Len(ch')
      BY <1>1, <2>3, <2>4
    <3>. QED  BY <1>3, <2>3, <3>1
  <2>6. Len(ch') = Sent - received + 1 /\ ch'[Len(ch')] = Failure /\ Len(ch') <= BufferSize
    BY <1>1, <2>1, <2>3, <2>4 DEF Failure
  <2>. QED  BY <1>1, <2>1, <2>2, <2>5, <2>6 DEF Channel, InOrder
<1>8. CASE Receive
  <2>1. /\ ch # <<>> /\ ch' = Tail(ch) /\ UNCHANGED <<spc, cur, emitted>>
        /\ received' = IF Head(ch) = Failure THEN received ELSE received + 1
    BY <1>8 DEF Receive, subVars
  <2>2. Sent' = Sent
    BY <2>1, SentKept
  <2>3. /\ Len(ch') = Len(ch) - 1
        /\ \A j \in 1 .. Len(ch') : ch'[j] = ch[j + 1]
    BY <1>2, <2>1, HeadTailProperties
  <2>4. /\ Head(ch) # Failure => received < Sent
        /\ Head(ch) = Failure => received = Sent /\ Len(ch) = 1
    BY <2>1, HeadIsNext
  <2>5. CASE Head(ch) = Failure
    <3>1. Len(ch') = 0 /\ received' = received /\ Sent - received = 0
      BY <1>1, <2>1, <2>3, <2>4, <2>5
    <3>2. spc \in {"close", "done"}
      BY <1>1, <1>4, <2>4, <2>5, <3>1
    <3>3. Len(ch') <= BufferSize /\ ~(Len(ch') > Sent - received) /\ 1 .. (Sent - received) = {}
      BY <1>1, <3>1
    <3>. QED  BY <1>1, <2>1, <2>2, <3>1, <3>2, <3>3 DEF Channel, InOrder
  <2>6. CASE Head(ch) # Failure
    <3>1. received' = received + 1 /\ received < Sent
      BY <2>1, <2>4, <2>6
    <3>2. ASSUME NEW j \in 1 .. (Sent - received') PROVE j <= Len(ch') /\ ch'[j] = received' + j - 1
      <4>1. j + 1 \in 1 .. (Sent - received) /\ j \in 1 .. Len(ch')
        BY <1>1, <2>3, <3>1
      <4>2. ch[j + 1] = received + (j + 1) - 1
        BY <1>3, <4>1
      <4>. QED  BY <1>1, <2>3, <3>1, <4>1, <4>2
    <3>3. ASSUME Len(ch') > Sent - received'
          PROVE  Len(ch') = Sent - received' + 1 /\ ch'[Len(ch')] = Failure
      <4>1. Len(ch) > Sent - received
        BY <1>1, <2>3, <3>1, <3>3
      <4>2. Len(ch) = Sent - received + 1 /\ ch[Len(ch)] = Failure
        BY <1>3, <4>1
      <4>3. Len(ch') \in 1 .. Len(ch') /\ Len(ch') + 1 = Len(ch)
        BY <1>1, <2>3, <3>1, <4>2
      <4>. QED  BY <1>1, <2>3, <3>1, <4>2, <4>3
    <3>4. spc \notin {"close", "done"} => Len(ch') = Sent - received'
      BY <1>1, <1>4, <2>3, <3>1
    <3>5. Len(ch') <= BufferSize /\ received' <= Sent
      BY <1>1, <2>3, <3>1
    <3>. QED  BY <2>1, <2>2, <3>2, <3>3, <3>4, <3>5 DEF Channel, InOrder
  <2>. QED  BY <2>5, <2>6
<1>9. CASE GetBatch
  BY <1>5, <1>9 DEF GetBatch, callerVars
<1>10. CASE UNCHANGED <<cur, emitted, ch, received>> /\ (UNCHANGED spc \/ spc = "wait" \/ spc' = "close" \/ spc' = "done")
  BY <1>5, <1>10
<1>. QED  BY <1>6, <1>7, <1>8, <1>9, <1>10 DEF Next, Producer, Submitter, Worker, vars,
          subVars, callerVars, ReadBlock, ReadError, ReadEOF, Enqueue, Dispatch, EnqueueError,
          CloseTasks, TakeTask, FinishTask, WorkerExit, AwaitDone, QueueEnd, CloseCh,
          SeeClosed, Leave

LEMMA NextOrder == Order /\ [Next]_vars => Order'
<1>. SUFFICES ASSUME Order, [Next]_vars PROVE Order'
  OBVIOUS
<1>. QED  BY NextTyped, NextChained, NextQueued, NextTasked, NextSubmitting, NextChannel DEF Order
LEMMA InitIInv == Init => IInv
<1>. SUFFICES ASSUME Init PROVE IInv
  OBVIOUS
<1>1. plan \in Seq(PlanBlock) /\ Len(plan) \in Nat
  <2>1. plan \in Seq(PlanBlock)
    BY ParallelAssumption DEF PlanBlock, Init
  <2>. QED  BY <2>1, LenProperties
<1>2. blocks = <<>>
  BY DEF Init
<1>3. blocks \in Seq(Record) /\ Len(blocks) = 0
  BY <1>2, EmptySeq
<1>4. /\ batchQueue = <<>> /\ taskCh = <<>> /\ ch = <<>>
      /\ cur = 0 /\ emitted = 0 /\ received = 0 /\ ppc = "read" /\ spc = "get"
      /\ ending \in {"EOF", "error"}
  BY DEF Init
<1>5. Len(batchQueue) = 0 /\ Len(taskCh) = 0 /\ Len(ch) = 0
  BY <1>4
<1>6. work = [w \in Workers |-> 0]
  BY DEF Init, Idle
<1>7. done = [b \in 1 .. (Len(plan) + 1) |-> ""]
  BY DEF Init, StreamError
<1>8. Typed
  <2>1. work \in [Workers -> Int]
    BY <1>6
  <2>2. done \in [1 .. StreamError -> {"", "ok", "error"}]
    BY <1>7 DEF StreamError
  <2>3. batchQueue \in Seq(Nat) /\ taskCh \in Seq(Nat) /\ ch \in Seq(Int)
    BY <1>4, EmptySeq
  <2>4. \A b \in 1 .. Len(blocks) : blocks[b].count = plan[b].count
    BY <1>3
  <2>5. Len(blocks) <= Len(plan)
    BY <1>1, <1>3
  <2>. QED  BY <1>1, <1>3, <1>4, <2>1, <2>2, <2>3, <2>4, <2>5 DEF Typed
<1>9. Chained
  <2>1. \A b \in 1 .. Len(blocks) : blocks[b].base = Start(blocks, b)
    BY <1>3
  <2>2. Start(blocks, 1) = 0 /\ 1 .. (Len(blocks) + 1) = {1} /\ (1 - 1) * Batch = 0
    BY <1>3 DEF Start
  <2>3. \A b \in 1 .. (Len(blocks) + 1) : \A c \in b .. (Len(blocks) + 1) : b = 1 /\ c = 1
    BY <1>3
  <2>. QED  BY <2>1, <2>2, <2>3 DEF Chained, Chain
<1>10. Queued
  <2>1. Enqueued = 0
    BY <1>3, <1>4 DEF Enqueued
  <2>. QED  BY <1>4, <1>5, <2>1, Sizes DEF Queued
<1>11. Tasked
  <2>1. \A w \in Workers : work[w] = 0
    BY <1>6
  <2>2. \A b \in 1 .. (Len(plan) + 1) : done[b] = ""
    BY <1>7
  <2>3. Len(plan) + 1 \in 1 .. (Len(plan) + 1)
    BY <1>1
  <2>4. \A b \in 1 .. Len(plan) : b \in 1 .. (Len(plan) + 1)
    BY <1>1
  <2>5. Dispatched = 0
    BY <1>3, <1>4 DEF Dispatched
  <2>6. done[StreamError] # "ok"
    BY <2>2, <2>3 DEF StreamError
  <2>7. \A w \in Workers : ~(work[w] > 0)
    BY <2>1
  <2>8. \A b \in 1 .. Len(plan) : done[b] = ""
    BY <2>2, <2>4
  <2>9. Len(taskCh) <= Dispatched /\ 1 .. Len(taskCh) = {}
    BY <1>5, <2>5
  <2>. QED  BY <2>6, <2>7, <2>8, <2>9 DEF Tasked
<1>12. Submitting
  BY <1>3, <1>4 DEF Submitting
<1>13. Channel /\ InOrder
  <2>1. Sent = 0
    BY <1>4 DEF Sent
  <2>. QED  BY <1>4, <1>5, <2>1 DEF Channel, InOrder
<1>14. Intact
  <2>1. ring = [x \in 0 .. (RingSize - 1) |-> -1]
    BY DEF Init, Zero
  <2>2. ring \in [0 .. (RingSize - 1) -> Int]
    BY <2>1
  <2>. QED  BY <1>3, <2>2 DEF Intact
<1>. QED  BY <1>8, <1>9, <1>10, <1>11, <1>12, <1>13, <1>14 DEF IInv, Order

\* For every number of workers, buffer size and batch size, the channel carries
\* the records in the order of the input, each once, and at most one error behind
\* them, whichever worker is done first (stream.go:412, 500-508).
THEOREM OrderHolds == Spec => []InOrder
<1>1. Init => Order
  BY InitIInv DEF IInv
<1>2. Order => InOrder
  BY DEF Order
<1>. QED  BY <1>1, <1>2, NextOrder, PTL DEF Spec

-----------------------------------------------------------------------------
(* The ring.                                                               *)

LEMMA DispatchedRange ==
    ASSUME Order
    PROVE  /\ Dispatched \in 0 .. Len(blocks) /\ Dispatched <= cur + RawRingSize
           /\ \A b \in 1 .. Len(blocks) : done[b] = "ok" => b <= Dispatched
<1>1. /\ Typed /\ Len(blocks) \in Nat /\ Len(plan) \in Nat /\ Len(taskCh) \in Nat /\ cur \in Nat
      /\ Len(batchQueue) \in Nat /\ Len(blocks) <= Len(plan)
  BY Lens DEF Order
<1>2. Dispatched \in 0 .. Len(blocks) /\ Dispatched <= Enqueued
  BY <1>1 DEF Dispatched, Enqueued, Order, Queued
<1>3. cur + Len(batchQueue) = Enqueued /\ Len(batchQueue) <= RawRingSize
  BY DEF Order, Queued
<1>4. Dispatched <= cur + RawRingSize
  BY <1>1, <1>2, <1>3, Sizes
<1>5. ASSUME NEW b \in 1 .. Len(blocks), done[b] = "ok" PROVE b <= Dispatched
  <2>1. b \in 1 .. Len(plan)
    BY <1>1
  <2>2. ~(b > Dispatched - Len(taskCh))
    BY <1>5, <2>1 DEF Order, Tasked
  <2>. QED  BY <1>1, <1>2, <2>2
<1>. QED  BY <1>2, <1>4, <1>5

LEMMA StartsGrow ==
    ASSUME Order, NEW b \in 1 .. (Len(blocks) + 1), NEW c \in 1 .. (Len(blocks) + 1), b <= c
    PROVE  /\ Start(blocks, b) \in Nat /\ Start(blocks, c) \in Nat
           /\ Start(blocks, b) <= Start(blocks, c)
           /\ Start(blocks, c) <= Start(blocks, b) + (c - b) * Batch
<1>0. blocks \in Seq(Record)
  BY DEF Order, Typed
<1>1. Len(blocks) \in Nat /\ c \in b .. (Len(blocks) + 1)
  BY <1>0, LenProperties
<1>2. Start(blocks, b) \in Nat /\ Start(blocks, c) \in Nat
  BY <1>0, StartTyped
<1>. QED  BY <1>1, <1>2 DEF Order, Chained, Chain

\* A record k of an answered block b that the ring has not come round to, and a
\* record m of a block c that is still to be answered, are in different slots.
Kept(b, k) ==
    /\ b \in 1 .. Len(blocks) /\ done[b] = "ok"
    /\ k \in Start(blocks, b) .. (Start(blocks, b + 1) - 1)
    /\ k + RingSize >= Start(blocks, Dispatched + 1)

Unanswered(c) == c \in 1 .. Dispatched /\ done[c] = ""

Pending(c, m) ==
    /\ Unanswered(c)
    /\ m \in Start(blocks, c) .. (Start(blocks, c + 1) - 1)

LEMMA Clear ==
    ASSUME Order, NEW b \in Nat, NEW k \in Nat, Kept(b, k),
           NEW c \in Nat, NEW m \in Nat, Pending(c, m)
    PROVE  Slot(k) # Slot(m)
<1>0. Len(blocks) \in Nat /\ cur \in Nat /\ blocks \in Seq(Record)
  BY Lens DEF Order, Typed
<1>d. /\ Dispatched \in 0 .. Len(blocks) /\ Dispatched <= cur + RawRingSize
      /\ \A x \in 1 .. Len(blocks) : done[x] = "ok" => x <= Dispatched
  BY DispatchedRange
<1>n. PICK N \in Nat : N = Len(blocks)
  BY <1>0
<1>D. PICK D \in 0 .. N : D = Dispatched
  BY <1>d, <1>n
<1>a. done[b] = "ok" /\ done[c] = "" /\ b \in 1 .. Len(blocks)
  BY DEF Kept, Pending, Unanswered
<1>b. b <= Dispatched
  BY <1>d, <1>a
<1>1. b \in 1 .. N /\ b <= D
  BY <1>n, <1>D, <1>a, <1>b
<1>2. c \in 1 .. D
  BY <1>D DEF Pending, Unanswered
<1>3. D <= cur + RawRingSize
  BY <1>d, <1>D
<1>c. b # c
  BY <1>a
<1>e. c \in 1 .. N
  BY <1>2
<1>4. /\ b \in 1 .. (N + 1) /\ b + 1 \in 1 .. (N + 1) /\ c \in 1 .. (N + 1)
      /\ c + 1 \in 1 .. (N + 1) /\ D + 1 \in 1 .. (N + 1)
  BY <1>1, <1>2
<1>5. \A x, y \in 1 .. (N + 1) : x <= y =>
        /\ Start(blocks, x) \in Nat /\ Start(blocks, y) \in Nat
        /\ Start(blocks, x) <= Start(blocks, y)
        /\ Start(blocks, y) <= Start(blocks, x) + (y - x) * Batch
  BY <1>n, StartsGrow
<1>6. PICK b0 \in Nat, b1 \in Nat, c0 \in Nat, c1 \in Nat, e \in Nat :
        /\ b0 = Start(blocks, b) /\ b1 = Start(blocks, b + 1)
        /\ c0 = Start(blocks, c) /\ c1 = Start(blocks, c + 1) /\ e = Start(blocks, D + 1)
  <2>1. /\ Start(blocks, b) \in Nat /\ Start(blocks, b + 1) \in Nat
        /\ Start(blocks, c) \in Nat /\ Start(blocks, c + 1) \in Nat /\ Start(blocks, D + 1) \in Nat
    BY <1>0, <1>n, <1>4, StartTyped
  <2>. QED  BY <2>1
<1>7. k \in b0 .. (b1 - 1) /\ k + RingSize >= e /\ m \in c0 .. (c1 - 1)
  BY <1>D, <1>6 DEF Kept, Pending
<1>8. /\ RawRingSize \in Nat /\ RawRingSize * Batch \in Nat /\ RingSize \in Nat \ {0}
      /\ RingSize = BufferSize + RawRingSize * Batch + 2 * Batch + Pad
  BY Sizes
<1>9. CASE b < c
  <2>1. b + 1 <= c /\ c + 1 <= D + 1
    BY <1>1, <1>2, <1>9
  <2>2. b1 <= c0 /\ c1 <= e
    BY <1>4, <1>5, <1>6, <2>1
  <2>3. k \in Nat /\ m \in Nat /\ k < m /\ m < k + RingSize
    BY <1>7, <1>8, <2>2
  <2>. QED  BY <2>3, SlotsDiffer
<1>10. CASE c < b
  <2>1. c + 1 <= b /\ c <= b + 1
    BY <1>1, <1>2, <1>10
  <2>2. c1 <= b0 /\ b1 <= c0 + ((b + 1) - c) * Batch
    BY <1>4, <1>5, <1>6, <2>1
  <2>3. c >= cur
    <3>1. ~(c < cur)
      BY <1>a, <1>e, <1>n DEF Order, Submitting
    <3>. QED  BY <1>0, <1>2, <3>1
  <2>4. (b + 1) - c \in Nat /\ (b + 1) - c <= RawRingSize + 1
    BY <1>0, <1>1, <1>2, <1>3, <1>8, <1>10, <2>3
  <2>5. /\ ((b + 1) - c) * Batch \in Nat
        /\ ((b + 1) - c) * Batch <= (RawRingSize + 1) * Batch
        /\ (RawRingSize + 1) * Batch = RawRingSize * Batch + Batch
    <3>1. RawRingSize + 1 \in Nat
      BY <1>8
    <3>. QED  BY <1>8, <2>4, <3>1, Times
  <2>6. k \in Nat /\ m \in Nat /\ m < k /\ k < m + RingSize
    <3>1. PICK x \in Nat, y \in Nat : x = ((b + 1) - c) * Batch /\ y = RawRingSize * Batch
      BY <1>8, <2>5
    <3>2. x <= y + Batch /\ b1 <= c0 + x /\ RingSize = BufferSize + y + 2 * Batch + Pad
      BY <1>8, <2>2, <2>5, <3>1
    <3>. QED  BY <1>7, <1>8, <2>2, <3>2
  <2>. QED  BY <2>6, SlotsDiffer
<1>. QED  BY <1>c, <1>9, <1>10

\* What a worker takes, or has, is dispatched and not answered.
LEMMA TaskPending ==
    ASSUME Order
    PROVE  /\ taskCh # <<>> => Head(taskCh) \in Nat /\ Unanswered(Head(taskCh))
           /\ \A w \in Workers : work[w] > 0 => work[w] \in Nat /\ Unanswered(work[w])
<1>1. /\ Typed /\ Len(blocks) \in Nat /\ Len(plan) \in Nat /\ Len(taskCh) \in Nat
      /\ Len(blocks) <= Len(plan) /\ Dispatched \in 0 .. Len(blocks)
  BY Lens, DispatchedRange DEF Order
<1>2. Len(taskCh) <= Dispatched
  BY DEF Order, Tasked
<1>3. PICK D \in Nat, t \in Nat : D = Dispatched /\ t = D - Len(taskCh) /\ D <= Len(plan) /\ t <= D
  BY <1>1, <1>2
<1>4. \A i \in 1 .. Len(taskCh) : taskCh[i] = t + i
  BY <1>3 DEF Order, Tasked
<1>5. \A b \in 1 .. Len(plan) : b > t => done[b] = ""
  BY <1>3 DEF Order, Tasked
<1>6. ASSUME taskCh # <<>>
      PROVE  Head(taskCh) \in Nat /\ Unanswered(Head(taskCh))
  <2>1. taskCh \in Seq(Nat)
    BY <1>1 DEF Typed
  <2>2. Head(taskCh) = taskCh[1] /\ Len(taskCh) >= 1
    BY <1>6, <2>1
  <2>3. 1 \in 1 .. Len(taskCh)
    BY <1>1, <2>2
  <2>4. Head(taskCh) = t + 1
    BY <1>4, <2>2, <2>3
  <2>5. t + 1 \in 1 .. D /\ t + 1 \in 1 .. Len(plan) /\ t + 1 > t
    BY <1>1, <1>3, <2>2
  <2>6. done[t + 1] = ""
    BY <1>5, <2>5
  <2>7. t + 1 \in 1 .. Dispatched /\ t + 1 \in Nat
    BY <1>3, <2>5
  <2>. QED  BY <2>4, <2>6, <2>7 DEF Unanswered
<1>7. ASSUME NEW w \in Workers, work[w] > 0
      PROVE  work[w] \in Nat /\ Unanswered(work[w])
  <2>1. work \in [Workers -> Int]
    BY <1>1 DEF Typed
  <2>2. PICK x \in Int : x = work[w]
    BY <2>1
  <2>3. work[w] <= t /\ done[work[w]] = ""
    BY <1>3, <1>7 DEF Order, Tasked
  <2>4. x > 0 /\ x <= t
    BY <1>7, <2>2, <2>3
  <2>5. x \in 1 .. D /\ x \in Nat
    BY <1>3, <2>4
  <2>6. x \in 1 .. Dispatched
    BY <1>3, <2>5
  <2>. QED  BY <2>2, <2>3, <2>5, <2>6 DEF Unanswered
<1>. QED  BY <1>6, <1>7

LEMMA WrittenPending ==
    ASSUME Order, NEW c \in Nat, Unanswered(c), NEW e \in Nat, e \in Written(c)
    PROVE  /\ c \in 1 .. Len(blocks) /\ e \in 1 .. (blocks[c].count - 1)
           /\ blocks[c].base + e - 1 \in Nat /\ Pending(c, blocks[c].base + e - 1)
<1>1. PICK D \in Nat, N \in Nat : D = Dispatched /\ N = Len(blocks) /\ D <= N
  BY Lens, DispatchedRange DEF Order
<1>c. c \in 1 .. D
  BY <1>1 DEF Unanswered
<1>2. c \in 1 .. Len(blocks)
  BY <1>1, <1>c
<1>3. blocks \in Seq(Record) /\ blocks[c].count = plan[c].count
  BY <1>2 DEF Order, Typed
<1>4. /\ Start(blocks, c + 1) = blocks[c].base + blocks[c].count
      /\ blocks[c].count \in 1 .. Batch /\ blocks[c].base \in Nat
  BY <1>2, <1>3, StartNext
<1>5. blocks[c].base = Start(blocks, c)
  BY <1>2 DEF Order, Chained, Chain
<1>6. e \in 1 .. (blocks[c].count - 1)
  BY <1>3 DEF Written
<1>7. PICK p \in Nat : p = blocks[c].base
  BY <1>4
<1>8. PICK n \in Nat : n = blocks[c].count
  BY <1>4
<1>9. e \in 1 .. (n - 1)
  BY <1>6, <1>8
<1>10. p + e - 1 \in Nat /\ p + e - 1 \in p .. (p + n - 1)
  BY <1>9
<1>11. Start(blocks, c) = p /\ Start(blocks, c + 1) = p + n
  BY <1>4, <1>5, <1>7, <1>8
<1>12. Pending(c, p + e - 1)
  BY <1>10, <1>11 DEF Pending
<1>. QED  BY <1>2, <1>6, <1>7, <1>10, <1>12

\* The batches given to the workers only grow, and with them the part of the input
\* the ring may have come round to.
LEMMA DispatchedGrows ==
    ASSUME Order, [Next]_vars
    PROVE  /\ Dispatched' \in Nat /\ Dispatched <= Dispatched' /\ Dispatched' <= Len(blocks)
           /\ Start(blocks, Dispatched + 1) <= Start(blocks', Dispatched' + 1)
           /\ Start(blocks, Dispatched + 1) \in Nat /\ Start(blocks', Dispatched' + 1) \in Nat
<1>1. /\ Len(blocks) \in Nat /\ Dispatched \in 0 .. Len(blocks)
      /\ \A b \in 1 .. (Len(blocks) + 1) : Start(blocks', b) = Start(blocks, b)
  BY Grows, DispatchedRange
<1>2. Dispatched' \in Nat /\ Dispatched <= Dispatched' /\ Dispatched' <= Len(blocks)
  <2>1. CASE UNCHANGED <<ppc, blocks>>
    BY <1>1, <2>1 DEF Dispatched
  <2>2. CASE ReadBlock
    <3>1. Len(blocks') = Len(blocks) + 1 /\ ppc = "read" /\ ppc' = "enqueue"
      BY <2>2, AfterRead DEF ReadBlock
    <3>. QED  BY <1>1, <3>1 DEF Dispatched
  <2>3. CASE ReadError \/ ReadEOF \/ Enqueue \/ Dispatch \/ EnqueueError \/ CloseTasks
    BY <1>1, <2>3 DEF ReadError, ReadEOF, Enqueue, Dispatch, EnqueueError, CloseTasks, Dispatched
  <2>. QED  BY <2>1, <2>2, <2>3 DEF Next, Producer, Submitter, Worker, vars, prodVars,
            TakeTask, FinishTask, WorkerExit, GetBatch, AwaitDone, Emit, EmitError, QueueEnd,
            CloseCh, Receive, SeeClosed, Leave
<1>3. PICK D \in Nat, E \in Nat : D = Dispatched /\ E = Dispatched'
  BY <1>1, <1>2
<1>a. D <= E /\ E <= Len(blocks)
  BY <1>2, <1>3
<1>4. D + 1 \in 1 .. (Len(blocks) + 1) /\ E + 1 \in 1 .. (Len(blocks) + 1) /\ D + 1 <= E + 1
  BY <1>1, <1>a
<1>5. /\ Start(blocks, D + 1) <= Start(blocks, E + 1)
      /\ Start(blocks, D + 1) \in Nat /\ Start(blocks, E + 1) \in Nat
  BY <1>4, StartsGrow
<1>6. Start(blocks', E + 1) = Start(blocks, E + 1)
  BY <1>1, <1>4
<1>. QED  BY <1>2, <1>3, <1>5, <1>6

\* Writing a block that is still to be answered touches no record that is kept.
LEMMA WriteIsSafe ==
    ASSUME Order, NEW b \in Nat, NEW k \in Nat, Kept(b, k), NEW c \in Nat, Unanswered(c)
    PROVE  \A e \in Written(c) : Slot(k) # Slot(blocks[c].base + e - 1)
<1>. SUFFICES ASSUME NEW e \in Written(c) PROVE Slot(k) # Slot(blocks[c].base + e - 1)
  OBVIOUS
<1>1. e \in Nat
  BY DEF Written
<1>2. blocks[c].base + e - 1 \in Nat /\ Pending(c, blocks[c].base + e - 1)
  BY <1>1, WrittenPending
<1>3. PICK m \in Nat : m = blocks[c].base + e - 1
  BY <1>2
<1>4. Slot(k) # Slot(m)
  BY <1>2, <1>3, Clear
<1>. QED  BY <1>3, <1>4

\* Every slot a worker does not write keeps its record.
LEMMA KeptStays ==
    ASSUME IInv, [Next]_vars, NEW b \in Nat, NEW k \in Nat, Kept(b, k),
           k <= Start(blocks, b + 1) - 2
    PROVE  ring'[Slot(k)] = k
<1>1. ring \in [0 .. (RingSize - 1) -> Int] /\ Slot(k) \in 0 .. (RingSize - 1) /\ Order
  BY SlotInRing DEF IInv, Intact
<1>2. ring[Slot(k)] = k
  <2>1. /\ b \in 1 .. Len(blocks) /\ done[b] = "ok"
        /\ k \in Start(blocks, b) .. (Start(blocks, b + 1) - 2)
        /\ k + RingSize >= Start(blocks, Dispatched + 1)
    BY DEF Kept
  <2>. QED  BY <2>1 DEF IInv, Intact
<1>3. CASE ring' = ring
  BY <1>2, <1>3
<1>4. ASSUME NEW w \in Workers, TakeTask(w) PROVE ring'[Slot(k)] = k
  <2>1. PICK c \in Nat : c = Head(taskCh) /\ Unanswered(c)
    BY <1>1, <1>4, TaskPending DEF TakeTask
  <2>2. ring' = [s \in DOMAIN ring |-> IF s \in SlotsOf(c) THEN Torn ELSE ring[s]]
    BY <1>4, <2>1 DEF TakeTask
  <2>3. Slot(k) \notin SlotsOf(c)
    BY <1>1, <2>1, WriteIsSafe DEF SlotsOf
  <2>. QED  BY <1>1, <1>2, <2>2, <2>3
<1>5. ASSUME NEW w \in Workers, FinishTask(w) PROVE ring'[Slot(k)] = k
  <2>1. PICK c \in Nat : c = work[w] /\ Unanswered(c)
    BY <1>1, <1>5, TaskPending DEF FinishTask
  <2>. DEFINE good == {blocks[c].base + e - 1 : e \in Written(c) \ {plan[c].bad}}
  <2>2. ring' = [s \in DOMAIN ring |-> IF \E x \in good : Slot(x) = s
                                       THEN CHOOSE x \in good : Slot(x) = s ELSE ring[s]]
    BY <1>5, <2>1 DEF FinishTask
  <2>3. ~ \E x \in good : Slot(x) = Slot(k)
    BY <1>1, <2>1, WriteIsSafe
  <2>. HIDE DEF good
  <2>. QED  BY <1>1, <1>2, <2>2, <2>3
<1>. QED  BY <1>3, <1>4, <1>5 DEF Next, Producer, Submitter, Worker, vars, ReadBlock,
          ReadError, ReadEOF, Enqueue, Dispatch, EnqueueError, CloseTasks, WorkerExit,
          GetBatch, AwaitDone, Emit, EmitError, QueueEnd, CloseCh, Receive, SeeClosed, Leave

\* A worker that answers "ok" has written every record but the last of its block.
LEMMA FinishedIsWritten ==
    ASSUME IInv, NEW w \in Workers, FinishTask(w), NEW b \in Nat, b = work[w],
           done'[b] = "ok", NEW k \in Nat,
           k \in Start(blocks, b) .. (Start(blocks, b + 1) - 2)
    PROVE  ring'[Slot(k)] = k
<1>1. Order /\ ring \in [0 .. (RingSize - 1) -> Int] /\ Slot(k) \in 0 .. (RingSize - 1)
  BY SlotInRing DEF IInv, Intact
<1>2. Unanswered(b)
  BY <1>1, TaskPending DEF FinishTask
<1>a. Len(blocks) \in Nat /\ Len(plan) \in Nat /\ Len(blocks) <= Len(plan)
  BY <1>1, Lens DEF Order
<1>d. Dispatched \in 0 .. Len(blocks)
  BY <1>1, DispatchedRange
<1>n. PICK N \in Nat : N = Len(blocks)
  BY <1>a
<1>p. PICK P \in Nat : P = Len(plan)
  BY <1>a
<1>D. PICK D \in 0 .. N : D = Dispatched
  BY <1>d, <1>n
<1>3. D \in Nat /\ D = Dispatched /\ N = Len(blocks) /\ P = Len(plan) /\ D <= N /\ N <= P
  BY <1>a, <1>n, <1>p, <1>D
<1>4. b \in 1 .. D
  BY <1>2, <1>3 DEF Unanswered
<1>5. b \in 1 .. Len(blocks) /\ b \in 1 .. (P + 1) /\ b \in 1 .. P
  BY <1>3, <1>4
<1>6. blocks \in Seq(Record) /\ blocks[b].count = plan[b].count /\ plan \in Seq(PlanBlock)
  BY <1>1, <1>5 DEF Order, Typed
<1>7. /\ Start(blocks, b + 1) = blocks[b].base + blocks[b].count
      /\ blocks[b].count \in 1 .. Batch /\ blocks[b].base \in Nat
      /\ blocks[b].base = Start(blocks, b)
  BY <1>1, <1>5, <1>6, StartNext DEF Order, Chained, Chain
<1>8. plan[b].bad \in 0 .. Batch
  <2>1. plan[b] \in PlanBlock
    BY <1>3, <1>5, <1>6, ElementOfSeq
  <2>. QED  BY <2>1 DEF PlanBlock
<1>9. PICK p \in Nat, n \in 1 .. Batch, x \in 0 .. Batch :
        p = blocks[b].base /\ n = blocks[b].count /\ x = plan[b].bad
  BY <1>7, <1>8
<1>10. x \notin 1 .. (n - 1)
  <2>1. done' = [done EXCEPT ![b] = IF Detected(b) THEN "error" ELSE "ok"]
    BY DEF FinishTask
  <2>2. done \in [1 .. (P + 1) -> {"", "ok", "error"}]
    BY <1>1, <1>3, Lens DEF Order, Typed
  <2>3. ~Detected(b)
    BY <1>5, <2>1, <2>2
  <2>. QED  BY <1>6, <1>9, <2>3 DEF Detected
<1>11. Written(b) = 1 .. (n - 1)
  <2>1. ASSUME NEW e \in 1 .. (n - 1) PROVE x \in {0} \cup (e .. Batch)
    BY <1>9, <1>10
  <2>. QED  BY <1>6, <1>9, <2>1 DEF Written
<1>. DEFINE good == {p + e - 1 : e \in Written(b) \ {x}}
<1>12. k \in good
  <2>1. k - p + 1 \in 1 .. (n - 1) /\ k - p + 1 # x /\ k = p + (k - p + 1) - 1
    BY <1>7, <1>9, <1>10
  <2>. QED  BY <1>11, <2>1
<1>13. \A m \in good : m \in Nat /\ (m < k => k < m + RingSize) /\ (k < m => m < k + RingSize)
  <2>. SUFFICES ASSUME NEW e \in 1 .. (n - 1)
                PROVE  /\ p + e - 1 \in Nat
                       /\ p + e - 1 < k => k < (p + e - 1) + RingSize
                       /\ k < p + e - 1 => p + e - 1 < k + RingSize
    BY <1>11
  <2>1. k \in p .. (p + n - 2)
    BY <1>7, <1>9
  <2>2. RingSize \in Nat /\ RingSize >= 2 * Batch
    BY Sizes
  <2>. QED  BY <1>9, <2>1, <2>2
<1>14. ring' = [s \in DOMAIN ring |-> IF \E m \in good : Slot(m) = s
                                      THEN CHOOSE m \in good : Slot(m) = s ELSE ring[s]]
  BY <1>9 DEF FinishTask
<1>. HIDE DEF good
<1>15. \A m \in good : Slot(m) = Slot(k) => m = k
  <2>. SUFFICES ASSUME NEW m \in good, m # k PROVE Slot(m) # Slot(k)
    OBVIOUS
  <2>1. m \in Nat /\ (m < k => k < m + RingSize) /\ (k < m => m < k + RingSize)
    BY <1>13
  <2>2. CASE m < k
    BY <2>1, <2>2, SlotsDiffer
  <2>3. CASE k < m
    BY <2>1, <2>3, SlotsDiffer
  <2>. QED  BY <2>1, <2>2, <2>3
<1>16. (CHOOSE m \in good : Slot(m) = Slot(k)) = k
  BY <1>12, <1>15
<1>. QED  BY <1>1, <1>12, <1>14, <1>16
LEMMA RingTyped == IInv /\ [Next]_vars => ring' \in [0 .. (RingSize - 1) -> Int]
<1>. SUFFICES ASSUME IInv, [Next]_vars PROVE ring' \in [0 .. (RingSize - 1) -> Int]
  OBVIOUS
<1>1. ring \in [0 .. (RingSize - 1) -> Int] /\ Order
  BY DEF IInv, Intact
<1>2. CASE ring' = ring
  BY <1>1, <1>2
<1>3. ASSUME NEW w \in Workers, TakeTask(w) PROVE ring' \in [0 .. (RingSize - 1) -> Int]
  <2>1. ring' = [s \in DOMAIN ring |-> IF s \in SlotsOf(Head(taskCh)) THEN -2 ELSE ring[s]]
    BY <1>3 DEF TakeTask, Torn
  <2>. QED  BY <1>1, <2>1
<1>4. ASSUME NEW w \in Workers, FinishTask(w) PROVE ring' \in [0 .. (RingSize - 1) -> Int]
  <2>1. PICK c \in Nat : c = work[w] /\ Unanswered(c)
    BY <1>1, <1>4, TaskPending DEF FinishTask
  <2>. DEFINE good == {blocks[c].base + e - 1 : e \in Written(c) \ {plan[c].bad}}
  <2>2. ring' = [s \in DOMAIN ring |-> IF \E x \in good : Slot(x) = s
                                       THEN CHOOSE x \in good : Slot(x) = s ELSE ring[s]]
    BY <1>4, <2>1 DEF FinishTask
  <2>3. \A x \in good : x \in Int
    <3>. SUFFICES ASSUME NEW e \in Written(c) PROVE blocks[c].base + e - 1 \in Int
      OBVIOUS
    <3>1. e \in Nat
      BY DEF Written
    <3>. QED  BY <1>1, <2>1, <3>1, WrittenPending
  <2>. HIDE DEF good
  <2>. QED  BY <1>1, <2>2, <2>3
<1>. QED  BY <1>2, <1>3, <1>4 DEF Next, Producer, Submitter, Worker, vars, ReadBlock,
          ReadError, ReadEOF, Enqueue, Dispatch, EnqueueError, CloseTasks, WorkerExit,
          GetBatch, AwaitDone, Emit, EmitError, QueueEnd, CloseCh, Receive, SeeClosed, Leave

\* Only a worker that finishes makes a block answered with "ok".
LEMMA AnsweredBy ==
    ASSUME Order, [Next]_vars, NEW b \in 1 .. Len(blocks'), done'[b] = "ok"
    PROVE  /\ b \in 1 .. Len(blocks)
           /\ done[b] = "ok" \/ \E w \in Workers : FinishTask(w) /\ work[w] = b
<1>1. Len(blocks) \in Nat /\ Len(plan) \in Nat /\ Typed /\ Len(taskCh) \in Nat
  BY Lens DEF Order
<1>2. done \in [1 .. (Len(plan) + 1) -> {"", "ok", "error"}]
  BY <1>1, Lens DEF Typed
<1>3. CASE ReadBlock
  <2>1. PICK n : n = Len(blocks) + 1
    OBVIOUS
  <2>2. n \in Nat \ {0} /\ Len(blocks') = n /\ n <= Len(plan) /\ done' = done
    BY <1>3, <2>1, AfterRead DEF ReadBlock
  <2>3. done[n] = ""
    <3>1. Dispatched \in 0 .. Len(blocks) /\ Len(taskCh) <= Dispatched
      BY DispatchedRange DEF Order, Tasked
    <3>2. PICK D \in Nat : D = Dispatched /\ D <= Len(blocks)
      BY <1>1, <3>1
    <3>3. PICK t \in Nat : t = D - Len(taskCh) /\ t <= D
      BY <1>1, <3>1, <3>2
    <3>4. n > t /\ n \in 1 .. Len(plan)
      BY <1>1, <2>1, <2>2, <3>2, <3>3
    <3>5. \A c \in 1 .. Len(plan) : c > t => done[c] = ""
      BY <3>2, <3>3 DEF Order, Tasked
    <3>. QED  BY <3>4, <3>5
  <2>4. b # n
    BY <2>2, <2>3
  <2>5. b \in 1 .. Len(blocks)
    BY <1>1, <2>1, <2>2, <2>4
  <2>. QED  BY <2>2, <2>5
<1>4. CASE ReadError
  <2>1. done' = [done EXCEPT ![Len(plan) + 1] = "error"] /\ blocks' = blocks
    BY <1>1, <1>4, Lens DEF ReadError
  <2>2. b \in 1 .. (Len(plan) + 1)
    BY <1>1, <2>1, Lens
  <2>3. done[b] = "ok"
    BY <1>2, <2>1, <2>2
  <2>. QED  BY <2>1, <2>3
<1>5. ASSUME NEW w \in Workers, FinishTask(w)
      PROVE  /\ b \in 1 .. Len(blocks)
             /\ done[b] = "ok" \/ \E v \in Workers : FinishTask(v) /\ work[v] = b
  <2>1. PICK a : done' = [done EXCEPT ![work[w]] = a]
    BY <1>5 DEF FinishTask
  <2>2. blocks' = blocks
    BY <1>5 DEF FinishTask, prodVars
  <2>3. b \in 1 .. (Len(plan) + 1)
    BY <1>1, <2>2, Lens
  <2>4. done[b] = "ok" \/ b = work[w]
    BY <1>2, <2>1, <2>3
  <2>. QED  BY <1>5, <2>2, <2>4
<1>6. CASE UNCHANGED <<blocks, done>>
  BY <1>6
<1>. QED  BY <1>3, <1>4, <1>5, <1>6 DEF Next, Producer, Submitter, Worker, vars, prodVars,
          ReadEOF, Enqueue, Dispatch, EnqueueError, CloseTasks, TakeTask, WorkerExit,
          GetBatch, AwaitDone, Emit, EmitError, QueueEnd, CloseCh, Receive, SeeClosed, Leave

LEMMA NextIInv == IInv /\ [Next]_vars => IInv'
<1>. SUFFICES ASSUME IInv, [Next]_vars PROVE IInv'
  OBVIOUS
<1>1. Order /\ Order'
  BY NextOrder DEF IInv
<1>2. ring' \in [0 .. (RingSize - 1) -> Int]
  BY RingTyped
<1>3. ASSUME NEW b \in 1 .. Len(blocks'), done'[b] = "ok",
             NEW k \in Start(blocks', b) .. (Start(blocks', b + 1) - 2),
             k + RingSize >= Start(blocks', Dispatched' + 1)
      PROVE  ring'[Slot(k)] = k
  <2>1. /\ b \in 1 .. Len(blocks)
        /\ done[b] = "ok" \/ \E w \in Workers : FinishTask(w) /\ work[w] = b
    BY <1>1, <1>3, AnsweredBy
  <2>2. Len(blocks) \in Nat /\ blocks \in Seq(Record)
    BY <1>1, Lens DEF Order, Typed
  <2>3. b \in 1 .. (Len(blocks) + 1) /\ b + 1 \in 1 .. (Len(blocks) + 1) /\ b \in Nat
    BY <2>1, <2>2
  <2>4. Start(blocks', b) = Start(blocks, b) /\ Start(blocks', b + 1) = Start(blocks, b + 1)
    BY <1>1, <2>3, Grows
  <2>5. PICK p \in Nat, q \in Nat : p = Start(blocks, b) /\ q = Start(blocks, b + 1)
    BY <2>2, <2>3, StartTyped
  <2>6. k \in p .. (q - 2) /\ k \in Nat
    BY <2>4, <2>5
  <2>7. PICK d \in Nat, e \in Nat : /\ d = Start(blocks, Dispatched + 1)
                                    /\ e = Start(blocks', Dispatched' + 1) /\ d <= e
    BY <1>1, DispatchedGrows
  <2>8. k + RingSize >= d /\ k \in p .. (q - 1)
    <3>1. k + RingSize >= e
      BY <1>3, <2>7
    <3>. QED  BY <2>6, <2>7, <3>1, Sizes
  <2>9. CASE done[b] = "ok"
    <3>1. Kept(b, k) /\ k <= Start(blocks, b + 1) - 2
      BY <2>1, <2>5, <2>6, <2>7, <2>8, <2>9 DEF Kept
    <3>. QED  BY <2>3, <2>6, <3>1, KeptStays
  <2>10. ASSUME NEW w \in Workers, FinishTask(w), work[w] = b PROVE ring'[Slot(k)] = k
    <3>1. k \in Start(blocks, b) .. (Start(blocks, b + 1) - 2)
      BY <2>5, <2>6
    <3>. QED  BY <1>3, <2>3, <2>6, <2>10, <3>1, FinishedIsWritten
  <2>. QED  BY <2>1, <2>9, <2>10
<1>4. Intact'
  BY <1>2, <1>3 DEF Intact
<1>. QED  BY <1>1, <1>4 DEF IInv

\* The ring has not come round to a record that is in the channel or among the
\* newest Batch + Pad received.
LEMMA RingCovers ==
    ASSUME Order, cur >= 1, NEW k \in Nat, k + Batch + Pad >= received
    PROVE  k + RingSize >= Start(blocks, Dispatched + 1)
<1>1. Sent \in Nat /\ received \in Nat /\ Sent - received <= BufferSize
  <2>1. /\ Sent \in Nat /\ received \in Nat /\ Len(ch) \in Nat
        /\ Sent - received <= Len(ch) /\ Len(ch) <= BufferSize
    BY ChannelHoldsRest
  <2>. QED  BY <2>1
<1>2. /\ cur \in 0 .. (Len(blocks) + 1) /\ Len(blocks) \in Nat
      /\ Start(blocks, cur) \in Nat /\ Start(blocks, cur) <= Sent
  BY SentTyped, Lens DEF Order
<1>3. Dispatched \in 0 .. Len(blocks) /\ Dispatched <= cur + RawRingSize
  BY DispatchedRange
<1>N. PICK N \in Nat : N = Len(blocks)
  BY <1>2
<1>D. PICK D \in 0 .. N : D = Dispatched
  BY <1>3, <1>N
<1>s. PICK s \in Nat : s = Start(blocks, cur)
  BY <1>2
<1>4. PICK y \in Nat : y = RawRingSize * Batch
  BY Sizes
<1>5. RawRingSize \in Nat /\ RingSize = BufferSize + y + 2 * Batch + Pad
  BY <1>4, Sizes
<1>6. s <= k + Batch + Pad + BufferSize
  BY <1>1, <1>2, <1>s
<1>7. cur \in 1 .. (N + 1) /\ D + 1 \in 1 .. (N + 1)
  BY <1>2, <1>N
<1>8. cur \in 1 .. (Len(blocks) + 1) /\ D + 1 \in 1 .. (Len(blocks) + 1)
  BY <1>7, <1>N
<1>9. CASE D + 1 <= cur
  <2>1. Start(blocks, D + 1) <= s /\ Start(blocks, D + 1) \in Nat
    BY <1>8, <1>9, <1>s, StartsGrow
  <2>. QED  BY <1>5, <1>6, <1>D, <2>1
<1>10. CASE cur <= D + 1
  <2>1. /\ Start(blocks, D + 1) <= s + ((D + 1) - cur) * Batch
        /\ Start(blocks, D + 1) \in Nat
    BY <1>8, <1>10, <1>s, StartsGrow
  <2>2. (D + 1) - cur \in Nat /\ (D + 1) - cur <= RawRingSize + 1 /\ RawRingSize + 1 \in Nat
    BY <1>3, <1>5, <1>7, <1>10, <1>D
  <2>3. /\ ((D + 1) - cur) * Batch \in Nat
        /\ ((D + 1) - cur) * Batch <= (RawRingSize + 1) * Batch
        /\ (RawRingSize + 1) * Batch = RawRingSize * Batch + Batch
    BY <1>5, <2>2, Times
  <2>4. PICK x \in Nat : x = ((D + 1) - cur) * Batch
    BY <2>3
  <2>5. x <= y + Batch /\ Start(blocks, D + 1) <= s + x
    BY <1>4, <2>1, <2>3, <2>4
  <2>. QED  BY <1>5, <1>6, <1>D, <2>1, <2>5
<1>. QED  BY <1>7, <1>9, <1>10

\* A record that was sent is in a block that was answered with "ok".
LEMMA SentIsAnswered ==
    ASSUME Order, NEW k \in Nat, k < Sent
    PROVE  /\ cur >= 1
           /\ \E b \in 1 .. Len(blocks) : /\ done[b] = "ok"
                                          /\ Start(blocks, b) <= k /\ k < Start(blocks, b + 1)
<1>1. /\ cur \in 0 .. (Len(blocks) + 1) /\ Len(blocks) \in Nat /\ emitted \in Nat
      /\ blocks \in Seq(Record)
  <2>1. blocks \in Seq(Record)
    BY DEF Order, Typed
  <2>. QED  BY <2>1, SentTyped, Lens DEF Order
<1>2. cur # 0
  BY SentIs
<1>3. Sent = Start(blocks, cur) + emitted
  BY <1>2, SentIs
<1>4. cur \in 1 .. (Len(blocks) + 1)
  BY <1>1, <1>2
<1>5. PICK s \in Nat : s = Start(blocks, cur)
  BY <1>1, <1>4, StartTyped
<1>6. CASE k < s
  <2>1. k \in 0 .. (Start(blocks, cur) - 1)
    BY <1>5, <1>6
  <2>2. PICK b \in 1 .. (cur - 1) : Start(blocks, b) <= k /\ k < Start(blocks, b + 1)
    BY <1>4, <2>1 DEF Order, Chained, Chain
  <2>3. b \in 1 .. Len(blocks) /\ b < cur
    BY <1>1, <1>4, <2>2
  <2>4. done[b] = "ok"
    BY <2>3 DEF Order, Submitting
  <2>. QED  BY <1>1, <1>2, <2>2, <2>3, <2>4
<1>7. CASE k >= s
  <2>1. emitted > 0
    BY <1>1, <1>3, <1>5, <1>7
  <2>2. cur \in 1 .. Len(blocks) /\ emitted <= blocks[cur].count /\ done[cur] = "ok"
    BY <2>1 DEF Order, Submitting
  <2>3. /\ Start(blocks, cur + 1) = blocks[cur].base + blocks[cur].count
        /\ blocks[cur].count \in 1 .. Batch /\ blocks[cur].base = Start(blocks, cur)
    BY <1>1, <2>2, StartNext DEF Order, Chained, Chain
  <2>4. PICK n \in Nat : n = blocks[cur].count
    BY <2>3
  <2>5. Start(blocks, cur + 1) = s + n /\ emitted <= n /\ k < s + emitted
    BY <1>3, <1>5, <2>2, <2>3, <2>4
  <2>6. Start(blocks, cur) <= k /\ k < Start(blocks, cur + 1)
    BY <1>1, <1>5, <1>7, <2>5
  <2>. QED  BY <1>1, <1>2, <2>2, <2>6
<1>. QED  BY <1>6, <1>7

\* BlockOf finds the block of a record.
LEMMA BlockFound ==
    ASSUME Order, NEW k \in Nat, NEW b \in 1 .. Len(blocks),
           Start(blocks, b) <= k, k < Start(blocks, b + 1)
    PROVE  BlockOf(k) = b
<1>1. blocks \in Seq(Record) /\ DOMAIN blocks = 1 .. Len(blocks) /\ Len(blocks) \in Nat
  <2>1. blocks \in Seq(Record)
    BY DEF Order, Typed
  <2>. QED  BY <2>1, LenProperties
<1>2. \A c \in 1 .. Len(blocks) : /\ blocks[c].base = Start(blocks, c)
                                  /\ blocks[c].base + blocks[c].count = Start(blocks, c + 1)
  BY <1>1, StartNext DEF Order, Chained, Chain
<1>3. ASSUME NEW c \in 1 .. Len(blocks), Start(blocks, c) <= k, k < Start(blocks, c + 1)
      PROVE  c = b
  <2>1. /\ b \in 1 .. (Len(blocks) + 1) /\ b + 1 \in 1 .. (Len(blocks) + 1)
        /\ c \in 1 .. (Len(blocks) + 1) /\ c + 1 \in 1 .. (Len(blocks) + 1)
    BY <1>1
  <2>2. CASE c < b
    <3>1. c + 1 <= b
      BY <1>1, <2>2
    <3>2. Start(blocks, c + 1) <= Start(blocks, b) /\ Start(blocks, c + 1) \in Nat /\ Start(blocks, b) \in Nat
      BY <2>1, <3>1, StartsGrow
    <3>. QED  BY <1>3, <3>2
  <2>3. CASE b < c
    <3>1. b + 1 <= c
      BY <1>1, <2>3
    <3>2. Start(blocks, b + 1) <= Start(blocks, c) /\ Start(blocks, b + 1) \in Nat /\ Start(blocks, c) \in Nat
      BY <2>1, <3>1, StartsGrow
    <3>. QED  BY <1>3, <3>2
  <2>. QED  BY <1>1, <2>2, <2>3
<1>. QED  BY <1>1, <1>2, <1>3 DEF BlockOf

\* For every number of workers, batch size, buffer size and list of blocks, no
\* object that is in the channel, or among the newest Batch + Pad received, is
\* written to, however far the workers run ahead (stream.go:425-428).
THEOREM ObjectsStableHolds == Spec => []ObjectsStable
<1>1. IInv => ObjectsStable
  <2>. SUFFICES ASSUME IInv, NEW k \in 0 .. (Sent - 1), k + Batch + Pad >= received, Decoded(k)
                PROVE  ring[Slot(k)] = k
    BY DEF ObjectsStable
  <2>1. Order /\ Sent \in Nat
    BY ChannelHoldsRest DEF IInv
  <2>2. k \in Nat /\ k < Sent
    BY <2>1
  <2>3. PICK b \in 1 .. Len(blocks) : /\ done[b] = "ok" /\ Start(blocks, b) <= k
                                      /\ k < Start(blocks, b + 1)
    BY <2>1, <2>2, SentIsAnswered
  <2>4. BlockOf(k) = b
    BY <2>1, <2>2, <2>3, BlockFound
  <2>5. blocks \in Seq(Record)
    BY <2>1 DEF Order, Typed
  <2>6. /\ Start(blocks, b + 1) = blocks[b].base + blocks[b].count
        /\ Start(blocks, b + 1) \in Nat /\ Start(blocks, b) \in Nat
    BY <2>3, <2>5, StartNext
  <2>7. k + 1 < Start(blocks, b + 1)
    BY <2>4, <2>6 DEF Decoded
  <2>8. k \in Start(blocks, b) .. (Start(blocks, b + 1) - 2)
    BY <2>2, <2>3, <2>6, <2>7
  <2>9. k + RingSize >= Start(blocks, Dispatched + 1)
    BY <2>1, <2>2, SentIsAnswered, RingCovers
  <2>. QED  BY <2>3, <2>8, <2>9 DEF IInv, Intact
<1>. QED  BY InitIInv, NextIInv, <1>1, PTL DEF Spec

-----------------------------------------------------------------------------
(* How the stream ends.                                                    *)

Bad(p, b) == p[b].bad \in 1 .. (p[b].count - 1)

\* An answer says what is in the batch.
Answers ==
    /\ \A b \in 1 .. Len(plan) : done[b] = "ok" => ~Bad(plan, b)
    /\ \A b \in 1 .. Len(plan) : done[b] = "error" => Bad(plan, b)
    /\ done[StreamError] = "error" => ending = "error"

\* The submitter stopped at a batch with an error, and the caller was told or will
\* be; or it sent everything there was.
Failed ==
    /\ told \/ Len(ch) > Sent - received
    /\ cur >= 1 /\ done[cur] = "error" /\ emitted = 0

Complete ==
    /\ ~told /\ Len(ch) = Sent - received
    /\ ending = "EOF" /\ Len(blocks) = Len(plan) /\ \A b \in 1 .. Len(plan) : done[b] = "ok"

Ending ==
    /\ queueClosed => ppc \in {"return", "done"} /\ ending = "EOF"
    /\ spc = "fail" => done[cur] = "error"
    /\ spc \in {"close", "done"} => Failed \/ Complete
    /\ told => spc \in {"close", "done"}
    /\ closed => spc = "done"
    /\ caller = "ended" => closed /\ ch = <<>>

EInv == Order /\ Answers /\ Ending

LEMMA DetectedIsBad == \A b : Detected(b) <=> Bad(plan, b)
BY DEF Detected, Bad

LEMMA PlanStays == [Next]_vars => plan' = plan /\ ending' = ending
BY DEF Next, Producer, Submitter, Worker, vars, inputVars, ReadBlock,
       ReadError, ReadEOF, Enqueue, Dispatch, EnqueueError, CloseTasks, TakeTask, FinishTask,
       WorkerExit, GetBatch, AwaitDone, Emit, EmitError, QueueEnd, CloseCh, Receive,
       SeeClosed, Leave

LEMMA InitEInv == Init => EInv
<1>. SUFFICES ASSUME Init PROVE EInv
  OBVIOUS
<1>1. Order
  BY InitIInv DEF IInv
<1>2. plan \in Seq(PlanBlock) /\ Len(plan) \in Nat /\ StreamError = Len(plan) + 1
  BY <1>1, Lens DEF Order, Typed
<1>3. done = [b \in 1 .. (Len(plan) + 1) |-> ""]
  BY DEF Init, StreamError
<1>4. \A b \in 1 .. (Len(plan) + 1) : done[b] = ""
  BY <1>3
<1>5. /\ \A b \in 1 .. Len(plan) : b \in 1 .. (Len(plan) + 1)
      /\ Len(plan) + 1 \in 1 .. (Len(plan) + 1)
  BY <1>2
<1>6. Answers
  BY <1>2, <1>4, <1>5 DEF Answers
<1>7. Ending
  BY DEF Ending, Init
<1>. QED  BY <1>1, <1>6, <1>7 DEF EInv

\* Answers are given once.
LEMMA AnswerStays ==
    ASSUME Order, [Next]_vars, NEW b \in 1 .. (Len(plan) + 1), done[b] # ""
    PROVE  done'[b] = done[b]
<1>1. Typed /\ Len(plan) \in Nat /\ StreamError = Len(plan) + 1
  BY Lens DEF Order
<1>2. done \in [1 .. (Len(plan) + 1) -> {"", "ok", "error"}]
  BY <1>1 DEF Typed
<1>3. CASE done' = done
  BY <1>3
<1>4. CASE ReadError
  <2>1. done' = [done EXCEPT ![Len(plan) + 1] = "error"]
    BY <1>1, <1>4 DEF ReadError
  <2>2. done[Len(plan) + 1] # "ok"
    BY <1>1 DEF Order, Tasked
  <2>3. b = Len(plan) + 1 => done[b] = "error"
    BY <1>2, <2>2
  <2>4. done'[b] = IF b = Len(plan) + 1 THEN "error" ELSE done[b]
    BY <1>2, <2>1
  <2>. QED  BY <2>3, <2>4
<1>5. ASSUME NEW w \in Workers, FinishTask(w) PROVE done'[b] = done[b]
  <2>1. PICK a : done' = [done EXCEPT ![work[w]] = a]
    BY <1>5 DEF FinishTask
  <2>2. b # work[w]
    BY <1>5 DEF FinishTask, Order, Tasked
  <2>. QED  BY <1>2, <2>1, <2>2
<1>. QED  BY <1>3, <1>4, <1>5 DEF Next, Producer, Submitter, Worker, vars, taskVars, ReadBlock,
          ReadEOF, Enqueue, Dispatch, EnqueueError, CloseTasks, TakeTask, WorkerExit, GetBatch,
          AwaitDone, Emit, EmitError, QueueEnd, CloseCh, Receive, SeeClosed, Leave

LEMMA NextAnswers == Order /\ Answers /\ [Next]_vars => Answers'
<1>. SUFFICES ASSUME Order, Answers, [Next]_vars PROVE Answers'
  OBVIOUS
<1>1. Typed /\ Len(plan) \in Nat /\ StreamError = Len(plan) + 1
  BY Lens DEF Order
<1>2. done \in [1 .. (Len(plan) + 1) -> {"", "ok", "error"}]
  BY <1>1 DEF Typed
<1>3. plan' = plan /\ ending' = ending
  BY PlanStays
<1>4. StreamError' = StreamError
  BY <1>3 DEF StreamError
<1>5. CASE done' = done
  BY <1>3, <1>4, <1>5 DEF Answers
<1>6. CASE ReadError
  <2>1. done' = [done EXCEPT ![Len(plan) + 1] = "error"] /\ ending = "error"
    BY <1>1, <1>6 DEF ReadError
  <2>2. \A b \in 1 .. (Len(plan) + 1) : b # Len(plan) + 1 => done'[b] = done[b]
    BY <1>2, <2>1
  <2>3. \A b \in 1 .. Len(plan) : done'[b] = done[b]
    BY <1>1, <2>2
  <2>. QED  BY <1>3, <2>1, <2>3 DEF Answers
<1>7. ASSUME NEW w \in Workers, FinishTask(w) PROVE Answers'
  <2>1. done' = [done EXCEPT ![work[w]] = IF Detected(work[w]) THEN "error" ELSE "ok"]
    BY <1>7 DEF FinishTask
  <2>2. PICK c \in Nat : c = work[w] /\ Unanswered(c)
    BY <1>7, TaskPending DEF FinishTask
  <2>3. c \in 1 .. Len(plan) /\ c \in 1 .. (Len(plan) + 1) /\ c # Len(plan) + 1
    <3>1. Dispatched \in 0 .. Len(blocks) /\ Len(blocks) \in Nat /\ Len(blocks) <= Len(plan)
      BY <1>1, DispatchedRange, Lens
    <3>2. PICK D \in Nat : D = Dispatched /\ D <= Len(plan)
      BY <1>1, <3>1
    <3>3. c \in 1 .. D
      BY <2>2, <3>2 DEF Unanswered
    <3>. QED  BY <1>1, <3>2, <3>3
  <2>4. done' = [done EXCEPT ![c] = IF Bad(plan, c) THEN "error" ELSE "ok"]
    BY <2>1, <2>2, DetectedIsBad
  <2>5. \A b \in 1 .. (Len(plan) + 1) :
          done'[b] = IF b = c THEN (IF Bad(plan, c) THEN "error" ELSE "ok") ELSE done[b]
    BY <1>2, <2>4
  <2>6. done'[Len(plan) + 1] = done[Len(plan) + 1]
    <3>1. Len(plan) + 1 \in 1 .. (Len(plan) + 1)
      BY <1>1
    <3>. QED  BY <2>3, <2>5, <3>1
  <2>7. \A b \in 1 .. Len(plan) : b \in 1 .. (Len(plan) + 1)
    BY <1>1
  <2>8. ASSUME NEW b \in 1 .. Len(plan)
        PROVE  (done'[b] = "ok" => ~Bad(plan, b)) /\ (done'[b] = "error" => Bad(plan, b))
    <3>1. done'[b] = IF b = c THEN (IF Bad(plan, c) THEN "error" ELSE "ok") ELSE done[b]
      BY <2>5, <2>7
    <3>2. (done[b] = "ok" => ~Bad(plan, b)) /\ (done[b] = "error" => Bad(plan, b))
      BY DEF Answers
    <3>. QED  BY <3>1, <3>2
  <2>9. done[Len(plan) + 1] = "error" => ending = "error"
    BY <1>1 DEF Answers
  <2>. QED  BY <1>1, <1>3, <1>4, <2>6, <2>8, <2>9 DEF Answers
<1>. QED  BY <1>5, <1>6, <1>7 DEF Next, Producer, Submitter, Worker, vars, taskVars, ReadBlock,
          ReadEOF, Enqueue, Dispatch, EnqueueError, CloseTasks, TakeTask, WorkerExit, GetBatch,
          AwaitDone, Emit, EmitError, QueueEnd, CloseCh, Receive, SeeClosed, Leave
LEMMA NextEnding == EInv /\ [Next]_vars => Ending'
<1>. SUFFICES ASSUME EInv, [Next]_vars PROVE Ending'
  OBVIOUS
<1>1. Order /\ Answers /\ Ending /\ Typed /\ Typed'
  BY NextTyped DEF EInv, Order
<1>2. /\ Len(blocks) \in Nat /\ Len(plan) \in Nat /\ Len(blocks) <= Len(plan)
      /\ cur \in Nat /\ emitted \in Nat /\ received \in Nat /\ Len(ch) \in Nat
      /\ StreamError = Len(plan) + 1
  BY <1>1, Lens
<1>3. plan' = plan /\ ending' = ending
  BY PlanStays
<1>4. cur >= 1 /\ done[cur] = "error" => done'[cur] = "error"
  <2>1. cur \in 0 .. (Len(blocks) + 1)
    BY <1>1, SentTyped
  <2>2. cur >= 1 => cur \in 1 .. (Len(plan) + 1)
    BY <1>2, <2>1
  <2>. QED  BY <1>1, <2>2, AnswerStays
<1>5. ASSUME Len(blocks) = Len(plan), \A b \in 1 .. Len(plan) : done[b] = "ok"
      PROVE  Len(blocks') = Len(plan) /\ \A b \in 1 .. Len(plan) : done'[b] = "ok"
  <2>1. Len(blocks') \in Nat /\ Len(blocks) <= Len(blocks') /\ Len(blocks') <= Len(plan)
    BY <1>1, <1>3, Grows DEF Typed
  <2>2. \A b \in 1 .. Len(plan) : b \in 1 .. (Len(plan) + 1)
    BY <1>2
  <2>3. \A b \in 1 .. Len(plan) : done'[b] = "ok"
    BY <1>1, <1>5, <2>2, AnswerStays
  <2>. QED  BY <1>2, <1>5, <2>1, <2>3
<1>6. queueClosed' => ppc' \in {"return", "done"} /\ ending' = "EOF"
  <2>1. queueClosed => ppc \in {"return", "done"} /\ ending = "EOF"
    BY <1>1 DEF Ending
  <2>. QED  BY <1>3, <2>1 DEF Next, Producer, Submitter, Worker, vars, queueVars, prodVars,
              ReadBlock, ReadError, ReadEOF, Enqueue, Dispatch, EnqueueError, CloseTasks,
              TakeTask, FinishTask, WorkerExit, GetBatch, AwaitDone, Emit, EmitError, QueueEnd,
              CloseCh, Receive, SeeClosed, Leave
<1>7. UNCHANGED <<cur, emitted>> => Sent' = Sent
  BY <1>1, SentKept
<1>8. ASSUME UNCHANGED <<cur, emitted, ch, received, told>>
      PROVE  (Failed => Failed') /\ (Complete => Complete')
  <2>1. Sent' = Sent
    BY <1>7, <1>8
  <2>2. Failed => Failed'
    BY <1>4, <1>8, <2>1 DEF Failed
  <2>3. Complete => Complete'
    BY <1>3, <1>5, <1>8, <2>1 DEF Complete
  <2>. QED  BY <2>2, <2>3
<1>9. ASSUME UNCHANGED <<spc, cur, emitted, ch, received, told, closed>>,
             caller' = "ended" => caller = "ended" \/ (closed /\ ch = <<>>)
      PROVE  Ending'
  <2>1. spc' = "fail" => done'[cur'] = "error"
    BY <1>1, <1>4, <1>9 DEF Ending, Order, Submitting
  <2>2. spc' \in {"close", "done"} => Failed' \/ Complete'
    BY <1>1, <1>8, <1>9 DEF Ending
  <2>3. told' => spc' \in {"close", "done"}
    BY <1>1, <1>9 DEF Ending
  <2>4. (closed' => spc' = "done") /\ (caller' = "ended" => closed' /\ ch' = <<>>)
    BY <1>1, <1>9 DEF Ending
  <2>. QED  BY <1>6, <2>1, <2>2, <2>3, <2>4 DEF Ending
<1>10. CASE GetBatch \/ AwaitDone \/ Emit
  <2>1. /\ spc \notin {"close", "done"} /\ spc' \in {"get", "wait", "emit", "fail"}
        /\ UNCHANGED <<told, closed, caller>>
    BY <1>10 DEF GetBatch, AwaitDone, Emit, subVars, callerVars
  <2>2. ~told /\ ~closed /\ caller # "ended"
    BY <1>1, <2>1 DEF Ending
  <2>3. spc' = "fail" => done'[cur'] = "error"
    <3>1. CASE AwaitDone
      <4>1. /\ UNCHANGED <<cur, done>> /\ done[cur] # "" /\ spc = "wait"
            /\ spc' = IF done[cur] = "ok" THEN "emit" ELSE "fail"
        BY <3>1 DEF AwaitDone
      <4>2. done[cur] \in {"", "ok", "error"}
        <5>1. cur \in 0 .. (Len(blocks) + 1) /\ cur >= 1
          BY <1>1, <4>1, SentTyped DEF Order, Submitting
        <5>2. cur \in 1 .. StreamError
          BY <1>2, <5>1
        <5>. QED  BY <1>1, <5>2 DEF Typed
      <4>. QED  BY <4>1, <4>2
    <3>2. CASE GetBatch \/ Emit
      BY <3>2 DEF GetBatch, Emit
    <3>. QED  BY <1>10, <3>1, <3>2
  <2>. QED  BY <1>6, <2>1, <2>2, <2>3 DEF Ending
<1>11. CASE EmitError
  <2>1. /\ spc = "fail" /\ spc' = "close" /\ ch' = Append(ch, Failure) /\ done' = done
        /\ UNCHANGED <<cur, emitted, received, told, closed, caller>>
    BY <1>11 DEF EmitError, callerVars
  <2>2. ~told /\ ~closed /\ caller # "ended" /\ done[cur] = "error"
    BY <1>1, <2>1 DEF Ending
  <2>3. emitted = 0 /\ cur >= 1
    BY <1>1, <2>1 DEF Order, Submitting
  <2>4. Len(ch') > Sent' - received'
    <3>1. Len(ch) = Sent - received
      BY <1>1, <2>1 DEF Order, Channel
    <3>2. ch \in Seq(Int)
      BY <1>1 DEF Typed
    <3>3. Len(ch') = Len(ch) + 1
      <4>1. Failure \in Int
        BY DEF Failure
      <4>. QED  BY <2>1, <3>2, <4>1, AppendProperties
    <3>4. Sent' = Sent /\ received' = received
      BY <1>7, <2>1
    <3>. QED  BY <1>2, <3>1, <3>3, <3>4
  <2>5. Failed'
    BY <2>1, <2>2, <2>3, <2>4 DEF Failed
  <2>. QED  BY <1>6, <2>1, <2>2, <2>5 DEF Ending
<1>12. CASE QueueEnd
  <2>1. /\ spc = "get" /\ spc' = "close" /\ batchQueue = <<>> /\ queueClosed
        /\ UNCHANGED <<cur, emitted, ch, received, told, closed, caller>>
    BY <1>12 DEF QueueEnd, callerVars
  <2>2. ~told /\ ~closed /\ caller # "ended"
    BY <1>1, <2>1 DEF Ending
  <2>3. ppc \in {"return", "done"} /\ ending = "EOF"
    BY <1>1, <2>1 DEF Ending
  <2>4. cur = Len(blocks) /\ Len(blocks) = Len(plan)
    <3>1. Enqueued = Len(blocks)
      BY <2>3 DEF Enqueued
    <3>. QED  BY <1>1, <1>2, <2>1, <2>3, <3>1 DEF Order, Queued
  <2>5. ASSUME NEW b \in 1 .. Len(plan) PROVE done[b] = "ok"
    <3>1. CASE b < cur
      BY <1>1, <2>4, <3>1 DEF Order, Submitting
    <3>2. CASE b = cur
      <4>1. cur \in 1 .. Len(blocks) /\ cur # 0
        BY <1>2, <2>4, <3>2
      <4>2. blocks[cur].count \in 1 .. Batch
        BY <1>1, <4>1, StartNext DEF Typed
      <4>3. emitted = blocks[cur].count /\ emitted > 0
        BY <1>1, <2>1, <4>1, <4>2 DEF Order, Submitting
      <4>. QED  BY <1>1, <3>2, <4>3 DEF Order, Submitting
    <3>. QED  BY <1>2, <2>4, <3>1, <3>2
  <2>6. Len(ch) = Sent - received
    BY <1>1, <2>1 DEF Order, Channel
  <2>7. Complete'
    BY <1>8, <2>1, <2>2, <2>3, <2>4, <2>5, <2>6 DEF Complete
  <2>. QED  BY <1>6, <2>1, <2>2, <2>7 DEF Ending
<1>13. CASE CloseCh
  <2>1. /\ spc = "close" /\ spc' = "done" /\ closed'
        /\ UNCHANGED <<cur, emitted, ch, received, told, caller>>
    BY <1>13 DEF CloseCh, callerVars
  <2>2. Failed' \/ Complete'
    BY <1>1, <1>8, <2>1 DEF Ending
  <2>3. caller' = "ended" => ch' = <<>>
    BY <1>1, <2>1 DEF Ending
  <2>. QED  BY <1>6, <2>1, <2>2, <2>3 DEF Ending
<1>14. CASE Receive
  <2>1. /\ ch # <<>> /\ ch' = Tail(ch) /\ caller = "reading" /\ done' = done
        /\ UNCHANGED <<spc, cur, emitted, closed, caller>>
    BY <1>14 DEF Receive, subVars
  <2>2. Sent' = Sent /\ Sent \in Nat
    BY <1>1, <1>7, <2>1, SentTyped
  <2>3. Len(ch) >= 1 /\ Len(ch') = Len(ch) - 1
    <3>1. ch \in Seq(Int)
      BY <1>1 DEF Typed
    <3>. QED  BY <1>2, <2>1, <3>1, HeadTailProperties
  <2>4. spc' = "fail" => done'[cur'] = "error"
    BY <1>1, <2>1 DEF Ending
  <2>5. CASE Head(ch) = Failure
    <3>1. told' /\ received' = received /\ received = Sent /\ Len(ch) = 1
      BY <1>1, <1>14, <2>1, <2>5, HeadIsNext DEF Receive
    <3>2. Len(ch) # Sent - received
      BY <1>2, <2>2, <3>1
    <3>3. spc \in {"close", "done"}
      BY <1>1, <3>2 DEF Order, Channel
    <3>4. Failed
      BY <1>1, <3>2, <3>3 DEF Ending, Complete
    <3>5. Failed'
      BY <2>1, <3>1, <3>4 DEF Failed
    <3>6. closed' => spc' = "done"
      BY <1>1, <2>1 DEF Ending
    <3>. QED  BY <1>6, <2>1, <2>4, <3>3, <3>5, <3>6 DEF Ending
  <2>6. CASE Head(ch) # Failure
    <3>1. received' = received + 1 /\ told' = told
      BY <1>14, <2>6 DEF Receive
    <3>2. Failed => Failed'
      <4>1. Len(ch) > Sent - received => Len(ch') > Sent' - received'
        BY <1>2, <2>2, <2>3, <3>1
      <4>. QED  BY <2>1, <3>1, <4>1 DEF Failed
    <3>3. Complete => Complete'
      <4>1. Len(ch) = Sent - received => Len(ch') = Sent' - received'
        BY <1>2, <2>2, <2>3, <3>1
      <4>. QED  BY <1>3, <1>5, <3>1, <4>1 DEF Complete
    <3>4. spc' \in {"close", "done"} => Failed' \/ Complete'
      BY <1>1, <2>1, <3>2, <3>3 DEF Ending
    <3>5. (closed' => spc' = "done") /\ (told' => spc' \in {"close", "done"})
      BY <1>1, <2>1, <3>1 DEF Ending
    <3>. QED  BY <1>6, <2>1, <2>4, <3>4, <3>5 DEF Ending
  <2>. QED  BY <2>5, <2>6
<1>. QED  BY <1>9, <1>10, <1>11, <1>12, <1>13, <1>14 DEF Next, Producer, Submitter, Worker, vars,
          subVars, callerVars, ReadBlock, ReadError, ReadEOF, Enqueue, Dispatch, EnqueueError,
          CloseTasks, TakeTask, FinishTask, WorkerExit, SeeClosed, Leave
LEMMA NextEInv == EInv /\ [Next]_vars => EInv'
BY NextOrder, NextAnswers, NextEnding DEF EInv

\* When the stream has ended the caller has all that was sent.
LEMMA EndedIsDrained ==
    ASSUME EInv, caller = "ended"
    PROVE  /\ received = Sent /\ Sent \in Nat
           /\ \/ told /\ cur >= 1 /\ done[cur] = "error" /\ emitted = 0
              \/ /\ ~told /\ ending = "EOF" /\ Len(blocks) = Len(plan)
                 /\ \A b \in 1 .. Len(plan) : done[b] = "ok"
<1>1. Order /\ Ending
  BY DEF EInv
<1>2. ch = <<>> /\ spc = "done"
  BY <1>1 DEF Ending
<1>3. Len(ch) = 0
  BY <1>2
<1>4. /\ Sent \in Nat /\ received \in Nat /\ received <= Sent
      /\ Sent - received <= Len(ch)
  BY <1>1, ChannelHoldsRest
<1>5. received = Sent /\ ~(Len(ch) > Sent - received)
  BY <1>3, <1>4
<1>6. Failed \/ Complete
  BY <1>1, <1>2 DEF Ending
<1>. QED  BY <1>4, <1>5, <1>6 DEF Failed, Complete

\* For every list of blocks: a caller that reads to the end is told of an error
\* exactly when there was one, after all of the blocks ahead of it and none of
\* the records of its own (stream.go:500-508).
THEOREM ErrorsInPlaceHolds == Spec => []ErrorsInPlace
<1>1. EInv => ErrorsInPlace
  <2>. DEFINE failing == {b \in DOMAIN plan : Detected(b)}
              first   == CHOOSE b \in failing : \A c \in failing : b <= c
  <2>. SUFFICES ASSUME EInv, caller = "ended"
                PROVE  /\ told <=> (failing # {} \/ ending = "error")
                       /\ failing # {} => received = blocks[first].base
                       /\ failing = {} => Len(blocks) = Len(plan) /\ received = Sent
    BY DEF ErrorsInPlace
  <2>1. /\ Order /\ Answers /\ Len(plan) \in Nat /\ Len(blocks) \in Nat /\ Len(blocks) <= Len(plan)
        /\ StreamError = Len(plan) + 1 /\ received = Sent
    BY Lens, EndedIsDrained DEF EInv, Order
  <2>2. failing = {b \in 1 .. Len(plan) : Bad(plan, b)}
    <3>1. plan \in Seq(PlanBlock)
      BY <2>1 DEF Order, Typed
    <3>2. DOMAIN plan = 1 .. Len(plan)
      BY <3>1, LenProperties
    <3>. QED  BY <3>2, DetectedIsBad
  <2>3. \A b \in 1 .. Len(plan) : /\ done[b] = "ok" => b \notin failing
                                  /\ done[b] = "error" => b \in failing
    BY <2>1, <2>2 DEF Answers
  <2>. HIDE DEF failing
  <2>4. cur \in 0 .. (Len(blocks) + 1) /\ (cur = Len(blocks) + 1 => cur = StreamError)
    BY <2>1, SentTyped
  <2>5. CASE told /\ cur >= 1 /\ done[cur] = "error" /\ emitted = 0
    <3>1. CASE cur <= Len(blocks)
      <4>1. cur \in 1 .. Len(blocks) /\ cur \in 1 .. Len(plan) /\ cur \in Nat
        BY <2>1, <2>4, <2>5, <3>1
      <4>2. cur \in failing
        BY <2>3, <2>5, <4>1
      <4>3. ASSUME NEW c \in failing PROVE c \in Nat /\ cur <= c
        <5>1. c \in 1 .. Len(plan)
          BY <2>2, <4>3
        <5>2. c < cur => c \in 1 .. Len(blocks)
          BY <2>1, <4>1, <5>1
        <5>3. c < cur => done[c] = "ok"
          BY <2>1, <5>2 DEF Order, Submitting
        <5>. QED  BY <2>3, <4>1, <4>3, <5>1, <5>3
      <4>4. first = cur
        <5>1. /\ first \in failing /\ \A c \in failing : first <= c
          BY <4>2, <4>3
        <5>2. first <= cur /\ first \in Nat /\ cur <= first
          BY <4>2, <4>3, <5>1
        <5>. QED  BY <4>1, <5>2
      <4>. HIDE DEF first
      <4>5. received = blocks[cur].base
        <5>1. cur # 0 /\ blocks[cur].base = Start(blocks, cur)
          BY <2>1, <4>1 DEF Order, Chained, Chain
        <5>2. Start(blocks, cur) \in Nat /\ Sent = Start(blocks, cur) + 0
          BY <2>1, <2>4, <2>5, <4>1, <5>1, SentTyped, SentIs
        <5>. QED  BY <2>1, <5>1, <5>2
      <4>. QED  BY <2>5, <4>2, <4>4, <4>5
    <3>2. CASE cur = Len(blocks) + 1
      <4>1. cur = Len(plan) + 1 /\ Len(blocks) = Len(plan)
        BY <2>1, <2>4, <3>2
      <4>2. ending = "error"
        BY <2>1, <2>5, <4>1 DEF Answers
      <4>3. \A b \in 1 .. Len(plan) : b \in 1 .. Len(blocks) /\ b < cur
        BY <2>1, <4>1
      <4>4. \A b \in 1 .. Len(plan) : done[b] = "ok"
        BY <2>1, <4>3 DEF Order, Submitting
      <4>5. failing = {}
        BY <2>2, <2>3, <4>4
      <4>. QED  BY <2>1, <2>5, <4>1, <4>2, <4>5
    <3>. QED  BY <2>1, <2>4, <3>1, <3>2
  <2>6. CASE /\ ~told /\ ending = "EOF" /\ Len(blocks) = Len(plan)
             /\ \A b \in 1 .. Len(plan) : done[b] = "ok"
    <3>1. failing = {}
      BY <2>2, <2>3, <2>6
    <3>. QED  BY <2>1, <2>6, <3>1
  <2>. QED  BY <2>5, <2>6, EndedIsDrained
<1>. QED  BY InitEInv, NextEInv, <1>1, PTL DEF Spec
=============================================================================
