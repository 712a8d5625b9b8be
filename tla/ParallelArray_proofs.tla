------------------------ MODULE ParallelArray_proofs ------------------------
(* For every set of workers, batch size, input and slice: the workers of   *)
(* UnmarshalArrayParallel write inside the caller's slice, no two batches  *)
(* meet, nothing is written once the call has returned, every buffer is    *)
(* put back, success means the whole array, and a good array that fits is  *)
(* never refused.                                                          *)
EXTENDS ParallelArray, ArrayScan_proofs

-----------------------------------------------------------------------------
(* The invariant.  Batches are handed out in the order of the slice: each  *)
(* in the queue lies behind every one that was taken or queued before it,  *)
(* and all of them in front of itemsFound.                                 *)

End(b) == b.base + Len(b.chunks)

Before(b, c) == End(b) <= c.base

IsTask(b) == b = [base |-> b.base, chunks |-> b.chunks, at |-> b.at]

Shape ==
    /\ capacity \in Nat /\ itemsFound \in 0 .. capacity
    /\ \E S : taskCh \in Seq(S)
    /\ \E S : work \in [Workers -> S]
    /\ \A w \in Workers : IsTask(work[w]) /\ work[w].base \in Int
    /\ \A i \in 1 .. Len(taskCh) : IsTask(taskCh[i])

Within(b) == b.base \in Nat /\ End(b) \in b.base .. itemsFound

Ordered ==
    /\ \A w \in Workers : Busy(w) =>
         /\ Within(work[w])
         /\ \A v \in Workers \ {w} :
              Busy(v) => Before(work[v], work[w]) \/ Before(work[w], work[v])
         /\ \A i \in 1 .. Len(taskCh) : Before(work[w], taskCh[i])
    /\ \A i \in 1 .. Len(taskCh) :
         /\ Within(taskCh[i])
         /\ \A j \in 1 .. (i - 1) : Before(taskCh[j], taskCh[i])

\* No worker runs before the loop of many nor after the call.
Alone ==
    /\ pc \in {"enter", "window", "one"} =>
         taskCh = <<>> /\ \A w \in Workers : work[w] = Unborn
    /\ pc = "done" => \A w \in Workers : work[w] \in {Gone, Unborn}

Sending == pc = "send" => Fits

IInv == Shape /\ Ordered /\ Alone /\ Sending

LEMMA InitIInv == Init => IInv
<1> SUFFICES ASSUME Init PROVE IInv
  OBVIOUS
<1>1. capacity \in Nat /\ itemsFound = 0 /\ taskCh = <<>> /\ pc = "enter"
  BY ArrayAssumption DEF Init
<1>2. work = [w \in Workers |-> Unborn]
  BY DEF Init
<1>3. /\ work \in [Workers -> {Unborn}] /\ taskCh \in Seq({0}) /\ Len(taskCh) = 0
      /\ \A w \in Workers : ~Busy(w)
  <2>1. work \in [Workers -> {Unborn}]
    BY <1>2
  <2>2. \A w \in Workers : ~Busy(w)
    BY <1>2 DEF Busy, Unborn
  <2>3. taskCh \in Seq({0}) /\ Len(taskCh) = 0
    BY <1>1
  <2> QED
    BY <2>1, <2>2, <2>3
<1>4. Shape
  <2>1. IsTask(Unborn) /\ Unborn.base \in Int
    BY DEF IsTask, Unborn
  <2>2. \A w \in Workers : IsTask(work[w]) /\ work[w].base \in Int
    BY <1>2, <2>1
  <2>3. \A i \in 1 .. Len(taskCh) : IsTask(taskCh[i])
    BY <1>3
  <2>4. (\E S : taskCh \in Seq(S)) /\ (\E S : work \in [Workers -> S])
    BY <1>3
  <2>5. capacity \in Nat /\ itemsFound \in 0 .. capacity
    BY <1>1
  <2> QED
    BY <2>2, <2>3, <2>4, <2>5 DEF Shape
<1>5. Ordered /\ Alone /\ Sending
  BY <1>1, <1>2, <1>3 DEF Ordered, Alone, Sending
<1> QED
  BY <1>4, <1>5 DEF IInv

\* A worker that runs is in the middle of the loop of many.
LEMMA WorkersRunInside ==
    ASSUME IInv, NEW w \in Workers, work[w] \notin {Gone, Unborn}
    PROVE  pc \notin {"enter", "window", "one", "done"}
BY DEF IInv, Alone

-----------------------------------------------------------------------------
(* The steps.                                                              *)

\* The caller's steps that touch neither batches nor counters.
LEMMA CallerKeeps ==
    ASSUME IInv,
           \/ Refuse \/ ReturnNothing \/ StartOne \/ SplitWindow
           \/ OneEnd \/ OneReject
           \/ CheckErrors \/ ScanEnd \/ ScanReject \/ ScanEmpty \/ ScanBatch
           \/ CloseTasks \/ Return \/ UNCHANGED vars
    PROVE  IInv'
<1>1. UNCHANGED <<capacity, itemsFound, taskCh, work>>
  BY DEF Refuse, ReturnNothing, StartOne, SplitWindow, OneEnd, OneReject, CheckErrors,
         ScanEnd, ScanReject, ScanEmpty, ScanBatch, CloseTasks, Return, vars,
         argVars, scanVars, chanVars
<1>2. Shape' /\ Ordered'
  BY <1>1 DEF IInv, Shape, Ordered, Within, Busy
<1>3. Alone'
  <2>1. pc' \in {"enter", "window", "one"} => pc \in {"enter", "window", "one"}
    BY DEF Refuse, ReturnNothing, StartOne, SplitWindow, OneEnd, OneReject, CheckErrors,
           ScanEnd, ScanReject, ScanEmpty, ScanBatch, CloseTasks, Return, vars
  <2>2. pc' = "done" => pc \in {"enter", "window", "one", "done"} \/ Waited
    BY DEF Refuse, ReturnNothing, StartOne, SplitWindow, OneEnd, OneReject, CheckErrors,
           ScanEnd, ScanReject, ScanEmpty, ScanBatch, CloseTasks, Return, vars
  <2> QED
    BY <1>1, <2>1, <2>2 DEF IInv, Alone, Waited
<1>4. Sending'
  <2>1. pc' = "send" => Fits /\ UNCHANGED <<chunks, itemsFound, capacity>>
    BY DEF IInv, Sending, Refuse, ReturnNothing, StartOne, SplitWindow, OneEnd, OneReject,
           CheckErrors, ScanEnd, ScanReject, ScanEmpty, ScanBatch, CloseTasks, Return,
           vars, argVars, scanVars, bufVars
  <2>2. pc' = "send" => Valid' = Valid
    BY <2>1 DEF Valid
  <2> QED
    BY <2>1, <2>2 DEF Sending, Fits
<1> QED
  BY <1>2, <1>3, <1>4 DEF IInv

LEMMA StartKeeps ==
    ASSUME IInv, StartMany PROVE IInv'
<1>1. /\ work' = [w \in Workers |-> Idle] /\ pc' = "check" /\ taskCh = <<>>
      /\ UNCHANGED <<capacity, itemsFound, taskCh>>
  BY DEF IInv, Alone, StartMany, argVars, scanVars, chanVars
<1>2. /\ work' \in [Workers -> {Idle}] /\ Len(taskCh') = 0
      /\ \A w \in Workers : ~(work'[w].base >= 0) /\ work'[w] = Idle
  BY <1>1 DEF Idle
<1>3. Shape'
  <2>1. IsTask(Idle) /\ Idle.base \in Int
    BY DEF IsTask, Idle
  <2>2. \E S : taskCh' \in Seq(S)
    BY <1>1 DEF IInv, Shape
  <2> QED
    BY <1>1, <1>2, <2>1, <2>2 DEF IInv, Shape
<1>4. Ordered' /\ Alone' /\ Sending'
  BY <1>1, <1>2 DEF Ordered, Alone, Sending, Busy
<1> QED
  BY <1>3, <1>4 DEF IInv

LEMMA OneWindowKeeps ==
    ASSUME IInv, OneWindow PROVE IInv'
<1>1. /\ UNCHANGED <<capacity, taskCh, work>> /\ pc' \in {"window", "done"} /\ pc = "one"
      /\ Fits /\ itemsFound' \in {itemsFound, itemsFound + Len(Valid)}
  BY DEF OneWindow, argVars, chanVars, scanVars
<1>2. /\ taskCh = <<>> /\ \A w \in Workers : work[w] = Unborn /\ ~Busy(w)
      /\ Len(taskCh) = 0
  BY <1>1 DEF IInv, Alone, Busy, Unborn
<1>3. itemsFound' \in 0 .. capacity
  BY <1>1 DEF IInv, Shape, Fits
<1>4. Shape'
  BY <1>1, <1>3 DEF IInv, Shape
<1>5. Ordered' /\ Alone' /\ Sending'
  BY <1>1, <1>2 DEF Ordered, Alone, Sending, Busy
<1> QED
  BY <1>4, <1>5 DEF IInv

LEMMA SendKeeps ==
    ASSUME IInv, Send PROVE IInv'
<1>1. /\ UNCHANGED <<capacity, work>> /\ pc' = "check" /\ pc = "send"
      /\ taskCh' = Append(taskCh, Task)
      /\ itemsFound' = itemsFound + Len(Valid)
  BY DEF Send, argVars
<1>2. itemsFound \in Nat /\ itemsFound' \in itemsFound .. capacity /\ capacity \in Nat
  BY <1>1 DEF IInv, Shape, Sending, Fits
<1>3. PICK S : taskCh \in Seq(S)
  BY DEF IInv, Shape
<1>4. /\ taskCh' \in Seq(S \cup {Task}) /\ Len(taskCh) \in Nat
      /\ Len(taskCh') = Len(taskCh) + 1
      /\ \A i \in 1 .. Len(taskCh) : taskCh'[i] = taskCh[i]
      /\ taskCh'[Len(taskCh) + 1] = Task
  <2>1. taskCh \in Seq(S \cup {Task})
    BY <1>3
  <2> QED
    BY <1>1, <2>1
<1>5. IsTask(Task) /\ Task.base = itemsFound /\ End(Task) = itemsFound'
  BY <1>1 DEF Task, IsTask, End
<1>6. Shape'
  <2>1. \A i \in 1 .. Len(taskCh') : IsTask(taskCh'[i])
    BY <1>4, <1>5 DEF IInv, Shape
  <2>2. capacity' \in Nat /\ itemsFound' \in 0 .. capacity'
    BY <1>1, <1>2
  <2> QED
    BY <1>1, <1>4, <2>1, <2>2 DEF IInv, Shape
<1>7. \A b : Within(b) => b.base \in Nat /\ End(b) \in b.base .. itemsFound' /\ Before(b, Task)
  BY <1>2, <1>5 DEF Within, Before
<1>8. \A i \in 1 .. Len(taskCh') : i \in 1 .. Len(taskCh) \/ i = Len(taskCh) + 1
  BY <1>4
<1>9. Ordered'
  <2>1. ASSUME NEW w \in Workers, Busy(w)
        PROVE  /\ Within(work[w])'
               /\ \A i \in 1 .. Len(taskCh') : Before(work[w], taskCh'[i])
    BY <1>1, <1>4, <1>7, <1>8, <2>1 DEF IInv, Ordered, Within
  <2>2. ASSUME NEW i \in 1 .. Len(taskCh')
        PROVE  /\ taskCh'[i].base \in Nat
               /\ End(taskCh'[i]) \in taskCh'[i].base .. itemsFound'
               /\ \A j \in 1 .. (i - 1) : Before(taskCh'[j], taskCh'[i])
    <3>1. CASE i \in 1 .. Len(taskCh)
      <4>1. \A j \in 1 .. (i - 1) : j \in 1 .. Len(taskCh)
        BY <1>4, <3>1
      <4> QED
        BY <1>4, <1>7, <3>1, <4>1 DEF IInv, Ordered
    <3>2. CASE i = Len(taskCh) + 1
      <4>1. \A j \in 1 .. (i - 1) : j \in 1 .. Len(taskCh)
        BY <1>4, <3>2
      <4>2. \A j \in 1 .. (i - 1) : Before(taskCh'[j], taskCh'[i])
        BY <1>4, <1>7, <3>2, <4>1 DEF IInv, Ordered
      <4>3. taskCh'[i].base \in Nat /\ End(taskCh'[i]) \in taskCh'[i].base .. itemsFound'
        BY <1>2, <1>4, <1>5, <3>2
      <4> QED
        BY <4>2, <4>3
    <3> QED
      BY <1>8, <3>1, <3>2
  <2> QED
    BY <1>1, <2>1, <2>2 DEF IInv, Ordered, Busy, Within
<1>10. Alone' /\ Sending'
  BY <1>1 DEF Alone, Sending
<1> QED
  BY <1>6, <1>9, <1>10 DEF IInv

LEMMA TakeKeeps ==
    ASSUME IInv, NEW w \in Workers, TakeTask(w) PROVE IInv'
<1>1. /\ UNCHANGED <<capacity, itemsFound, pc, chunks>> /\ taskCh # <<>>
      /\ work[w] = Idle /\ taskCh' = Tail(taskCh)
      /\ work' = [work EXCEPT ![w] = Head(taskCh)]
  BY DEF TakeTask, argVars, scanVars, bufVars
<1>2. PICK S : taskCh \in Seq(S)
  BY DEF IInv, Shape
<1>3. /\ taskCh' \in Seq(S) /\ Len(taskCh) \in Nat \ {0}
      /\ Len(taskCh') = Len(taskCh) - 1
      /\ \A i \in 1 .. Len(taskCh') : taskCh'[i] = taskCh[i + 1] /\ i + 1 \in 1 .. Len(taskCh)
      /\ Head(taskCh) = taskCh[1] /\ 1 \in 1 .. Len(taskCh)
  BY <1>1, <1>2
<1>4. PICK R : work \in [Workers -> R]
  BY DEF IInv, Shape
<1>5. /\ work' \in [Workers -> R \cup {taskCh[1]}]
      /\ work'[w] = taskCh[1] /\ \A v \in Workers \ {w} : work'[v] = work[v]
  BY <1>1, <1>3, <1>4
<1>6. Within(taskCh[1]) /\ taskCh[1].base \in Int /\ IsTask(taskCh[1])
  BY <1>3 DEF IInv, Shape, Ordered, Within
<1>7. Shape'
  <2>1. \A v \in Workers : IsTask(work'[v]) /\ work'[v].base \in Int
    BY <1>5, <1>6 DEF IInv, Shape
  <2>2. \A i \in 1 .. Len(taskCh') : IsTask(taskCh'[i])
    BY <1>3 DEF IInv, Shape
  <2> QED
    BY <1>1, <1>3, <1>5, <2>1, <2>2 DEF IInv, Shape
<1>8. Ordered'
  <2>1. ASSUME NEW i \in 1 .. Len(taskCh')
        PROVE  /\ Within(taskCh'[i])
               /\ Before(taskCh[1], taskCh'[i])
               /\ \A j \in 1 .. (i - 1) : Before(taskCh'[j], taskCh'[i])
    <3>1. i + 1 \in 1 .. Len(taskCh) /\ 1 \in 1 .. ((i + 1) - 1) /\ taskCh'[i] = taskCh[i + 1]
      BY <1>3
    <3>2. \A j \in 1 .. (i - 1) : j + 1 \in 1 .. ((i + 1) - 1) /\ taskCh'[j] = taskCh[j + 1]
      BY <1>3
    <3> QED
      BY <3>1, <3>2 DEF IInv, Ordered
  <2>2. ASSUME NEW v \in Workers \ {w}, Busy(v)
        PROVE  /\ Within(work[v]) /\ Before(work[v], taskCh[1])
               /\ \A i \in 1 .. Len(taskCh') : Before(work[v], taskCh'[i])
               /\ \A u \in Workers \ {v, w} :
                    Busy(u) => Before(work[u], work[v]) \/ Before(work[v], work[u])
    BY <1>3, <2>2 DEF IInv, Ordered
  <2> QED
    BY <1>1, <1>5, <1>6, <2>1, <2>2 DEF Ordered, Busy, Within
<1>9. Alone' /\ Sending'
  <2>1. pc \notin {"enter", "window", "one", "done"}
    BY <1>1, WorkersRunInside DEF Idle, Gone, Unborn
  <2>2. Valid' = Valid
    BY <1>1 DEF Valid
  <2> QED
    BY <1>1, <2>1, <2>2 DEF IInv, Alone, Sending, Fits
<1> QED
  BY <1>7, <1>8, <1>9 DEF IInv

\* A worker's other steps change which chunk it is at, or make it idle or gone.
LEMMA WorkKeeps ==
    ASSUME IInv, NEW w \in Workers,
           \/ ParseElement(w) \/ ParseFails(w) \/ FinishTask(w) \/ WorkerExit(w)
    PROVE  IInv'
<1>1. UNCHANGED <<capacity, itemsFound, pc, chunks, taskCh>>
  BY DEF ParseElement, ParseFails, FinishTask, WorkerExit, argVars, scanVars, bufVars, chanVars
<1>2. PICK R : work \in [Workers -> R]
  BY DEF IInv, Shape
<1>3. PICK b : /\ work' = [work EXCEPT ![w] = b]
               /\ IsTask(b) /\ b.base \in Int
               /\ b.base >= 0 => Busy(w) /\ b.base = work[w].base /\ b.chunks = work[w].chunks
  <2>1. IsTask(work[w]) /\ work[w].base \in Int
    BY DEF IInv, Shape
  <2>2. CASE ParseElement(w) \/ ParseFails(w)
    <3>1. PICK n : work' = [work EXCEPT ![w].at = n] /\ Busy(w)
      BY <2>2 DEF ParseElement, ParseFails
    <3> DEFINE c == [base |-> work[w].base, chunks |-> work[w].chunks, at |-> n]
    <3>2. [work[w] EXCEPT !.at = n] = c
      BY <2>1 DEF IsTask
    <3>3. work' = [work EXCEPT ![w] = c]
      BY <3>1, <3>2
    <3>4. IsTask(c) /\ c.base = work[w].base /\ c.chunks = work[w].chunks
      BY DEF IsTask
    <3> QED
      BY <2>1, <3>1, <3>3, <3>4
  <2>3. CASE FinishTask(w)
    <3>1. IsTask(Idle) /\ Idle.base \in Int /\ ~(Idle.base >= 0)
      BY DEF Idle, IsTask
    <3>2. work' = [work EXCEPT ![w] = Idle]
      BY <2>3 DEF FinishTask
    <3> QED
      BY <3>1, <3>2
  <2>4. CASE WorkerExit(w)
    <3>1. IsTask(Gone) /\ Gone.base \in Int /\ ~(Gone.base >= 0)
      BY DEF Gone, IsTask
    <3>2. work' = [work EXCEPT ![w] = Gone]
      BY <2>4 DEF WorkerExit
    <3> QED
      BY <3>1, <3>2
  <2> QED
    BY <2>2, <2>3, <2>4
<1>4. /\ work' \in [Workers -> R \cup {b}]
      /\ work'[w] = b /\ \A v \in Workers \ {w} : work'[v] = work[v]
  BY <1>2, <1>3
<1>5. Shape'
  BY <1>1, <1>3, <1>4 DEF IInv, Shape
<1>6. \A v \in Workers : work'[v].base >= 0 =>
         Busy(v) /\ work'[v].base = work[v].base /\ work'[v].chunks = work[v].chunks
  BY <1>3, <1>4 DEF Busy
<1>7. Ordered'
  <2>1. ASSUME NEW v \in Workers, work'[v].base >= 0
        PROVE  Busy(v) /\ End(work'[v]) = End(work[v]) /\ work'[v].base = work[v].base
    BY <1>6, <2>1 DEF End
  <2>2. ASSUME NEW v \in Workers, work'[v].base >= 0
        PROVE  /\ work'[v].base \in Nat
               /\ End(work'[v]) \in work'[v].base .. itemsFound
               /\ \A u \in Workers \ {v} : work'[u].base >= 0 =>
                    Before(work'[u], work'[v]) \/ Before(work'[v], work'[u])
               /\ \A i \in 1 .. Len(taskCh) : Before(work'[v], taskCh[i])
    BY <1>1, <2>1, <2>2 DEF IInv, Ordered, Within, Before
  <2> QED
    BY <1>1, <2>2 DEF IInv, Ordered, Busy, Within
<1>8. Alone' /\ Sending'
  <2>1. work[w] \notin {Gone, Unborn}
    BY DEF ParseElement, ParseFails, FinishTask, WorkerExit, Busy, Idle, Gone, Unborn
  <2>2. pc \notin {"enter", "window", "one", "done"}
    BY <2>1, WorkersRunInside
  <2>3. Valid' = Valid
    BY <1>1 DEF Valid
  <2> QED
    BY <1>1, <2>2, <2>3 DEF IInv, Alone, Sending, Fits
<1> QED
  BY <1>5, <1>7, <1>8 DEF IInv

LEMMA NextIInv == IInv /\ [Next]_vars => IInv'
BY CallerKeeps, StartKeeps, OneWindowKeeps, SendKeeps, TakeKeeps, WorkKeeps
   DEF Next, Caller, Worker

-----------------------------------------------------------------------------
LEMMA BeforeIsApart ==
    ASSUME NEW b, NEW c, Within(b), Within(c), Before(b, c) \/ Before(c, b)
    PROVE  Apart(b, c)
<1>1. /\ b.base \in Nat /\ End(b) \in Int /\ c.base \in Nat /\ End(c) \in Int
  BY DEF Within
<1>2. Slots(b) = b.base .. (End(b) - 1) /\ Slots(c) = c.base .. (End(c) - 1)
  BY DEF Slots, End
<1> QED
  BY <1>1, <1>2 DEF Apart, Before

\* For every number of workers, batch size, input and slice: every batch in hand
\* or on its way lies in the slice, apart from all the others, so no pointer a
\* worker computes is out of bounds or shared (parallel.go:467, 547-555).
THEOREM WritesStayApart == Spec => []WritesApart
<1>1. IInv => WritesApart
  <2> SUFFICES ASSUME IInv PROVE WritesApart
    OBVIOUS
  <2>1. ASSUME NEW b, Within(b) PROVE InSlice(b)
    <3>1. b.base \in Nat /\ End(b) \in b.base .. itemsFound /\ itemsFound \in 0 .. capacity
          /\ capacity \in Nat
      BY <2>1 DEF IInv, Shape, Within
    <3>2. Slots(b) = b.base .. (End(b) - 1)
      BY DEF Slots, End
    <3> QED
      BY <3>1, <3>2 DEF InSlice
  <2>2. ASSUME NEW w \in Workers, Busy(w)
        PROVE  /\ InSlice(work[w])
               /\ \A v \in Workers \ {w} : Busy(v) => Apart(work[v], work[w])
               /\ \A i \in 1 .. Len(taskCh) : Apart(work[w], taskCh[i])
    BY <2>1, <2>2, BeforeIsApart DEF IInv, Ordered
  <2>3. ASSUME NEW i \in 1 .. Len(taskCh)
        PROVE  /\ InSlice(taskCh[i])
               /\ \A j \in 1 .. (i - 1) : Apart(taskCh[j], taskCh[i])
    <3>1. \A j \in 1 .. (i - 1) : j \in 1 .. Len(taskCh)
      <4>1. Len(taskCh) \in Nat
        BY DEF IInv, Shape
      <4> QED
        BY <4>1
    <3> QED
      BY <2>1, <3>1, BeforeIsApart DEF IInv, Ordered
  <2> QED
    BY <2>2, <2>3 DEF WritesApart
<1> QED
  BY InitIInv, NextIInv, <1>1, PTL DEF Spec

\* For every number of workers: once the call has returned no worker is left
\* that could write to the slice (parallel.go:566-568).
THEOREM NoLateWritesHolds == Spec => NoLateWrites
<1>1. IInv /\ [Next]_vars => (pc = "done" => UNCHANGED dst)
  <2> SUFFICES ASSUME IInv, [Next]_vars, pc = "done" PROVE UNCHANGED dst
    OBVIOUS
  <2>1. ~Caller
    BY DEF Caller, Refuse, ReturnNothing, StartOne, StartMany, SplitWindow, OneEnd,
           OneReject, OneWindow, CheckErrors, ScanEnd, ScanReject, ScanEmpty, ScanBatch,
           Send, CloseTasks, Return
  <2>2. \A w \in Workers : ~Worker(w)
    BY DEF IInv, Alone, Worker, TakeTask, ParseElement, ParseFails, FinishTask,
           WorkerExit, Busy, Idle, Gone, Unborn
  <2> QED
    BY <2>1, <2>2 DEF Next, vars
<1> QED
  BY InitIInv, NextIInv, <1>1, PTL DEF Spec, NoLateWrites

-----------------------------------------------------------------------------
(* Chunk buffers.                                                          *)

Hands == {w \in Workers : Busy(w)}

\* The buffers that lie in the queue or in a worker's hands.
Held == Len(taskCh) + Cardinality(Hands)

Places == {"enter", "window", "one", "check", "split", "many", "send", "cleanup", "wait", "done"}

\* In the loop of many a buffer lies in the queue, in a worker's hands, or with the
\* batch about to be sent, and a worker that is gone left nothing in the queue
\* (parallel.go:472-477, 547-568).
Counted ==
    /\ pc \in Places /\ bufs \in Int
    /\ pc = "enter" => bufs = 0
    /\ pc \in {"window", "one"} => bufs = 1 /\ cores = "one"
    /\ pc \in {"check", "split", "many", "cleanup", "wait"} => bufs = Held
    /\ pc = "send" => bufs = Held + 1
    /\ tasksClosed => pc \in {"wait", "done"}
    /\ \A w \in Workers : work[w] = Gone => tasksClosed /\ taskCh = <<>>
    /\ BuffersReturned

\* They can be counted.
LEMMA HeldTyped ==
    ASSUME Shape
    PROVE  /\ IsFiniteSet(Hands) /\ Cardinality(Hands) \in Nat /\ Len(taskCh) \in Nat /\ Held \in Nat
           /\ (\A w \in Workers : ~Busy(w)) => Cardinality(Hands) = 0
<1>1. IsFiniteSet(Hands) /\ Cardinality(Hands) \in Nat
  BY ArrayAssumption, FS_Subset, FS_CardinalityType DEF Hands
<1>2. Len(taskCh) \in Nat
  BY DEF Shape
<1>3. (\A w \in Workers : ~Busy(w)) => Hands = {}
  BY DEF Hands
<1>. QED  BY <1>1, <1>2, <1>3, FS_EmptySet DEF Held

\* Nothing is taken at first.
LEMMA InitCounted == Init => Counted
<1>. SUFFICES ASSUME Init PROVE Counted
  OBVIOUS
<1>1. /\ pc = "enter" /\ bufs = 0 /\ tasksClosed = FALSE
      /\ \A w \in Workers : work[w] = Unborn
  BY DEF Init
<1>2. Unborn # Gone
  BY DEF Unborn, Gone
<1>. QED  BY <1>1, <1>2 DEF Counted, Places, BuffersReturned

\* The caller's steps that leave queue and workers alone.
LEMMA CallerCounts ==
    ASSUME IInv, IInv', Counted,
           \/ Refuse \/ ReturnNothing \/ StartOne \/ SplitWindow \/ OneEnd \/ OneReject \/ OneWindow
           \/ CheckErrors \/ ScanEnd \/ ScanReject \/ ScanEmpty \/ ScanBatch \/ CloseTasks \/ Return
    PROVE  Counted'
<1>1. UNCHANGED <<taskCh, work>>
  BY DEF Refuse, ReturnNothing, StartOne, SplitWindow, OneEnd, OneReject, OneWindow, CheckErrors,
         ScanEnd, ScanReject, ScanEmpty, ScanBatch, CloseTasks, Return, chanVars
<1>2. Held' = Held /\ Held \in Nat
  BY <1>1, HeldTyped DEF Held, Hands, Busy, IInv
<1>3. \A w \in Workers : work[w] = Gone => tasksClosed' /\ taskCh = <<>>
  BY DEF Counted, Refuse, ReturnNothing, StartOne, SplitWindow, OneEnd, OneReject, OneWindow,
     CheckErrors,
         ScanEnd, ScanReject, ScanEmpty, ScanBatch, CloseTasks, Return, chanVars
<1>4. CASE Refuse \/ ReturnNothing \/ StartOne \/ SplitWindow
  BY <1>1, <1>2, <1>3, <1>4 DEF Counted, Refuse, ReturnNothing, StartOne, SplitWindow, chanVars,
     argVars,
     BuffersReturned, Places
<1>5. CASE CheckErrors \/ ScanEnd \/ ScanReject \/ ScanEmpty \/ ScanBatch \/ CloseTasks
  BY <1>1, <1>2, <1>3, <1>5 DEF Counted, CheckErrors, ScanEnd, ScanReject, ScanEmpty, ScanBatch,
     CloseTasks,
     chanVars, argVars, BuffersReturned, Places
<1>6. CASE OneEnd \/ OneWindow
  BY <1>1, <1>2, <1>3, <1>6 DEF Counted, OneEnd, OneWindow, chanVars, argVars, BuffersReturned,
     Places
<1>7. CASE OneReject
  <2>1. GapsValid' = GapsValid
    BY <1>7 DEF OneReject, GapsValid, Valid, Inner, argVars, scanVars, bufVars
  <2>2. /\ pc = "one" /\ pc' = "done" /\ fatal' /\ UNCHANGED <<cores, tasksClosed>>
        /\ bufs' = bufs - 1 \/ (bufs' = bufs - 2 /\ ~GapsValid)
    BY <1>7 DEF OneReject, argVars, chanVars
  <2>. HIDE DEF GapsValid
  <2>. QED  BY <1>1, <1>2, <1>3, <2>1, <2>2 DEF Counted, BuffersReturned, Places
<1>8. CASE Return
  <2>1. pc = "wait" /\ pc' = "done" /\ UNCHANGED <<bufs, tasksClosed>> /\ Waited
    BY <1>8 DEF Return, chanVars
  <2>2. taskCh = <<>> /\ \A w \in Workers : ~Busy(w)
    <3>1. \A w \in Workers : work[w] = Gone
      BY <2>1 DEF Waited
    <3>2. taskCh = <<>>
      BY <3>1, ArrayAssumption DEF Counted
    <3>3. ~(Gone.base >= 0)
      BY DEF Gone
    <3>. QED  BY <3>1, <3>2, <3>3 DEF Busy
  <2>3. bufs = 0
    BY <2>1, <2>2, HeldTyped DEF Held, Counted, IInv
  <2>. QED  BY <1>1, <1>3, <2>1, <2>3 DEF Counted, BuffersReturned, Places
<1>. QED  BY <1>4, <1>5, <1>6, <1>7, <1>8

\* The workers start with empty hands.
LEMMA StartCounts ==
    ASSUME IInv, IInv', Counted, StartMany PROVE Counted'
<1>1. /\ pc = "enter" /\ pc' = "check" /\ UNCHANGED <<taskCh, bufs, tasksClosed>>
      /\ work' = [w \in Workers |-> Idle] /\ taskCh = <<>>
  BY DEF StartMany, chanVars, IInv, Alone
<1>2. \A w \in Workers : work'[w] # Gone /\ ~(work'[w].base >= 0)
  BY <1>1 DEF Idle, Gone
<1>3. Hands' = {}
  BY <1>2 DEF Hands, Busy
<1>4. Held' = 0
  BY <1>1, <1>3, FS_EmptySet DEF Held
<1>. QED  BY <1>1, <1>2, <1>4 DEF Counted, BuffersReturned, Places

\* The batch about to be sent goes to the queue.
LEMMA SendCounts ==
    ASSUME IInv, IInv', Counted, Send PROVE Counted'
<1>1. /\ pc = "send" /\ pc' = "check" /\ UNCHANGED <<work, bufs, tasksClosed>>
      /\ taskCh' = Append(taskCh, Task)
  BY DEF Send
<1>2. Hands' = Hands
  BY <1>1 DEF Hands, Busy
<1>3. PICK S : taskCh \in Seq(S)
  BY DEF IInv, Shape
<1>4. Len(taskCh') = Len(taskCh) + 1
  BY <1>1, <1>3
<1>5. Held' = Held + 1 /\ Held \in Nat
  BY <1>2, <1>4, HeldTyped DEF Held, IInv
<1>6. ~tasksClosed /\ \A w \in Workers : work[w] # Gone
  BY <1>1 DEF Counted
<1>. QED  BY <1>1, <1>5, <1>6 DEF Counted, BuffersReturned, Places

\* A worker takes a batch from the queue into its hands.
LEMMA TakeCounts ==
    ASSUME IInv, IInv', Counted, NEW w \in Workers, TakeTask(w) PROVE Counted'
<1>1. /\ UNCHANGED <<pc, cores, fatal, bufs, tasksClosed>> /\ taskCh # <<>>
      /\ work[w] = Idle /\ taskCh' = Tail(taskCh)
      /\ work' = [work EXCEPT ![w] = Head(taskCh)]
  BY DEF TakeTask, argVars
<1>2. PICK S : taskCh \in Seq(S)
  BY DEF IInv, Shape
<1>3. PICK R : work \in [Workers -> R]
  BY DEF IInv, Shape
<1>4. /\ Len(taskCh) \in Nat \ {0} /\ Len(taskCh') = Len(taskCh) - 1
      /\ Head(taskCh) = taskCh[1] /\ 1 \in 1 .. Len(taskCh)
  BY <1>1, <1>2
<1>5. taskCh[1].base >= 0
  BY <1>4 DEF IInv, Ordered, Within
<1>6. \A v \in Workers : work'[v] = IF v = w THEN taskCh[1] ELSE work[v]
  BY <1>1, <1>3, <1>4
<1>7. Hands' = Hands \cup {w} /\ w \notin Hands
  BY <1>1, <1>5, <1>6 DEF Hands, Busy, Idle
<1>8. Held' = Held
  <2>1. IsFiniteSet(Hands) /\ Cardinality(Hands) \in Nat
    BY HeldTyped DEF IInv
  <2>2. Cardinality(Hands') = Cardinality(Hands) + 1
    BY <1>7, <2>1, FS_AddElement
  <2>. QED  BY <1>4, <2>1, <2>2 DEF Held
<1>9. \A v \in Workers : work'[v] # Gone
  BY <1>1, <1>5, <1>6 DEF Counted, Gone
<1>10. pc \notin {"enter", "window", "one", "done"}
  BY <1>1, WorkersRunInside DEF Idle, Gone, Unborn
<1>. QED  BY <1>1, <1>8, <1>9, <1>10 DEF Counted, BuffersReturned

\* A worker's other steps: its batch stays in its hands, or goes with its buffer.
LEMMA WorkCounts ==
    ASSUME IInv, IInv', Counted, NEW w \in Workers,
           \/ ParseElement(w) \/ ParseFails(w) \/ FinishTask(w) \/ WorkerExit(w)
    PROVE  Counted'
<1>1. UNCHANGED <<pc, cores, fatal, taskCh, tasksClosed>>
  BY DEF ParseElement, ParseFails, FinishTask, WorkerExit, argVars, chanVars
<1>2. PICK R : work \in [Workers -> R]
  BY DEF IInv, Shape
<1>3. pc \notin {"enter", "window", "one", "done"}
  <2>1. work[w] \notin {Gone, Unborn}
    BY DEF ParseElement, ParseFails, FinishTask, WorkerExit, Busy, Idle, Gone, Unborn
  <2>. QED  BY <2>1, WorkersRunInside
<1>4. IsFiniteSet(Hands) /\ Cardinality(Hands) \in Nat /\ Len(taskCh) \in Nat
  BY HeldTyped DEF IInv
<1>5. CASE ParseElement(w) \/ ParseFails(w)
  <2>1. PICK n : work' = [work EXCEPT ![w].at = n] /\ Busy(w) /\ bufs' = bufs
    BY <1>5 DEF ParseElement, ParseFails
  <2>2. IsTask(work[w])
    BY DEF IInv, Shape
  <2>3. \A v \in Workers : v # w => work'[v] = work[v]
    BY <1>2, <2>1
  <2>4. work'[w].base = work[w].base
    BY <1>2, <2>1, <2>2 DEF IsTask
  <2>5. Hands' = Hands
    BY <2>3, <2>4 DEF Hands, Busy
  <2>6. Held' = Held
    BY <1>1, <2>5 DEF Held
  <2>7. \A v \in Workers : work'[v] = Gone => work[v] = Gone
    BY <2>1, <2>3, <2>4 DEF Busy, Gone
  <2>. QED  BY <1>1, <1>3, <2>1, <2>6, <2>7 DEF Counted, BuffersReturned
<1>6. CASE FinishTask(w)
  <2>1. work' = [work EXCEPT ![w] = Idle] /\ Busy(w) /\ bufs' = bufs - 1
    BY <1>6 DEF FinishTask
  <2>2. \A v \in Workers : work'[v] = IF v = w THEN Idle ELSE work[v]
    BY <1>2, <2>1
  <2>3. Hands' = Hands \ {w} /\ w \in Hands
    BY <2>1, <2>2 DEF Hands, Busy, Idle
  <2>4. Cardinality(Hands') = Cardinality(Hands) - 1
    BY <1>4, <2>3, FS_RemoveElement
  <2>5. Held' = Held - 1 /\ Held \in Int
    BY <1>1, <1>4, <2>4 DEF Held
  <2>6. \A v \in Workers : work'[v] = Gone => work[v] = Gone
    BY <2>2 DEF Idle, Gone
  <2>. QED  BY <1>1, <1>3, <2>1, <2>5, <2>6 DEF Counted, BuffersReturned
<1>7. CASE WorkerExit(w)
  <2>1. work' = [work EXCEPT ![w] = Gone] /\ work[w] = Idle /\ bufs' = bufs /\ taskCh = <<>> /\ tasksClosed
    BY <1>7 DEF WorkerExit
  <2>2. \A v \in Workers : work'[v] = IF v = w THEN Gone ELSE work[v]
    BY <1>2, <2>1
  <2>3. Hands' = Hands
    BY <2>1, <2>2 DEF Hands, Busy, Idle, Gone
  <2>4. Held' = Held
    BY <1>1, <2>3 DEF Held
  <2>. QED  BY <1>1, <1>3, <2>1, <2>4 DEF Counted, BuffersReturned
<1>. QED  BY <1>5, <1>6, <1>7

LEMMA CountedStays == IInv /\ IInv' /\ Counted /\ [Next]_vars => Counted'
<1>. SUFFICES ASSUME IInv, IInv', Counted, [Next]_vars PROVE Counted'
  OBVIOUS
<1>1. CASE UNCHANGED vars
  <2>1. Held' = Held /\ GapsValid' = GapsValid
    BY <1>1 DEF vars, argVars, scanVars, bufVars, chanVars, Held, Hands, Busy, GapsValid, Valid,
       Inner
  <2>. QED  BY <1>1, <2>1 DEF vars, argVars, scanVars, bufVars, chanVars, Counted, BuffersReturned
<1>. QED  BY <1>1, CallerCounts, StartCounts, SendCounts, TakeCounts, WorkCounts DEF Next,
             Caller, Worker

\* For every number of workers and every input: when the call has returned every chunk
\* buffer was put back once, whoever had it and whatever failed, except that the loop of
\* one processor puts it back twice after a bad separator (parallel.go:378-448, 477,
\* 490-561).
THEOREM BuffersReturnedHolds == Spec => []BuffersReturned
<1>1. Spec => []IInv
  BY InitIInv, NextIInv, PTL DEF Spec
<1>2. IInv /\ IInv' /\ Counted /\ [Next]_vars => Counted'
  BY CountedStays
<1>3. Counted => BuffersReturned
  BY DEF Counted
<1>. QED  BY <1>1, <1>2, <1>3, InitCounted, PTL DEF Spec

-----------------------------------------------------------------------------
(* Success means the whole array.                                          *)

Token == {"e", "x", "comma", "lbracket", "rbracket"}

Scanning == pc \in {"window", "one", "check", "split", "many", "send", "cleanup", "wait"}

\* What is left of a batch holds an element that fails to decode.
Spoilt(b) == \E j \in 1 .. Len(b.chunks) : b.at <= j /\ ~Decodes(b.chunks[j])

\* The call is bound to fail.
Doomed ==
    \/ fatal \/ errCh > 0
    \/ \E i \in 1 .. Len(taskCh) : Spoilt(taskCh[i])
    \/ \E w \in Workers : Busy(w) /\ Spoilt(work[w])
    \/ pc = "send" /\ Spoilt(Task)

\* The elements accepted: those in batches, and those in the batch about to be sent.
Total == itemsFound + (IF pc = "send" THEN Len(Valid) ELSE 0)

\* After k commas stand n elements that decode, one comma between any two.
Prefix(k, n) ==
    /\ k \in Nat /\ k + 2 * n - 1 <= Len(Inner)
    /\ \A q \in 1 .. k : Inner[q] = "comma"
    /\ \A s \in 0 .. (n - 1) : Inner[k + 2 * s + 1] = "e" /\ (s > 0 => Inner[k + 2 * s] = "comma")

Placed(b, k) == \A j \in 1 .. Len(b.chunks) : b.chunks[j] = Elem(k, (b.base + j) - 1)

\* The slots a batch has still to fill, and whether slot s is one of some batch.
Left(b) == ((b.base + b.at) - 1) .. (End(b) - 1)

Pending(s) == \/ \E i \in 1 .. Len(taskCh) : s \in Left(taskCh[i])
              \/ \E w \in Workers : Busy(w) /\ s \in Left(work[w])

\* Every element accepted stands where it belongs, and so does what is in the slots.
Exact(k) ==
    /\ k \in Forgiven /\ Prefix(k, Total)
    /\ hadElements => prevElemEnd = k + 2 * Total - 1
    /\ \A i \in 1 .. Len(taskCh) : Placed(taskCh[i], k)
    /\ \A w \in Workers : Busy(w) => Placed(work[w], k)
    /\ pc = "send" => Placed(Task, k)
    /\ \A s \in 0 .. (itemsFound - 1) : dst[s] = k + 2 * s \/ Pending(s)

\* The windows before the first element: full ones of commas, or the scan stands still.
Lead ==
    \/ offset = 0
    \/ Stuck(Inner, offset)
    \/ /\ \E j \in 1 .. offset : offset = j * (Batch - 1)
       /\ \A q \in 1 .. offset : Inner[q] = "comma"

IsBatch(b) == b.chunks \in Seq(Chunk) /\ b.at \in Nat \ {0}

Loop ==
    /\ raw \in Seq(Token) /\ dst \in [0 .. (capacity - 1) -> Int]
    /\ offset \in Nat /\ prevElemEnd \in Nat /\ errCh \in Nat /\ hadElements \in BOOLEAN
    /\ \A i \in 1 .. Len(taskCh) : IsBatch(taskCh[i])
    /\ \A w \in Workers : Busy(w) => IsBatch(work[w])
    /\ fatal => pc \in {"cleanup", "wait", "done"}
    /\ Scanning => Scanned
    /\ pc \in {"enter", "window", "one"} => errCh = 0
    /\ pc \in {"check", "split", "many", "send", "cleanup", "wait"} => cores = "many"
    /\ pc \in {"one", "many", "send"} => IsWindow(Inner, offset, chunks)
    /\ pc = "send" => hadElements /\ Valid # <<>>

\* Nothing is accepted before the loop.
Fresh == pc = "enter" => itemsFound = 0 /\ prevElemEnd = 0 /\ ~hadElements /\ offset = 0

Accepted ==
    /\ Fresh
    /\ hadElements => Total > 0
    /\ ~hadElements => Total = 0 /\ prevElemEnd = 0 /\ (Scanning => offset <= Len(Inner) /\ Lead)
    /\ Scanning => Doomed \/ \E k \in Forgiven : Exact(k)

OkInv == Loop /\ Accepted /\ OkIsComplete

LEMMA InitOk == Init => OkInv
<1>. SUFFICES ASSUME Init PROVE OkInv
  OBVIOUS
<1>1. /\ raw \in Seq(Token) /\ capacity \in Nat /\ pc = "enter" /\ offset = 0 /\ itemsFound = 0
      /\ prevElemEnd = 0 /\ hadElements = FALSE /\ fatal = FALSE /\ errCh = 0 /\ taskCh = <<>>
      /\ dst = [s \in 0 .. (capacity - 1) |-> Zero]
  BY ArrayAssumption DEF Init, Token
<1>2. dst \in [0 .. (capacity - 1) -> Int]
  BY <1>1 DEF Zero
<1>3. \A w \in Workers : ~Busy(w)
  BY DEF Init, Busy, Unborn
<1>4. Len(taskCh) = 0
  BY <1>1
<1>5. Loop
  <2>1. /\ \A i \in 1 .. Len(taskCh) : IsBatch(taskCh[i])
        /\ \A w \in Workers : Busy(w) => IsBatch(work[w])
    BY <1>3, <1>4
  <2>2. ~Scanning /\ ~(pc \in {"one", "many", "send"}) /\ ~fatal
    BY <1>1 DEF Scanning
  <2>3. pc \notin {"check", "split", "many", "send", "cleanup", "wait"}
    BY <1>1
  <2>. QED  BY <1>1, <1>2, <2>1, <2>2, <2>3 DEF Loop
<1>6. Accepted /\ OkIsComplete
  BY <1>1 DEF Accepted, Fresh, Scanning, Total, OkIsComplete
<1>. QED  BY <1>5, <1>6 DEF OkInv

\* The opening bracket is there once the loop runs.
LEMMA InnerTyped ==
    ASSUME Loop, Scanning PROVE Inner \in Seq(Token) /\ Len(Inner) = Len(raw) - 1
<1>1. raw \in Seq(Token) /\ raw # <<>>
  BY DEF Loop, Scanned
<1>. QED  BY <1>1 DEF Inner

LEMMA ValidIs ==
    ASSUME Loop, pc \in {"one", "many", "send"}
    PROVE  /\ chunks \in Seq(Chunk) /\ Valid \in Seq(Chunk) /\ Len(Inner) \in Nat
           /\ \A i \in 1 .. Len(Valid) : /\ Valid[i] \in Chunk
                                         /\ Valid[i].start <= Valid[i].end
                                         /\ Valid[i].end <= Len(Inner) - 1
<1>1. Inner \in Seq(Token)
  BY InnerTyped DEF Scanning
<1>2. IsWindow(Inner, offset, chunks)
  BY DEF Loop
<1>3. chunks \in Seq(Chunk)
  BY <1>2 DEF IsWindow, IsPieces
<1>4. Valid \in Seq(Chunk)
  BY <1>3, FilledIs DEF Valid
<1>5. PICK at : IsFilled(chunks, Valid, at)
  BY <1>3, FilledIs DEF Valid
<1>6. Len(Inner) \in Nat /\ offset \in Nat
  BY <1>1 DEF Loop
<1>7. ASSUME NEW i \in 1 .. Len(Valid)
      PROVE  Valid[i] \in Chunk /\ Valid[i].start <= Valid[i].end /\ Valid[i].end <= Len(Inner) - 1
  <2>1. at[i] \in 1 .. Len(chunks) /\ Valid[i] = chunks[at[i]]
    BY <1>5 DEF IsFilled
  <2>2. chunks[at[i]].start <= chunks[at[i]].end /\ chunks[at[i]].end \in offset .. (Len(Inner) - 1)
    BY <1>2, <2>1 DEF IsWindow, IsPieces
  <2>. QED  BY <1>4, <1>6, <2>1, <2>2
<1>. QED  BY <1>3, <1>4, <1>6, <1>7

\* All of them decode if as many as there are do.
LEMMA GoodIsAll ==
    ASSUME Valid \in Seq(Chunk)
    PROVE  /\ Good \in 0 .. Len(Valid)
           /\ Good >= Len(Valid) => \A i \in 1 .. Len(Valid) : Decodes(Valid[i])
<1>. DEFINE L == Len(Valid)
            G == {k \in DOMAIN Valid : \A j \in 1 .. k : Decodes(Valid[j])}
<1>1. L \in Nat /\ DOMAIN Valid = 1 .. L
  OBVIOUS
<1>2. IsFiniteSet(1 .. L) /\ Cardinality(1 .. L) = L
  <2>1. 1 \in Int /\ L \in Int
    BY <1>1
  <2>2. IsFiniteSet(1 .. L) /\ Cardinality(1 .. L) = IF 1 > L THEN 0 ELSE L - 1 + 1
    BY <2>1, FS_Interval, Zenon
  <2>. QED  BY <1>1, <2>2
<1>3. G \subseteq 1 .. L
  BY <1>1
<1>. HIDE DEF L
<1>4. ASSUME NEW i \in 1 .. L, ~Decodes(Valid[i]) PROVE Cardinality(G) < L
  <2>1. i \in 1 .. i /\ i \notin G
    BY <1>4
  <2>. HIDE DEF G
  <2>2. G \in SUBSET ((1 .. L) \ {i})
    BY <1>3, <2>1
  <2>3. IsFiniteSet((1 .. L) \ {i}) /\ Cardinality((1 .. L) \ {i}) = L - 1
    BY <1>1, <1>2, <1>4, FS_RemoveElement
  <2>4. IsFiniteSet(G) /\ Cardinality(G) <= Cardinality((1 .. L) \ {i})
    BY <2>2, <2>3, FS_Subset, Zenon
  <2>5. Cardinality(G) \in Nat
    BY <2>4, FS_CardinalityType, Zenon
  <2>. QED  BY <1>1, <2>3, <2>4, <2>5
<1>5. Cardinality(G) \in 0 .. L
  <2>. HIDE DEF G
  <2>1. G \in SUBSET (1 .. L)
    BY <1>3
  <2>2. IsFiniteSet(G) /\ Cardinality(G) <= L
    BY <1>2, <2>1, FS_Subset
  <2>. QED  BY <1>1, <2>2, FS_CardinalityType
<1>6. Good = Cardinality(G)
  BY DEF Good
<1>. HIDE DEF G
<1>7. Good >= L => \A i \in 1 .. L : Decodes(Valid[i])
  BY <1>1, <1>4, <1>5, <1>6
<1>. QED  BY <1>5, <1>6, <1>7 DEF L

\* A gap of the array between its brackets that is one token.
LEMMA InnerGap ==
    ASSUME Inner \in Seq(Token), NEW a \in Nat, NEW b \in Nat, b <= Len(Inner), NEW x,
           Gap(Inner, a, b) = <<x>>
    PROVE  b = a + 1 /\ Inner[b] = x
BY OneGap

\* What is accepted continues the array: every element lies two tokens behind the last.
LEMMA Continues ==
    ASSUME Loop, pc \in {"one", "many"}, Valid # <<>>, GapsValid,
           NEW k \in Nat, NEW m \in Nat, Valid[1].start = k + 2 * m,
           \A i \in 1 .. Len(Valid) : Decodes(Valid[i])
    PROVE  \A i \in 1 .. Len(Valid) : /\ Valid[i] = Elem(k, (m + i) - 1)
                                      /\ Inner[Valid[i].end] = "e"
                                      /\ i > 1 => Inner[Valid[i].start] = "comma"
<1>1. /\ Valid \in Seq(Chunk) /\ Len(Inner) \in Nat /\ Len(Valid) \in Nat /\ Inner \in Seq(Token)
      /\ \A i \in 1 .. Len(Valid) : /\ Valid[i] \in Chunk /\ Valid[i].start <= Valid[i].end
                                    /\ Valid[i].end <= Len(Inner) - 1
  BY ValidIs, InnerTyped DEF Scanning
<1>2. ASSUME NEW i \in 1 .. Len(Valid)
      PROVE  Valid[i].end = Valid[i].start + 1 /\ Inner[Valid[i].end] = "e"
  <2>1. Gap(Inner, Valid[i].start, Valid[i].end) = <<"e">>
    BY DEF Decodes
  <2>2. Valid[i].start \in Nat /\ Valid[i].end \in Nat /\ Valid[i].end <= Len(Inner)
    BY <1>1 DEF Chunk
  <2>3. Inner \in Seq(Token)
    BY <1>1
  <2>. DEFINE a == Valid[i].start
              b == Valid[i].end
  <2>4. a \in Nat /\ b \in Nat /\ b <= Len(Inner) /\ Gap(Inner, a, b) = <<"e">>
    BY <2>1, <2>2
  <2>. HIDE DEF a, b
  <2>6. b = a + 1 /\ Inner[b] = "e"
    BY <2>3, <2>4, InnerGap, Zenon
  <2>. QED  BY <2>6 DEF a, b
<1>3. ASSUME NEW i \in 1 .. Len(Valid), i > 1
      PROVE  Valid[i].start = Valid[i - 1].end + 1 /\ Inner[Valid[i].start] = "comma"
  <2>1. i \in DOMAIN Valid /\ i - 1 \in 1 .. Len(Valid)
    BY <1>1, <1>3
  <2>2. Gap(Inner, Valid[i - 1].end, Valid[i].start) = <<"comma">>
    BY <1>3, <2>1 DEF GapsValid
  <2>3. Valid[i - 1].end \in Nat /\ Valid[i].start \in Nat /\ Valid[i].start <= Len(Inner)
    <3>1. Valid[i - 1] \in Chunk /\ Valid[i] \in Chunk /\ Valid[i].start <= Valid[i].end
           /\ Valid[i].end <= Len(Inner) - 1
      BY <1>1, <2>1
    <3>2. Valid[i - 1].end \in Nat /\ Valid[i].start \in Nat /\ Valid[i].end \in Nat
      BY <3>1 DEF Chunk
    <3>3. Len(Inner) \in Nat
      BY <1>1
    <3>. QED  BY <3>1, <3>2, <3>3
  <2>4. Inner \in Seq(Token)
    BY <1>1
  <2>. DEFINE a == Valid[i - 1].end
              b == Valid[i].start
  <2>5. a \in Nat /\ b \in Nat /\ b <= Len(Inner) /\ Gap(Inner, a, b) = <<"comma">>
    BY <2>2, <2>3
  <2>. HIDE DEF a, b
  <2>7. b = a + 1 /\ Inner[b] = "comma"
    BY <2>4, <2>5, InnerGap, Zenon
  <2>. QED  BY <2>7 DEF a, b
<1>. DEFINE S == {n \in Nat : n + 1 \in 1 .. Len(Valid) => Valid[n + 1].start = k + 2 * (m + n)}
<1>4. 0 \in S
  OBVIOUS
<1>5. ASSUME NEW n \in Nat, n \in S PROVE n + 1 \in S
  <2>. SUFFICES ASSUME (n + 1) + 1 \in 1 .. Len(Valid)
                PROVE  Valid[(n + 1) + 1].start = k + 2 * (m + (n + 1))
    OBVIOUS
  <2>1. n + 1 \in 1 .. Len(Valid) /\ (n + 1) + 1 > 1 /\ ((n + 1) + 1) - 1 = n + 1
    BY <1>1
  <2>2. Valid[n + 1].start = k + 2 * (m + n)
    BY <1>5, <2>1
  <2>3. Valid[(n + 1) + 1].start = (Valid[n + 1].start + 1) + 1
    BY <1>2, <1>3, <2>1
  <2>. QED  BY <2>2, <2>3
<1>6. Nat \subseteq S
  <2>. HIDE DEF S
  <2>. QED  BY <1>4, <1>5, NatSets
<1>7. ASSUME NEW i \in 1 .. Len(Valid) PROVE Valid[i] = Elem(k, (m + i) - 1)
  <2>1. i - 1 \in Nat /\ (i - 1) + 1 = i
    OBVIOUS
  <2>2. i - 1 \in S
    BY <1>6, <2>1
  <2>3. Valid[i].start = k + 2 * ((m + i) - 1)
    BY <2>1, <2>2
  <2>4. Valid[i] = [start |-> Valid[i].start, end |-> Valid[i].end]
    BY <1>1 DEF Chunk
  <2>. QED  BY <1>2, <2>3, <2>4 DEF Elem
<1>. QED  BY <1>2, <1>3, <1>7

\* The gap in front of a window's first element, as GapsValid looks at it.
LEMMA FirstGap ==
    ASSUME Loop, pc \in {"one", "many"}, Valid # <<>>, GapsValid, NEW a \in Nat,
           a = IF ~hadElements /\ offset > 0 THEN offset ELSE prevElemEnd
    PROVE  IF hadElements \/ offset > 0 THEN Valid[1].start = a + 1 /\ Inner[a + 1] = "comma"
           ELSE Valid[1].start <= a
<1>1. /\ Valid \in Seq(Chunk) /\ Len(Valid) \in Nat /\ Inner \in Seq(Token)
      /\ Valid[1].start \in Nat /\ Valid[1].start <= Len(Inner) /\ 1 \in DOMAIN Valid
  <2>1. Valid \in Seq(Chunk) /\ Inner \in Seq(Token) /\ Len(Inner) \in Nat
    BY ValidIs, InnerTyped DEF Scanning
  <2>2. 1 \in 1 .. Len(Valid) /\ 1 \in DOMAIN Valid
    BY <2>1
  <2>3. Valid[1] \in Chunk /\ Valid[1].start <= Valid[1].end /\ Valid[1].end <= Len(Inner) - 1
    BY <2>2, ValidIs
  <2>. QED  BY <2>1, <2>2, <2>3 DEF Chunk
<1>2. Gap(Inner, a, Valid[1].start) = IF hadElements \/ offset > 0 THEN <<"comma">> ELSE <<>>
  BY <1>1 DEF GapsValid
<1>. DEFINE b == Valid[1].start
<1>3. b \in Nat /\ b <= Len(Inner)
  BY <1>1
<1>4. Inner \in Seq(Token)
  BY <1>1
<1>5. Gap(Inner, a, b) = IF hadElements \/ offset > 0 THEN <<"comma">> ELSE <<>>
  BY <1>2
<1>. HIDE DEF b
<1>6. ASSUME Gap(Inner, a, b) = <<"comma">> PROVE b = a + 1 /\ Inner[b] = "comma"
  BY <1>3, <1>4, <1>6, OneGap
<1>7. Gap(Inner, a, b) = <<>> <=> b <= a
  BY <1>3, <1>4, GapIsNone
<1>8. IF hadElements \/ offset > 0 THEN b = a + 1 /\ Inner[b] = "comma" ELSE b <= a
  BY <1>5, <1>6, <1>7
<1>. QED  BY <1>8 DEF b

\* Taking in a window whose elements all decode keeps what was accepted exact; only the
\* first window with an element says how many commas stand in front.
LEMMA Accept ==
    ASSUME IInv, Loop, Accepted, pc \in {"one", "many"}, Advances, Valid # <<>>, GapsValid,
           NEW k \in Forgiven, Exact(k),
           \A i \in 1 .. Len(Valid) : Decodes(Valid[i])
    PROVE  \E n \in Forgiven :
             /\ hadElements => n = k
             /\ ~hadElements => itemsFound = 0
             /\ Prefix(n, itemsFound + Len(Valid))
             /\ Valid[Len(Valid)].end = n + 2 * (itemsFound + Len(Valid)) - 1
             /\ \A i \in 1 .. Len(Valid) : Valid[i] = Elem(n, (itemsFound + i) - 1)
<1>. DEFINE m == itemsFound
            V == Valid
            L == Len(Valid)
<1>1. /\ V \in Seq(Chunk) /\ L \in Nat \ {0} /\ Inner \in Seq(Token) /\ Len(Inner) \in Nat
      /\ \A i \in 1 .. L : V[i] \in Chunk /\ V[i].end <= Len(Inner) - 1
  <2>1. V \in Seq(Chunk) /\ Inner \in Seq(Token) /\ Len(Inner) \in Nat
    BY ValidIs, InnerTyped DEF Scanning
  <2>2. L \in Nat \ {0}
    BY <2>1
  <2>. QED  BY <2>1, <2>2, ValidIs
<1>2. /\ m \in Nat /\ Total = m /\ offset \in Nat /\ prevElemEnd \in Nat /\ hadElements \in BOOLEAN
      /\ Scanning
  BY DEF IInv, Shape, Loop, Total, Scanning
<1>3. PICK n \in Forgiven : /\ n \in Nat
                            /\ hadElements => n = k
                            /\ ~hadElements => m = 0
                            /\ V[1].start = n + 2 * m
                            /\ \A q \in 1 .. n : Inner[q] = "comma"
                            /\ m > 0 => Inner[n + 2 * m] = "comma"
  <2>1. CASE hadElements
    <3>1. prevElemEnd = k + 2 * m - 1 /\ Prefix(k, m)
      BY <1>2, <2>1 DEF Exact
    <3>2. V[1].start = prevElemEnd + 1 /\ Inner[prevElemEnd + 1] = "comma"
      BY <1>2, <2>1, FirstGap
    <3>3. k \in Nat /\ prevElemEnd + 1 = k + 2 * m
      BY <1>2, <3>1 DEF Prefix
    <3>. QED  BY <2>1, <3>1, <3>2, <3>3 DEF Prefix
  <2>2. CASE ~hadElements /\ offset = 0
    <3>1. m = 0 /\ prevElemEnd = 0
      BY <1>2, <2>2 DEF Accepted
    <3>2. V[1].start <= 0
      BY <1>2, <2>2, <3>1, FirstGap
    <3>3. V[1].start = 0
      <4>1. V[1] \in Chunk
        BY <1>1
      <4>2. V[1].start \in Nat
        BY <4>1 DEF Chunk
      <4>. QED  BY <3>2, <4>2
    <3>4. 0 \in Forgiven
      BY DEF Forgiven
    <3>. QED  BY <2>2, <3>1, <3>3, <3>4
  <2>3. CASE ~hadElements /\ offset # 0
    <3>1. m = 0 /\ Lead /\ offset <= Len(Inner)
      BY <1>2, <2>3 DEF Accepted
    <3>2. V[1].start = offset + 1 /\ Inner[offset + 1] = "comma"
      BY <1>2, <2>3, FirstGap
    <3>3. ~Stuck(Inner, offset)
      <4>1. IsWindow(Inner, offset, chunks)
        BY DEF Loop
      <4>. QED  BY <1>1, <1>2, <4>1, StuckStays DEF Advances
    <3>4. PICK j \in 1 .. offset : offset = j * (Batch - 1)
      BY <2>3, <3>1, <3>3 DEF Lead
    <3>5. \A q \in 1 .. offset : Inner[q] = "comma"
      BY <2>3, <3>1, <3>3 DEF Lead
    <3>6. j \in 1 .. Len(raw)
      BY <1>1, <1>2, <3>1, InnerTyped
    <3>7. 1 + j * (Batch - 1) \in Forgiven
      BY <3>6 DEF Forgiven
    <3>8. offset + 1 \in Forgiven
      BY <3>4, <3>7
    <3>9. \A q \in 1 .. (offset + 1) : Inner[q] = "comma"
      BY <1>2, <3>2, <3>5
    <3>. QED  BY <1>2, <2>3, <3>1, <3>2, <3>8, <3>9
  <2>. QED  BY <1>2, <2>1, <2>2, <2>3
<1>4. \A i \in 1 .. L : /\ V[i] = Elem(n, (m + i) - 1)
                        /\ Inner[V[i].end] = "e"
                        /\ i > 1 => Inner[V[i].start] = "comma"
  BY <1>2, <1>3, Continues
<1>5. ASSUME NEW s \in 0 .. (m + L - 1)
      PROVE  Inner[n + 2 * s + 1] = "e" /\ (s > 0 => Inner[n + 2 * s] = "comma")
  <2>1. CASE s < m
    <3>1. hadElements /\ n = k
      BY <1>2, <1>3, <2>1
    <3>2. Prefix(n, m)
      BY <1>2, <3>1 DEF Exact
    <3>. QED  BY <1>2, <2>1, <3>2 DEF Prefix
  <2>2. CASE s >= m
    <3>. DEFINE i == (s - m) + 1
    <3>1. i \in 1 .. L /\ (m + i) - 1 = s
      BY <1>1, <1>2, <2>2
    <3>. HIDE DEF i
    <3>2. V[i] = Elem(n, s)
      BY <1>4, <3>1
    <3>. HIDE DEF V
    <3>5. V[i].start = n + 2 * s /\ V[i].end = n + 2 * s + 1
      BY <3>2 DEF Elem
    <3>3. Inner[n + 2 * s + 1] = "e" /\ (i > 1 => Inner[n + 2 * s] = "comma")
      BY <1>4, <3>1, <3>5 DEF V
    <3>4. i = 1 => s = m
      BY <1>2, <3>1
    <3>. QED  BY <1>3, <3>1, <3>3, <3>4
  <2>. QED  BY <1>2, <2>1, <2>2
<1>6. V[L].end = n + 2 * (m + L) - 1 /\ V[L].end <= Len(Inner) - 1
  <2>1. L \in 1 .. L
    BY <1>1
  <2>2. V[L] = Elem(n, (m + L) - 1)
    BY <1>4, <2>1
  <2>3. V[L].end = n + 2 * ((m + L) - 1) + 1
    <3>. HIDE DEF V, m, L
    <3>. QED  BY <2>2 DEF Elem
  <2>. QED  BY <1>1, <1>2, <1>3, <2>1, <2>3
<1>7. Prefix(n, m + L)
  BY <1>1, <1>2, <1>3, <1>5, <1>6 DEF Prefix
<1>. QED  BY <1>3, <1>4, <1>6, <1>7

\* A good array, token by token.
LEMMA GoodArrayIs ==
    ASSUME NEW m \in Nat
    PROVE  /\ GoodArray(m) \in Seq(Token) /\ Len(GoodArray(m)) = IF m = 0 THEN 1 ELSE 2 * m
           /\ m = 0 => GoodArray(m)[1] = "rbracket"
           /\ m > 0 => /\ GoodArray(m)[2 * m] = "rbracket"
                       /\ \A s \in 0 .. (m - 1) : GoodArray(m)[2 * s + 1] = "e"
                       /\ \A s \in 1 .. (m - 1) : GoodArray(m)[2 * s] = "comma"
<1>. DEFINE es == [k \in 1 .. m |-> "e"]
            n == IF m = 0 THEN 1 ELSE 2 * m
            At(p) == IF m = 0 \/ p = 2 * m THEN "rbracket"
                     ELSE IF p % 2 = 1 THEN "e" ELSE "comma"
<1>1. Len(es) = m /\ (es = <<>> <=> m = 0) /\ \A i \in 1 .. m : es[i] = "e"
  OBVIOUS
<1>. HIDE DEF es
<1>2. GoodArray(m) = [p \in 1 .. n |-> IF m = 0 \/ p = 2 * m THEN "rbracket"
                                      ELSE IF p % 2 = 1 THEN es[(p + 1) \div 2] ELSE "comma"]
  BY <1>1 DEF GoodArray, Array, es
<1>3. \A p \in 1 .. n : p % 2 = 1 /\ ~(m = 0 \/ p = 2 * m) => (p + 1) \div 2 \in 1 .. m
  OBVIOUS
<1>4. GoodArray(m) = [p \in 1 .. n |-> At(p)]
  BY <1>1, <1>2, <1>3
<1>5. n \in Nat /\ \A p \in 1 .. n : At(p) \in Token
  BY DEF Token
<1>. HIDE DEF At
<1>6. GoodArray(m) \in Seq(Token) /\ Len(GoodArray(m)) = n /\ \A p \in 1 .. n : GoodArray(m)[p] = At(p)
  <2>. HIDE DEF n
  <2>1. GoodArray(m) \in [1 .. n -> Token]
    BY <1>4, <1>5
  <2>. QED  BY <1>4, <1>5, <2>1
<1>7. m = 0 => At(1) = "rbracket" /\ 1 \in 1 .. n
  BY DEF At
<1>8. m > 0 => At(2 * m) = "rbracket" /\ 2 * m \in 1 .. n
  BY DEF At
<1>9. ASSUME m > 0, NEW s \in 0 .. (m - 1) PROVE At(2 * s + 1) = "e" /\ 2 * s + 1 \in 1 .. n
  <2>1. (2 * s + 1) % 2 = 1 /\ 2 * s + 1 # 2 * m /\ m # 0
    BY <1>9
  <2>. QED  BY <1>9, <2>1 DEF At
<1>10. ASSUME m > 0, NEW s \in 1 .. (m - 1) PROVE At(2 * s) = "comma" /\ 2 * s \in 1 .. n
  <2>1. (2 * s) % 2 = 0 /\ 2 * s # 2 * m /\ m # 0
    BY <1>10
  <2>. QED  BY <1>10, <2>1 DEF At
<1>. QED  BY <1>6, <1>7, <1>8, <1>9, <1>10

\* Elements and commas up to the bracket are the whole array.
LEMMA WholeIs ==
    ASSUME Inner \in Seq(Token), NEW k \in Nat, NEW m \in Nat \ {0}, Prefix(k, m),
           ClosedAt(Inner, k + 2 * m - 1)
    PROVE  Inner = [p \in 1 .. k |-> "comma"] \o GoodArray(m)
<1>. DEFINE G == GoodArray(m)
            C == [p \in 1 .. k |-> "comma"]
<1>1. /\ G \in Seq(Token) /\ Len(G) = 2 * m /\ G[2 * m] = "rbracket"
      /\ \A s \in 0 .. (m - 1) : G[2 * s + 1] = "e"
      /\ \A s \in 1 .. (m - 1) : G[2 * s] = "comma"
  <2>1. m \in Nat /\ m # 0 /\ m > 0
    OBVIOUS
  <2>. QED  BY <2>1, GoodArrayIs
<1>2. C \in Seq(Token) /\ Len(C) = k /\ \A p \in 1 .. k : C[p] = "comma"
  <2>1. C \in [1 .. k -> Token]
    BY DEF Token
  <2>. QED  BY <2>1
<1>3. Len(Inner) = k + 2 * m /\ Inner[k + 2 * m] = "rbracket"
  <2>1. k + 2 * m - 1 \in Nat /\ (k + 2 * m - 1) + 1 = k + 2 * m
    OBVIOUS
  <2>. QED  BY <2>1, ClosedAtIs
<1>4. /\ \A q \in 1 .. k : Inner[q] = "comma"
      /\ \A s \in 0 .. (m - 1) : Inner[k + 2 * s + 1] = "e" /\ (s > 0 => Inner[k + 2 * s] = "comma")
  BY DEF Prefix
<1>. HIDE DEF G, C
<1>5. /\ C \o G \in Seq(Token) /\ Len(C \o G) = k + 2 * m
      /\ \A p \in 1 .. k : (C \o G)[p] = C[p]
      /\ \A p \in 1 .. (2 * m) : (C \o G)[k + p] = G[p]
  <2>1. C \o G \in Seq(Token)
    BY <1>1, <1>2
  <2>2. Len(C \o G) = k + 2 * m
    <3>1. Len(C \o G) = Len(C) + Len(G)
      BY <1>1, <1>2
    <3>. QED  BY <1>1, <1>2, <3>1, Zenon
  <2>3. ASSUME NEW p \in 1 .. k PROVE (C \o G)[p] = C[p]
    BY <1>1, <1>2
  <2>4. ASSUME NEW p \in 1 .. (2 * m) PROVE (C \o G)[k + p] = G[p]
    <3>1. k + p \in 1 .. (k + 2 * m) /\ k + p > k /\ (k + p) - k = p
      OBVIOUS
    <3>2. Len(C) + Len(G) = k + 2 * m
      BY <1>1, <1>2
    <3>. QED  BY <1>1, <1>2, <3>1, <3>2
  <2>. QED  BY <2>1, <2>2, <2>3, <2>4
<1>6. ASSUME NEW p \in 1 .. (2 * m) PROVE Inner[k + p] = G[p]
  <2>1. CASE p = 2 * m
    BY <1>1, <1>3, <2>1
  <2>2. CASE p # 2 * m /\ p % 2 = 1
    <3>. DEFINE s == p \div 2
    <3>1. p = 2 * s + 1 /\ s \in 0 .. (m - 1) /\ k + p = k + 2 * s + 1
      BY <2>2
    <3>. HIDE DEF s
    <3>2. Inner[k + 2 * s + 1] = "e" /\ G[2 * s + 1] = "e"
      BY <1>1, <1>4, <3>1
    <3>. QED  BY <3>1, <3>2
  <2>3. CASE p # 2 * m /\ p % 2 = 0
    <3>. DEFINE s == p \div 2
    <3>1. p = 2 * s /\ s \in 1 .. (m - 1) /\ s \in 0 .. (m - 1) /\ s > 0
      BY <2>3
    <3>. HIDE DEF s
    <3>2. Inner[k + 2 * s] = "comma" /\ G[2 * s] = "comma"
      BY <1>1, <1>4, <3>1
    <3>. QED  BY <3>1, <3>2
  <2>4. p % 2 \in {0, 1}
    OBVIOUS
  <2>. QED  BY <2>1, <2>2, <2>3, <2>4
<1>7. ASSUME NEW q \in 1 .. (k + 2 * m) PROVE Inner[q] = (C \o G)[q]
  <2>1. CASE q <= k
    BY <1>2, <1>4, <1>5, <2>1
  <2>2. CASE q > k
    <3>. DEFINE j == q - k
    <3>1. j \in 1 .. (2 * m) /\ k + j = q
      BY <2>2
    <3>. HIDE DEF j
    <3>2. Inner[k + j] = (C \o G)[k + j]
      BY <1>5, <1>6, <3>1
    <3>. QED  BY <3>1, <3>2
  <2>3. q <= k \/ q > k
    OBVIOUS
  <2>. QED  BY <2>1, <2>2, <2>3
<1>8. Inner = C \o G
  <2>. DEFINE D == C \o G
  <2>1. /\ D \in Seq(Token) /\ Len(D) = Len(Inner) /\ Len(Inner) \in Nat
        /\ \A q \in 1 .. Len(Inner) : Inner[q] = D[q]
    BY <1>3, <1>5, <1>7
  <2>. HIDE DEF D
  <2>2. Inner = D
    BY <2>1
  <2>. QED  BY <2>2 DEF D
<1>. QED  BY <1>8 DEF C, G

\* What Exact speaks about stays when no batch is about to be sent.
LEMMA StillExact ==
    ASSUME UNCHANGED <<raw, itemsFound, prevElemEnd, hadElements, taskCh, work, dst>>,
           pc # "send", pc' # "send", itemsFound \in Nat
    PROVE  /\ Total' = Total /\ Total = itemsFound
           /\ \A k \in Forgiven : Exact(k) => Exact(k)'
           /\ Forgiven' = Forgiven
           /\ Doomed /\ ~fatal /\ ~(errCh > 0) => Doomed'
<1>1. Inner' = Inner /\ Forgiven' = Forgiven
  BY DEF Inner, Forgiven
<1>2. Total' = itemsFound /\ Total = itemsFound
  BY DEF Total
<1>3. \A b : Spoilt(b) => Spoilt(b)'
  BY <1>1 DEF Spoilt, Decodes
<1>4. \A w \in Workers : Busy(w)' = Busy(w)
  BY DEF Busy
<1>5. \A s : Pending(s) => Pending(s)'
  BY DEF Pending, Busy
<1>6. ASSUME NEW k \in Forgiven, Exact(k) PROVE Exact(k)'
  <2>1. Prefix(k, Total)'
    BY <1>1, <1>2, <1>6 DEF Exact, Prefix
  <2>2. \A s \in 0 .. (itemsFound' - 1) : dst'[s] = k + 2 * s \/ Pending(s)'
    BY <1>5, <1>6 DEF Exact
  <2>3. (\A i \in 1 .. Len(taskCh') : Placed(taskCh'[i], k))
        /\ (\A w \in Workers : Busy(w)' => Placed(work'[w], k))
    BY <1>4, <1>6 DEF Exact
  <2>4. hadElements' => prevElemEnd' = k + 2 * Total' - 1
    BY <1>2, <1>6 DEF Exact
  <2>. QED  BY <1>1, <1>6, <2>1, <2>2, <2>3, <2>4 DEF Exact
<1>7. ASSUME Doomed, ~fatal, ~(errCh > 0) PROVE Doomed'
  <2>1. CASE \E i \in 1 .. Len(taskCh) : Spoilt(taskCh[i])
    BY <1>3, <2>1 DEF Doomed, Spoilt, Decodes, Inner
  <2>2. CASE \E w \in Workers : Busy(w) /\ Spoilt(work[w])
    BY <1>3, <2>2 DEF Doomed, Spoilt, Decodes, Busy, Inner
  <2>. QED  BY <1>7, <2>1, <2>2 DEF Doomed
<1>. QED  BY <1>1, <1>2, <1>6, <1>7

\* The caller's steps that accept nothing.
LEMMA QuietOk ==
    ASSUME IInv, OkInv, SplitWindow \/ CheckErrors \/ ScanEnd \/ ScanReject \/ CloseTasks
    PROVE  OkInv'
<1>. USE DEF OkInv
<1>1. /\ UNCHANGED <<raw, capacity, cores, itemsFound, prevElemEnd, hadElements, offset, taskCh,
                     work, dst>>
      /\ pc \in {"window", "split", "check", "many", "cleanup"}
      /\ pc' \in {"one", "many", "split", "cleanup", "wait"}
      /\ (pc' = "one" <=> pc = "window") /\ (pc = "cleanup" => pc' = "wait")
      /\ errCh' # errCh => fatal' /\ errCh > 0 /\ errCh' = errCh - 1 /\ pc' = "cleanup"
      /\ fatal /\ pc \in {"cleanup", "wait", "done"} => fatal'
      /\ fatal' => fatal \/ pc' = "cleanup"
      /\ pc' \in {"one", "many"} => SplitWindow
  <2>1. CASE SplitWindow
    BY <2>1 DEF SplitWindow, argVars, scanVars, chanVars
  <2>2. CASE CheckErrors
    BY <2>2 DEF CheckErrors, argVars, scanVars
  <2>3. CASE ScanEnd \/ ScanReject
    BY <2>3 DEF ScanEnd, ScanReject, argVars, scanVars, chanVars
  <2>4. CASE CloseTasks
    BY <2>4 DEF CloseTasks, argVars, scanVars
  <2>. QED  BY <2>1, <2>2, <2>3, <2>4
<1>2. Scanning /\ Scanning' /\ Scanned /\ (Scanned' <=> Scanned) /\ Inner' = Inner /\ Inner \in Seq(Token)
  <2>1. Scanning /\ Scanning'
    BY <1>1 DEF Scanning
  <2>2. Scanned /\ Inner \in Seq(Token)
    BY <2>1, InnerTyped DEF Loop
  <2>. QED  BY <1>1, <2>1, <2>2 DEF Scanned, Inner
<1>3. itemsFound \in Nat
  BY DEF IInv, Shape
<1>4. /\ Total' = Total /\ Total = itemsFound /\ Forgiven' = Forgiven
      /\ \A k \in Forgiven : Exact(k) => Exact(k)'
      /\ Doomed /\ ~fatal /\ ~(errCh > 0) => Doomed'
  BY <1>1, <1>3, StillExact
<1>5. Doomed => Doomed'
  <2>1. CASE fatal
    BY <1>1, <2>1 DEF Doomed, Loop
  <2>2. CASE errCh > 0
    BY <1>1, <2>2 DEF Doomed, Loop
  <2>. QED  BY <1>4, <2>1, <2>2
<1>6. Accepted'
  <2>1. Doomed' \/ \E k \in Forgiven : Exact(k)'
    BY <1>2, <1>4, <1>5 DEF Accepted
  <2>2. ~hadElements => Total' = 0 /\ prevElemEnd' = 0 /\ offset <= Len(Inner) /\ Lead
    BY <1>1, <1>2, <1>4 DEF Accepted
  <2>3. Lead => Lead'
    BY <1>1, <1>2 DEF Lead
  <2>4. hadElements' => Total' > 0
    BY <1>1, <1>4 DEF Accepted
  <2>. QED  BY <1>1, <1>2, <1>4, <2>1, <2>2, <2>3, <2>4 DEF Accepted, Fresh
<1>7. Loop'
  <2>1. pc' \in {"one", "many", "send"} => IsWindow(Inner', offset', chunks')
    <3>. SUFFICES ASSUME SplitWindow PROVE IsWindow(Inner', offset', chunks')
      BY <1>1
    <3>1. chunks' = Split(Inner, offset) /\ offset \in Nat
      BY DEF SplitWindow, Loop
    <3>2. IsWindow(Inner, offset, Split(Inner, offset))
      BY <1>2, <3>1, SplitIs, ArrayAssumption
    <3>. QED  BY <1>1, <1>2, <3>1, <3>2
  <2>2. /\ \A i \in 1 .. Len(taskCh') : IsBatch(taskCh'[i])
        /\ \A w \in Workers : Busy(w)' => IsBatch(work'[w])
    BY <1>1 DEF Loop, Busy
  <2>3. errCh' \in Nat /\ (pc' \in {"enter", "window", "one"} => errCh' = 0)
    BY <1>1 DEF Loop
  <2>4. /\ fatal' => pc' \in {"cleanup", "wait", "done"}
        /\ pc' \in {"check", "split", "many", "send", "cleanup", "wait"} => cores' = "many"
    BY <1>1 DEF Loop, SplitWindow
  <2>. QED  BY <1>1, <1>2, <2>1, <2>2, <2>3, <2>4 DEF Loop
<1>8. OkIsComplete'
  BY <1>1 DEF OkIsComplete
<1>. QED  BY <1>6, <1>7, <1>8

\* The loop starts with nothing accepted.
LEMMA StartOk ==
    ASSUME IInv, OkInv, StartOne \/ StartMany
    PROVE  OkInv'
<1>. USE DEF OkInv
<1>1. /\ UNCHANGED <<raw, capacity, cores, itemsFound, prevElemEnd, hadElements, offset, taskCh,
                     dst, fatal, errCh>>
      /\ pc = "enter" /\ pc' \in {"window", "check"} /\ Scanned
      /\ pc' = "check" => cores = "many"
  BY DEF StartOne, StartMany, argVars, scanVars, chanVars, Scanned
<1>2. taskCh = <<>> /\ \A w \in Workers : ~Busy(w)'
  <2>1. taskCh = <<>> /\ \A w \in Workers : work[w] = Unborn
    BY <1>1 DEF IInv, Alone
  <2>2. ~(Unborn.base >= 0) /\ ~(Idle.base >= 0)
    BY DEF Unborn, Idle
  <2>3. \A w \in Workers : work'[w] \in {Unborn, Idle}
    BY <2>1 DEF StartOne, StartMany
  <2>. QED  BY <2>1, <2>2, <2>3 DEF Busy
<1>3. /\ itemsFound = 0 /\ prevElemEnd = 0 /\ ~hadElements /\ offset = 0
      /\ raw \in Seq(Token) /\ Scanned' /\ Scanning'
  BY <1>1 DEF Accepted, Fresh, Loop, Scanned, Scanning
<1>4. Inner' \in Seq(Token) /\ Len(Inner') \in Nat /\ Len(taskCh) = 0
  <2>1. raw # <<>>
    BY <1>1 DEF Scanned
  <2>. QED  BY <1>1, <1>2, <1>3, <2>1 DEF Inner
<1>5. Total' = 0
  BY <1>1, <1>3 DEF Total
<1>6. Exact(0)'
  <2>1. Prefix(0, Total)'
    BY <1>4, <1>5 DEF Prefix
  <2>2. (\A i \in 1 .. Len(taskCh') : Placed(taskCh'[i], 0))
    BY <1>1, <1>4
  <2>3. \A s \in 0 .. (itemsFound' - 1) : dst'[s] = 0 + 2 * s \/ Pending(s)'
    BY <1>1, <1>3
  <2>4. 0 \in Forgiven'
    BY DEF Forgiven
  <2>5. \A w \in Workers : Busy(w)' => Placed(work'[w], 0)
    BY <1>2
  <2>. QED  BY <1>1, <1>3, <2>1, <2>2, <2>3, <2>4, <2>5 DEF Exact
<1>7. Lead'
  BY <1>1, <1>3 DEF Lead
<1>8. Accepted'
  <2>1. \E k \in Forgiven' : Exact(k)'
    <3>1. 0 \in Forgiven'
      BY DEF Forgiven
    <3>. QED  BY <1>6, <3>1
  <2>. QED  BY <1>1, <1>3, <1>4, <1>5, <1>7, <2>1 DEF Accepted, Fresh
<1>9. Loop'
  <2>1. \A i \in 1 .. Len(taskCh') : IsBatch(taskCh'[i])
    BY <1>1, <1>4
  <2>. QED  BY <1>1, <1>2, <1>3, <2>1 DEF Loop
<1>10. OkIsComplete'
  BY <1>1 DEF OkIsComplete
<1>. QED  BY <1>8, <1>9, <1>10

\* What a call that ends keeps.
LEMMA DoneKeeps ==
    ASSUME Loop, Accepted, pc' = "done",
           UNCHANGED <<raw, capacity, cores, itemsFound, prevElemEnd, hadElements, offset,
                       taskCh, work, dst>>,
           pc # "send", errCh' \in Nat, itemsFound \in Nat
    PROVE  Loop' /\ Accepted'
<1>1. ~Scanning'
  BY DEF Scanning
<1>2. Total' = Total
  BY DEF Total
<1>3. Accepted'
  BY <1>1, <1>2 DEF Accepted, Fresh
<1>4. /\ \A i \in 1 .. Len(taskCh') : IsBatch(taskCh'[i])
      /\ \A w \in Workers : Busy(w)' => IsBatch(work'[w])
  BY DEF Loop, Busy
<1>. QED  BY <1>1, <1>3, <1>4 DEF Loop

\* Nobody has a batch any more: what was accepted lies in its slots, or a step has
\* told of the error.
LEMMA AllDone ==
    ASSUME IInv, Counted, Loop, Accepted, Scanning, pc # "send",
           taskCh = <<>>, \A w \in Workers : ~Busy(w), ~fatal, ~(errCh > 0)
    PROVE  \E k \in Forgiven : /\ Prefix(k, itemsFound)
                               /\ hadElements => prevElemEnd = k + 2 * itemsFound - 1
                               /\ \A s \in 0 .. (itemsFound - 1) : dst[s] = k + 2 * s
<1>1. Len(taskCh) = 0
  OBVIOUS
<1>2. ~Doomed
  BY <1>1 DEF Doomed
<1>3. PICK k \in Forgiven : Exact(k)
  BY <1>2 DEF Accepted
<1>4. Total = itemsFound
  BY DEF Total, IInv, Shape
<1>5. \A s : ~Pending(s)
  BY <1>1 DEF Pending
<1>. QED  BY <1>3, <1>4, <1>5 DEF Exact

\* The call ends before the loop, or with one processor.
LEMMA EndOk ==
    ASSUME IInv, Counted, OkInv, Refuse \/ ReturnNothing \/ OneEnd \/ OneReject
    PROVE  OkInv'
<1>. USE DEF OkInv
<1>1. /\ UNCHANGED <<raw, capacity, cores, itemsFound, prevElemEnd, hadElements, offset, taskCh,
                     work, dst, errCh>>
      /\ pc' = "done" /\ pc \in {"enter", "window", "one"}
  BY DEF Refuse, ReturnNothing, OneEnd, OneReject, argVars, scanVars, chanVars
<1>2. itemsFound \in Nat /\ errCh = 0
  BY <1>1 DEF IInv, Shape, Loop
<1>3. Loop' /\ Accepted'
  BY <1>1, <1>2, DoneKeeps DEF Loop
<1>4. OkIsComplete'
  <2>1. CASE Refuse \/ OneReject
    BY <2>1 DEF Refuse, OneReject, OkIsComplete
  <2>2. CASE ReturnNothing
    <3>1. ~Scanned'
      BY <1>1, <2>2 DEF ReturnNothing, Scanned
    <3>. QED  BY <3>1 DEF OkIsComplete
  <2>3. CASE OneEnd
    <3>1. fatal' = fatal /\ pc \in {"window", "one"}
      BY <2>3 DEF OneEnd
    <3>2. ~fatal /\ Scanning /\ cores = "one"
      BY <3>1 DEF Loop, Scanning, Counted
    <3>3. taskCh = <<>> /\ \A w \in Workers : ~Busy(w)
      BY <3>1 DEF IInv, Alone, Busy, Unborn
    <3>4. PICK k \in Forgiven : /\ Prefix(k, itemsFound)
                                /\ \A s \in 0 .. (itemsFound - 1) : dst[s] = k + 2 * s
      BY <1>2, <3>1, <3>2, <3>3, AllDone
    <3>5. k + 2 * itemsFound - 1 <= Len(Inner)
      BY <3>4 DEF Prefix
    <3>6. Inner' = Inner /\ k \in Forgiven'
      BY <1>1 DEF Inner, Forgiven
    <3>. QED  BY <1>1, <3>2, <3>4, <3>5, <3>6 DEF OkIsComplete
  <2>. QED  BY <2>1, <2>2, <2>3
<1>. QED  BY <1>3, <1>4

\* The call returns when the workers are gone.
LEMMA ReturnOk ==
    ASSUME IInv, Counted, OkInv, Return
    PROVE  OkInv'
<1>. USE DEF OkInv
<1>1. /\ UNCHANGED <<raw, capacity, cores, itemsFound, prevElemEnd, hadElements, offset, taskCh,
                     work, dst>>
      /\ pc' = "done" /\ pc = "wait" /\ Waited
      /\ errCh' = IF errCh > 0 THEN errCh - 1 ELSE 0
      /\ ~fatal' => ~fatal /\ ClosedAt(Inner, prevElemEnd) /\ ~(errCh > 0)
  BY DEF Return, argVars, scanVars, LateError
<1>2. itemsFound \in Nat /\ errCh' \in Nat
  BY <1>1 DEF IInv, Shape, Loop
<1>3. Loop' /\ Accepted'
  BY <1>1, <1>2, DoneKeeps
<1>4. OkIsComplete'
  <2>. SUFFICES ASSUME ~fatal'
                PROVE  \E k \in Forgiven :
                         /\ Inner = [p \in 1 .. k |-> "comma"] \o GoodArray(itemsFound)
                         /\ \A s \in 0 .. (itemsFound - 1) : dst[s] = k + 2 * s
    <3>1. Inner' = Inner /\ Forgiven' = Forgiven /\ cores' = "many"
      BY <1>1 DEF Inner, Forgiven, Loop
    <3>. QED  BY <1>1, <3>1 DEF OkIsComplete
  <2>1. Scanning /\ Inner \in Seq(Token) /\ prevElemEnd \in Nat
    <3>1. Scanning
      BY <1>1 DEF Scanning
    <3>. QED  BY <3>1, InnerTyped DEF Loop
  <2>2. taskCh = <<>> /\ \A w \in Workers : ~Busy(w)
    <3>1. \A w \in Workers : work[w] = Gone
      BY <1>1 DEF Waited
    <3>2. taskCh = <<>>
      BY <3>1, ArrayAssumption DEF Counted
    <3>3. ~(Gone.base >= 0)
      BY DEF Gone
    <3>. QED  BY <3>1, <3>2, <3>3 DEF Busy
  <2>3. PICK k \in Forgiven : /\ Prefix(k, itemsFound)
                              /\ hadElements => prevElemEnd = k + 2 * itemsFound - 1
                              /\ \A s \in 0 .. (itemsFound - 1) : dst[s] = k + 2 * s
    BY <1>1, <2>1, <2>2, AllDone
  <2>4. k \in Nat
    BY <2>3 DEF Prefix
  <2>5. Total = itemsFound
    BY <1>1, <1>2 DEF Total
  <2>6. CASE itemsFound > 0
    <3>1. hadElements
      BY <2>5, <2>6 DEF Accepted, Loop
    <3>2. ClosedAt(Inner, k + 2 * itemsFound - 1)
      BY <1>1, <2>3, <3>1
    <3>3. itemsFound \in Nat \ {0}
      BY <1>2, <2>6
    <3>4. Inner = [p \in 1 .. k |-> "comma"] \o GoodArray(itemsFound)
      BY <2>1, <2>3, <2>4, <3>2, <3>3, WholeIs
    <3>. QED  BY <2>3, <3>4
  <2>7. CASE itemsFound = 0
    <3>1. ~hadElements /\ prevElemEnd = 0
      BY <2>5, <2>7 DEF Accepted, Loop
    <3>0. ClosedAt(Inner, 0) /\ 0 \in Nat
      BY <1>1, <3>1
    <3>2. Len(Inner) = 0 + 1 /\ Inner[0 + 1] = "rbracket"
      BY <2>1, <3>0, ClosedAtIs
    <3>. DEFINE G == GoodArray(0)
                C == [p \in 1 .. 0 |-> "comma"]
    <3>3. G \in Seq(Token) /\ Len(G) = 1 /\ G[1] = "rbracket"
      BY GoodArrayIs
    <3>4. C = <<>>
      OBVIOUS
    <3>. HIDE DEF G, C
    <3>5. <<>> \o G = G
      BY <3>3
    <3>6. Inner = G
      BY <2>1, <3>2, <3>3
    <3>7. Inner = C \o G
      BY <3>4, <3>5, <3>6
    <3>8. 0 \in Forgiven /\ \A s \in 0 .. (itemsFound - 1) : FALSE
      BY <2>7 DEF Forgiven
    <3>. QED  BY <2>7, <3>7, <3>8 DEF C, G
  <2>8. itemsFound > 0 \/ itemsFound = 0
    BY <1>2
  <2>. QED  BY <2>6, <2>7, <2>8
<1>. QED  BY <1>3, <1>4

\* One processor takes in a window, or finds an element that fails.
LEMMA OneWindowOk ==
    ASSUME IInv, Counted, OkInv, OneWindow
    PROVE  OkInv'
<1>. USE DEF OkInv
<1>1. /\ UNCHANGED <<raw, capacity, cores, taskCh, work, errCh, chunks>>
      /\ pc = "one" /\ pc' \in {"window", "done"}
      /\ Advances /\ GapsValid /\ Fits /\ (Valid # <<>> \/ ClosedAt(Inner, offset))
      /\ dst' = [s \in DOMAIN dst |->
                 CASE s - itemsFound \in 0 .. (Good - 1) -> Valid[s - itemsFound + 1].start
                   [] s = itemsFound + Good /\ Good < Len(Valid) -> Torn
                   [] OTHER -> dst[s]]
      /\ IF Good < Len(Valid)
         THEN fatal' = TRUE /\ pc' = "done" /\ UNCHANGED <<itemsFound, prevElemEnd, hadElements,
                                                           offset>>
         ELSE /\ itemsFound' = itemsFound + Len(Valid) /\ offset' = StepEnd
              /\ prevElemEnd' = IF Valid = <<>> THEN prevElemEnd ELSE Valid[Len(Valid)].end
              /\ hadElements' = (hadElements \/ Valid # <<>>)
              /\ pc' = "window" /\ UNCHANGED fatal
  BY DEF OneWindow, argVars, bufVars, chanVars, scanVars
<1>2. /\ Scanning /\ Scanned /\ (Scanned' <=> Scanned) /\ Inner' = Inner /\ Inner \in Seq(Token)
      /\ Forgiven' = Forgiven /\ IsWindow(Inner, offset, chunks) /\ chunks \in Seq(Chunk)
      /\ itemsFound \in Nat /\ offset \in Nat /\ errCh = 0 /\ ~fatal
  <2>1. Scanning /\ Scanned /\ errCh = 0 /\ ~fatal /\ IsWindow(Inner, offset, chunks) /\ offset \in Nat
    BY <1>1 DEF Scanning, Loop
  <2>2. Inner \in Seq(Token) /\ chunks \in Seq(Chunk)
    BY <1>1, <2>1, InnerTyped, ValidIs
  <2>3. itemsFound \in Nat
    BY DEF IInv, Shape
  <2>. QED  BY <1>1, <2>1, <2>2, <2>3 DEF Scanned, Inner, Forgiven
<1>3. /\ Valid \in Seq(Chunk) /\ Len(Valid) \in Nat /\ Len(Inner) \in Nat
      /\ \A i \in 1 .. Len(Valid) : Valid[i] \in Chunk /\ Valid[i].end <= Len(Inner) - 1
  <2>1. Valid \in Seq(Chunk) /\ Len(Inner) \in Nat
    BY <1>1, ValidIs
  <2>. QED  BY <1>1, <2>1, ValidIs
<1>4. /\ Good \in 0 .. Len(Valid)
      /\ Good >= Len(Valid) => \A i \in 1 .. Len(Valid) : Decodes(Valid[i])
  BY <1>3, GoodIsAll
<1>5. Valid # <<>>
  <2>. SUFFICES ASSUME ClosedAt(Inner, offset) PROVE FALSE
    BY <1>1
  <2>1. Len(Inner) = offset + 1
    BY <1>2, ClosedAtIs
  <2>2. Len(chunks) \in 1 .. Len(chunks)
    BY <1>1, <1>2 DEF Advances
  <2>3. chunks[Len(chunks)].end \in offset .. (Len(Inner) - 1)
    BY <1>2, <2>2 DEF IsWindow, IsPieces
  <2>. QED  BY <1>1, <1>2, <2>1, <2>3 DEF Advances
<1>6. /\ dst' \in [0 .. (capacity' - 1) -> Int]
      /\ \A s \in 0 .. (capacity - 1) :
           Good >= Len(Valid) =>
             dst'[s] = IF s - itemsFound \in 0 .. (Len(Valid) - 1) THEN Valid[s - itemsFound + 1].start
                       ELSE dst[s]
  <2>1. dst \in [0 .. (capacity - 1) -> Int] /\ DOMAIN dst = 0 .. (capacity - 1)
    BY DEF Loop
  <2>2. ASSUME NEW s \in 0 .. (capacity - 1), s - itemsFound \in 0 .. (Good - 1)
        PROVE  Valid[s - itemsFound + 1].start \in Int
    <3>1. s - itemsFound + 1 \in 1 .. Len(Valid)
      BY <1>2, <1>3, <1>4, <2>2
    <3>. QED  BY <1>3, <3>1 DEF Chunk
  <2>3. dst' \in [0 .. (capacity - 1) -> Int]
    BY <1>1, <2>1, <2>2 DEF Torn
  <2>4. ASSUME NEW s \in 0 .. (capacity - 1), Good >= Len(Valid)
        PROVE  dst'[s] = IF s - itemsFound \in 0 .. (Len(Valid) - 1) THEN Valid[s - itemsFound + 1].start
                         ELSE dst[s]
    <3>1. Good = Len(Valid) /\ ~(Good < Len(Valid))
      BY <1>3, <1>4, <2>4
    <3>. QED  BY <1>1, <2>1, <3>1
  <2>. QED  BY <1>1, <2>3, <2>4
<1>7. /\ taskCh = <<>> /\ Len(taskCh) = 0 /\ \A w \in Workers : ~Busy(w) /\ ~Busy(w)'
  BY <1>1 DEF IInv, Alone, Busy, Unborn
<1>8. CASE Good < Len(Valid)
  <2>1. /\ fatal' /\ pc' = "done" /\ UNCHANGED <<itemsFound, prevElemEnd, hadElements, offset>>
    BY <1>1, <1>8
  <2>2. ~Scanning' /\ Total' = Total
    BY <1>1, <2>1 DEF Scanning, Total
  <2>3. Accepted'
    BY <2>1, <2>2 DEF Accepted, Fresh
  <2>4. Loop'
    BY <1>1, <1>2, <1>6, <1>7, <2>1, <2>2 DEF Loop
  <2>. QED  BY <2>1, <2>3, <2>4 DEF OkIsComplete
<1>9. CASE ~(Good < Len(Valid))
  <2>1. /\ itemsFound' = itemsFound + Len(Valid) /\ offset' = StepEnd
        /\ prevElemEnd' = Valid[Len(Valid)].end
        /\ hadElements' = TRUE /\ pc' = "window" /\ UNCHANGED fatal
    BY <1>1, <1>5, <1>9
  <2>2. Good >= Len(Valid) /\ \A i \in 1 .. Len(Valid) : Decodes(Valid[i])
    BY <1>3, <1>4, <1>9
  <2>3. PICK k \in Forgiven : Exact(k)
    <3>1. ~Doomed
      BY <1>1, <1>2, <1>7 DEF Doomed
    <3>. QED  BY <1>2, <3>1 DEF Accepted
  <2>4. PICK n \in Forgiven :
             /\ hadElements => n = k
             /\ ~hadElements => itemsFound = 0
             /\ Prefix(n, itemsFound + Len(Valid))
             /\ Valid[Len(Valid)].end = n + 2 * (itemsFound + Len(Valid)) - 1
             /\ \A i \in 1 .. Len(Valid) : Valid[i] = Elem(n, (itemsFound + i) - 1)
    BY <1>1, <1>5, <2>2, <2>3, Accept
  <2>5. n \in Nat
    BY <2>4 DEF Prefix
  <2>6. ASSUME NEW s \in 0 .. (itemsFound' - 1) PROVE dst'[s] = n + 2 * s
    <3>1. s \in 0 .. (capacity - 1)
      <4>1. itemsFound + Len(Valid) <= capacity /\ capacity \in Nat
        BY <1>1 DEF Fits, IInv, Shape
      <4>. QED  BY <1>2, <1>3, <2>1, <4>1
    <3>2. CASE s < itemsFound
      <4>1. ~(s - itemsFound \in 0 .. (Len(Valid) - 1)) /\ s \in 0 .. (itemsFound - 1)
        BY <1>2, <3>2
      <4>2. hadElements
        BY <1>2, <2>4, <3>2
      <4>3. ~Pending(s)
        BY <1>7 DEF Pending
      <4>4. dst[s] = n + 2 * s
        BY <2>3, <2>4, <4>1, <4>2, <4>3 DEF Exact
      <4>. QED  BY <1>6, <2>2, <3>1, <4>1, <4>4
    <3>3. CASE ~(s < itemsFound)
      <4>. DEFINE i == s - itemsFound + 1
      <4>1. i \in 1 .. Len(Valid) /\ (itemsFound + i) - 1 = s /\ s - itemsFound \in 0 .. (Len(Valid) - 1)
        BY <1>2, <1>3, <2>1, <3>3
      <4>2. dst'[s] = Valid[i].start
        BY <1>6, <2>2, <3>1, <4>1
      <4>. HIDE DEF i
      <4>3. Valid[i] = Elem(n, s)
        BY <2>4, <4>1
      <4>. QED  BY <4>2, <4>3 DEF Elem
    <3>. QED  BY <3>2, <3>3
  <2>7. Total' = itemsFound' /\ itemsFound' \in Nat \ {0}
    <3>1. itemsFound' \in Nat \ {0}
      BY <1>2, <1>3, <1>5, <2>1
    <3>. QED  BY <2>1, <3>1 DEF Total
  <2>8. Exact(n)'
    <3>1. Prefix(n, Total)'
      BY <1>2, <2>1, <2>4, <2>7 DEF Prefix
    <3>2. (hadElements => prevElemEnd = n + 2 * Total - 1)'
      BY <2>1, <2>4, <2>7
    <3>3. \A i \in 1 .. Len(taskCh') : Placed(taskCh'[i], n)
      BY <1>1, <1>7
    <3>4. \A w \in Workers : Busy(w)' => Placed(work'[w], n)
      BY <1>7
    <3>. QED  BY <1>2, <2>1, <2>6, <3>1, <3>2, <3>3, <3>4 DEF Exact
  <2>9. Accepted'
    BY <1>2, <2>1, <2>7, <2>8 DEF Accepted, Fresh
  <2>10. Loop'
    <3>1. prevElemEnd' \in Nat /\ offset' \in Nat
      <4>1. Len(chunks) \in 1 .. Len(chunks) /\ Len(Valid) \in 1 .. Len(Valid)
        BY <1>1, <1>2, <1>3, <1>5 DEF Advances
      <4>2. chunks[Len(chunks)] \in Chunk /\ Valid[Len(Valid)] \in Chunk
        BY <1>2, <1>3, <4>1
      <4>. QED  BY <2>1, <4>2 DEF StepEnd, Chunk
    <3>2. Scanning' /\ Scanned' /\ raw \in Seq(Token)
      BY <1>2, <2>1 DEF Scanning, Loop
    <3>. QED  BY <1>1, <1>2, <1>6, <1>7, <2>1, <3>1, <3>2 DEF Loop
  <2>. QED  BY <2>1, <2>9, <2>10 DEF OkIsComplete
<1>. QED  BY <1>8, <1>9

\* A window of commas moves the scan a whole window on, or to where it stands still.
LEMMA LeadGrows ==
    ASSUME Inner \in Seq(Token), offset \in Nat, IsWindow(Inner, offset, chunks), Advances,
           Valid = <<>>, Lead, NEW e, e = StepEnd
    PROVE  /\ e \in Nat /\ e <= Len(Inner)
           /\ \/ Stuck(Inner, e)
              \/ /\ \E j \in 1 .. e : e = j * (Batch - 1)
                 /\ \A q \in 1 .. e : Inner[q] = "comma"
<1>0. Batch \in Nat /\ Batch > 1
  BY ArrayAssumption
<1>1. chunks # <<>> /\ e # offset /\ e = chunks[Len(chunks)].end /\ Len(chunks) \in Nat \ {0}
  BY DEF Advances, StepEnd, IsWindow, IsPieces
<1>2. /\ e = offset + Len(chunks) - 1 /\ e < Len(Inner)
      /\ \A q \in (offset + 1) .. e : Inner[q] = "comma"
      /\ Len(chunks) = Batch \/ Stuck(Inner, e)
  BY <1>0, <1>1, EmptyWindow DEF Valid
<1>3. e \in Nat /\ e <= Len(Inner)
  BY <1>1, <1>2
<1>4. ~Stuck(Inner, offset)
  BY <1>1, StuckStays
<1>5. ASSUME Len(chunks) = Batch
      PROVE  /\ \E j \in 1 .. e : e = j * (Batch - 1)
             /\ \A q \in 1 .. e : Inner[q] = "comma"
  <2>1. e = offset + (Batch - 1)
    BY <1>0, <1>2, <1>5
  <2>2. CASE offset = 0
    <3>1. e = 1 * (Batch - 1) /\ 1 \in 1 .. e
      BY <1>0, <2>1, <2>2
    <3>2. \A q \in 1 .. e : Inner[q] = "comma"
      BY <1>2, <2>2
    <3>. QED  BY <3>1, <3>2
  <2>3. CASE offset # 0
    <3>1. PICK j \in 1 .. offset : offset = j * (Batch - 1)
      BY <1>4, <2>3 DEF Lead
    <3>2. \A q \in 1 .. offset : Inner[q] = "comma"
      BY <1>4, <2>3 DEF Lead
    <3>3. (j + 1) * (Batch - 1) = j * (Batch - 1) + (Batch - 1)
      BY <1>0, <3>1
    <3>4. e = (j + 1) * (Batch - 1)
      BY <2>1, <3>1, <3>3
    <3>5. j + 1 \in 1 .. e
      BY <1>0, <2>1, <3>1
    <3>6. \A q \in 1 .. e : Inner[q] = "comma"
      BY <1>2, <3>2
    <3>. QED  BY <3>4, <3>5, <3>6
  <2>. QED  BY <2>2, <2>3
<1>. QED  BY <1>2, <1>3, <1>5

\* A window without an element is passed over.
LEMMA ScanEmptyOk ==
    ASSUME IInv, OkInv, ScanEmpty
    PROVE  OkInv'
<1>. USE DEF OkInv
<1>1. /\ UNCHANGED <<raw, capacity, cores, itemsFound, prevElemEnd, hadElements, taskCh, work,
                     dst, fatal, errCh>>
      /\ pc = "many" /\ pc' = "check" /\ Advances /\ Valid = <<>> /\ offset' = StepEnd
  BY DEF ScanEmpty, argVars, chanVars
<1>2. /\ Scanning /\ Scanning' /\ Scanned /\ Scanned' /\ Inner' = Inner /\ Inner \in Seq(Token)
      /\ IsWindow(Inner, offset, chunks) /\ offset \in Nat /\ itemsFound \in Nat
  <2>1. Scanning /\ Scanning' /\ Scanned
    BY <1>1 DEF Scanning, Loop
  <2>. QED  BY <1>1, <2>1, InnerTyped DEF Scanned, Inner, Loop, IInv, Shape
<1>3. /\ Total' = Total /\ Total = itemsFound /\ Forgiven' = Forgiven
      /\ \A k \in Forgiven : Exact(k) => Exact(k)'
      /\ Doomed /\ ~fatal /\ ~(errCh > 0) => Doomed'
  BY <1>1, <1>2, StillExact
<1>4. Doomed => Doomed'
  BY <1>1, <1>3 DEF Doomed
<1>5. offset' \in Nat
  <2>1. Len(chunks) \in 1 .. Len(chunks) /\ Len(Inner) \in Nat
    BY <1>1, <1>2 DEF Advances, IsWindow, IsPieces
  <2>2. chunks[Len(chunks)].end \in offset .. (Len(Inner) - 1)
    BY <1>2, <2>1 DEF IsWindow, IsPieces
  <2>. QED  BY <1>1, <1>2, <2>1, <2>2 DEF StepEnd
<1>6. ~hadElements => offset' <= Len(Inner') /\ Lead'
  <2>. SUFFICES ASSUME ~hadElements PROVE offset' <= Len(Inner') /\ Lead'
    OBVIOUS
  <2>1. Lead
    BY <1>2 DEF Accepted
  <2>. DEFINE e == StepEnd
  <2>2. /\ e <= Len(Inner)
        /\ \/ Stuck(Inner, e)
           \/ /\ \E j \in 1 .. e : e = j * (Batch - 1)
              /\ \A q \in 1 .. e : Inner[q] = "comma"
    BY <1>1, <1>2, <2>1, LeadGrows
  <2>. QED  BY <1>1, <1>2, <2>2 DEF Lead
<1>7. Accepted'
  <2>1. Doomed' \/ \E k \in Forgiven' : Exact(k)'
    BY <1>2, <1>3, <1>4 DEF Accepted
  <2>. QED  BY <1>1, <1>2, <1>3, <1>6, <2>1 DEF Accepted, Fresh
<1>8. Loop'
  <2>1. /\ \A i \in 1 .. Len(taskCh') : IsBatch(taskCh'[i])
        /\ \A w \in Workers : Busy(w)' => IsBatch(work'[w])
    BY <1>1 DEF Loop, Busy
  <2>. QED  BY <1>1, <1>2, <1>5, <2>1 DEF Loop
<1>. QED  BY <1>1, <1>7, <1>8 DEF OkIsComplete

\* A batch is made up.
LEMMA ScanBatchOk ==
    ASSUME IInv, OkInv, ScanBatch
    PROVE  OkInv'
<1>. USE DEF OkInv
<1>1. /\ UNCHANGED <<raw, capacity, cores, itemsFound, offset, chunks, taskCh, work, dst, fatal,
                     errCh>>
      /\ pc = "many" /\ pc' = "send" /\ Advances /\ Valid # <<>> /\ GapsValid
      /\ prevElemEnd' = Valid[Len(Valid)].end /\ hadElements' = TRUE
  BY DEF ScanBatch, argVars, bufVars, chanVars
<1>2. /\ Scanning /\ Scanning' /\ Scanned /\ Scanned' /\ Inner' = Inner /\ Inner \in Seq(Token)
      /\ itemsFound \in Nat /\ Valid' = Valid /\ Task' = Task /\ Forgiven' = Forgiven
      /\ IsWindow(Inner, offset, chunks)
  <2>1. Scanning /\ Scanning' /\ Scanned
    BY <1>1 DEF Scanning, Loop
  <2>. QED  BY <1>1, <2>1, InnerTyped DEF Scanned, Inner, Loop, IInv, Shape, Valid, Task, Forgiven
<1>3. Valid \in Seq(Chunk) /\ Len(Valid) \in Nat \ {0} /\ Valid[Len(Valid)].end \in Nat
  <2>1. Valid \in Seq(Chunk)
    BY <1>1, ValidIs
  <2>2. Len(Valid) \in Nat \ {0} /\ Len(Valid) \in 1 .. Len(Valid)
    BY <1>1, <2>1
  <2>3. Valid[Len(Valid)] \in Chunk
    BY <2>1, <2>2
  <2>. QED  BY <2>1, <2>2, <2>3 DEF Chunk
<1>4. Total = itemsFound /\ Total' = itemsFound + Len(Valid)
  <2>. HIDE DEF Valid
  <2>. QED  BY <1>1, <1>2 DEF Total
<1>5. Task.chunks = Valid /\ Task.at = 1 /\ Task.base = itemsFound
  BY DEF Task
<1>6. Doomed' \/ \E k \in Forgiven' : Exact(k)'
  <2>1. CASE \E i \in 1 .. Len(Valid) : ~Decodes(Valid[i])
    <3>1. Spoilt(Task)
      BY <1>5, <2>1 DEF Spoilt
    <3>2. Spoilt(Task)'
      BY <1>2, <3>1 DEF Spoilt, Decodes
    <3>. QED  BY <1>1, <3>2 DEF Doomed
  <2>2. CASE Doomed
    <3>1. \A b : Spoilt(b) => Spoilt(b)'
      BY <1>2 DEF Spoilt, Decodes
    <3>2. CASE \E i \in 1 .. Len(taskCh) : Spoilt(taskCh[i])
      <4>1. \E i \in 1 .. Len(taskCh') : Spoilt(taskCh[i])'
        BY <1>1, <3>1, <3>2 DEF Spoilt, Decodes, Inner
      <4>. QED  BY <4>1 DEF Doomed
    <3>3. CASE \E w \in Workers : Busy(w) /\ Spoilt(work[w])
      <4>1. \E w \in Workers : Busy(w)' /\ Spoilt(work[w])'
        BY <1>1, <3>1, <3>3 DEF Spoilt, Decodes, Inner, Busy
      <4>. QED  BY <4>1 DEF Doomed
    <3>4. CASE fatal \/ errCh > 0
      BY <1>1, <3>4 DEF Doomed
    <3>. QED  BY <1>1, <2>2, <3>2, <3>3, <3>4 DEF Doomed
  <2>3. CASE ~Doomed /\ \A i \in 1 .. Len(Valid) : Decodes(Valid[i])
    <3>1. PICK k \in Forgiven : Exact(k)
      BY <1>2, <2>3 DEF Accepted
    <3>2. PICK n \in Forgiven :
             /\ hadElements => n = k
             /\ ~hadElements => itemsFound = 0
             /\ Prefix(n, itemsFound + Len(Valid))
             /\ Valid[Len(Valid)].end = n + 2 * (itemsFound + Len(Valid)) - 1
             /\ \A i \in 1 .. Len(Valid) : Valid[i] = Elem(n, (itemsFound + i) - 1)
      BY <1>1, <2>3, <3>1, Accept
    <3>3. Prefix(n, Total)'
      BY <1>2, <1>4, <3>2 DEF Prefix
    <3>4. Placed(Task, n)'
      BY <1>2, <1>5, <3>2 DEF Placed
    <3>5. ASSUME NEW b, Placed(b, k), Within(b), IsBatch(b) PROVE Placed(b, n)
      <4>1. CASE hadElements
        BY <3>2, <3>5, <4>1
      <4>2. CASE ~hadElements
        <5>1. b.base + Len(b.chunks) \in b.base .. 0 /\ b.base \in Nat /\ Len(b.chunks) \in Nat
          BY <3>2, <3>5, <4>2 DEF Within, End, IsBatch
        <5>2. Len(b.chunks) = 0
          BY <5>1
        <5>. QED  BY <5>2 DEF Placed
      <4>. QED  BY <4>1, <4>2
    <3>6. ASSUME NEW i \in 1 .. Len(taskCh') PROVE Placed(taskCh'[i], n)
      <4>1. Placed(taskCh[i], k) /\ Within(taskCh[i]) /\ IsBatch(taskCh[i])
        BY <1>1, <3>1 DEF Exact, IInv, Ordered, Loop
      <4>. QED  BY <1>1, <3>5, <4>1
    <3>7. ASSUME NEW w \in Workers, Busy(w)' PROVE Placed(work'[w], n)
      <4>1. Placed(work[w], k) /\ Within(work[w]) /\ IsBatch(work[w])
        BY <1>1, <3>1, <3>7 DEF Exact, IInv, Ordered, Loop, Busy
      <4>. QED  BY <1>1, <3>5, <4>1
    <3>8. ASSUME NEW s \in 0 .. (itemsFound' - 1) PROVE dst'[s] = n + 2 * s \/ Pending(s)'
      <4>1. hadElements /\ n = k
        BY <1>1, <1>2, <3>2
      <4>2. dst[s] = k + 2 * s \/ Pending(s)
        BY <1>1, <3>1 DEF Exact
      <4>3. Pending(s) => Pending(s)'
        BY <1>1 DEF Pending, Busy
      <4>. QED  BY <1>1, <4>1, <4>2, <4>3
    <3>9. Exact(n)'
      BY <1>1, <1>2, <1>4, <3>2, <3>3, <3>4, <3>6, <3>7, <3>8 DEF Exact
    <3>. QED  BY <1>2, <3>9
  <2>. QED  BY <2>1, <2>2, <2>3
<1>7. Accepted'
  <2>1. Total' > 0
    BY <1>2, <1>3, <1>4
  <2>. QED  BY <1>1, <1>6, <2>1 DEF Accepted, Fresh
<1>8. Loop'
  <2>1. /\ \A i \in 1 .. Len(taskCh') : IsBatch(taskCh'[i])
        /\ \A w \in Workers : Busy(w)' => IsBatch(work'[w])
    BY <1>1 DEF Loop, Busy
  <2>. QED  BY <1>1, <1>2, <1>3, <2>1 DEF Loop
<1>. QED  BY <1>1, <1>7, <1>8 DEF OkIsComplete

\* The batch goes to the queue.
LEMMA SendOk ==
    ASSUME IInv, OkInv, Send
    PROVE  OkInv'
<1>. USE DEF OkInv
<1>1. /\ UNCHANGED <<raw, capacity, cores, prevElemEnd, hadElements, chunks, work, dst, fatal,
                     errCh>>
      /\ pc = "send" /\ pc' = "check"
      /\ taskCh' = Append(taskCh, Task)
      /\ itemsFound' = itemsFound + Len(Valid) /\ offset' = StepEnd
  BY DEF Send, argVars, bufVars
<1>2. /\ Scanning /\ Scanning' /\ Scanned /\ Scanned' /\ Inner' = Inner /\ Inner \in Seq(Token)
      /\ itemsFound \in Nat /\ Forgiven' = Forgiven
      /\ Valid \in Seq(Chunk) /\ Len(Valid) \in Nat
  <2>1. Scanning /\ Scanning' /\ Scanned
    BY <1>1 DEF Scanning, Loop
  <2>2. Valid \in Seq(Chunk)
    BY <1>1, ValidIs
  <2>. QED  BY <1>1, <2>1, <2>2, InnerTyped DEF Scanned, Inner, IInv, Shape, Forgiven
<1>3. Total' = Total /\ Total = itemsFound'
  <2>1. itemsFound' \in Nat
    BY <1>1, <1>2
  <2>. QED  BY <1>1, <2>1 DEF Total
<1>4. PICK S : taskCh \in Seq(S)
  BY DEF IInv, Shape
<1>5. /\ Len(taskCh) \in Nat /\ Len(taskCh') = Len(taskCh) + 1
      /\ \A i \in 1 .. Len(taskCh) : taskCh'[i] = taskCh[i]
      /\ taskCh'[Len(taskCh) + 1] = Task
  <2>1. taskCh \in Seq(S \cup {Task})
    BY <1>4
  <2>. QED  BY <1>1, <2>1
<1>6. \A i \in 1 .. Len(taskCh') : i \in 1 .. Len(taskCh) \/ i = Len(taskCh) + 1
  BY <1>5
<1>7. /\ \A i \in 1 .. Len(taskCh) : i \in 1 .. Len(taskCh')
      /\ Len(taskCh) + 1 \in 1 .. Len(taskCh')
  BY <1>5
<1>8. Task.chunks = Valid /\ Task.at = 1 /\ Task.base = itemsFound
  BY DEF Task
<1>9. ASSUME Doomed PROVE Doomed'
  <2>1. CASE fatal \/ errCh > 0
    BY <1>1, <2>1 DEF Doomed
  <2>2. CASE \E i \in 1 .. Len(taskCh) : Spoilt(taskCh[i])
    <3>1. PICK i \in 1 .. Len(taskCh) : Spoilt(taskCh[i])
      BY <2>2
    <3>2. i \in 1 .. Len(taskCh') /\ taskCh'[i] = taskCh[i]
      BY <1>5, <1>7
    <3>3. Spoilt(taskCh'[i])
      BY <3>1, <3>2
    <3>. QED  BY <1>2, <3>2, <3>3 DEF Doomed, Spoilt, Decodes
  <2>3. CASE \E w \in Workers : Busy(w) /\ Spoilt(work[w])
    BY <1>1, <1>2, <2>3 DEF Doomed, Spoilt, Decodes, Busy
  <2>4. CASE Spoilt(Task)
    <3>1. Spoilt(taskCh'[Len(taskCh) + 1])
      BY <1>5, <2>4
    <3>. QED  BY <1>2, <1>7, <3>1 DEF Doomed, Spoilt, Decodes
  <2>. QED  BY <1>9, <2>1, <2>2, <2>3, <2>4 DEF Doomed
<1>10. ASSUME NEW k \in Forgiven, Exact(k) PROVE Exact(k)'
  <2>1. Prefix(k, Total)'
    BY <1>2, <1>3, <1>10 DEF Exact, Prefix
  <2>2. ASSUME NEW i \in 1 .. Len(taskCh') PROVE Placed(taskCh'[i], k)
    BY <1>1, <1>5, <1>6, <1>10 DEF Exact
  <2>3. \A w \in Workers : Busy(w)' => Placed(work'[w], k)
    BY <1>1, <1>10 DEF Exact, Busy
  <2>4. ASSUME NEW s \in 0 .. (itemsFound' - 1) PROVE dst'[s] = k + 2 * s \/ Pending(s)'
    <3>1. CASE s < itemsFound
      <4>1. dst[s] = k + 2 * s \/ Pending(s)
        BY <1>2, <1>10, <3>1 DEF Exact
      <4>2. Pending(s) => Pending(s)'
        <5>1. ASSUME NEW i \in 1 .. Len(taskCh), s \in Left(taskCh[i])
              PROVE  \E j \in 1 .. Len(taskCh') : s \in Left(taskCh'[j])
          BY <1>5, <1>7, <5>1
        <5>. QED  BY <1>1, <5>1 DEF Pending, Busy
      <4>. QED  BY <1>1, <4>1, <4>2
    <3>2. CASE ~(s < itemsFound)
      <4>1. s \in Left(Task)
        BY <1>1, <1>2, <1>8, <3>2 DEF Left, End
      <4>2. s \in Left(taskCh'[Len(taskCh) + 1])
        BY <1>5, <4>1
      <4>. QED  BY <1>7, <4>2 DEF Pending
    <3>. QED  BY <3>1, <3>2
  <2>. QED  BY <1>1, <1>2, <1>3, <1>10, <2>1, <2>2, <2>3, <2>4 DEF Exact
<1>11. Accepted'
  <2>1. Doomed' \/ \E k \in Forgiven' : Exact(k)'
    BY <1>2, <1>9, <1>10 DEF Accepted
  <2>2. hadElements
    BY <1>1 DEF Loop
  <2>. QED  BY <1>1, <1>2, <1>3, <2>1, <2>2 DEF Accepted, Fresh
<1>12. Loop'
  <2>1. /\ \A i \in 1 .. Len(taskCh') : IsBatch(taskCh'[i])
        /\ \A w \in Workers : Busy(w)' => IsBatch(work'[w])
    BY <1>1, <1>2, <1>5, <1>6, <1>8 DEF Loop, Busy, IsBatch
  <2>2. offset' \in Nat
    <3>0. chunks \in Seq(Chunk) /\ Valid # <<>>
      BY <1>1, ValidIs DEF Loop
    <3>1. Len(chunks) \in 1 .. Len(chunks)
      <4>1. PICK at : IsFilled(chunks, Valid, at)
        BY <3>0, FilledIs DEF Valid
      <4>2. 1 \in 1 .. Len(Valid)
        BY <1>2, <3>0
      <4>3. at[1] \in 1 .. Len(chunks)
        BY <4>1, <4>2 DEF IsFilled
      <4>. QED  BY <3>0, <4>3
    <3>2. chunks[Len(chunks)] \in Chunk
      BY <3>0, <3>1
    <3>. QED  BY <1>1, <3>2 DEF StepEnd, Chunk
  <2>. QED  BY <1>1, <1>2, <2>1, <2>2 DEF Loop
<1>. QED  BY <1>1, <1>11, <1>12 DEF OkIsComplete

\* A worker takes the first batch of the queue.
LEMMA TakeOk ==
    ASSUME IInv, OkInv, NEW w \in Workers, TakeTask(w)
    PROVE  OkInv'
<1>. USE DEF OkInv
<1>1. /\ UNCHANGED <<raw, capacity, cores, pc, itemsFound, prevElemEnd, hadElements, offset,
                     chunks, dst, fatal, errCh>>
      /\ taskCh # <<>> /\ work[w] = Idle /\ taskCh' = Tail(taskCh)
      /\ work' = [work EXCEPT ![w] = Head(taskCh)]
  BY DEF TakeTask, argVars, scanVars, bufVars
<1>2. /\ (Scanning' <=> Scanning) /\ (Scanned' <=> Scanned) /\ Inner' = Inner /\ Valid' = Valid
      /\ Forgiven' = Forgiven /\ Task' = Task /\ Total' = Total /\ (Lead => Lead')
      /\ pc \notin {"enter", "window", "one", "done"}
  <2>1. pc \notin {"enter", "window", "one", "done"}
    BY <1>1, WorkersRunInside DEF Idle, Gone, Unborn
  <2>. QED  BY <1>1, <2>1 DEF Scanning, Scanned, Inner, Valid, Forgiven, Task, Total, Lead
<1>3. PICK S : taskCh \in Seq(S)
  BY DEF IInv, Shape
<1>4. PICK R : work \in [Workers -> R]
  BY DEF IInv, Shape
<1>5. /\ Len(taskCh) \in Nat \ {0} /\ Len(taskCh') = Len(taskCh) - 1
      /\ \A i \in 1 .. Len(taskCh') : taskCh'[i] = taskCh[i + 1] /\ i + 1 \in 1 .. Len(taskCh)
      /\ Head(taskCh) = taskCh[1] /\ 1 \in 1 .. Len(taskCh)
  BY <1>1, <1>3
<1>6. /\ work'[w] = taskCh[1] /\ \A v \in Workers \ {w} : work'[v] = work[v]
  BY <1>1, <1>4, <1>5
<1>7. ~Busy(w) /\ Busy(w)' /\ \A v \in Workers \ {w} : Busy(v)' = Busy(v)
  <2>1. taskCh[1].base >= 0
    BY <1>5 DEF IInv, Ordered, Within
  <2>. QED  BY <1>1, <1>6, <2>1 DEF Busy, Idle
\* A batch that is queued is so still, or in w's hands.
<1>8. ASSUME NEW i \in 1 .. Len(taskCh)
      PROVE  taskCh[i] = work'[w] \/ \E j \in 1 .. Len(taskCh') : taskCh[i] = taskCh'[j]
  <2>1. CASE i = 1
    BY <1>6, <2>1
  <2>2. CASE i # 1
    <3>1. i - 1 \in 1 .. Len(taskCh') /\ (i - 1) + 1 = i
      BY <1>5, <2>2
    <3>. QED  BY <1>5, <3>1
  <2>. QED  BY <2>1, <2>2
<1>9. ASSUME NEW v \in Workers, Busy(v) PROVE v # w /\ Busy(v)' /\ work'[v] = work[v]
  BY <1>6, <1>7, <1>9
<1>10. ASSUME Doomed PROVE Doomed'
  <2>0. \A b : Spoilt(b) => \A c : c = b => Spoilt(c)'
    BY <1>2 DEF Spoilt, Decodes
  <2>1. CASE fatal \/ errCh > 0
    BY <1>1, <2>1 DEF Doomed
  <2>2. CASE \E i \in 1 .. Len(taskCh) : Spoilt(taskCh[i])
    <3>1. PICK i \in 1 .. Len(taskCh) : Spoilt(taskCh[i])
      BY <2>2
    <3>2. CASE taskCh[i] = work'[w]
      <4>1. Spoilt(work'[w])
        BY <3>1, <3>2
      <4>. QED  BY <1>2, <1>7, <4>1 DEF Doomed, Spoilt, Decodes
    <3>3. CASE \E j \in 1 .. Len(taskCh') : taskCh[i] = taskCh'[j]
      <4>1. PICK j \in 1 .. Len(taskCh') : Spoilt(taskCh'[j])
        BY <3>1, <3>3
      <4>. QED  BY <1>2, <4>1 DEF Doomed, Spoilt, Decodes
    <3>. QED  BY <1>8, <3>2, <3>3
  <2>3. CASE \E v \in Workers : Busy(v) /\ Spoilt(work[v])
    <3>1. PICK v \in Workers : Busy(v) /\ Spoilt(work[v])
      BY <2>3
    <3>2. Busy(v)' /\ Spoilt(work'[v])
      BY <1>9, <3>1
    <3>. QED  BY <1>2, <3>2 DEF Doomed, Spoilt, Decodes
  <2>4. CASE pc = "send" /\ Spoilt(Task)
    <3>. HIDE DEF Task
    <3>. QED  BY <1>1, <1>2, <2>4 DEF Doomed, Spoilt, Decodes
  <2>. QED  BY <1>10, <2>1, <2>2, <2>3, <2>4 DEF Doomed
<1>11. ASSUME NEW k \in Forgiven, Exact(k) PROVE Exact(k)'
  <2>1. Prefix(k, Total)'
    BY <1>2, <1>11 DEF Exact, Prefix
  <2>2. ASSUME NEW i \in 1 .. Len(taskCh') PROVE Placed(taskCh'[i], k)
    BY <1>5, <1>11 DEF Exact
  <2>3. ASSUME NEW v \in Workers, Busy(v)' PROVE Placed(work'[v], k)
    <3>1. CASE v = w
      BY <1>5, <1>6, <1>11, <3>1 DEF Exact
    <3>2. CASE v # w
      BY <1>6, <1>7, <1>11, <2>3, <3>2 DEF Exact
    <3>. QED  BY <3>1, <3>2
  <2>4. ASSUME NEW s \in 0 .. (itemsFound' - 1) PROVE dst'[s] = k + 2 * s \/ Pending(s)'
    <3>1. dst[s] = k + 2 * s \/ Pending(s)
      BY <1>1, <1>11 DEF Exact
    <3>2. ASSUME NEW i \in 1 .. Len(taskCh), s \in Left(taskCh[i]) PROVE Pending(s)'
      <4>1. CASE taskCh[i] = work'[w]
        BY <1>7, <3>2, <4>1 DEF Pending
      <4>2. CASE \E j \in 1 .. Len(taskCh') : taskCh[i] = taskCh'[j]
        <5>1. \E j \in 1 .. Len(taskCh') : s \in Left(taskCh'[j])
          BY <3>2, <4>2
        <5>. QED  BY <5>1 DEF Pending
      <4>. QED  BY <1>8, <4>1, <4>2
    <3>3. ASSUME NEW v \in Workers, Busy(v), s \in Left(work[v]) PROVE Pending(s)'
      BY <1>9, <3>3 DEF Pending
    <3>. QED  BY <1>1, <3>1, <3>2, <3>3 DEF Pending
  <2>5. pc' = "send" => Placed(Task, k)'
    <3>1. pc = "send" => Placed(Task, k)
      BY <1>11 DEF Exact
    <3>. HIDE DEF Task
    <3>. QED  BY <1>1, <1>2, <3>1 DEF Placed
  <2>. QED  BY <1>1, <1>2, <1>11, <2>1, <2>2, <2>3, <2>4, <2>5 DEF Exact
<1>12. Accepted'
  <2>1. Scanning => Doomed' \/ \E k \in Forgiven' : Exact(k)'
    BY <1>2, <1>10, <1>11 DEF Accepted
  <2>. QED  BY <1>1, <1>2, <2>1 DEF Accepted, Fresh
<1>13. Loop'
  <2>1. \A i \in 1 .. Len(taskCh') : IsBatch(taskCh'[i])
    BY <1>5 DEF Loop
  <2>2. ASSUME NEW v \in Workers, Busy(v)' PROVE IsBatch(work'[v])
    <3>1. CASE v = w
      BY <1>5, <1>6, <3>1 DEF Loop
    <3>2. CASE v # w
      BY <1>6, <1>7, <2>2, <3>2 DEF Loop
    <3>. QED  BY <3>1, <3>2
  <2>. QED  BY <1>1, <1>2, <2>1, <2>2 DEF Loop
<1>. QED  BY <1>1, <1>2, <1>12, <1>13 DEF OkIsComplete

\* A worker's other steps: it writes the next slot of its batch, or gives the batch up
\* after an error, or is through with it.
LEMMA WorkOk ==
    ASSUME IInv, OkInv, NEW w \in Workers,
           \/ ParseElement(w) \/ ParseFails(w) \/ FinishTask(w) \/ WorkerExit(w)
    PROVE  OkInv'
<1>. USE DEF OkInv
<1>. DEFINE b == work[w]
            s0 == b.base + b.at - 1
<1>1. UNCHANGED <<raw, capacity, cores, pc, itemsFound, prevElemEnd, hadElements, offset, chunks,
                  taskCh, fatal>>
  BY DEF ParseElement, ParseFails, FinishTask, WorkerExit, argVars, scanVars, bufVars, chanVars
<1>2. /\ (Scanning' <=> Scanning) /\ (Scanned' <=> Scanned) /\ Inner' = Inner /\ Valid' = Valid
      /\ Forgiven' = Forgiven /\ Task' = Task /\ Total' = Total /\ (Lead => Lead')
      /\ pc \notin {"enter", "window", "one", "done"}
  <2>1. work[w] \notin {Gone, Unborn}
    BY DEF ParseElement, ParseFails, FinishTask, WorkerExit, Busy, Idle, Gone, Unborn
  <2>2. pc \notin {"enter", "window", "one", "done"}
    BY <2>1, WorkersRunInside
  <2>. QED  BY <1>1, <2>2 DEF Scanning, Scanned, Inner, Valid, Forgiven, Task, Total, Lead
<1>3. PICK R : work \in [Workers -> R]
  BY DEF IInv, Shape
<1>4. IsTask(b) /\ (Busy(w) => IsBatch(b) /\ Within(b))
  BY DEF IInv, Shape, Ordered, Loop
<1>5. Cardinality(Workers) \in Nat \ {0} /\ errCh \in Nat
  <2>1. IsFiniteSet(Workers) /\ Workers # {}
    BY ArrayAssumption
  <2>. QED  BY <2>1, FS_CardinalityType, FS_EmptySet DEF Loop
\* What becomes of the batch in w's hands.
<1>6. /\ \A v \in Workers \ {w} : work'[v] = work[v]
      /\ Busy(w)' => /\ Busy(w) /\ work'[w].chunks = b.chunks /\ work'[w].base = b.base
                     /\ work'[w].at \in Nat \ {0}
  <2>1. CASE ParseElement(w) \/ ParseFails(w)
    <3>1. PICK n : work' = [work EXCEPT ![w].at = n] /\ n \in Nat \ {0} /\ Busy(w)
      <4>1. b.at + 1 \in Nat \ {0} /\ Len(b.chunks) + 1 \in Nat \ {0}
        BY <1>4, <2>1 DEF ParseElement, ParseFails, IsBatch
      <4>2. CASE ParseElement(w)
        BY <4>1, <4>2 DEF ParseElement
      <4>3. CASE ParseFails(w)
        BY <4>1, <4>3 DEF ParseFails
      <4>. QED  BY <2>1, <4>2, <4>3
    <3>. QED  BY <1>3, <1>4, <3>1 DEF IsTask
  <2>2. CASE FinishTask(w) \/ WorkerExit(w)
    <3>1. PICK c \in {Idle, Gone} : work' = [work EXCEPT ![w] = c]
      BY <2>2 DEF FinishTask, WorkerExit
    <3>2. ~(c.base >= 0)
      BY DEF Idle, Gone
    <3>. QED  BY <1>3, <3>1, <3>2 DEF Busy
  <2>. QED  BY <2>1, <2>2
<1>7. \A v \in Workers \ {w} : Busy(v)' = Busy(v)
  BY <1>6 DEF Busy
<1>8. \A c : Spoilt(c) <=> \E j \in 1 .. Len(c.chunks) : c.at <= j /\ ~Decodes(c.chunks[j])'
  BY <1>2 DEF Spoilt, Decodes
\* Nothing is lost: what was left in w's hands is left, or written, or an error is told.
<1>9. CASE ParseFails(w)
  <2>0. dst' = [dst EXCEPT ![s0] = Torn]
    BY <1>9 DEF ParseFails
  <2>9. errCh' = IF errCh < Cardinality(Workers) THEN errCh + 1 ELSE errCh
    BY <1>9 DEF ParseFails
  <2>1. errCh' > 0 /\ errCh' \in Nat
    BY <1>5, <2>9
  <2>2. dst' \in [0 .. (capacity' - 1) -> Int]
    <3>1. dst \in [0 .. (capacity - 1) -> Int] /\ Torn \in Int
      BY DEF Loop, Torn
    <3>. QED  BY <1>1, <2>0, <3>1
  <2>3. Doomed'
    BY <2>1 DEF Doomed
  <2>4. Accepted'
    BY <1>1, <1>2, <2>3 DEF Accepted, Fresh
  <2>5. /\ \A i \in 1 .. Len(taskCh') : IsBatch(taskCh'[i])
        /\ \A v \in Workers : Busy(v)' => IsBatch(work'[v])
    BY <1>1, <1>4, <1>6, <1>7 DEF Loop, IsBatch
  <2>6. Loop'
    BY <1>1, <1>2, <2>1, <2>2, <2>5 DEF Loop
  <2>. QED  BY <1>1, <1>2, <2>4, <2>6 DEF OkIsComplete
<1>10. CASE ~ParseFails(w)
  <2>1. /\ errCh' = errCh
        /\ dst' # dst => /\ Busy(w) /\ Busy(w)' /\ b.at \in 1 .. Len(b.chunks)
                         /\ dst' = [dst EXCEPT ![s0] = b.chunks[b.at].start]
    <3>1. CASE ParseElement(w)
      <4>0. work' = [work EXCEPT ![w].at = b.at + 1]
        BY <3>1 DEF ParseElement
      <4>5. dst' = [dst EXCEPT ![s0] = b.chunks[b.at].start]
        BY <3>1 DEF ParseElement, Current
      <4>6. Busy(w) /\ b.at <= Len(b.chunks) /\ errCh' = errCh
        BY <3>1 DEF ParseElement, chanVars
      <4>1. /\ Busy(w) /\ b.at <= Len(b.chunks) /\ dst' = [dst EXCEPT ![s0] = b.chunks[b.at].start]
            /\ errCh' = errCh /\ work' = [work EXCEPT ![w].at = b.at + 1]
        BY <4>0, <4>5, <4>6
      <4>2. work'[w].base = b.base
        BY <1>3, <1>4, <4>1 DEF IsTask
      <4>3. Busy(w)'
        BY <4>1, <4>2 DEF Busy
      <4>4. b.at \in 1 .. Len(b.chunks)
        BY <1>4, <4>1 DEF IsBatch
      <4>. QED  BY <4>1, <4>3, <4>4
    <3>2. CASE FinishTask(w) \/ WorkerExit(w)
      BY <3>2 DEF FinishTask, WorkerExit, chanVars
    <3>. QED  BY <1>10, <3>1, <3>2
  <2>2. ASSUME Busy(w), NEW j \in Nat, b.at <= j, j <= Len(b.chunks)
        PROVE  \/ Busy(w)' /\ work'[w].at <= j
               \/ /\ j = b.at /\ Decodes(b.chunks[j])
                  /\ dst' = [dst EXCEPT ![s0] = b.chunks[b.at].start]
    <3>1. CASE ParseElement(w)
      <4>0. work' = [work EXCEPT ![w].at = b.at + 1]
        BY <3>1 DEF ParseElement
      <4>5. dst' = [dst EXCEPT ![s0] = b.chunks[b.at].start]
        BY <3>1 DEF ParseElement, Current
      <4>6. Decodes(b.chunks[b.at])
        BY <3>1 DEF ParseElement, Current
      <4>1. /\ Decodes(b.chunks[b.at]) /\ dst' = [dst EXCEPT ![s0] = b.chunks[b.at].start]
            /\ work' = [work EXCEPT ![w].at = b.at + 1]
        BY <4>0, <4>5, <4>6
      <4>2. work'[w].base = b.base /\ work'[w].at = b.at + 1
        BY <1>3, <1>4, <4>1 DEF IsTask
      <4>3. Busy(w)'
        BY <2>2, <4>2 DEF Busy
      <4>4. b.at \in Nat
        BY <1>4, <2>2 DEF IsBatch
      <4>. QED  BY <2>2, <4>1, <4>2, <4>3, <4>4
    <3>2. CASE FinishTask(w)
      BY <1>4, <2>2, <3>2 DEF FinishTask, IsBatch
    <3>3. CASE WorkerExit(w)
      BY <2>2, <3>3 DEF WorkerExit, Busy, Idle
    <3>. QED  BY <1>10, <3>1, <3>2, <3>3
  <2>3. ASSUME Doomed PROVE Doomed'
    <3>1. CASE fatal \/ errCh > 0
      BY <1>1, <2>1, <3>1 DEF Doomed
    <3>2. CASE \E i \in 1 .. Len(taskCh) : Spoilt(taskCh[i])
      BY <1>1, <1>8, <3>2 DEF Doomed, Spoilt
    <3>3. CASE \E v \in Workers \ {w} : Busy(v) /\ Spoilt(work[v])
      BY <1>6, <1>7, <1>8, <3>3 DEF Doomed, Spoilt
    <3>4. CASE Busy(w) /\ Spoilt(b)
      <4>1. PICK j \in 1 .. Len(b.chunks) : b.at <= j /\ ~Decodes(b.chunks[j])
        BY <3>4 DEF Spoilt
      <4>2. Len(b.chunks) \in Nat /\ j \in Nat /\ j <= Len(b.chunks)
        BY <1>4, <3>4 DEF IsBatch
      <4>3. Busy(w)' /\ work'[w].at <= j
        BY <2>2, <3>4, <4>1, <4>2
      <4>4. j \in 1 .. Len(work'[w].chunks) /\ ~Decodes(work'[w].chunks[j])
        BY <1>6, <4>1, <4>3
      <4>5. Spoilt(work[w])'
        BY <1>2, <4>3, <4>4 DEF Spoilt, Decodes
      <4>. QED  BY <4>3, <4>5 DEF Doomed
    <3>5. CASE pc = "send" /\ Spoilt(Task)
      <4>. HIDE DEF Task
      <4>. QED  BY <1>1, <1>2, <1>8, <3>5 DEF Doomed, Spoilt
    <3>. QED  BY <2>3, <3>1, <3>2, <3>3, <3>4, <3>5 DEF Doomed
  <2>4. ASSUME NEW k \in Forgiven, Exact(k) PROVE Exact(k)'
    <3>0. k \in Nat /\ dst \in [0 .. (capacity - 1) -> Int]
      BY <2>4 DEF Exact, Prefix, Loop
    <3>1. Prefix(k, Total)'
      BY <1>2, <2>4 DEF Exact, Prefix
    <3>2. \A i \in 1 .. Len(taskCh') : Placed(taskCh'[i], k)
      BY <1>1, <2>4 DEF Exact
    <3>3. ASSUME NEW v \in Workers, Busy(v)' PROVE Placed(work'[v], k)
      <4>1. CASE v = w
        BY <1>6, <2>4, <3>3, <4>1 DEF Exact, Placed
      <4>2. CASE v # w
        BY <1>6, <1>7, <2>4, <3>3, <4>2 DEF Exact
      <4>. QED  BY <4>1, <4>2
    <3>4. Busy(w) /\ b.at \in 1 .. Len(b.chunks) => b.chunks[b.at].start = k + 2 * s0
      <4>. SUFFICES ASSUME Busy(w),
                           b.at \in 1 .. Len(b.chunks) PROVE b.chunks[b.at].start = k + 2 * s0
        OBVIOUS
      <4>1. b.chunks[b.at] = Elem(k, (b.base + b.at) - 1)
        BY <2>4 DEF Exact, Placed
      <4>2. (b.base + b.at) - 1 = s0
        BY <1>4 DEF IsBatch, Within
      <4>. QED  BY <4>1, <4>2 DEF Elem
    <3>5. ASSUME NEW s \in 0 .. (itemsFound' - 1) PROVE dst'[s] = k + 2 * s \/ Pending(s)'
      <4>1. dst[s] = k + 2 * s \/ Pending(s)
        BY <1>1, <2>4 DEF Exact
      <4>2. s \in 0 .. (capacity - 1)
        BY <1>1 DEF IInv, Shape
      <4>3. CASE dst[s] = k + 2 * s
        BY <2>1, <3>0, <3>4, <4>2, <4>3
      <4>4. CASE \E i \in 1 .. Len(taskCh) : s \in Left(taskCh[i])
        BY <1>1, <4>4 DEF Pending
      <4>5. CASE \E v \in Workers \ {w} : Busy(v) /\ s \in Left(work[v])
        BY <1>6, <1>7, <4>5 DEF Pending
      <4>6. CASE Busy(w) /\ s \in Left(b)
        <5>. DEFINE j == (s - b.base) + 1
        <5>1. b.base \in Nat /\ b.at \in Nat /\ Len(b.chunks) \in Nat
          BY <1>4, <4>6 DEF Within, IsBatch
        <5>0. s \in ((b.base + b.at) - 1) .. ((b.base + Len(b.chunks)) - 1)
          BY <4>6 DEF Left, End
        <5>6. s0 = (b.base + b.at) - 1
          BY <5>1
        <5>7. b.at >= 1
          BY <1>4, <4>6 DEF IsBatch
        <5>. HIDE DEF b
        <5>2. j \in Nat /\ b.at <= j /\ j <= Len(b.chunks) /\ s = (b.base + j) - 1
          <6>. DEFINE u == b.base
                      t == b.at
                      l == Len(b.chunks)
          <6>1. u \in Nat /\ t \in Nat /\ l \in Nat /\ s \in ((u + t) - 1) .. ((u + l) - 1)
            BY <5>0, <5>1
          <6>2. j = (s - u) + 1
            OBVIOUS
          <6>. HIDE DEF u, t, l, j
          <6>3. j \in Nat /\ t <= j /\ j <= l /\ s = (u + j) - 1
            BY <5>7, <6>1, <6>2 DEF t
          <6>. QED  BY <6>3 DEF u, t, l
        <5>. HIDE DEF j
        <5>3. CASE Busy(w)' /\ work'[w].at <= j
          <6>1. s \in Left(work'[w])
            <7>1. /\ work'[w].chunks = b.chunks /\ work'[w].base = b.base
                  /\ work'[w].at \in Nat
              BY <1>6, <5>3
            <7>2. s \in ((work'[w].base + work'[w].at) - 1) .. ((work'[w].base + Len(work'[w].chunks)) - 1)
              BY <5>1, <5>2, <5>3, <7>1
            <7>. QED  BY <7>2 DEF Left, End
          <6>. QED  BY <5>3, <6>1 DEF Pending
        <5>4. CASE j = b.at /\ dst' = [dst EXCEPT ![s0] = b.chunks[b.at].start]
          <6>0. s = s0
            BY <5>2, <5>4, <5>6
          <6>1. s = s0 /\ b.at \in 1 .. Len(b.chunks)
            BY <5>1, <5>2, <5>7, <6>0
          <6>2. b.chunks[b.at].start = k + 2 * s0
            BY <3>4, <4>6, <6>1
          <6>3. dst'[s] = b.chunks[b.at].start
            BY <3>0, <4>2, <5>4, <6>1
          <6>. QED  BY <6>1, <6>2, <6>3
        <5>. QED  BY <2>2, <4>6, <5>2, <5>3, <5>4
      <4>. QED  BY <4>1, <4>3, <4>4, <4>5, <4>6 DEF Pending
    <3>6. pc' = "send" => Placed(Task, k)'
      <4>1. pc = "send" => Placed(Task, k)
        BY <2>4 DEF Exact
      <4>. HIDE DEF Task
      <4>. QED  BY <1>1, <1>2, <4>1 DEF Placed
    <3>. QED  BY <1>1, <1>2, <2>4, <3>1, <3>2, <3>3, <3>5, <3>6 DEF Exact
  <2>5. Accepted'
    <3>1. Scanning => Doomed' \/ \E k \in Forgiven' : Exact(k)'
      BY <1>2, <2>3, <2>4 DEF Accepted
    <3>. QED  BY <1>1, <1>2, <3>1 DEF Accepted, Fresh
  <2>6. /\ \A i \in 1 .. Len(taskCh') : IsBatch(taskCh'[i])
        /\ \A v \in Workers : Busy(v)' => IsBatch(work'[v])
    BY <1>1, <1>4, <1>6, <1>7 DEF Loop, IsBatch
  <2>7. dst' \in [0 .. (capacity' - 1) -> Int]
    <3>1. dst' # dst => b.chunks[b.at].start \in Int
      <4>1. b.at \in 1 .. Len(b.chunks) /\ b.chunks \in Seq(Chunk) => b.chunks[b.at] \in Chunk
        OBVIOUS
      <4>. QED  BY <1>4, <2>1, <4>1 DEF IsBatch, Chunk
    <3>. QED  BY <1>1, <2>1, <3>1 DEF Loop
  <2>8. Loop'
    BY <1>1, <1>2, <2>1, <2>6, <2>7 DEF Loop
  <2>. QED  BY <1>1, <1>2, <2>5, <2>8 DEF OkIsComplete
<1>. QED  BY <1>9, <1>10

\* A step that changes nothing.
LEMMA IdleOk == OkInv /\ UNCHANGED vars => OkInv'
<1>. SUFFICES ASSUME OkInv, UNCHANGED vars PROVE OkInv'
  OBVIOUS
<1>1. UNCHANGED <<raw, capacity, cores, pc, offset, itemsFound, prevElemEnd, hadElements,
                  chunks, fatal, taskCh, errCh, work, dst>>
  BY DEF vars, argVars, scanVars, bufVars, chanVars
<1>2. /\ Inner' = Inner /\ Valid' = Valid /\ Forgiven' = Forgiven /\ (Scanning' <=> Scanning)
      /\ (Scanned' <=> Scanned) /\ Task' = Task
  BY <1>1 DEF Inner, Valid, Forgiven, Scanning, Scanned, Task
<1>3. Total' = Total /\ (Lead => Lead')
  BY <1>1, <1>2 DEF Total, Lead
<1>4. Loop'
  BY <1>1, <1>2 DEF OkInv, Loop, Busy
<1>5. Doomed => Doomed'
  BY <1>1, <1>2 DEF Doomed, Spoilt, Decodes, Busy
<1>6. ASSUME NEW k \in Forgiven, Exact(k) PROVE Exact(k)'
  <2>1. Prefix(k, Total)'
    BY <1>2, <1>3, <1>6 DEF Exact, Prefix
  <2>2. \A s : Pending(s) => Pending(s)'
    BY <1>1 DEF Pending, Busy
  <2>3. /\ \A i \in 1 .. Len(taskCh') : Placed(taskCh'[i], k)
        /\ \A w \in Workers : Busy(w)' => Placed(work'[w], k)
        /\ pc' = "send" => Placed(Task', k)
    BY <1>1, <1>2, <1>6 DEF Exact, Busy
  <2>. QED  BY <1>1, <1>2, <1>3, <1>6, <2>1, <2>2, <2>3 DEF Exact
<1>7. Accepted'
  BY <1>1, <1>2, <1>3, <1>5, <1>6 DEF OkInv, Accepted, Fresh
<1>8. OkIsComplete'
  BY <1>1, <1>2 DEF OkInv, OkIsComplete
<1>. QED  BY <1>4, <1>7, <1>8 DEF OkInv

\* The invariants above hold together.
LEMMA OkInvHolds == Spec => [](IInv /\ OkInv)
<1>1. Spec => []IInv
  BY InitIInv, NextIInv, PTL DEF Spec
<1>2. IInv /\ IInv' /\ Counted /\ [Next]_vars => Counted'
  BY CountedStays
<1>3. IInv /\ Counted /\ OkInv /\ [Next]_vars => OkInv'
  BY IdleOk, QuietOk, StartOk, EndOk, ReturnOk, OneWindowOk, ScanEmptyOk, ScanBatchOk, SendOk,
     TakeOk, WorkOk DEF Next, Caller, Worker
<1>. QED  BY <1>1, <1>2, <1>3, InitCounted, InitOk, PTL DEF Spec

\* For every number of workers, batch size and input: if the call succeeds, every token
\* of the array was accounted for across all the windows, and every slot that is returned
\* holds its element, whichever worker decoded it and whenever the others failed
\* (parallel.go:354-361, 452, 571-586).
THEOREM OkIsCompleteHolds == Spec => []OkIsComplete
<1>1. OkInv => OkIsComplete
  BY DEF OkInv
<1>. QED  BY <1>1, OkInvHolds, PTL

-----------------------------------------------------------------------------
(* A good array is never refused.                                          *)

LEMMA GoodAlternates ==
    ASSUME NEW n \in Nat
    PROVE  GoodArray(n) \in Seq(Token) /\ Alternates(GoodArray(n), n) /\ Batch \in Nat \ {0}
<1>. DEFINE G == GoodArray(n)
<1>1. /\ G \in Seq(Token) /\ Len(G) = IF n = 0 THEN 1 ELSE 2 * n
      /\ n = 0 => G[1] = "rbracket"
      /\ n > 0 => /\ G[2 * n] = "rbracket"
                  /\ \A s \in 0 .. (n - 1) : G[2 * s + 1] = "e"
                  /\ \A s \in 1 .. (n - 1) : G[2 * s] = "comma"
  BY GoodArrayIs
<1>. HIDE DEF G
<1>2. G[Len(G)] = "rbracket"
  <2>1. CASE n = 0
    BY <1>1, <2>1
  <2>2. CASE n # 0
    <3>1. n > 0
      BY <2>2
    <3>2. Len(G) = 2 * n
      BY <1>1, <2>2
    <3>. QED  BY <1>1, <3>1, <3>2
  <2>. QED  BY <2>1, <2>2
<1>3. ASSUME NEW s \in 0 .. (n - 1) PROVE G[2 * s + 1] \notin {"comma", "lbracket", "rbracket"}
  <2>1. n > 0
    OBVIOUS
  <2>. QED  BY <1>1, <2>1
<1>4. ASSUME NEW s \in 1 .. (n - 1) PROVE G[2 * s] = "comma"
  <2>1. n > 0
    OBVIOUS
  <2>. QED  BY <1>1, <2>1
<1>5. Len(G) = IF n = 0 THEN 1 ELSE 2 * n
  BY <1>1
<1>6. Alternates(G, n)
  BY <1>2, <1>3, <1>4, <1>5, Zenon DEF Alternates
<1>. QED  BY <1>1, <1>6, ArrayAssumption DEF G

\* What a window of a good array leads to: all is in order, and the loop goes on until
\* the last element.
LEMMA GoodScan ==
    ASSUME Loop, Scanning, pc \in {"one", "many"}, NEW n \in Nat, Inner = GoodArray(n),
           NEW m \in 0 .. n,
           offset = IF m = 0 THEN 0 ELSE 2 * m - 1
    PROVE  /\ chunks # <<>>
           /\ ~Advances => m = n
           /\ Advances => /\ Valid # <<>> /\ m + Len(Valid) <= n
                          /\ \A i \in 1 .. Len(Valid) :
                               Valid[i] = Elem(0, (m + i) - 1) /\ Decodes(Valid[i])
                          /\ StepEnd = 2 * (m + Len(Valid)) - 1
                          /\ StepEnd = Valid[Len(Valid)].end
<1>. DEFINE L == Len(chunks)
<1>a. GoodArray(n) \in Seq(Token) /\ Alternates(GoodArray(n), n) /\ Batch \in Nat \ {0}
  BY GoodAlternates
<1>d. PICK d \in {0, 1} : d = (IF m = 0 THEN 0 ELSE 1)
  OBVIOUS
<1>0. /\ IsWindow(GoodArray(n), offset, chunks) /\ offset \in Nat /\ chunks \in Seq(Chunk)
      /\ L \in Nat /\ Valid \in Seq(Chunk) /\ Len(Valid) \in Nat
  <2>1. IsWindow(GoodArray(n), offset, chunks) /\ offset \in Nat
    BY DEF Loop
  <2>2. chunks \in Seq(Chunk) /\ Valid \in Seq(Chunk)
    BY ValidIs
  <2>. QED  BY <2>1, <2>2
<1>1. CASE n = 0
  <2>1. m = 0 /\ offset = 0
    BY <1>1
  <2>2. Len(GoodArray(n)) = 1
    BY <1>1, GoodArrayIs
  <2>3. 1 \in (offset + 1) .. Len(GoodArray(n)) /\ EndsChunk(GoodArray(n), offset, 1)
    <3>1. 1 \in (offset + 1) .. Len(GoodArray(n))
      BY <2>1, <2>2
    <3>. QED  BY <1>0, <1>1, <1>a, <3>1, GoodEnds
  <2>4. L # 0
    <3>. SUFFICES ASSUME L = 0 PROVE FALSE
      OBVIOUS
    <3>1. L < Batch /\ 1 .. L = {}
      BY ArrayAssumption
    <3>. QED  BY <1>0, <2>3, <3>1 DEF IsWindow, IsPieces
  <2>5. L \in 1 .. L
    BY <1>0, <2>4
  <2>6. chunks[L].end \in offset .. (Len(GoodArray(n)) - 1)
    BY <1>0, <2>5 DEF IsWindow, IsPieces
  <2>7. chunks[L].end = offset
    BY <2>1, <2>2, <2>6
  <2>. QED  BY <1>1, <2>1, <2>4, <2>7 DEF Advances
<1>2. CASE n # 0
  <2>1. /\ chunks # <<>>
        /\ \A i \in 1 .. L : /\ chunks[i].end = 2 * ((m + i) - d) - 1
                             /\ i > d => chunks[i] = Elem(0, ((m + i) - d) - 1)
                             /\ i <= d => chunks[i].start = chunks[i].end
        /\ (m + L) - d <= n
        /\ L < Batch => (m + L) - d = n
    <3>1. IsWindow(GoodArray(n), offset, chunks) /\ offset \in Nat
      BY <1>0
    <3>2. Follows(n, m, d, chunks)
      <4>1. /\ GoodArray(n) \in Seq(Token) /\ n \in Nat /\ Alternates(GoodArray(n), n)
            /\ Batch \in Nat \ {0} /\ m \in 0 .. n /\ offset \in Nat /\ n # 0
            /\ IsWindow(GoodArray(n), offset, chunks)
        BY <1>2, <1>a, <3>1
      <4>2. offset = (IF m = 0 THEN 0 ELSE 2 * m - 1) /\ d = (IF m = 0 THEN 0 ELSE 1)
        BY <1>d
      <4>. QED  BY <4>1, <4>2, GoodWindow, Zenon
    <3>. QED  BY <3>2 DEF Follows
  <2>2. d \in {0, 1} /\ L # 0 /\ L \in 1 .. L /\ d <= L /\ (d = 0 <=> m = 0)
    BY <1>0, <1>d, <2>1
  <2>3. ASSUME NEW i \in 1 .. L PROVE NonEmpty(chunks[i]) <=> i > d
    <3>1. CASE i > d
      <4>1. chunks[i] = Elem(0, ((m + i) - d) - 1)
        BY <2>1, <3>1
      <4>2. ((m + i) - d) - 1 \in Nat
        BY <2>2, <3>1
      <4>. QED  BY <3>1, <4>1, <4>2 DEF Elem, NonEmpty
    <3>2. CASE ~(i > d)
      BY <2>1, <2>2, <3>2 DEF NonEmpty
    <3>. QED  BY <3>1, <3>2
  <2>4. /\ Len(Valid) = L - d
        /\ \A i \in 1 .. Len(Valid) : i + d \in 1 .. L /\ Valid[i] = chunks[i + d]
    BY <1>0, <2>2, <2>3, FilledBehind DEF Valid
  <2>5. chunks[L].end = 2 * ((m + L) - d) - 1
    BY <2>1, <2>2
  <2>6. ASSUME ~Advances PROVE m = n
    <3>1. chunks[L].end = offset
      BY <2>1, <2>6 DEF Advances
    <3>2. m # 0 /\ L = 1
      <4>. HIDE DEF L
      <4>1. CASE m = 0
        <5>1. offset = 0 /\ d = 0
          BY <1>d, <4>1
        <5>2. 2 * ((m + L) - d) - 1 = 0
          BY <2>5, <3>1, <5>1
        <5>. QED  BY <1>0, <4>1, <5>1, <5>2
      <4>2. CASE m # 0
        <5>1. offset = 2 * m - 1 /\ d = 1
          BY <1>d, <4>2
        <5>2. 2 * ((m + L) - d) - 1 = 2 * m - 1
          BY <2>5, <3>1, <5>1
        <5>3. L = d
          BY <1>0, <5>1, <5>2
        <5>. QED  BY <4>2, <5>1, <5>3
      <4>. QED  BY <4>1, <4>2
    <3>3. L < Batch
      BY <3>2, ArrayAssumption
    <3>. QED  BY <1>d, <2>1, <3>2, <3>3
  <2>7. ASSUME Advances
        PROVE  /\ Valid # <<>> /\ m + Len(Valid) <= n
               /\ StepEnd = 2 * (m + Len(Valid)) - 1 /\ StepEnd = Valid[Len(Valid)].end
               /\ \A i \in 1 .. Len(Valid) : Valid[i] = Elem(0, (m + i) - 1)
    <3>1. chunks[L].end # offset /\ StepEnd = chunks[L].end
      BY <2>7 DEF Advances, StepEnd
    <3>2. L # d
      <4>. SUFFICES ASSUME L = d PROVE FALSE
        OBVIOUS
      <4>. HIDE DEF L
      <4>1. L = 1 /\ d = 1 /\ m # 0
        BY <2>2
      <4>2. offset = 2 * m - 1
        BY <4>1
      <4>3. chunks[L].end = 2 * m - 1
        BY <2>5, <4>1
      <4>. QED  BY <3>1, <4>2, <4>3
    <3>3. Len(Valid) # 0 /\ m + Len(Valid) = (m + L) - d /\ Len(Valid) \in 1 .. Len(Valid)
          /\ Len(Valid) + d = L
      <4>. HIDE DEF L
      <4>. DEFINE M == Len(Valid)
      <4>1. M = L - d /\ M \in Nat /\ L \in Nat /\ d \in {0, 1} /\ d <= L /\ m \in Nat
        BY <1>0, <2>2, <2>4
      <4>. HIDE DEF M
      <4>2. M # 0 /\ m + M = (m + L) - d /\ M \in 1 .. M /\ M + d = L
        BY <3>2, <4>1
      <4>. QED  BY <4>2 DEF M
    <3>4. Valid # <<>>
      BY <3>3
    <3>5. Valid[Len(Valid)] = chunks[L]
      BY <2>4, <3>3
    <3>6. ASSUME NEW i \in 1 .. Len(Valid) PROVE Valid[i] = Elem(0, (m + i) - 1)
      <4>1. i + d \in 1 .. L /\ Valid[i] = chunks[i + d] /\ i + d > d /\ ((m + (i + d)) - d) - 1 = (m + i) - 1
        BY <2>2, <2>4
      <4>2. chunks[i + d] = Elem(0, ((m + (i + d)) - d) - 1)
        BY <2>1, <4>1
      <4>. QED  BY <4>1, <4>2
    <3>. QED  BY <2>1, <2>5, <3>1, <3>3, <3>4, <3>5, <3>6
  <2>8. ASSUME Advances, NEW i \in 1 .. Len(Valid) PROVE Decodes(Valid[i])
    <3>. DEFINE s == (m + i) - 1
                a == 2 * s
    <3>1. Valid[i] = Elem(0, s) /\ s \in 0 .. (n - 1)
      BY <1>0, <2>7, <2>8
    <3>2. GoodArray(n)[2 * s + 1] = "e" /\ Len(GoodArray(n)) = 2 * n /\ GoodArray(n) \in Seq(Token)
      <4>1. n > 0
        BY <1>2
      <4>. HIDE DEF s
      <4>2. /\ GoodArray(n) \in Seq(Token) /\ Len(GoodArray(n)) = IF n = 0 THEN 1 ELSE 2 * n
            /\ \A x \in 0 .. (n - 1) : GoodArray(n)[2 * x + 1] = "e"
        BY <4>1, GoodArrayIs
      <4>. QED  BY <1>2, <3>1, <4>2
    <3>3. a \in Nat /\ a + 1 \in Nat /\ a + 1 <= Len(GoodArray(n)) /\ GoodArray(n)[a + 1] = "e"
      BY <3>1, <3>2
    <3>4. Valid[i].start = a /\ Valid[i].end = a + 1
      <4>. HIDE DEF s
      <4>1. s \in Nat
        BY <3>1
      <4>. QED  BY <3>1, <4>1 DEF Elem
    <3>. HIDE DEF a, s
    <3>. DEFINE b == a + 1
    <3>5. b \in Nat /\ b <= Len(GoodArray(n)) /\ b = a + 1 /\ GoodArray(n)[b] = "e"
      BY <3>3
    <3>. HIDE DEF b
    <3>7. Gap(GoodArray(n), a, b) = <<"e">>
      BY <3>2, <3>3, <3>5, GapOfOne
    <3>. QED  BY <3>4, <3>5, <3>7 DEF Decodes
  <2>. QED  BY <2>1, <2>6, <2>7, <2>8
<1>. QED  BY <1>1, <1>2

\* Every gap of such a window is as it must be.
LEMMA GoodGaps ==
    ASSUME Loop, Accepted, Scanning, pc \in {"one", "many"}, NEW n \in Nat, Inner = GoodArray(n),
           NEW m \in 0 .. n,
           Total = m, offset = (IF m = 0 THEN 0 ELSE 2 * m - 1), prevElemEnd = offset,
           m + Len(Valid) <= n,
           \A i \in 1 .. Len(Valid) : Valid[i] = Elem(0, (m + i) - 1)
    PROVE  GapsValid
<1>1. Valid \in Seq(Chunk) /\ Len(Valid) \in Nat /\ DOMAIN Valid = 1 .. Len(Valid)
  BY ValidIs
<1>2. /\ hadElements <=> m # 0
      /\ hadElements \/ offset > 0 <=> m # 0
  BY DEF Loop, Accepted
<1>. SUFFICES ASSUME NEW k \in 1 .. Len(Valid)
              PROVE  Gap(Inner, IF k > 1 THEN Valid[k - 1].end ELSE prevElemEnd, Valid[k].start)
                       = IF k > 1 \/ m # 0 THEN <<"comma">> ELSE <<>>
  <2>1. (IF ~hadElements /\ offset > 0 THEN offset ELSE prevElemEnd) = prevElemEnd
    OBVIOUS
  <2>. HIDE DEF Gap
  <2>. QED  BY <1>1, <1>2, <2>1 DEF GapsValid
<1>. DEFINE s == (m + k) - 1
<1>3. s \in 0 .. (n - 1) /\ n > 0 /\ n # 0
  BY <1>1
<1>4. /\ GoodArray(n) \in Seq(Token) /\ Len(GoodArray(n)) = 2 * n
      /\ \A x \in 1 .. (n - 1) : GoodArray(n)[2 * x] = "comma"
  <2>. HIDE DEF s
  <2>1. /\ GoodArray(n) \in Seq(Token) /\ Len(GoodArray(n)) = IF n = 0 THEN 1 ELSE 2 * n
        /\ \A x \in 1 .. (n - 1) : GoodArray(n)[2 * x] = "comma"
    BY <1>3, GoodArrayIs
  <2>. QED  BY <1>3, <2>1
<1>5. Valid[k].start = 2 * s
  <2>1. Valid[k] = Elem(0, s) /\ s \in Nat
    BY <1>3
  <2>. HIDE DEF s
  <2>. QED  BY <2>1 DEF Elem
<1>6. CASE k > 1 \/ m # 0
  <2>1. (IF k > 1 THEN Valid[k - 1].end ELSE prevElemEnd) = 2 * s - 1
    <3>1. CASE k > 1
      <4>. DEFINE t == (m + (k - 1)) - 1
      <4>1. k - 1 \in 1 .. Len(Valid) /\ t \in Nat /\ t = s - 1
        BY <1>1, <3>1
      <4>2. Valid[k - 1] = Elem(0, t)
        BY <4>1
      <4>. HIDE DEF t
      <4>3. Valid[k - 1].end = 2 * t + 1
        BY <4>1, <4>2 DEF Elem
      <4>. QED  BY <1>3, <3>1, <4>1, <4>3
    <3>2. CASE ~(k > 1)
      <4>1. k = 1 /\ m # 0 /\ s = m
        BY <1>6, <3>2
      <4>. QED  BY <3>2, <4>1
    <3>. QED  BY <3>1, <3>2
  <2>2. s \in 1 .. (n - 1)
    BY <1>3, <1>6
  <2>. HIDE DEF s
  <2>. DEFINE a == 2 * s - 1
              b == 2 * s
  <2>3. a \in Nat /\ b \in Nat /\ b <= Len(GoodArray(n)) /\ b = a + 1 /\ GoodArray(n)[b] = "comma"
    BY <1>4, <2>2
  <2>. HIDE DEF a, b
  <2>4. Gap(GoodArray(n), a, b) = <<"comma">>
    BY <1>4, <2>3, GapOfOne
  <2>. QED  BY <1>5, <1>6, <2>1, <2>4 DEF a, b
<1>7. CASE ~(k > 1 \/ m # 0)
  <2>1. k = 1 /\ m = 0 /\ s = 0 /\ prevElemEnd = 0
    BY <1>7
  <2>2. 0 \in Nat /\ 0 <= Len(GoodArray(n))
    BY <1>4
  <2>3. Gap(GoodArray(n), 0, 0) = <<>>
    BY <1>4, <2>2, GapIsNone
  <2>. QED  BY <1>5, <1>7, <2>1, <2>3
<1>. QED  BY <1>6, <1>7

\* If every element of a window decodes, as many are good as there are.
LEMMA AllGood ==
    ASSUME Valid \in Seq(Chunk), \A i \in 1 .. Len(Valid) : Decodes(Valid[i])
    PROVE  Good = Len(Valid)
<1>. DEFINE L == Len(Valid)
<1>1. L \in Nat /\ DOMAIN Valid = 1 .. L
  OBVIOUS
<1>2. {k \in DOMAIN Valid : \A j \in 1 .. k : Decodes(Valid[j])} = 1 .. L
  BY <1>1
<1>3. Good = Cardinality(1 .. L)
  BY <1>2, Zenon DEF Good
<1>4. Cardinality(1 .. L) = L
  <2>. HIDE DEF L
  <2>1. Cardinality(1 .. L) = IF 1 > L THEN 0 ELSE L - 1 + 1
    BY <1>1, FS_Interval
  <2>. QED  BY <1>1, <2>1
<1>. QED  BY <1>3, <1>4

\* The call is on its way through a good array of n elements.
Blameless(n) ==
    /\ ~Doomed
    /\ Total \in 0 .. n
    /\ prevElemEnd = IF Total = 0 THEN 0 ELSE 2 * Total - 1
    /\ prevElemEnd = IF pc = "send" THEN StepEnd ELSE offset
    /\ pc \in {"one", "many"} => maxDepth = 0
    /\ pc \in {"cleanup", "wait"} => Total = n

BlameInv ==
    /\ ErrorsHaveCause
    /\ \A n \in 0 .. capacity : Scanning /\ Inner = GoodArray(n) => Blameless(n)

\* A window of a good array passes every check.
LEMMA BlamelessScan ==
    ASSUME IInv, Loop, Accepted, Scanning, pc \in {"one", "many"},
           NEW n \in 0 .. capacity, Inner = GoodArray(n), Blameless(n)
    PROVE  /\ chunks # <<>>
           /\ ~Advances => Total = n
           /\ Advances => /\ ~Unbalanced /\ GapsValid /\ Fits /\ Valid # <<>>
                          /\ Total + Len(Valid) <= n /\ Len(Valid) \in Nat /\ Good = Len(Valid)
                          /\ StepEnd = 2 * (Total + Len(Valid)) - 1
                          /\ StepEnd = Valid[Len(Valid)].end
                          /\ ~Spoilt(Task)
<1>1. n \in Nat /\ capacity \in Nat /\ itemsFound \in Nat /\ Total = itemsFound
  BY DEF IInv, Shape, Total
<1>2. PICK m \in 0 .. n : m = Total
  BY DEF Blameless
<1>3. offset = (IF m = 0 THEN 0 ELSE 2 * m - 1) /\ prevElemEnd = offset /\ maxDepth = 0
  BY <1>2 DEF Blameless
<1>4. /\ chunks # <<>>
      /\ ~Advances => m = n
      /\ Advances => /\ Valid # <<>> /\ m + Len(Valid) <= n
                     /\ \A i \in 1 .. Len(Valid) : Valid[i] = Elem(0, (m + i) - 1) /\ Decodes(Valid[i])
                     /\ StepEnd = 2 * (m + Len(Valid)) - 1
                     /\ StepEnd = Valid[Len(Valid)].end
  BY <1>1, <1>3, GoodScan
<1>5. Valid \in Seq(Chunk) /\ Len(Valid) \in Nat
  BY ValidIs
<1>6. ASSUME Advances
      PROVE  ~Unbalanced /\ GapsValid /\ Fits /\ Good = Len(Valid) /\ ~Spoilt(Task)
  <2>1. ~Unbalanced
    BY <1>3 DEF Unbalanced
  <2>2. GapsValid
    BY <1>1, <1>2, <1>3, <1>4, <1>6, GoodGaps
  <2>3. Fits
    <3>1. itemsFound + Len(Valid) <= capacity /\ itemsFound + Len(Valid) >= itemsFound
      BY <1>1, <1>2, <1>4, <1>5, <1>6
    <3>. QED  BY <1>1, <1>5, <3>1 DEF Fits
  <2>4. Good = Len(Valid)
    BY <1>4, <1>5, <1>6, AllGood
  <2>5. ~Spoilt(Task)
    BY <1>4, <1>6 DEF Spoilt, Task
  <2>. QED  BY <2>1, <2>2, <2>3, <2>4, <2>5
<1>. QED  BY <1>2, <1>4, <1>5, <1>6

\* The caller's steps that send no batch and move none.
LEMMA CallerBlameless ==
    ASSUME IInv, OkInv, BlameInv,
           \/ SplitWindow \/ OneEnd \/ OneReject \/ OneWindow \/ CheckErrors \/ ScanEnd \/ ScanReject
           \/ ScanEmpty \/ ScanBatch \/ CloseTasks \/ Return,
           NEW n \in 0 .. capacity, Inner = GoodArray(n)
    PROVE  ~fatal' /\ (Scanning' => Blameless(n)')
<1>. USE DEF OkInv
<1>1. /\ Scanning /\ Scanned /\ Inner \in Seq(Token) /\ Len(Inner) = IF n = 0 THEN 1 ELSE 2 * n
      /\ n \in Nat /\ itemsFound \in Nat /\ offset \in Nat
  <2>1. Scanning
    BY DEF SplitWindow, OneEnd, OneReject, OneWindow, CheckErrors, ScanEnd, ScanReject, ScanEmpty,
           ScanBatch, CloseTasks, Return, Scanning
  <2>2. n \in Nat /\ itemsFound \in Nat
    BY DEF IInv, Shape
  <2>. QED  BY <2>1, <2>2, InnerTyped, GoodArrayIs DEF Loop
<1>2. /\ ~Doomed /\ Total \in 0 .. n
      /\ prevElemEnd = IF Total = 0 THEN 0 ELSE 2 * Total - 1
      /\ pc # "send" => prevElemEnd = offset /\ Total = itemsFound
      /\ pc \in {"one", "many"} => maxDepth = 0
      /\ pc \in {"cleanup", "wait"} => Total = n
  BY <1>1 DEF BlameInv, Blameless, Total
<1>3. ~fatal /\ ~(errCh > 0) /\ errCh \in Nat /\ errCh = 0
  BY <1>2 DEF Doomed, Loop
<1>4. pc \in {"one", "many"} =>
        /\ chunks # <<>>
        /\ ~Advances => Total = n
        /\ Advances => /\ ~Unbalanced /\ GapsValid /\ Fits /\ Valid # <<>>
                       /\ Total + Len(Valid) <= n /\ Len(Valid) \in Nat /\ Good = Len(Valid)
                       /\ StepEnd = 2 * (Total + Len(Valid)) - 1
                       /\ StepEnd = Valid[Len(Valid)].end
                       /\ ~Spoilt(Task)
  BY <1>1, BlamelessScan DEF BlameInv
<1>5. (\A i \in 1 .. Len(taskCh) : ~Spoilt(taskCh[i])) /\ (\A w \in Workers : Busy(w) => ~Spoilt(work[w]))
  BY <1>2 DEF Doomed
<1>6. ASSUME UNCHANGED <<raw, taskCh, work>>, ~fatal', ~(errCh' > 0), pc' # "send"
      PROVE  ~Doomed'
  <2>1. (\A i \in 1 .. Len(taskCh') : ~Spoilt(taskCh'[i]))
        /\ (\A w \in Workers : Busy(w)' => ~Spoilt(work'[w]))
    BY <1>5, <1>6 DEF Busy
  <2>2. Inner' = Inner
    BY <1>6 DEF Inner
  <2>. QED  BY <1>6, <2>1, <2>2 DEF Doomed, Spoilt, Decodes
<1>7. CASE SplitWindow
  <2>1. /\ UNCHANGED <<raw, taskCh, work, fatal, errCh, itemsFound, offset, prevElemEnd>>
        /\ pc \in {"window", "split"} /\ pc' \in {"one", "many"}
        /\ offset < Len(Inner) /\ maxDepth' = DepthLeft(Inner, offset)
    BY <1>7 DEF SplitWindow, argVars, scanVars, chanVars
  <2>2. maxDepth' = 0
    <3>1. Alternates(Inner, n)
      BY <1>1, GoodAlternates
    <3>. QED  BY <1>1, <2>1, <3>1, GoodEnds
  <2>3. ~Doomed' /\ Total' = Total
    BY <1>2, <1>3, <1>6, <2>1 DEF Total
  <2>. QED  BY <1>2, <1>3, <2>1, <2>2, <2>3 DEF Blameless
<1>8. CASE OneEnd
  BY <1>3, <1>8 DEF OneEnd, Scanning
<1>9. CASE OneReject \/ ScanReject
  BY <1>4, <1>9 DEF OneReject, ScanReject
<1>10. CASE ScanEmpty
  BY <1>4, <1>10 DEF ScanEmpty
<1>11. CASE OneWindow
  <2>1. /\ pc = "one" /\ Advances /\ Valid # <<>> /\ Good = Len(Valid)
        /\ Total + Len(Valid) <= n /\ Len(Valid) \in Nat
        /\ StepEnd = 2 * (Total + Len(Valid)) - 1 /\ StepEnd = Valid[Len(Valid)].end
    BY <1>4, <1>11 DEF OneWindow
  <2>2. ~(Good < Len(Valid)) /\ Len(Valid) # 0
    <3>1. Valid \in Seq(Chunk)
      BY <2>1, ValidIs
    <3>. QED  BY <2>1, <3>1
  <2>3. /\ UNCHANGED <<raw, taskCh, work, fatal, errCh>> /\ pc' = "window"
        /\ itemsFound' = itemsFound + Len(Valid) /\ offset' = StepEnd /\ prevElemEnd' = StepEnd
    BY <1>11, <2>1, <2>2 DEF OneWindow, argVars, chanVars
  <2>4. ~Doomed' /\ Total' = Total + Len(Valid)
    <3>1. ~Doomed'
      BY <1>3, <1>6, <2>3
    <3>2. Total' = itemsFound' /\ Total = itemsFound
      BY <1>1, <1>2, <2>1, <2>3 DEF Total
    <3>. QED  BY <2>3, <3>1, <3>2
  <2>5. Total' \in 0 .. n /\ Total' # 0 /\ prevElemEnd' = 2 * Total' - 1
    BY <1>1, <1>2, <2>1, <2>2, <2>3, <2>4
  <2>. QED  BY <1>3, <2>3, <2>4, <2>5 DEF Blameless
<1>12. CASE CheckErrors
  <2>1. offset < Len(Inner)
    BY <1>1, <1>2, <1>12 DEF CheckErrors
  <2>2. UNCHANGED <<raw, taskCh, work, fatal, errCh, itemsFound, offset, prevElemEnd>> /\ pc = "check" /\ pc' = "split"
    BY <1>3, <1>12, <2>1 DEF CheckErrors, argVars, scanVars
  <2>3. ~Doomed' /\ Total' = Total
    BY <1>2, <1>3, <1>6, <2>2 DEF Total
  <2>. QED  BY <1>2, <1>3, <2>2, <2>3 DEF Blameless
<1>13. CASE ScanEnd
  <2>1. pc = "many" /\ ~Advances /\ chunks # <<>> /\ Total = n
    BY <1>4, <1>13 DEF ScanEnd
  <2>2. UNCHANGED <<raw, taskCh, work, errCh, itemsFound, offset, prevElemEnd>> /\ pc' = "cleanup" /\ ~fatal'
    BY <1>13, <2>1 DEF ScanEnd, argVars, scanVars, chanVars
  <2>3. ~Doomed' /\ Total' = Total
    BY <1>2, <1>3, <1>6, <2>1, <2>2 DEF Total
  <2>. QED  BY <1>2, <2>1, <2>2, <2>3 DEF Blameless
<1>14. CASE ScanBatch
  <2>1. /\ pc = "many" /\ Advances /\ Valid # <<>> /\ ~Spoilt(Task)
        /\ Total + Len(Valid) <= n /\ Len(Valid) \in Nat
        /\ StepEnd = 2 * (Total + Len(Valid)) - 1 /\ StepEnd = Valid[Len(Valid)].end
    BY <1>4, <1>14 DEF ScanBatch
  <2>2. Len(Valid) # 0
    <3>1. Valid \in Seq(Chunk)
      BY <2>1, ValidIs
    <3>. QED  BY <2>1, <3>1
  <2>3. /\ UNCHANGED <<raw, taskCh, work, errCh, fatal, itemsFound, chunks>> /\ pc' = "send"
        /\ prevElemEnd' = Valid[Len(Valid)].end
    BY <1>14 DEF ScanBatch, argVars, bufVars, chanVars
  <2>4. Inner' = Inner /\ StepEnd' = StepEnd /\ Valid' = Valid /\ Task' = Task
    BY <2>3 DEF Inner, StepEnd, Valid, Task
  <2>5. Total' = Total + Len(Valid)
    BY <1>2, <2>1, <2>3, <2>4 DEF Total
  <2>6. ~Doomed'
    <3>1. (\A i \in 1 .. Len(taskCh') : ~Spoilt(taskCh'[i]))
          /\ (\A w \in Workers : Busy(w)' => ~Spoilt(work'[w]))
      BY <1>5, <2>3 DEF Busy
    <3>. QED  BY <1>3, <2>1, <2>3, <2>4, <3>1 DEF Doomed, Spoilt, Decodes
  <2>7. Total' \in 0 .. n /\ Total' # 0 /\ prevElemEnd' = 2 * Total' - 1 /\ prevElemEnd' = StepEnd'
    BY <1>1, <1>2, <2>1, <2>2, <2>3, <2>4, <2>5
  <2>. QED  BY <1>3, <2>3, <2>6, <2>7 DEF Blameless
<1>15. CASE CloseTasks
  <2>1. /\ UNCHANGED <<raw, taskCh, work, errCh, fatal, itemsFound, offset, prevElemEnd>>
        /\ pc = "cleanup" /\ pc' = "wait"
    BY <1>15 DEF CloseTasks, argVars, scanVars
  <2>2. ~Doomed' /\ Total' = Total
    BY <1>2, <1>3, <1>6, <2>1 DEF Total
  <2>. QED  BY <1>2, <1>3, <2>1, <2>2 DEF Blameless
<1>16. CASE Return
  <2>1. Total = n /\ prevElemEnd \in Nat /\ Len(Inner) = prevElemEnd + 1
    BY <1>1, <1>2, <1>16 DEF Return
  <2>2. Inner[prevElemEnd + 1] = "rbracket"
    <3>1. CASE n = 0
      BY <1>1, <1>2, <2>1, <3>1, GoodArrayIs
    <3>2. CASE n # 0
      <4>1. prevElemEnd + 1 = 2 * n /\ n > 0
        BY <1>1, <1>2, <2>1, <3>2
      <4>2. GoodArray(n)[2 * n] = "rbracket"
        BY <1>1, <4>1, GoodArrayIs
      <4>. QED  BY <4>1, <4>2
    <3>. QED  BY <3>1, <3>2
  <2>3. ClosedAt(Inner, prevElemEnd)
    BY <1>1, <2>1, <2>2, ClosedAtIs
  <2>. QED  BY <1>3, <1>16, <2>3 DEF Return, LateError, Scanning
<1>. QED  BY <1>7, <1>8, <1>9, <1>10, <1>11, <1>12, <1>13, <1>14, <1>15, <1>16

\* The loop starts, the splitter hands a batch over, a worker works.
LEMMA StartBlameless ==
    ASSUME IInv, OkInv, StartOne \/ StartMany, NEW n \in 0 .. capacity
    PROVE  ~fatal' /\ Blameless(n)'
<1>. USE DEF OkInv
<1>1. /\ UNCHANGED <<itemsFound, prevElemEnd, offset, taskCh, fatal, errCh>>
      /\ pc = "enter" /\ pc' \in {"window", "check"}
  BY DEF StartOne, StartMany, argVars, scanVars, chanVars
<1>2. taskCh = <<>> /\ \A w \in Workers : ~Busy(w)'
  <2>1. taskCh = <<>> /\ \A w \in Workers : work[w] = Unborn
    BY <1>1 DEF IInv, Alone
  <2>2. ~(Unborn.base >= 0) /\ ~(Idle.base >= 0)
    BY DEF Unborn, Idle
  <2>3. \A w \in Workers : work'[w] \in {Unborn, Idle}
    BY <2>1 DEF StartOne, StartMany
  <2>. QED  BY <2>1, <2>2, <2>3 DEF Busy
<1>3. itemsFound = 0 /\ prevElemEnd = 0 /\ offset = 0 /\ errCh = 0 /\ ~fatal
  BY <1>1 DEF Accepted, Fresh, Loop
<1>4. Len(taskCh) = 0
  BY <1>2
<1>5. ~Doomed'
  BY <1>1, <1>2, <1>3, <1>4 DEF Doomed
<1>6. Total' = 0 /\ 0 \in 0 .. n
  BY <1>1, <1>3 DEF Total, IInv, Shape
<1>. QED  BY <1>1, <1>3, <1>5, <1>6 DEF Blameless

LEMMA SendBlameless ==
    ASSUME IInv, OkInv, BlameInv, Send, NEW n \in 0 .. capacity, Inner = GoodArray(n)
    PROVE  ~fatal' /\ Blameless(n)'
<1>. USE DEF OkInv
<1>1. /\ UNCHANGED <<raw, work, errCh, fatal, prevElemEnd>> /\ pc = "send" /\ pc' = "check"
      /\ taskCh' = Append(taskCh, Task) /\ itemsFound' = itemsFound + Len(Valid) /\ offset' = StepEnd
  BY DEF Send, argVars, bufVars
<1>2. /\ ~Doomed /\ Total \in 0 .. n /\ prevElemEnd = StepEnd
      /\ prevElemEnd = IF Total = 0 THEN 0 ELSE 2 * Total - 1
  <2>1. Scanning
    BY <1>1 DEF Scanning
  <2>. QED  BY <1>1, <2>1 DEF BlameInv, Blameless
<1>3. Inner' = Inner /\ Total' = Total
  BY <1>1 DEF Inner, Total
<1>4. ASSUME NEW i \in 1 .. Len(taskCh') PROVE ~Spoilt(taskCh'[i])
  <2>1. PICK S : taskCh \in Seq(S)
    BY DEF IInv, Shape
  <2>2. taskCh'[i] = Task \/ (i \in 1 .. Len(taskCh) /\ taskCh'[i] = taskCh[i])
    BY <1>1, <2>1
  <2>. QED  BY <1>1, <1>2, <2>2 DEF Doomed
<1>5. \A w \in Workers : Busy(w)' => ~Spoilt(work'[w])
  BY <1>1, <1>2 DEF Busy, Doomed
<1>6. ~Doomed'
  BY <1>1, <1>2, <1>3, <1>4, <1>5 DEF Doomed, Spoilt, Decodes
<1>. QED  BY <1>1, <1>2, <1>3, <1>6 DEF Blameless, Doomed

LEMMA WorkBlameless ==
    ASSUME IInv, OkInv, BlameInv, NEW w \in Workers, Worker(w), NEW n \in 0 .. capacity,
           Inner = GoodArray(n)
    PROVE  UNCHANGED <<pc, fatal>> /\ (Scanning => Blameless(n)')
<1>. USE DEF OkInv
<1>1. UNCHANGED <<raw, pc, fatal, itemsFound, prevElemEnd, offset, chunks, maxDepth>>
  BY DEF Worker, TakeTask, ParseElement, ParseFails, FinishTask, WorkerExit, argVars, scanVars,
     bufVars, chanVars
<1>. SUFFICES ASSUME Scanning PROVE Blameless(n)'
  BY <1>1
<1>2. Inner' = Inner /\ Valid' = Valid /\ Task' = Task /\ Total' = Total /\ StepEnd' = StepEnd
  BY <1>1 DEF Inner, Valid, Task, Total, StepEnd
<1>3. Blameless(n)
  BY DEF BlameInv
<1>4. /\ ~fatal /\ ~(errCh > 0) /\ (pc = "send" => ~Spoilt(Task))
      /\ \A i \in 1 .. Len(taskCh) : ~Spoilt(taskCh[i])
      /\ \A v \in Workers : Busy(v) => ~Spoilt(work[v])
  BY <1>3 DEF Blameless, Doomed
<1>5. PICK R : work \in [Workers -> R]
  BY DEF IInv, Shape
<1>6. PICK S : taskCh \in Seq(S)
  BY DEF IInv, Shape
<1>7. ~ParseFails(w)
  <2>. SUFFICES ASSUME ParseFails(w) PROVE FALSE
    OBVIOUS
  <2>1. Busy(w) /\ work[w].at <= Len(work[w].chunks) /\ ~Decodes(work[w].chunks[work[w].at])
    BY DEF ParseFails, Current
  <2>2. work[w].at \in 1 .. Len(work[w].chunks) /\ work[w].at <= work[w].at
    BY <2>1 DEF Loop, IsBatch
  <2>3. Spoilt(work[w])
    BY <2>1, <2>2 DEF Spoilt
  <2>. QED  BY <1>4, <2>1, <2>3
<1>8. errCh' = errCh
  BY <1>7 DEF Worker, TakeTask, ParseElement, FinishTask, WorkerExit, chanVars
<1>9. /\ \A i \in 1 .. Len(taskCh') : ~Spoilt(taskCh'[i])
      /\ \A v \in Workers : Busy(v)' => ~Spoilt(work'[v])
  <2>1. CASE TakeTask(w)
    <3>1. /\ Len(taskCh) \in Nat \ {0} /\ Len(taskCh') = Len(taskCh) - 1
          /\ \A i \in 1 .. Len(taskCh') : taskCh'[i] = taskCh[i + 1] /\ i + 1 \in 1 .. Len(taskCh)
          /\ Head(taskCh) = taskCh[1] /\ 1 \in 1 .. Len(taskCh)
      BY <1>6, <2>1 DEF TakeTask
    <3>2. work'[w] = taskCh[1] /\ \A v \in Workers \ {w} : work'[v] = work[v]
      BY <1>5, <2>1, <3>1 DEF TakeTask
    <3>. QED  BY <1>4, <3>1, <3>2 DEF Busy
  <2>2. CASE ParseElement(w)
    <3>1. work' = [work EXCEPT ![w].at = work[w].at + 1] /\ taskCh' = taskCh /\ Busy(w)
      BY <2>2 DEF ParseElement, chanVars
    <3>2. IsTask(work[w]) /\ work[w].at \in Nat
      BY <3>1 DEF IInv, Shape, Loop, IsBatch
    <3>3. /\ work'[w].chunks = work[w].chunks /\ work'[w].at = work[w].at + 1
          /\ \A v \in Workers \ {w} : work'[v] = work[v]
      BY <1>5, <3>1, <3>2 DEF IsTask
    <3>4. ~Spoilt(work'[w])
      <4>1. ~Spoilt(work[w])
        BY <1>4, <3>1
      <4>2. \A j \in 1 .. Len(work[w].chunks) : work[w].at + 1 <= j => work[w].at <= j
        BY <3>2
      <4>. QED  BY <3>3, <4>1, <4>2 DEF Spoilt
    <3>. QED  BY <1>4, <3>1, <3>3, <3>4 DEF Busy
  <2>3. CASE FinishTask(w) \/ WorkerExit(w)
    <3>1. PICK g \in {Idle, Gone} : work' = [work EXCEPT ![w] = g] /\ taskCh' = taskCh
      BY <2>3 DEF FinishTask, WorkerExit, chanVars
    <3>2. ~Busy(w)' /\ \A v \in Workers \ {w} : work'[v] = work[v]
      BY <1>5, <3>1 DEF Busy, Idle, Gone
    <3>. QED  BY <1>4, <3>1, <3>2 DEF Busy
  <2>. QED  BY <1>7, <2>1, <2>2, <2>3 DEF Worker
<1>10. ~Doomed'
  <2>. HIDE DEF Task
  <2>. QED  BY <1>1, <1>2, <1>4, <1>8, <1>9 DEF Doomed, Spoilt, Decodes
<1>. QED  BY <1>1, <1>2, <1>3, <1>10 DEF Blameless

\* ErrorsHaveCause: when the call fails, the input is not an array of decodable elements
\* that fits into the slice.
THEOREM ErrorsHaveCauseHolds == Spec => []ErrorsHaveCause
<1>1. Init => BlameInv
  BY DEF Init, BlameInv, ErrorsHaveCause, Scanning
<1>2. ASSUME IInv, OkInv, OkInv', BlameInv, [Next]_vars PROVE BlameInv'
  <2>1. UNCHANGED <<raw, capacity>>
    BY <1>2 DEF Next, Caller, Worker, Refuse, ReturnNothing, StartOne, StartMany, SplitWindow,
       OneEnd,
                OneReject, OneWindow, CheckErrors, ScanEnd, ScanReject, ScanEmpty, ScanBatch, Send,
                CloseTasks, Return, TakeTask, ParseElement, ParseFails, FinishTask, WorkerExit,
                     argVars, vars
  <2>2. Inner' = Inner /\ (Scanned' <=> Scanned) /\ \A n : GoodArray(n)' = GoodArray(n)
    BY <2>1 DEF Inner, Scanned
  <2>. SUFFICES ASSUME Scanned, NEW n \in 0 .. capacity, Inner = GoodArray(n)
                PROVE  (pc' = "done" => ~fatal') /\ (Scanning' => Blameless(n)')
    <3>1. BlameInv' <=> /\ pc' = "done" /\ fatal' /\ Scanned => \A n \in 0 .. capacity : Inner # GoodArray(n)
                        /\ \A n \in 0 .. capacity : Scanning' /\ Inner = GoodArray(n) => Blameless(n)'
      BY <2>1, <2>2 DEF BlameInv, ErrorsHaveCause
    <3>2. Scanning' => Scanned
      BY <1>2, <2>2 DEF OkInv, Loop
    <3>. QED  BY <3>1, <3>2
  <2>3. pc = "done" => ~fatal
    BY <1>2 DEF BlameInv, ErrorsHaveCause
  <2>4. CASE Refuse
    BY <2>4 DEF Refuse, Scanned
  <2>5. CASE ReturnNothing
    BY <1>2, <2>5 DEF ReturnNothing, Scanning, OkInv, Loop
  <2>6. CASE StartOne \/ StartMany
    BY <1>2, <2>6, StartBlameless
  <2>7. CASE \/ SplitWindow \/ OneEnd \/ OneReject \/ OneWindow \/ CheckErrors \/ ScanEnd \/ ScanReject
             \/ ScanEmpty \/ ScanBatch \/ CloseTasks \/ Return
    BY <1>2, <2>7, CallerBlameless
  <2>8. CASE Send
    BY <1>2, <2>8, SendBlameless
  <2>9. ASSUME NEW w \in Workers, Worker(w) PROVE (pc' = "done" => ~fatal') /\ (Scanning' => Blameless(n)')
    BY <1>2, <2>3, <2>9, WorkBlameless DEF Scanning
  <2>10. CASE UNCHANGED vars
    BY <1>2, <2>3, <2>10 DEF BlameInv, Blameless, Doomed, Spoilt, Decodes, Busy, Task, Total,
       Valid, StepEnd,
       Scanning, Inner, vars, argVars, scanVars, bufVars, chanVars
  <2>. QED  BY <1>2, <2>4, <2>5, <2>6, <2>7, <2>8, <2>9, <2>10 DEF Next, Caller
<1>3. BlameInv => ErrorsHaveCause
  BY DEF BlameInv
<1>. QED  BY <1>1, <1>2, <1>3, OkInvHolds, PTL DEF Spec
=============================================================================
