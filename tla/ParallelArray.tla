--------------------------- MODULE ParallelArray ---------------------------
(***************************************************************************)
(* UnmarshalArrayParallel (src/parallel.go:346-587).  The calling          *)
(* goroutine splits the array window by window and sends batches of        *)
(* element boundaries to the workers, which decode them straight into the  *)
(* caller's slice; errors come back on a bounded channel.  With one        *)
(* processor the same loop decodes by itself.                              *)
(*                                                                         *)
(* The tokens are those of ArrayScan: "e" is an element that decodes, "x"  *)
(* one that does not.                                                      *)
(***************************************************************************)
EXTENDS ArrayScan

CONSTANTS
    Workers,      \* the worker goroutines
    Inputs,       \* the inputs to consider
    Capacities    \* the lengths of the caller's slice to consider

\* Batch is batchSize, the chunks of a window: 1024 in the code.
ASSUME ArrayAssumption ==
    /\ IsFiniteSet(Workers) /\ Workers # {}
    /\ Batch \in Nat \ {0, 1}
    /\ Inputs \subseteq Seq({"e", "x", "comma", "lbracket", "rbracket"})
    /\ Capacities \subseteq Nat

VARIABLES
    raw, capacity, cores,     \* arguments, and what GOMAXPROCS says: "one", "many"
    pc, offset, itemsFound,   \* the caller's goroutine and its counters
    prevElemEnd, hadElements,
    chunks, maxDepth,         \* the chunk buffer, and the depth the splitter returned
    fatal,                    \* whether fatalErr is set
    taskCh, tasksClosed,
    errCh,                    \* how many errors lie in the channel
    work,                     \* worker -> Unborn, Idle, Gone or the batch it decodes
    dst,                      \* slot -> offset of the element in it, Zero or Torn
    bufs                      \* chunk buffers taken from the pool and not put back

argVars  == <<raw, capacity, cores>>
bufVars  == <<chunks, maxDepth>>
scanVars == <<offset, itemsFound, prevElemEnd, hadElements>>
chanVars == <<taskCh, tasksClosed, errCh>>
vars == <<argVars, pc, scanVars, bufVars, fatal, chanVars, work, dst, bufs>>

Zero == -1   \* nothing was decoded into it
Torn == -2   \* decoding into it failed half way

Unborn == [base |-> -1, chunks |-> <<>>, at |-> 1]
Idle   == [base |-> -2, chunks |-> <<>>, at |-> 1]
Gone   == [base |-> -3, chunks |-> <<>>, at |-> 1]

TaskCapacity == 2 * Cardinality(Workers)

\* What follows the opening bracket.
Inner == Tail(raw)

-----------------------------------------------------------------------------
(* What the loop asks of the chunks in the buffer.                         *)

\* There are chunks, and the last one ends ahead.
Advances == chunks # <<>> /\ chunks[Len(chunks)].end # offset

StepEnd == chunks[Len(chunks)].end

Unbalanced == maxDepth # 0 /\ Len(chunks) < Batch

Valid == Filled(chunks)

\* Mutant of GapsValid: every window is taken for the start of the array.
GapsValidInWindow ==
    \A k \in DOMAIN Valid :
      Gap(Inner, IF k > 1 THEN Valid[k - 1].end ELSE offset, Valid[k].start)
        = IF k > 1 THEN <<"comma">> ELSE <<>>

\* Before each element of the window stands what must: one comma, or nothing
\* if it is the first of the array.  A window reached before any element was
\* seen starts with a comma of its own.
GapsValid ==
    LET first == IF ~hadElements /\ offset > 0 THEN offset ELSE prevElemEnd
    IN  \A k \in DOMAIN Valid :
          Gap(Inner, IF k > 1 THEN Valid[k - 1].end ELSE first, Valid[k].start)
            = IF k > 1 \/ hadElements \/ offset > 0 THEN <<"comma">> ELSE <<>>

\* Mutant of Fits: one element too many.
FitsAlmost == itemsFound + Len(Valid) \in itemsFound .. (capacity + 1)

Fits == itemsFound + Len(Valid) \in itemsFound .. capacity

\* A chunk that parseObjectStrict accepts.
Decodes(c) == Gap(Inner, c.start, c.end) = <<"e">>

-----------------------------------------------------------------------------
Init ==
    /\ raw \in Inputs /\ capacity \in Capacities /\ cores \in {"one", "many"}
    /\ pc = "enter" /\ offset = 0 /\ itemsFound = 0
    /\ prevElemEnd = 0 /\ hadElements = FALSE
    /\ chunks = <<>> /\ maxDepth = 0 /\ fatal = FALSE
    /\ taskCh = <<>> /\ tasksClosed = FALSE /\ errCh = 0
    /\ work = [w \in Workers |-> Unborn]
    /\ dst = [s \in 0 .. (capacity - 1) |-> Zero]
    /\ bufs = 0

-----------------------------------------------------------------------------
(* The call is answered before anything is scanned, or the loop starts.    *)

Refuse ==
    /\ pc = "enter" /\ raw # <<>> /\ raw[1] # "lbracket"
    /\ fatal' = TRUE /\ pc' = "done"
    /\ UNCHANGED <<argVars, scanVars, bufVars, chanVars, work, dst, bufs>>

ReturnNothing ==
    /\ pc = "enter" /\ (raw # <<>> => raw[1] = "lbracket" /\ capacity = 0)
    /\ pc' = "done"
    /\ UNCHANGED <<argVars, scanVars, bufVars, fatal, chanVars, work, dst, bufs>>

StartOne ==
    /\ pc = "enter" /\ raw # <<>> /\ raw[1] = "lbracket" /\ capacity > 0 /\ cores = "one"
    /\ bufs' = bufs + 1
    /\ pc' = "window"
    /\ UNCHANGED <<argVars, scanVars, bufVars, fatal, chanVars, work, dst>>

StartMany ==
    /\ pc = "enter" /\ raw # <<>> /\ raw[1] = "lbracket" /\ capacity > 0 /\ cores = "many"
    /\ work' = [w \in Workers |-> Idle]
    /\ pc' = "check"
    /\ UNCHANGED <<argVars, scanVars, bufVars, fatal, chanVars, dst, bufs>>

-----------------------------------------------------------------------------
(* Both loops: a window is split into the buffer.                          *)

SplitWindow ==
    /\ pc \in {"window", "split"} /\ offset < Len(Inner)
    /\ chunks' = Split(Inner, offset) /\ maxDepth' = DepthLeft(Inner, offset)
    /\ pc' = IF pc = "window" THEN "one" ELSE "many"
    /\ UNCHANGED <<argVars, scanVars, fatal, chanVars, work, dst, bufs>>

-----------------------------------------------------------------------------
(* One processor.                                                          *)

\* Nothing more to scan; the tail is not looked at.
OneEnd ==
    /\ \/ pc = "window" /\ offset >= Len(Inner)
       \/ pc = "one" /\ ~Advances
    /\ bufs' = bufs - 1
    /\ pc' = "done"
    /\ UNCHANGED <<argVars, scanVars, bufVars, fatal, chanVars, work, dst>>

\* A bad separator puts the buffer back once more than the end of the loop does.
OneReject ==
    /\ pc = "one" /\ Advances
    /\ \/ Unbalanced \/ ~GapsValid \/ ~Fits
       \/ Valid = <<>> /\ ~ClosedAt(Inner, offset)
    /\ fatal' = TRUE
    /\ bufs' = IF ~Unbalanced /\ ~GapsValid THEN bufs - 2 ELSE bufs - 1
    /\ pc' = "done"
    /\ UNCHANGED <<argVars, scanVars, bufVars, chanVars, work, dst>>

\* How many elements of the window decode before one fails.
Good == Cardinality({k \in DOMAIN Valid : \A j \in 1 .. k : Decodes(Valid[j])})

OneWindow ==
    /\ pc = "one" /\ Advances
    /\ ~Unbalanced /\ GapsValid /\ Fits
    /\ Valid # <<>> \/ ClosedAt(Inner, offset)
    /\ dst' = [s \in DOMAIN dst |->
                 CASE s - itemsFound \in 0 .. (Good - 1) -> Valid[s - itemsFound + 1].start
                   [] s = itemsFound + Good /\ Good < Len(Valid) -> Torn
                   [] OTHER -> dst[s]]
    /\ IF Good < Len(Valid)
       THEN /\ fatal' = TRUE /\ pc' = "done" /\ bufs' = bufs - 1
            /\ UNCHANGED scanVars
       ELSE /\ itemsFound' = itemsFound + Len(Valid)
            /\ offset' = StepEnd
            /\ prevElemEnd' = IF Valid = <<>> THEN prevElemEnd ELSE Valid[Len(Valid)].end
            /\ hadElements' = (hadElements \/ Valid # <<>>)
            /\ pc' = "window"
            /\ UNCHANGED <<fatal, bufs>>
    /\ UNCHANGED <<argVars, bufVars, chanVars, work>>

-----------------------------------------------------------------------------
(* More than one: the splitter.                                            *)

\* Head of the loop.
CheckErrors ==
    /\ pc = "check"
    /\ IF offset < Len(Inner) /\ errCh > 0
       THEN errCh' = errCh - 1 /\ fatal' = TRUE ELSE UNCHANGED <<errCh, fatal>>
    /\ pc' = IF offset < Len(Inner) /\ errCh = 0 THEN "split" ELSE "cleanup"
    /\ UNCHANGED <<argVars, scanVars, bufVars, taskCh, tasksClosed, work, dst, bufs>>

\* No chunk, or one that does not advance: the end, or an unfinished element.
ScanEnd ==
    /\ pc = "many" /\ ~Advances
    /\ fatal' = (chunks = <<>> /\ ~ClosedAt(Inner, offset))
    /\ pc' = "cleanup"
    /\ UNCHANGED <<argVars, scanVars, bufVars, chanVars, work, dst, bufs>>

ScanReject ==
    /\ pc = "many" /\ Advances
    /\ Unbalanced \/ ~GapsValid \/ ~Fits
    /\ fatal' = TRUE /\ pc' = "cleanup"
    /\ UNCHANGED <<argVars, scanVars, bufVars, chanVars, work, dst, bufs>>

ScanEmpty ==
    /\ pc = "many" /\ Advances /\ ~Unbalanced /\ Valid = <<>>
    /\ offset' = StepEnd /\ pc' = "check"
    /\ UNCHANGED <<argVars, itemsFound, prevElemEnd, hadElements, bufVars, fatal,
                   chanVars, work, dst, bufs>>

\* The buffer goes along with the batch.
ScanBatch ==
    /\ pc = "many" /\ Advances /\ ~Unbalanced /\ Valid # <<>> /\ GapsValid /\ Fits
    /\ prevElemEnd' = Valid[Len(Valid)].end /\ hadElements' = TRUE
    /\ bufs' = bufs + 1
    /\ pc' = "send"
    /\ UNCHANGED <<argVars, offset, itemsFound, bufVars, fatal, chanVars, work, dst>>

Task == [base |-> itemsFound, chunks |-> Valid, at |-> 1]

HasRoom == Len(taskCh) < TaskCapacity

Send ==
    /\ pc = "send" /\ HasRoom
    /\ taskCh' = Append(taskCh, Task)
    /\ itemsFound' = itemsFound + Len(Valid)
    /\ offset' = StepEnd
    /\ pc' = "check"
    /\ UNCHANGED <<argVars, prevElemEnd, hadElements, bufVars, fatal, tasksClosed,
                   errCh, work, dst, bufs>>

-----------------------------------------------------------------------------
(* CLEANUP.                                                                *)

CloseTasks ==
    /\ pc = "cleanup"
    /\ tasksClosed' = TRUE /\ pc' = "wait"
    /\ UNCHANGED <<argVars, scanVars, bufVars, fatal, taskCh, errCh, work, dst, bufs>>

\* Mutant of Waited: wg.Wait is left out.
NeverWaited == TRUE

Waited == \A w \in Workers : work[w] = Gone

\* Mutant of LateError: the error channel is not looked at once more.
NoLateError == FALSE

LateError == errCh > 0

\* The check of the array's tail, and of errors that came late.
Return ==
    /\ pc = "wait" /\ Waited
    /\ fatal' = (fatal \/ ~ClosedAt(Inner, prevElemEnd) \/ LateError)
    /\ errCh' = IF errCh > 0 THEN errCh - 1 ELSE 0
    /\ pc' = "done"
    /\ UNCHANGED <<argVars, scanVars, bufVars, taskCh, tasksClosed, work, dst, bufs>>

-----------------------------------------------------------------------------
(* A worker.                                                               *)

Busy(w) == work[w].base >= 0
Current(w) == work[w].chunks[work[w].at]

TakeTask(w) ==
    /\ work[w] = Idle /\ taskCh # <<>>
    /\ work' = [work EXCEPT ![w] = Head(taskCh)]
    /\ taskCh' = Tail(taskCh)
    /\ UNCHANGED <<argVars, pc, scanVars, bufVars, fatal, tasksClosed, errCh, dst, bufs>>

ParseElement(w) ==
    /\ Busy(w) /\ work[w].at <= Len(work[w].chunks) /\ Decodes(Current(w))
    /\ dst' = [dst EXCEPT ![work[w].base + work[w].at - 1] = Current(w).start]
    /\ work' = [work EXCEPT ![w].at = @ + 1]
    /\ UNCHANGED <<argVars, pc, scanVars, bufVars, fatal, chanVars, bufs>>

\* Mutant of ParseFails: the error is sent for good.
ParseFailsBlocking(w) ==
    /\ Busy(w) /\ work[w].at <= Len(work[w].chunks) /\ ~Decodes(Current(w))
    /\ errCh < Cardinality(Workers) /\ errCh' = errCh + 1
    /\ dst' = [dst EXCEPT ![work[w].base + work[w].at - 1] = Torn]
    /\ work' = [work EXCEPT ![w].at = Len(work[w].chunks) + 1]
    /\ UNCHANGED <<argVars, pc, scanVars, bufVars, fatal, taskCh, tasksClosed, bufs>>

\* Mutant of ParseFails: the worker returns, its buffer with it.
ParseFailsReturn(w) ==
    /\ Busy(w) /\ work[w].at <= Len(work[w].chunks) /\ ~Decodes(Current(w))
    /\ errCh' = IF errCh < Cardinality(Workers) THEN errCh + 1 ELSE errCh
    /\ dst' = [dst EXCEPT ![work[w].base + work[w].at - 1] = Torn]
    /\ work' = [work EXCEPT ![w] = Gone]
    /\ UNCHANGED <<argVars, pc, scanVars, bufVars, fatal, taskCh, tasksClosed, bufs>>

\* The error is dropped when the channel is full; the rest of the batch is left.
ParseFails(w) ==
    /\ Busy(w) /\ work[w].at <= Len(work[w].chunks) /\ ~Decodes(Current(w))
    /\ errCh' = IF errCh < Cardinality(Workers) THEN errCh + 1 ELSE errCh
    /\ dst' = [dst EXCEPT ![work[w].base + work[w].at - 1] = Torn]
    /\ work' = [work EXCEPT ![w].at = Len(work[w].chunks) + 1]
    /\ UNCHANGED <<argVars, pc, scanVars, bufVars, fatal, taskCh, tasksClosed, bufs>>

FinishTask(w) ==
    /\ Busy(w) /\ work[w].at > Len(work[w].chunks)
    /\ work' = [work EXCEPT ![w] = Idle]
    /\ bufs' = bufs - 1
    /\ UNCHANGED <<argVars, pc, scanVars, bufVars, fatal, chanVars, dst>>

WorkerExit(w) ==
    /\ work[w] = Idle /\ taskCh = <<>> /\ tasksClosed
    /\ work' = [work EXCEPT ![w] = Gone]
    /\ UNCHANGED <<argVars, pc, scanVars, bufVars, fatal, chanVars, dst, bufs>>

Worker(w) == \/ TakeTask(w) \/ ParseElement(w) \/ ParseFails(w)
             \/ FinishTask(w) \/ WorkerExit(w)

Caller == \/ Refuse \/ ReturnNothing \/ StartOne \/ StartMany
          \/ SplitWindow \/ OneEnd \/ OneReject \/ OneWindow
          \/ CheckErrors \/ ScanEnd \/ ScanReject \/ ScanEmpty \/ ScanBatch \/ Send
          \/ CloseTasks \/ Return

Next == Caller \/ \E w \in Workers : Worker(w)

Spec == Init /\ [][Next]_vars

\* Every goroutine runs.
FairSpec == Spec /\ WF_vars(Caller) /\ \A w \in Workers : WF_vars(Worker(w))

-----------------------------------------------------------------------------
(* Properties.                                                             *)

\* A good array of n elements.
GoodArray(n) == Array([k \in 1 .. n |-> "e"])

\* Commas in front of the first element that the window arithmetic lets pass:
\* they fill whole windows.
Forgiven == {0} \cup {1 + j * (Batch - 1) : j \in 1 .. Len(raw)}

Scanned == raw # <<>> /\ raw[1] = "lbracket" /\ capacity > 0

\* Success means the whole array: every token belongs to it, and slot k holds
\* its k-th element, whichever worker wrote it and however late an error came.
\* With one processor the tail goes unchecked and the elements returned are
\* those the input starts with (parallel.go:354-361, 452, 571-586).
OkIsComplete ==
    pc = "done" /\ ~fatal /\ Scanned =>
      \E k \in Forgiven :
        /\ cores = "many" => Inner = [p \in 1 .. k |-> "comma"] \o GoodArray(itemsFound)
        /\ cores = "one"  => k + 2 * itemsFound - 1 <= Len(Inner)
        /\ \A s \in 0 .. (itemsFound - 1) : dst[s] = k + 2 * s

\* A good array that fits is never refused: no window boundary, and no order
\* of the workers, makes an error (parallel.go:386-453, 482-564).
ErrorsHaveCause ==
    pc = "done" /\ fatal /\ Scanned => \A n \in 0 .. capacity : Inner # GoodArray(n)

Slots(b) == b.base .. ((b.base + Len(b.chunks)) - 1)

InSlice(b) == Slots(b) \subseteq 0 .. (capacity - 1)

Apart(b, c) == Slots(b) \cap Slots(c) = {}

\* Workers write through computed pointers: a batch stays inside the caller's
\* slice, and no two batches, in hand or on their way, meet
\* (parallel.go:467, 547-555).
WritesApart ==
    /\ \A w \in Workers : Busy(w) =>
         /\ InSlice(work[w])
         /\ \A v \in Workers \ {w} : Busy(v) => Apart(work[v], work[w])
         /\ \A i \in 1 .. Len(taskCh) : Apart(work[w], taskCh[i])
    /\ \A i \in 1 .. Len(taskCh) :
         /\ InSlice(taskCh[i])
         /\ \A j \in 1 .. (i - 1) : Apart(taskCh[j], taskCh[i])

\* When the call has returned nobody writes to the slice any more
\* (parallel.go:566-568).
NoLateWrites == [][pc = "done" => UNCHANGED dst]_vars

\* Every buffer is put back, once, except that one processor puts it back twice
\* after a bad separator (parallel.go:378-448, 477, 490-561).
BuffersReturned ==
    pc = "done" => \/ bufs = 0
                   \/ bufs = -1 /\ cores = "one" /\ fatal /\ ~GapsValid

\* The call returns: workers never wait for the splitter to take their errors,
\* and the splitter always finds a worker to take its batches
\* (parallel.go:469-472, 551, 567-568).
CallReturns == <>(pc = "done")
=============================================================================
