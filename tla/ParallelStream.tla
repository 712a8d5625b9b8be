--------------------------- MODULE ParallelStream ---------------------------
(***************************************************************************)
(* StreamDecoder.NextChanParallel (src/stream.go:413-555).  A producer     *)
(* takes blocks of raw records off the decoder and gives each to the       *)
(* submitter (batchQueue, in order) and to the workers (taskCh).  A worker *)
(* decodes a block into the shared ring and answers on the block's done    *)
(* channel; the submitter waits for the blocks in turn and sends pointers  *)
(* into the ring to the caller.                                            *)
(*                                                                         *)
(* The input is a list of blocks as NextRawBlock cuts them: how many       *)
(* records, and which of them is the first damaged one (0: none).  Records *)
(* are numbered through from 0; record k lives in slot k % RingSize.       *)
(***************************************************************************)
EXTENDS Integers, Sequences, FiniteSets

CONSTANTS
    Workers,      \* the worker goroutines
    BufferSize,   \* capacity of the caller's channel, after its clamp to 1
    Batch,        \* most records in a block: batchSize, 64 in the code
    Pad,          \* spare slots of the ring: 16 in the code
    Plans         \* the lists of blocks to consider

ASSUME ParallelAssumption ==
    /\ IsFiniteSet(Workers) /\ Workers # {}
    /\ BufferSize \in Nat \ {0} /\ Batch \in Nat \ {0} /\ Pad \in Nat
    /\ Plans \subseteq Seq([count : 1 .. Batch, bad : 0 .. Batch])
    /\ \A p \in Plans : \A b \in DOMAIN p : p[b].bad <= p[b].count

VARIABLES
    plan, ending,           \* the blocks, and what NextRawBlock says after them
    ppc, blocks,            \* the producer, and the batches it has built
    batchQueue, queueClosed,
    taskCh, tasksClosed,
    work,                   \* worker -> the batch it decodes, Idle, or Gone
    done,                   \* batch -> what its done channel holds: "", "ok", "error"
    ring,                   \* slot -> number of the record in it, Zero or Torn
    spc, cur, emitted,      \* the submitter, its batch, records of it sent
    ch, closed,             \* the caller's channel
    received, told, caller  \* as in NextChan

inputVars  == <<plan, ending>>
prodVars   == <<ppc, blocks>>
queueVars  == <<batchQueue, queueClosed>>
taskVars   == <<taskCh, tasksClosed>>
subVars    == <<spc, cur, emitted, closed>>
callerVars == <<received, told, caller>>
vars == <<inputVars, prodVars, queueVars, taskVars, work, done, ring,
          subVars, ch, callerVars>>

Zero    == -1   \* an object nothing was decoded into yet
Torn    == -2   \* an object a worker is, or stopped, writing
Failure == -1   \* a StreamResult with Err set
Idle    == 0
Gone    == -1

RawRingSize == 2 * Cardinality(Workers)

\* Mutant of RingSize: room for the queued blocks only.
RingSizeQueued == BufferSize + RawRingSize * Batch + Pad

RingSize == BufferSize + (RawRingSize + 2) * Batch + Pad

Slot(k) == k % RingSize

-----------------------------------------------------------------------------
(* A batch is its place in the list; the one after the last carries the    *)
(* stream's own error.                                                     *)

StreamError == Len(plan) + 1

\* baseIdx: the records of all batches built before b.
Base(b) == IF b = 1 THEN 0 ELSE blocks[b - 1].base + blocks[b - 1].count

\* What a worker writes.  The block ends before the separator behind its last
\* record and the splitter ends a record only at a separator, so it finds one
\* record less than were counted; decoding stops at a damaged one.
Written(b) == {e \in 1 .. (plan[b].count - 1) : plan[b].bad \in {0} \cup (e .. Batch)}

Detected(b) == plan[b].bad \in 1 .. (plan[b].count - 1)

SlotsOf(b) == {Slot(blocks[b].base + e - 1) : e \in Written(b)}

Init ==
    /\ plan \in Plans /\ ending \in {"EOF", "error"}
    /\ ppc = "read" /\ blocks = <<>>
    /\ batchQueue = <<>> /\ queueClosed = FALSE
    /\ taskCh = <<>> /\ tasksClosed = FALSE
    /\ work = [w \in Workers |-> Idle]
    /\ done = [b \in 1 .. StreamError |-> ""]
    /\ ring = [s \in 0 .. (RingSize - 1) |-> Zero]
    /\ spc = "get" /\ cur = 0 /\ emitted = 0
    /\ ch = <<>> /\ closed = FALSE
    /\ received = 0 /\ told = FALSE /\ caller = "reading"

-----------------------------------------------------------------------------
(* The producer.                                                           *)

ReadBlock ==
    /\ ppc = "read" /\ Len(blocks) < Len(plan)
    /\ LET b == Len(blocks) + 1
       IN  blocks' = Append(blocks, [base |-> Base(b), count |-> plan[b].count])
    /\ ppc' = "enqueue"
    /\ UNCHANGED <<inputVars, queueVars, taskVars, work, done, ring, subVars, ch, callerVars>>

ReadError ==
    /\ ppc = "read" /\ Len(blocks) = Len(plan) /\ ending = "error"
    /\ ppc' = "fail"
    /\ done' = [done EXCEPT ![StreamError] = "error"]
    /\ UNCHANGED <<inputVars, blocks, queueVars, taskVars, work, ring, subVars, ch, callerVars>>

\* Mutant of ReadEOF: the queue of batches is left open.
ReadEOFOpen ==
    /\ ppc = "read" /\ Len(blocks) = Len(plan) /\ ending = "EOF"
    /\ ppc' = "return"
    /\ UNCHANGED <<inputVars, blocks, queueVars, taskVars, work, done, ring, subVars, ch, callerVars>>

ReadEOF ==
    /\ ppc = "read" /\ Len(blocks) = Len(plan) /\ ending = "EOF"
    /\ queueClosed' = TRUE
    /\ ppc' = "return"
    /\ UNCHANGED <<inputVars, blocks, batchQueue, taskVars, work, done, ring, subVars, ch, callerVars>>

Enqueue ==
    /\ ppc = "enqueue" /\ Len(batchQueue) < RawRingSize
    /\ batchQueue' = Append(batchQueue, Len(blocks))
    /\ ppc' = "dispatch"
    /\ UNCHANGED <<inputVars, blocks, queueClosed, taskVars, work, done, ring, subVars, ch, callerVars>>

Dispatch ==
    /\ ppc = "dispatch" /\ Len(taskCh) < RawRingSize
    /\ taskCh' = Append(taskCh, Len(blocks))
    /\ ppc' = "read"
    /\ UNCHANGED <<inputVars, blocks, queueVars, tasksClosed, work, done, ring, subVars, ch, callerVars>>

\* Mutant of EnqueueError: the error of the stream is dropped.
EnqueueNothing ==
    /\ ppc = "fail" /\ Len(batchQueue) < RawRingSize
    /\ queueClosed' = TRUE
    /\ ppc' = "return"
    /\ UNCHANGED <<inputVars, blocks, batchQueue, taskVars, work, done, ring, subVars, ch, callerVars>>

\* The stream's error takes its place in the queue, which is then not closed.
EnqueueError ==
    /\ ppc = "fail" /\ Len(batchQueue) < RawRingSize
    /\ batchQueue' = Append(batchQueue, StreamError)
    /\ ppc' = "return"
    /\ UNCHANGED <<inputVars, blocks, queueClosed, taskVars, work, done, ring, subVars, ch, callerVars>>

\* Mutant of CloseTasks: the workers' queue is left open.
LeaveTasksOpen ==
    /\ ppc = "return" /\ ppc' = "done"
    /\ UNCHANGED <<inputVars, blocks, queueVars, taskVars, work, done, ring, subVars, ch, callerVars>>

\* The deferred close.
CloseTasks ==
    /\ ppc = "return" /\ ppc' = "done"
    /\ tasksClosed' = TRUE
    /\ UNCHANGED <<inputVars, blocks, queueVars, taskCh, work, done, ring, subVars, ch, callerVars>>

Producer == \/ ReadBlock \/ ReadError \/ ReadEOF \/ Enqueue \/ Dispatch
            \/ EnqueueError \/ CloseTasks

-----------------------------------------------------------------------------
(* A worker.                                                               *)

\* A batch is taken; from here to its end its slots are being written.
TakeTask(w) ==
    /\ work[w] = Idle /\ taskCh # <<>>
    /\ work' = [work EXCEPT ![w] = Head(taskCh)]
    /\ taskCh' = Tail(taskCh)
    /\ ring' = [s \in DOMAIN ring |->
                  IF s \in SlotsOf(Head(taskCh)) THEN Torn ELSE ring[s]]
    /\ UNCHANGED <<inputVars, prodVars, queueVars, tasksClosed, done, subVars, ch, callerVars>>

FinishTask(w) ==
    /\ work[w] > 0
    /\ LET b    == work[w]
           good == {blocks[b].base + e - 1 : e \in Written(b) \ {plan[b].bad}}
       IN  /\ ring' = [s \in DOMAIN ring |->
                         IF \E k \in good : Slot(k) = s
                         THEN CHOOSE k \in good : Slot(k) = s ELSE ring[s]]
           /\ done' = [done EXCEPT ![b] = IF Detected(b) THEN "error" ELSE "ok"]
    /\ work' = [work EXCEPT ![w] = Idle]
    /\ UNCHANGED <<inputVars, prodVars, queueVars, taskVars, subVars, ch, callerVars>>

WorkerExit(w) ==
    /\ work[w] = Idle /\ taskCh = <<>> /\ tasksClosed
    /\ work' = [work EXCEPT ![w] = Gone]
    /\ UNCHANGED <<inputVars, prodVars, queueVars, taskVars, done, ring, subVars, ch, callerVars>>

Worker(w) == TakeTask(w) \/ FinishTask(w) \/ WorkerExit(w)

-----------------------------------------------------------------------------
(* The submitter.                                                          *)

GetBatch ==
    /\ spc = "get" /\ batchQueue # <<>>
    /\ cur' = Head(batchQueue) /\ emitted' = 0 /\ spc' = "wait"
    /\ batchQueue' = Tail(batchQueue)
    /\ UNCHANGED <<inputVars, prodVars, queueClosed, taskVars, work, done, ring, closed, ch, callerVars>>

AwaitDone ==
    /\ spc = "wait" /\ done[cur] # ""
    /\ spc' = IF done[cur] = "ok" THEN "emit" ELSE "fail"
    /\ UNCHANGED <<inputVars, prodVars, queueVars, taskVars, work, done, ring, cur, emitted, closed, ch, callerVars>>

Emit ==
    /\ spc = "emit" /\ Len(ch) < BufferSize
    /\ ch' = Append(ch, blocks[cur].base + emitted)
    /\ emitted' = emitted + 1
    /\ spc' = IF emitted' = blocks[cur].count THEN "get" ELSE "emit"
    /\ UNCHANGED <<inputVars, prodVars, queueVars, taskVars, work, done, ring, cur, closed, callerVars>>

\* Mutant of EmitError: the submitter goes on after an error.
EmitErrorAndGoOn ==
    /\ spc = "fail" /\ Len(ch) < BufferSize
    /\ ch' = Append(ch, Failure)
    /\ spc' = IF cur = StreamError THEN "close" ELSE "get"
    /\ UNCHANGED <<inputVars, prodVars, queueVars, taskVars, work, done, ring, cur, emitted, closed, callerVars>>

EmitError ==
    /\ spc = "fail" /\ Len(ch) < BufferSize
    /\ ch' = Append(ch, Failure)
    /\ spc' = "close"
    /\ UNCHANGED <<inputVars, prodVars, queueVars, taskVars, work, done, ring, cur, emitted, closed, callerVars>>

QueueEnd ==
    /\ spc = "get" /\ batchQueue = <<>> /\ queueClosed
    /\ spc' = "close"
    /\ UNCHANGED <<inputVars, prodVars, queueVars, taskVars, work, done, ring, cur, emitted, closed, ch, callerVars>>

CloseCh ==
    /\ spc = "close" /\ spc' = "done"
    /\ closed' = TRUE
    /\ UNCHANGED <<inputVars, prodVars, queueVars, taskVars, work, done, ring, cur, emitted, ch, callerVars>>

Submitter == GetBatch \/ AwaitDone \/ Emit \/ EmitError \/ QueueEnd \/ CloseCh

-----------------------------------------------------------------------------
(* The caller, ranging over the channel.                                   *)

Receive ==
    /\ caller = "reading" /\ ch # <<>>
    /\ ch' = Tail(ch)
    /\ IF Head(ch) = Failure THEN told' = TRUE /\ UNCHANGED received
       ELSE received' = received + 1 /\ UNCHANGED told
    /\ UNCHANGED <<inputVars, prodVars, queueVars, taskVars, work, done, ring, subVars, caller>>

SeeClosed ==
    /\ caller = "reading" /\ ch = <<>> /\ closed
    /\ caller' = "ended"
    /\ UNCHANGED <<inputVars, prodVars, queueVars, taskVars, work, done, ring, subVars, ch, received, told>>

\* The caller stops reading before the end.
Leave ==
    /\ caller = "reading"
    /\ caller' = "left"
    /\ UNCHANGED <<inputVars, prodVars, queueVars, taskVars, work, done, ring, subVars, ch, received, told>>

Next == \/ Producer \/ (\E w \in Workers : Worker(w)) \/ Submitter
        \/ Receive \/ SeeClosed \/ Leave

Spec == Init /\ [][Next]_vars

\* Every goroutine runs, and a caller that has not left takes what is there.
FairSpec == /\ Spec
            /\ WF_vars(Producer) /\ WF_vars(Submitter)
            /\ \A w \in Workers : WF_vars(Worker(w))
            /\ WF_vars(Receive \/ SeeClosed)

-----------------------------------------------------------------------------
(* Properties.                                                             *)

\* Records the submitter has sent so far, by its own account.
Sent == IF cur = 0 THEN 0 ELSE Base(cur) + emitted

BlockOf(k) == CHOOSE b \in DOMAIN blocks :
                blocks[b].base <= k /\ k < blocks[b].base + blocks[b].count

\* Records that workers decode at all: all but the last of a block.
Decoded(k) == k + 1 < blocks[BlockOf(k)].base + blocks[BlockOf(k)].count

\* However far the workers run ahead of the caller, no object in the channel,
\* nor any of the newest Batch + Pad received, is written to: the ring covers
\* the channel, every queued batch, and the one being sent (stream.go:425-428).
ObjectsStable ==
    \A k \in 0 .. (Sent - 1) :
        k + Batch + Pad >= received /\ Decoded(k) => ring[Slot(k)] = k

\* Results come in the order of the input, each once, whichever worker is done
\* first; an error is the last of them (stream.go:412, 500-508).
InOrder ==
    /\ received <= Sent
    /\ \A j \in 1 .. (Sent - received) : j <= Len(ch) /\ ch[j] = received + j - 1
    /\ Len(ch) > Sent - received => /\ Len(ch) = Sent - received + 1
                                    /\ ch[Len(ch)] = Failure

\* The caller is told of an error exactly when there was one, after all of the
\* blocks ahead of it and none of the records of its own (stream.go:500-508).
ErrorsInPlace ==
    LET failing == {b \in DOMAIN plan : Detected(b)}
        first   == CHOOSE b \in failing : \A c \in failing : b <= c
    IN  caller = "ended" =>
          /\ told <=> (failing # {} \/ ending = "error")
          /\ failing # {} => received = blocks[first].base
          /\ failing = {} => Len(blocks) = Len(plan) /\ received = Sent

\* A caller that keeps reading comes to the end of the channel
\* (stream.go:499).
ReaderReachesEnd == <>(caller \in {"left", "ended"})

\* Unless a record fails to decode, every goroutine ends when the caller reads
\* to the end: the closed queues reach workers and submitter (stream.go:443,
\* 493, 500, 551).
AllGoroutinesEnd ==
    (\A b \in DOMAIN plan : ~Detected(b)) =>
        <>(caller = "left" \/ (/\ ppc = "done" /\ spc = "done"
                               /\ \A w \in Workers : work[w] = Gone))

-----------------------------------------------------------------------------
(* What the repository says and the code does not do.                      *)

\* A batch is parsed "instead of dropping the record the caller was promised"
\* (stream.go:458-463): an object handed to the caller holds its record.
HandedOutIsDecoded ==
    \A j \in DOMAIN ch : ch[j] # Failure => ring[Slot(ch[j])] = ch[j]
=============================================================================
