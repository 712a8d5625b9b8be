------------------------------ MODULE NextChan ------------------------------
(***************************************************************************)
(* StreamDecoder.NextChan (src/stream.go:364-397): a goroutine decodes     *)
(* record after record into a ring of BufferSize + 4 objects and sends     *)
(* pointers to them over a channel of BufferSize places; the caller reads  *)
(* the channel and looks at the objects whenever it likes.                 *)
(*                                                                         *)
(* The input is a list of records, each whole or damaged, and an end: what *)
(* nextChunk answers, as module StreamDecoder has it.  Record k of the     *)
(* input is number k, from 0; the pointer sent for it is slot              *)
(* k % RingSize.                                                           *)
(***************************************************************************)
EXTENDS Integers, Sequences

CONSTANTS
    BufferSize,   \* the argument of NextChan, after its clamp to 1
    Feeds,        \* the lists of records to consider
    Keep          \* records behind the newest one the caller still looks at

ASSUME NextChanAssumption ==
    /\ BufferSize \in Nat \ {0}
    /\ Feeds \subseteq Seq({"whole", "damaged"})
    /\ Keep \in Nat

VARIABLES
    feed,       \* the records of the input
    ending,     \* what nextChunk says after them: "EOF" or "error"
    tolerant,   \* d.tolerant, which this path hands to nextChunk only
    i,          \* records sent so far
    ring,       \* slot -> number of the record in it, or Zero, or Torn
    ch,         \* the channel: numbers of records, and Failure
    closed,
    pc,         \* the goroutine: "next", "parse", "send", "fail", "close", "done"
    received,   \* records the caller has taken from the channel
    told,       \* whether it has taken an error
    caller      \* "reading", then "ended" or "left"

prodVars == <<i, ring, closed, pc>>
callerVars == <<received, told, caller>>
vars == <<feed, ending, tolerant, prodVars, ch, callerVars>>

Zero    == -1   \* an object nothing was decoded into yet
Torn    == -2   \* an object a decoder is, or stopped, writing
Failure == -1   \* a StreamResult with Err set

\* Mutant of RingSize: the slots of the channel and the one being parsed only.
RingSizeTight == BufferSize + 3

RingSize == BufferSize + 4

Slot(k) == k % RingSize

Init ==
    /\ feed \in Feeds /\ ending \in {"EOF", "error"} /\ tolerant \in BOOLEAN
    /\ i = 0 /\ ring = [s \in 0 .. (RingSize - 1) |-> Zero]
    /\ ch = <<>> /\ closed = FALSE /\ pc = "next"
    /\ received = 0 /\ told = FALSE /\ caller = "reading"

-----------------------------------------------------------------------------
(* The goroutine.                                                          *)

\* nextChunk: one more record, to be written over what its slot holds.
NextRecord ==
    /\ pc = "next" /\ i < Len(feed)
    /\ ring' = [ring EXCEPT ![Slot(i)] = Torn]
    /\ pc' = "parse"
    /\ UNCHANGED <<feed, ending, tolerant, i, ch, closed, callerVars>>

\* Mutant of NextError: an error of the stream ends the loop like io.EOF.
NextErrorSilent ==
    /\ pc = "next" /\ i = Len(feed) /\ ending = "error"
    /\ pc' = "close"
    /\ UNCHANGED <<feed, ending, tolerant, i, ring, ch, closed, callerVars>>

NextError ==
    /\ pc = "next" /\ i = Len(feed) /\ ending = "error"
    /\ pc' = "fail"
    /\ UNCHANGED <<feed, ending, tolerant, i, ring, ch, closed, callerVars>>

NextEOF ==
    /\ pc = "next" /\ i = Len(feed) /\ ending = "EOF"
    /\ pc' = "close"
    /\ UNCHANGED <<feed, ending, tolerant, i, ring, ch, closed, callerVars>>

\* parseObjectStrict: a damaged record leaves its slot half written.
ParseWhole ==
    /\ pc = "parse" /\ feed[i + 1] = "whole"
    /\ ring' = [ring EXCEPT ![Slot(i)] = i]
    /\ pc' = "send"
    /\ UNCHANGED <<feed, ending, tolerant, i, ch, closed, callerVars>>

\* Mutant of ParseDamaged: a damaged record is sent like a whole one.
ParseDamagedSent ==
    /\ pc = "parse" /\ feed[i + 1] = "damaged"
    /\ pc' = "send"
    /\ UNCHANGED <<feed, ending, tolerant, i, ring, ch, closed, callerVars>>

ParseDamaged ==
    /\ pc = "parse" /\ feed[i + 1] = "damaged"
    /\ pc' = "fail"
    /\ UNCHANGED <<feed, ending, tolerant, i, ring, ch, closed, callerVars>>

Send ==
    /\ pc = "send" /\ Len(ch) < BufferSize
    /\ ch' = Append(ch, i)
    /\ i' = i + 1
    /\ pc' = "next"
    /\ UNCHANGED <<feed, ending, tolerant, ring, closed, callerVars>>

SendError ==
    /\ pc = "fail" /\ Len(ch) < BufferSize
    /\ ch' = Append(ch, Failure)
    /\ pc' = "close"
    /\ UNCHANGED <<feed, ending, tolerant, i, ring, closed, callerVars>>

\* Mutant of Close: a channel that carried an error stays open.
CloseAfterEOF ==
    /\ pc = "close" /\ pc' = "done"
    /\ closed' = (i = Len(feed))
    /\ UNCHANGED <<feed, ending, tolerant, i, ring, ch, callerVars>>

\* The deferred close.
Close ==
    /\ pc = "close" /\ pc' = "done"
    /\ closed' = TRUE
    /\ UNCHANGED <<feed, ending, tolerant, i, ring, ch, callerVars>>

Producer == \/ NextRecord \/ NextError \/ NextEOF
            \/ ParseWhole \/ ParseDamaged \/ Send \/ SendError \/ Close

-----------------------------------------------------------------------------
(* The caller, ranging over the channel.                                   *)

Receive ==
    /\ caller = "reading" /\ ch # <<>>
    /\ ch' = Tail(ch)
    /\ IF Head(ch) = Failure THEN told' = TRUE /\ UNCHANGED received
       ELSE received' = received + 1 /\ UNCHANGED told
    /\ UNCHANGED <<feed, ending, tolerant, prodVars, caller>>

SeeClosed ==
    /\ caller = "reading" /\ ch = <<>> /\ closed
    /\ caller' = "ended"
    /\ UNCHANGED <<feed, ending, tolerant, prodVars, ch, received, told>>

\* The caller stops reading before the end.
Leave ==
    /\ caller = "reading"
    /\ caller' = "left"
    /\ UNCHANGED <<feed, ending, tolerant, prodVars, ch, received, told>>

Next == Producer \/ Receive \/ SeeClosed \/ Leave

Spec == Init /\ [][Next]_vars

\* The goroutine runs, and a caller that has not left takes what is there.
FairSpec == Spec /\ WF_vars(Producer) /\ WF_vars(Receive \/ SeeClosed)

-----------------------------------------------------------------------------
(* Properties.                                                             *)

\* Types of the variables (stream.go:368-374).
TypeOK ==
    /\ feed \in Feeds /\ ending \in {"EOF", "error"} /\ tolerant \in BOOLEAN
    /\ i \in 0 .. Len(feed) /\ received \in 0 .. i
    /\ DOMAIN ring = 0 .. (RingSize - 1)
    /\ Len(ch) <= BufferSize
    /\ closed \in BOOLEAN
    /\ pc \in {"next", "parse", "send", "fail", "close", "done"}
    /\ pc \in {"parse", "send"} => i < Len(feed)
    /\ told \in BOOLEAN /\ caller \in {"reading", "ended", "left"}

\* The objects in the channel and the newest n received hold their records.
StableFor(n) ==
    \A k \in 0 .. (i - 1) : k + n >= received => ring[Slot(k)] = k

\* No object in the channel, nor the last three received, is written to: the
\* four spare slots are the one being parsed and three behind the reader
\* (stream.go:369, 385).
PointersStable == StableFor(3)

\* The channel holds the records not yet received, in the order of the input
\* and each once, with at most one error behind them and nothing after it:
\* records ahead of the first damaged one only (stream.go:376-394).
InOrder ==
    /\ \A j \in 1 .. (i - received) : j <= Len(ch) /\ ch[j] = received + j - 1
    /\ Len(ch) > i - received => /\ Len(ch) = i - received + 1
                                 /\ ch[Len(ch)] = Failure
                                 /\ pc \in {"close", "done"}
    /\ \A k \in 0 .. (i - 1) : feed[k + 1] = "whole"

\* A channel that is closed without an error delivered everything
\* (stream.go:378-383).
CleanCloseIsComplete ==
    caller = "ended" /\ ~told => received = Len(feed) /\ ending = "EOF"

\* A caller that keeps reading comes to the end of the channel, and the
\* goroutine is gone; only a caller that left can strand it (stream.go:373).
ReaderReachesEnd ==
    <>(caller = "left" \/ (caller = "ended" /\ pc = "done"))
=============================================================================
