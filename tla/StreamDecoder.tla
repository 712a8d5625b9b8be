--------------------------- MODULE StreamDecoder ---------------------------
(***************************************************************************)
(* StreamDecoder (src/stream.go): pulls a JSON array out of an io.Reader   *)
(* through a sliding buffer.  One caller; the only nondeterminism is what  *)
(* it calls next and how the reader cuts the input into reads.             *)
(*                                                                         *)
(* A byte is one of the kinds that steer the code: the brackets, the comma, *)
(* white space and the digit, which stands for any byte of a number.       *)
(* Strings are left to the splitter.  buf holds the live prefix            *)
(* d.buf[0:tail]; cap is len(d.buf).                                       *)
(***************************************************************************)
EXTENDS Integers, Sequences, FiniteSets

CONSTANTS
    Inputs,       \* the byte sequences a reader may produce
    Modes,        \* values of d.tolerant to consider
    Apis,         \* methods the caller uses: Decode, Next, NextRaw, NextRawBlock
    Kernel,       \* splitter the build dispatches to: "scalar" or "avx2"
    Capacities,   \* initial values of len(d.buf); 256 KB in the code
    MaxCount,     \* maxCount passed to NextRawBlock, at least 1
    MaxHiccups    \* bound on reads that deliver nothing or fail

Byte == {"lbracket", "rbracket", "lbrace", "rbrace", "comma", "space", "digit"}

ASSUME StreamAssumption ==
    /\ Modes \subseteq BOOLEAN
    /\ \A in \in Inputs : in \in Seq(Byte)
    /\ Capacities \subseteq Nat \ {0}
    /\ MaxCount \in Nat \ {0}
    /\ MaxHiccups \in Nat

VARIABLES
    input, tolerant,
    rpos,             \* bytes the reader has produced so far
    hiccups,          \* reads so far that delivered nothing or failed
    buf, head, tail, cap, isEOF,
    hasStarted, hasEnded, deliveredFirst, afterComma, tailTruncated,
    pc,               \* "idle", "enter", "top" (loop head) or "scan" (splitter)
    api,              \* the method being executed
    ret,              \* how the last call returned
    out,              \* everything handed out so far
    sepReports,       \* separator problems sent to the sink
    truncReports      \* truncation problems sent to the sink

readVars == <<input, tolerant, rpos, hiccups, buf, tail, cap, isEOF>>
flagVars == <<hasStarted, hasEnded, deliveredFirst, afterComma, tailTruncated>>
histVars == <<out, sepReports, truncReports>>
callVars == <<pc, api, ret>>
vars     == <<readVars, head, flagVars, histVars, callVars>>

Feed == INSTANCE ElementFeed WITH
          status <- IF hasEnded THEN "ended"
                    ELSE IF tailTruncated THEN "truncated" ELSE "open"

Init ==
    /\ input \in Inputs /\ tolerant \in Modes
    /\ rpos = 0 /\ hiccups = 0
    /\ buf = [i \in 0 .. -1 |-> "space"] /\ head = 0 /\ tail = 0
    /\ cap \in Capacities /\ isEOF = FALSE
    /\ hasStarted = FALSE /\ hasEnded = FALSE
    /\ deliveredFirst = FALSE /\ afterComma = FALSE /\ tailTruncated = FALSE
    /\ pc = "idle" /\ api = "none" /\ ret = "none"
    /\ out = <<>> /\ sepReports = 0 /\ truncReports = 0

-----------------------------------------------------------------------------
(* The buffer.                                                             *)

\* Position in the input of buffer index i: rpos - tail bytes were slid out.
Abs(i) == rpos - tail + i

Window(i, j) == [k \in 1 .. (j - i) |-> buf[i + k - 1]]

\* fill: slide the unread bytes to the front, double a full buffer, Read once.
\* The bytes of a read that also fails are kept.
Room == IF tail - head = cap THEN cap ELSE cap - (tail - head)

\* Mutant of Fill: the window is slid from the start of the buffer.
FillFromStart(n, err) ==
    LET live == tail - head
    IN  /\ n \in 0 .. Room /\ rpos + n <= Len(input)
        /\ err = "EOF" => rpos + n = Len(input)
        /\ buf' = [i \in 0 .. (live + n - 1) |->
                     IF i < live THEN buf[i] ELSE input[rpos + i - live + 1]]
        /\ head' = 0 /\ tail' = live + n /\ cap' = live + Room
        /\ rpos' = rpos + n /\ isEOF' = (err = "EOF")
        /\ hiccups' = hiccups + IF err = "fail" \/ (err = "nil" /\ n = 0) THEN 1 ELSE 0
        /\ hiccups' <= MaxHiccups
        /\ UNCHANGED <<input, tolerant>>

\* Mutant of Fill: the end of the file is not remembered.
FillForgetsEOF(n, err) ==
    LET live == tail - head
    IN  /\ n \in 0 .. Room /\ rpos + n <= Len(input)
        /\ err = "EOF" => rpos + n = Len(input)
        /\ buf' = [i \in 0 .. (live + n - 1) |->
                     IF i < live THEN buf[head + i] ELSE input[rpos + i - live + 1]]
        /\ head' = 0 /\ tail' = live + n /\ cap' = live + Room
        /\ rpos' = rpos + n /\ UNCHANGED isEOF
        /\ hiccups' = hiccups + IF err = "fail" \/ (err = "nil" /\ n = 0) THEN 1 ELSE 0
        /\ hiccups' <= MaxHiccups
        /\ UNCHANGED <<input, tolerant>>

Fill(n, err) ==
    LET live == tail - head
    IN  /\ n \in 0 .. Room /\ rpos + n <= Len(input)
        /\ err = "EOF" => rpos + n = Len(input)
        /\ buf' = [i \in 0 .. (live + n - 1) |->
                     IF i < live THEN buf[head + i] ELSE input[rpos + i - live + 1]]
        /\ head' = 0
        /\ tail' = live + n
        /\ cap' = live + Room
        /\ rpos' = rpos + n
        /\ isEOF' = (err = "EOF")
        /\ hiccups' = hiccups + IF err = "fail" \/ (err = "nil" /\ n = 0) THEN 1 ELSE 0
        /\ hiccups' <= MaxHiccups
        /\ UNCHANGED <<input, tolerant>>

\* Both places of a loop that call fill: a failed read ends the call.
ReadMore ==
    /\ ~isEOF
    /\ \E n \in 0 .. Room, err \in {"nil", "EOF", "fail"} :
        /\ Fill(n, err)
        /\ IF err = "fail" THEN pc' = "idle" /\ ret' = "readerror"
           ELSE pc' = "top" /\ UNCHANGED ret
    /\ UNCHANGED <<flagVars, histVars, api>>

SkipsTo(i, j) ==
    /\ j \in i .. tail
    /\ \A k \in i .. (j - 1) : buf[k] = "space"
    /\ j < tail => buf[j] # "space"

-----------------------------------------------------------------------------
(* The splitter on d.buf[head:tail], up to its first MaxCount elements.    *)

DepthAt(i) ==
    Cardinality({j \in head .. (i - 1) : buf[j] \in Feed!Openers})
      - Cardinality({j \in head .. (i - 1) : buf[j] \in Feed!Closers})

Stops(i) == /\ buf[i] = "rbracket" \/ (buf[i] = "rbrace" /\ Kernel = "scalar")
            /\ DepthAt(i) = 0

\* Mutant of Cuts: a comma ends an element at any depth.
CutsAtAnyDepth == {i \in head .. (tail - 1) :
                     /\ buf[i] \in {"comma", "rbracket"}
                     /\ \A j \in head .. (i - 1) : ~Stops(j)}

Cuts == {i \in head .. (tail - 1) :
            /\ buf[i] \in {"comma", "rbracket"}
            /\ DepthAt(i) = 0
            /\ \A j \in head .. (i - 1) : ~Stops(j)}

FirstCut(e) == e \in Cuts /\ \A c \in Cuts : e <= c

-----------------------------------------------------------------------------
(* Entering a method, and leaving it.                                      *)

Return(r) == pc' = "idle" /\ ret' = r /\ UNCHANGED api

Call(a) ==
    /\ pc = "idle"
    /\ pc' = "enter" /\ api' = a
    /\ UNCHANGED <<readVars, head, flagVars, histVars, ret>>

EnterEnded ==
    /\ pc = "enter" /\ hasEnded
    /\ Return("EOF")
    /\ UNCHANGED <<readVars, head, flagVars, histVars>>

\* Mutant of EnterTruncated: the truncation degrades to a clean end of file.
EnterTruncatedClean ==
    /\ pc = "enter" /\ ~hasEnded /\ tailTruncated
    /\ Return("EOF")
    /\ UNCHANGED <<readVars, head, flagVars, histVars>>

EnterTruncated ==
    /\ pc = "enter" /\ ~hasEnded /\ tailTruncated
    /\ Return(IF tolerant /\ api # "NextRawBlock" THEN "EOF" ELSE "truncated")
    /\ UNCHANGED <<readVars, head, flagVars, histVars>>

EnterLoop ==
    /\ pc = "enter" /\ ~hasEnded /\ ~tailTruncated
    /\ pc' = "top"
    /\ UNCHANGED <<readVars, head, flagVars, histVars, api, ret>>

\* The stream stops without a closing bracket: latch it, and report it the
\* way the mode asks.  NextRawBlock knows no sink.
TruncatedNow(bytes) ==
    /\ tailTruncated' = TRUE
    /\ UNCHANGED <<hasStarted, hasEnded, deliveredFirst, afterComma>>
    /\ IF tolerant /\ api # "NextRawBlock"
       THEN /\ truncReports' = truncReports + 1
            /\ Return("EOF")
            /\ UNCHANGED <<out, sepReports>>
       ELSE /\ Return("truncated")
            /\ out' = IF bytes = <<>> \/ api # "NextRaw" THEN out
                      ELSE Append(out, [at |-> Abs(head), bytes |-> bytes,
                                        kind |-> "fragment", count |-> 0])
            /\ UNCHANGED <<sepReports, truncReports>>

-----------------------------------------------------------------------------
(* The loop head shared by nextChunk and NextRawBlock.                     *)

TopFill == pc = "top" /\ head >= tail /\ ReadMore

TopDrained ==
    /\ pc = "top" /\ head >= tail /\ isEOF
    /\ TruncatedNow(<<>>)
    /\ UNCHANGED <<readVars, head>>

TopAt(h) == pc = "top" /\ head < tail /\ SkipsTo(head, h)

TopSpaces ==
    /\ TopAt(tail)
    /\ head' = tail
    /\ UNCHANGED <<readVars, flagVars, histVars, callVars>>

TopNotArray(h) ==
    /\ TopAt(h) /\ h < tail /\ ~hasStarted /\ buf[h] # "lbracket"
    /\ head' = h
    /\ Return("notarray")
    /\ UNCHANGED <<readVars, flagVars, histVars>>

TopOpen(h) ==
    /\ TopAt(h) /\ h < tail /\ ~hasStarted /\ buf[h] = "lbracket"
    /\ head' = h + 1
    /\ hasStarted' = TRUE
    /\ UNCHANGED <<readVars, histVars, callVars,
                   hasEnded, deliveredFirst, afterComma, tailTruncated>>

TopClose(h) ==
    /\ TopAt(h) /\ h < tail /\ hasStarted /\ buf[h] = "rbracket"
    /\ head' = h
    /\ hasEnded' = TRUE
    /\ Return("EOF")
    /\ UNCHANGED <<readVars, histVars,
                   hasStarted, deliveredFirst, afterComma, tailTruncated>>

TopScan(h) ==
    /\ TopAt(h) /\ h < tail /\ hasStarted /\ buf[h] \notin {"comma", "rbracket"}
    /\ head' = h
    /\ pc' = "scan"
    /\ UNCHANGED <<readVars, flagVars, histVars, api, ret>>

\* A comma is legal only between two elements: strict mode and NextRawBlock
\* reject a leading or doubled one where it stands.
\* Mutant of StrayComma: a doubled comma passes.
LeadingComma == ~deliveredFirst

StrayComma == ~deliveredFirst \/ afterComma

CommaRejected(h) ==
    /\ TopAt(h) /\ h < tail /\ hasStarted /\ buf[h] = "comma"
    /\ StrayComma /\ (~tolerant \/ api = "NextRawBlock")
    /\ head' = h
    /\ Return("separator")
    /\ UNCHANGED <<readVars, flagVars, histVars>>

\* The comma is skipped with the white space after it.  A bracket right behind
\* is a trailing comma, seen only when it has already been read.
CommaSkipped(h, g) ==
    LET trailing == g < tail /\ buf[g] = "rbracket"
        sink     == tolerant /\ api # "NextRawBlock"
    IN  /\ TopAt(h) /\ h < tail /\ hasStarted /\ buf[h] = "comma"
        /\ StrayComma => sink
        /\ SkipsTo(h + 1, g)
        /\ head' = g
        /\ afterComma' = TRUE
        /\ sepReports' = sepReports + (IF StrayComma THEN 1 ELSE 0)
                                    + (IF trailing /\ sink THEN 1 ELSE 0)
        /\ IF trailing /\ ~sink THEN Return("separator")
           ELSE /\ pc' = IF api = "NextRawBlock" /\ g < tail THEN "scan" ELSE "top"
                /\ UNCHANGED <<api, ret>>
        /\ UNCHANGED <<readVars, out, truncReports,
                       hasStarted, hasEnded, deliveredFirst, tailTruncated>>

-----------------------------------------------------------------------------
(* nextChunk after the splitter, with what Decode, Next and NextRaw do to  *)
(* the chunk it returns.                                                   *)

\* A chunk reaches the caller.  A damaged one fails a strict decoder; a
\* tolerant one reports it and asks for the next chunk.
HandOut(e) ==
    LET s == Window(head, e)
        k == IF api = "NextRaw" THEN "raw"
             ELSE IF Feed!Decodes(s) THEN "record" ELSE "damaged"
    IN  /\ out' = Append(out, [at |-> Abs(head), bytes |-> s, kind |-> k, count |-> 1])
        /\ \/ k = "damaged" /\ tolerant /\ pc' = "enter" /\ UNCHANGED <<api, ret>>
           \/ k = "damaged" /\ ~tolerant /\ Return("damaged")
           \/ k # "damaged" /\ Return("record")
           \/ k # "damaged" /\ api = "Next" /\ pc' = "enter" /\ UNCHANGED <<api, ret>>

ChunkElement(e) ==
    /\ pc = "scan" /\ api # "NextRawBlock"
    /\ FirstCut(e) /\ e > head
    /\ HandOut(e)
    /\ head' = e
    /\ deliveredFirst' = TRUE /\ afterComma' = FALSE
    /\ UNCHANGED <<readVars, sepReports, truncReports,
                   hasStarted, hasEnded, tailTruncated>>

ScanFill == pc = "scan" /\ Cuts = {} /\ ReadMore

\* EOF with one complete value left: hand it out, report the truncation later.
\* Mutant of ChunkSalvage: the truncation is reported but not latched.
ChunkSalvageUnlatched ==
    /\ pc = "scan" /\ api # "NextRawBlock" /\ Cuts = {} /\ isEOF
    /\ Feed!IsValue(Window(head, tail))
    /\ HandOut(tail)
    /\ head' = tail
    /\ truncReports' = truncReports + IF tolerant THEN 1 ELSE 0
    /\ UNCHANGED <<readVars, sepReports, flagVars>>

ChunkSalvage ==
    /\ pc = "scan" /\ api # "NextRawBlock" /\ Cuts = {} /\ isEOF
    /\ Feed!IsValue(Window(head, tail))
    /\ HandOut(tail)
    /\ head' = tail
    /\ tailTruncated' = TRUE
    /\ truncReports' = truncReports + IF tolerant THEN 1 ELSE 0
    /\ UNCHANGED <<readVars, sepReports,
                   hasStarted, hasEnded, deliveredFirst, afterComma>>

ChunkPartial ==
    /\ pc = "scan" /\ api # "NextRawBlock" /\ Cuts = {} /\ isEOF
    /\ ~Feed!IsValue(Window(head, tail))
    /\ TruncatedNow(Window(head, tail))
    /\ head' = tail
    /\ UNCHANGED readVars

-----------------------------------------------------------------------------
(* NextRawBlock after the splitter.                                        *)

Taken == {c \in Cuts : Cardinality({d \in Cuts : d < c}) < MaxCount}

\* chunks[i].Start: both kernels start after the comma, the scalar one skips
\* the white space behind it too.
ChunkStart(c, s) ==
    LET before == {d \in Cuts : d < c}
        after  == 1 + CHOOSE d \in before : \A b \in before : b <= d
    IN  IF before = {} THEN s = head
        ELSE IF Kernel = "scalar" THEN SkipsTo(after, s) ELSE s = after

\* Mutant of Real: empty chunks are counted as elements.
RealOrEmpty == Taken

Real == {c \in Taken : ~ChunkStart(c, c)}

\* validArrayGap: white space, around exactly one comma where one is due.
ValidGap(i, j, expectComma) ==
    /\ \A k \in i .. (j - 1) : buf[k] \in {"space", "comma"}
    /\ Cardinality({k \in i .. (j - 1) : buf[k] = "comma"})
         = IF expectComma THEN 1 ELSE 0

BadGap ==
    \E c \in Real, s \in head .. tail :
        LET before == {d \in Real : d < c}
            gap    == IF before = {} THEN head
                      ELSE CHOOSE d \in before : \A b \in before : b <= d
        IN  ChunkStart(c, s) /\ ~ValidGap(gap, s, before # {})

BlockBadGap ==
    /\ pc = "scan" /\ api = "NextRawBlock" /\ BadGap
    /\ Return("separator")
    /\ UNCHANGED <<readVars, head, flagVars, histVars>>

BlockElements(e) ==
    /\ pc = "scan" /\ api = "NextRawBlock" /\ ~BadGap
    /\ e \in Real /\ \A c \in Real : c <= e
    /\ out' = Append(out, [at |-> Abs(head), bytes |-> Window(head, e),
                           kind |-> "block", count |-> Cardinality(Real)])
    /\ head' = e
    /\ deliveredFirst' = TRUE /\ afterComma' = FALSE
    /\ Return("block")
    /\ UNCHANGED <<readVars, sepReports, truncReports,
                   hasStarted, hasEnded, tailTruncated>>

\* Nothing but empty chunks: wait for more input, or give up at EOF.
BlockPhantomsFill ==
    /\ pc = "scan" /\ api = "NextRawBlock" /\ Cuts # {} /\ Real = {}
    /\ ReadMore

BlockPhantomsEOF ==
    /\ pc = "scan" /\ api = "NextRawBlock" /\ Cuts # {} /\ Real = {} /\ isEOF
    /\ TruncatedNow(<<>>)
    /\ UNCHANGED <<readVars, head>>

BlockSalvage ==
    /\ pc = "scan" /\ api = "NextRawBlock" /\ Cuts = {} /\ isEOF
    /\ Feed!IsValue(Window(head, tail))
    /\ out' = Append(out, [at |-> Abs(head), bytes |-> Window(head, tail),
                           kind |-> "block", count |-> 1])
    /\ head' = tail
    /\ tailTruncated' = TRUE
    /\ Return("block")
    /\ UNCHANGED <<readVars, sepReports, truncReports,
                   hasStarted, hasEnded, deliveredFirst, afterComma>>

BlockPartial ==
    /\ pc = "scan" /\ api = "NextRawBlock" /\ Cuts = {} /\ isEOF
    /\ ~Feed!IsValue(Window(head, tail))
    /\ TruncatedNow(Window(head, tail))
    /\ UNCHANGED <<readVars, head>>

-----------------------------------------------------------------------------
Top ==
    \/ TopFill \/ TopDrained \/ TopSpaces
    \/ \E h \in head .. tail :
         \/ TopNotArray(h) \/ TopOpen(h) \/ TopClose(h) \/ TopScan(h)
         \/ CommaRejected(h)
         \/ \E g \in head .. tail : CommaSkipped(h, g)

Scan ==
    \/ ScanFill
    \/ \E e \in head .. tail : ChunkElement(e) \/ BlockElements(e)
    \/ ChunkSalvage \/ ChunkPartial
    \/ BlockBadGap \/ BlockPhantomsFill \/ BlockPhantomsEOF
    \/ BlockSalvage \/ BlockPartial

\* One step of the method being executed.
Step == EnterEnded \/ EnterTruncated \/ EnterLoop \/ Top \/ Scan

Next == (\E a \in Apis : Call(a)) \/ Step

Spec == Init /\ [][Next]_vars

\* A method that was called keeps running; the caller owes nothing.
FairSpec == Spec /\ WF_vars(Step)

-----------------------------------------------------------------------------
(* Properties.                                                             *)

\* Types, and the shape of the buffer: the unread window lies inside the live
\* prefix, which lies inside the allocation (stream.go:16-53).
TypeOK ==
    /\ input \in Inputs /\ tolerant \in Modes
    /\ rpos \in 0 .. Len(input) /\ hiccups \in 0 .. MaxHiccups
    /\ cap \in Nat \ {0} /\ tail \in 0 .. cap /\ head \in 0 .. tail
    /\ tail <= rpos
    /\ DOMAIN buf = 0 .. (tail - 1)
    /\ isEOF \in BOOLEAN
    /\ hasStarted \in BOOLEAN /\ hasEnded \in BOOLEAN
    /\ deliveredFirst \in BOOLEAN /\ afterComma \in BOOLEAN
    /\ tailTruncated \in BOOLEAN
    /\ pc \in {"idle", "enter", "top", "scan"}
    /\ api \in Apis \cup {"none"} /\ (pc # "idle" => api \in Apis)
    /\ sepReports \in Nat /\ truncReports \in Nat

\* Sliding, doubling and short or failing reads neither lose nor duplicate a
\* byte: the live prefix of the buffer is the matching stretch of the input
\* (fill, stream.go:69-99).
BufferWindow == \A i \in 0 .. (tail - 1) : buf[i] = input[Abs(i) + 1]

\* A clean io.EOF is earned: either the closing bracket of the envelope was
\* reached, or the decoder is tolerant and has told the sink, once, that the
\* envelope was cut (stream.go:43-51).
CleanEOF ==
    ret = "EOF" => \/ hasEnded /\ Feed!Closed
                   \/ tailTruncated /\ truncReports = 1

\* The two end states exclude each other, and the sink hears of a truncation
\* at most once however often the caller asks again (stream.go:49-51).
OneEnd ==
    /\ ~(hasEnded /\ tailTruncated)
    /\ truncReports = IF tailTruncated /\ tolerant THEN 1 ELSE 0

\* A tolerant decoder that reached the bracket has reported every stray comma
\* it stepped over; only the one right before the bracket may be missed
\* (stream.go:162-193).
StrayCommasReported ==
    tolerant /\ hasEnded =>
        LET stray   == IF Feed!Elements = {} /\ Cardinality(Feed!Cuts) = 1
                       THEN {} ELSE Feed!Empties
            certain == {c \in stray : Feed!At(c) = "comma"}
        IN  sepReports \in Cardinality(certain) .. Cardinality(stray)

\* However the reader cuts the input, and whichever methods the caller mixes,
\* the decoder hands out the elements of the whole input in order, each once
\* and whole, and ends where the input says (StreamDecoder implements the feed).
ImplementsFeed == Feed!FeedSpec

\* Every call returns, whatever the sizes of the reads: no loop of nextChunk
\* or NextRawBlock spins without consuming input (stream.go:117, 570).
CallsReturn == (pc # "idle") ~> (pc = "idle")
=============================================================================
