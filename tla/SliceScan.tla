----------------------------- MODULE SliceScan -----------------------------
(***************************************************************************)
(* UnmarshalSlice and UnmarshalSliceTolerant (src/parallel.go:98-339): one *)
(* goroutine splits the array window by window, checks the separators and  *)
(* decodes every element into the next slot of the caller's slice.  The    *)
(* strict function stops at the first problem, the tolerant one notes it   *)
(* (src/tolerant.go) and goes on.                                          *)
(*                                                                         *)
(* Tokens as in ArrayScan.  An element "e" holds every field of a record,  *)
(* "p" lacks one, and "x" fails to decode after it wrote one.              *)
(***************************************************************************)
EXTENDS ArrayScan

CONSTANTS
    Inputs,       \* the inputs to consider
    Capacities    \* the lengths of the caller's slice to consider

\* Batch is the length of the chunk buffer: 1024 or more in the code.
ASSUME SliceAssumption ==
    /\ Batch \in Nat \ {0, 1}
    /\ Inputs \subseteq Seq({"e", "p", "x", "comma", "lbracket", "rbracket"})
    /\ Capacities \subseteq Nat

VARIABLES
    raw, capacity, mode,       \* arguments, and which function: "strict", "tolerant"
    pc,
    scanOffset, written,       \* written is total in the strict function
    prevEndAbs,
    chunks, stepAdvance, next, \* the window's elements, its end, the element to decode
    problems,                  \* what the tolerant function noted
    failed,                    \* whether no slice is returned
    dst                        \* slot -> the element in it and all whose data it holds

argVars    == <<raw, capacity, mode>>
windowVars == <<chunks, stepAdvance, next>>
vars == <<argVars, pc, scanOffset, written, prevEndAbs, windowVars, problems, failed, dst>>

Inner == Tail(raw)

Zero == [at |-> -1, holds |-> {}]

Problem(offset, record) == [offset |-> offset, record |-> record]

Decodes(offset) == Inner[offset + 1] \in {"e", "p"}

\* A chunk that is one element and no more.
Healthy(c) == Gap(Inner, c.start, c.end) \in {<<"e">>, <<"p">>}

\* ParseObject leaves the fields alone that the record lacks.
Into(slot, offset) ==
    [at    |-> offset,
     holds |-> IF Inner[offset + 1] = "e" THEN {offset} ELSE slot.holds \cup {offset}]

-----------------------------------------------------------------------------
Init ==
    /\ raw \in Inputs /\ capacity \in Capacities /\ mode \in {"strict", "tolerant"}
    /\ pc = "enter" /\ scanOffset = 0 /\ written = 0 /\ prevEndAbs = 0
    /\ chunks = <<>> /\ stepAdvance = 0 /\ next = 1
    /\ problems = <<>> /\ failed = FALSE
    /\ dst = [s \in 0 .. (capacity - 1) |-> Zero]

ReturnNothing ==
    /\ pc = "enter" /\ raw = <<>>
    /\ pc' = "done"
    /\ UNCHANGED <<argVars, scanOffset, written, prevEndAbs, windowVars, problems, failed, dst>>

\* No slice is returned: an error, or the problems so far and this one.
Fail(offset) ==
    /\ failed' = TRUE /\ pc' = "done"
    /\ problems' = IF mode = "strict" THEN problems ELSE Append(problems, Problem(offset, -1))
    /\ UNCHANGED <<argVars, scanOffset, written, prevEndAbs, windowVars, dst>>

Refuse == pc = "enter" /\ raw # <<>> /\ raw[1] # "lbracket" /\ Fail(0)

\* The address of the first slot is taken: with no slot that panics.
Panic ==
    /\ pc = "enter" /\ raw # <<>> /\ raw[1] = "lbracket" /\ capacity = 0
    /\ pc' = "panicked"
    /\ UNCHANGED <<argVars, scanOffset, written, prevEndAbs, windowVars, problems, failed, dst>>

Begin ==
    /\ pc = "enter" /\ raw # <<>> /\ raw[1] = "lbracket" /\ capacity > 0
    /\ pc' = "window"
    /\ UNCHANGED <<argVars, scanOffset, written, prevEndAbs, windowVars, problems, failed, dst>>

-----------------------------------------------------------------------------
(* A window.                                                               *)

ScanWindow ==
    /\ pc = "window" /\ scanOffset < Len(Inner)
    /\ LET found == Split(Inner, scanOffset)
       IN  /\ chunks' = Filled(found)
           /\ stepAdvance' = IF found = <<>> THEN 0 ELSE found[Len(found)].end - scanOffset
    /\ next' = 1
    /\ pc' = "gaps"
    /\ UNCHANGED <<argVars, scanOffset, written, prevEndAbs, problems, failed, dst>>

WindowsOver ==
    /\ pc = "window" /\ scanOffset >= Len(Inner)
    /\ pc' = "tail"
    /\ UNCHANGED <<argVars, scanOffset, written, prevEndAbs, windowVars, problems, failed, dst>>

\* No chunks, or stray commas only: the end of the array, or a damaged rest that
\* the tolerant function leaves to the tail.
NothingFound ==
    /\ pc = "gaps" /\ chunks = <<>>
    /\ IF mode = "strict" /\ ~ClosedAt(Inner, scanOffset)
       THEN Fail(scanOffset)
       ELSE /\ pc' = "tail"
            /\ UNCHANGED <<argVars, scanOffset, written, prevEndAbs, windowVars, problems,
                           failed, dst>>

\* The gap in front of element k; for the first of a window it starts at the
\* comma the window starts with.
GapBefore(k) == Gap(Inner, IF k = 1 THEN scanOffset ELSE chunks[k - 1].end, chunks[k].start)

\* Mutant of GapIsValid: a comma is expected only between elements of the window.
GapIsValidInWindow(k) == GapBefore(k) = IF k > 1 THEN <<"comma">> ELSE <<>>

GapIsValid(k) == GapBefore(k) = IF written > 0 \/ k > 1 THEN <<"comma">> ELSE <<>>

BadGaps == {k \in DOMAIN chunks : ~GapIsValid(k)}

RejectGap == pc = "gaps" /\ mode = "strict" /\ BadGaps # {} /\ Fail(scanOffset)

GapProblems ==
    Picked([k \in DOMAIN chunks |-> Problem(chunks[k].start, -1)],
           [k \in DOMAIN chunks |-> ~GapIsValid(k)])

\* Mutant of Fits: the records of earlier windows are forgotten.
FitsInWindow == Len(chunks) <= capacity

Fits == written + Len(chunks) <= capacity

\* Separators are in order, or noted; the elements fit.
EnterRecords ==
    /\ pc = "gaps" /\ chunks # <<>> /\ Fits
    /\ mode = "strict" => BadGaps = {}
    /\ problems' = problems \o GapProblems
    /\ pc' = "records"
    /\ UNCHANGED <<argVars, scanOffset, written, prevEndAbs, windowVars, failed, dst>>

Overfull ==
    /\ pc = "gaps" /\ chunks # <<>> /\ ~Fits
    /\ mode = "strict" => BadGaps = {}
    /\ failed' = TRUE /\ pc' = "done"
    /\ problems' = IF mode = "strict" THEN problems
                   ELSE Append(problems \o GapProblems, Problem(scanOffset, -1))
    /\ UNCHANGED <<argVars, scanOffset, written, prevEndAbs, windowVars, dst>>

-----------------------------------------------------------------------------
(* Its records.                                                            *)

DecodeRecord ==
    /\ pc = "records" /\ next <= Len(chunks) /\ Healthy(chunks[next])
    /\ dst' = [dst EXCEPT ![written] = Into(@, chunks[next].start)]
    /\ written' = written + 1 /\ next' = next + 1
    /\ UNCHANGED <<argVars, pc, scanOffset, prevEndAbs, chunks, stepAdvance, problems, failed>>

\* Mutant of Noted: damaged records are skipped without a word.
NotedNothing(k) == problems

\* The record is numbered from the slot it would have had, not from the array.
Noted(k) == Append(problems, Problem(chunks[k].start, written + k - 1))

\* The next record is decoded into the same slot.
DamagedRecord ==
    /\ pc = "records" /\ next <= Len(chunks) /\ ~Healthy(chunks[next])
    /\ dst' = [dst EXCEPT ![written].holds = @ \cup {chunks[next].start}]
    /\ IF mode = "strict"
       THEN /\ failed' = TRUE /\ pc' = "done"
            /\ UNCHANGED <<next, problems>>
       ELSE /\ problems' = Noted(next) /\ next' = next + 1
            /\ UNCHANGED <<failed, pc>>
    /\ UNCHANGED <<argVars, scanOffset, written, prevEndAbs, chunks, stepAdvance>>

\* Mutant of Advance: the next window starts behind the separator.
AdvancePast == scanOffset + stepAdvance + 1

Advance == scanOffset + stepAdvance

\* The last two cases are the code's guard against a scan that stands still.
NextWindow ==
    /\ pc = "records" /\ next > Len(chunks)
    /\ prevEndAbs' = chunks[Len(chunks)].end
    /\ IF Advance > scanOffset
       THEN scanOffset' = Advance /\ pc' = "window" /\ UNCHANGED failed
       ELSE /\ pc' = IF mode = "strict" THEN "done" ELSE "tail"
            /\ failed' = (mode = "strict")
            /\ UNCHANGED scanOffset
    /\ UNCHANGED <<argVars, written, windowVars, problems, dst>>

-----------------------------------------------------------------------------
(* The tail.                                                               *)

Closed ==
    /\ pc = "tail" /\ ClosedAt(Inner, prevEndAbs)
    /\ pc' = "done"
    /\ UNCHANGED <<argVars, scanOffset, written, prevEndAbs, windowVars, problems, failed, dst>>

Unterminated == pc = "tail" /\ ~ClosedAt(Inner, prevEndAbs) /\ mode = "strict" /\ Fail(prevEndAbs)

\* Where the value of an unterminated tail starts: behind one comma, if any.
TailValue(end) ==
    IF end < Len(Inner) /\ Inner[end + 1] = "comma" THEN end + 1 ELSE end

\* The rest of the input is one element.
Salvageable(end) ==
    Gap(Inner, TailValue(end), Len(Inner)) \in {<<"e">>, <<"p">>}

\* The last element of an array without its bracket is kept if it is whole.  What
\* one that is not leaves in the slot behind the result is not modelled.
Salvage ==
    /\ pc = "tail" /\ ~ClosedAt(Inner, prevEndAbs) /\ mode = "tolerant"
    /\ IF written < capacity /\ Salvageable(prevEndAbs)
       THEN /\ dst' = [dst EXCEPT ![written] = Into(@, TailValue(prevEndAbs))]
            /\ written' = written + 1
       ELSE UNCHANGED <<dst, written>>
    /\ problems' = Append(problems, Problem(prevEndAbs, -1))
    /\ pc' = "done"
    /\ UNCHANGED <<argVars, scanOffset, prevEndAbs, windowVars, failed>>

Next ==
    \/ ReturnNothing \/ Refuse \/ Panic \/ Begin
    \/ ScanWindow \/ WindowsOver \/ NothingFound \/ RejectGap \/ EnterRecords \/ Overfull
    \/ DecodeRecord \/ DamagedRecord \/ NextWindow
    \/ Closed \/ Unterminated \/ Salvage

Spec == Init /\ [][Next]_vars

-----------------------------------------------------------------------------
(* Properties.                                                             *)

\* The pointer to the next slot is computed, not checked: whatever windows came
\* before and whatever was damaged, it lies in the caller's slice
\* (parallel.go:175-178, 283-287).
WritesInSlice ==
    /\ pc = "records" /\ next <= Len(chunks) => written < capacity
    /\ written <= capacity

Scanned == raw # <<>> /\ raw[1] = "lbracket" /\ pc = "done"

\* The elements of a good array stand at the even offsets.
IsGoodArray(n) ==
    /\ \A k \in 0 .. (n - 1) : 2 * k < Len(Inner) /\ Decodes(2 * k)
    /\ Inner = Array([k \in 1 .. n |-> Inner[2 * k - 1]])

Commas(p) == Cardinality({q \in 1 .. p : Inner[q] = "comma"})

\* A doubled comma whose second comma is the last a window sees: the first window
\* holds Batch of them, every other one brings Batch - 1 more.  The next window
\* measures its first gap from there, and the first comma is never looked at.
Straddles ==
    \E p \in 2 .. Len(Inner) :
      /\ Inner[p] = "comma" /\ Inner[p - 1] = "comma"
      /\ \E j \in 1 .. Commas(p) : Commas(p) = 1 + j * (Batch - 1)

\* The strict function returns the whole array, each element in its slot, and
\* fails on everything else: no window boundary loses, repeats or refuses a
\* record, and no byte goes unaccounted for (parallel.go:112-118, 208-219), a
\* doubled comma across two windows excepted.
StrictIsExact ==
    Scanned /\ mode = "strict" /\ ~Straddles =>
      /\ ~failed <=> \E n \in 0 .. capacity : 2 * n <= Len(Inner) /\ IsGoodArray(n)
      /\ ~failed => /\ IsGoodArray(written)
                    /\ \A s \in 0 .. (written - 1) : dst[s].at = 2 * s

\* The tolerant function notes nothing exactly when the strict one succeeds, and
\* then returns the same (tolerant.go:12-14, 58-59): the checks are the same,
\* only the policy differs.
CleanIsStrict ==
    Scanned /\ mode = "tolerant" /\ ~Straddles =>
      /\ problems = <<>> <=> \E n \in 0 .. capacity : 2 * n <= Len(Inner) /\ IsGoodArray(n)
      /\ problems = <<>> => /\ IsGoodArray(written)
                            /\ \A s \in 0 .. (written - 1) : dst[s].at = 2 * s

\* The offsets of the healthy records, found by one scan of the whole input.
Whole == Filled(Pieces(Inner, 0, Len(Inner)))

LastEnd == IF Whole = <<>> THEN 0 ELSE Whole[Len(Whole)].end

Kept    == Picked(Whole, [k \in DOMAIN Whole |-> Healthy(Whole[k])])
Damaged == Picked(Whole, [k \in DOMAIN Whole |-> ~Healthy(Whole[k])])

\* Where the damaged records that were noted lie.
NotedAt == Picked([k \in DOMAIN problems |-> problems[k].offset],
                  [k \in DOMAIN problems |-> problems[k].record >= 0])

\* A run of commas that fills a window stops the tolerant function.
CommaRun == \E o \in 0 .. (Len(Inner) - Batch) : \A k \in 1 .. Batch : Inner[o + k] = "comma"

\* A damaged record does not discard the healthy ones, wherever it lies in a
\* window: they are all returned, in order, the whole last one of an array
\* without its bracket too, unless the slice is too short.  What else a slot holds
\* was left by damaged records directly in front, and each damaged record is noted
\* once (tolerant.go:5-8, parallel.go:296-300).
HealthyKept ==
    Scanned /\ mode = "tolerant" /\ ~CommaRun =>
      IF failed THEN Len(Whole) > capacity
      ELSE /\ written = Len(Kept) + (IF /\ ~ClosedAt(Inner, LastEnd) /\ Salvageable(LastEnd)
                                        /\ Len(Kept) < capacity THEN 1 ELSE 0)
           /\ \A s \in 0 .. (written - 1) :
                /\ dst[s].at = IF s < Len(Kept) THEN Kept[s + 1].start ELSE TailValue(LastEnd)
                /\ \A h \in dst[s].holds : h <= dst[s].at /\ (s > 0 => h > dst[s - 1].at)
           /\ NotedAt = [k \in DOMAIN Damaged |-> Damaged[k].start]
=============================================================================
