----------------------------- MODULE ArrayScan -----------------------------
(***************************************************************************)
(* What the array splitter finds (src/scalar.go:206-272), and the checks   *)
(* on gaps and tails (src/parallel.go:36-87), shared by the modules of the *)
(* slice decoders.                                                         *)
(*                                                                         *)
(* An array is a sequence of tokens: elements, the comma, the brackets.    *)
(* White space, which the checks skip, is left out.  Offsets count from 0  *)
(* as in the code; the token behind offset i is inner[i + 1], where inner  *)
(* is what follows the opening bracket.                                    *)
(***************************************************************************)
EXTENDS Integers, Sequences, FiniteSets

CONSTANT Batch    \* chunks that the buffer of one scan holds

\* Brackets opened less brackets closed from offset o to token p.
Level(inner, o, p) ==
    Cardinality({q \in (o + 1) .. p : inner[q] = "lbracket"})
      - Cardinality({q \in (o + 1) .. p : inner[q] = "rbracket"})

\* The scan ends at the bracket that closes the array.
Reached(inner, o, p) == \A q \in (o + 1) .. (p - 1) : Level(inner, o, q) >= 0

EndsChunk(inner, o, p) ==
    \/ inner[p] = "comma" /\ Level(inner, o, p) = 0 /\ Reached(inner, o, p)
    \/ inner[p] = "rbracket" /\ Level(inner, o, p) = -1 /\ Reached(inner, o, p)

\* The items among the first n of s that the predicate picks marks, in order.
PickedTo(s, picks, n) ==
    LET upto[k \in 0 .. n] ==
          IF k = 0 THEN <<>>
          ELSE IF picks[k] THEN Append(upto[k - 1], s[k]) ELSE upto[k - 1]
    IN  upto[n]

Picked(s, picks) == PickedTo(s, picks, Len(s))

\* Where chunks end, in order.
Ends(inner, o) ==
    Picked([p \in 1 .. Len(inner) |-> p - 1],
           [p \in 1 .. Len(inner) |-> o < p /\ EndsChunk(inner, o, p)])

\* The first n pieces between the ends, from start to before end.
Pieces(inner, o, n) ==
    LET ends  == Ends(inner, o)
        count == IF Len(ends) < n THEN Len(ends) ELSE n
    IN  [k \in 1 .. count |-> [start |-> IF k = 1 THEN o ELSE ends[k - 1] + 1,
                               end   |-> ends[k]]]

\* One scan from offset o: pieces until the buffer is full.
Split(inner, o) == Pieces(inner, o, Batch)

\* The depth it returns.
DepthLeft(inner, o) ==
    IF Reached(inner, o, Len(inner) + 1) THEN Level(inner, o, Len(inner)) ELSE 0

\* Stray commas give empty chunks, which the callers filter out.
NonEmpty(c) == c.start # c.end

Filled(pieces) == Picked(pieces, [k \in DOMAIN pieces |-> NonEmpty(pieces[k])])

Gap(inner, from, to) == SubSeq(inner, from + 1, to)

\* arrayTailClosed and emptyArrayRemnant: the closing bracket and no more.
ClosedAt(inner, o) == SubSeq(inner, o + 1, Len(inner)) = <<"rbracket">>

-----------------------------------------------------------------------------
(* Reference: the array of the elements es, without its opening bracket.   *)

Array(es) ==
    [p \in 1 .. (IF es = <<>> THEN 1 ELSE 2 * Len(es)) |->
        IF es = <<>> \/ p = 2 * Len(es) THEN "rbracket"
        ELSE IF p % 2 = 1 THEN es[(p + 1) \div 2] ELSE "comma"]
=============================================================================
