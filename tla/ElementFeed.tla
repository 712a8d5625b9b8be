---------------------------- MODULE ElementFeed ----------------------------
(***************************************************************************)
(* What a StreamDecoder promises its caller, with no buffer, no reader and *)
(* no read boundary in it: the elements of a JSON array are handed out in  *)
(* the order of the input, each exactly once and whole, and the feed then  *)
(* ends either at the closing bracket or, when the input stops before it,  *)
(* as a truncated envelope.  The elements are those of the whole input,    *)
(* which only this module looks at.                                        *)
(*                                                                         *)
(* Positions count from 0, as in the code: At(i) is byte i of the input.   *)
(***************************************************************************)
EXTENDS Integers, Sequences, FiniteSets

CONSTANT Kernel     \* which splitter the build dispatches to: "scalar" or "avx2"

VARIABLES
    input,      \* the bytes the reader will produce, then end of file
    tolerant,   \* whether the decoder was switched to tolerant mode
    out,        \* everything handed to the caller, in order
    status      \* "open", then "ended" or "truncated" for good

feedVars == <<input, tolerant, out, status>>

Openers == {"lbracket", "lbrace"}
Closers == {"rbracket", "rbrace"}

At(i)      == input[i + 1]
Positions  == 0 .. (Len(input) - 1)
Slice(i, j) == SubSeq(input, i + 1, j)

\* The first position from i on that holds no white space.
NonSpaceFrom(i) ==
    CHOOSE j \in i .. Len(input) :
        /\ \A k \in i .. (j - 1) : At(k) = "space"
        /\ j < Len(input) => At(j) # "space"

\* The opening bracket of the envelope, when the input has one.
Opening == NonSpaceFrom(0)
IsArray == Opening < Len(input) /\ At(Opening) = "lbracket"

\* Brackets open just before position i, inside the envelope.
DepthAt(i) ==
    Cardinality({j \in (Opening + 1) .. (i - 1) : At(j) \in Openers})
      - Cardinality({j \in (Opening + 1) .. (i - 1) : At(j) \in Closers})

\* Scanning cannot go past the closing bracket, nor, in the scalar splitter,
\* past a closing brace that matches nothing.
Stops(i) == /\ At(i) = "rbracket" \/ (At(i) = "rbrace" /\ Kernel = "scalar")
            /\ DepthAt(i) = 0

\* The positions where an element ends: commas of the envelope and its bracket.
Cuts ==
    IF ~IsArray THEN {}
    ELSE {i \in (Opening + 1) .. (Len(input) - 1) :
            /\ At(i) \in {"comma", "rbracket"}
            /\ DepthAt(i) = 0
            /\ \A j \in (Opening + 1) .. (i - 1) : ~Stops(j)}

Closed == \E c \in Cuts : At(c) = "rbracket"

\* Where the element cut off at c begins; an empty one begins at c.
ElementStart(c) ==
    LET before == {d \in Cuts : d < c}
    IN  NonSpaceFrom(IF before = {} THEN Opening + 1
                     ELSE 1 + CHOOSE d \in before : \A e \in before : e <= d)

Empty(c)   == ElementStart(c) = c
Empties    == {c \in Cuts : Empty(c)}
Elements   == Cuts \ Empties

\* What follows the last cut of an envelope that is never closed.
RestStart ==
    NonSpaceFrom(IF ~IsArray THEN Opening
                 ELSE IF Cuts = {} THEN Opening + 1
                 ELSE 1 + CHOOSE d \in Cuts : \A e \in Cuts : e <= d)
Rest == Slice(RestStart, Len(input))

Frontier == IF out = <<>> THEN -1
            ELSE out[Len(out)].at + Len(out[Len(out)].bytes)

Ahead == {c \in Cuts : c > Frontier}

-----------------------------------------------------------------------------
\* A value in the alphabet of the model: a number or an object or array
\* with nothing in it.  It stands for skipValueStrict reaching the end.
IsValue(s) ==
    /\ s # <<>>
    /\ \/ \A i \in DOMAIN s : s[i] = "digit"
       \/ /\ Len(s) > 1
          /\ <<s[1], s[Len(s)]>> \in {<<"lbrace", "rbrace">>,
                                      <<"lbracket", "rbracket">>}
          /\ \A i \in 2 .. (Len(s) - 1) : s[i] = "space"

\* The record type of the model is a struct: only an object decodes into it.
Decodes(s) ==
    \E k \in DOMAIN s : /\ IsValue(SubSeq(s, 1, k))
                        /\ s[1] = "lbrace"
                        /\ \A i \in (k + 1) .. Len(s) : s[i] = "space"

\* The verdict the caller sees with an element: raw bytes are not judged.
Kinds(s) == {"raw", IF Decodes(s) THEN "record" ELSE "damaged"}

Entry(s, e, k, m) == [at |-> s, bytes |-> Slice(s, e), kind |-> k, count |-> m]

-----------------------------------------------------------------------------
FeedInit == /\ out = <<>>
            /\ status = "open"

\* The next elements, one or a block of adjacent ones.  Strict decoders never
\* step over an empty element to reach them.
Deliver ==
    /\ status = "open" /\ out' # out
    /\ UNCHANGED <<input, tolerant, status>>
    /\ \E c \in Ahead \cap Elements, d \in Ahead \cap Elements :
        LET block == {b \in Ahead : c <= b /\ b <= d}
            s     == ElementStart(c)
        IN  /\ block # {} /\ block \subseteq Elements
            /\ \A b \in Ahead : b < c => (tolerant /\ b \in Empties)
            /\ \E k \in Kinds(Slice(s, d)) \cup {"block"} :
                 /\ k # "block" => c = d
                 /\ out' = Append(out, Entry(s, d, k, Cardinality(block)))

\* A complete last element whose terminator never came.
Salvage ==
    /\ status = "open" /\ status' = "truncated"
    /\ UNCHANGED <<input, tolerant>>
    /\ ~Closed /\ Ahead \cap Elements = {}
    /\ IsValue(Rest)
    /\ \E k \in Kinds(Rest) \cup {"block"} :
         out' = Append(out, Entry(RestStart, Len(input), k, 1))

\* The input stops short, perhaps inside a value whose bytes go out with the
\* error; an empty element in the way of a block can be answered the same.
Truncate ==
    /\ status = "open" /\ status' = "truncated"
    /\ UNCHANGED <<input, tolerant>>
    /\ \/ ~Closed /\ Ahead \cap Elements = {}
       \/ \E c \in Ahead \cap Empties : \A d \in Ahead : c <= d
    /\ out' \in {out, Append(out, Entry(RestStart, Len(input), "fragment", 0))}

\* The closing bracket, once every element has been handed out.
Close ==
    /\ status = "open" /\ status' = "ended"
    /\ UNCHANGED <<input, tolerant, out>>
    /\ Closed /\ Ahead \cap Elements = {}

FeedNext == Deliver \/ Salvage \/ Truncate \/ Close

FeedSpec == FeedInit /\ [][FeedNext]_feedVars
=============================================================================
