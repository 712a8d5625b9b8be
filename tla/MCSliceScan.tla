---------------------------- MODULE MCSliceScan ----------------------------
(* Short inputs of every kind, and arrays of several windows with a flaw.  *)
EXTENDS SliceScan

CONSTANTS MaxTokens, MaxElements

Tokens == {"e", "p", "x", "comma", "lbracket", "rbracket"}

ShortInputs ==
    {<<"lbracket">> \o s : s \in UNION {[1 .. n -> Tokens] : n \in 0 .. MaxTokens}} \cup {<<>>, <<"e">>}

Arrays == {Array([k \in 1 .. n |-> "e"]) : n \in 1 .. MaxElements}

\* One token replaced, doubled or dropped, or the end cut off.
Replaced(a) == {[a EXCEPT ![p] = t] : p \in DOMAIN a, t \in Tokens}
Doubled(a)  == {SubSeq(a, 1, p) \o SubSeq(a, p, Len(a)) : p \in DOMAIN a}
Dropped(a)  == {SubSeq(a, 1, p - 1) \o SubSeq(a, p + 1, Len(a)) : p \in DOMAIN a}
Cut(a)      == {SubSeq(a, 1, p) : p \in DOMAIN a}

LongInputs ==
    {<<"lbracket">> \o b : b \in UNION {Replaced(a) \cup Doubled(a) \cup Dropped(a) \cup Cut(a)
                                   : a \in Arrays}}

AllInputs == ShortInputs \cup LongInputs
=============================================================================
