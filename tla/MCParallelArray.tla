-------------------------- MODULE MCParallelArray --------------------------
(* Short inputs of every kind, and arrays of many windows.                 *)
EXTENDS ParallelArray

CONSTANT MaxElements

Tokens == {"e", "x", "comma", "lbracket", "rbracket"}

\* Every inside of at most five tokens, and inputs that are no array.
ShortInputs ==
    {<<"lbracket">> \o s : s \in UNION {[1 .. n -> Tokens] : n \in 0 .. 5}} \cup {<<>>, <<"e">>}

\* Arrays of up to MaxElements elements, all good, or with the elements of some
\* of {1, 4, 5, 8, last} failing, so that the first error is early or late and
\* more batches fail than the error channel has room for.
Long(n, failing) ==
    [p \in 1 .. (2 * n + 1) |->
        CASE p = 1 -> "lbracket"
          [] p = 2 * n + 1 -> "rbracket"
          [] p % 2 = 1 -> "comma"
          [] p \div 2 \in failing -> "x"
          [] OTHER -> "e"]

LongInputs ==
    {Long(n, {}) : n \in 3 .. MaxElements}
      \cup {Long(MaxElements, f) : f \in SUBSET {1, 4, 6, 8, MaxElements}}

AllInputs == ShortInputs \cup LongInputs
=============================================================================
