-------------------------- MODULE MCStreamDecoder --------------------------
(* Model checking StreamDecoder over every short input.                    *)
EXTENDS StreamDecoder

\* An opening bracket and up to n bytes of the given alphabet.
Arrays(alphabet, n) ==
    {<<"lbracket">> \o s : s \in UNION {[1 .. k -> alphabet] : k \in 0 .. n}}

\* Inputs that are no array at all, and an array behind white space.
Oddities == {<<>>, <<"space">>, <<"lbrace", "rbrace">>, <<"digit">>,
             <<"space", "lbracket", "rbracket", "space">>,
             <<"space", "lbracket", "lbrace", "rbrace", "space">>}

AllBytes == {"rbracket", "comma", "space", "lbrace", "rbrace", "digit"}

Inputs3 == Arrays(AllBytes, 3) \cup Oddities
Inputs4 == Arrays(AllBytes, 4) \cup Oddities

\* One byte more, of the characters that are elements and separators, or that
\* nest.
ChunkInputs == Inputs3 \cup Arrays({"rbracket", "comma", "space", "digit"}, 4)
                       \cup Arrays({"rbracket", "lbrace", "rbrace"}, 4)

\* Numbers and commas in longer arrays, one with more elements than MaxCount.
BlockInputs ==
    Inputs3 \cup Arrays({"rbracket", "comma", "digit"}, 5)
            \cup {<<"lbracket", "digit", "comma", "digit", "comma", "digit", "rbracket">>}
=============================================================================
