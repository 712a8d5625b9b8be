-------------------------- MODULE MCRegistryCache --------------------------
(* Three types, declared in every way that matters.                        *)
EXTENDS RegistryCache, TLC

CONSTANTS A, B, S

Struct(fields) == [kind |-> "struct", fields |-> fields]
Slice(t)       == [kind |-> "slice", fields |-> <<t>>]

\* A refers to B once or twice, or to itself, before or after a bad field; B is
\* plain, bad, refers back to A or to itself; S is a slice of either, or a struct.
ShapesOf(a, b, s) == {(A :> Struct(x)) @@ (B :> Struct(y)) @@ (S :> z) : x \in a, y \in b, z \in s}

AllShapes ==
    ShapesOf({<<B>>, <<B, Plain>>, <<B, Bad>>, <<Bad, B>>, <<B, B>>, <<A, B>>, <<Plain>>},
             {<<Plain>>, <<Bad>>, <<A>>, <<B>>, <<A, Bad>>},
             {Slice(A), Struct(<<A, B>>)})
=============================================================================
