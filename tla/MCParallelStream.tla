-------------------------- MODULE MCParallelStream --------------------------
(* Blocks of up to Batch records, whole or with one of them damaged.       *)
EXTENDS ParallelStream

CONSTANT MaxBlocks

Block == {b \in [count : 1 .. Batch, bad : 0 .. Batch] : b.bad <= b.count}

\* Up to two blocks of every kind.
ShortPlans == UNION {[1 .. n -> Block] : n \in 0 .. 2}

\* MaxBlocks full blocks, enough of them to wrap the ring and to fill the
\* queues; all whole, or a record of an early or of the last block damaged.
LongPlans ==
    {[b \in 1 .. MaxBlocks |-> [count |-> Batch, bad |-> IF b = x THEN 1 ELSE 0]] :
        x \in {0, 1, 2, MaxBlocks}}

Plans28 == ShortPlans \cup LongPlans
=============================================================================
