------------------------------ MODULE KeyTable ------------------------------
(***************************************************************************)
(* How a registry finds the field of a key (src/registry.go:152-172,       *)
(* 436-508 and src/parser.go:599-685): few fields are searched in order,   *)
(* many through an open hash table; a key nobody has is tried once more in *)
(* lower case.                                                             *)
(*                                                                         *)
(* A key is what the search sees of it: its length, the word its bytes     *)
(* pack into when they fit one, and its lower case.                        *)
(***************************************************************************)
EXTENDS Integers, Sequences, FiniteSets, FiniteSetsExt

CONSTANTS
    Keys, KeyLen, Lower,
    Packed,      \* of a key: the word its bytes make
    Word,        \* bytes in a word: 8
    ByteRange,   \* values of a byte: 256
    SmallLimit   \* fields searched without a table: 16

\* A word of known length has one key, and only the empty key is empty in lower case.
ASSUME KeyAssumption ==
    /\ KeyLen \in [Keys -> Nat] /\ Lower \in [Keys -> Keys] /\ Packed \in [Keys -> Nat]
    /\ \A k, l \in Keys : KeyLen[k] = KeyLen[l] /\ KeyLen[k] <= Word /\ Packed[k] = Packed[l] => k = l
    /\ \A k \in Keys : KeyLen[Lower[k]] = 0 => KeyLen[k] = 0
    /\ Word \in Nat /\ ByteRange \in Nat \ {0} /\ SmallLimit \in Nat

\* Only short keys are packed; the others, and the empty one, have the word 0.
U64(k) == IF KeyLen[k] \in 1 .. Word THEN Packed[k] ELSE 0

\* Mutant of SameKey: short keys are compared by their word alone.
SameWord(k, len, u64, str) == IF KeyLen[k] <= Word THEN u64 = U64(k) ELSE str = k

\* Short keys are compared by length and word, long ones byte by byte.
SameKey(k, len, u64, str) ==
    IF KeyLen[k] <= Word THEN len = KeyLen[k] /\ u64 = U64(k) ELSE str = k

First(S) == IF S = {} THEN 0 ELSE Min(S)

\* Up to SmallLimit fields.
SearchFields(names, k) ==
    First({i \in DOMAIN names : SameKey(k, KeyLen[names[i]], U64(names[i]), names[i])})

-----------------------------------------------------------------------------
(* The table: slots 0, 1, ... of which each holds the length of a key as a *)
(* byte, 0 if the slot is free, its word, the key and the field.           *)

Free == [len |-> 0, u64 |-> 0, str |-> CHOOSE k \in Keys : TRUE, field |-> 0]

\* Doubled until more than half of the slots stay free.
TableSize(n) ==
    LET size[i \in 0 .. 2 * n] ==
          IF i = 0 THEN 1 ELSE IF size[i - 1] <= 2 * n THEN 2 * size[i - 1] ELSE size[i - 1]
    IN  size[2 * n]

HashFunctions == [u64 : [{U64(k) : k \in Keys} -> Nat], str : [Keys -> Nat]]

Hash(h, k) == IF KeyLen[k] <= Word THEN h.u64[U64(k)] ELSE h.str[k]

Stuck == -1

\* The first of the slots stops from the hash of k on; without one the loop does
\* not end.
Probe(table, h, k, stops) ==
    LET size == Cardinality(DOMAIN table)
        hits == {d \in 0 .. size - 1 : (Hash(h, k) + d) % size \in stops}
    IN  IF hits = {} THEN Stuck ELSE (Hash(h, k) + Min(hits)) % size

Vacant(table) == {s \in DOMAIN table : table[s].len = 0}

Entry(name, i) ==
    [len |-> KeyLen[name] % ByteRange, u64 |-> U64(name), str |-> name, field |-> i]

\* Field i enters the table.
Entered(table, h, name, i) ==
    LET slot == Probe(table, h, name, Vacant(table))
    IN  IF slot = Stuck THEN table ELSE [table EXCEPT ![slot] = Entry(name, i)]

BuildTable(names, h) ==
    LET upto[i \in 0 .. Len(names)] ==
          IF i = 0 THEN [s \in 0 .. TableSize(Len(names)) - 1 |-> Free]
          ELSE Entered(upto[i - 1], h, names[i], i)
    IN  upto[Len(names)]

\* Where the search for k ends.
Stops(table, k) ==
    {s \in DOMAIN table : table[s].len = 0 \/ SameKey(k, table[s].len, table[s].u64, table[s].str)}

SearchTable(names, h, k) ==
    LET table == BuildTable(names, h)
        slot  == Probe(table, h, k, Stops(table, k))
    IN  IF slot = Stuck THEN Stuck
        ELSE IF table[slot].len = 0 THEN 0 ELSE table[slot].field

Exact(names, h, k) ==
    IF Len(names) <= SmallLimit THEN SearchFields(names, k) ELSE SearchTable(names, h, k)

\* lowerMap: the first field of a name in lower case; the empty name is not in it.
Fallback(names, k) ==
    First({i \in DOMAIN names : Lower[names[i]] = Lower[k] /\ KeyLen[Lower[k]] > 0})

\* The field of key k, 0 if there is none.
Lookup(names, h, k) ==
    LET i == Exact(names, h, k) IN IF i = 0 THEN Fallback(names, k) ELSE i
=============================================================================
