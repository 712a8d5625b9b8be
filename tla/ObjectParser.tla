---------------------------- MODULE ObjectParser ---------------------------
(***************************************************************************)
(* One JSON document decoded into a Go value (src/parser.go:223-1227).     *)
(* The target may be fresh or hold an earlier document.                    *)
(*                                                                         *)
(* A document is a sequence of tokens; white space, which is skipped       *)
(* between any two of them, is left out, and so is the inside of strings   *)
(* and numbers (module Members has numbers).  Looking up a key is module   *)
(* KeyTable; here a field is found by its name.                            *)
(***************************************************************************)
EXTENDS Integers, Sequences, SequencesExt

CONSTANTS
    Strings, EmptyString,  \* string tokens, keys among them
    Ints, Zero,            \* integers that fit the integer fields
    WideInts,              \* integers that fit an int only
    Fractions,             \* other numbers
    Cuts,                  \* numbers whose end is missing, like 1.
    IntPart,               \* of a fraction or a cut number: its leading integer
    Registries             \* name -> the fields of a struct type

Kinds == {"string", "int", "float", "bool", "struct", "strings", "ints", "structs", "raw"}

Field == [key : Strings, kind : Kinds, ptr : BOOLEAN, sub : DOMAIN Registries, omit : BOOLEAN]

ASSUME CodecAssumption ==
    /\ EmptyString \in Strings /\ Zero \in Ints
    /\ \A r \in DOMAIN Registries : Registries[r] \in Seq(Field)

Nil == [nil |-> TRUE]

Scalars == {"string", "int", "float", "bool"}

Numbers == Ints \cup WideInts

\* The tokens a scalar field takes.
Accepted(kind) ==
    CASE kind = "string" -> Strings
      [] kind = "int"    -> Ints
      [] kind = "float"  -> Numbers \cup Fractions
      [] kind = "bool"   -> {"true", "false"}

RECURSIVE ZeroOf(_)

Fresh(reg) ==
    [k \in {f.key : f \in ToSet(Registries[reg])} |->
        ZeroOf(CHOOSE f \in ToSet(Registries[reg]) : f.key = k)]

\* Go's zero value of a field.
ZeroOf(f) ==
    CASE f.ptr \/ f.kind \in {"strings", "ints", "structs", "raw"} -> Nil
      [] f.kind = "struct" -> [object |-> Fresh(f.sub)]
      [] f.kind = "string" -> [scalar |-> EmptyString]
      [] f.kind = "bool"   -> [scalar |-> "false"]
      [] OTHER             -> [scalar |-> Zero]

-----------------------------------------------------------------------------
(* Skipping: skipValueStrict returns where the value ends, here 0 for an   *)
(* error.                                                                  *)

At(in, i) == IF i \in DOMAIN in THEN in[i] ELSE "end"

\* A number reaches to the next delimiter.
EndsNumber(in, i) == At(in, i + 1) \in {"{", "}", "[", "]", ":", ",", "end"}

RECURSIVE SkipValue(_, _)

RECURSIVE SkipMembers(_, _)

SkipMembers(in, i) ==
    IF At(in, i) \notin Strings \/ At(in, i + 1) # ":" THEN 0
    ELSE LET end == SkipValue(in, i + 2)
         IN  CASE end = 0           -> 0
               [] At(in, end) = "," -> SkipMembers(in, end + 1)
               [] At(in, end) = "}" -> end + 1
               [] OTHER             -> 0

RECURSIVE SkipItems(_, _)

SkipItems(in, i) ==
    LET end == SkipValue(in, i)
    IN  CASE end = 0           -> 0
          [] At(in, end) = "," -> SkipItems(in, end + 1)
          [] At(in, end) = "]" -> end + 1
          [] OTHER             -> 0

SkipValue(in, i) ==
    CASE At(in, i) \in Strings \cup {"true", "false", "null"} -> i + 1
      [] At(in, i) \in Numbers \cup Fractions ->
            IF EndsNumber(in, i) THEN i + 1 ELSE 0
      [] At(in, i) = "{" -> IF At(in, i + 1) = "}" THEN i + 2 ELSE SkipMembers(in, i + 1)
      [] At(in, i) = "[" -> IF At(in, i + 1) = "]" THEN i + 2 ELSE SkipItems(in, i + 1)
      [] OTHER -> 0

-----------------------------------------------------------------------------
(* Parsing.  A result says where the value ended and what the target holds *)
(* now, after an error too.                                                *)

Done(at, v) == [ok |-> TRUE, at |-> at, val |-> v]
Failed(v)   == [ok |-> FALSE, at |-> 0, val |-> v]

\* null leaves a field as it is, but for pointers and booleans.
OnNull(f, old) ==
    CASE f.ptr           -> Nil
      [] f.kind = "bool" -> [scalar |-> "false"]
      [] OTHER           -> old

\* A number the end of the input cuts off leaves what was read of it.
ParseScalar(in, i, f, old) ==
    IF At(in, i) \in Accepted(f.kind) /\ (f.kind \in {"int", "float"} => EndsNumber(in, i))
    THEN Done(i + 1, [scalar |-> in[i]])
    ELSE Failed(IF f.kind = "float" /\ At(in, i) \in Cuts /\ i = Len(in)
                THEN [scalar |-> IntPart[in[i]]] ELSE old)

RECURSIVE Items(_, _, _, _)

\* The rest of a slice of strings or integers, an item first.  Integers are
\* read digit by digit: a fraction is noticed behind its integer part.
Items(in, i, kind, items) ==
    LET more == Append(items, in[i])
    IN  CASE At(in, i) \in (IF kind = "strings" THEN Strings ELSE Numbers) ->
               CASE At(in, i + 1) = "," -> Items(in, i + 2, kind, more)
                 [] At(in, i + 1) = "]" -> Done(i + 2, more)
                 [] OTHER               -> Failed(more)
          [] kind = "ints" /\ At(in, i) \in Fractions \cup Cuts ->
               Failed(Append(items, IntPart[in[i]]))
          [] OTHER -> Failed(items)

\* Items are appended to the array of the slice the field holds, which keeps
\* its length when an error follows.
ParseItems(in, i, f, old) ==
    IF At(in, i + 1) = "]" THEN Done(i + 2, IF old = Nil THEN Nil ELSE [list |-> <<>>])
    ELSE LET r == Items(in, i + 1, f.kind, <<>>)
         IN  IF r.ok THEN Done(r.at, [list |-> r.val])
             ELSE Failed(IF old = Nil THEN Nil
                         ELSE [list |-> [k \in DOMAIN old.list |->
                                 IF k <= Len(r.val) THEN r.val[k] ELSE old.list[k]]])

ParseRaw(in, i, old) ==
    LET end == SkipValue(in, i)
    IN  IF end = 0 THEN Failed(old) ELSE Done(end, [list |-> SubSeq(in, i, end - 1)])

RECURSIVE ParseMembers(_, _, _, _, _)

ParseObject(in, i, reg, obj) ==
    IF At(in, i) = "{" THEN ParseMembers(in, i + 1, reg, obj, FALSE) ELSE Failed(obj)

\* Mutant of Element: the slot is not cleared before it is decoded into.
ElementReused(f, old, k) ==
    IF old # Nil /\ k \in DOMAIN old.list /\ old.list[k] # Nil
    THEN old.list[k].object ELSE Fresh(f.sub)

\* Each element is decoded into cleared or new memory.
Element(f, old, k) == Fresh(f.sub)

RECURSIVE ParseElements(_, _, _, _, _)

\* Behind element r of a slice of structs.  Its length counts the elements that
\* are complete.
AfterElement(in, f, old, elems, r) ==
    LET more == Append(elems, [object |-> r.val])
    IN  CASE ~r.ok               -> Failed([list |-> elems])
          [] At(in, r.at) = ","  -> ParseElements(in, r.at + 1, f, old, more)
          [] At(in, r.at) = "]"  -> Done(r.at + 1, [list |-> more])
          [] OTHER               -> Failed([list |-> more])

\* The rest of a slice of structs, an element first.
ParseElements(in, i, f, old, elems) ==
    AfterElement(in, f, old, elems,
                 ParseObject(in, i, f.sub, Element(f, old, Len(elems) + 1)))

EmptyStructs(in, i, f) == f.kind = "structs" /\ At(in, i) = "[" /\ At(in, i + 1) = "]"

\* An empty slice of structs leaves the field as it is; null is refused.
ParseStructs(in, i, f, old) ==
    CASE At(in, i) # "["        -> Failed(old)
      [] EmptyStructs(in, i, f) -> Done(i + 2, old)
      [] OTHER                  -> ParseElements(in, i + 1, f, old, <<>>)

\* A struct behind a pointer is decoded where it is, or made.
ParseStruct(in, i, f, old) ==
    IF At(in, i) # "{" THEN Failed(old)
    ELSE LET r == ParseObject(in, i, f.sub, IF old = Nil THEN Fresh(f.sub) ELSE old.object)
         IN  [r EXCEPT !.val = [object |-> r.val]]

ParseValue(in, i, f, old) ==
    CASE f.kind = "structs"  -> ParseStructs(in, i, f, old)
      [] f.kind = "raw"      -> ParseRaw(in, i, old)
      [] At(in, i) = "null"  -> Done(i + 1, OnNull(f, old))
      [] f.kind = "struct"   -> ParseStruct(in, i, f, old)
      [] f.kind \in Scalars  -> ParseScalar(in, i, f, old)
      [] At(in, i) = "["     -> ParseItems(in, i, f, old)
      [] OTHER               -> Failed(old)

\* Mutant of Kept: an error in a field leaves the field as it was.
KeptBefore(obj, after, key) == Failed(obj)

\* An error leaves the fields before it, and what it left of its own.
Kept(obj, after, key) == Failed([obj EXCEPT ![key] = after])

\* The result r of a field's value, into the object.
Stored(obj, key, r) ==
    IF r.ok THEN Done(r.at, [obj EXCEPT ![key] = r.val]) ELSE Kept(obj, r.val, key)

\* An unknown member leaves the object as it is.
Skipped(obj, end) == IF end = 0 THEN Failed(obj) ELSE Done(end, obj)

\* The member at i, into obj: where it ends, the object then.
ParseMember(in, i, reg, obj) ==
    LET fs == SelectSeq(Registries[reg], LAMBDA f : f.key = in[i])
    IN  IF fs = <<>> THEN Skipped(obj, SkipValue(in, i + 2))
        ELSE Stored(obj, in[i], ParseValue(in, i + 2, fs[1], obj[in[i]]))

\* Behind an empty slice of structs no comma is looked for: the loop starts
\* over (parser.go:946-949).
NoSeparator(in, i, reg) ==
    \E k \in DOMAIN Registries[reg] :
        Registries[reg][k].key = in[i] /\ EmptyStructs(in, i + 2, Registries[reg][k])

\* Mutant of MayClose: a comma may stand before the closing brace.
MayCloseAlways(afterComma) == TRUE

MayClose(afterComma) == ~afterComma

\* Behind member m, which started at i.
AfterMember(in, i, reg, m) ==
    CASE ~m.ok                   -> m
      [] NoSeparator(in, i, reg) -> ParseMembers(in, m.at, reg, m.val, FALSE)
      [] At(in, m.at) = "}"      -> Done(m.at + 1, m.val)
      [] At(in, m.at) = ","      -> ParseMembers(in, m.at + 1, reg, m.val, TRUE)
      [] OTHER                   -> Failed(m.val)

ParseMembers(in, i, reg, obj, afterComma) ==
    CASE At(in, i) = "}" /\ MayClose(afterComma) -> Done(i + 1, obj)
      [] At(in, i) \notin Strings \/ At(in, i + 1) # ":" \/ i + 2 > Len(in) -> Failed(obj)
      [] OTHER -> AfterMember(in, i, reg, ParseMember(in, i, reg, obj))

\* parseObjectStrict: the whole input is one document.
Whole(in, r) == IF r.ok /\ r.at # Len(in) + 1 THEN Failed(r.val) ELSE r

\* A root slice is emptied first.  Only slice types know their element type.
ParseRootSlice(in, f, old) ==
    CASE f.kind # "structs"  -> Failed(old)
      [] At(in, 2) = "]"     -> Done(3, [list |-> <<>>])
      [] OTHER               -> ParseElements(in, 2, f, old, <<>>)

ParseRoot(in, f, old) ==
    Whole(in, CASE At(in, 1) = "null" -> Done(2, old)
                [] At(in, 1) = "["    -> ParseRootSlice(in, f, old)
                [] f.kind = "struct"  -> ParseStruct(in, 1, f, old)
                [] OTHER              -> Failed(old))
=============================================================================
