------------------------------ MODULE Members ------------------------------
(***************************************************************************)
(* A registry is declared field by field (src/registry.go:138-484), then   *)
(* members of objects are decoded with it (src/parser.go:568-820): the     *)
(* field of the key is looked up and its number or string read, stored,    *)
(* and printed again.                                                      *)
(***************************************************************************)
EXTENDS KeyTable, Scalars

CONSTANTS
    Fields(_),  \* the fields that may follow fields: [key, type]
    Hashes(_),  \* hash functions to consider for fields
    Texts(_, _) \* values that members of a key have, given fields

Kinds == {"int", "float", "string"}

Type == [kind : Kinds, bits : 1 .. WordBits, unsigned : BOOLEAN]

Field == [key : Keys, type : Type]

VARIABLES
    fields,  \* the fields so far
    hash,    \* the hash function, or None until the registry is complete
    last     \* the last member: [key, text, field, out], or None

vars == <<fields, hash, last>>

None == [nothing |-> TRUE]

Names == [i \in DOMAIN fields |-> fields[i].key]

Init == fields = <<>> /\ hash = None /\ last = None

Declare(f) ==
    /\ hash = None /\ f \in Field
    /\ fields' = Append(fields, f)
    /\ UNCHANGED <<hash, last>>

Complete(h) ==
    /\ hash = None /\ h \in HashFunctions /\ hash' = h
    /\ UNCHANGED <<fields, last>>

\* A number is parsed, its width checked, stored, and loaded again.
ReadInt(t, text) ==
    LET p == ParseInt(text)
    IN  IF p.ok /\ FitsWidth(p.val, t.bits, t.unsigned)
        THEN [ok |-> TRUE, val |-> Loaded(Stored(p.val, t.bits), t.bits, t.unsigned)]
        ELSE Bad

Read(t, text) ==
    CASE t.kind = "int"    -> ReadInt(t, text)
      [] t.kind = "float"  -> ParseFloat(text)
      [] t.kind = "string" -> ReadString(text)

DecodeMember(k, text) ==
    /\ hash # None /\ last = None /\ text \in Seq(STRING)
    /\ LET i == Lookup(Names, hash, k)
       IN  last' = [key |-> k, text |-> text, field |-> i,
                    out |-> IF i \in DOMAIN fields THEN Read(fields[i].type, text) ELSE None]
    /\ UNCHANGED <<fields, hash>>

Next ==
    \/ \E f \in Fields(fields) : Declare(f)
    \/ \E h \in Hashes(fields) : Complete(h)
    \/ \E k \in Keys : \E text \in Texts(k, fields) : DecodeMember(k, text)

Spec == Init /\ [][Next]_vars

-----------------------------------------------------------------------------
(* Properties.                                                             *)

\* A key finds the first field of its name, else the first whose name differs in
\* case only; the search ends whatever the names are (parser.go:599-685,
\* registry.go:436-452).  Names are as structs have them: an empty name, or one of
\* 256 bytes, is found among few fields and not found among many.
LookupExact ==
    last # None =>
      LET names == Names
          same  == First({i \in DOMAIN names : names[i] = last.key})
          other == First({i \in DOMAIN names : Lower[names[i]] = Lower[last.key]})
      IN  /\ last.field # Stuck
          /\ (\A i \in DOMAIN names : KeyLen[names[i]] \in 1 .. ByteRange - 1) =>
               last.field = IF same # 0 THEN same ELSE other

Decodes(kind) == last # None /\ last.out # None /\ fields[last.field].type.kind = kind

\* The grammar of integers and numbers, on characters.
AllDigits(b) == b # <<>> /\ \A i \in DOMAIN b : IsDigit(b[i])

Unsigned(b) == AllDigits(b) /\ (b[1] = "0" => Len(b) = 1)

Integer(b) == Unsigned(b) \/ (b # <<>> /\ b[1] = "-" /\ Unsigned(Tail(b)))

Value(b) == (IF b[1] = "-" THEN -1 ELSE 1) * Decimal(b, 1, Len(b))

Number(b) ==
    \E i \in DOMAIN b : \E j \in i .. Len(b) :
      LET frac == SubSeq(b, i + 1, j)
          exp  == SubSeq(b, j + 1, Len(b))
      IN  /\ Integer(SubSeq(b, 1, i))
          /\ frac = <<>> \/ (frac[1] = "." /\ AllDigits(Tail(frac)))
          /\ \/ exp = <<>>
             \/ /\ exp[1] \in {"e", "E"}
                /\ \/ AllDigits(Tail(exp))
                   \/ Len(exp) > 1 /\ exp[2] \in {"+", "-"} /\ AllDigits(SubSeq(exp, 3, Len(exp)))

\* An integer field takes exactly the integers its width holds and holds the
\* value, which is printed as it was read (primitives.go:98-99, 471-539;
\* CHANGELOG.md:192).  Without AVX2 the most negative word is printed as -0.
IntsExact ==
    Decodes("int") =>
      LET t    == fields[last.field].type
          low  == IF t.unsigned THEN 0 ELSE -Pow2(t.bits - 1)
          high == IF t.unsigned /\ t.bits < WordBits THEN Pow2(t.bits) - 1
                  ELSE IF t.bits < WordBits THEN Pow2(t.bits - 1) - 1 ELSE MaxInt
      IN  /\ last.out.ok <=> Integer(last.text) /\ Value(last.text) \in low .. high
          /\ last.out.ok =>
               /\ last.out.val = Value(last.text)
               /\ \A kernel \in Kernels :
                    LET again == ParseInt(PrintInt(last.out.val, kernel))
                    IN  /\ again.ok
                        /\ again.val = last.out.val \/ (kernel = "scalar" /\ last.out.val = MinInt)

\* A number is accepted when it is JSON; it counts as cut short when more
\* characters could make it a number; the fast and the slow path agree
\* (primitives.go:194-227, 370-376).  Of a cut number what was read is kept.
FloatsExact ==
    Decodes("float") =>
      LET b == last.text
      IN  /\ last.out.ok <=> Number(b)
          /\ last.out.cut <=> b # <<>> /\ ~Number(b) /\ Number(Append(b, "0"))
          /\ last.out.ok \/ (last.out.cut /\ Mantissa(b) <= MantissaMax) => last.out.val = Mantissa(b)

\* What a string literal consists of: characters and escapes, one or a pair of them.
IsUnit(u) ==
    \/ Len(u) = 1 /\ u[1] \notin {"quote", "back"}
    \/ u \in {<<"back", "quote">>, <<"back", "back">>, <<"back", "n">>}
    \/ u \in {<<"back", "u", c>> : c \in Codes}
    \/ u = <<"back", "u", "high", "back", "u", "low">>

\* What a unit stands for.
Meaning(u) ==
    CASE Len(u) = 1 -> u[1]
      [] Len(u) = 2 -> IF u[2] = "n" THEN "nl" ELSE u[2]
      [] Len(u) = 3 -> Decoded(u[3])
      [] OTHER      -> "pair"

\* What body stands for, read as units and a pair never as two halves.
Readings(body) ==
    LET Halves(u, r) == r # <<>> /\ IsUnit(u \o r[1])
        from[i \in 1 .. Len(body) + 1] ==
          IF i > Len(body) THEN {<<>>}
          ELSE UNION {LET u == SubSeq(body, i, i + n - 1)
                      IN  IF IsUnit(u) THEN {<<u>> \o r : r \in {r \in from[i + n] : ~Halves(u, r)}} ELSE {} :
                        n \in {n \in {1, 2, 3, 6} : i + n <= Len(body) + 1}}
    IN  {[k \in DOMAIN r |-> Meaning(r[k])] : r \in from[1]}

\* A string literal is read as its units say, surrogate halves together or as the
\* replacement character, or refused; what is printed is read back as the same
\* string (primitives.go:561-563, 640-655, control_chars_test.go:68).
StringsExact ==
    Decodes("string") =>
      LET text  == last.text
          out   == last.out
          ends  == {u \in DOMAIN text : text[u] = "quote" /\ Readings(SubSeq(text, 1, u - 1)) # {}}
      IN  /\ out.ok <=> ends # {}
          /\ out.ok => /\ ends = {out.used} /\ Readings(SubSeq(text, 1, out.used - 1)) = {out.val}
                       /\ ReadString(PrintString(out.val)) =
                            [out EXCEPT !.used = Len(PrintString(out.val))]
=============================================================================
