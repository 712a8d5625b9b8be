---------------------------- MODULE ObjectCodec ----------------------------
(***************************************************************************)
(* Documents decoded into one target, one after the other, and the target  *)
(* printed again (src/parser.go:154-221 and the marshalers of              *)
(* src/registry.go), against what JSON and its documents mean.             *)
(***************************************************************************)
EXTENDS ObjectParser, FiniteSets

CONSTANTS
    Roots,        \* what a document is decoded into
    Firsts(_),    \* root -> documents decoded into the fresh target
    Trees(_),     \* root -> documents decoded next
    Damaged(_, _) \* what may become of a document's text; whether the target is fresh

ASSUME RootsAssumption == Roots \subseteq Field

VARIABLES
    root,   \* the field that stands for the target
    val,    \* what the target holds
    last    \* the last decode: [tree, text, before, ok], or None

vars == <<root, val, last>>

-----------------------------------------------------------------------------
(* Printing.                                                               *)

Joined(parts) ==
    FoldLeft(LAMBDA text, part : IF text = <<>> THEN part ELSE text \o <<",">> \o part,
             <<>>, parts)

Map(F(_), s) == [k \in DOMAIN s |-> F(s[k])]

\* Mutant of Empty: a pointer is empty when what it points to is.
EmptyPointee(f, v) ==
    CASE v = Nil -> TRUE
      [] f.kind = "struct" -> FALSE
      [] f.kind \in Scalars -> v = ZeroOf([f EXCEPT !.ptr = FALSE])
      [] OTHER -> v.list = <<>>

\* What omitempty leaves out: never a struct.
Empty(f, v) ==
    CASE v = Nil -> TRUE
      [] f.ptr \/ f.kind = "struct" -> FALSE
      [] f.kind \in Scalars -> v = ZeroOf(f)
      [] OTHER -> v.list = <<>>

RECURSIVE MarshalObject(_, _)

\* Slices may hold nil pointers.
MarshalElement(f, v) == IF v = Nil THEN <<"null">> ELSE MarshalObject(f.sub, v.object)

Brackets(parts) == <<"[">> \o Joined(parts) \o <<"]">>

MarshalField(f, v) ==
    CASE v = Nil              -> <<"null">>
      [] f.kind \in Scalars   -> <<v.scalar>>
      [] f.kind = "struct"    -> MarshalObject(f.sub, v.object)
      [] f.kind = "raw"       -> IF v.list = <<>> THEN <<"null">> ELSE v.list
      [] f.kind = "structs"   -> Brackets(Map(LAMBDA e : MarshalElement(f, e), v.list))
      [] OTHER                -> Brackets(Map(LAMBDA e : <<e>>, v.list))

Written(f, obj) == ~(f.omit /\ Empty(f, obj[f.key]))

MarshalObject(reg, obj) ==
    LET fs == SelectSeq(Registries[reg], LAMBDA f : Written(f, obj))
    IN  <<"{">> \o Joined(Map(LAMBDA f : <<f.key, ":">> \o MarshalField(f, obj[f.key]), fs))
          \o <<"}">>

\* Marshal, and MarshalSlice, which writes nil as [].
Marshal(f, v) ==
    IF f.kind = "structs" /\ v = Nil THEN <<"[", "]">> ELSE MarshalField(f, v)

-----------------------------------------------------------------------------
(* What documents mean.  A tree is a token, the items of an array, or the  *)
(* members of an object.                                                   *)

Leaf(t)  == "leaf" \in DOMAIN t
Array(t) == "items" \in DOMAIN t

RECURSIVE Text(_)

Parts(t) ==
    IF Array(t) THEN Map(Text, t.items)
    ELSE Map(LAMBDA m : <<m.key, ":">> \o Text(m.value), t.members)

Text(t) ==
    CASE Leaf(t)  -> <<t.leaf>>
      [] Array(t) -> Brackets(Parts(t))
      [] OTHER    -> <<"{">> \o Joined(Parts(t)) \o <<"}">>

RECURSIVE JsonValue(_)

\* The grammar of JSON, on a sequence of tokens.
JsonValue(s) ==
    LET inner   == SubSeq(s, 2, Len(s) - 1)
        Member(p) == Len(p) > 2 /\ p[1] \in Strings /\ p[2] = ":" /\ JsonValue(SubSeq(p, 3, Len(p)))
        Separated(Part(_)) ==
            \/ inner = <<>>
            \/ \E cuts \in SUBSET {k \in DOMAIN inner : inner[k] = ","} :
                 LET ends == cuts \cup {0, Len(inner) + 1}
                 IN  \A a, b \in ends :
                       a < b /\ (\A c \in ends : c <= a \/ c >= b) =>
                         Part(SubSeq(inner, a + 1, b - 1))
    IN  CASE s = <<>>     -> FALSE
          [] Len(s) = 1   -> s[1] \in Strings \cup Numbers \cup Fractions \cup {"null", "true", "false"}
          [] s[1] = "{"   -> s[Len(s)] = "}" /\ Separated(Member)
          [] s[1] = "["   -> s[Len(s)] = "]" /\ Separated(JsonValue)
          [] OTHER        -> FALSE

Named(reg, key) == {f \in ToSet(Registries[reg]) : f.key = key}

RECURSIVE Fits(_, _, _)

\* Document t is of field f's type; floats may be tokens of extra, too.  null
\* fits all types but slices of structs.
Fits(f, t, extra) ==
    CASE f.kind = "raw" -> JsonValue(Text(t))
      [] Leaf(t) -> \/ t.leaf = "null" /\ f.kind # "structs"
                    \/ f.kind \in Scalars /\ t.leaf \in Accepted(f.kind)
                    \/ f.kind = "float" /\ t.leaf \in extra
      [] Array(t) ->
           \/ f.kind = "strings" /\ \A x \in ToSet(t.items) : Leaf(x) /\ x.leaf \in Strings
           \/ f.kind = "ints" /\ \A x \in ToSet(t.items) : Leaf(x) /\ x.leaf \in Numbers
           \/ /\ f.kind = "structs"
              /\ \A x \in ToSet(t.items) :
                   "members" \in DOMAIN x
                   /\ Fits([f EXCEPT !.kind = "struct"], x, extra)
      [] OTHER -> /\ f.kind = "struct"
                  /\ \A m \in ToSet(t.members) :
                       \A g \in Named(f.sub, m.key) : Fits(g, m.value, extra)

RECURSIVE Applied(_, _, _)

\* What field f holds after document t, if it held old.
Applied(f, old, t) ==
    CASE f.kind = "raw" -> [list |-> Text(t)]
      [] Leaf(t) ->
           CASE t.leaf = "null" -> IF f.ptr THEN Nil
                                   ELSE IF f.kind = "bool" THEN ZeroOf(f) ELSE old
             [] t.leaf \in Cuts -> [scalar |-> IntPart[t.leaf]]
             [] OTHER           -> [scalar |-> t.leaf]
      [] Array(t) ->
           [list |-> IF f.kind = "structs"
                     THEN Map(LAMBDA x : Applied([f EXCEPT !.kind = "struct"], Nil, x), t.items)
                     ELSE Map(LAMBDA x : x.leaf, t.items)]
      [] OTHER ->
           LET Put(obj, m) ==
                 [k \in DOMAIN obj |->
                    IF k = m.key /\ Named(f.sub, k) # {}
                    THEN Applied(CHOOSE g \in Named(f.sub, k) : TRUE, obj[k], m.value)
                    ELSE obj[k]]
           IN  [object |-> FoldLeft(Put, IF old = Nil THEN Fresh(f.sub) ELSE old.object, t.members)]

RECURSIVE Canon(_, _)

\* Up to the difference of nil and empty slices.
Canon(f, v) ==
    CASE v = Nil -> Nil
      [] f.kind = "struct" ->
           [object |-> [k \in DOMAIN v.object |->
                          Canon(CHOOSE g \in Named(f.sub, k) : TRUE, v.object[k])]]
      [] f.kind = "structs" ->
           IF v.list = <<>> THEN Nil
           ELSE [list |-> Map(LAMBDA e : Canon([f EXCEPT !.kind = "struct"], e), v.list)]
      [] f.kind = "raw" -> IF v.list \in {<<>>, <<"null">>} THEN Nil ELSE v
      [] f.kind \in {"strings", "ints"} -> IF v.list = <<>> THEN Nil ELSE v
      [] OTHER -> v

-----------------------------------------------------------------------------
(* Steps.                                                                  *)

\* Nothing has been decoded yet.
None == [ok |-> FALSE, first |-> TRUE]

Init ==
    /\ root \in Roots
    /\ val = ZeroOf(root)
    /\ last = None

\* A slice type would read an object as one of its elements, which its own
\* target is not.
Decode(tree, text, first) ==
    /\ root.kind = "structs" => At(text, 1) # "{"
    /\ \E r \in {ParseRoot(text, root, val)} :
         /\ val' = r.val
         /\ last' = [tree |-> tree, text |-> text, before |-> val, ok |-> r.ok,
                     first |-> first]
    /\ UNCHANGED root

DecodeFirst ==
    last = None /\ \E tree \in Firsts(root) : Decode(tree, Text(tree), TRUE)

\* Into a fresh or used target; whole, cut short, or otherwise damaged.
DecodeNext ==
    /\ last.first
    /\ \E tree \in Trees(root) :
         \E text \in {Text(tree)} \cup Damaged(tree, last = None) : Decode(tree, text, FALSE)

Next == DecodeFirst \/ DecodeNext

Spec == Init /\ [][Next]_vars

-----------------------------------------------------------------------------
(* Properties.                                                             *)

RECURSIVE EmptyStructsIn(_, _)

\* A field that is a slice of structs stands with [] in document t.
EmptyStructsIn(f, t) ==
    CASE Leaf(t) \/ f.kind = "raw" -> FALSE
      [] Array(t) -> f.kind = "structs" /\ \E x \in ToSet(t.items) :
                       EmptyStructsIn([f EXCEPT !.kind = "struct"], x)
      [] OTHER ->
           /\ f.kind = "struct"
           /\ \E m \in ToSet(t.members) : \E g \in Named(f.sub, m.key) :
                \/ g.kind = "structs" /\ m.value = [items |-> <<>>]
                \/ EmptyStructsIn(g, m.value)

\* Whole documents decode exactly when they are of the type, and leave the
\* target with what they say, and with what it held where they say nothing: it may
\* be reused (parser.go:331, 707-709, CHANGELOG.md:177-203).  Documents with an
\* empty slice of structs are left out: see NoThirdLaxness.
DecodesExactly ==
    last # None /\ last.text = Text(last.tree) /\ ~EmptyStructsIn(root, last.tree) =>
      /\ last.ok <=> JsonValue(last.text) /\ Fits(root, last.tree, {})
      /\ last.ok => Canon(root, val) = Canon(root, Applied(root, last.before, last.tree))

\* What is accepted is JSON, whatever token of it was lost, doubled or replaced,
\* in known and in unknown fields (parser.go:393-401, README.md:43), but for the
\* place behind an empty slice of structs.
AcceptsOnlyJson ==
    last.ok => \/ JsonValue(last.text)
               \/ \E k \in DOMAIN last.text : \E reg \in DOMAIN Registries :
                    NoSeparator(last.text, k, reg)

\* The members of t, a document for field f, that n of its tokens hold.
Offset(t, k) ==
    LET upto[j \in 1 .. k] == IF j = 1 THEN 1 ELSE upto[j - 1] + Len(Parts(t)[j - 1]) + 1
    IN  upto[k]

RECURSIVE CutTo(_, _, _)

CutTo(f, t, n) ==
    LET Inside(k) == n - Offset(t, k)
        Held(k)  == Inside(k) >= Len(Parts(t)[k])
        Add(ms, k) ==
          LET m == t.members[k]
              g == Named(f.sub, m.key)
          IN  CASE Held(k) -> Append(ms, m)
                [] Inside(k) > 2 /\ \E h \in g : h.kind \in {"struct", "structs"} ->
                     Append(ms, [m EXCEPT !.value = CutTo(CHOOSE h \in g : TRUE, @, Inside(k) - 2)])
                [] OTHER -> ms
    IN  IF Array(t) THEN [items |-> SubSeq(t.items, 1, Cardinality({k \in DOMAIN t.items : Held(k)}))]
        ELSE [members |-> FoldLeft(Add, <<>>, [k \in DOMAIN t.members |-> k])]

\* A document that ends too early is refused, and the fields it still held are
\* populated, down to the digits of a last number (parser.go:729-741).
CutKeepsFields ==
    last # None /\ IsStrictPrefix(last.text, Text(last.tree)) /\ last.text # <<>>
      /\ ~Leaf(last.tree) /\ last.before = ZeroOf(root) =>
      LET part == CutTo(root, last.tree, Len(last.text))
      IN  /\ ~last.ok
          /\ Fits(root, part, Cuts \cap {last.text[Len(last.text)]}) /\ ~EmptyStructsIn(root, part) =>
               Canon(root, val) = Canon(root, Applied(root, last.before, part))

RECURSIVE Lossy(_, _)

\* Somewhere a slice of structs is nil, empty, or holds nil, and is written.
Lossy(f, v) ==
    CASE v = Nil -> FALSE
      [] f.kind = "struct" ->
           \E g \in ToSet(Registries[f.sub]) :
             LET w == v.object[g.key]
             IN  Written(g, v.object) /\ (Lossy(g, w) \/ (g.kind = "structs" /\ Canon(g, w) = Nil))
      [] f.kind = "structs" ->
           Nil \in ToSet(v.list) \/ \E e \in ToSet(v.list) : Lossy([f EXCEPT !.kind = "struct"], e)
      [] OTHER -> FALSE

\* What Marshal writes is JSON, and ParseObject reads it back, omitempty or not
\* (fixes_test.go:660-680).  A nil slice of structs is written as null, which is
\* refused; so are nil elements.
RoundTrips ==
    LET text == Marshal(root, val)
        r    == ParseRoot(text, root, ZeroOf(root))
    IN  /\ JsonValue(text)
        /\ ~Lossy(root, val) => r.ok /\ Canon(root, r.val) = Canon(root, val)

\* Statement of README.md:43: control characters and invalid UTF-8 in strings
\* are the only laxnesses; whatever else is accepted is JSON.
NoThirdLaxness == last.ok => JsonValue(last.text)
=============================================================================
