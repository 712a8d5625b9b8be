--------------------------- MODULE MCObjectCodec ---------------------------
(* One struct type for each kind of field: x of that kind, o of that kind   *)
(* with omitempty, n an integer; sub-structs have one of each of two kinds. *)
EXTENDS ObjectCodec

AField(key, kind, ptr, sub, omit) ==
    [key |-> key, kind |-> kind, ptr |-> ptr, sub |-> sub, omit |-> omit]

Inner == <<AField("n", "float", FALSE, "inner", FALSE), AField("t", "string", FALSE, "inner", TRUE)>>

Outer(kind, ptr) ==
    <<AField("x", kind, ptr, "inner", FALSE), AField("o", kind, ptr, "inner", TRUE),
      AField("n", "int", FALSE, "inner", FALSE)>>

AllRegistries ==
    [inner    |-> Inner,
     string   |-> Outer("string", FALSE),  stringptr |-> Outer("string", TRUE),
     int      |-> Outer("int", FALSE),     intptr    |-> Outer("int", TRUE),
     float    |-> Outer("float", FALSE),   floatptr  |-> Outer("float", TRUE),
     bool     |-> Outer("bool", FALSE),    boolptr   |-> Outer("bool", TRUE),
     struct   |-> Outer("struct", FALSE),  structptr |-> Outer("struct", TRUE),
     strings  |-> Outer("strings", FALSE), ints      |-> Outer("ints", FALSE),
     structs  |-> Outer("structs", FALSE), structptrs |-> Outer("structs", TRUE),
     raw      |-> Outer("raw", FALSE)]

AllRoots ==
    {AField("x", "struct", FALSE, r, FALSE) : r \in DOMAIN AllRegistries \ {"inner"}}
      \cup {AField("x", "structs", FALSE, "inner", FALSE)}

AllIntParts == [t \in {"1.5", "1."} |-> "1"]

L(t)    == [leaf |-> t]
A(ts)   == [items |-> ts]
M(k, v) == [key |-> k, value |-> v]
O(ms)   == [members |-> ms]

ScalarTrees == {L("null"), L("s"), L("0"), L("1"), L("999"), L("1.5"), L("1."), L("false"), L("true")}

\* Arrays and objects that some kind of field takes, or nearly takes.
CompositeTrees ==
    {A(<<>>), A(<<L("s")>>), A(<<L("s"), L("t")>>), A(<<L("1"), L("999")>>), A(<<L("s"), L("1")>>),
     A(<<L("1"), L("1.5")>>), A(<<L("null")>>), O(<<>>), O(<<M("n", L("1.5")), M("t", L("s"))>>),
     O(<<M("t", L("s")), M("n", L("1."))>>), A(<<O(<<>>)>>),
     A(<<O(<<M("t", L("s"))>>), O(<<M("n", L("1"))>>)>>), A(<<O(<<M("t", L("1"))>>)>>)}

Values == ScalarTrees \cup CompositeTrees

Alone == {O(<<M(k, v)>>) : k \in {"x", "u"}, v \in Values}

Paired ==
    {O(<<M("x", v), M("n", L("1"))>>) : v \in Values}
      \cup {O(<<M("n", L("1")), M("u", v)>>) : v \in Values}

Twice ==
    {O(<<M("x", v), M("o", w)>>) : v, w \in Values}
      \cup {O(<<M("x", v), M("x", w)>>) : v, w \in CompositeTrees}

\* What a used target held: all its fields have a value.
FirstTrees(r) ==
    IF r.kind = "structs" THEN {A(<<O(<<M("t", L("s"))>>)>>)}
    ELSE {t \in {O(<<M("x", v), M("n", L("1"))>>) :
                   v \in {L("s"), L("1"), L("true"), A(<<L("s"), L("t")>>), A(<<L("1"), L("999")>>),
                          O(<<M("t", L("s")), M("n", L("1"))>>),
                          A(<<O(<<M("t", L("s"))>>), O(<<M("n", L("1"))>>)>>)}} : Fits(r, t, {})}

AllTrees(r) ==
    IF r.kind = "structs" THEN CompositeTrees
    ELSE Alone \cup Paired \cup Twice \cup {L("null"), O(<<>>)}

Replacements == {"}", "s", "1.", "null"}

\* The end cut off, one token lost, doubled or replaced, or a comma too many;
\* for used targets only the first.
OneFault(t, fresh) ==
    LET s == Text(t)
        Cut     == {SubSeq(s, 1, k) : k \in DOMAIN s}
        Garbled == UNION {{RemoveAt(s, k), InsertAt(s, k, s[k]), InsertAt(s, k, ",")}
                            \cup {[s EXCEPT ![k] = c] : c \in Replacements} : k \in DOMAIN s}
    IN  CASE t \notin Paired \cup CompositeTrees -> {}
          [] fresh -> Cut \cup Garbled
          [] OTHER -> Cut
=============================================================================
