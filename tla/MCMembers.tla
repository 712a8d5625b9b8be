----------------------------- MODULE MCMembers -----------------------------
(* Words of two bytes and bytes of two bits: keys are short, long, as long  *)
(* as a byte counts, and longer; some differ in case only.                  *)
EXTENDS Members, TLC

Lengths == [empty |-> 0, zero |-> 1, a |-> 1, A |-> 1, ab |-> 2, abc |-> 3, Abc |-> 3, abcd |-> 4, abcde |-> 5]

AllKeys == DOMAIN Lengths

AllLower == [k \in AllKeys |-> CASE k = "A" -> "a" [] k = "Abc" -> "abc" [] OTHER -> k]

\* The key zero is one byte 0.
AllPacked == [k \in AllKeys |-> CASE k = "a" -> 1 [] k = "A" -> 2 [] k = "ab" -> 3 [] OTHER -> 0]

HashOf(U(_), S(_)) == [u64 |-> [w \in 0 .. 3 |-> U(w)], str |-> [k \in AllKeys |-> S(k)]]

\* All keys collide, at the end or the beginning of the table; none do; short and
\* long keys collide with each other.
AllHashes(fs) ==
    IF Len(fs) <= SmallLimit THEN {HashOf(LAMBDA w : 0, LAMBDA k : 0)}
    ELSE {HashOf(LAMBDA w : 7, LAMBDA k : 7), HashOf(LAMBDA w : 0, LAMBDA k : 0),
          HashOf(LAMBDA w : w, LAMBDA k : Lengths[k] + 2), HashOf(LAMBDA w : 6, LAMBDA k : 7),
          HashOf(LAMBDA w : w, LAMBDA k : 1)}

AllTypes ==
    [kind : {"int"}, bits : {3, 5}, unsigned : {FALSE}] \cup [kind : {"int"}, bits : {3}, unsigned : {TRUE}]
      \cup [kind : {"float", "string"}, bits : {5}, unsigned : {FALSE}]

\* Up to three fields; with more than one, all of the same type.
AllFields(fs) ==
    CASE fs = <<>>     -> [key : AllKeys, type : AllTypes]
      [] Len(fs) < 3   -> [key : AllKeys, type : {t \in {fs[1].type} : t.bits = 5 /\ t.kind = "int"}]
      [] OTHER         -> {}

Seqs(S, n) == UNION {[1 .. k -> S] : k \in 0 .. n}

NumberTexts ==
    Seqs({"0", "1", "3", "6", "7", "-", ".", "e", "+"}, 4)
      \cup {<<d>> \o s : d \in {"1", "3"}, s \in Seqs({".", "e", "-", "2", "5"}, 4)}

Pieces ==
    {<<c>> : c \in {"a", "n", "u", "nl", "bell", "quote", "back"}}
      \cup {<<"back", c>> : c \in {"quote", "back", "n", "a"}}
      \cup {<<"back", "u", c>> : c \in Codes}

StringTexts == {FlattenSeq(p) \o e : p \in Seqs(Pieces, 3), e \in {<<>>, <<"quote">>}}

\* All texts for one field alone, one text for the others.
AllTexts(k, fs) ==
    CASE Len(fs) # 1 \/ fs[1].key # "a" \/ k # "a" -> {<<"1">>}
      [] fs[1].type.kind = "string" -> StringTexts
      [] OTHER -> NumberTexts
=============================================================================
