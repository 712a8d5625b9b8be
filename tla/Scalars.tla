------------------------------ MODULE Scalars ------------------------------
(***************************************************************************)
(* Numbers and strings read and written (src/primitives.go:98-640, the     *)
(* marshalers of src/registry.go:541-689 and src/scalar.go:67-100).        *)
(*                                                                         *)
(* A number is a sequence of characters; words are scaled down, so that    *)
(* few digits reach their ends.  A string is a sequence of characters, of  *)
(* which only those that are written in a special way are told apart; the  *)
(* four digits behind \u are one character.                                *)
(***************************************************************************)
EXTENDS Integers, Sequences, SequencesExt, FiniteSetsExt

CONSTANTS
    WordBits,     \* width of an int: 64
    MantissaMax,  \* largest exact mantissa: 2^53
    Kernels       \* "avx2" and "scalar"

ASSUME ScalarsAssumption == WordBits \in Nat \ {0} /\ MantissaMax \in Nat

Digits == <<"0", "1", "2", "3", "4", "5", "6", "7", "8", "9">>

IsDigit(c) == c \in ToSet(Digits)

Digit(c) == CHOOSE d \in 0 .. 9 : Digits[d + 1] = c

Char(d) == Digits[d + 1]

At(b, i) == IF i \in DOMAIN b THEN b[i] ELSE "end"

\* The number written by the digits among characters i to j of b.
Decimal(b, i, j) ==
    LET upto[k \in 0 .. j] ==
          IF k < i THEN 0 ELSE IF IsDigit(b[k]) THEN upto[k - 1] * 10 + Digit(b[k]) ELSE upto[k - 1]
    IN  upto[j]

\* 2 ^ n.
Pow2(n) == LET pow[k \in 0 .. n] == IF k = 0 THEN 1 ELSE 2 * pow[k - 1] IN pow[n]

MaxUint == Pow2(WordBits) - 1
MaxInt  == Pow2(WordBits - 1) - 1
MinInt  == -Pow2(WordBits - 1)

-----------------------------------------------------------------------------
(* Integers.                                                               *)

Bad == [ok |-> FALSE, val |-> 0]

Overflow == -1

\* Mutant of Accumulate: the accumulator wraps.
AccumulateWrapping(u, d) == (u * 10 + d) % (MaxUint + 1)

Accumulate(u, d) == IF u = Overflow \/ u > (MaxUint - d) \div 10 THEN Overflow ELSE u * 10 + d

ParseInt(b) ==
    LET neg  == At(b, 1) = "-"
        body == IF neg THEN Tail(b) ELSE b
        upto[i \in 0 .. Len(body)] == IF i = 0 THEN 0 ELSE Accumulate(upto[i - 1], Digit(body[i]))
        u    == upto[Len(body)]
    IN  IF body = <<>> THEN Bad
        ELSE IF body[1] = "0" THEN [ok |-> Len(body) = 1, val |-> 0]
        ELSE IF ~(\A i \in DOMAIN body : IsDigit(body[i])) \/ u = Overflow THEN Bad
        ELSE IF neg THEN [ok |-> u <= MaxInt + 1, val |-> -u]
        ELSE [ok |-> u <= MaxInt, val |-> u]

\* intFitsWidth, and what a field of the width makes of the number.
FitsWidth(v, bits, unsigned) ==
    IF unsigned THEN v >= 0 /\ (bits < WordBits => v < Pow2(bits))
    ELSE bits < WordBits => v >= -Pow2(bits - 1) /\ v < Pow2(bits - 1)

Stored(v, bits) == v % Pow2(bits)

Loaded(m, bits, unsigned) == IF unsigned \/ m < Pow2(bits - 1) THEN m ELSE m - Pow2(bits)

DecimalsOf(n) ==
    LET upto[k \in 0 .. n] == IF k < 10 THEN <<Char(k)>> ELSE Append(upto[k \div 10], Char(k % 10))
    IN  upto[n]

\* appendInt: the magnitude is taken with a sign in the portable kernel, where
\* the most negative value has none and ends in one digit, 0.
PrintInt(v, kernel) ==
    IF v >= 0 THEN DecimalsOf(v)
    ELSE <<"-">> \o (IF kernel = "scalar" /\ v = MinInt THEN <<"0">> ELSE DecimalsOf(-v))

-----------------------------------------------------------------------------
(* Floats.                                                                 *)

\* Where the run of digits from i on ends.
AfterDigits(b, i) ==
    Min({j \in i .. Len(b) + 1 : ~IsDigit(At(b, j))})

SkipSign(b, i, signs) == IF At(b, i) \in signs THEN i + 1 ELSE i

\* validJSONNumber.
ValidNumber(b) ==
    LET int  == SkipSign(b, 1, {"-"})
        dot  == IF At(b, int) = "0" THEN int + 1 ELSE AfterDigits(b, int)
        frac == AfterDigits(b, dot + 1)
        exp  == IF At(b, dot) = "." THEN frac ELSE dot
        pow  == SkipSign(b, exp + 1, {"+", "-"})
        end  == IF At(b, exp) \in {"e", "E"} THEN AfterDigits(b, pow) ELSE exp
    IN  /\ IsDigit(At(b, int))
        /\ At(b, dot) = "." => IsDigit(At(b, dot + 1))
        /\ At(b, exp) \in {"e", "E"} => IsDigit(At(b, pow))
        /\ end = Len(b) + 1

\* Mutant of Dangling: a sign in the exponent is not looked for.
DanglingUnsigned(b, exp) == exp = Len(b)

\* The exponent, its letter at exp, lacks its digits.
Dangling(b, exp) == SkipSign(b, exp + 1, {"+", "-"}) = Len(b) + 1

\* incompleteNumber.
Incomplete(b) ==
    LET int  == SkipSign(b, 1, {"-"})
        dot  == AfterDigits(b, int)
        frac == AfterDigits(b, dot + 1)
        exp  == IF At(b, dot) = "." THEN frac ELSE dot
    IN  IF int = Len(b) + 1 THEN int = 2
        ELSE /\ dot > int /\ ~(dot - int > 1 /\ b[int] = "0")
             /\ \/ At(b, dot) = "." /\ dot = Len(b)
                \/ /\ At(b, dot) = "." => frac > dot + 1
                   /\ At(b, exp) \in {"e", "E"} /\ Dangling(b, exp)

\* The digits of the value in front of the exponent; its scale is left out.
Mantissa(b) ==
    LET int  == SkipSign(b, 1, {"-"})
        dot  == AfterDigits(b, int)
        last == (IF At(b, dot) = "." THEN AfterDigits(b, dot + 1) ELSE dot) - 1
    IN  Decimal(b, int, last)

\* parseFloatFast.  A mantissa that is not exact, and all that is neither a number
\* nor the beginning of one, is left to the slow path.
Fast(b) ==
    LET int == SkipSign(b, 1, {"-"})
        dot == IF At(b, int) = "0" THEN int + 1 ELSE AfterDigits(b, int)
        exp == IF At(b, dot) = "." THEN AfterDigits(b, dot + 1) ELSE dot
        Result(ok, cut) == [ok |-> ok, cut |-> cut, val |-> IF ok \/ cut THEN Mantissa(b) ELSE 0]
        stops == \/ At(b, dot) = "." /\ dot = Len(b)
                 \/ At(b, exp) \in {"e", "E"} /\ exp # dot + 1 /\ Dangling(b, exp)
    IN  IF int = Len(b) + 1 THEN [ok |-> FALSE, cut |-> int = 2, val |-> 0]
        ELSE IF ~IsDigit(At(b, int)) \/ Mantissa(b) > MantissaMax THEN Result(FALSE, FALSE)
        ELSE IF stops THEN Result(FALSE, TRUE)
        ELSE Result(ValidNumber(b), FALSE)

\* parseJSONFloat; strconv decides what the fast path leaves.
ParseFloat(b) ==
    IF Fast(b).ok THEN Fast(b)
    ELSE IF ValidNumber(b) THEN [ok |-> TRUE, cut |-> FALSE, val |-> Mantissa(b)]
    ELSE IF Fast(b).cut \/ Incomplete(b) THEN [Fast(b) EXCEPT !.cut = TRUE]
    ELSE [ok |-> FALSE, cut |-> FALSE, val |-> 0]

-----------------------------------------------------------------------------
(* Strings.  quote and back are the quote and the backslash, nl a line     *)
(* feed, bell another control character, a and u letters.  Behind \u stand *)
(* high or low, the two halves of a surrogate pair, a half, or plain, or   *)
(* ctrl, the code of bell.                                                 *)

Codes == {"high", "low", "plain", "ctrl"}

\* The escapes \", \\ and \n; the others are like \n.
Unescaped == [quote |-> "quote", back |-> "back", n |-> "nl"]

\* Mutant of Paired: what follows the first half is not looked at.
PairedAlways(src, i) == i + 3 <= Len(src)

\* A first half at i is followed by the escape of a second half.
Paired(src, i) == At(src, i + 1) = "back" /\ At(src, i + 2) = "u" /\ At(src, i + 3) = "low"

Decoded(code) ==
    CASE code \in {"high", "low"} -> "replacement"
      [] code = "ctrl" -> "bell"
      [] OTHER -> code

NoString == [ok |-> FALSE, val |-> <<>>, used |-> 0]

\* decodeEscapedString, from character i of src on with out decoded.
DecodeEscaped(src) ==
    LET from[i \in 1 .. Len(src) + 1] ==
          LET Then(c, n) ==
                LET rest == from[i + n]
                IN  IF rest.ok THEN [rest EXCEPT !.val = <<c>> \o @] ELSE NoString
          IN  IF i > Len(src) THEN NoString ELSE
              CASE src[i] = "quote" -> [ok |-> TRUE, val |-> <<>>, used |-> i]
                [] src[i] = "back"  ->
                     CASE At(src, i + 1) \in DOMAIN Unescaped -> Then(Unescaped[src[i + 1]], 2)
                       [] At(src, i + 1) = "u" /\ At(src, i + 2) \in Codes ->
                            IF src[i + 2] = "high" /\ Paired(src, i + 2) THEN Then("pair", 6)
                            ELSE Then(Decoded(src[i + 2]), 3)
                       [] OTHER -> NoString
                [] OTHER -> Then(src[i], 1)
    IN  from[1]

FirstOf(src, chars) == LET at == {i \in DOMAIN src : src[i] \in chars} IN IF at = {} THEN 0 ELSE Min(at)

\* readJSONString: what has no escape is taken as it is.
ReadString(src) ==
    LET i == FirstOf(src, {"quote", "back"})
    IN  IF i = 0 THEN NoString
        ELSE IF src[i] = "quote" THEN [ok |-> TRUE, val |-> SubSeq(src, 1, i - 1), used |-> i]
        ELSE DecodeEscaped(src)

Special == {"quote", "back", "nl", "bell"}

Escape(c) ==
    CASE c \in {"quote", "back"} -> <<"back", c>>
      [] c = "nl"   -> <<"back", "n">>
      [] c = "bell" -> <<"back", "u", "ctrl">>
      [] OTHER      -> <<c>>

\* MarshalString: copied up to the first special character, then one by one.
PrintString(s) ==
    LET i == FirstOf(s, Special)
        plain == IF i = 0 THEN s ELSE SubSeq(s, 1, i - 1)
    IN  plain \o FlattenSeq([k \in 1 .. Len(s) - Len(plain) |-> Escape(s[Len(plain) + k])])
          \o <<"quote">>
=============================================================================
