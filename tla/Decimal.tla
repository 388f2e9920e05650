------------------------------- MODULE Decimal -------------------------------
(***************************************************************************)
(* parse_decimal and format_decimal: prices and sizes as signed integers   *)
(* in units of 10^-8, converted with unsigned arithmetic that wraps.       *)
(* Width and Places stand for 64 and 8.                                    *)
(*                                                                         *)
(* A text is its sign, the number before the point and the digits behind   *)
(* it; texts that are no number at all are left out.  Each behaviour       *)
(* starts with a text or with a value and converts it to and fro.          *)
(***************************************************************************)
EXTENDS Integers, Sequences

CONSTANTS
  Width, Places,
  Digit,       \* digits behind the point of the texts tried
  MaxWhole     \* bound: number before the point of the texts tried

ASSUME DecimalAssumption ==
  /\ Width \in Nat \ {0} /\ Places \in Nat /\ MaxWhole \in Nat
  /\ Digit \subseteq 0 .. 9

(* What the proofs need to know of ^.                                      *)
ASSUME DecimalPowers ==
  /\ \A n \in 0 .. Places - 1 : 10 ^ (n + 1) = 10 * 10 ^ n
  /\ \A n \in 0 .. Width - 1 : 2 ^ (n + 1) = 2 * 2 ^ n

VARIABLES
  state,    \* "text", "parsed", "rejected", "value" or "formatted"
  text, value,
  given     \* history: the text or the value the behaviour started with

decimalVars == << state, text, value, given >>

decimal_scale == 10 ^ Places
Unsigned == 0 .. 2 ^ Width - 1
Signed == -(2 ^ (Width - 1)) .. 2 ^ (Width - 1) - 1

Wrapped(n) == n % 2 ^ Width

Texts == [sign : {"", "+", "-"}, whole : 0 .. MaxWhole,
          fraction : UNION {[1 .. n -> Digit] : n \in 0 .. Places + 1}]

ZeroText == [sign |-> "", whole |-> 0, fraction |-> << >>]

-----------------------------------------------------------------------------
(* The digits behind the point, filled up to Places.                       *)
FractionOf(digits) ==
  LET number[n \in 0 .. Places] ==
        IF n = 0 THEN 0
        ELSE 10 * number[n - 1] + (IF n <= Len(digits) THEN digits[n] ELSE 0)
  IN number[Places]

limit(negative) == IF negative THEN 2 ^ (Width - 1) ELSE 2 ^ (Width - 1) - 1

(* Mutant of Parses: the whole part is only tested after scaling.          *)
ParsesWrapped(t) ==
  LET bound  == limit(t.sign = "-")
      scaled == Wrapped(t.whole * decimal_scale)
  IN /\ Len(t.fraction) <= Places
     /\ t.whole \in Unsigned
     /\ scaled <= bound
     /\ FractionOf(t.fraction) <= Wrapped(bound - scaled)

(* from_chars takes what fits into 64 bits; then each of the two tests     *)
(* keeps the next operation from wrapping.                                 *)
Parses(t) ==
  LET bound  == limit(t.sign = "-")
      scaled == Wrapped(t.whole * decimal_scale)
  IN /\ Len(t.fraction) <= Places
     /\ t.whole \in Unsigned
     /\ t.whole <= bound \div decimal_scale
     /\ FractionOf(t.fraction) <= Wrapped(bound - scaled)

parse_decimal(t) ==
  LET magnitude == Wrapped(t.whole * decimal_scale) + FractionOf(t.fraction)
  IN IF t.sign = "-" THEN -magnitude ELSE magnitude

(* Digits of the fraction, without the zeros at its end.                   *)
FractionDigits(fraction) ==
  LET digit(n) == (fraction \div 10 ^ (Places - n)) % 10
      last == CHOOSE n \in 0 .. Places :
                /\ n > 0 => digit(n) # 0
                /\ \A k \in n + 1 .. Places : digit(k) = 0
  IN [n \in 1 .. last |-> digit(n)]

(* Mutant of magnitude_of: the sign is taken off before the conversion.    *)
magnitude_signed(v) == IF v = -(2 ^ (Width - 1)) THEN 0
                       ELSE IF v < 0 THEN -v ELSE v

magnitude_of(v) == IF v < 0 THEN Wrapped(0 - Wrapped(v)) ELSE v

format_decimal(v) ==
  [sign     |-> IF v < 0 THEN "-" ELSE "",
   whole    |-> magnitude_of(v) \div decimal_scale,
   fraction |-> FractionDigits(magnitude_of(v) % decimal_scale)]

-----------------------------------------------------------------------------
InitDecimal ==
  \/ /\ state = "text" /\ text \in Texts /\ value = 0
     /\ given = [text |-> text]
  \/ /\ state = "value" /\ value \in Signed /\ text = ZeroText
     /\ given = [value |-> value]

Parse ==
  /\ state \in {"text", "formatted"}
  /\ IF Parses(text)
     THEN state' = "parsed" /\ value' = parse_decimal(text)
     ELSE state' = "rejected" /\ UNCHANGED value
  /\ UNCHANGED << text, given >>

Format ==
  /\ state = "value"
  /\ state' = "formatted"
  /\ text' = format_decimal(value)
  /\ UNCHANGED << value, given >>

Done == state \in {"parsed", "rejected"} /\ UNCHANGED decimalVars

NextDecimal == Parse \/ Format \/ Done

-----------------------------------------------------------------------------
(* The exact value of a text, in units of 10^-(Places + 1).                *)
Exact(t) ==
  LET tenths == 10 * FractionOf(t.fraction)
                  + (IF Len(t.fraction) > Places THEN t.fraction[Places + 1]
                                                 ELSE 0)
      magnitude == t.whole * decimal_scale * 10 + tenths
  IN IF t.sign = "-" THEN -magnitude ELSE magnitude

(* A text is accepted exactly if it has no more than Places places and its *)
(* value is in range, the least value included, and then as that value:    *)
(* no wrapped product or sum gets through.                                 *)
ParseIsExact ==
  /\ state = "parsed" => value \in Signed /\ value * 10 = Exact(text)
  /\ state = "rejected" =>
       \/ Len(text.fraction) > Places
       \/ Exact(text) < -(2 ^ (Width - 1)) * 10
       \/ Exact(text) > (2 ^ (Width - 1) - 1) * 10

(* What format_decimal writes parse_decimal reads back, for every value,   *)
(* the least one included.                                                 *)
RoundTrip ==
  "value" \in DOMAIN given => state # "rejected" /\ value = given.value
=============================================================================
