--------------------------------- MODULE Strings ---------------------------------
(***************************************************************************)
(* The functions of libc/string.c that compare and convert, on strings     *)
(* without their final zero byte: sequences of character codes.  Ints wrap,*)
(* as the compiler makes them without optimisation.                        *)
(* strtok is in module Keyboard.                                           *)
(***************************************************************************)
EXTENDS Integers, Sequences

CONSTANT HexDigits       \* 8, of four bits each
StringsAssumption == HexDigits \in Nat \ {0}

(* The powers of sixteen; the last is the number of ints there are.        *)
Sixteen[k \in 0 .. HexDigits] == IF k = 0 THEN 1 ELSE 16 * Sixteen[k - 1]
Ints == Sixteen[HexDigits]

Zero == 48  Minus == 45      \* '0', '-'
IntMax == Ints \div 2 - 1
IntMin == - (Ints \div 2)
Int32(x) == ((x - IntMin) % Ints) + IntMin
Unsigned(n) == n % Ints

(* Division and remainder of C, towards zero.                              *)
Quotient(a, b) ==
  LET q == (IF a < 0 THEN -a ELSE a) \div (IF b < 0 THEN -b ELSE b)
  IN  IF (a < 0) = (b < 0) THEN q ELSE -q
Remainder(a, b) == a - b * Quotient(a, b)

CharAt(s, i) == IF i <= Len(s) THEN s[i] ELSE 0

(* The difference of the first characters that differ, or 0 at the end.    *)
strcmp(s1, s2) ==
  LET from[i \in 1 .. Len(s1) + 1] ==
        IF CharAt(s1, i) # CharAt(s2, i) THEN CharAt(s1, i) - CharAt(s2, i)
        ELSE IF CharAt(s1, i) = 0 THEN 0 ELSE from[i + 1]
  IN  from[1]

strncmp(s1, s2, n) ==
  LET from[i \in 1 .. n + 1] ==
        IF i > n THEN 0
        ELSE IF CharAt(s1, i) # CharAt(s2, i) THEN CharAt(s1, i) - CharAt(s2, i)
        ELSE IF CharAt(s1, i) = 0 THEN 0 ELSE from[i + 1]
  IN  from[1]

(* Any character counts as a digit, '-' as -3.                             *)
atoi(str) ==
  LET res[i \in 0 .. Len(str)] ==
        IF i = 0 THEN 0 ELSE Int32(res[i - 1] * 10 + str[i] - Zero)
  IN  res[Len(str)]

(* The two ends are exchanged, and the next two, up to the middle. *)
Exchange(s, start) ==
  LET end == Len(s) + 1 - start
  IN  [s EXCEPT ![start] = s[end], ![end] = s[start]]
reverse(s) ==
  LET after[start \in 0 .. Len(s) \div 2] ==
        IF start = 0 THEN s ELSE Exchange(after[start - 1], start)
  IN  after[Len(s) \div 2]

(* The digits from the last to the first, until the quotient is not        *)
(* positive any more; of a negative number only the last.                  *)
Digits(m) ==
  LET from[n \in IntMin .. IntMax] ==
        <<Remainder(n, 10) + Zero>>
        \o (IF Quotient(n, 10) > 0 THEN from[Quotient(n, 10)] ELSE <<>>)
  IN  from[m]

(* The loop ends before the first digit. *)
itoa_WhileTen(n) ==
  LET from[k \in IntMin .. IntMax] ==
        <<Remainder(k, 10) + Zero>>
        \o (IF Quotient(k, 10) > 9 THEN from[Quotient(k, 10)] ELSE <<>>)
  IN  reverse(IF n < 0 THEN Append(from[Int32(-n)], Minus) ELSE from[n])
itoa(n) == reverse(IF n < 0 THEN Append(Digits(Int32(-n)), Minus) ELSE Digits(n))

HexChar(d) == IF d < 10 THEN Zero + d ELSE 55 + d      \* '0'..'9', 'A'..'F'
(* All digits, from the first, after "0x". *)
hex_to_string(n) ==
  [i \in 1 .. HexDigits |-> HexChar((n \div Sixteen[HexDigits - i]) % 16)]
=============================================================================
