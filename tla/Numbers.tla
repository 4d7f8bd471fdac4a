--------------------------------- MODULE Numbers ---------------------------------
(***************************************************************************)
(* cmd_math of kernel/shell.c over the functions of libc/string.c: the     *)
(* user types two arguments, a character at a time, and runs math with an  *)
(* operation between them.                                                 *)
(***************************************************************************)
EXTENDS Strings

CONSTANTS Chars,   \* what the arguments are made of
          MaxLen,  \* bound on their length
          None

NumbersAssumption == StringsAssumption /\ Chars \subseteq 1 .. 127

VARIABLES arg1, arg2,  \* the arguments
          shown        \* what is printed after "the result is: ", or panic
vars == <<arg1, arg2, shown>>

Panic == <<0>>   \* no string

Type(c) ==
  /\ shown = None
  /\ \/ Len(arg1) < MaxLen /\ arg1' = Append(arg1, c) /\ UNCHANGED arg2
     \/ Len(arg2) < MaxLen /\ arg2' = Append(arg2, c) /\ UNCHANGED arg1
  /\ UNCHANGED shown

(* The operands are exchanged.                                             *)
Math_Exchanged(op, a, b) ==
  CASE op = "+" -> Int32(a + b)
    [] op = "-" -> Int32(b - a)
    [] op = "*" -> Int32(a * b)
    [] op = "/" -> Quotient(a, b)
Math(op, a, b) ==
  CASE op = "+" -> Int32(a + b)
    [] op = "-" -> Int32(a - b)
    [] op = "*" -> Int32(a * b)
    [] op = "/" -> Quotient(a, b)
(* There is no quotient, or none an int can hold.                          *)
Faults(op, a, b) == op = "/" /\ (b = 0 \/ (a = IntMin /\ b = -1))

cmd_math(op) ==
  LET a == atoi(arg1)  b == atoi(arg2)
  IN  /\ shown = None /\ arg1 # <<>> /\ arg2 # <<>>
      /\ shown' = IF Faults(op, a, b) THEN Panic ELSE itoa(Math(op, a, b))
      /\ UNCHANGED <<arg1, arg2>>

Operations == {"+", "-", "*", "/"}
Init == arg1 = <<>> /\ arg2 = <<>> /\ shown = None
Next == \/ \E c \in Chars : Type(c)
        \/ \E op \in Operations : cmd_math(op)
Spec == Init /\ [][Next]_vars
-----------------------------------------------------------------------------
(* The number a decimal text stands for, with or without a minus sign.     *)
IsDigits(s) == s # <<>> /\ \A i \in 1 .. Len(s) : s[i] \in Zero .. Zero + 9
IsNumber(s) == IsDigits(s) \/ (s # <<>> /\ s[1] = Minus /\ IsDigits(Tail(s)))
Natural(s) ==
  LET upTo[i \in 0 .. Len(s)] == IF i = 0 THEN 0 ELSE 10 * upTo[i - 1] + s[i] - Zero
  IN  upTo[Len(s)]
Number(s) == IF s[1] = Minus THEN - Natural(Tail(s)) ELSE Natural(s)
(* One way to write a number: no zeros in front.                           *)
Plain(s) == /\ IsNumber(s) /\ (s[1] = Zero => Len(s) = 1)
            /\ s[1] = Minus => s[2] # Zero

Exact(op, a, b) ==
  CASE op = "+" -> a + b [] op = "-" -> a - b [] op = "*" -> a * b [] op = "/" -> Quotient(a, b)

(* Arguments without sign, and results, that an int can hold with a place  *)
(* to spare give the exact result in its plain form; only a division by    *)
(* zero has none.                                                          *)
Fits(n) == n \in IntMin + 1 .. IntMax
MathRight ==
  [][\A op \in Operations :
       cmd_math(op) /\ IsDigits(arg1) /\ IsDigits(arg2) /\ Fits(Natural(arg1)) /\ Fits(Natural(arg2)) =>
         IF op = "/" /\ Natural(arg2) = 0 THEN shown' = Panic
         ELSE LET r == Exact(op, Natural(arg1), Natural(arg2))
              IN  Fits(r) => Plain(shown') /\ Number(shown') = r]_vars

(* itoa and atoi take each other back, for each number that has no sign.   *)
RoundTrip ==
  LET n == atoi(arg1)
  IN  /\ n >= 0 => atoi(itoa(n)) = n
      /\ Plain(arg1) /\ IsDigits(arg1) /\ Fits(Natural(arg1)) => itoa(n) = arg1

(* The digits of hex_to_string are those of the number, all of them.       *)
HexRight ==
  LET n == Unsigned(atoi(arg1))
      digits == hex_to_string(n)
      value(c) == IF c < 58 THEN c - Zero ELSE c - 55
      upTo[i \in 0 .. Len(digits)] == IF i = 0 THEN 0 ELSE 16 * upTo[i - 1] + value(digits[i])
  IN  upTo[Len(digits)] = n

(* strcmp tells equal strings, strncmp beginnings, and both which comes    *)
(* first.                                                                  *)
IsBeginning(s, t) == Len(s) <= Len(t) /\ \A i \in 1 .. Len(s) : s[i] = t[i]
CompareRight ==
  /\ strcmp(arg1, arg2) = 0 <=> arg1 = arg2
  /\ strcmp(arg1, arg2) < 0 <=> strcmp(arg2, arg1) > 0
  /\ strncmp(arg1, arg2, Len(arg1)) = 0 <=> IsBeginning(arg1, arg2)

=============================================================================
