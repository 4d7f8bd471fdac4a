----------------------------------- MODULE Rtc -----------------------------------
(***************************************************************************)
(* drivers/rtc.c: print_time reads hour, minute and second one after the   *)
(* other from a clock that goes on.                                        *)
(*                                                                         *)
(* A read of one register gives what the clock shows at that moment, in    *)
(* two decimal digits of four bits.  midnight tells whether the day has    *)
(* changed since the call began, start what the clock showed then; nothing *)
(* in the kernel keeps either.                                             *)
(***************************************************************************)
EXTENDS Integers

CONSTANTS Hours, Minutes, Seconds, \* 24, 60, 60
          SecondsInCall            \* bound on what the clock goes on during a call

VARIABLES
  hh, mm, ss,        \* the clock
  pc,                \* registers print_time has read; Printed when it has printed
  reg,               \* h, m and s, as they were read
  shown,             \* what it prints: <<hour, minute, second>>
  start, midnight, seconds

clock == <<hh, mm, ss>>
clockVars == <<hh, mm, ss>>
vars == <<clockVars, pc, reg, shown, start, midnight, seconds>>

Printed == 4
Zeros == [f \in 1 .. 3 |-> 0]

ASSUME HoursAssumption == Hours \in Nat /\ 1 <= Hours /\ Hours <= 100
ASSUME MinutesAssumption == Minutes \in Nat /\ 1 <= Minutes /\ Minutes <= 100
ASSUME SecondsAssumption == Seconds \in Nat /\ 1 <= Seconds /\ Seconds <= 100
ASSUME SecondsInCallAssumption == SecondsInCall \in Nat

(* The digits as the chip stores them, and what print_time makes of them.  *)
Bcd(v) == (v \div 10) * 16 + (v % 10)
FromBcd(b) == (b % 16) + (b \div 16) * 10

(* a is not later than b. *)
NotLater(a, b) ==
  \/ a[1] < b[1]
  \/ a[1] = b[1] /\ a[2] < b[2]
  \/ a[1] = b[1] /\ a[2] = b[2] /\ a[3] <= b[3]

-----------------------------------------------------------------------------
Second ==
  /\ seconds < SecondsInCall \/ pc = 0
  /\ seconds' = IF pc = 0 THEN 0 ELSE seconds + 1
  /\ IF ss + 1 < Seconds THEN ss' = ss + 1 /\ UNCHANGED <<mm, hh, midnight>>
     ELSE /\ ss' = 0
          /\ IF mm + 1 < Minutes THEN mm' = mm + 1 /\ UNCHANGED <<hh, midnight>>
             ELSE /\ mm' = 0
                  /\ IF hh + 1 < Hours THEN hh' = hh + 1 /\ UNCHANGED midnight
                     ELSE hh' = 0 /\ midnight' = TRUE
  /\ UNCHANGED <<pc, reg, shown, start>>

(* Seconds first, as on the display of a stop-watch read from the right. *)
Order_SecondsFirst == <<3, 2, 1>>
(* The order the registers are read in: hour, minute, second.              *)
Order == <<1, 2, 3>>

(* One register, the next in this order. *)
GetRegister ==
  /\ pc < 3 /\ pc' = pc + 1
  /\ reg' = [reg EXCEPT ![Order[pc + 1]] = Bcd(clock[Order[pc + 1]])]
  /\ IF pc = 0 THEN start' = clock /\ midnight' = FALSE /\ seconds' = 0
     ELSE UNCHANGED <<start, midnight, seconds>>
  /\ UNCHANGED <<clockVars, shown>>

ShowTime ==
  /\ pc = 3 /\ pc' = Printed
  /\ shown' = [f \in 1 .. 3 |-> FromBcd(reg[f])]
  /\ UNCHANGED <<clockVars, reg, start, midnight, seconds>>

(* The variables of the call are gone. *)
Return ==
  /\ pc = Printed /\ pc' = 0
  /\ reg' = Zeros /\ shown' = Zeros /\ start' = Zeros
  /\ midnight' = FALSE /\ seconds' = 0
  /\ UNCHANGED clockVars

Init ==
  /\ hh \in 0 .. Hours - 1 /\ mm \in 0 .. Minutes - 1 /\ ss \in 0 .. Seconds - 1
  /\ pc = 0 /\ reg = Zeros /\ shown = Zeros /\ start = Zeros
  /\ midnight = FALSE /\ seconds = 0

Next == Second \/ GetRegister \/ ShowTime \/ Return
Spec == Init /\ [][Next]_vars
-----------------------------------------------------------------------------
ATime(t) ==
  /\ t \in [1 .. 3 -> Nat]
  /\ t[1] < Hours /\ t[2] < Minutes /\ t[3] < Seconds

(* What is printed is a time of day. *)
TypeOK ==
  /\ ATime(clock) /\ ATime(shown)
  /\ pc \in 0 .. Printed /\ reg \in [1 .. 3 -> Nat]
  /\ midnight \in BOOLEAN /\ seconds \in Nat

(* The time that is printed is never ahead of the clock, however long the  *)
(* reads take: the larger unit is always read first.                       *)
NeverAhead == pc = Printed /\ ~midnight => NotLater(shown, clock)

(* If the clock goes on by a second at most, the time printed is the one   *)
(* before or after, but for a call during which a minute ends.             *)
RightWithinMinute ==
  pc = Printed /\ ss # 0 /\ seconds <= 1 => shown \in {start, clock}

(* print_time prints a time of day that is not ahead of the clock, and is  *)
(* right but for the end of a minute.                                      *)
ShownRight == TypeOK /\ NeverAhead /\ RightWithinMinute

=============================================================================
