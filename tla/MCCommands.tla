------------------------------ MODULE MCCommands ------------------------------
(***************************************************************************)
(* The commands of the shell that have a module of their own, on small     *)
(* instances, in one run: time (Rtc), math (Numbers, with the functions of *)
(* libc/string.c), beep (Speaker), lspci and netinit (E1000).              *)
(*                                                                         *)
(* They share no variable.  command, which is chosen at first and kept,    *)
(* says which of them is given, again and again; the others rest in one of *)
(* their initial states.                                                   *)
(***************************************************************************)
EXTENDS Rtc, Speaker, E1000, TLC

-----------------------------------------------------------------------------
(* Numbers: ints of eight bits, so 127 and -128 are the last, and the      *)
(* digits 0 1 2 7 8.                                                       *)
SomeDigits == {48, 49, 50, 55, 56}

CONSTANTS HexDigits, Chars, MaxLen, None
VARIABLES arg1, arg2, math_shown

mathVars == <<arg1, arg2, math_shown>>

Num == INSTANCE Numbers WITH shown <- math_shown

-----------------------------------------------------------------------------
(* Speaker: whatever the firmware left in its port.                        *)
Bytes == 0 .. 255

-----------------------------------------------------------------------------
(* E1000: four machines, one as QEMU makes it, with the disk controller at *)
(* a function other than 0; one without a card, but with devices like it;  *)
(* one with the card in the last slot of the second bus; one with two.     *)
Device(vendor, id, base) == [id |-> <<vendor, id>>, command |-> {0, 1}, bar0 |-> base]
Card(base) == [id |-> <<32902, 4110>>, command |-> {}, bar0 |-> base]
Board == <<0, 0, 0>> :> Device(32902, 4663, 0) @@ <<0, 1, 0>> :> Device(32902, 28672, 0)
      @@ <<0, 1, 1>> :> Device(32902, 28688, 0)
Qemu == Board @@ <<0, 3, 0>> :> Card(1048576)

(* After a reset, and after the firmware has used the card to boot.        *)
AfterReset == [mac |-> <<82, 84, 0, 18, 52, 86>>, interrupts |-> 0, tdbal |-> 0, tdbah |-> 0,
               tdlen |-> 0, tdh |-> 0, tdt |-> 0, enabled |-> FALSE]
AfterBoot == [mac |-> <<0, 1, 2, 3, 4, 5>>, interrupts |-> 21, tdbal |-> 4096, tdbah |-> 0,
              tdlen |-> 64, tdh |-> 3, tdt |-> 3, enabled |-> FALSE]

States == {AfterReset, AfterBoot}
FourMachines ==
  {Qemu,
   Board @@ <<0, 3, 0>> :> Device(4110, 32902, 1048576)
         @@ <<1, 2, 0>> :> Device(32902, 4111, 2097152),
   Board @@ <<1, 31, 0>> :> Card(1048584),
   Board @@ <<0, 4, 0>> :> Card(1048576) @@ <<1, 0, 0>> :> Card(2097152)}

-----------------------------------------------------------------------------
ASSUME NumbersOk == Num!NumbersAssumption

VARIABLE command   \* the one that is given

shellVars == <<command, vars, mathVars, speakerVars, netVars>>

(* A command that rests needs one of its initial states only.              *)
OneStart ==
  /\ command # "time" => clock = <<0, 0, 0>>
  /\ command # "beep" => port61 = 0
  /\ command # "net" => machine = Qemu /\ \A p \in DOMAIN left : left[p] = AfterReset

ShellInit ==
  /\ command \in {"time", "math", "beep", "net"}
  /\ Init /\ Num!Init /\ SpeakerInit /\ NetInit
  /\ OneStart

Time == command = "time" /\ UNCHANGED <<command, mathVars, speakerVars, netVars>>
Math == command = "math" /\ UNCHANGED <<command, vars, speakerVars, netVars>>
Beep == command = "beep" /\ UNCHANGED <<command, vars, mathVars, netVars>>
Network == command = "net" /\ UNCHANGED <<command, vars, mathVars, speakerVars>>

ShellNext ==
  \/ (Time /\ Next)
  \/ (Math /\ Num!Next)
  \/ (Beep /\ SpeakerNext)
  \/ (Network /\ NetNext)

ShellSpec == ShellInit /\ [][ShellNext]_shellVars

-----------------------------------------------------------------------------
(* Numbers: a result that an int can hold is exact and plainly written.    *)
MathRight == Num!MathRight

(* Strings: the conversions take each other back, all digits of an address *)
(* are shown, and comparisons tell equal strings and beginnings.           *)
ConversionsRight == Num!RoundTrip /\ Num!HexRight /\ Num!CompareRight
=============================================================================
