---------------------------- MODULE HardwareProofs ----------------------------
(***************************************************************************)
(* Theorems about the devices and the tables of the processor.             *)
(*                                                                         *)
(* Interrupts, for any length of a tick, any burst of requests and any     *)
(* width of the counter: every interrupt is acknowledged, every tick       *)
(* accounted for, and no short handler loses one.  Descriptors: the tables *)
(* an interrupt goes by fit the processor wherever the linker puts the TSS *)
(* and the stubs.  Disk, for sectors of any number of words, registers of  *)
(* any width and any drive: whole sectors, whenever the power fails.       *)
(* Ps2, for any keys and packets: each gets to its own handler, complete   *)
(* and in order.                                                           *)
(* Pointer, for any size of screen and pointer: the text survives it, and  *)
(* it goes where the mouse goes.                                           *)
(***************************************************************************)
EXTENDS MCHardware, SequenceTheorems, TLAPS

-----------------------------------------------------------------------------
(* Sums that wrap.                                                         *)

(* The remainder of a division is the only one that fits.                  *)
LEMMA RemainderUnique ==
  ASSUME NEW w \in Nat \ {0}, NEW p \in Nat, NEW q \in Nat,
         NEW r \in Nat, NEW s \in Nat, r < w, s < w, p * w + r = q * w + s
  PROVE  r = s
<1>1. ASSUME NEW a \in Nat, NEW b \in Nat, NEW x \in Nat, NEW y \in Nat,
             x < w, y < w, a * w + x = b * w + y, a < b
      PROVE  FALSE
  <2>1. PICK d \in Nat : b = a + 1 + d
    <3>1. b - a - 1 \in Nat /\ b = a + 1 + (b - a - 1)
      BY <1>1
    <3> QED BY <3>1
  <2>2. b * w = a * w + w + d * w
    BY <2>1
  <2>3. a * w \in Nat /\ d * w \in Nat /\ b * w \in Nat
    OBVIOUS
  <2> QED BY <1>1, <2>2, <2>3
<1>2. ~(p < q) /\ ~(q < p)
  BY <1>1
<1>3. p = q
  BY <1>2
<1>4. p * w \in Nat
  OBVIOUS
<1> QED BY <1>3, <1>4

LEMMA Division ==
  ASSUME NEW w \in Nat \ {0}, NEW x \in Nat
  PROVE  /\ x \div w \in Nat /\ x % w \in Nat /\ x % w < w
         /\ x = (x \div w) * w + (x % w)
<1>1. w \in Nat /\ w > 0
  OBVIOUS
<1>2. x \div w \in Nat /\ x % w \in Nat /\ x % w < w
  BY <1>1
<1>3. x = (x \div w) * w + (x % w)
  BY <1>1
<1> QED BY <1>2, <1>3

(* A sum wraps the same whether or not a part of it has wrapped before.    *)
LEMMA WrapEarly ==
  ASSUME NEW w \in Nat \ {0}, NEW x \in Nat, NEW y \in Nat
  PROVE  ((x % w) + y) % w = (x + y) % w
<1> DEFINE q == x \div w
           r == x % w
           z == (r + y) \div w
           v == (x + y) \div w
           left == (r + y) % w
           right == (x + y) % w
<1>1. q \in Nat /\ r \in Nat /\ x = q * w + r
  BY Division
<1>2. z \in Nat /\ left \in Nat /\ left < w /\ r + y = z * w + left
  BY <1>1, Division
<1>3. v \in Nat /\ right \in Nat /\ right < w /\ x + y = v * w + right
  BY <1>1, Division
<1> HIDE DEF q, r, z, v, left, right
<1>4. (q + z) * w = q * w + z * w /\ q * w \in Nat /\ z * w \in Nat /\ v * w \in Nat
  BY <1>1, <1>2, <1>3
<1>5. v * w + right = (q + z) * w + left /\ q + z \in Nat
  BY <1>1, <1>2, <1>3, <1>4
<1>6. right = left
  BY <1>2, <1>3, <1>5, RemainderUnique
<1> QED BY <1>6 DEF left, right, r

-----------------------------------------------------------------------------
(* The controllers.                                                        *)

LEMMA LineTypes ==
  /\ Timer \in Lines /\ NoLine \notin Lines /\ Cascade \notin Lines
  /\ \A l \in Lines : l \in Nat /\ Input(l) \in Nat /\ Input(l) \in Lines \cup {Cascade}
  /\ \A l \in Lines : OnSlave(l) <=> l >= 8
  /\ \A l \in Lines : Vector(l) \in Installed
BY DEF Lines, Timer, Keyboard, Cascade, Network, Mouse, AtaDrive, NoLine, Input, OnSlave,
       Vector, Installed

(* With nothing in service every line that is latched is offered.          *)
LEMMA AllOffered == ASSUME inService = {}, NEW l \in irr PROVE Offered(l)
BY DEF Offered

(* A line of the master is all that is in service in its handler, a line   *)
(* of the slave has the cascade with it: what the handlers write ends both.*)
LEMMA MasterDone ==
  ASSUME NEW l \in {Timer, Keyboard}, inService = {l, Input(l)}
  PROVE  EoiMaster(inService) = {}
BY DEF EoiMaster, Highest, OnSlave, Input, Timer, Keyboard

LEMMA SlaveDone ==
  ASSUME NEW l \in Lines, OnSlave(l), inService = {l, Input(l)}
  PROVE  EoiMaster(EoiSlave(inService)) = {}
<1>1. l \in Nat /\ l >= 8 /\ inService = {l, 2}
  BY LineTypes DEF Input, Cascade
<1>2. EoiSlave(inService) = {2}
  BY <1>1 DEF EoiSlave, Highest, OnSlave
<1> QED BY <1>2 DEF EoiMaster, Highest, OnSlave

-----------------------------------------------------------------------------
(* The ticks on their way: latched, or taken and not counted yet.          *)
Latched == IF Timer \in irr THEN 1 ELSE 0
Taken == IF at = "handler" /\ line = Timer THEN 1 ELSE 0
Accounted == elapsed = (timer_ticks + lost + (Latched + Taken)) % Wrap

LEMMA OnTheirWay == PicTypeOK => (TicksAccounted <=> Accounted)
<1> SUFFICES ASSUME PicTypeOK PROVE TicksAccounted <=> Accounted
  OBVIOUS
<1>1. OnItsWay + (IF BothOnTheirWay THEN 1 ELSE 0) = Latched + Taken
  BY DEF OnItsWay, BothOnTheirWay, Latched, Taken
<1>2. /\ timer_ticks \in Nat /\ lost \in Nat /\ OnItsWay \in Nat
      /\ (IF BothOnTheirWay THEN 1 ELSE 0) \in Nat
  BY DEF PicTypeOK, OnItsWay, BothOnTheirWay
<1>3. timer_ticks + lost + OnItsWay + (IF BothOnTheirWay THEN 1 ELSE 0)
        = timer_ticks + lost + (Latched + Taken)
  BY <1>1, <1>2
<1> QED BY <1>3 DEF TicksAccounted, Accounted

(* A step that counts nothing, latches nothing and is no timer interrupt's *)
(* leaves the account as it is.                                            *)
LEMMA AccountStays ==
  ASSUME PicTypeOK, PicTypeOK', TicksAccounted, UNCHANGED <<elapsed, lost, timer_ticks>>,
         Latched' + Taken' = Latched + Taken
  PROVE  TicksAccounted'
<1>1. Accounted
  BY OnTheirWay
<1>2. Accounted'
  BY <1>1 DEF Accounted
<1>3. PicTypeOK' => (TicksAccounted' <=> Accounted')
  BY OnTheirWay, PTL
<1> QED BY <1>2, <1>3

-----------------------------------------------------------------------------
(* The inductive invariant. *)

LEMMA InvInit == PicInit => PicInv
<1> SUFFICES ASSUME PicInit PROVE PicInv
  OBVIOUS
<1>1. PicTypeOK
  BY InterruptsAssumption DEF PicInit, PicTypeOK, Lines
<1>2. InServiceKnown /\ OnlyTicks /\ LatchedSince
  BY DEF PicInit, InServiceKnown, OnlyTicks, LatchedSince
<1>3. Accounted
  <2>1. Latched = 0 /\ Taken = 0
    BY DEF PicInit, Latched, Taken
  <2>2. Wrap \in Nat /\ Wrap > 0
    BY InterruptsAssumption
  <2>3. 0 % Wrap = 0
    BY <2>2
  <2>4. timer_ticks + lost + (Latched + Taken) = 0 /\ elapsed = 0
    BY <2>1 DEF PicInit
  <2> QED BY <2>3, <2>4 DEF Accounted
<1> QED BY <1>1, <1>2, <1>3, OnTheirWay DEF PicInv

LEMMA StepType ==
  ASSUME PicTypeOK, Step
  PROVE  since' \in 0 .. Period /\ since' <= since + 1
BY InterruptsAssumption DEF PicTypeOK, Step

(* A step of the processor that leaves the latches and the counters alone  *)
(* and is neither a timer interrupt's beginning nor its end.               *)
LEMMA InvQuiet ==
  ASSUME PicInv, UNCHANGED <<irr, timer_ticks, tickVars, burst>>,
         at' \in {"main", "command", "eoi", "iret", "stopped"}, Step,
         line' \in {line, NoLine},
         at # "handler" \/ line # Timer,
         InServiceKnown', OnlyTicks', LatchedSince'
  PROVE  PicInv'
<1>1. since' \in 0 .. Period
  BY StepType DEF PicInv
<1>2. inService' \subseteq Lines \cup {Cascade}
  BY LineTypes DEF InServiceKnown, PicInv, PicTypeOK
<1>3. PicTypeOK'
  BY <1>1, <1>2, LineTypes DEF PicInv, PicTypeOK, tickVars
<1>4. Latched' + Taken' = Latched + Taken
  BY DEF Latched, Taken
<1>5. TicksAccounted'
  BY <1>3, <1>4, AccountStays DEF PicInv, tickVars
<1> QED BY <1>3, <1>5 DEF PicInv

LEMMA InvSti == ASSUME PicInv, MainSti PROVE PicInv'
<1>1. InServiceKnown'
  BY DEF MainSti, PicInv, InServiceKnown
<1>2. OnlyTicks'
  BY DEF MainSti, PicInv, OnlyTicks
<1>3. LatchedSince'
  BY StepType DEF MainSti, PicInv, LatchedSince, PicTypeOK
<1> QED BY <1>1, <1>2, <1>3, InvQuiet DEF MainSti

LEMMA InvIretd == ASSUME PicInv, Iretd PROVE PicInv'
<1>1. InServiceKnown'
  BY DEF Iretd, PicInv, InServiceKnown
<1>2. OnlyTicks'
  BY DEF Iretd, PicInv, OnlyTicks
<1>3. LatchedSince'
  BY StepType DEF Iretd, PicInv, LatchedSince, PicTypeOK
<1> QED BY <1>1, <1>2, <1>3, InvQuiet DEF Iretd

(* Into a command, through it and out of it, or stopped in it for good.    *)
LEMMA InvInHandler ==
  ASSUME PicInv, KeyboardBody \/ CommandReturns \/ CmdSleep \/ Panic
  PROVE  PicInv'
<1>1. /\ UNCHANGED <<irr, inService, line, timer_ticks, tickVars, burst>> /\ Step
      /\ line = Keyboard /\ at' \in {"command", "eoi", "stopped"}
      /\ \/ at = "handler" /\ at' \in {"eoi", "command"}
         \/ at = "command" /\ at' \in {"eoi", "stopped"}
  BY DEF KeyboardBody, CommandReturns, CmdSleep, Panic, PicInv, InServiceKnown
<1>2. InServiceKnown'
  BY <1>1 DEF PicInv, InServiceKnown
<1>3. OnlyTicks'
  BY <1>1 DEF PicInv, OnlyTicks
<1>4. LatchedSince'
  BY <1>1, StepType DEF PicInv, LatchedSince, PicTypeOK
<1>5. line # Timer
  BY <1>1 DEF Keyboard, Timer
<1> QED BY <1>1, <1>2, <1>3, <1>4, <1>5, InvQuiet

(* The end of a handler that is not the timer's: one write for a line of   *)
(* the master, two for one of the slave.                                   *)
LEMMA InvAcknowledge ==
  ASSUME PicInv, KeyboardEarly \/ KeyboardEnd \/ SlaveHandler
  PROVE  PicInv'
<1>1. /\ UNCHANGED <<irr, line, timer_ticks, tickVars, burst>> /\ Step
      /\ at' = "iret" /\ at \in {"handler", "eoi"}
      /\ line \in Lines /\ inService = {line, Input(line)}
  BY DEF KeyboardEarly, KeyboardEnd, SlaveHandler, PicInv, InServiceKnown
<1>2. inService' = {} /\ line # Timer
  <2>1. CASE KeyboardEarly \/ KeyboardEnd
    BY <1>1, <2>1, MasterDone DEF KeyboardEarly, KeyboardEnd, Keyboard, Timer
  <2>2. CASE SlaveHandler
    BY <1>1, <2>2, SlaveDone DEF SlaveHandler, OnSlave, Timer
  <2> QED BY <2>1, <2>2
<1>3. InServiceKnown'
  BY <1>1, <1>2 DEF InServiceKnown
<1>4. OnlyTicks'
  BY <1>1 DEF PicInv, OnlyTicks
<1>5. LatchedSince'
  <2>1. Burst = 0 => line \in {Timer, NoLine}
    BY DEF PicInv, OnlyTicks
  <2>2. Burst # 0
    BY <1>1, <1>2, <2>1, LineTypes
  <2>3. Timer \in irr => since <= 2
    BY <1>1 DEF PicInv, LatchedSince
  <2> QED BY <1>1, <2>2, <2>3, StepType DEF PicInv, LatchedSince, PicTypeOK
<1> QED BY <1>1, <1>2, <1>3, <1>4, <1>5, InvQuiet

(* The timer's handler counts the tick that was taken.                     *)
LEMMA InvTimer == ASSUME PicInv, TimerHandler PROVE PicInv'
<1>1. /\ UNCHANGED <<irr, line, tickVars, burst>> /\ Step
      /\ at = "handler" /\ at' = "iret" /\ line = Timer
      /\ inService = {Timer, Input(Timer)}
      /\ timer_ticks' = (timer_ticks + 1) % Wrap
  BY DEF TimerHandler, PicInv, InServiceKnown
<1>2. inService' = {}
  BY <1>1, MasterDone DEF TimerHandler
<1>3. InServiceKnown'
  BY <1>1, <1>2 DEF InServiceKnown
<1>4. OnlyTicks'
  BY <1>1 DEF PicInv, OnlyTicks
<1>5. LatchedSince'
  BY <1>1, StepType DEF PicInv, LatchedSince, PicTypeOK
<1>6. Wrap \in Nat \ {0} /\ timer_ticks \in Nat /\ lost \in Nat /\ Latched \in Nat
  BY InterruptsAssumption DEF PicInv, PicTypeOK, Latched
<1>7. PicTypeOK'
  <2>1. timer_ticks + 1 \in Nat
    BY <1>6
  <2>2. timer_ticks' \in 0 .. Wrap - 1
    BY <1>1, <1>6, <2>1, Division
  <2> QED BY <1>1, <1>2, <2>2, StepType DEF PicInv, PicTypeOK, tickVars
<1>8. Latched' = Latched /\ Taken = 1 /\ Taken' = 0
  BY <1>1 DEF Latched, Taken
<1>9. Accounted'
  <2>1. elapsed = (timer_ticks + lost + (Latched + 1)) % Wrap
    BY <1>8, OnTheirWay DEF PicInv, Accounted
  <2>2. timer_ticks + lost + (Latched + 1) = (timer_ticks + 1) + (lost + Latched)
    BY <1>6
  <2>3. elapsed = (timer_ticks' + (lost + Latched)) % Wrap
    <3>1. timer_ticks + 1 \in Nat /\ lost + Latched \in Nat
      BY <1>6
    <3>2. (((timer_ticks + 1) % Wrap) + (lost + Latched)) % Wrap
            = ((timer_ticks + 1) + (lost + Latched)) % Wrap
      BY <1>6, <3>1, WrapEarly
    <3> QED BY <1>1, <2>1, <2>2, <3>2
  <2>4. timer_ticks' \in Nat
    BY <1>7 DEF PicTypeOK
  <2>5. timer_ticks' + (lost + Latched) = timer_ticks' + lost + (Latched + 0)
    BY <1>6, <2>4
  <2> QED BY <1>1, <1>8, <2>3, <2>5 DEF Accounted, tickVars
<1>10. PicTypeOK' => (TicksAccounted' <=> Accounted')
  BY OnTheirWay, PTL
<1> QED BY <1>3, <1>4, <1>5, <1>7, <1>9, <1>10 DEF PicInv

(* A tick of the chip is latched, or lost on one that is latched already.  *)
LEMMA InvTick == ASSUME PicInv, Tick PROVE PicInv'
<1>1. /\ elapsed' = (elapsed + 1) % Wrap /\ since' = 0 /\ burst' = 0
      /\ UNCHANGED <<inService, at, line, timer_ticks>> /\ irr' = irr \cup {Timer}
      /\ \/ Timer \in irr /\ lost' = (lost + 1) % Wrap
         \/ Timer \notin irr /\ lost' = lost
  BY DEF Tick
<1>2. InServiceKnown' /\ OnlyTicks' /\ LatchedSince'
  BY <1>1 DEF PicInv, InServiceKnown, OnlyTicks, LatchedSince
<1>3. /\ Wrap \in Nat \ {0} /\ elapsed \in Nat /\ timer_ticks \in Nat /\ lost \in Nat
      /\ Latched \in Nat /\ Taken \in Nat
  BY InterruptsAssumption DEF PicInv, PicTypeOK, Latched, Taken
<1>4. PicTypeOK'
  <2>1. elapsed + 1 \in Nat /\ lost + 1 \in Nat
    BY <1>3
  <2>2. elapsed' \in 0 .. Wrap - 1
    BY <1>1, <1>3, <2>1, Division
  <2>3. (lost + 1) % Wrap \in 0 .. Wrap - 1
    BY <1>3, <2>1, Division
  <2>4. lost' \in 0 .. Wrap - 1
    BY <1>1, <2>3 DEF PicInv, PicTypeOK
  <2>5. Period \in Nat /\ Burst \in Nat
    BY InterruptsAssumption
  <2> QED BY <1>1, <2>2, <2>4, <2>5, LineTypes DEF PicInv, PicTypeOK
<1>5. Accounted'
  <2> DEFINE rest == Latched + Taken
  <2>1. elapsed = (timer_ticks + lost + rest) % Wrap
    BY OnTheirWay DEF PicInv, Accounted
  <2>2. rest \in Nat /\ timer_ticks + lost + rest \in Nat
    BY <1>3
  <2>3. Taken' = Taken
    BY <1>1 DEF Taken
  <2> HIDE DEF rest
  <2>4. elapsed' = ((timer_ticks + lost + rest) + 1) % Wrap
    BY <1>1, <1>3, <2>1, <2>2, WrapEarly
  <2>5. CASE Timer \in irr
    <3>1. Latched' = Latched /\ lost' = (lost + 1) % Wrap
      BY <1>1, <2>5 DEF Latched
    <3>2. lost + 1 \in Nat /\ timer_ticks + rest \in Nat /\ lost' \in Nat
      BY <1>3, <1>4, <2>2 DEF PicTypeOK
    <3>3. (((lost + 1) % Wrap) + (timer_ticks + rest)) % Wrap
            = ((lost + 1) + (timer_ticks + rest)) % Wrap
      BY <1>3, <3>2, WrapEarly
    <3>4. /\ (timer_ticks + lost + rest) + 1 = (lost + 1) + (timer_ticks + rest)
          /\ timer_ticks + lost' + rest = lost' + (timer_ticks + rest)
      BY <1>3, <2>2, <3>2
    <3>5. elapsed' = (timer_ticks + lost' + rest) % Wrap
      BY <2>4, <3>1, <3>3, <3>4
    <3>6. Latched' + Taken' = rest
      BY <2>3, <3>1 DEF rest
    <3> QED BY <1>1, <3>5, <3>6 DEF Accounted
  <2>6. CASE Timer \notin irr
    <3>1. Latched = 0 /\ Latched' = 1 /\ lost' = lost
      BY <1>1, <2>6 DEF Latched
    <3>2. Latched' + Taken' = rest + 1
      BY <1>3, <2>3, <3>1 DEF rest
    <3>3. (timer_ticks + lost + rest) + 1 = timer_ticks + lost + (rest + 1)
      BY <1>3, <2>2
    <3> QED BY <1>1, <2>4, <3>1, <3>2, <3>3 DEF Accounted
  <2> QED BY <2>5, <2>6
<1>6. PicTypeOK' => (TicksAccounted' <=> Accounted')
  BY OnTheirWay, PTL
<1> QED BY <1>2, <1>4, <1>5, <1>6 DEF PicInv

(* Another device asks. *)
LEMMA InvRaise ==
  ASSUME PicInv, NEW l \in Lines \ {Timer}, Raise(l)
  PROVE  PicInv'
<1>1. PicTypeOK'
  BY InterruptsAssumption DEF Raise, PicInv, PicTypeOK, tickVars
<1>2. InServiceKnown'
  BY DEF Raise, PicInv, InServiceKnown
<1>3. Burst # 0
  BY InterruptsAssumption DEF Raise, PicInv, PicTypeOK
<1>4. OnlyTicks' /\ LatchedSince'
  BY <1>3 DEF Raise, PicInv, OnlyTicks, LatchedSince
<1>5. Latched' + Taken' = Latched + Taken
  BY DEF Raise, Latched, Taken
<1>6. TicksAccounted'
  BY <1>1, <1>5, AccountStays DEF Raise, PicInv, tickVars
<1> QED BY <1>1, <1>2, <1>4, <1>6 DEF PicInv

LEMMA InvMainLoops == ASSUME PicInv, MainLoops PROVE PicInv'
<1>1. Timer \notin irr
  BY AllOffered DEF MainLoops, PicInv, InServiceKnown
<1>2. InServiceKnown' /\ OnlyTicks' /\ LatchedSince'
  BY <1>1 DEF MainLoops, cpuVars, PicInv, InServiceKnown, OnlyTicks, LatchedSince
<1>3. PicTypeOK'
  BY StepType DEF MainLoops, cpuVars, tickVars, PicInv, PicTypeOK
<1>4. Latched' + Taken' = Latched + Taken
  BY DEF MainLoops, cpuVars, Latched, Taken
<1>5. TicksAccounted'
  BY <1>3, <1>4, AccountStays DEF MainLoops, cpuVars, tickVars, PicInv
<1> QED BY <1>2, <1>3, <1>5 DEF PicInv

(* A line is taken: a tick that is latched always goes first.              *)
LEMMA InvAccept ==
  ASSUME PicInv, NEW l \in Lines, Accept(l)
  PROVE  PicInv'
<1>1. /\ at = "main" /\ inService = {} /\ l \in irr /\ irr' = irr \ {l}
      /\ inService' = {l, Input(l)} /\ line' = l /\ at' = "handler" /\ Step
      /\ UNCHANGED <<timer_ticks, tickVars, burst>>
  BY LineTypes DEF Accept, First, Offered, PicInv, InServiceKnown
<1>2. Timer \in irr => l = Timer
  <2>1. Timer \in irr => l <= Timer
    BY <1>1, AllOffered DEF Accept, First
  <2> QED BY <2>1, LineTypes DEF Timer
<1>3. InServiceKnown'
  BY <1>1 DEF InServiceKnown
<1>4. OnlyTicks'
  BY <1>1 DEF PicInv, OnlyTicks
<1>5. Timer \notin irr'
  BY <1>1, <1>2
<1>6. LatchedSince'
  BY <1>5 DEF LatchedSince
<1>7. PicTypeOK'
  BY <1>1, StepType, LineTypes DEF PicInv, PicTypeOK, tickVars
<1>8. Latched' + Taken' = Latched + Taken
  BY <1>1, <1>2 DEF Latched, Taken
<1>9. TicksAccounted'
  BY <1>1, <1>7, <1>8, AccountStays DEF PicInv, tickVars
<1> QED BY <1>3, <1>4, <1>6, <1>7, <1>9 DEF PicInv

LEMMA InvStep == ASSUME PicInv, [PicNext]_picVars PROVE PicInv'
<1>1. CASE UNCHANGED picVars
  <2>1. PicTypeOK' /\ InServiceKnown' /\ OnlyTicks' /\ LatchedSince'
    BY <1>1 DEF picVars, cpuVars, tickVars, PicInv, PicTypeOK, InServiceKnown, OnlyTicks, LatchedSince
  <2>2. Latched' + Taken' = Latched + Taken
    BY <1>1 DEF picVars, cpuVars, Latched, Taken
  <2>3. TicksAccounted'
    BY <1>1, <2>1, <2>2, AccountStays DEF picVars, cpuVars, tickVars, PicInv
  <2> QED BY <2>1, <2>3 DEF PicInv
<1>2. CASE Processor
  BY <1>2, InvSti, InvAccept, InvTimer, InvAcknowledge, InvInHandler, InvIretd DEF Processor
<1>3. CASE \E l \in Lines \ {Timer} : Raise(l)
  BY <1>3, InvRaise
<1>4. CASE CmdSleep \/ Panic
  BY <1>4, InvInHandler
<1> QED BY <1>1, <1>2, <1>3, <1>4, InvTick, InvMainLoops DEF PicNext

(* Every handler tells both controllers, once, so that main runs with no   *)
(* line held back, and every tick of the chip is counted, on its way or    *)
(* lost: pic_remap, the handlers of interrupt.asm and timer.c.             *)
THEOREM AcknowledgedAndCountedAlways ==
  PicSpec => []AcknowledgedAndCounted
<1>1. PicInit => PicInv
  BY InvInit
<1>2. PicInv /\ [PicNext]_picVars => PicInv'
  BY InvStep
<1>3. PicInv => AcknowledgedAndCounted
  BY DEF PicInv, InServiceKnown, AllAcknowledged, AcknowledgedAndCounted
<1> QED BY <1>1, <1>2, <1>3, PTL DEF PicSpec

(* Only what takes longer than a tick with interrupts off loses a tick: a  *)
(* command, the boot, or a processor that has stopped.                     *)
THEOREM LostOnlyInCommandsAlways ==
  PicSpec => LostOnlyInCommands
<1>1. PicInit => PicInv
  BY InvInit
<1>2. PicInv /\ [PicNext]_picVars => PicInv'
  BY InvStep
<1>3. PicInv /\ [PicNext]_picVars => [lost' # lost => Long \/ Stopped]_picVars
  <2> SUFFICES ASSUME PicInv, [PicNext]_picVars, lost' # lost, ~Long, ~Stopped PROVE FALSE
    OBVIOUS
  <2>1. Tick
    BY DEF PicNext, Raise, MainLoops, Processor, MainSti, Accept, TimerHandler, KeyboardEarly,
           KeyboardBody, CommandReturns, KeyboardEnd, SlaveHandler, Iretd, CmdSleep, Panic,
           picVars, cpuVars, tickVars
  <2>2. Timer \in irr /\ since = Period
    BY <2>1 DEF Tick
  <2>3. at \in {"main", "handler", "eoi", "iret"}
    BY DEF PicInv, PicTypeOK, Long, Stopped
  <2>4. /\ since <= 4
        /\ Burst = 0 => since <= 2
    <3>1. Burst = 0 => at # "eoi"
      BY LineTypes DEF PicInv, OnlyTicks, InServiceKnown, Keyboard, Timer, NoLine
    <3> QED BY InterruptsAssumption, <2>2, <2>3, <3>1 DEF PicInv, LatchedSince, PicTypeOK
  <2> QED BY InterruptsAssumption, <2>2, <2>4
<1> QED BY <1>1, <1>2, <1>3, PTL DEF PicSpec, LostOnlyInCommands

-----------------------------------------------------------------------------
(* The descriptor tables.                                                  *)

(* What a descriptor or a gate says is what was put into it. *)
LEMMA FlatSegments ==
  ASSUME NEW a
  PROVE  Flat(a).access = a /\ AllMemory(Flat(a))
<1>1. 1048575 % 65536 = 65535 /\ (1048575 \div 65536) % 16 = 15
  OBVIOUS
<1>2. Flat(a) = [limit_low |-> 65535, base_low |-> 0, base_middle |-> 0, access |-> a,
                 granularity |-> 207, base_high |-> 0]
  BY <1>1 DEF Flat, SetGate
<1>3. /\ Base(Flat(a)) = 0 /\ Limit(Flat(a)) = 1048575
      /\ Flat(a).granularity \div 128 = 1 /\ Flat(a).access = a
  BY <1>2 DEF Base, Limit
<1>. QED  BY <1>3 DEF AllMemory

LEMMA TssSegment ==
  ASSUME NEW b \in Nat, b \div 65536 < 65536, b % 1048576 < 1048472
  PROVE  Base(TssGate(b)) = b /\ Limit(TssGate(b)) >= 104 /\ TssGate(b).access = 233
<1>. DEFINE l == b % 65536
            w == b \div 65536
            m == w % 256
            h == w \div 256
<1>1. l \in Nat /\ l < 65536 /\ w \in Nat /\ w < 65536 /\ b = l + 65536 * w
  OBVIOUS
<1>2. m \in Nat /\ m < 256 /\ h \in Nat /\ h < 256 /\ w = m + 256 * h
  BY <1>1
<1>3. (b \div 16777216) % 256 = h
  <2>. HIDE DEF l, w, m, h
  <2>1. PICK k \in Nat : k = l + 65536 * m /\ k < 16777216
    BY <1>1, <1>2
  <2>2. b = k + 16777216 * h
    BY <1>1, <1>2, <2>1
  <2>3. b \div 16777216 = h
    BY <1>2, <2>1, <2>2
  <2>4. h % 256 = h
    BY <1>2
  <2>. QED  BY <2>3, <2>4
<1>4. Base(TssGate(b)) = b
  <2>1. Base(TssGate(b)) = l + 65536 * m + 16777216 * h
    BY <1>3 DEF TssGate, SetGate, Base
  <2>. HIDE DEF l, w, m, h
  <2>. QED  BY <2>1, <1>1, <1>2
<1>5. (b + 104) % 1048576 = (b % 1048576) + 104
  OBVIOUS
<1>6. ((b + 104) % 65536) + 65536 * (((b + 104) \div 65536) % 16) = (b + 104) % 1048576
  OBVIOUS
<1>7. ((((b + 104) \div 65536) % 16) + 16 * (0 \div 16)) % 16 = ((b + 104) \div 65536) % 16
  OBVIOUS
<1>8. Limit(TssGate(b)) = (b % 1048576) + 104
  BY <1>5, <1>6, <1>7 DEF TssGate, SetGate, Limit
<1>. QED  BY <1>4, <1>8 DEF TssGate, SetGate

LEMMA GateHandler ==
  ASSUME NEW h \in Nat, h \div 65536 < 65536
  PROVE  Handler(IdtGate(h)) = h /\ IdtGate(h).flags = 142 /\ IdtGate(h).sel = KernelCode
<1>1. (h \div 65536) % 65536 = h \div 65536
  OBVIOUS
<1>2. (h % 65536) + 65536 * (h \div 65536) = h
  OBVIOUS
<1>. QED  BY <1>1, <1>2 DEF Handler, IdtGate

-----------------------------------------------------------------------------
(* The invariant.  The places of pc before a table is filled or loaded:    *)
BeforeTss == {"gdt", "tss"}
BeforeGdt == BeforeTss \cup {"lgdt"}
BeforeTr == BeforeGdt \cup {"data", "jump", "ltr"}
BeforeGates == BeforeTr \cup {"idt"}
BeforeIdt == BeforeGates \cup {"lidt"}
Places == BeforeIdt \cup {"stack", "sti", "user", "iretd", "run"}

(* The rows that are filled.  ltr turns the type of the TSS from 9 to 11.  *)
GdtFilled ==
  /\ gdt \in [0 .. 5 -> Descriptor]
  /\ pc = "gdt" => next \in 0 .. 4
  /\ \A k \in 0 .. 4 : pc # "gdt" \/ k < next => gdt[k] = Segments[k + 1]
  /\ pc \notin BeforeTss =>
       gdt[5] = IF tr = 0 THEN TssGate(tssAt) ELSE [TssGate(tssAt) EXCEPT !.access = 235]
  /\ gdtr \in BOOLEAN /\ (gdtr <=> pc \notin BeforeGdt)
  /\ tr = IF pc \in BeforeTr THEN 0 ELSE TssSelector

IdtFilled ==
  /\ idt \in [Gates -> Gate]
  /\ next \in 0 .. 8 /\ (pc \notin {"gdt", "idt"} => next = 0)
  /\ \A k \in 1 .. 9 :
       pc \notin BeforeGates \/ (pc = "idt" /\ k <= next) =>
         idt[GateOrder[k]] = IdtGate(stub[GateOrder[k]])
  /\ idtr \in BOOLEAN /\ (idtr <=> pc \notin BeforeIdt)

TssFilled ==
  /\ tss \in [esp0 : Nat, ss0 : Nat]
  /\ pc \notin BeforeTss => tss.ss0 = KernelData

(* cpu as main leaves it, where it is.                                     *)
InMain(c) ==
  /\ c.cs = IF pc = "run" THEN UserCode ELSE KernelCode
  /\ c.ss = IF pc = "run" THEN UserData ELSE KernelData
  /\ c.ds = IF pc \in {"iretd", "run"} THEN UserData ELSE KernelData
  /\ (c.intr <=> pc \in {"user", "run"})
InHandler(c) ==
  /\ c.cs = KernelCode /\ c.ss = KernelData /\ c.ds \in {KernelData, UserData}
  /\ ~c.intr

Where ==
  /\ pc \in Places
  /\ cpu \in Cpus /\ was \in Cpus
  /\ serving \in Hardware \cup {0, 14}
  /\ IF serving = 0 THEN InMain(cpu)
     ELSE pc \in {"user", "run"} /\ InHandler(cpu) /\ (serving # 14 => InMain(was))

Linked == tssAt \in TssPlaces /\ stub \in StubPlaces

IInv == GdtFilled /\ IdtFilled /\ TssFilled /\ Where /\ Linked

LEMMA Rows ==
  /\ Segments[2] = Flat(154) /\ Segments[3] = Flat(146)
  /\ Segments[4] = Flat(250) /\ Segments[5] = Flat(242)
BY DEF Segments

(* The processor accepts the selectors of the kernel at any time, and      *)
(* those for ring 3 and the TSS once lgdt has run.                         *)
LEMMA Selectors ==
  ASSUME IInv
  PROVE  /\ Names(KernelCode, "code", 0) /\ AllMemory(Table[1])
         /\ Names(KernelData, "data", 0) /\ AllMemory(Table[2])
         /\ pc \notin BeforeGdt => /\ Names(UserCode, "code", 3) /\ AllMemory(Table[3])
                                   /\ Names(UserData, "data", 3) /\ AllMemory(Table[4])
         /\ pc = "ltr" => Names(TssSelector, "tss", 3)
<1>rows. pc # "gdt" => /\ gdt[1] = Flat(154) /\ gdt[2] = Flat(146)
                    /\ gdt[3] = Flat(250) /\ gdt[4] = Flat(242)
  <2>. SUFFICES ASSUME pc # "gdt"
                PROVE  /\ gdt[1] = Segments[2] /\ gdt[2] = Segments[3]
                       /\ gdt[3] = Segments[4] /\ gdt[4] = Segments[5]
    BY Rows
  <2>1. \A k \in 0 .. 4 : gdt[k] = Segments[k + 1]
    BY DEF IInv, GdtFilled
  <2>2. gdt[1] = Segments[1 + 1] /\ gdt[2] = Segments[2 + 1]
    BY <2>1
  <2>3. gdt[3] = Segments[3 + 1] /\ gdt[4] = Segments[4 + 1]
    BY <2>1
  <2>. QED  BY <2>2, <2>3
<1>1. Table[1] = Flat(154) /\ Table[2] = Flat(146)
  <2>1. CASE gdtr
    BY <2>1, <1>rows DEF IInv, GdtFilled, Table, BeforeGdt, BeforeTss
  <2>2. CASE ~gdtr
    BY <2>2 DEF Table, BootGdt
  <2>. QED  BY <2>1, <2>2
<1>2. pc \notin BeforeGdt => gdtr /\ Table[3] = Flat(250) /\ Table[4] = Flat(242)
  <2>. SUFFICES ASSUME pc \notin BeforeGdt
                PROVE  gdtr /\ Table[3] = Flat(250) /\ Table[4] = Flat(242)
    OBVIOUS
  <2>1. pc # "gdt"
    BY DEF BeforeGdt, BeforeTss
  <2>2. gdtr
    BY DEF IInv, GdtFilled, BeforeGdt, BeforeTss
  <2>3. gdt[3] = Flat(250) /\ gdt[4] = Flat(242)
    BY <1>rows, <2>1
  <2>. QED  BY <2>2, <2>3 DEF Table
<1>3. pc = "ltr" => Table[5] = TssGate(tssAt) /\ TssGate(tssAt).access = 233
  <2>. SUFFICES ASSUME pc = "ltr" PROVE Table[5] = TssGate(tssAt)
    BY DEF TssGate, SetGate
  <2>1. gdtr /\ tr = 0 /\ pc \notin BeforeTss
    BY DEF IInv, GdtFilled, BeforeTr, BeforeGdt, BeforeTss
  <2>. QED  BY <2>1 DEF IInv, GdtFilled, Table
<1>4. \A a : Flat(a).access = a /\ AllMemory(Flat(a))
  BY FlatSegments
<1>5. Names(KernelCode, "code", 0) /\ Names(KernelData, "data", 0)
  <2>1. Table[1].access = 154 /\ Table[2].access = 146
    BY <1>1, <1>4
  <2>. QED  BY <2>1 DEF Names, KernelCode, KernelData, Present, Kind, Dpl
<1>6. pc \notin BeforeGdt => Names(UserCode, "code", 3) /\ Names(UserData, "data", 3)
  BY <1>2, <1>4 DEF Names, UserCode, UserData, Present, Kind, Dpl
<1>7. pc = "ltr" => Names(TssSelector, "tss", 3)
  BY <1>3 DEF Names, TssSelector, Present, Kind, Dpl
<1>. QED  BY <1>1, <1>2, <1>4, <1>5, <1>6, <1>7

LEMMA StackFound ==
  ASSUME IInv
  PROVE  TssFound
<1>. SUFFICES ASSUME tr # 0 PROVE TssFound
  BY DEF TssFound
<1>1. gdt[5] = [TssGate(tssAt) EXCEPT !.access = 235] /\ gdtr /\ tr = TssSelector
  BY DEF IInv, GdtFilled, BeforeTr, BeforeGdt, BeforeTss
<1>2. tssAt \in Nat /\ tssAt \div 65536 < 65536 /\ tssAt % 1048576 < 1048472
  BY TssAssumption DEF IInv, Linked, Address
<1>3. Base(gdt[5]) = tssAt /\ Limit(gdt[5]) >= 104
  BY <1>1, <1>2, TssSegment DEF Base, Limit, TssGate, SetGate
<1>4. Limit(gdt[5]) \in Int
  BY <1>1, <1>2 DEF Limit, TssGate, SetGate
<1>5. Table[tr \div 8] = gdt[5]
  BY <1>1 DEF Table, TssSelector
<1>. QED  BY <1>1, <1>3, <1>4, <1>5 DEF TssFound, TaskState

LEMMA GateFound ==
  ASSUME IInv, pc \in {"user", "run"}, NEW n \in Hardware \cup {14}
  PROVE  /\ idtr /\ idt[n].flags = 142 /\ idt[n].sel = KernelCode
         /\ Handler(idt[n]) = stub[n] /\ stub[n] \in Nat
<1>1. PICK k \in 1 .. 9 : n = GateOrder[k]
  BY DEF Hardware, GateOrder
<1>2. n \in Gates
  BY <1>1 DEF Gates, GateOrder
<1>3. idt[n] = IdtGate(stub[n]) /\ idtr
  BY <1>1 DEF IInv, IdtFilled, BeforeIdt, BeforeGates, BeforeTr, BeforeGdt, BeforeTss
<1>4. stub[n] \in Nat /\ stub[n] \div 65536 < 65536
  BY <1>2, StubAssumption DEF IInv, Linked, Address
<1>. QED  BY <1>3, <1>4, GateHandler

-----------------------------------------------------------------------------
LEMMA EntryTypes ==
  /\ \A a \in Nat : Flat(a) \in Descriptor
  /\ NoSegment \in Descriptor
  /\ \A k \in 1 .. 5 : Segments[k] \in Descriptor
  /\ \A b \in Nat : TssGate(b) \in Descriptor
  /\ NoGate \in Gate
  /\ \A h \in Nat : IdtGate(h) \in Gate
<1>1. \A x, y, a, g \in Nat : SetGate(x, y, a, g) \in Descriptor
  <2>. TAKE x, y, a, g \in Nat
  <2>1. /\ y % 65536 \in Nat /\ x % 65536 \in Nat /\ (x \div 65536) % 256 \in Nat
        /\ ((y \div 65536) % 16) + 16 * (g \div 16) \in Nat /\ (x \div 16777216) % 256 \in Nat
    OBVIOUS
  <2>. QED  BY <2>1 DEF SetGate, Descriptor
<1>2. \A a \in Nat : Flat(a) \in Descriptor
  BY <1>1, SMT DEF Flat
<1>3. NoSegment \in Descriptor
  BY <1>1, SMT DEF NoSegment
<1>4. \A k \in 1 .. 5 : Segments[k] \in Descriptor
  BY <1>2, <1>3, SMT DEF Segments, NoSegment
<1>5. \A b \in Nat : TssGate(b) \in Descriptor
  BY <1>1, SMT DEF TssGate
<1>6. NoGate \in Gate
  BY DEF NoGate, Gate
<1>7. \A h \in Nat : IdtGate(h) \in Gate
  <2>. TAKE h \in Nat
  <2>1. h % 65536 \in Nat /\ (h \div 65536) % 65536 \in Nat
    OBVIOUS
  <2>. QED  BY <2>1 DEF IdtGate, Gate, KernelCode
<1>. QED  BY <1>2, <1>3, <1>4, <1>5, <1>6, <1>7

LEMMA InitIInv == Init => IInv
<1>. SUFFICES ASSUME Init PROVE IInv
  OBVIOUS
<1>0. pc = "gdt" /\ next = 0 /\ pc \in BeforeTss /\ pc \in BeforeGdt /\ pc \in BeforeTr
      /\ pc \in BeforeGates /\ pc \in BeforeIdt
  BY DEF Init, BeforeIdt, BeforeGates, BeforeTr, BeforeGdt, BeforeTss
<1>1. GdtFilled
  <2>1. gdt \in [0 .. 5 -> Descriptor]
    BY EntryTypes DEF Init
  <2>2. gdtr \in BOOLEAN /\ ~gdtr /\ tr = 0
    BY DEF Init
  <2>. QED  BY <1>0, <2>1, <2>2 DEF GdtFilled
<1>2. IdtFilled
  <2>1. idt \in [Gates -> Gate] /\ idtr \in BOOLEAN /\ ~idtr
    BY EntryTypes DEF Init
  <2>. QED  BY <1>0, <2>1 DEF IdtFilled
<1>3. TssFilled
  BY DEF Init, TssFilled, BeforeTss
<1>4. Where
  <2>1. cpu \in Cpus
    BY StackAssumption DEF Init, Cpus, KernelCode, KernelData
  <2>2. InMain(cpu) /\ was = cpu
    BY <1>0 DEF Init, InMain
  <2>. QED  BY <2>1, <2>2 DEF Init, Where, Places, BeforeIdt, BeforeGates, BeforeTr, BeforeGdt, BeforeTss
<1>5. Linked
  BY DEF Init, Linked
<1>. QED  BY <1>1, <1>2, <1>3, <1>4, <1>5 DEF IInv

(* The steps of main that fill a row of a table. *)
LEMMA FillGdtIInv ==
  ASSUME IInv, FillGdt
  PROVE  IInv'
<1>. USE DEF FillGdt
<1>1. GdtFilled'
  <2>1. \A k \in 0 .. 4 : (pc # "gdt" \/ k < next)' => gdt'[k] = Segments[k + 1]
    BY DEF IInv, GdtFilled
  <2>2. pc' \notin BeforeTss => gdt'[5] = IF tr = 0 THEN TssGate(tssAt) ELSE gdt[5]
    BY DEF BeforeTss
  <2>3. gdt' \in [0 .. 5 -> Descriptor] /\ (pc' = "gdt" => next' \in 0 .. 4)
    BY EntryTypes DEF IInv, GdtFilled
  <2>. QED  BY <2>1, <2>2, <2>3 DEF IInv, GdtFilled, BeforeTr, BeforeGdt, BeforeTss
<1>2. IdtFilled'
  BY DEF IInv, GdtFilled, IdtFilled, BeforeIdt, BeforeGates, BeforeTr, BeforeGdt, BeforeTss
<1>3. TssFilled'
  BY DEF IInv, TssFilled, BeforeTss
<1>4. Where'
  BY DEF IInv, Where, InMain, Places, BeforeIdt, BeforeGates, BeforeTr, BeforeGdt, BeforeTss
<1>5. Linked'
  BY DEF IInv, Linked
<1>. QED  BY <1>1, <1>2, <1>3, <1>4, <1>5 DEF IInv

LEMMA FillIdtIInv ==
  ASSUME IInv, FillIdt
  PROVE  IInv'
<1>. USE DEF FillIdt
<1>1. GdtFilled'
  BY DEF IInv, GdtFilled, BeforeTr, BeforeGdt, BeforeTss
<1>2. IdtFilled'
  <2>0. next \in 0 .. 8
    BY DEF IInv, IdtFilled
  <2>1. \A k \in 1 .. 9 : GateOrder[k] \in Gates
    BY DEF Gates, GateOrder
  <2>2. idt \in [Gates -> Gate] /\ idt' \in [Gates -> Gate]
    <3>1. \A n \in Gates : IdtGate(stub[n]) \in Gate
      BY EntryTypes, StubAssumption DEF IInv, Linked
    <3>2. next + 1 \in 1 .. 9 /\ idt \in [Gates -> Gate]
      BY <2>0 DEF IInv, IdtFilled
    <3>. QED  BY <2>1, <3>1, <3>2
  <2>3. \A k \in 1 .. 9 : k <= next => idt[GateOrder[k]] = IdtGate(stub[GateOrder[k]])
    BY DEF IInv, IdtFilled, BeforeGates
  <2>4. \A k \in 1 .. 9 : k <= next + 1 => idt'[GateOrder[k]] = IdtGate(stub'[GateOrder[k]])
    BY <2>0, <2>1, <2>2, <2>3
  <2>5. IF next = 8 THEN next' = 0 /\ pc' = "lidt" ELSE next' = next + 1 /\ pc' = "idt"
    OBVIOUS
  <2>6. \A k \in 1 .. 9 : (pc \notin BeforeGates \/ (pc = "idt" /\ k <= next))' =>
          idt'[GateOrder[k]] = IdtGate(stub'[GateOrder[k]])
    BY <2>0, <2>4, <2>5 DEF BeforeGates
  <2>7. next' \in 0 .. 8 /\ (pc' \notin {"gdt", "idt"} => next' = 0)
    BY <2>0, <2>5
  <2>8. idtr' \in BOOLEAN /\ (idtr' <=> pc' \notin BeforeIdt)
    BY <2>5 DEF IInv, IdtFilled, BeforeIdt, BeforeGates
  <2>. QED  BY <2>2, <2>6, <2>7, <2>8 DEF IdtFilled
<1>3. TssFilled'
  BY DEF IInv, TssFilled, BeforeTss
<1>4. Where'
  BY DEF IInv, Where, InMain, Places, BeforeIdt, BeforeGates, BeforeTr, BeforeGdt, BeforeTss
<1>5. Linked'
  BY DEF IInv, Linked
<1>. QED  BY <1>1, <1>2, <1>3, <1>4, <1>5 DEF IInv

LEMMA WriteTssIInv ==
  ASSUME IInv, WriteTss
  PROVE  IInv'
<1>. USE DEF WriteTss, Main
<1>1. GdtFilled'
  <2>1. TssGate(tssAt) \in Descriptor
    BY EntryTypes, TssAssumption DEF IInv, Linked, Address
  <2>2. gdt' \in [0 .. 5 -> Descriptor] /\ gdt'[5] = TssGate(tssAt') /\ tr' = 0
    BY <2>1 DEF IInv, GdtFilled, BeforeTr, BeforeGdt, BeforeTss
  <2>3. \A k \in 0 .. 4 : gdt'[k] = Segments[k + 1]
    BY DEF IInv, GdtFilled
  <2>. QED  BY <2>2, <2>3 DEF IInv, GdtFilled, BeforeTr, BeforeGdt, BeforeTss
<1>2. IdtFilled'
  BY DEF IInv, IdtFilled, BeforeIdt, BeforeGates, BeforeTr, BeforeGdt, BeforeTss
<1>3. TssFilled'
  BY DEF IInv, TssFilled, BeforeTss, KernelData
<1>4. Where'
  BY DEF IInv, Where, InMain, Places, BeforeIdt, BeforeGates, BeforeTr, BeforeGdt, BeforeTss
<1>5. Linked'
  BY DEF IInv, Linked
<1>. QED  BY <1>1, <1>2, <1>3, <1>4, <1>5 DEF IInv

(* The steps of main that load a table or a register: all go as in Main,   *)
(* and the tables keep what was filled in. *)
LEMMA LoadsIInv ==
  ASSUME IInv, LoadGdt \/ LoadIdt \/ SetKernelStack \/ Sti
  PROVE  IInv'
<1>. USE DEF LoadGdt, LoadIdt, SetKernelStack, Sti, Main, tables
<1>1. GdtFilled'
  BY DEF IInv, GdtFilled, BeforeTr, BeforeGdt, BeforeTss
<1>2. IdtFilled'
  <2>1. UNCHANGED <<idt, next, stub>> /\ next = 0 /\ idt \in [Gates -> Gate] /\ next \in 0 .. 8
    BY DEF IInv, IdtFilled
  <2>2. (pc' \notin BeforeGates <=> pc \notin BeforeGates) /\ pc' # "idt"
    BY DEF BeforeGates, BeforeTr, BeforeGdt, BeforeTss
  <2>3. \A k \in 1 .. 9 : pc \notin BeforeGates => idt[GateOrder[k]] = IdtGate(stub[GateOrder[k]])
    BY DEF IInv, IdtFilled
  <2>4. idtr \in BOOLEAN /\ (idtr <=> pc \notin BeforeIdt)
    BY DEF IInv, IdtFilled
  <2>5. idtr' \in BOOLEAN /\ (idtr' <=> pc' \notin BeforeIdt)
    <3>1. CASE LoadGdt
      BY <2>4, <3>1 DEF BeforeIdt, BeforeGates, BeforeTr, BeforeGdt, BeforeTss
    <3>2. CASE LoadIdt
      BY <3>2 DEF BeforeIdt, BeforeGates, BeforeTr, BeforeGdt, BeforeTss
    <3>3. CASE SetKernelStack \/ Sti
      BY <2>4, <3>3 DEF BeforeIdt, BeforeGates, BeforeTr, BeforeGdt, BeforeTss
    <3>. QED  BY <3>1, <3>2, <3>3
  <2>. QED  BY <2>1, <2>2, <2>3, <2>5 DEF IdtFilled
<1>3. TssFilled'
  <2>1. tss \in [esp0 : Nat, ss0 : Nat] /\ tss.ss0 = KernelData /\ pc \notin BeforeTss
    BY DEF IInv, TssFilled, BeforeTss
  <2>2. tss' = tss \/ \E s \in Nat : tss' = [tss EXCEPT !.esp0 = s]
    BY StackAssumption
  <2>. QED  BY <2>1, <2>2 DEF TssFilled
<1>4. Where'
  <2>1. cpu' \in Cpus
    <3>1. cpu \in Cpus
      BY DEF IInv, Where
    <3>2. cpu' = cpu \/ cpu' = [cpu EXCEPT !.intr = TRUE]
      OBVIOUS
    <3>. HIDE DEF LoadGdt, LoadIdt, SetKernelStack, Sti, Main, tables
    <3>3. cpu' = cpu => cpu' \in Cpus
      BY <3>1
    <3>4. cpu' = [cpu EXCEPT !.intr = TRUE] => cpu' \in Cpus
      BY <3>1 DEF Cpus
    <3>. QED  BY <3>2, <3>3, <3>4
  <2>2. serving = 0 /\ serving' = 0 /\ was' \in Cpus /\ pc' \in Places
    BY DEF IInv, Where, Places, BeforeIdt, BeforeGates, BeforeTr, BeforeGdt, BeforeTss
  <2>3. InMain(cpu)'
    BY <2>2 DEF IInv, Where, InMain, Cpus
  <2>. QED  BY <2>1, <2>2, <2>3 DEF Where
<1>5. Linked'
  BY DEF IInv, Linked
<1>. QED  BY <1>1, <1>2, <1>3, <1>4, <1>5 DEF IInv

LEMMA SelectorStepsIInv ==
  ASSUME IInv, LoadSegments \/ FarJump \/ LoadUserData \/ EnterRing3
  PROVE  IInv'
<1>1. /\ Names(KernelData, "data", 0) /\ Names(KernelCode, "code", 0)
      /\ pc \in {"user", "iretd"} => Names(UserCode, "code", 3) /\ Names(UserData, "data", 3)
  BY Selectors DEF BeforeGdt, BeforeTss
<1>2. pc = "user" => LoadsData(UserData, 0)
  BY <1>1 DEF LoadsData
<1>3. /\ UNCHANGED <<tables, next, serving, was, tssAt, stub>>
      /\ serving = 0
      /\ \/ pc = "data" /\ pc' = "jump" /\ cpu' = [cpu EXCEPT !.ds = KernelData, !.ss = KernelData]
         \/ pc = "jump" /\ pc' = "ltr" /\ cpu' = [cpu EXCEPT !.cs = KernelCode]
         \/ pc = "user" /\ pc' = "iretd" /\ cpu' = [cpu EXCEPT !.intr = FALSE, !.ds = UserData]
         \/ /\ pc = "iretd" /\ pc' = "run"
            /\ cpu' = [cpu EXCEPT !.cs = UserCode, !.ss = UserData, !.intr = TRUE]
  BY <1>1, <1>2 DEF LoadSegments, FarJump, LoadUserData, EnterRing3, Main, IInv, Where
<1>. USE <1>3 DEF tables
<1>4. GdtFilled'
  BY DEF IInv, GdtFilled, BeforeTr, BeforeGdt, BeforeTss
<1>5. IdtFilled'
  BY DEF IInv, IdtFilled, BeforeIdt, BeforeGates, BeforeTr, BeforeGdt, BeforeTss
<1>6. TssFilled'
  BY DEF IInv, TssFilled, BeforeTss
<1>7. Where'
  <2>1. cpu' \in Cpus
    <3>1. cpu \in Cpus /\ {KernelCode, KernelData, UserCode, UserData} \subseteq Nat
      BY DEF IInv, Where, KernelCode, KernelData, UserCode, UserData
    <3>. QED  BY <3>1 DEF Cpus
  <2>2. was' \in Cpus /\ pc' \in Places
    BY DEF IInv, Where, Places, BeforeIdt, BeforeGates, BeforeTr, BeforeGdt, BeforeTss
  <2>3. cpu \in Cpus /\ InMain(cpu)
    BY DEF IInv, Where
  <2>4. InMain(cpu)'
    <3>1. CASE pc = "data" \/ pc = "jump"
      BY <2>3, <3>1 DEF InMain, Cpus
    <3>2. CASE pc = "user"
      BY <2>3, <3>2 DEF InMain, Cpus
    <3>3. CASE pc = "iretd"
      BY <2>3, <3>3 DEF InMain, Cpus
    <3>. QED  BY <3>1, <3>2, <3>3
  <2>. QED  BY <2>1, <2>2, <2>4 DEF Where
<1>8. Linked'
  BY DEF IInv, Linked
<1>. QED  BY <1>4, <1>5, <1>6, <1>7, <1>8 DEF IInv

LEMMA LoadTrIInv ==
  ASSUME IInv, LoadTr
  PROVE  IInv'
<1>1. Names(TssSelector, "tss", 3)
  BY Selectors DEF LoadTr
<1>2. /\ pc = "ltr" /\ pc' = "idt" /\ tr' = TssSelector
      /\ gdt' = [gdt EXCEPT ![5].access = @ + 2]
      /\ UNCHANGED <<idt, gdtr, idtr, tss, next, cpu, serving, was, tssAt, stub>>
  BY <1>1 DEF LoadTr, Main
<1>3. GdtFilled'
  <2>1. gdt \in [0 .. 5 -> Descriptor] /\ gdt[5] = TssGate(tssAt)
    BY <1>2 DEF IInv, GdtFilled, BeforeTr, BeforeGdt, BeforeTss
  <2>2. gdt[5].access = 233
    BY <2>1 DEF TssGate, SetGate
  <2>3. gdt' \in [0 .. 5 -> Descriptor] /\ gdt'[5] = [TssGate(tssAt) EXCEPT !.access = 235]
    BY <1>2, <2>1, <2>2 DEF Descriptor
  <2>4. \A k \in 0 .. 4 : gdt'[k] = Segments[k + 1]
    BY <1>2, <2>1 DEF IInv, GdtFilled
  <2>. QED
    BY <1>2, <2>3, <2>4 DEF IInv, GdtFilled, BeforeTr, BeforeGdt, BeforeTss, TssSelector
<1>4. IdtFilled'
  BY <1>2 DEF IInv, IdtFilled, BeforeIdt, BeforeGates, BeforeTr, BeforeGdt, BeforeTss
<1>5. TssFilled'
  BY <1>2 DEF IInv, TssFilled, BeforeTss
<1>6. Where'
  BY <1>2 DEF IInv, Where, InMain, Places, BeforeIdt, BeforeGates, BeforeTr, BeforeGdt, BeforeTss
<1>7. Linked'
  BY <1>2 DEF IInv, Linked
<1>. QED  BY <1>3, <1>4, <1>5, <1>6, <1>7 DEF IInv

-----------------------------------------------------------------------------
(* Every interrupt gets through. *)
LEMMA Enters ==
  ASSUME IInv, NEW n \in Hardware \cup {14}, Enter(n),
         (serving = 0 /\ cpu.intr) \/ serving = 33
  PROVE  /\ pc' = pc /\ pc \in {"user", "run"} /\ serving' = n /\ was' = cpu
         /\ UNCHANGED <<next, tables, tssAt, stub>>
         /\ cpu' = [cs |-> KernelCode, ss |-> KernelData,
                    ds |-> IF n \in LoadsDs THEN KernelData ELSE cpu.ds,
                    eip |-> stub[n],
                    esp |-> IF cpu.cs = UserCode THEN tss.esp0 - 20 ELSE cpu.esp - 12,
                    intr |-> FALSE]
<1>1. pc \in {"user", "run"}
  BY DEF IInv, Where, InMain
<1>2. \/ cpu.cs = KernelCode /\ cpu.ss = KernelData /\ Ring = 0
      \/ cpu.cs = UserCode /\ Ring = 3
  <2>1. KernelCode % 4 = 0 /\ UserCode % 4 = 3
    BY DEF KernelCode, UserCode
  <2>2. \/ cpu.cs = KernelCode /\ cpu.ss = KernelData
        \/ cpu.cs = UserCode
    BY <1>1 DEF IInv, Where, InMain, InHandler
  <2>. QED  BY <2>1, <2>2 DEF Ring
<1>3. TaskState = tss /\ tss.ss0 = KernelData
  <2>1. pc \notin BeforeTr /\ pc \notin BeforeTss
    BY <1>1 DEF BeforeTr, BeforeGdt, BeforeTss
  <2>2. tr = TssSelector /\ tr # 0
    BY <2>1 DEF IInv, GdtFilled, TssSelector
  <2>. QED  BY <2>1, <2>2, StackFound DEF TssFound, IInv, TssFilled
<1>4. /\ idtr /\ idt[n].flags = 142 /\ idt[n].sel = KernelCode /\ Handler(idt[n]) = stub[n]
  BY <1>1, GateFound
<1>5. Names(KernelCode, "code", 0) /\ Names(KernelData, "data", 0)
  BY Selectors
<1>6. KernelCode # UserCode
  BY DEF KernelCode, UserCode
<1>7. CASE Ring = 0
  <2>1. cpu.cs # UserCode /\ cpu.ss = KernelData /\ Ring # 3
    BY <1>2, <1>6, <1>7
  <2>. QED  BY <1>1, <1>4, <1>5, <1>7, <2>1 DEF Enter
<1>8. CASE Ring = 3
  <2>1. cpu.cs = UserCode /\ Ring # 0
    BY <1>2, <1>8
  <2>. QED  BY <1>1, <1>3, <1>4, <1>5, <1>8, <2>1 DEF Enter
<1>. QED  BY <1>2, <1>7, <1>8

LEMMA EnterIInv ==
  ASSUME IInv, Interrupt \/ Crash
  PROVE  IInv'
<1>1. PICK n \in Hardware \cup {14} : /\ Enter(n)
                                      /\ n \in Hardware => serving = 0 /\ cpu.intr
                                      /\ n = 14 => serving = 33
  <2>1. 14 \notin Hardware
    BY DEF Hardware
  <2>2. CASE Crash
    BY <2>1, <2>2 DEF Crash
  <2>3. CASE Interrupt
    <3>1. serving = 0 /\ cpu.intr
      BY <2>3 DEF Interrupt, IInv, Where, InHandler
    <3>. QED  BY <2>1, <2>3, <3>1 DEF Interrupt
  <2>. QED  BY <2>2, <2>3
<1>. DEFINE entered ==
       [cs |-> KernelCode, ss |-> KernelData,
        ds |-> IF n \in LoadsDs THEN KernelData ELSE cpu.ds, eip |-> stub[n],
        esp |-> IF cpu.cs = UserCode THEN tss.esp0 - 20 ELSE cpu.esp - 12, intr |-> FALSE]
<1>2. /\ pc' = pc /\ pc \in {"user", "run"} /\ serving' = n /\ was' = cpu
      /\ UNCHANGED <<next, tables, tssAt, stub>> /\ cpu' = entered
  BY <1>1, Enters
<1>3. GdtFilled' /\ IdtFilled' /\ TssFilled' /\ Linked'
  BY <1>2 DEF tables, IInv, GdtFilled, IdtFilled, TssFilled, Linked
<1>4. Where'
  <2>1. cpu \in Cpus /\ cpu.ds \in {KernelData, UserData} /\ n # 0
    BY <1>2 DEF IInv, Where, InMain, InHandler, Hardware
  <2>2. stub[n] \in Nat
    BY <1>2, GateFound DEF IInv
  <2>3. tss.esp0 - 20 \in Int /\ cpu.esp - 12 \in Int
    BY <2>1 DEF Cpus, IInv, TssFilled
  <2>4. entered.ds \in {KernelData, UserData}
    BY <2>1
  <2>5. KernelCode \in Nat /\ KernelData \in Nat /\ UserData \in Nat
    BY DEF KernelCode, KernelData, UserData
  <2>6. cpu' \in Cpus
    BY <1>2, <2>1, <2>2, <2>3, <2>4, <2>5 DEF Cpus
  <2>7. InHandler(cpu)'
    BY <1>2, <2>4 DEF InHandler
  <2>8. n # 14 => InMain(was)'
    BY <1>1, <1>2 DEF InMain, IInv, Where
  <2>. QED  BY <1>2, <2>1, <2>6, <2>7, <2>8 DEF Where, IInv
<1>. QED  BY <1>3, <1>4 DEF IInv

LEMMA ReturnIInv ==
  ASSUME IInv, Return
  PROVE  IInv'
<1>1. /\ pc \in {"user", "run"} /\ InMain(was) /\ InHandler(cpu) /\ was \in Cpus
      /\ serving \in Hardware
  BY DEF Return, IInv, Where, Hardware
<1>2. /\ Names(KernelCode, "code", 0) /\ Names(KernelData, "data", 0)
      /\ Names(UserCode, "code", 3) /\ Names(UserData, "data", 3)
  BY <1>1, Selectors DEF BeforeGdt, BeforeTss
<1>3. LoadsData(was.ds, 0)
  BY <1>1, <1>2 DEF LoadsData, InMain
<1>4. /\ Names(was.cs, "code", was.cs % 4)
      /\ was.cs % 4 # Ring => Names(was.ss, "data", was.cs % 4)
  <2>1. CASE pc = "run"
    <3>1. was.cs = UserCode /\ was.ss = UserData /\ UserCode % 4 = 3
      BY <1>1, <2>1 DEF InMain, UserCode
    <3>. QED  BY <1>2, <3>1
  <2>2. CASE pc = "user"
    <3>1. was.cs = KernelCode /\ was.ss = KernelData /\ KernelCode % 4 = 0
      BY <1>1, <2>2 DEF InMain, KernelCode
    <3>. QED  BY <1>2, <3>1
  <2>. QED  BY <1>1, <2>1, <2>2
<1>5. pc' = pc /\ cpu' = was /\ serving' = 0 /\ UNCHANGED <<next, tables, was, tssAt, stub>>
  BY <1>3, <1>4 DEF Return
<1>6. GdtFilled' /\ IdtFilled' /\ TssFilled' /\ Linked'
  BY <1>5 DEF tables, IInv, GdtFilled, IdtFilled, TssFilled, Linked
<1>7. Where'
  BY <1>1, <1>5 DEF Where, InMain, IInv
<1>. QED  BY <1>6, <1>7 DEF IInv

LEMMA StepIInv == IInv /\ [Next]_vars => IInv'
<1>. SUFFICES ASSUME IInv, [Next]_vars PROVE IInv'
  OBVIOUS
<1>1. CASE UNCHANGED vars
  BY <1>1 DEF vars, tables, IInv, GdtFilled, IdtFilled, TssFilled, Where, Linked, InMain, InHandler
<1>2. CASE Next
  BY <1>2, FillGdtIInv, WriteTssIInv, LoadsIInv, SelectorStepsIInv, LoadTrIInv, FillIdtIInv,
     EnterIInv, ReturnIInv DEF Next
<1>. QED  BY <1>1, <1>2

LEMMA AlwaysIInv == Spec => []IInv
BY InitIInv, StepIInv, PTL DEF Spec

-----------------------------------------------------------------------------
(* Wherever the linker puts tss_entry and the stubs below 4 GB, and        *)
(* whatever the stacks, the processor refuses nothing main or a stub does. *)
THEOREM NothingRefused == Spec => []NoFault
<1>1. IInv => NoFault
  BY DEF IInv, Where, NoFault, Places, BeforeIdt, BeforeGates, BeforeTr, BeforeGdt, BeforeTss
<1>. QED  BY <1>1, AlwaysIInv, PTL

(* Under the same conditions set_kernel_stack writes to the TSS the        *)
(* processor uses.                                                         *)
THEOREM TssAlwaysFound == Spec => []TssFound
BY AlwaysIInv, StackFound, PTL

(* Under the same conditions the segment registers always name segments    *)
(* that cover all memory.                                                  *)
THEOREM SegmentsAlwaysFit == Spec => []SegmentsFit
<1>1. IInv => SegmentsFit
  <2>. SUFFICES ASSUME IInv PROVE SegmentsFit
    OBVIOUS
  <2>1. /\ Names(KernelCode, "code", 0) /\ AllMemory(Table[1])
        /\ Names(KernelData, "data", 0) /\ AllMemory(Table[2])
    BY Selectors
  <2>2. pc \notin BeforeGdt => /\ Names(UserCode, "code", 3) /\ AllMemory(Table[3])
                               /\ Names(UserData, "data", 3) /\ AllMemory(Table[4])
    BY Selectors
  <2>3. KernelCode \div 8 = 1 /\ KernelData \div 8 = 2 /\ UserCode \div 8 = 3 /\ UserData \div 8 = 4
        /\ KernelCode % 4 = 0 /\ UserCode % 4 = 3
    BY DEF KernelCode, KernelData, UserCode, UserData
  <2>4. \/ cpu.cs = KernelCode /\ cpu.ss = KernelData /\ cpu.ds = KernelData
        \/ /\ pc \notin BeforeGdt
           /\ \/ cpu.cs = KernelCode /\ cpu.ss = KernelData /\ cpu.ds = UserData
              \/ cpu.cs = UserCode /\ cpu.ss = UserData /\ cpu.ds = UserData
    BY DEF IInv, Where, InMain, InHandler, BeforeGdt, BeforeTss
  <2>5. LoadsData(KernelData, 0)
    BY <2>1 DEF LoadsData
  <2>6. pc \notin BeforeGdt => LoadsData(UserData, 0) /\ LoadsData(UserData, 3)
    BY <2>2 DEF LoadsData
  <2>7. CASE cpu.cs = KernelCode /\ cpu.ss = KernelData /\ cpu.ds = KernelData
    BY <2>1, <2>3, <2>5, <2>7 DEF SegmentsFit, Ring
  <2>8. CASE /\ pc \notin BeforeGdt
             /\ cpu.cs = KernelCode /\ cpu.ss = KernelData /\ cpu.ds = UserData
    BY <2>1, <2>2, <2>3, <2>6, <2>8 DEF SegmentsFit, Ring
  <2>9. CASE /\ pc \notin BeforeGdt
             /\ cpu.cs = UserCode /\ cpu.ss = UserData /\ cpu.ds = UserData
    BY <2>2, <2>3, <2>6, <2>9 DEF SegmentsFit, Ring
  <2>. QED  BY <2>4, <2>7, <2>8, <2>9
<1>. QED  BY <1>1, AlwaysIInv, PTL

(* All three together: the tables do what main fills them for.             *)
THEOREM TablesAlwaysSound == Spec => []TablesSound
BY NothingRefused, TssAlwaysFound, SegmentsAlwaysFit, PTL DEF TablesSound

(* Under the same conditions every interrupt gets to its own stub, on the  *)
(* stack of the ring it came in.                                           *)
THEOREM StubAlwaysReached == Spec => StubReached
<1>. DEFINE Reached ==
       serving' # 0 /\ serving' # serving =>
         /\ cpu'.eip = stub[serving'] /\ cpu'.cs = KernelCode /\ ~cpu'.intr
         /\ cpu'.ss = KernelData
         /\ cpu'.esp = IF cpu.cs = UserCode THEN tss.esp0 - 20 ELSE cpu.esp - 12
<1>1. IInv /\ [Next]_vars => [Reached]_vars
  <2>. SUFFICES ASSUME IInv, Next, serving' # 0, serving' # serving PROVE Reached
    BY DEF Next
  <2>1. Interrupt \/ Crash
    BY DEF Next, FillGdt, WriteTss, LoadGdt, LoadSegments, FarJump, LoadTr, FillIdt, LoadIdt,
       SetKernelStack, Sti, LoadUserData, EnterRing3, Return, Main
  <2>2. PICK n \in Hardware \cup {14} : Enter(n) /\ ((serving = 0 /\ cpu.intr) \/ serving = 33)
    <3>1. CASE Crash
      BY <3>1 DEF Crash
    <3>2. CASE Interrupt
      <4>1. serving = 0 /\ cpu.intr
        BY <3>2 DEF Interrupt, IInv, Where, InHandler
      <4>. QED  BY <3>2, <4>1 DEF Interrupt
    <3>. QED  BY <2>1, <3>1, <3>2
  <2>3. serving' = n /\ cpu' = [cs |-> KernelCode, ss |-> KernelData,
                    ds |-> IF n \in LoadsDs THEN KernelData ELSE cpu.ds,
                    eip |-> stub[n],
                    esp |-> IF cpu.cs = UserCode THEN tss.esp0 - 20 ELSE cpu.esp - 12,
                    intr |-> FALSE]
    BY <2>2, Enters
  <2>. QED  BY <2>3
<1>. QED  BY <1>1, AlwaysIInv, PTL DEF Spec, StubReached

(* Under the same conditions every variable keeps its type.                *)
THEOREM TypeCorrect == Spec => []TypeOK
<1>1. IInv => TypeOK
  <2>. SUFFICES ASSUME IInv PROVE TypeOK
    OBVIOUS
  <2>1. /\ pc \in Places /\ cpu \in Cpus /\ was \in Cpus /\ tss \in [esp0 : Nat, ss0 : Nat]
        /\ next \in 0 .. 8 /\ gdt \in [0 .. 5 -> Descriptor] /\ idt \in [Gates -> Gate]
    BY DEF IInv, Where, TssFilled, IdtFilled, GdtFilled
  <2>2. gdtr \in BOOLEAN /\ idtr \in BOOLEAN /\ tr \in {0, TssSelector}
    BY DEF IInv, IdtFilled, GdtFilled
  <2>3. serving \in Gates
    BY DEF IInv, Where, Gates, GateOrder, Hardware
  <2>. QED
    BY <2>1, <2>2, <2>3 DEF TypeOK, Places, BeforeIdt, BeforeGates, BeforeTr, BeforeGdt, BeforeTss
<1>. QED  BY <1>1, AlwaysIInv, PTL

-----------------------------------------------------------------------------
(* The four registers hold the sector number.                              *)

LEMMA Parts ==
  ASSUME NEW w \in Nat \ {0}, NEW x \in Nat
  PROVE  /\ x \div w \in Nat /\ x % w \in Nat /\ x % w < w
         /\ x = w * (x \div w) + (x % w)
<1>1. w \in Nat /\ w > 0
  OBVIOUS
<1> QED BY <1>1

(* There is one quotient with a remainder that fits.                       *)
LEMMA QuotientUnique ==
  ASSUME NEW w \in Nat \ {0}, NEW p \in Nat, NEW q \in Nat,
         NEW r \in Nat, NEW s \in Nat, r < w, s < w, w * p + r = w * q + s
  PROVE  p = q
<1>1. ASSUME NEW a \in Nat, NEW b \in Nat, NEW x \in Nat, NEW y \in Nat,
             x < w, y < w, w * a + x = w * b + y, a < b
      PROVE  FALSE
  <2>1. PICK d \in Nat : b = a + 1 + d
    <3>1. b - a - 1 \in Nat /\ b = a + 1 + (b - a - 1)
      BY <1>1
    <3> QED BY <3>1
  <2>2. w * b = w * a + w + w * d
    BY <2>1
  <2>3. w * a \in Nat /\ w * d \in Nat /\ w * b \in Nat
    OBVIOUS
  <2> QED BY <1>1, <2>2, <2>3
<1> QED BY <1>1

(* A part of a product's remainder fits.                                   *)
LEMMA FitsProduct ==
  ASSUME NEW v \in Nat \ {0}, NEW w \in Nat \ {0}, NEW r \in Nat, NEW s \in Nat,
         r < v, s < w
  PROVE  v * s + r \in Nat /\ v * s + r < v * w
<1>1. PICK d \in Nat : w = s + 1 + d
  <2>1. w - s - 1 \in Nat /\ w = s + 1 + (w - s - 1)
    OBVIOUS
  <2> QED BY <2>1
<1>2. v * w = v * s + v + v * d
  BY <1>1
<1>3. v * s \in Nat /\ v * d \in Nat
  OBVIOUS
<1> QED BY <1>2, <1>3

LEMMA DivideTwice ==
  ASSUME NEW v \in Nat \ {0}, NEW w \in Nat \ {0}, NEW x \in Nat
  PROVE  x \div (v * w) = (x \div v) \div w
<1> DEFINE q == x \div v
           r == x % v
           p == q \div w
           s == q % w
           m == x \div (v * w)
           n == x % (v * w)
<1>1. q \in Nat /\ r \in Nat /\ r < v /\ x = v * q + r
  BY Parts
<1>2. p \in Nat /\ s \in Nat /\ s < w /\ q = w * p + s
  BY <1>1, Parts
<1>3. v * w \in Nat \ {0}
  OBVIOUS
<1>4. m \in Nat /\ n \in Nat /\ n < v * w /\ x = (v * w) * m + n
  BY <1>3, Parts
<1> HIDE DEF q, r, p, s, m, n
<1>5. v * s + r \in Nat /\ v * s + r < v * w
  BY <1>1, <1>2, FitsProduct
<1>6. v * (w * p + s) = (v * w) * p + v * s
  BY <1>2
<1>7. (v * w) * p \in Nat /\ v * s \in Nat
  BY <1>2
<1>8. (v * w) * p + (v * s + r) = (v * w) * m + n
  BY <1>1, <1>2, <1>4, <1>6, <1>7
<1>9. p = m
  BY <1>2, <1>3, <1>4, <1>5, <1>8, QuotientUnique
<1> QED BY <1>9 DEF m, p, q

Numbers == 0 .. RegBase * RegBase * RegBase * TopBase - 1

LEMMA AddressKept == ASSUME NEW l \in Numbers PROVE Addressed(AddressRegisters(l)) = l
<1> DEFINE w == RegBase
           a == l \div w
           b == a \div w
           c == b \div w
<1>1. w \in Nat \ {0} /\ l \in Nat /\ w * w \in Nat \ {0}
  BY DiskAssumption DEF Numbers
<1>2. a \in Nat /\ l % w \in Nat /\ l = w * a + (l % w)
  BY <1>1, Parts
<1>3. b \in Nat /\ a % w \in Nat /\ a = w * b + (a % w)
  BY <1>1, <1>2, Parts
<1>4. c \in Nat /\ b % w \in Nat /\ b = w * c + (b % w)
  BY <1>1, <1>3, Parts
<1>5. l \div (w * w) = b
  BY <1>1, DivideTwice
<1>6. l \div (w * w * w) = c
  <2>1. l \div ((w * w) * w) = (l \div (w * w)) \div w
    BY <1>1, DivideTwice
  <2> QED BY <1>5, <2>1
<1>7. c < TopBase
  <2>1. PICK v \in Nat \ {0} : v = w * w * w
    BY <1>1
  <2>2. l < v * TopBase /\ TopBase \in Nat /\ l \div v = c
    BY <1>6, <2>1, DiskAssumption DEF Numbers
  <2>3. l % v \in Nat /\ l = v * (l \div v) + (l % v)
    BY <1>1, Parts
  <2> HIDE DEF a, b, c
  <2>4. ASSUME TopBase <= c PROVE FALSE
    <3>1. PICK d \in Nat : c = TopBase + d
      <4>1. c - TopBase \in Nat /\ c = TopBase + (c - TopBase)
        BY <1>4, <2>2, <2>4
      <4> QED BY <4>1
    <3>2. v * c = v * TopBase + v * d
      BY <2>2, <3>1
    <3>3. v * TopBase \in Nat /\ v * d \in Nat
      BY <2>2
    <3> QED BY <2>2, <2>3, <3>2, <3>3
  <2> QED BY <1>4, <2>2, <2>4
<1> HIDE DEF a, b, c
<1>8. c % TopBase = c
  <2>1. TopBase \in Nat \ {0}
    BY DiskAssumption
  <2> QED BY <1>4, <1>7, <2>1
<1>9. AddressRegisters(l) = <<l % w, a % w, b % w, c>>
  BY <1>5, <1>6, <1>8 DEF AddressRegisters, a
<1>10. Addressed(AddressRegisters(l)) = (l % w) + w * ((a % w) + w * ((b % w) + w * c))
  BY <1>9 DEF Addressed
<1>11. (b % w) + w * c = b
  BY <1>1, <1>4
<1>12. (a % w) + w * b = a
  BY <1>1, <1>3
<1>13. (l % w) + w * a = l
  BY <1>1, <1>2
<1> QED BY <1>10, <1>11, <1>12, <1>13

-----------------------------------------------------------------------------
(* The drive does what the call is about.                                  *)

LEMMA SectorTypes ==
  /\ \A c \in Sector : c \in Seq(Nat) /\ Len(c) = SectorWords
  /\ None \notin Sector /\ SectorWords \in Nat \ {0}
BY DiskAssumption DEF Sector

LEMMA ViewType == ASSUME DiskTypeOK PROVE View \in [Image -> Sector]
<1>1. ASSUME NEW l \in Image PROVE (IF cache[l] = None THEN medium[l] ELSE cache[l]) \in Sector
  BY DEF DiskTypeOK
<1> QED BY <1>1 DEF View

(* One word more of a sector.                                              *)
LEMMA WordMore ==
  ASSUME NEW c \in Sector, NEW n \in 0 .. SectorWords, n < SectorWords
  PROVE  /\ Append(SubSeq(c, 1, n), c[n + 1]) = SubSeq(c, 1, n + 1)
         /\ Len(SubSeq(c, 1, n)) = n /\ Len(SubSeq(c, 1, n + 1)) = n + 1
         /\ SubSeq(c, 1, 0) = <<>> /\ SubSeq(c, 1, SectorWords) = c
<1>1. c \in Seq(Nat) /\ Len(c) = SectorWords /\ SectorWords \in Nat
  BY SectorTypes
<1> DEFINE a == SubSeq(c, 1, n)
           b == SubSeq(c, 1, n + 1)
<1>2. a \in Seq(Nat) /\ Len(a) = n /\ \A k \in 1 .. n : a[k] = c[k]
  BY <1>1
<1>3. b \in Seq(Nat) /\ Len(b) = n + 1 /\ \A k \in 1 .. n + 1 : b[k] = c[k]
  BY <1>1
<1>4. c[n + 1] \in Nat
  BY <1>1
<1> HIDE DEF a, b
<1>5. Append(a, c[n + 1]) = b
  BY <1>2, <1>3, <1>4
<1>6. SubSeq(c, 1, 0) = <<>>
  BY <1>1, SubSeqEmpty
<1>7. SubSeq(c, 1, SectorWords) = c
  BY <1>1, SubSeqFull
<1> QED BY <1>2, <1>3, <1>5, <1>6, <1>7 DEF a, b

LEMMA DiskInvInit == DiskInit => DiskInv
<1> SUFFICES ASSUME DiskInit PROVE DiskInv
  OBVIOUS
<1>1. 0 \in Numbers /\ SectorWords \in Nat
  BY DiskAssumption DEF Numbers
<1>2. DiskTypeOK
  BY <1>1 DEF DiskInit, DiskTypeOK, Idle, Sector, Numbers
<1> QED BY <1>2 DEF DiskInit, DiskInv, ReadInStep, WriteInStep

LEMMA Addresses ==
  ASSUME NEW l \in Asked \cup {0}
  PROVE  l \in Numbers /\ Addressed(AddressRegisters(l)) = l
<1>1. l \in Numbers
  BY DiskAssumption DEF Numbers
<1> QED BY <1>1, AddressKept

(* Steps of the drive beside its cache keep what is offered.               *)
LEMMA ViewKept == ASSUME UNCHANGED <<cache, medium>> PROVE View' = View
BY DEF View

LEMMA HostKeeps ==
  ASSUME DiskInv,
         Host \/ \E l \in Asked : ReadSector(l) \/ \E data \in Contents : WriteSector(l, data)
  PROVE  DiskInv'
<1>1. DiskTypeOK /\ View \in [Image -> Sector] /\ Contents \subseteq Sector
  BY ViewType DEF DiskInv, Sector
<1>2. ASSUME NEW l \in Asked, ReadSector(l) PROVE DiskInv'
  <2>1. drive = Idle /\ Addressed(AddressRegisters(l)) = l /\ l \in Numbers
    BY <1>2, Addresses DEF ReadSector, DiskInv
  <2>2. drive' = [bsy |-> TRUE, drq |-> FALSE, cmd |-> "read", lba |-> l, sector |-> <<>>]
    BY <1>2, <2>1 DEF ReadSector, Command, Ready, Idle
  <2> QED BY <1>1, <1>2, <2>1, <2>2, SectorTypes
          DEF ReadSector, Command, DiskInv, DiskTypeOK, ReadInStep, WriteInStep, At, Numbers
<1>3. CASE PollRead
  <2>1. /\ op = "read" /\ lba \in Asked /\ buffer = <<>> /\ i = 0
        /\ lba \in Image /\ drive = Offers("read", View[lba])
    BY <1>3 DEF PollRead, DiskInv, ReadInStep, Idle, At
  <2>2. View' = View /\ phase' = "rdata" /\ UNCHANGED <<op, lba, buffer, i, drive, cache, medium>>
    BY <1>3, ViewKept DEF PollRead, driveVars
  <2>3. SubSeq(View[lba], 1, 0) = <<>>
    BY SubSeqEmpty
  <2> QED BY <1>1, <2>1, <2>2, <2>3, SectorTypes
          DEF DiskInv, DiskTypeOK, ReadInStep, WriteInStep, Offers
<1>4. CASE TakeWord
  <2>1. /\ op = "read" /\ lba \in Asked /\ buffer = SubSeq(View[lba], 1, i) /\ i < SectorWords
        /\ lba \in Image /\ drive = Offers("read", View[lba]) /\ i \in 0 .. SectorWords
    BY <1>4 DEF TakeWord, DiskInv, DiskTypeOK, ReadInStep
  <2>2. /\ View' = View /\ UNCHANGED <<op, lba, cache, medium>> /\ i' = i + 1
        /\ drive' = IF i + 1 = SectorWords THEN Idle ELSE drive
        /\ phase' = IF i + 1 = SectorWords THEN "idle" ELSE "rdata"
        /\ buffer' = Append(SubSeq(View[lba], 1, i), View[lba][i + 1])
    BY <1>4, <2>1, ViewKept DEF TakeWord, Offers
  <2>3. buffer' = SubSeq(View[lba], 1, i + 1) /\ Len(buffer') = i + 1
    BY <1>1, <2>1, <2>2, WordMore
  <2>4. i + 1 \in 0 .. SectorWords /\ i + 1 <= SectorWords
    BY <2>1, SectorTypes
  <2>5. DiskTypeOK'
    BY <1>1, <2>1, <2>2, <2>3, <2>4, DiskAssumption DEF DiskTypeOK, Idle
  <2>6. CASE i + 1 = SectorWords
    BY <2>2, <2>5, <2>6 DEF DiskInv, ReadInStep, WriteInStep
  <2>7. CASE i + 1 # SectorWords
    <3>1. i + 1 < SectorWords
      BY <2>4, <2>7, SectorTypes
    <3> QED BY <2>1, <2>2, <2>3, <2>5, <2>7, <3>1 DEF DiskInv, ReadInStep, WriteInStep, Offers
  <2> QED BY <2>6, <2>7
<1>5. ASSUME NEW l \in Asked, NEW data \in Contents, WriteSector(l, data) PROVE DiskInv'
  <2>1. drive = Idle /\ Len(data) <= SectorWords
    BY <1>1, <1>5, SectorTypes DEF WriteSector, DiskInv
  <2> QED BY <1>1, <1>5, <2>1, SectorTypes
          DEF WriteSector, driveVars, DiskInv, DiskTypeOK, ReadInStep, WriteInStep
<1>6. CASE IssueWrite
  <2>1. op = "write" /\ lba \in Asked /\ buffer \in Contents /\ drive = Idle /\ i = 0
    BY <1>6 DEF IssueWrite, DiskInv, WriteInStep
  <2>2. Addressed(AddressRegisters(lba)) = lba /\ lba \in Numbers
    BY <2>1, Addresses
  <2>3. drive' = At("write", <<>>)
    BY <1>6, <2>1, <2>2 DEF IssueWrite, Command, Ready, Idle, At
  <2> QED BY <1>1, <1>6, <2>1, <2>2, <2>3, SectorTypes
          DEF IssueWrite, Command, DiskInv, DiskTypeOK, ReadInStep, WriteInStep, At, Numbers
<1>7. CASE PollWrite
  <2>1. /\ op = "write" /\ lba \in Asked /\ buffer \in Contents /\ i = 0
        /\ drive = Offers("write", <<>>)
    BY <1>7 DEF PollWrite, DiskInv, WriteInStep, Idle, At
  <2>2. phase' = "wdata" /\ UNCHANGED <<op, lba, buffer, i, drive, cache, medium>>
    BY <1>7 DEF PollWrite, driveVars
  <2>3. SubSeq(buffer, 1, 0) = <<>>
    BY SubSeqEmpty
  <2>4. DiskTypeOK' /\ 0 < SectorWords
    BY <1>1, <2>1, <2>2, SectorTypes DEF DiskTypeOK
  <2> QED BY <2>1, <2>2, <2>3, <2>4 DEF DiskInv, ReadInStep, WriteInStep, Offers
<1>8. CASE PutWord
  <2>1. /\ op = "write" /\ lba \in Asked /\ buffer \in Contents /\ i < SectorWords
        /\ drive = Offers("write", SubSeq(buffer, 1, i)) /\ i \in 0 .. SectorWords
    BY <1>8 DEF PutWord, DiskInv, DiskTypeOK, WriteInStep
  <2>2. /\ Append(SubSeq(buffer, 1, i), buffer[i + 1]) = SubSeq(buffer, 1, i + 1)
        /\ Len(SubSeq(buffer, 1, i + 1)) = i + 1 /\ SubSeq(buffer, 1, SectorWords) = buffer
    BY <1>1, <2>1, WordMore
  <2>3. /\ UNCHANGED <<op, lba, buffer, cache, medium>> /\ i' = i + 1
        /\ phase' = IF i + 1 = SectorWords THEN "wflush" ELSE "wdata"
    BY <1>8 DEF PutWord
  <2>4. drive' = IF i + 1 = SectorWords THEN At("store", buffer)
                                        ELSE Offers("write", SubSeq(buffer, 1, i + 1))
    <3>1. PICK u, t : u = SubSeq(buffer, 1, i) /\ t = SubSeq(buffer, 1, i + 1)
      OBVIOUS
    <3>2. drive = Offers("write", u) /\ Append(u, buffer[i + 1]) = t /\ Len(t) = i + 1
      BY <2>1, <2>2, <3>1
    <3>3. CASE i + 1 = SectorWords
      <4>1. t = buffer
        BY <2>2, <3>1, <3>3
      <4>2. drive' = At("store", t)
        BY <1>8, <3>2, <3>3 DEF PutWord, Offers, At
      <4> QED BY <3>3, <4>1, <4>2
    <3>4. CASE i + 1 # SectorWords
      <4>1. drive' = Offers("write", t)
        BY <1>8, <3>2, <3>4 DEF PutWord, Offers
      <4> QED BY <3>1, <3>4, <4>1
    <3> QED BY <3>3, <3>4
  <2>5. /\ i + 1 \in 0 .. SectorWords /\ i + 1 <= SectorWords /\ Len(buffer) = SectorWords
        /\ lba \in Numbers
    BY <1>1, <2>1, SectorTypes, Addresses
  <2>6. CASE i + 1 = SectorWords
    <3>1. DiskTypeOK'
      BY <1>1, <2>1, <2>3, <2>4, <2>5, <2>6 DEF DiskTypeOK, At, Numbers
    <3> QED BY <2>1, <2>3, <2>4, <2>6, <3>1 DEF DiskInv, ReadInStep, WriteInStep, At
  <2>7. CASE i + 1 # SectorWords
    <3>1. DiskTypeOK'
      BY <1>1, <2>1, <2>2, <2>3, <2>4, <2>5, <2>7 DEF DiskTypeOK, Offers, Numbers
    <3>2. i + 1 < SectorWords
      BY <2>5, <2>7, SectorTypes
    <3> QED BY <2>1, <2>3, <2>4, <2>7, <3>1, <3>2 DEF DiskInv, ReadInStep, WriteInStep, Offers
  <2> QED BY <2>6, <2>7
<1>9. CASE Flush
  <2>1. /\ op = "write" /\ lba \in Asked /\ buffer \in Contents
        /\ drive \in {Idle, At("store", buffer)}
    BY <1>9 DEF Flush, DiskInv, WriteInStep
  <2>2. Addressed(AddressRegisters(0)) = 0 /\ 0 \in Numbers
    BY Addresses
  <2>3. drive' \in {At("store", buffer), Flushing}
    <3>1. CASE drive = Idle
      BY <1>9, <2>2, <3>1 DEF Flush, Command, Ready, Idle, Flushing
    <3>2. CASE drive = At("store", buffer)
      BY <1>9, <3>2 DEF Flush, Command, Ready, At
    <3> QED BY <2>1, <3>1, <3>2
  <2>4. phase' = "wend" /\ UNCHANGED <<op, lba, buffer, i, cache, medium>>
    BY <1>9 DEF Flush, Command
  <2>5. drive'.lba \in Numbers /\ Len(drive'.sector) <= SectorWords
    <3>1. lba \in Numbers /\ Len(buffer) = SectorWords
      BY <1>1, <2>1, SectorTypes, Addresses
    <3> QED BY <2>2, <2>3, <3>1, SectorTypes DEF At, Flushing
  <2>6. DiskTypeOK'
    BY <1>1, <2>4, <2>5 DEF DiskTypeOK, Numbers
  <2> QED BY <2>1, <2>3, <2>4, <2>6 DEF DiskInv, ReadInStep, WriteInStep, At
<1>10. CASE WaitEnd
  <2>1. drive = Idle
    BY <1>10 DEF WaitEnd, DiskInv, WriteInStep, At, Flushing
  <2> QED BY <1>1, <1>10, <2>1 DEF WaitEnd, driveVars, DiskInv, DiskTypeOK, ReadInStep, WriteInStep
<1> QED BY <1>2, <1>3, <1>4, <1>5, <1>6, <1>7, <1>8, <1>9, <1>10 DEF Host

(* Where a busy drive is in its command, the call is too.                  *)
LEMMA BusyWith ==
  ASSUME DiskInv, drive.bsy
  PROVE  \/ phase = "rpoll" /\ drive = At("read", <<>>)
         \/ phase = "wpoll" /\ drive = At("write", <<>>)
         \/ phase \in {"wflush", "wend"} /\ drive = At("store", buffer)
         \/ phase = "wend" /\ drive = Flushing
BY DEF DiskInv, DiskTypeOK, ReadInStep, WriteInStep, Idle, Offers

LEMMA DriveKeeps ==
  ASSUME DiskInv, Drive
  PROVE  DiskInv'
<1>1. DiskTypeOK /\ View \in [Image -> Sector] /\ Contents \subseteq Sector
  BY ViewType DEF DiskInv, Sector
<1>2. UNCHANGED <<phase, op, lba, buffer, i>>
  BY DEF Drive, FetchSector, AskForData, StoreSector, Refuse, EmptyCache, hostVars
<1>3. lba \in Numbers /\ Idle.lba \in Numbers /\ Len(Idle.sector) <= SectorWords
  BY <1>1, Addresses, SectorTypes DEF DiskTypeOK, Idle
<1>4. CASE FetchSector
  <2>1. phase = "rpoll" /\ drive = At("read", <<>>) /\ lba \in Image
    BY <1>4, BusyWith DEF FetchSector, At, Flushing
  <2>2. View' = View /\ drive' = Offers("read", View[lba]) /\ UNCHANGED <<cache, medium>>
    BY <1>4, <2>1, ViewKept DEF FetchSector, At, Offers
  <2>3. DiskTypeOK'
    BY <1>1, <1>2, <1>3, <2>1, <2>2, SectorTypes DEF DiskTypeOK, Offers, Numbers
  <2> QED BY <1>2, <2>1, <2>2, <2>3 DEF DiskInv, ReadInStep, WriteInStep, Offers
<1>5. CASE AskForData
  <2>1. phase = "wpoll" /\ drive = At("write", <<>>)
    BY <1>5, BusyWith DEF AskForData, At, Flushing
  <2>2. drive' = Offers("write", <<>>) /\ UNCHANGED <<cache, medium>>
    BY <1>5, <2>1 DEF AskForData, At, Offers
  <2>3. DiskTypeOK'
    BY <1>1, <1>2, <1>3, <2>1, <2>2, SectorTypes DEF DiskTypeOK, Offers, Numbers
  <2> QED BY <1>2, <2>1, <2>2, <2>3 DEF DiskInv, ReadInStep, WriteInStep, Offers
<1>6. CASE StoreSector
  <2>1. phase \in {"wflush", "wend"} /\ drive = At("store", buffer) /\ buffer \in Contents
    BY <1>6, BusyWith DEF StoreSector, At, Flushing, DiskInv, WriteInStep
  <2>2. drive' = Idle /\ medium' = medium /\ cache' = [cache EXCEPT ![lba] = buffer]
    BY <1>6, <2>1 DEF StoreSector, At
  <2>3. DiskTypeOK'
    BY <1>1, <1>2, <1>3, <2>1, <2>2 DEF DiskTypeOK, Numbers
  <2> QED BY <1>2, <2>1, <2>2, <2>3 DEF DiskInv, ReadInStep, WriteInStep
<1>7. CASE Refuse
  <2>1. phase \in {"rpoll", "wpoll", "wflush", "wend"}
    BY <1>7, BusyWith DEF Refuse
  <2>2. drive' = Idle /\ UNCHANGED <<cache, medium>>
    BY <1>7 DEF Refuse
  <2>3. DiskTypeOK'
    BY <1>1, <1>2, <1>3, <2>2 DEF DiskTypeOK, Numbers
  <2> QED BY <1>2, <2>1, <2>2, <2>3 DEF DiskInv, ReadInStep, WriteInStep
<1>8. CASE EmptyCache
  <2>1. phase = "wend"
    BY <1>8, BusyWith DEF EmptyCache, At
  <2>2. drive' = Idle /\ medium' = View /\ cache' = [l \in Image |-> None]
    BY <1>8 DEF EmptyCache
  <2>3. DiskTypeOK'
    BY <1>1, <1>2, <1>3, <2>2 DEF DiskTypeOK, Numbers
  <2> QED BY <1>2, <2>1, <2>2, <2>3 DEF DiskInv, ReadInStep, WriteInStep
<1> QED BY <1>4, <1>5, <1>6, <1>7, <1>8 DEF Drive

LEMMA WrittenBackSame ==
  ASSUME DiskTypeOK, NEW l \in Image, WriteBack(l)
  PROVE  View' = View /\ medium' = [medium EXCEPT ![l] = View[l]]
<1>1. /\ medium' = [medium EXCEPT ![l] = cache[l]] /\ cache' = [cache EXCEPT ![l] = None]
      /\ cache[l] # None
  BY DEF WriteBack
<1>2. ASSUME NEW k \in Image
      PROVE  (IF cache'[k] = None THEN medium'[k] ELSE cache'[k])
               = IF cache[k] = None THEN medium[k] ELSE cache[k]
  BY <1>1 DEF DiskTypeOK
<1>3. View' = View
  BY <1>2 DEF View
<1>4. View[l] = cache[l]
  BY <1>1 DEF View
<1> QED BY <1>1, <1>3, <1>4

LEMMA RestKeeps ==
  ASSUME DiskInv, PowerCut \/ (\E l \in Image : WriteBack(l)) \/ UNCHANGED diskVars
  PROVE  DiskInv'
<1>1. DiskTypeOK /\ 0 \in Numbers /\ SectorWords \in Nat
  BY Addresses, SectorTypes DEF DiskInv
<1>2. CASE PowerCut
  BY <1>1, <1>2 DEF PowerCut, DiskInv, DiskTypeOK, ReadInStep, WriteInStep, Idle, Numbers
<1>3. ASSUME NEW l \in Image, WriteBack(l) PROVE DiskInv'
  <2>1. View' = View /\ UNCHANGED <<phase, op, lba, buffer, i, drive>>
    BY <1>1, <1>3, WrittenBackSame DEF WriteBack, hostVars
  <2>2. DiskTypeOK'
    BY <1>1, <1>3, <2>1 DEF DiskTypeOK, WriteBack
  <2> QED BY <2>1, <2>2 DEF DiskInv, ReadInStep, WriteInStep, At, Offers
<1>4. CASE UNCHANGED diskVars
  <2>1. View' = View /\ UNCHANGED <<phase, op, lba, buffer, i, drive, cache, medium>>
    BY <1>4, ViewKept DEF diskVars, hostVars, driveVars
  <2> QED BY <2>1 DEF DiskInv, DiskTypeOK, ReadInStep, WriteInStep, At, Offers
<1> QED BY <1>2, <1>3, <1>4

LEMMA DiskInvStep == ASSUME DiskInv, [DiskNext]_diskVars PROVE DiskInv'
BY HostKeeps, DriveKeeps, RestKeeps DEF DiskNext

(* Every state has the types of the driver and of the drive beside it.     *)
THEOREM DiskTypesAlways == DiskSpec => []DiskTypeOK
<1>1. DiskInv => DiskTypeOK
  BY DEF DiskInv
<1> QED BY DiskInvInit, DiskInvStep, <1>1, PTL DEF DiskSpec


-----------------------------------------------------------------------------
(* The driver implements SectorStore: a read takes effect with its last    *)
(* word, a write when the drive stores the sector, and what the drive      *)
(* writes back on its own only makes a sector safe.                        *)

LEMMA CallKnown ==
  ASSUME DiskInv, phase # "idle"
  PROVE  /\ CallNow # None /\ LastReply = None
         /\ CallNow = [op |-> op, lba |-> lba, data |-> IF op = "read" THEN None ELSE buffer,
                       done |-> Done]
<1>1. lba \in Asked /\ op \in {"read", "write"} /\ (op = "write" => buffer \in Contents)
  BY DEF DiskInv, DiskTypeOK, ReadInStep, WriteInStep
<1>2. CallNow = [op |-> op, lba |-> lba, data |-> IF op = "read" THEN None ELSE buffer,
                 done |-> Done]
  BY DEF CallNow
<1>3. Done \in BOOLEAN
  BY DEF Done
<1>4. CallNow \in Store!Calls
  BY <1>1, <1>2, <1>3 DEF Store!Calls
<1> QED BY <1>2, <1>4, NoneAssumption DEF LastReply

(* A step of the call or of the drive that neither moves a sector nor      *)
(* begins, ends or completes a call.                                       *)
LEMMA StepHidden ==
  ASSUME UNCHANGED <<op, lba, buffer, cache, medium>>, phase # "idle", phase' # "idle",
         Done' = Done
  PROVE  UNCHANGED Store!vars
<1>1. View' = View
  BY ViewKept
<1>2. CallNow' = CallNow /\ LastReply' = LastReply
  BY DEF CallNow, LastReply
<1> QED BY <1>1, <1>2 DEF Store!vars

LEMMA BeginMaps ==
  ASSUME NEW l \in Asked, ReadSector(l) \/ \E data \in Contents : WriteSector(l, data)
  PROVE  Store!Next
<1>1. phase = "idle" /\ CallNow = None
  BY DEF ReadSector, WriteSector, CallNow
<1>2. UNCHANGED <<cache, medium>> /\ View' = View
  <2>1. UNCHANGED <<cache, medium>>
    BY DEF ReadSector, WriteSector, Command, driveVars
  <2> QED BY <2>1, ViewKept
<1>3. CASE ReadSector(l)
  <2>1. /\ CallNow' = [op |-> "read", lba |-> l, data |-> None, done |-> FALSE]
        /\ LastReply' = None
    BY <1>3 DEF ReadSector, CallNow, LastReply, Done
  <2>2. Store!Begin("read", l, None)
    BY <1>1, <1>2, <2>1 DEF Store!Begin
  <2> QED BY <2>2 DEF Store!Next
<1>4. ASSUME NEW data \in Contents, WriteSector(l, data) PROVE Store!Next
  <2>1. /\ CallNow' = [op |-> "write", lba |-> l, data |-> data, done |-> FALSE]
        /\ LastReply' = None
    BY <1>4 DEF WriteSector, CallNow, LastReply, Done
  <2>2. Store!Begin("write", l, data)
    BY <1>1, <1>2, <2>1 DEF Store!Begin
  <2> QED BY <2>2 DEF Store!Next
<1> QED BY <1>3, <1>4

LEMMA HostMaps ==
  ASSUME DiskInv, Host
  PROVE  Store!Next \/ UNCHANGED Store!vars
<1>1. DiskTypeOK /\ View \in [Image -> Sector]
  BY ViewType DEF DiskInv
<1>2. phase # "idle" /\ UNCHANGED <<op, lba, cache, medium>> /\ View' = View
  <2>1. phase # "idle" /\ UNCHANGED <<op, lba, cache, medium>>
    BY DEF Host, PollRead, TakeWord, IssueWrite, PollWrite, PutWord, Flush, WaitEnd, Command,
           driveVars
  <2> QED BY <2>1, ViewKept
<1>3. CASE PollRead \/ IssueWrite \/ PollWrite
  <2>1. UNCHANGED buffer /\ phase' # "idle" /\ Done' = Done
    BY <1>3 DEF PollRead, IssueWrite, PollWrite, Done
  <2> QED BY <1>2, <2>1, StepHidden
<1>4. CASE TakeWord
  <2>1. /\ op = "read" /\ lba \in Image /\ drive = Offers("read", View[lba])
        /\ buffer = SubSeq(View[lba], 1, i) /\ i < SectorWords /\ i \in 0 .. SectorWords
    BY <1>4 DEF TakeWord, DiskInv, DiskTypeOK, ReadInStep
  <2>2. CASE i + 1 # SectorWords
    <3>1. phase = "rdata" /\ phase' = "rdata"
      BY <1>4, <2>2 DEF TakeWord
    <3>2. CallNow' = CallNow /\ LastReply' = LastReply
      BY <1>2, <2>1, <3>1 DEF CallNow, LastReply, Done
    <3> QED BY <1>2, <3>2 DEF Store!vars
  <2>3. CASE i + 1 = SectorWords
    <3>1. phase' = "idle" /\ buffer' = Append(SubSeq(View[lba], 1, i), View[lba][i + 1])
      BY <1>4, <2>1, <2>3 DEF TakeWord, Offers
    <3>2. buffer' = View[lba]
      BY <1>1, <2>1, <2>3, <3>1, WordMore
    <3>3. CallNow' = None /\ LastReply' = View[lba]
      BY <1>2, <2>1, <3>1, <3>2 DEF CallNow, LastReply
    <3>4. CallNow # None /\ CallNow.op = "read" /\ CallNow.lba = lba
      BY <1>2, <2>1, CallKnown
    <3>5. Store!End
      BY <1>2, <2>1, <3>3, <3>4 DEF Store!End
    <3> QED BY <3>5 DEF Store!Next
  <2> QED BY <2>2, <2>3
<1>5. CASE PutWord
  <2>1. drive = Offers("write", SubSeq(buffer, 1, i)) /\ phase = "wdata"
    BY <1>5 DEF PutWord, DiskInv, WriteInStep
  <2>2. UNCHANGED buffer /\ phase' \in {"wdata", "wflush"}
    BY <1>5 DEF PutWord
  <2>3. phase' = "wflush" => drive'.cmd = "store"
    <3>1. /\ op = "write" /\ lba \in Asked /\ buffer \in Contents /\ i < SectorWords
          /\ i \in 0 .. SectorWords
      BY <2>1 DEF DiskInv, DiskTypeOK, WriteInStep
    <3>2. buffer \in Sector
      BY <3>1 DEF Sector
    <3>3. PICK u, t : u = SubSeq(buffer, 1, i) /\ t = SubSeq(buffer, 1, i + 1)
      OBVIOUS
    <3>4. drive = Offers("write", u) /\ Append(u, buffer[i + 1]) = t /\ Len(t) = i + 1
      BY <2>1, <3>1, <3>2, <3>3, WordMore
    <3> QED BY <1>5, <3>4 DEF PutWord, Offers
  <2>4. Done' = Done
    BY <2>1, <2>2, <2>3 DEF Done
  <2> QED BY <1>2, <2>2, <2>4, StepHidden
<1>6. CASE Flush
  <2>1. drive \in {Idle, At("store", buffer)} /\ phase = "wflush"
    BY <1>6 DEF Flush, DiskInv, WriteInStep
  <2>2. UNCHANGED buffer /\ phase' = "wend"
    BY <1>6 DEF Flush
  <2>3. (drive'.cmd # "store") = (drive.cmd # "store")
    BY <1>6, <2>1 DEF Flush, Command, Ready, Idle, At
  <2>4. Done' = Done
    BY <2>1, <2>2, <2>3 DEF Done
  <2> QED BY <1>2, <2>2, <2>4, StepHidden
<1>7. CASE WaitEnd
  <2>1. op = "write" /\ drive = Idle /\ phase = "wend" /\ phase' = "idle"
    BY <1>7 DEF WaitEnd, DiskInv, WriteInStep, At, Flushing
  <2>2. CallNow # None /\ CallNow.op = "write" /\ CallNow.done /\ LastReply = None
    <3>1. Done
      BY <2>1 DEF Done, Idle
    <3> QED BY <1>2, <2>1, <3>1, CallKnown
  <2>3. CallNow' = None /\ LastReply' = None
    BY <1>2, <2>1 DEF CallNow, LastReply
  <2>4. Store!End
    BY <1>2, <2>2, <2>3 DEF Store!End
  <2> QED BY <2>4 DEF Store!Next
<1> QED BY <1>3, <1>4, <1>5, <1>6, <1>7 DEF Host

LEMMA DriveMaps ==
  ASSUME DiskInv, Drive
  PROVE  Store!Next \/ UNCHANGED Store!vars
<1>1. DiskTypeOK /\ View \in [Image -> Sector]
  BY ViewType DEF DiskInv
<1>2. UNCHANGED <<phase, op, lba, buffer, i>>
  BY DEF Drive, FetchSector, AskForData, StoreSector, Refuse, EmptyCache, hostVars
<1>3. drive.bsy /\ phase # "idle"
  BY BusyWith DEF Drive, FetchSector, AskForData, StoreSector, Refuse, EmptyCache
<1>4. CASE FetchSector \/ AskForData
  <2>1. phase \in {"rpoll", "wpoll"} /\ UNCHANGED <<cache, medium>>
    BY <1>3, <1>4, BusyWith DEF FetchSector, AskForData, At, Flushing
  <2>2. Done' = Done
    BY <1>2, <2>1 DEF Done
  <2> QED BY <1>2, <1>3, <2>1, <2>2, StepHidden
<1>5. CASE Refuse /\ drive.cmd # "store"
  <2>1. phase \in {"rpoll", "wpoll"} /\ UNCHANGED <<cache, medium>>
    BY <1>3, <1>5, BusyWith DEF Refuse, At, Flushing
  <2>2. Done' = Done
    BY <1>2, <2>1 DEF Done
  <2> QED BY <1>2, <1>3, <2>1, <2>2, StepHidden
<1>6. CASE drive.cmd = "store" /\ (StoreSector \/ Refuse)
  <2>1. phase \in {"wflush", "wend"} /\ drive = At("store", buffer)
    BY <1>3, <1>6, BusyWith DEF At, Flushing
  <2>2. op = "write" /\ drive' = Idle /\ medium' = medium
    BY <1>6, <2>1 DEF StoreSector, Refuse, DiskInv, WriteInStep
  <2>3. /\ CallNow = [op |-> "write", lba |-> lba, data |-> buffer, done |-> FALSE]
        /\ CallNow # None /\ LastReply = None
    BY <1>3, <2>1, <2>2, CallKnown DEF Done, At
  <2>4. /\ CallNow' = [op |-> "write", lba |-> lba, data |-> buffer, done |-> TRUE]
        /\ LastReply' = None
    BY <1>2, <2>1, <2>2 DEF CallNow, LastReply, Done, Idle
  <2>5. View' = [l \in Image |-> IF l = lba THEN buffer ELSE View[l]]
    <3>1. CASE StoreSector
      <4>1. cache' = [cache EXCEPT ![lba] = buffer] /\ buffer # None
        <5>1. buffer \in Contents
          BY <2>1 DEF DiskInv, WriteInStep
        <5> QED BY <2>1, <3>1, <5>1, DiskAssumption DEF StoreSector, At
      <4>2. ASSUME NEW l \in Image
            PROVE  (IF cache'[l] = None THEN medium'[l] ELSE cache'[l])
                     = IF l = lba THEN buffer ELSE View[l]
        BY <1>1, <2>2, <4>1 DEF DiskTypeOK, View
      <4> QED BY <4>2 DEF View
    <3>2. CASE Refuse
      <4>1. lba \notin Image /\ UNCHANGED <<cache, medium>>
        BY <2>1, <3>2 DEF Refuse, At
      <4> QED BY <1>1, <4>1, ViewKept
    <3> QED BY <1>6, <3>1, <3>2
  <2>6. Store!Put
    <3>1. PICK c : c = [op |-> "write", lba |-> lba, data |-> buffer, done |-> FALSE]
      OBVIOUS
    <3>2. PICK d : d = [c EXCEPT !.done = TRUE]
      OBVIOUS
    <3>3. d = [op |-> "write", lba |-> lba, data |-> buffer, done |-> TRUE]
      BY <3>1, <3>2
    <3>4. c.op = "write" /\ ~c.done /\ c.lba = lba /\ c.data = buffer
      BY <3>1
    <3>5. CallNow = c /\ CallNow' = d /\ CallNow # None /\ UNCHANGED <<medium, LastReply>>
      BY <2>2, <2>3, <2>4, <3>1, <3>3
    <3> QED BY <2>5, <3>2, <3>4, <3>5 DEF Store!Put
  <2> QED BY <2>6 DEF Store!Next
<1>7. CASE EmptyCache
  <2>1. phase = "wend" /\ drive.cmd = "flush"
    BY <1>3, <1>7, BusyWith DEF EmptyCache, At
  <2>2. drive' = Idle /\ medium' = View /\ cache' = [l \in Image |-> None]
    BY <1>7 DEF EmptyCache
  <2>3. View' = View
    BY <1>1, <2>2 DEF View
  <2>4. Done' = Done
    BY <1>2, <2>1, <2>2 DEF Done, Idle
  <2>5. CallNow' = CallNow /\ LastReply' = LastReply
    BY <1>2, <2>4 DEF CallNow, LastReply
  <2>6. Store!Secure(Image)
    BY <1>1, <2>2, <2>3, <2>5 DEF Store!Secure
  <2> QED BY <2>6 DEF Store!Next
<1>8. StoreSector => drive.cmd = "store"
  BY DEF StoreSector
<1> QED BY <1>4, <1>5, <1>6, <1>7, <1>8 DEF Drive

LEMMA RestMaps ==
  ASSUME DiskInv, PowerCut \/ (\E l \in Image : WriteBack(l)) \/ UNCHANGED diskVars
  PROVE  Store!Next \/ UNCHANGED Store!vars
<1>1. DiskTypeOK
  BY DEF DiskInv
<1>2. CASE PowerCut
  <2>1. phase' = "idle" /\ op' = "write" /\ cache' = [l \in Image |-> None] /\ medium' = medium
    BY <1>2 DEF PowerCut
  <2>2. View' = medium
    BY <1>1, <2>1 DEF View, DiskTypeOK
  <2>3. CallNow' = None /\ LastReply' = None
    BY <2>1 DEF CallNow, LastReply
  <2>4. Store!PowerCut
    BY <2>1, <2>2, <2>3 DEF Store!PowerCut
  <2> QED BY <2>4 DEF Store!Next
<1>3. ASSUME NEW l \in Image, WriteBack(l) PROVE Store!Next
  <2>1. /\ View' = View /\ medium' = [medium EXCEPT ![l] = View[l]]
        /\ UNCHANGED <<phase, op, lba, buffer, drive>>
    BY <1>1, <1>3, WrittenBackSame DEF WriteBack, hostVars
  <2>2. CallNow' = CallNow /\ LastReply' = LastReply
    BY <2>1 DEF CallNow, LastReply, Done
  <2>3. medium' = [k \in Image |-> IF k \in {l} THEN View[k] ELSE medium[k]]
    BY <1>1, <2>1 DEF DiskTypeOK
  <2>4. Store!Secure({l})
    BY <2>1, <2>2, <2>3 DEF Store!Secure
  <2> QED BY <2>4 DEF Store!Next
<1>4. CASE UNCHANGED diskVars
  <2>1. View' = View /\ UNCHANGED <<phase, op, lba, buffer, drive, medium>>
    BY <1>4, ViewKept DEF diskVars, hostVars, driveVars
  <2>2. CallNow' = CallNow /\ LastReply' = LastReply
    BY <2>1 DEF CallNow, LastReply, Done
  <2> QED BY <2>1, <2>2 DEF Store!vars
<1> QED BY <1>2, <1>3, <1>4

(* The sectors of the driver are read and written whole, each at one       *)
(* moment of its call and those the call was made for, and a cut of power  *)
(* in the middle of a transfer leaves no sector in part.                   *)
THEOREM SectorsAlwaysWhole == DiskSpec => SectorsWhole
<1>1. DiskInit => Store!Init
  <2> SUFFICES ASSUME DiskInit PROVE Store!Init
    OBVIOUS
  <2>1. View = [l \in Image |-> Zeros] /\ medium = View
    BY DEF DiskInit, View
  <2>2. CallNow = None /\ LastReply = None
    BY DEF DiskInit, CallNow, LastReply
  <2> QED BY <2>1, <2>2 DEF Store!Init
<1>2. ASSUME DiskInv, [DiskNext]_diskVars PROVE [Store!Next]_(Store!vars)
  BY <1>2, BeginMaps, HostMaps, DriveMaps, RestMaps DEF DiskNext
<1> QED BY DiskInvInit, DiskInvStep, <1>1, <1>2, PTL DEF DiskSpec, SectorsWhole, Store!Spec

-----------------------------------------------------------------------------
(* The pointer.  Squares and their pixels.                                 *)
Colours == {Black, White, Green} \cup Inks
Screens == [Pixels -> Colours]

LEMMA Bounds ==
  /\ Width \in Nat /\ Height \in Nat /\ Size \in Nat /\ 1 <= Size /\ Line \in Nat /\ 1 <= Line
  /\ Byte \in Nat \ {0} /\ MaxDraws \in Nat
  /\ \A o \in Outline \cup Inside : o \in Offsets
  /\ StartAt \in Pixels /\ Square(StartAt) \subseteq Pixels
  /\ \A m \in Movements : m[1] \in Int /\ m[2] \in Int /\ -Byte <= m[1] /\ m[1] < Byte
                          /\ -Byte <= m[2] /\ m[2] < Byte
<1>1. /\ Width \in Nat \ {0} /\ Height \in Nat \ {0} /\ Size \in Nat \ {0} /\ Line \in Nat \ {0}
      /\ Byte \in Nat \ {0}
  BY PointerAssumption
<1>2. ASSUME NEW m \in Movements
      PROVE  m[1] \in Int /\ m[2] \in Int /\ -Byte <= m[1] /\ m[1] < Byte
             /\ -Byte <= m[2] /\ m[2] < Byte
  <2>1. m[1] \in -Byte .. Byte - 1 /\ m[2] \in -Byte .. Byte - 1
    BY PointerAssumption
  <2> QED BY <1>1, <2>1
<1>3. /\ MaxDraws \in Nat /\ Outline \cup Inside \subseteq Offsets
      /\ StartAt \in Pixels /\ Square(StartAt) \subseteq Pixels
  BY PointerAssumption
<1> QED BY <1>1, <1>2, <1>3

LEMMA SquareIs ==
  ASSUME NEW x \in Int, NEW y \in Int, NEW u \in Int, NEW v \in Int
  PROVE  <<u, v>> \in Square(<<x, y>>) <=> <<u - x, v - y>> \in Offsets
<1>1. ASSUME <<u, v>> \in Square(<<x, y>>) PROVE <<u - x, v - y>> \in Offsets
  <2>1. PICK a \in 0 .. Size - 1, b \in 0 .. Size - 1 : <<u, v>> = <<x + a, y + b>>
    BY <1>1 DEF Square, Spot, Offsets
  <2>2. u - x = a /\ v - y = b
    BY <2>1, Bounds
  <2> QED BY <2>1, <2>2 DEF Offsets
<1>2. ASSUME <<u - x, v - y>> \in Offsets PROVE <<u, v>> \in Square(<<x, y>>)
  <2>1. Spot(<<x, y>>, <<u - x, v - y>>) = <<u, v>>
    BY DEF Spot
  <2> QED BY <1>2, <2>1 DEF Square
<1> QED BY <1>1, <1>2

(* The square of the pointer is on the screen wherever Clamp has put it.   *)
LEMMA SquareOnScreen ==
  ASSUME NEW x \in 0 .. Width - Size, NEW y \in 0 .. Height - Size
  PROVE  Square(<<x, y>>) \subseteq Pixels /\ <<x, y>> \in Pixels
<1>1. ASSUME NEW o \in Offsets PROVE Spot(<<x, y>>, o) \in Pixels
  <2>1. PICK a \in 0 .. Size - 1, b \in 0 .. Size - 1 : o = <<a, b>>
    BY DEF Offsets
  <2>2. x + a \in 0 .. Width - 1 /\ y + b \in 0 .. Height - 1
    BY Bounds
  <2>3. Spot(<<x, y>>, o) = <<x + a, y + b>>
    BY <2>1 DEF Spot
  <2> QED BY <2>2, <2>3 DEF Pixels
<1> QED BY <1>1, Bounds DEF Square, Pixels

(* How large a screen must be for the pointer to start in it.              *)
LEMMA RoomForPointer ==
  ASSUME NEW x \in Nat, NEW y \in Nat, Square(<<x, y>>) \subseteq Pixels
  PROVE  Size <= Width /\ Size <= Height
<1>1. <<Size - 1, Size - 1>> \in Offsets
  BY Bounds DEF Offsets
<1>2. <<x + (Size - 1), y + (Size - 1)>> \in Square(<<x, y>>)
  BY <1>1 DEF Square, Spot
<1> QED BY <1>2, Bounds DEF Pixels

(* What restore, save and draw do with a screen.                           *)
LEMMA RestoredOutside ==
  ASSUME NEW s \in Screens, NEW b \in [Offsets -> Colours], NEW x \in Nat, NEW y \in Nat,
         NEW p \in Pixels, p \notin Square(<<x, y>>)
  PROVE  restore_background(s, b, <<x, y>>)[p] = s[p]
<1>1. PICK n : n = [q \in Square(<<x, y>>) |-> b[<<q[1] - x, q[2] - y>>]]
  OBVIOUS
<1>2. restore_background(s, b, <<x, y>>)
        = [q \in Pixels |-> IF q \in Square(<<x, y>>) THEN n[q] ELSE s[q]]
  BY <1>1 DEF restore_background, PutPixels
<1> QED BY <1>2

LEMMA RestoredInside ==
  ASSUME NEW s \in Screens, NEW b \in [Offsets -> Colours], NEW x \in Nat, NEW y \in Nat,
         NEW p \in Pixels, p \in Square(<<x, y>>)
  PROVE  /\ restore_background(s, b, <<x, y>>)[p] = b[<<p[1] - x, p[2] - y>>]
         /\ <<p[1] - x, p[2] - y>> \in Offsets
<1>1. PICK n : n = [q \in Square(<<x, y>>) |-> b[<<q[1] - x, q[2] - y>>]]
  OBVIOUS
<1>2. restore_background(s, b, <<x, y>>)
        = [q \in Pixels |-> IF q \in Square(<<x, y>>) THEN n[q] ELSE s[q]]
  BY <1>1 DEF restore_background, PutPixels
<1>3. PICK u \in Int, v \in Int : p = <<u, v>>
  BY Bounds DEF Pixels
<1>4. <<u - x, v - y>> \in Offsets
  BY <1>3, SquareIs
<1>5. n[p] = b[<<p[1] - x, p[2] - y>>]
  BY <1>1
<1> QED BY <1>2, <1>3, <1>4, <1>5

LEMMA Restored ==
  ASSUME NEW s \in Screens, NEW b \in [Offsets -> Colours], NEW x \in Nat, NEW y \in Nat
  PROVE  restore_background(s, b, <<x, y>>) \in Screens
<1>1. PICK f : f = restore_background(s, b, <<x, y>>)
  OBVIOUS
<1>2. f = [p \in Pixels |-> f[p]]
  BY <1>1 DEF restore_background, PutPixels
<1>3. ASSUME NEW p \in Pixels PROVE f[p] \in Colours
  <2>1. CASE p \in Square(<<x, y>>)
    <3>1. f[p] = b[<<p[1] - x, p[2] - y>>] /\ <<p[1] - x, p[2] - y>> \in Offsets
      BY <1>1, <2>1, RestoredInside
    <3> QED BY <3>1
  <2>2. CASE p \notin Square(<<x, y>>)
    <3>1. f[p] = s[p]
      BY <1>1, <2>2, RestoredOutside
    <3> QED BY <3>1 DEF Screens
  <2> QED BY <2>1, <2>2
<1>4. f \in Screens
  BY <1>2, <1>3 DEF Screens
<1> QED BY <1>1, <1>4

LEMMA Saved ==
  ASSUME NEW s \in Screens, NEW x \in Nat, NEW y \in Nat, Square(<<x, y>>) \subseteq Pixels
  PROVE  /\ save_background(s, <<x, y>>) \in [Offsets -> Colours]
         /\ \A u \in Int, v \in Int :
              <<u, v>> \in Square(<<x, y>>) =>
                save_background(s, <<x, y>>)[<<u - x, v - y>>] = s[<<u, v>>]
<1>1. ASSUME NEW o \in Offsets PROVE Spot(<<x, y>>, o) \in Pixels
  BY DEF Square
<1>2. save_background(s, <<x, y>>) = [o \in Offsets |-> s[Spot(<<x, y>>, o)]]
  BY <1>1 DEF save_background, get_pixel
<1>3. save_background(s, <<x, y>>) \in [Offsets -> Colours]
  BY <1>1, <1>2 DEF Screens
<1>4. ASSUME NEW u \in Int, NEW v \in Int, <<u, v>> \in Square(<<x, y>>)
      PROVE  save_background(s, <<x, y>>)[<<u - x, v - y>>] = s[<<u, v>>]
  <2>1. <<u - x, v - y>> \in Offsets
    BY <1>4, SquareIs
  <2>2. Spot(<<x, y>>, <<u - x, v - y>>) = <<u, v>>
    BY DEF Spot
  <2> QED BY <1>2, <2>1, <2>2
<1> QED BY <1>3, <1>4

LEMMA Drawn ==
  ASSUME NEW s \in Screens, NEW x \in Nat, NEW y \in Nat, NEW c \in {White, Green}
  PROVE  LET d == draw_mouse_pointer(s, <<x, y>>, c)
         IN  d \in Screens /\ \A p \in Pixels : p \notin Square(<<x, y>>) => d[p] = s[p]
<1>1. PICK D : D = {Spot(<<x, y>>, o) : o \in Outline \cup Inside}
  OBVIOUS
<1>2. D \subseteq Square(<<x, y>>)
  BY <1>1, Bounds DEF Square
<1>3. PICK n : n = [q \in D |-> IF <<q[1] - x, q[2] - y>> \in Outline THEN Black ELSE c]
  OBVIOUS
<1>4. draw_mouse_pointer(s, <<x, y>>, c) = [p \in Pixels |-> IF p \in D THEN n[p] ELSE s[p]]
  BY <1>1, <1>3 DEF draw_mouse_pointer, PutPixels
<1>5. \A q \in D : n[q] \in Colours
  BY <1>3 DEF Colours
<1> QED BY <1>2, <1>4, <1>5 DEF Screens
-----------------------------------------------------------------------------
(* A movement: the low byte, with its sign and that of the packet.         *)
LEMMA LowByte ==
  ASSUME NEW w \in Nat \ {0}, NEW x \in Int, -w <= x, x < w
  PROVE  /\ 0 <= x => x % w = x
         /\ x < 0 => x % w = x + w
<1>1. w \in Nat /\ w > 0 /\ x % w \in Nat /\ x % w < w /\ x \div w \in Int
      /\ x = w * (x \div w) + (x % w)
  OBVIOUS
<1>2. PICK d \in Int, r \in Nat : d = x \div w /\ r = x % w /\ r < w /\ x = w * d + r
  BY <1>1
<1>3. d >= 1 => w * d >= w
  <2>1. d >= 1 => \E e \in Nat : d = 1 + e
    <3>1. d >= 1 => d - 1 \in Nat /\ d = 1 + (d - 1)
      OBVIOUS
    <3> QED BY <3>1
  <2>2. ASSUME NEW e \in Nat PROVE w * (1 + e) = w + w * e /\ w * e >= 0
    OBVIOUS
  <2> QED BY <2>1, <2>2
<1>4. d <= -2 => w * d <= -2 * w
  <2>1. d <= -2 => \E e \in Nat : d = -2 - e
    <3>1. d <= -2 => -2 - d \in Nat /\ d = -2 - (-2 - d)
      OBVIOUS
    <3> QED BY <3>1
  <2>2. ASSUME NEW e \in Nat PROVE w * (-2 - e) = -2 * w - w * e /\ w * e >= 0
    OBVIOUS
  <2> QED BY <2>1, <2>2
<1>5. d \in {-1, 0} \/ d >= 1 \/ d <= -2
  OBVIOUS
<1>6. w * (-1) = -w /\ w * 0 = 0
  OBVIOUS
<1>7. d \in {-1, 0}
  BY <1>1, <1>2, <1>3, <1>4, <1>5
<1> QED BY <1>1, <1>2, <1>6, <1>7

LEMMA DeltaIs ==
  ASSUME NEW x \in Int, -Byte <= x, x < Byte
  PROVE  Delta(x) \in Int /\ (x < Byte \div 2 => Delta(x) = x)
<1>1. PICK w \in Nat \ {0}, h \in Nat : w = Byte /\ h = Byte \div 2 /\ w = 2 * h
  <2>1. Byte % 2 = 0
    BY PointerAssumption
  <2>2. Byte \in Nat \ {0}
    BY Bounds
  <2> QED BY <2>1, <2>2
<1>2. PICK b \in Nat : b = x % Byte /\ (0 <= x => b = x) /\ (x < 0 => b = x + w)
  <2>1. (0 <= x => x % w = x) /\ (x < 0 => x % w = x + w)
    BY <1>1, LowByte
  <2>2. x % w \in Nat
    BY <1>1
  <2> QED BY <1>1, <2>1, <2>2
<1>3. PICK c \in Int : c = IF b >= h THEN b - w ELSE b
  <2>1. (IF b >= h THEN b - w ELSE b) \in Int
    BY <1>1
  <2> QED BY <2>1
<1>4. Delta(x) = IF x < 0 /\ c >= 0 THEN c - w ELSE c
  BY <1>1, <1>2, <1>3 DEF Delta
<1> QED BY <1>1, <1>2, <1>3, <1>4

LEMMA ClampIs ==
  ASSUME NEW v \in Int, NEW max \in Nat
  PROVE  Clamp(v, max) \in 0 .. max /\ GoesTo(Clamp(v, max), v, max)
BY DEF Clamp, GoesTo

-----------------------------------------------------------------------------
(* The invariant.                                                          *)
PointerAt ==
  \E x \in 0 .. Width - Size, y \in 0 .. Height - Size : mouse = <<x, y>>

LEMMA RoomAlways == Size <= Width /\ Size <= Height
<1>1. PICK x \in Nat, y \in Nat : StartAt = <<x, y>>
  BY Bounds DEF Pixels
<1> QED BY <1>1, Bounds, RoomForPointer

LEMMA TargetIs ==
  ASSUME mouse \in Pixels, NEW m \in Movements
  PROVE  \E x \in 0 .. Width - Size, y \in 0 .. Height - Size : Target(m) = <<x, y>>
<1>1. PICK u \in Int, v \in Int : mouse = <<u, v>>
  BY Bounds DEF Pixels
<1>2. Delta(m[1]) \in Int /\ Delta(m[2]) \in Int
  BY Bounds, DeltaIs
<1>3. Width - Size \in Nat /\ Height - Size \in Nat
  BY Bounds, RoomAlways
<1>4. PICK a \in Int, b \in Int : a = u + Delta(m[1]) /\ b = v - Delta(m[2])
  BY <1>2
<1>5. Clamp(a, Width - Size) \in 0 .. Width - Size /\ Clamp(b, Height - Size) \in 0 .. Height - Size
  BY <1>3, ClampIs
<1> QED BY <1>1, <1>4, <1>5 DEF Target

LEMMA MouseAt ==
  ASSUME PointerInv
  PROVE  \E x \in Nat, y \in Nat : mouse = <<x, y>> /\ prev_mouse = <<x, y>>
                                   /\ Square(<<x, y>>) \subseteq Pixels
<1>1. mouse \in Pixels /\ prev_mouse = mouse /\ Square(mouse) \subseteq Pixels
  BY DEF PointerInv, PointerTypeOK
<1>2. PICK x \in Nat, y \in Nat : mouse = <<x, y>>
  BY <1>1, Bounds DEF Pixels
<1> QED BY <1>1, <1>2

(* Without the pointer the screen is what it was, whatever the movement.   *)
LEMMA MoveKeepsPeeled ==
  ASSUME PointerInv, NEW m \in Movements, NEW button \in BOOLEAN, MousePacket(m, button)
  PROVE  Peeled' = Peeled /\ PointerInv'
<1>1. PICK x \in Nat, y \in Nat : mouse = <<x, y>> /\ prev_mouse = <<x, y>>
                                  /\ Square(<<x, y>>) \subseteq Pixels
  BY MouseAt
<1>2. PICK u \in 0 .. Width - Size, v \in 0 .. Height - Size : Target(m) = <<u, v>>
  BY TargetIs DEF PointerInv
<1>3. u \in Nat /\ v \in Nat /\ Square(<<u, v>>) \subseteq Pixels /\ <<u, v>> \in Pixels
  BY SquareOnScreen
<1>4. vga_mem \in Screens /\ mouse_back_buffer \in [Offsets -> Colours]
  BY DEF PointerInv, PointerTypeOK, Screens, Colours
<1>5. PICK r \in Screens : r = Peeled
  BY <1>1, <1>4, Restored DEF Peeled
<1>6. PICK c \in {White, Green} : c = IF button THEN Green ELSE White
  OBVIOUS
<1>7. /\ mouse' = <<u, v>> /\ prev_mouse' = <<u, v>>
      /\ mouse_back_buffer' = save_background(r, <<u, v>>)
      /\ vga_mem' = draw_mouse_pointer(r, <<u, v>>, c)
      /\ UNCHANGED <<text, stale, draws>>
  BY <1>2, <1>5, <1>6 DEF MousePacket, Peeled
<1>8. /\ mouse_back_buffer' \in [Offsets -> Colours]
      /\ \A a \in Int, b \in Int :
           <<a, b>> \in Square(<<u, v>>) => mouse_back_buffer'[<<a - u, b - v>>] = r[<<a, b>>]
  <2>1. PICK b : b = save_background(r, <<u, v>>)
    OBVIOUS
  <2>2. /\ b \in [Offsets -> Colours]
        /\ \A g \in Int, h \in Int :
             <<g, h>> \in Square(<<u, v>>) => b[<<g - u, h - v>>] = r[<<g, h>>]
    <3>1. u \in Nat /\ v \in Nat /\ Square(<<u, v>>) \subseteq Pixels
      BY <1>3
    <3>2. /\ save_background(r, <<u, v>>) \in [Offsets -> Colours]
          /\ \A g \in Int, h \in Int :
               <<g, h>> \in Square(<<u, v>>) =>
                 save_background(r, <<u, v>>)[<<g - u, h - v>>] = r[<<g, h>>]
      BY <3>1, Saved
    <3> QED BY <2>1, <3>2
  <2> QED BY <1>7, <2>1, <2>2
<1>9. PICK d \in Screens : d = vga_mem' /\ \A p \in Pixels : p \notin Square(<<u, v>>) => d[p] = r[p]
  <2>1. LET d == draw_mouse_pointer(r, <<u, v>>, c)
        IN  d \in Screens /\ \A p \in Pixels : p \notin Square(<<u, v>>) => d[p] = r[p]
    BY <1>3, Drawn
  <2> QED BY <1>7, <2>1
<1>10. PICK k \in [Offsets -> Colours] :
         /\ k = mouse_back_buffer'
         /\ \A a \in Int, b \in Int : <<a, b>> \in Square(<<u, v>>) => k[<<a - u, b - v>>] = r[<<a, b>>]
  BY <1>8
<1>11. PICK q : q = restore_background(d, k, <<u, v>>)
  OBVIOUS
<1>12. ASSUME NEW p \in Pixels PROVE q[p] = r[p]
  <2>1. PICK a \in Int, b \in Int : p = <<a, b>>
    BY Bounds DEF Pixels
  <2>2. p \notin Square(<<u, v>>) => q[p] = d[p]
    BY <1>3, <1>11, RestoredOutside
  <2>3. p \in Square(<<u, v>>) => q[p] = k[<<p[1] - u, p[2] - v>>]
    BY <1>3, <1>11, RestoredInside
  <2>4. p \in Square(<<u, v>>) => k[<<a - u, b - v>>] = r[p]
    BY <1>10, <2>1
  <2> QED BY <1>9, <2>1, <2>2, <2>3, <2>4
<1>13. q = r
  <2>1. q \in Screens
    BY <1>3, <1>11, Restored
  <2> QED BY <1>12, <2>1 DEF Screens
<1>14. Peeled' = Peeled
  BY <1>5, <1>7, <1>9, <1>10, <1>11, <1>13 DEF Peeled
<1>15. PointerTypeOK'
  BY <1>3, <1>7, <1>8, <1>9 DEF PointerInv, PointerTypeOK, Screens, Colours
<1> QED BY <1>3, <1>7, <1>14, <1>15 DEF PointerInv

(* Other code draws: what it draws under the pointer, or scrolls with it,  *)
(* becomes stale.                                                          *)
LEMMA DrawingKeeps ==
  ASSUME PointerInv, UNCHANGED <<mouse_back_buffer, mouse, prev_mouse>>,
         draws' = draws + 1, vga_mem' \in Screens, text' \in Screens, stale' \subseteq Pixels,
         \A p \in Pixels \ stale' : p \in Square(mouse) => p \notin stale /\ text'[p] = text[p],
         \A p \in Pixels \ stale' : p \notin Square(mouse) => vga_mem'[p] = text'[p]
  PROVE  PointerInv'
<1>1. PICK x \in Nat, y \in Nat : mouse = <<x, y>> /\ prev_mouse = <<x, y>>
                                  /\ Square(<<x, y>>) \subseteq Pixels
  BY MouseAt
<1>2. vga_mem \in Screens /\ mouse_back_buffer \in [Offsets -> Colours]
  BY DEF PointerInv, PointerTypeOK, Screens, Colours
<1>3. PICK s \in Screens, k \in [Offsets -> Colours], z \in Screens :
        s = vga_mem /\ k = mouse_back_buffer /\ z = vga_mem'
  BY <1>2
<1>4. PICK r : r = restore_background(s, k, <<x, y>>)
  OBVIOUS
<1>5. PICK q : q = restore_background(z, k, <<x, y>>)
  OBVIOUS
<1>6. r = Peeled /\ q = Peeled'
  BY <1>1, <1>3, <1>4, <1>5 DEF Peeled
<1>7. ASSUME NEW p \in Pixels \ stale' PROVE q[p] = text'[p]
  <2>1. CASE p \in Square(mouse)
    <3>1. r[p] = k[<<p[1] - x, p[2] - y>>]
      BY <1>1, <1>4, <2>1, RestoredInside
    <3>2. q[p] = k[<<p[1] - x, p[2] - y>>]
      BY <1>1, <1>5, <2>1, RestoredInside
    <3>3. r[p] = text[p]
      BY <1>6, <1>7, <2>1 DEF PointerInv
    <3> QED BY <1>7, <2>1, <3>1, <3>2, <3>3
  <2>2. CASE p \notin Square(mouse)
    <3>1. q[p] = z[p]
      BY <1>1, <1>5, <2>2, RestoredOutside
    <3> QED BY <1>3, <1>7, <2>2, <3>1
  <2> QED BY <2>1, <2>2
<1>8. PointerTypeOK'
  <2>1. prev_mouse' = mouse' /\ Square(mouse') \subseteq Pixels
    BY <1>1
  <2>2. vga_mem' \in [Pixels -> Colours] /\ mouse_back_buffer' \in [Offsets -> Colours]
    BY <1>2 DEF Screens
  <2> QED BY <2>1, <2>2 DEF PointerTypeOK, Colours
<1>9. text' \in [Pixels -> {Black, White, Green} \cup Inks] /\ mouse' \in Pixels /\ draws' \in Nat
  BY DEF PointerInv, Screens, Colours
<1> QED BY <1>6, <1>7, <1>8, <1>9 DEF PointerInv

(* What shows outside the pointer's square is the text.                    *)
LEMMA ShownOutside ==
  ASSUME PointerInv, NEW p \in Pixels, p \notin stale, p \notin Square(mouse)
  PROVE  vga_mem[p] = text[p]
<1>1. PICK x \in Nat, y \in Nat : mouse = <<x, y>> /\ prev_mouse = <<x, y>>
  BY DEF PointerInv, PointerTypeOK, Pixels
<1>2. PICK s \in Screens, k \in [Offsets -> Colours] : s = vga_mem /\ k = mouse_back_buffer
  BY DEF PointerInv, PointerTypeOK, Screens, Colours
<1>3. PICK r : r = restore_background(s, k, <<x, y>>)
  OBVIOUS
<1>4. r = Peeled
  BY <1>1, <1>2, <1>3 DEF Peeled
<1>5. r[p] = s[p]
  BY <1>1, <1>3, RestoredOutside
<1> QED BY <1>2, <1>4, <1>5 DEF PointerInv

LEMMA PutPixelKeeps ==
  ASSUME PointerInv, NEW p \in Pixels, NEW ink \in Inks, PutPixel(p, ink) PROVE PointerInv'
<1>1. PICK s \in Screens, t \in Screens : s = vga_mem /\ t = text
  BY DEF PointerInv, PointerTypeOK, Screens, Colours
<1>2. /\ vga_mem' = [s EXCEPT ![p] = ink] /\ text' = [t EXCEPT ![p] = ink]
      /\ stale' = IF p \in Square(mouse) THEN stale \cup {p} ELSE stale \ {p}
      /\ draws' = draws + 1 /\ UNCHANGED <<mouse_back_buffer, mouse, prev_mouse>>
  BY <1>1 DEF PutPixel, PointerInv, PointerTypeOK
<1>3. vga_mem' \in Screens /\ text' \in Screens
  BY <1>1, <1>2 DEF Screens, Colours
<1>4. stale' \subseteq Pixels
  BY <1>2 DEF PointerInv, PointerTypeOK
<1>5. ASSUME NEW q \in Pixels \ stale', q \in Square(mouse)
      PROVE  q \notin stale /\ text'[q] = text[q]
  <2>1. q # p /\ q \notin stale
    BY <1>2, <1>5
  <2> QED BY <1>1, <1>2, <2>1 DEF Screens
<1>6. ASSUME NEW q \in Pixels \ stale', q \notin Square(mouse) PROVE vga_mem'[q] = text'[q]
  <2>1. CASE q = p
    BY <1>1, <1>2, <2>1 DEF Screens
  <2>2. CASE q # p
    <3>1. q \notin stale
      BY <1>2, <1>6, <2>2
    <3>2. s[q] = t[q]
      BY <1>1, <1>6, <3>1, ShownOutside
    <3> QED BY <1>1, <1>2, <2>2, <3>2 DEF Screens
  <2> QED BY <2>1, <2>2
<1> QED BY <1>2, <1>3, <1>4, <1>5, <1>6, DrawingKeeps

LEMMA ClearScreenKeeps == ASSUME PointerInv, clear_screen PROVE PointerInv'
<1>1. /\ vga_mem' = Blank /\ text' = Blank /\ stale' = Square(mouse)
      /\ draws' = draws + 1 /\ UNCHANGED <<mouse_back_buffer, mouse, prev_mouse>>
      /\ stale' \subseteq Pixels
  BY DEF clear_screen, PointerInv, PointerTypeOK
<1>2. Blank \in Screens
  BY DEF Blank, Screens, Colours
<1> QED BY <1>1, <1>2, DrawingKeeps

LEMMA ScrollKeeps == ASSUME PointerInv, scroll_screen PROVE PointerInv'
<1>1. PICK s \in Screens, t \in Screens : s = vga_mem /\ t = text
  BY DEF PointerInv, PointerTypeOK, Screens, Colours
<1>2. /\ vga_mem' = Scrolled(s) /\ text' = Scrolled(t)
      /\ stale' = Square(mouse) \cup
           {p \in Pixels : <<p[1], p[2] + Line>> \in stale \cup Square(mouse)}
      /\ draws' = draws + 1 /\ UNCHANGED <<mouse_back_buffer, mouse, prev_mouse>>
      /\ stale' \subseteq Pixels
  BY <1>1 DEF scroll_screen, PointerInv, PointerTypeOK
<1>3. ASSUME NEW p \in Pixels, p[2] < Height - Line PROVE <<p[1], p[2] + Line>> \in Pixels
  <2>1. PICK a \in 0 .. Width - 1, b \in 0 .. Height - 1 : p = <<a, b>> /\ b < Height - Line
    BY <1>3 DEF Pixels
  <2>2. b + Line \in 0 .. Height - 1
    BY <2>1, Bounds
  <2> QED BY <2>1, <2>2 DEF Pixels
<1>4. ASSUME NEW k \in Screens PROVE Scrolled(k) \in Screens
  <2>1. \A p \in Pixels :
          (IF p[2] < Height - Line THEN k[<<p[1], p[2] + Line>>] ELSE Black) \in Colours
    BY <1>3 DEF Screens, Colours
  <2> QED BY <2>1 DEF Scrolled, Screens
<1>5. ASSUME NEW p \in Pixels \ stale' PROVE vga_mem'[p] = text'[p]
  <2>1. CASE p[2] < Height - Line
    <3>1. PICK q \in Pixels : q = <<p[1], p[2] + Line>>
      BY <1>3, <2>1
    <3>2. q \notin stale /\ q \notin Square(mouse)
      BY <1>2, <1>5, <3>1
    <3>3. s[q] = t[q]
      BY <1>1, <3>2, ShownOutside
    <3> QED BY <1>2, <2>1, <3>1, <3>3 DEF Scrolled
  <2>2. CASE ~(p[2] < Height - Line)
    BY <1>2, <2>2 DEF Scrolled
  <2> QED BY <2>1, <2>2
<1>6. \A p \in Pixels \ stale' : p \notin Square(mouse)
  BY <1>2
<1>7. vga_mem' \in Screens /\ text' \in Screens
  BY <1>1, <1>2, <1>4
<1> QED BY <1>2, <1>5, <1>6, <1>7, DrawingKeeps

LEMMA PointerInvInit == PointerInit => PointerInv
<1> SUFFICES ASSUME PointerInit PROVE PointerInv
  OBVIOUS
<1>1. Blank \in Screens /\ [o \in Offsets |-> Black] \in [Offsets -> Colours]
  BY DEF Blank, Screens, Colours
<1>2. PICK x \in Nat, y \in Nat : StartAt = <<x, y>>
  BY Bounds DEF Pixels
<1>3. mouse = <<x, y>> /\ prev_mouse = <<x, y>> /\ mouse \in Pixels /\ Square(mouse) \subseteq Pixels
  BY <1>2, Bounds DEF PointerInit
<1>4. PointerTypeOK /\ text \in [Pixels -> {Black, White, Green} \cup Inks] /\ draws \in Nat
  BY <1>1, <1>3 DEF PointerInit, PointerTypeOK, Screens, Colours
<1>5. PICK s \in Screens, k \in [Offsets -> Colours] :
        s = vga_mem /\ k = mouse_back_buffer
  BY <1>1 DEF PointerInit
<1>6. PICK r : r = restore_background(s, k, <<x, y>>)
  OBVIOUS
<1>7. r = Peeled
  BY <1>3, <1>5, <1>6 DEF Peeled
<1>8. \A o \in Offsets : k[o] = Black
  BY <1>5 DEF PointerInit
<1>9. \A p \in Pixels : s[p] = Black /\ text[p] = Black
  BY <1>5 DEF PointerInit, Blank
<1>10. ASSUME NEW p \in Pixels PROVE r[p] = text[p]
  <2>1. CASE p \in Square(<<x, y>>)
    <3>1. r[p] = k[<<p[1] - x, p[2] - y>>] /\ <<p[1] - x, p[2] - y>> \in Offsets
      BY <1>6, <2>1, RestoredInside
    <3> QED BY <1>8, <1>9, <3>1
  <2>2. CASE p \notin Square(<<x, y>>)
    <3>1. r[p] = s[p]
      BY <1>6, <2>2, RestoredOutside
    <3> QED BY <1>9, <3>1
  <2> QED BY <2>1, <2>2
<1> QED BY <1>3, <1>4, <1>7, <1>10 DEF PointerInv

LEMMA PointerInvStep == ASSUME PointerInv, [PointerNext]_pointerVars PROVE PointerInv'
<1>1. CASE UNCHANGED pointerVars
  BY <1>1 DEF pointerVars, PointerInv, PointerTypeOK, Peeled
<1> QED BY <1>1, MoveKeepsPeeled, PutPixelKeeps, ClearScreenKeeps, ScrollKeeps DEF PointerNext

THEOREM PointerInvariant == PointerSpec => []PointerInv
<1>1. PointerInv /\ [PointerNext]_pointerVars => PointerInv'
  BY PointerInvStep
<1> QED BY <1>1, PointerInvInit, PTL DEF PointerSpec

(* The pointer takes nothing off the screen and leaves nothing on it: with *)
(* it lifted, a movement changes no pixel (drivers/mouse.c 118-138).       *)
THEOREM MovesNeverLeaveTrace == PointerSpec => MovesLeaveNoTrace
<1>1. PointerInv /\ [PointerNext]_pointerVars => [draws' = draws => Peeled' = Peeled]_pointerVars
  <2> SUFFICES ASSUME PointerInv, PointerNext, draws' = draws PROVE Peeled' = Peeled
    OBVIOUS
  <2>1. draws' # draws + 1
    BY DEF PointerInv
  <2>2. PICK m \in Movements, button \in BOOLEAN : MousePacket(m, button)
    BY <2>1 DEF PointerNext, PutPixel, clear_screen, scroll_screen
  <2> QED BY <2>2, MoveKeepsPeeled
<1> QED BY <1>1, PointerInvariant, PTL DEF PointerSpec, MovesLeaveNoTrace

(* Text stays on the screen but where the pointer hides it or got in its   *)
(* way, and the pointer goes where the mouse goes, up to the edges, if no  *)
(* movement to the right or up is half a byte or more.                     *)
THEOREM PointerAlwaysSound ==
  ASSUME \A m \in Movements : m[1] < Byte \div 2 /\ m[2] < Byte \div 2
  PROVE  PointerSpec => []PointerSound
<1>1. PointerInv => TextKept
  BY ShownOutside DEF TextKept
<1>2. ASSUME PointerInv PROVE PointerFollows
  <2> SUFFICES ASSUME NEW m \in Movements
               PROVE  /\ GoesTo(Target(m)[1], mouse[1] + m[1], Width - Size)
                      /\ GoesTo(Target(m)[2], mouse[2] - m[2], Height - Size)
    BY DEF PointerFollows
  <2>1. PICK u \in Int, v \in Int : mouse = <<u, v>>
    BY <1>2, Bounds DEF PointerInv, Pixels
  <2>2. PICK a \in Int, b \in Int : a = m[1] /\ b = m[2] /\ Delta(m[1]) = a /\ Delta(m[2]) = b
    BY Bounds, DeltaIs
  <2>3. Width - Size \in Nat /\ Height - Size \in Nat
    BY Bounds, RoomAlways
  <2>4. u + a \in Int /\ v - b \in Int
    OBVIOUS
  <2>5. /\ GoesTo(Clamp(u + a, Width - Size), u + a, Width - Size)
        /\ GoesTo(Clamp(v - b, Height - Size), v - b, Height - Size)
    BY <2>3, <2>4, ClampIs
  <2> QED BY <2>1, <2>2, <2>5 DEF Target
<1> QED BY <1>1, <1>2, PointerInvariant, PTL DEF PointerSound

-----------------------------------------------------------------------------
(* Keyboard and mouse: where each byte is on its way.                      *)

(* A key struck has been handled, is the byte v in the output buffer (k is *)
(* 1 then), or waits behind it in q; and so in their order.                *)
KeysIn(t, h, k, v, q) ==
  /\ Len(t) = Len(h) + k + Len(q)
  /\ \A n \in 1 .. Len(h) : h[n] = t[n]
  /\ k = 1 => v = t[Len(h) + 1]
  /\ \A n \in 1 .. Len(q) : q[n] = t[Len(h) + k + n]

(* The same of the bytes of the movements m, of which d are drawn and the  *)
(* bytes b of one more have been collected.                                *)
PacketsIn(m, d, b, k, v, q) ==
  /\ 3 * Len(m) = 3 * Len(d) + Len(b) + k + Len(q)
  /\ \A n \in 1 .. Len(d) : d[n] = m[n]
  /\ \A n \in 1 .. Len(b) : b[n] = m[Len(d) + 1][n]
  /\ k = 1 => v = m[Len(d) + 1][Len(b) + 1]
  /\ \A g \in 1 .. Len(m), h \in 1 .. 3, n \in 1 .. Len(q) :
       3 * g + h = 3 * Len(d) + 3 + Len(b) + k + n => q[n] = m[g][h]

KeyOut == IF out # None /\ out.src = "keyboard" THEN 1 ELSE 0
MouseOut == IF out # None /\ out.src = "mouse" THEN 1 ELSE 0

Bytes == 0 .. 255
Sources == {"controller", "keyboard", "mouse"}
Ps2Types ==
  /\ Kbc!TypeOK
  /\ out \in {None} \cup [src : Sources, byte : Bytes]
  /\ cq \in Seq(Bytes) /\ kq \in Seq(Keys) /\ mq \in Seq(Bytes) /\ mouse_bytes \in Seq(Bytes)
  /\ order \in {None, 244, 246}
  /\ typed \in Seq(Keys) /\ handled \in Seq(Keys)
  /\ moved \in Seq(Packets) /\ drawn \in Seq(Packets)

(* Until somebody touches them there is nothing on its way but what        *)
(* init_mouse waits for, and the byte read last is the mouse's answer.     *)
Untouched == typed = <<>> /\ moved = <<>>
Waiting(q, answer) ==
  \/ q = <<answer>> /\ out = None
  \/ q = <<>> /\ out # None /\ last = answer
Starting ==
  /\ Untouched /\ handled = <<>> /\ drawn = <<>> /\ mouse_bytes = <<>> /\ kq = <<>>
  /\ ps_pc # "main" => ps_serving = None
  /\ ps_pc \notin {"config", "ack1", "ack2"} => out = None /\ cq = <<>> /\ mq = <<>> /\ order = None
  /\ ps_pc = "config" => order = None /\ mq = <<>> /\ Waiting(cq, config)
  /\ ps_pc \in {"ack1", "ack2"} =>
       /\ cq = <<>>
       /\ \/ order \in {244, 246} /\ out = None /\ mq = <<>>
          \/ order = None /\ Waiting(mq, Kbc!Ack)
  /\ ps_pc \in {"sti", "main"} => last = Kbc!Ack

(* From then on a line is latched, or served, exactly when the byte that   *)
(* raised it is in the output buffer.                                      *)
OnTheLine == latched \cup ({ps_serving} \ {None})
Flowing ==
  /\ ps_pc = "main" /\ cq = <<>> /\ order = None
  /\ out # None => out.src # "controller"
  /\ OnTheLine = Kbc!LineOf(out, config) /\ ps_serving \notin latched
  /\ KeysIn(typed, handled, KeyOut, last, kq)
  /\ PacketsIn(moved, drawn, mouse_bytes, MouseOut, last, mq)

Running == ~Untouched /\ Flowing

Ps2Inv == Ps2Types /\ (Starting \/ Running)

LEMMA Lengths ==
  ASSUME NEW S, NEW q \in Seq(S)
  PROVE  Len(q) \in Nat /\ (q # <<>> => Len(q) # 0) /\ \A n \in 1 .. Len(q) : q[n] \in S
<1>1. Len(q) \in Nat /\ (q # <<>> => Len(q) \in Nat \ {0})
  BY LenProperties, EmptySeq
<1>2. \A n \in 1 .. Len(q) : q[n] \in S
  BY ElementOfSeq
<1> QED BY <1>1, <1>2

LEMMA Longer ==
  ASSUME NEW S, NEW q \in Seq(S), NEW e \in S, NEW l \in Nat, l = Len(q)
  PROVE  /\ Append(q, e) \in Seq(S) /\ Append(q, e) # <<>> /\ Len(Append(q, e)) = l + 1
         /\ Append(q, e)[l + 1] = e
         /\ \A n \in 1 .. l : Append(q, e)[n] = q[n]
BY AppendProperties

LEMMA Shorter ==
  ASSUME NEW S, NEW q \in Seq(S), q # <<>>, NEW l \in Nat, l = Len(q)
  PROVE  /\ Head(q) \in S /\ Head(q) = q[1] /\ l > 0
         /\ Tail(q) \in Seq(S) /\ Len(Tail(q)) = l - 1
         /\ \A n \in 1 .. l - 1 : Tail(q)[n] = q[n + 1]
<1>1. Head(q) \in S /\ Tail(q) \in Seq(S) /\ Len(Tail(q)) = Len(q) - 1
  BY HeadTailProperties
<1>2. \A n \in 1 .. Len(Tail(q)) : Tail(q)[n] = q[n + 1]
  BY HeadTailProperties
<1>3. Head(q) = q[1]
  OBVIOUS
<1>4. l > 0
  BY Lengths
<1> QED BY <1>1, <1>2, <1>3, <1>4

(* The key at the head of the queue is put forward.                        *)
LEMMA KeyForwarded ==
  ASSUME NEW t \in Seq(Keys), NEW h \in Seq(Keys), NEW q \in Seq(Keys), NEW v,
         KeysIn(t, h, 0, v, q), q # <<>>
  PROVE  KeysIn(t, h, 1, Head(q), Tail(q))
<1>1. PICK a \in Nat, b \in Nat, c \in Nat : a = Len(t) /\ b = Len(h) /\ c = Len(q)
  BY Lengths
<1>2. PICK r, x : r = Tail(q) /\ x = Head(q)
  OBVIOUS
<1>3. /\ x = q[1] /\ c > 0 /\ Len(r) = c - 1
      /\ \A n \in 1 .. c - 1 : r[n] = q[n + 1]
  BY <1>1, <1>2, Shorter
<1>4. /\ a = b + c /\ \A n \in 1 .. b : h[n] = t[n]
      /\ \A n \in 1 .. c : q[n] = t[b + n]
  BY <1>1 DEF KeysIn
<1>5. q[1] = t[b + 1]
  BY <1>3, <1>4
<1>6. ASSUME NEW n \in 1 .. c - 1 PROVE r[n] = t[b + 1 + n]
  <2>1. n + 1 \in 1 .. c /\ b + (n + 1) = b + 1 + n
    OBVIOUS
  <2>2. q[n + 1] = t[b + (n + 1)]
    BY <1>4, <2>1
  <2> QED BY <1>3, <2>1, <2>2
<1>7. a = b + 1 + (c - 1)
  BY <1>4
<1>8. KeysIn(t, h, 1, x, r)
  BY <1>1, <1>3, <1>4, <1>5, <1>6, <1>7 DEF KeysIn
<1> QED BY <1>2, <1>8

(* It is handled: it is the next one.                                      *)
LEMMA KeyHandled ==
  ASSUME NEW t \in Seq(Keys), NEW h \in Seq(Keys), NEW q \in Seq(Keys), NEW v, NEW w,
         KeysIn(t, h, 1, v, q)
  PROVE  /\ Len(h) < Len(t) /\ v = t[Len(h) + 1] /\ v \in Keys
         /\ KeysIn(t, Append(h, v), 0, w, q)
<1>1. PICK a \in Nat, b \in Nat, c \in Nat : a = Len(t) /\ b = Len(h) /\ c = Len(q)
  BY Lengths
<1>2. /\ a = b + 1 + c /\ v = t[b + 1] /\ \A n \in 1 .. b : h[n] = t[n]
      /\ \A n \in 1 .. c : q[n] = t[b + 1 + n]
  BY <1>1 DEF KeysIn
<1>3. b + 1 \in 1 .. a /\ b < a
  BY <1>2
<1>4. v \in Keys
  BY <1>1, <1>2, <1>3, ElementOfSeq
<1>5. PICK g : g = Append(h, v)
  OBVIOUS
<1>6. Len(g) = b + 1 /\ g[b + 1] = v /\ \A n \in 1 .. b : g[n] = h[n]
  BY <1>1, <1>4, <1>5, Longer
<1>7. ASSUME NEW n \in 1 .. b + 1 PROVE g[n] = t[n]
  <2>1. CASE n = b + 1
    BY <1>2, <1>6, <2>1
  <2>2. CASE n # b + 1
    <3>1. n \in 1 .. b
      BY <2>2
    <3> QED BY <1>2, <1>6, <3>1
  <2> QED BY <2>1, <2>2
<1>8. a = b + 1 + 0 + c /\ \A n \in 1 .. c : q[n] = t[b + 1 + 0 + n]
  BY <1>2
<1>9. KeysIn(t, g, 0, w, q)
  BY <1>1, <1>6, <1>7, <1>8 DEF KeysIn
<1> QED BY <1>1, <1>2, <1>3, <1>4, <1>5, <1>9

(* One more is struck.                                                     *)
LEMMA KeyStruck ==
  ASSUME NEW t \in Seq(Keys), NEW h \in Seq(Keys), NEW q \in Seq(Keys), NEW v,
         NEW k \in 0 .. 1, NEW e \in Keys, KeysIn(t, h, k, v, q)
  PROVE  KeysIn(Append(t, e), h, k, v, Append(q, e))
<1>1. PICK a \in Nat, b \in Nat, c \in Nat : a = Len(t) /\ b = Len(h) /\ c = Len(q)
  BY Lengths
<1>2. /\ a = b + k + c /\ (k = 1 => v = t[b + 1]) /\ \A n \in 1 .. b : h[n] = t[n]
      /\ \A n \in 1 .. c : q[n] = t[b + k + n]
  BY <1>1 DEF KeysIn
<1>3. PICK u, r : u = Append(t, e) /\ r = Append(q, e)
  OBVIOUS
<1>4. Len(u) = a + 1 /\ u[a + 1] = e /\ \A n \in 1 .. a : u[n] = t[n]
  BY <1>1, <1>3, Longer
<1>5. Len(r) = c + 1 /\ r[c + 1] = e /\ \A n \in 1 .. c : r[n] = q[n]
  BY <1>1, <1>3, Longer
<1>6. ASSUME NEW n \in 1 .. b PROVE h[n] = u[n]
  <2>1. n \in 1 .. a
    BY <1>2
  <2> QED BY <1>2, <1>4, <2>1
<1>7. ASSUME k = 1 PROVE v = u[b + 1]
  <2>1. b + 1 \in 1 .. a
    BY <1>2, <1>7
  <2> QED BY <1>2, <1>4, <1>7, <2>1
<1>8. ASSUME NEW n \in 1 .. c + 1 PROVE r[n] = u[b + k + n]
  <2>1. CASE n = c + 1
    <3>1. b + k + n = a + 1
      BY <1>2, <2>1
    <3> QED BY <1>4, <1>5, <2>1, <3>1
  <2>2. CASE n # c + 1
    <3>1. n \in 1 .. c /\ b + k + n \in 1 .. a
      BY <1>2, <2>2
    <3> QED BY <1>2, <1>4, <1>5, <3>1
  <2> QED BY <2>1, <2>2
<1>9. a + 1 = b + k + (c + 1)
  <2>1. a = b + k + c /\ k \in Nat
    BY <1>2
  <2> QED BY <2>1
<1>10. KeysIn(u, h, k, v, r)
  BY <1>1, <1>4, <1>5, <1>6, <1>7, <1>8, <1>9 DEF KeysIn
<1> QED BY <1>3, <1>10

(* The bytes of a packet are bytes.                                        *)
LEMMA PacketBytes ==
  ASSUME NEW p \in Packets
  PROVE  p \in Seq(Bytes) /\ Len(p) = 3 /\ (\A h \in 1 .. 3 : p[h] \in Bytes) /\ Kbc!On(p[1], 8)
<1>1. p \in [1 .. 3 -> Bytes] /\ Kbc!On(p[1], 8)
  BY Ps2Ok DEF Kbc!Ps2Assumption, Kbc!Marked, Bytes
<1>2. p \in Seq(Bytes)
  <2>1. 3 \in Nat /\ Seq(Bytes) = UNION {[1 .. n -> Bytes] : n \in Nat}
    BY SeqDef
  <2> QED BY <1>1, <2>1
<1>3. Len(p) \in Nat /\ 1 .. Len(p) = 1 .. 3
  <2>1. Len(p) \in Nat /\ DOMAIN p = 1 .. Len(p)
    BY <1>2, LenProperties
  <2> QED BY <1>1, <2>1
<1>4. Len(p) = 3
  <2>1. PICK l \in Nat : l = Len(p)
    BY <1>3
  <2>2. 1 .. l = 1 .. 3
    BY <1>3, <2>1
  <2> QED BY <2>1, <2>2
<1>5. \A h \in 1 .. 3 : p[h] \in Bytes
  BY <1>1
<1> QED BY <1>1, <1>2, <1>4, <1>5

(* Three is the length of a packet, and no other number fits.              *)
LEMMA Thirds ==
  ASSUME NEW g \in Int, NEW d \in Int, NEW h \in 1 .. 3, NEW b \in 1 .. 3, 3 * g + h = 3 * d + b
  PROVE  g = d /\ h = b
OBVIOUS

(* The first byte waiting is put forward.                                  *)
LEMMA ByteForwarded ==
  ASSUME NEW m \in Seq(Packets), NEW d \in Seq(Packets), NEW b \in Seq(Bytes), Len(b) < 3,
         NEW q \in Seq(Bytes), NEW v, PacketsIn(m, d, b, 0, v, q), q # <<>>
  PROVE  PacketsIn(m, d, b, 1, Head(q), Tail(q))
<1>1. PICK a \in Nat, e \in Nat, l \in Nat, c \in Nat :
        a = Len(m) /\ e = Len(d) /\ l = Len(b) /\ c = Len(q)
  BY Lengths
<1>2. PICK r, x : r = Tail(q) /\ x = Head(q)
  OBVIOUS
<1>3. /\ x = q[1] /\ c > 0 /\ Len(r) = c - 1
      /\ \A n \in 1 .. c - 1 : r[n] = q[n + 1]
  BY <1>1, <1>2, Shorter
<1>4. /\ 3 * a = 3 * e + l + c
      /\ \A n \in 1 .. e : d[n] = m[n]
      /\ \A n \in 1 .. l : b[n] = m[e + 1][n]
      /\ \A g \in 1 .. a, h \in 1 .. 3, n \in 1 .. c :
           3 * g + h = 3 * e + 3 + l + n => q[n] = m[g][h]
  <2>1. /\ 3 * a = 3 * e + l + 0 + c
        /\ \A n \in 1 .. e : d[n] = m[n]
        /\ \A n \in 1 .. l : b[n] = m[e + 1][n]
        /\ \A g \in 1 .. a, h \in 1 .. 3, n \in 1 .. c :
             3 * g + h = 3 * e + 3 + l + 0 + n => q[n] = m[g][h]
    BY <1>1 DEF PacketsIn
  <2>2. \A n \in 1 .. c : 3 * e + 3 + l + 0 + n = 3 * e + 3 + l + n
    OBVIOUS
  <2>3. l + 0 = l
    OBVIOUS
  <2> QED BY <2>1, <2>2, <2>3
<1>5. x = m[e + 1][l + 1]
  <2>1. e + 1 \in 1 .. a
    <3>1. 3 * a = 3 * e + l + c
      BY <1>4
    <3> QED BY <1>3, <3>1
  <2>2. l + 1 \in 1 .. 3 /\ 1 \in 1 .. c /\ 3 * (e + 1) + (l + 1) = 3 * e + 3 + l + 1
    BY <1>1, <1>3
  <2> QED BY <1>3, <1>4, <2>1, <2>2
<1>6. ASSUME NEW g \in 1 .. a, NEW h \in 1 .. 3, NEW n \in 1 .. c - 1,
             3 * g + h = 3 * e + 3 + l + 1 + n
      PROVE  r[n] = m[g][h]
  <2>1. n + 1 \in 1 .. c /\ 3 * g + h = 3 * e + 3 + l + (n + 1)
    BY <1>6
  <2> QED BY <1>3, <1>4, <2>1
<1>7. 3 * a = 3 * e + l + 1 + (c - 1)
  <2>1. 3 * a = 3 * e + l + c
    BY <1>4
  <2> QED BY <2>1
<1>8. PacketsIn(m, d, b, 1, x, r)
  BY <1>1, <1>3, <1>4, <1>5, <1>6, <1>7 DEF PacketsIn
<1> QED BY <1>2, <1>8

(* It joins the bytes collected: it belongs to the same packet.            *)
LEMMA ByteNext ==
  ASSUME NEW m \in Seq(Packets), NEW d \in Seq(Packets), NEW b \in Seq(Bytes), Len(b) < 3,
         NEW q \in Seq(Bytes), NEW v \in Bytes, PacketsIn(m, d, b, 1, v, q)
  PROVE  /\ Len(d) < Len(m) /\ m[Len(d) + 1] \in Packets
         /\ Append(b, v) \in Seq(Bytes) /\ Len(Append(b, v)) = Len(b) + 1
         /\ \A n \in 1 .. Len(b) + 1 : Append(b, v)[n] = m[Len(d) + 1][n]
<1>1. PICK a \in Nat, e \in Nat, l \in Nat, c \in Nat :
        a = Len(m) /\ e = Len(d) /\ l = Len(b) /\ c = Len(q)
  BY Lengths
<1>2. /\ 3 * a = 3 * e + l + 1 + c /\ v = m[e + 1][l + 1]
      /\ \A n \in 1 .. l : b[n] = m[e + 1][n]
  BY <1>1 DEF PacketsIn
<1>3. e < a /\ e + 1 \in 1 .. a
  <2>1. 3 * a = 3 * e + l + 1 + c
    BY <1>2
  <2> QED BY <2>1
<1>4. m[e + 1] \in Packets
  BY <1>1, <1>3, ElementOfSeq
<1>5. PICK x : x = Append(b, v)
  OBVIOUS
<1>6. x \in Seq(Bytes) /\ Len(x) = l + 1 /\ x[l + 1] = v /\ \A n \in 1 .. l : x[n] = b[n]
  BY <1>1, <1>5, Longer
<1>7. ASSUME NEW n \in 1 .. l + 1 PROVE x[n] = m[e + 1][n]
  <2>1. CASE n = l + 1
    BY <1>2, <1>6, <2>1
  <2>2. CASE n # l + 1
    <3>1. n \in 1 .. l
      BY <2>2
    <3> QED BY <1>2, <1>6, <3>1
  <2> QED BY <2>1, <2>2
<1> QED BY <1>1, <1>3, <1>4, <1>5, <1>6, <1>7

LEMMA ByteCollected ==
  ASSUME NEW m \in Seq(Packets), NEW d \in Seq(Packets), NEW b \in Seq(Bytes), Len(b) < 3,
         NEW q \in Seq(Bytes), NEW v \in Bytes, NEW w, PacketsIn(m, d, b, 1, v, q)
  PROVE  PacketsIn(m, d, Append(b, v), 0, w, q)
<1>1. PICK a \in Nat, e \in Nat, l \in Nat, c \in Nat :
        a = Len(m) /\ e = Len(d) /\ l = Len(b) /\ c = Len(q)
  BY Lengths
<1>2. PICK x : x = Append(b, v)
  OBVIOUS
<1>3. Len(x) = l + 1 /\ \A n \in 1 .. l + 1 : x[n] = m[e + 1][n]
  BY <1>1, <1>2, ByteNext
<1>4. /\ 3 * a = 3 * e + l + 1 + c /\ \A n \in 1 .. e : d[n] = m[n]
      /\ \A g \in 1 .. a, h \in 1 .. 3, n \in 1 .. c :
           3 * g + h = 3 * e + 3 + l + 1 + n => q[n] = m[g][h]
  BY <1>1 DEF PacketsIn
<1>5. 3 * a = 3 * e + (l + 1) + 0 + c
  <2>1. 3 * a = 3 * e + l + 1 + c
    BY <1>4
  <2> QED BY <2>1
<1>6. ASSUME NEW g \in 1 .. a, NEW h \in 1 .. 3, NEW n \in 1 .. c,
             3 * g + h = 3 * e + 3 + (l + 1) + 0 + n
      PROVE  q[n] = m[g][h]
  <2>1. 3 * g + h = 3 * e + 3 + l + 1 + n
    BY <1>6
  <2> QED BY <1>4, <2>1
<1>7. PacketsIn(m, d, x, 0, w, q)
  BY <1>1, <1>3, <1>4, <1>5, <1>6 DEF PacketsIn
<1> QED BY <1>2, <1>7

(* It completes the packet.                                                *)
LEMMA PacketCompleted ==
  ASSUME NEW m \in Seq(Packets), NEW d \in Seq(Packets), NEW b \in Seq(Bytes), Len(b) < 3, Len(b) > 1,
         NEW q \in Seq(Bytes), NEW v \in Bytes, NEW w, PacketsIn(m, d, b, 1, v, q)
  PROVE  /\ Append(b, v) = m[Len(d) + 1] /\ Append(b, v) \in Packets /\ Len(d) < Len(m)
         /\ PacketsIn(m, Append(d, Append(b, v)), <<>>, 0, w, q)
<1>1. PICK a \in Nat, e \in Nat, c \in Nat : a = Len(m) /\ e = Len(d) /\ c = Len(q)
  BY Lengths
<1>2. PICK x, p : x = Append(b, v) /\ p = m[e + 1]
  OBVIOUS
<1>3. /\ e < a /\ p \in Packets /\ x \in Seq(Bytes) /\ Len(x) = 3
      /\ \A n \in 1 .. 3 : x[n] = p[n]
  <2>1. PICK l \in Nat : l = Len(b)
    BY Lengths
  <2>2. l < 3 /\ l + 1 = 3
    BY <2>1
  <2>3. Len(b) < 3
    BY <2>1, <2>2
  <2>4. /\ Len(d) < Len(m) /\ m[Len(d) + 1] \in Packets
        /\ Append(b, v) \in Seq(Bytes) /\ Len(Append(b, v)) = Len(b) + 1
        /\ \A n \in 1 .. Len(b) + 1 : Append(b, v)[n] = m[Len(d) + 1][n]
    BY <2>3, ByteNext
  <2>5. l + 1 = 3
    BY <2>2
  <2>6. e < a /\ p \in Packets /\ x \in Seq(Bytes) /\ Len(x) = l + 1
    BY <1>1, <1>2, <2>1, <2>4
  <2>7. \A n \in 1 .. l + 1 : x[n] = p[n]
    BY <1>1, <1>2, <2>1, <2>4
  <2> QED BY <2>5, <2>6, <2>7
<1>4. x = p
  <2>1. p \in Seq(Bytes) /\ Len(p) = 3
    BY <1>3, PacketBytes
  <2> QED BY <1>3, <2>1, SeqEqual
<1>5. PICK f : f = Append(d, x)
  OBVIOUS
<1>6. Len(f) = e + 1 /\ f[e + 1] = x /\ \A n \in 1 .. e : f[n] = d[n]
  BY <1>1, <1>3, <1>4, <1>5, Longer
<1>7. /\ 3 * a = 3 * e + 2 + 1 + c /\ \A n \in 1 .. e : d[n] = m[n]
      /\ \A g \in 1 .. a, h \in 1 .. 3, n \in 1 .. c :
           3 * g + h = 3 * e + 3 + 2 + 1 + n => q[n] = m[g][h]
  <2>1. PICK l \in Nat : l = Len(b)
    BY Lengths
  <2>2. l = 2
    BY <2>1
  <2>3. /\ 3 * a = 3 * e + l + 1 + c /\ \A n \in 1 .. e : d[n] = m[n]
    BY <1>1, <2>1 DEF PacketsIn
  <2>4. ASSUME NEW g \in 1 .. a, NEW h \in 1 .. 3, NEW n \in 1 .. c,
               3 * g + h = 3 * e + 3 + l + 1 + n
        PROVE  q[n] = m[g][h]
    BY <1>1, <2>1, <2>4 DEF PacketsIn
  <2> QED BY <2>2, <2>3, <2>4
<1>8. ASSUME NEW n \in 1 .. e + 1 PROVE f[n] = m[n]
  <2>1. CASE n = e + 1
    BY <1>2, <1>4, <1>6, <2>1
  <2>2. CASE n # e + 1
    <3>1. n \in 1 .. e
      BY <2>2
    <3> QED BY <1>6, <1>7, <3>1
  <2> QED BY <2>1, <2>2
<1>9. 3 * a = 3 * (e + 1) + 0 + 0 + c
  <2>1. 3 * a = 3 * e + 2 + 1 + c
    BY <1>7
  <2> QED BY <2>1
<1>10. ASSUME NEW g \in 1 .. a, NEW h \in 1 .. 3, NEW n \in 1 .. c,
              3 * g + h = 3 * (e + 1) + 3 + 0 + 0 + n
       PROVE  q[n] = m[g][h]
  <2>1. 3 * g + h = 3 * e + 3 + 2 + 1 + n
    BY <1>10
  <2> QED BY <1>7, <2>1
<1>11. PacketsIn(m, f, <<>>, 0, w, q)
  <2>1. Len(<<>>) = 0 /\ 1 .. 0 = {}
    OBVIOUS
  <2> QED BY <1>1, <1>6, <1>8, <1>9, <1>10, <2>1 DEF PacketsIn
<1> QED BY <1>1, <1>2, <1>3, <1>4, <1>5, <1>11

(* One more movement is made.                                              *)
LEMMA PacketSent ==
  ASSUME NEW m \in Seq(Packets), NEW d \in Seq(Packets), NEW b \in Seq(Bytes), Len(b) < 3,
         NEW q \in Seq(Bytes), NEW v, NEW k \in 0 .. 1, NEW p \in Packets, PacketsIn(m, d, b, k, v, q)
  PROVE  PacketsIn(Append(m, p), d, b, k, v, q \o p)
<1>1. PICK a \in Nat, e \in Nat, l \in Nat, c \in Nat :
        a = Len(m) /\ e = Len(d) /\ l = Len(b) /\ c = Len(q)
  BY Lengths
<1>2. PICK u, r : u = Append(m, p) /\ r = q \o p
  OBVIOUS
<1>3. Len(u) = a + 1 /\ u[a + 1] = p /\ \A n \in 1 .. a : u[n] = m[n]
  BY <1>1, <1>2, Longer
<1>4. p \in Seq(Bytes) /\ Len(p) = 3
  BY PacketBytes
<1>5. /\ Len(q \o p) = Len(q) + Len(p)
      /\ \A n \in 1 .. Len(q) + Len(p) : (q \o p)[n] = IF n <= Len(q) THEN q[n] ELSE p[n - Len(q)]
  BY <1>4, ConcatProperties
<1>6. Len(r) = c + 3 /\ \A n \in 1 .. c + 3 : r[n] = IF n <= c THEN q[n] ELSE p[n - c]
  BY <1>1, <1>2, <1>4, <1>5
<1>7. /\ 3 * a = 3 * e + l + k + c /\ \A n \in 1 .. e : d[n] = m[n]
      /\ \A n \in 1 .. l : b[n] = m[e + 1][n]
      /\ k = 1 => v = m[e + 1][l + 1]
      /\ \A g \in 1 .. a, h \in 1 .. 3, n \in 1 .. c :
           3 * g + h = 3 * e + 3 + l + k + n => q[n] = m[g][h]
  BY <1>1 DEF PacketsIn
<1>8. 3 * a = 3 * e + l + k + c /\ k \in Nat /\ l < 3
  BY <1>1, <1>7
<1>9. ASSUME NEW n \in 1 .. e PROVE d[n] = u[n]
  <2>1. n \in 1 .. a
    BY <1>8
  <2> QED BY <1>3, <1>7, <2>1
<1>10. ASSUME NEW n \in 1 .. l PROVE b[n] = u[e + 1][n]
  <2>1. e + 1 \in 1 .. a
    BY <1>8
  <2> QED BY <1>3, <1>7, <2>1
<1>11. ASSUME k = 1 PROVE v = u[e + 1][l + 1]
  <2>1. e + 1 \in 1 .. a
    BY <1>8, <1>11
  <2> QED BY <1>3, <1>7, <1>11, <2>1
<1>12. 3 * (a + 1) = 3 * e + l + k + (c + 3)
  BY <1>8
<1>13. ASSUME NEW g \in 1 .. a + 1, NEW h \in 1 .. 3, NEW n \in 1 .. c + 3,
              3 * g + h = 3 * e + 3 + l + k + n
       PROVE  r[n] = u[g][h]
  <2>1. CASE n <= c
    <3>1. n \in 1 .. c /\ g \in 1 .. a
      BY <1>8, <1>13, <2>1
    <3>2. r[n] = q[n]
      BY <1>6, <2>1
    <3>3. q[n] = m[g][h]
      BY <1>7, <1>13, <3>1
    <3>4. u[g] = m[g]
      BY <1>3, <3>1
    <3> QED BY <3>2, <3>3, <3>4
  <2>2. CASE ~(n <= c)
    <3>1. n - c \in 1 .. 3 /\ 3 * g + h = 3 * (a + 1) + (n - c)
      BY <1>8, <1>13, <2>2
    <3>2. g = a + 1 /\ h = n - c
      BY <3>1, Thirds
    <3>3. r[n] = p[n - c]
      BY <1>6, <2>2
    <3> QED BY <1>3, <3>2, <3>3
  <2> QED BY <2>1, <2>2
<1>14. PacketsIn(u, d, b, k, v, r)
  BY <1>1, <1>3, <1>6, <1>9, <1>10, <1>11, <1>12, <1>13 DEF PacketsIn
<1> QED BY <1>2, <1>14

-----------------------------------------------------------------------------
(* The bits that init_mouse sets and clears leave a byte a byte.           *)
LEMMA ConfigBits ==
  ASSUME NEW c \in Bytes
  PROVE  Kbc!SetBit(c, Kbc!AuxIrq) \in Bytes /\ Kbc!Clear(c, Kbc!AuxOff) \in Bytes
<1>1. (c \div 2) % 2 # 1 => c + 2 \in Bytes
  BY DEF Bytes
<1>2. (c \div 32) % 2 = 1 => c - 32 \in Bytes
  BY DEF Bytes
<1> QED BY <1>1, <1>2 DEF Kbc!SetBit, Kbc!Clear, Kbc!On, Kbc!AuxIrq, Kbc!AuxOff

LEMMA Apart ==
  /\ None \notin {1, 12, 244, 246}
  /\ \A s \in Sources, v \in Bytes :
       [src |-> s, byte |-> v] # None /\ [src |-> s, byte |-> v] \in [src : Sources, byte : Bytes]
BY Ps2Ok DEF Kbc!Ps2Assumption, Sources, Bytes

(* Line 1 is raised by bytes not the mouse's, line 12 by the mouse's.      *)
LEMMA LineBytes ==
  ASSUME NEW o, NEW c
  PROVE  /\ Kbc!LineOf(o, c) \in {{}, {1}, {12}} /\ Kbc!LineOf(None, c) = {}
         /\ 1 \in Kbc!LineOf(o, c) => o # None /\ o.src # "mouse"
         /\ 12 \in Kbc!LineOf(o, c) => o # None /\ o.src = "mouse"
<1>1. o = None => Kbc!LineOf(o, c) = {}
  BY DEF Kbc!LineOf
<1>2. o # None /\ o.src = "mouse" => Kbc!LineOf(o, c) \in {{}, {12}}
  BY DEF Kbc!LineOf
<1>3. o # None /\ o.src # "mouse" => Kbc!LineOf(o, c) \in {{}, {1}}
  BY DEF Kbc!LineOf
<1>4. Kbc!LineOf(None, c) = {}
  BY DEF Kbc!LineOf
<1> QED BY <1>1, <1>2, <1>3, <1>4

(* With no byte of theirs in the output buffer, what is there is nothing   *)
(* to keyboard and mouse.                                                  *)
LEMMA NotTheirs ==
  ASSUME NEW t, NEW h, NEW b, NEW v, NEW w, NEW q
  PROVE  /\ KeysIn(t, h, 0, v, q) => KeysIn(t, h, 0, w, q)
         /\ PacketsIn(t, h, b, 0, v, q) => PacketsIn(t, h, b, 0, w, q)
BY DEF KeysIn, PacketsIn

LEMMA Ps2InvInit == Kbc!Init => Ps2Inv
<1> SUFFICES ASSUME Kbc!Init PROVE Ps2Inv
  OBVIOUS
<1>1. config \in Bytes
  BY Ps2Ok DEF Kbc!Init, Kbc!Ps2Assumption, Bytes
<1>2. Starting
  BY DEF Kbc!Init, Starting, Untouched
<1>3. Kbc!TypeOK
  BY <1>1 DEF Kbc!Init, Kbc!TypeOK, Bytes
<1>4. \A S : <<>> \in Seq(S)
  OBVIOUS
<1> QED BY <1>2, <1>3, <1>4 DEF Ps2Inv, Ps2Types, Kbc!Init

(* init_mouse, step by step: before main only what it waits for is there.  *)
LEMMA BeforeMain == ASSUME Ps2Inv, ps_pc # "main" PROVE Ps2Types /\ Starting /\ ps_serving = None
BY DEF Ps2Inv, Running, Flowing, Starting

LEMMA ConfigKeeps ==
  ASSUME Ps2Inv,
         Kbc!EnableAux \/ Kbc!AskConfig \/ Kbc!ReadConfig \/ Kbc!TellConfig \/ Kbc!WriteConfig
  PROVE  Ps2Inv' /\ UNCHANGED Kbc!streamVars
<1>1. Ps2Types /\ Starting /\ ps_serving = None
  BY BeforeMain DEF Kbc!EnableAux, Kbc!AskConfig, Kbc!ReadConfig, Kbc!TellConfig, Kbc!WriteConfig
<1>2. config \in Bytes /\ last \in Bytes /\ status \in Bytes
  BY <1>1 DEF Ps2Types, Kbc!TypeOK, Bytes
<1>3. CASE Kbc!EnableAux
  <2>1. Kbc!Clear(config, Kbc!AuxOff) \in Bytes
    BY <1>2, ConfigBits
  <2>2. Ps2Types'
    BY <1>1, <1>3, <2>1
    DEF Kbc!EnableAux, Ps2Types, Kbc!TypeOK, Bytes, Kbc!mouseVars, Kbc!cpuVars, Kbc!streamVars
  <2>3. Starting'
    BY <1>1, <1>3
    DEF Kbc!EnableAux, Starting, Untouched, Kbc!mouseVars, Kbc!cpuVars, Kbc!streamVars
  <2> QED BY <1>3, <2>2, <2>3 DEF Ps2Inv, Kbc!EnableAux
<1>4. CASE Kbc!AskConfig
  <2>1. cq' = <<config>> /\ cq' \in Seq(Bytes)
    BY <1>1, <1>2, <1>4 DEF Kbc!AskConfig, Starting
  <2>2. Ps2Types'
    BY <1>1, <1>4, <2>1
    DEF Kbc!AskConfig, Ps2Types, Kbc!TypeOK, Bytes, Kbc!mouseVars, Kbc!cpuVars, Kbc!streamVars
  <2>3. Starting'
    BY <1>1, <1>4, <2>1
    DEF Kbc!AskConfig, Starting, Untouched, Waiting, Kbc!mouseVars, Kbc!cpuVars, Kbc!streamVars
  <2> QED BY <1>4, <2>2, <2>3 DEF Ps2Inv, Kbc!AskConfig
<1>5. CASE Kbc!ReadConfig
  <2>1. Kbc!SetBit(last, Kbc!AuxIrq) \in Bytes
    BY <1>2, ConfigBits
  <2>2. Ps2Types'
    BY <1>1, <1>5, <2>1
    DEF Kbc!ReadConfig, Kbc!Fetch, Ps2Types, Kbc!TypeOK, Bytes, Kbc!mouseVars, Kbc!cpuVars,
        Kbc!streamVars
  <2>3. Starting'
    BY <1>1, <1>5
    DEF Kbc!ReadConfig, Kbc!Waited, Kbc!Fetch, Starting, Untouched, Waiting, Kbc!mouseVars,
        Kbc!cpuVars, Kbc!streamVars
  <2> QED BY <1>5, <2>2, <2>3 DEF Ps2Inv, Kbc!ReadConfig
<1>6. CASE Kbc!TellConfig
  <2>1. Ps2Types'
    BY <1>1, <1>6
    DEF Kbc!TellConfig, Ps2Types, Kbc!TypeOK, Kbc!mouseVars, Kbc!cpuVars, Kbc!streamVars
  <2>2. Starting'
    BY <1>1, <1>6
    DEF Kbc!TellConfig, Starting, Untouched, Kbc!mouseVars, Kbc!cpuVars, Kbc!streamVars
  <2> QED BY <1>6, <2>1, <2>2 DEF Ps2Inv, Kbc!TellConfig
<1>7. CASE Kbc!WriteConfig
  <2>1. latched' \subseteq {1, 12}
    <3>1. Kbc!LineOf(out, status) \in {{}, {1}, {12}}
      BY LineBytes
    <3>2. latched \subseteq {1, 12} /\ latched' = latched \cup Kbc!LineOf(out, status)
      BY <1>1, <1>7 DEF Kbc!WriteConfig, Ps2Types, Kbc!TypeOK
    <3> QED BY <3>1, <3>2
  <2>2. Ps2Types'
    BY <1>1, <1>2, <1>7, <2>1
    DEF Kbc!WriteConfig, Ps2Types, Kbc!TypeOK, Bytes, Kbc!mouseVars, Kbc!streamVars
  <2>3. Starting'
    BY <1>1, <1>7 DEF Kbc!WriteConfig, Starting, Untouched, Kbc!mouseVars, Kbc!streamVars
  <2> QED BY <1>7, <2>2, <2>3 DEF Ps2Inv, Kbc!WriteConfig
<1> QED BY <1>3, <1>4, <1>5, <1>6, <1>7

LEMMA MouseWriteKeeps ==
  ASSUME Ps2Inv,
         \/ Kbc!MouseWrite("defaults", "ack1", 246) \/ Kbc!TakeAck("ack1", "go")
         \/ Kbc!MouseWrite("go", "ack2", 244) \/ Kbc!TakeAck("ack2", "sti") \/ Kbc!Sti
  PROVE  Ps2Inv' /\ UNCHANGED Kbc!streamVars
<1>1. Ps2Types /\ Starting /\ ps_serving = None
  BY BeforeMain DEF Kbc!MouseWrite, Kbc!TakeAck, Kbc!Sti
<1>2. ASSUME NEW from, NEW to, NEW command,
             \/ from = "defaults" /\ to = "ack1" /\ command = 246
             \/ from = "go" /\ to = "ack2" /\ command = 244,
             Kbc!MouseWrite(from, to, command)
      PROVE  Ps2Inv' /\ UNCHANGED Kbc!streamVars
  <2>1. Ps2Types'
    BY <1>1, <1>2
    DEF Kbc!MouseWrite, Ps2Types, Kbc!TypeOK, Kbc!ctlVars, Kbc!cpuVars, Kbc!streamVars
  <2>2. Starting'
    BY <1>1, <1>2
    DEF Kbc!MouseWrite, Starting, Untouched, Kbc!ctlVars, Kbc!cpuVars, Kbc!streamVars
  <2> QED BY <1>2, <2>1, <2>2 DEF Ps2Inv, Kbc!MouseWrite
<1>3. ASSUME NEW from, NEW to,
             \/ from = "ack1" /\ to = "go"
             \/ from = "ack2" /\ to = "sti",
             Kbc!TakeAck(from, to)
      PROVE  Ps2Inv' /\ UNCHANGED Kbc!streamVars
  <2>1. Ps2Types'
    BY <1>1, <1>3
    DEF Kbc!TakeAck, Kbc!Fetch, Ps2Types, Kbc!TypeOK, Kbc!mouseVars, Kbc!cpuVars, Kbc!streamVars
  <2>2. Starting'
    BY <1>1, <1>3, Apart
    DEF Kbc!TakeAck, Kbc!Fetch, Kbc!Waited, Starting, Untouched, Waiting, Kbc!mouseVars,
        Kbc!cpuVars, Kbc!streamVars
  <2> QED BY <1>3, <2>1, <2>2 DEF Ps2Inv, Kbc!TakeAck
<1>4. CASE Kbc!Sti
  <2>1. Ps2Types'
    BY <1>1, <1>4
    DEF Kbc!Sti, Ps2Types, Kbc!TypeOK, Kbc!ctlVars, Kbc!mouseVars, Kbc!cpuVars, Kbc!streamVars
  <2>2. Starting'
    BY <1>1, <1>4
    DEF Kbc!Sti, Starting, Untouched, Kbc!ctlVars, Kbc!mouseVars, Kbc!cpuVars, Kbc!streamVars
  <2> QED BY <1>4, <2>1, <2>2 DEF Ps2Inv, Kbc!Sti
<1> QED BY <1>2, <1>3, <1>4

(* With the output buffer empty no line is latched and no handler runs.    *)
LEMMA Quiet ==
  ASSUME Flowing, out = None
  PROVE  latched = {} /\ ps_serving = None /\ KeyOut = 0 /\ MouseOut = 0
<1>1. latched \cup ({ps_serving} \ {None}) = {}
  BY LineBytes DEF Flowing, OnTheLine
<1>2. KeyOut = 0 /\ MouseOut = 0
  BY DEF KeyOut, MouseOut
<1> QED BY <1>1, <1>2

(* A byte put forward raises its line.                                     *)
LEMMA Raised ==
  ASSUME Flowing, out = None, latched' = latched \cup Kbc!LineOf(out', config),
         UNCHANGED <<ps_serving, config>>
  PROVE  OnTheLine' = Kbc!LineOf(out, config)' /\ (ps_serving \notin latched)'
<1>1. latched = {} /\ ps_serving = None
  BY Quiet
<1>2. Kbc!LineOf(out', config) \in {{}, {1}, {12}}
  BY LineBytes
<1>3. None \notin {1, 12}
  BY Apart
<1>4. Kbc!LineOf(out, config)' = Kbc!LineOf(out', config)
  BY DEF Kbc!LineOf
<1> QED BY <1>1, <1>2, <1>3, <1>4 DEF OnTheLine

(* The devices: a byte is put forward, the mouse answers.                  *)
LEMMA ForwardTypes ==
  ASSUME Ps2Types, NEW src \in Sources, NEW q \in Seq(Bytes), Kbc!Forward(src, q),
         cq' \in Seq(Bytes), kq' \in Seq(Keys), mq' \in Seq(Bytes)
  PROVE  Ps2Types' /\ out' # None /\ out'.src = src /\ last' = Head(q) /\ Head(q) \in Bytes
<1>1. Head(q) \in Bytes
  BY Shorter, Lengths DEF Kbc!Forward
<1>2. PICK o : o = [src |-> src, byte |-> Head(q)]
  OBVIOUS
<1>3. o # None /\ o \in [src : Sources, byte : Bytes]
  BY <1>1, <1>2, Apart
<1>4. o.src = src /\ o.byte = Head(q)
  BY <1>2
<1>5. out' = o /\ last' = Head(q) /\ latched' = latched \cup Kbc!LineOf(o, config)
  BY <1>2 DEF Kbc!Forward
<1>6. Kbc!LineOf(o, config) \in {{}, {1}, {12}}
  BY LineBytes
<1>7. latched \subseteq {1, 12}
  BY DEF Ps2Types, Kbc!TypeOK
<1>8. latched' \subseteq {1, 12}
  BY <1>5, <1>6, <1>7
<1>9. Kbc!TypeOK'
  BY <1>1, <1>3, <1>4, <1>5, <1>8
  DEF Ps2Types, Kbc!TypeOK, Kbc!Forward, Kbc!hostVars, Kbc!mouseVars, Kbc!streamVars, Bytes
<1>10. Ps2Types'
  BY <1>3, <1>5, <1>9
  DEF Ps2Types, Kbc!Forward, Kbc!hostVars, Kbc!mouseVars, Kbc!streamVars
<1> QED BY <1>1, <1>3, <1>4, <1>5, <1>10

LEMMA AnswerKeeps == ASSUME Ps2Inv, Kbc!ForwardAnswer PROVE Ps2Inv' /\ UNCHANGED Kbc!streamVars
<1>1. Ps2Types /\ Starting /\ cq # <<>> /\ out = None
  BY DEF Ps2Inv, Running, Flowing, Kbc!ForwardAnswer, Kbc!Forward
<1>2. ps_pc = "config" /\ cq = <<config>>
  BY <1>1 DEF Starting, Waiting
<1>3. Head(cq) = config /\ Tail(cq) = <<>> /\ cq \in Seq(Bytes)
  BY <1>1, <1>2 DEF Ps2Types
<1>4. cq' = <<>> /\ cq' \in Seq(Bytes) /\ kq' \in Seq(Keys) /\ mq' \in Seq(Bytes)
  BY <1>1, <1>3 DEF Kbc!ForwardAnswer, Ps2Types
<1>5. Ps2Types' /\ out' # None /\ last' = Head(cq)
  BY <1>1, <1>3, <1>4, ForwardTypes DEF Kbc!ForwardAnswer, Sources
<1>6. Starting'
  BY <1>1, <1>2, <1>3, <1>4, <1>5
  DEF Starting, Untouched, Waiting, Kbc!ForwardAnswer, Kbc!Forward, Kbc!hostVars, Kbc!mouseVars,
      Kbc!streamVars
<1> QED BY <1>5, <1>6 DEF Ps2Inv, Kbc!ForwardAnswer, Kbc!Forward

LEMMA KeyForwardKeeps == ASSUME Ps2Inv, Kbc!ForwardKey PROVE Ps2Inv' /\ UNCHANGED Kbc!streamVars
<1>1. Ps2Types /\ Running /\ kq # <<>> /\ out = None
  BY DEF Ps2Inv, Starting, Kbc!ForwardKey, Kbc!Forward
<1>2. kq \in Seq(Keys) /\ kq \in Seq(Bytes) /\ Tail(kq) \in Seq(Keys)
  <2>1. kq \in Seq(Keys)
    BY <1>1 DEF Ps2Types
  <2>2. Keys \subseteq Bytes
    BY Ps2Ok DEF Kbc!Ps2Assumption, Bytes
  <2>3. Tail(kq) \in Seq(Keys)
    BY <1>1, <2>1, HeadTailProperties
  <2>4. kq \in Seq(Bytes)
    BY <2>1, <2>2
  <2> QED BY <2>1, <2>3, <2>4
<1>3. cq' \in Seq(Bytes) /\ kq' \in Seq(Keys) /\ mq' \in Seq(Bytes)
  BY <1>1, <1>2 DEF Kbc!ForwardKey, Ps2Types
<1>4. Ps2Types' /\ out' # None /\ out'.src = "keyboard" /\ last' = Head(kq)
  BY <1>1, <1>2, <1>3, ForwardTypes DEF Kbc!ForwardKey, Sources
<1>5. KeyOut' = 1 /\ MouseOut' = 0
  BY <1>4 DEF KeyOut, MouseOut
<1>6. OnTheLine' = Kbc!LineOf(out, config)' /\ (ps_serving \notin latched)'
  BY <1>1, Raised DEF Running, Kbc!ForwardKey, Kbc!Forward
<1>7. /\ KeysIn(typed, handled, 0, last, kq)
      /\ PacketsIn(moved, drawn, mouse_bytes, 0, last, mq)
  BY <1>1, Quiet DEF Running, Flowing
<1>8. KeysIn(typed, handled, 1, Head(kq), Tail(kq))
  BY <1>1, <1>2, <1>7, KeyForwarded DEF Ps2Types
<1>9. PacketsIn(moved, drawn, mouse_bytes, 0, Head(kq), mq)
  BY <1>7, NotTheirs
<1>10. kq' = Tail(kq) /\ UNCHANGED <<ps_pc, cq, order, mq, mouse_bytes, typed, handled, moved, drawn>>
  BY DEF Kbc!ForwardKey, Kbc!Forward, Kbc!hostVars, Kbc!mouseVars, Kbc!streamVars
<1>11. Flowing'
  BY <1>1, <1>4, <1>5, <1>6, <1>8, <1>9, <1>10 DEF Running, Flowing
<1> QED BY <1>1, <1>4, <1>10, <1>11 DEF Ps2Inv, Running, Untouched, Kbc!streamVars

LEMMA MouseForwardKeeps == ASSUME Ps2Inv, Kbc!ForwardMouse PROVE Ps2Inv' /\ UNCHANGED Kbc!streamVars
<1>1. Ps2Types /\ mq # <<>> /\ out = None /\ mq \in Seq(Bytes) /\ Len(mouse_bytes) < 3
  BY DEF Ps2Inv, Ps2Types, Kbc!TypeOK, Kbc!ForwardMouse, Kbc!Forward
<1>2. Tail(mq) \in Seq(Bytes)
  BY <1>1, HeadTailProperties
<1>3. cq' \in Seq(Bytes) /\ kq' \in Seq(Keys) /\ mq' \in Seq(Bytes)
  BY <1>1, <1>2 DEF Kbc!ForwardMouse, Ps2Types
<1>4. Ps2Types' /\ out' # None /\ out'.src = "mouse" /\ last' = Head(mq)
  BY <1>1, <1>3, ForwardTypes DEF Kbc!ForwardMouse, Sources
<1>5. /\ mq' = Tail(mq)
      /\ UNCHANGED <<ps_pc, cq, kq, order, config, ps_serving, mouse_bytes, typed, handled, moved, drawn>>
  BY DEF Kbc!ForwardMouse, Kbc!Forward, Kbc!hostVars, Kbc!mouseVars, Kbc!streamVars
<1>6. CASE Starting
  <2>1. ps_pc \in {"ack1", "ack2"} /\ mq = <<Kbc!Ack>>
    BY <1>1, <1>6, Apart DEF Starting, Waiting
  <2>2. Head(mq) = Kbc!Ack /\ Tail(mq) = <<>>
    BY <2>1
  <2>3. Starting'
    BY <1>1, <1>4, <1>5, <1>6, <2>1, <2>2, Apart DEF Starting, Untouched, Waiting
  <2> QED BY <1>4, <1>5, <2>3 DEF Ps2Inv, Kbc!streamVars
<1>7. CASE Running
  <2>1. KeyOut' = 0 /\ MouseOut' = 1
    BY <1>4 DEF KeyOut, MouseOut
  <2>2. OnTheLine' = Kbc!LineOf(out, config)' /\ (ps_serving \notin latched)'
    BY <1>7, Raised DEF Running, Kbc!ForwardMouse, Kbc!Forward
  <2>3. /\ KeysIn(typed, handled, 0, last, kq)
        /\ PacketsIn(moved, drawn, mouse_bytes, 0, last, mq)
    BY <1>1, <1>7, Quiet DEF Running, Flowing
  <2>4. KeysIn(typed, handled, 0, Head(mq), kq)
    BY <2>3, NotTheirs
  <2>5. moved \in Seq(Packets) /\ drawn \in Seq(Packets) /\ mouse_bytes \in Seq(Bytes)
    BY <1>1 DEF Ps2Types
  <2>6. PacketsIn(moved, drawn, mouse_bytes, 1, Head(mq), Tail(mq))
    BY <1>1, <2>3, <2>5, ByteForwarded
  <2>7. Flowing'
    BY <1>4, <1>5, <1>7, <2>1, <2>2, <2>4, <2>6 DEF Running, Flowing
  <2> QED BY <1>4, <1>5, <1>7, <2>7 DEF Ps2Inv, Running, Untouched, Kbc!streamVars
<1> QED BY <1>6, <1>7 DEF Ps2Inv

LEMMA AnsweredKeeps == ASSUME Ps2Inv, Kbc!MouseAnswers PROVE Ps2Inv' /\ UNCHANGED Kbc!streamVars
<1>1. Ps2Types /\ Starting /\ order # None
  BY DEF Ps2Inv, Running, Flowing, Kbc!MouseAnswers
<1>2. ps_pc \in {"ack1", "ack2"} /\ mq = <<>> /\ out = None
  BY <1>1 DEF Starting
<1>3. mq' = <<Kbc!Ack>> /\ mq' \in Seq(Bytes)
  BY <1>2 DEF Kbc!MouseAnswers, Kbc!Ack, Bytes
<1>4. Ps2Types'
  BY <1>1, <1>3 DEF Kbc!MouseAnswers, Ps2Types, Kbc!TypeOK, Kbc!hostVars, Kbc!cpuVars, Kbc!streamVars
<1>5. Starting'
  BY <1>1, <1>2, <1>3
  DEF Kbc!MouseAnswers, Starting, Untouched, Waiting, Kbc!hostVars, Kbc!cpuVars, Kbc!streamVars
<1> QED BY <1>4, <1>5 DEF Ps2Inv, Kbc!MouseAnswers

(* An interrupt is taken: its line goes from latched to served.            *)
LEMMA AcceptKeeps ==
  ASSUME Ps2Inv, NEW l \in {1, 12}, Kbc!Accept(l) PROVE Ps2Inv' /\ UNCHANGED Kbc!streamVars
<1>1. /\ ps_pc = "main" /\ ps_serving = None /\ l \in latched /\ ps_serving' = l
      /\ latched' = latched \ {l}
      /\ UNCHANGED <<ps_pc, status, out, last, cq, kq, mq, config, order, mouse_bytes, typed, handled,
                     moved, drawn>>
  BY DEF Kbc!Accept, Kbc!hostVars, Kbc!ctlVars, Kbc!mouseVars, Kbc!streamVars
<1>2. Ps2Types'
  BY <1>1 DEF Ps2Inv, Ps2Types, Kbc!TypeOK
<1>3. CASE Starting
  <2>1. Starting'
    BY <1>1, <1>3 DEF Starting, Untouched, Waiting
  <2> QED BY <1>1, <1>2, <2>1 DEF Ps2Inv, Kbc!streamVars
<1>4. CASE Running
  <2>1. l # None
    BY Apart
  <2>2. OnTheLine' = OnTheLine /\ (ps_serving \notin latched)'
    BY <1>1, <2>1 DEF OnTheLine
  <2>3. KeyOut' = KeyOut /\ MouseOut' = MouseOut
    BY <1>1 DEF KeyOut, MouseOut
  <2>4. Kbc!LineOf(out, config)' = Kbc!LineOf(out, config)
    BY <1>1 DEF Kbc!LineOf
  <2>5. Flowing'
    BY <1>1, <1>4, <2>2, <2>3, <2>4 DEF Running, Flowing
  <2> QED BY <1>1, <1>2, <1>4, <2>5 DEF Ps2Inv, Running, Untouched, Kbc!streamVars
<1> QED BY <1>3, <1>4 DEF Ps2Inv

(* When a handler runs, the byte of its line is there, and no line waits.  *)
LEMMA Served ==
  ASSUME Ps2Types, Flowing, ps_serving # None
  PROVE  /\ latched = {} /\ out # None /\ out.src \in {"keyboard", "mouse"} /\ last \in Bytes
         /\ ps_serving = 1 => KeyOut = 1 /\ MouseOut = 0
         /\ ps_serving = 12 => KeyOut = 0 /\ MouseOut = 1
<1>1. ps_serving \in Kbc!LineOf(out, config) /\ ps_serving \notin latched
      /\ latched \subseteq Kbc!LineOf(out, config)
  BY DEF Flowing, OnTheLine
<1>2. Kbc!LineOf(out, config) \in {{}, {1}, {12}}
  BY LineBytes
<1>3. latched = {} /\ ps_serving \in {1, 12}
  BY <1>1, <1>2
<1>4. out # None /\ out.src # "controller"
  BY <1>1, <1>3, LineBytes DEF Flowing
<1>5. out \in [src : Sources, byte : Bytes] /\ last \in Bytes
  BY <1>4 DEF Ps2Types, Kbc!TypeOK, Bytes
<1>6. out.src \in {"keyboard", "mouse"}
  BY <1>4, <1>5 DEF Sources
<1>7. ps_serving = 1 => out.src = "keyboard"
  BY <1>1, <1>6, LineBytes
<1>8. ps_serving = 12 => out.src = "mouse"
  BY <1>1, LineBytes
<1> QED BY <1>3, <1>4, <1>5, <1>6, <1>7, <1>8 DEF KeyOut, MouseOut

(* A handler that has run leaves the output buffer and the lines empty.    *)
LEMMA Emptied ==
  ASSUME Flowing, latched = {}, latched' = {}, out' = None, ps_serving' = None,
         UNCHANGED <<ps_pc, cq, order>>,
         KeysIn(typed, handled, 0, last, kq)', PacketsIn(moved, drawn, mouse_bytes, 0, last, mq)'
  PROVE  Flowing'
<1>1. KeyOut' = 0 /\ MouseOut' = 0
  BY DEF KeyOut, MouseOut
<1>2. OnTheLine' = Kbc!LineOf(out, config)'
  <2>1. Kbc!LineOf(None, config') = {}
    BY LineBytes
  <2>2. Kbc!LineOf(out, config)' = Kbc!LineOf(out', config')
    BY DEF Kbc!LineOf
  <2> QED BY <2>1, <2>2 DEF OnTheLine
<1> QED BY <1>1, <1>2 DEF Flowing

(* The keyboard's handler gets the next key, or the mouse's answer from    *)
(* init_mouse again, which is no scancode.                                 *)
LEMMA KeyboardKeeps ==
  ASSUME Ps2Inv, Kbc!keyboard_handler
  PROVE  Ps2Inv' /\ (UNCHANGED Kbc!streamVars \/ Kbc!Streams!HandleKey)
<1>1. /\ ps_serving = 1 /\ ps_serving' = None /\ out' = None
      /\ handled' = IF Kbc!Noticed(last) THEN Append(handled, last) ELSE handled
      /\ UNCHANGED <<ps_pc, status, last, cq, kq, mq, config, order, latched, mouse_bytes, typed, moved,
                     drawn>>
  BY DEF Kbc!keyboard_handler, Kbc!Fetch, Kbc!hostVars, Kbc!mouseVars
<1>2. Ps2Types /\ 1 # None
  BY Apart DEF Ps2Inv
<1>3. CASE Starting
  <2>1. ~Kbc!Noticed(last) /\ ps_pc = "main"
    <3>1. ps_pc = "main" /\ last = Kbc!Ack
      BY <1>1, <1>2, <1>3 DEF Starting
    <3>2. ~Kbc!Noticed(Kbc!Ack)
      BY DEF Kbc!Noticed, Kbc!Ack
    <3> QED BY <3>1, <3>2
  <2>2. handled' = handled
    BY <1>1, <2>1
  <2>3. Starting'
    BY <1>1, <1>3, <2>1, <2>2 DEF Starting, Untouched
  <2>4. Ps2Types'
    BY <1>1, <1>2, <2>2 DEF Ps2Types, Kbc!TypeOK
  <2> QED BY <1>1, <2>2, <2>3, <2>4 DEF Ps2Inv, Kbc!streamVars
<1>4. CASE Running
  <2>1. /\ typed \in Seq(Keys) /\ handled \in Seq(Keys) /\ kq \in Seq(Keys)
        /\ moved \in Seq(Packets) /\ drawn \in Seq(Packets) /\ mouse_bytes \in Seq(Bytes)
    BY <1>2 DEF Ps2Types
  <2>2. latched = {} /\ KeyOut = 1 /\ MouseOut = 0
    BY <1>1, <1>2, <1>4, Served DEF Running
  <2>3. KeysIn(typed, handled, 1, last, kq) /\ PacketsIn(moved, drawn, mouse_bytes, 0, last, mq)
    BY <1>4, <2>2 DEF Running, Flowing
  <2>4. /\ Len(handled) < Len(typed) /\ last = typed[Len(handled) + 1] /\ last \in Keys
        /\ KeysIn(typed, Append(handled, last), 0, last, kq)
    BY <2>1, <2>3, KeyHandled
  <2>5. Kbc!Noticed(last)
    BY <2>4, Ps2Ok DEF Kbc!Ps2Assumption
  <2>6. handled' = Append(handled, last)
    BY <1>1, <2>5
  <2>7. Append(handled, last) \in Seq(Keys)
    BY <2>1, <2>4, AppendProperties
  <2>8. Ps2Types'
    BY <1>1, <1>2, <2>6, <2>7 DEF Ps2Types, Kbc!TypeOK
  <2>9. KeysIn(typed, handled, 0, last, kq)' /\ PacketsIn(moved, drawn, mouse_bytes, 0, last, mq)'
    BY <1>1, <2>3, <2>4, <2>6
  <2>10. Flowing'
    BY <1>1, <1>4, <2>2, <2>9, Emptied DEF Running
  <2>11. Kbc!Streams!HandleKey
    BY <1>1, <2>4, <2>6 DEF Kbc!Streams!HandleKey
  <2> QED BY <1>1, <1>4, <2>8, <2>10, <2>11 DEF Ps2Inv, Running, Untouched
<1> QED BY <1>3, <1>4 DEF Ps2Inv

(* The mouse's handler gets the next byte of the packet it collects.       *)
LEMMA MouseHandlerKeeps ==
  ASSUME Ps2Inv, Kbc!mouse_handler
  PROVE  Ps2Inv' /\ (UNCHANGED Kbc!streamVars \/ Kbc!Streams!DrawPacket)
<1>1. /\ ps_serving = 12 /\ ps_serving' = None
      /\ UNCHANGED <<ps_pc, status, last, cq, kq, mq, config, order, latched, typed, handled, moved>>
  BY DEF Kbc!mouse_handler, Kbc!Fetch, Kbc!hostVars, Kbc!mouseVars
<1>2. Ps2Types /\ 12 # None
  BY Apart DEF Ps2Inv
<1>3. CASE Starting
  <2>1. ps_pc = "main" /\ out = None
    BY <1>1, <1>2, <1>3 DEF Starting
  <2>2. UNCHANGED <<out, mouse_bytes, drawn>>
    BY <2>1 DEF Kbc!mouse_handler
  <2>3. Starting'
    BY <1>1, <1>3, <2>1, <2>2 DEF Starting, Untouched
  <2>4. Ps2Types'
    BY <1>1, <1>2, <2>2 DEF Ps2Types, Kbc!TypeOK
  <2> QED BY <1>1, <2>2, <2>3, <2>4 DEF Ps2Inv, Kbc!streamVars
<1>4. CASE Running
  <2>1. /\ moved \in Seq(Packets) /\ drawn \in Seq(Packets) /\ mouse_bytes \in Seq(Bytes)
        /\ mq \in Seq(Bytes) /\ Len(mouse_bytes) < 3 /\ last \in Bytes
    BY <1>2 DEF Ps2Types, Kbc!TypeOK, Bytes
  <2>2. latched = {} /\ KeyOut = 0 /\ MouseOut = 1 /\ out # None /\ out.src = "mouse"
    <3>1. latched = {} /\ out # None /\ KeyOut = 0 /\ MouseOut = 1
      BY <1>1, <1>2, <1>4, Served DEF Running
    <3> QED BY <3>1 DEF MouseOut
  <2>3. KeysIn(typed, handled, 0, last, kq) /\ PacketsIn(moved, drawn, mouse_bytes, 1, last, mq)
    BY <1>4, <2>2 DEF Running, Flowing
  <2>4. out' = None /\ Kbc!Collect
    BY <2>2 DEF Kbc!mouse_handler, Kbc!Fetch
  <2>5. PICK x : x = Append(mouse_bytes, last)
    OBVIOUS
  <2>6. PICK l \in Nat : l = Len(mouse_bytes)
    BY <2>1, Lengths
  <2>7. x \in Seq(Bytes) /\ Len(x) = l + 1 /\ l < 3
    BY <2>1, <2>5, <2>6, Longer
  <2>8. KeysIn(typed, handled, 0, last, kq)'
    BY <1>1, <2>3
  <2>9. CASE l < 2
    <3>1. mouse_bytes' = x /\ drawn' = drawn
      BY <2>4, <2>5, <2>7, <2>9 DEF Kbc!Collect
    <3>2. PacketsIn(moved, drawn, x, 0, last, mq)
      BY <2>1, <2>3, <2>5, ByteCollected
    <3>3. Flowing'
      <4>1. PacketsIn(moved, drawn, mouse_bytes, 0, last, mq)'
        BY <1>1, <3>1, <3>2
      <4> QED BY <1>1, <1>4, <2>2, <2>4, <2>8, <4>1, Emptied DEF Running
    <3>4. Len(x) < 3
      BY <2>7, <2>9
    <3>5. Ps2Types'
      BY <1>1, <1>2, <2>4, <2>7, <3>1, <3>4 DEF Ps2Types, Kbc!TypeOK
    <3> QED BY <1>1, <1>4, <3>1, <3>3, <3>5 DEF Ps2Inv, Running, Untouched, Kbc!streamVars
  <2>10. CASE ~(l < 2)
    <3>1. /\ x = moved[Len(drawn) + 1] /\ x \in Packets /\ Len(drawn) < Len(moved)
          /\ PacketsIn(moved, Append(drawn, x), <<>>, 0, last, mq)
      <4>1. Len(mouse_bytes) > 1
        BY <2>6, <2>10
      <4> QED BY <2>1, <2>3, <2>5, <4>1, PacketCompleted
    <3>2. Kbc!On(x[1], Kbc!Marked)
      BY <3>1, Ps2Ok DEF Kbc!Ps2Assumption
    <3>3. ~(Len(x) < 3)
      BY <2>7, <2>10
    <3>4. mouse_bytes' = <<>> /\ drawn' = Append(drawn, x)
      BY <2>4, <2>5, <3>2, <3>3 DEF Kbc!Collect
    <3>5. Flowing'
      <4>1. PacketsIn(moved, drawn, mouse_bytes, 0, last, mq)'
        BY <1>1, <3>1, <3>4
      <4> QED BY <1>1, <1>4, <2>2, <2>4, <2>8, <4>1, Emptied DEF Running
    <3>6. Append(drawn, x) \in Seq(Packets)
      BY <2>1, <3>1, AppendProperties
    <3>7. Ps2Types'
      BY <1>1, <1>2, <2>4, <3>4, <3>6 DEF Ps2Types, Kbc!TypeOK
    <3>8. Kbc!Streams!DrawPacket
      BY <1>1, <3>1, <3>4 DEF Kbc!Streams!DrawPacket
    <3> QED BY <1>1, <1>4, <3>5, <3>7, <3>8 DEF Ps2Inv, Running, Untouched
  <2> QED BY <2>9, <2>10
<1> QED BY <1>3, <1>4 DEF Ps2Inv

(* Once the kernel is up and nothing is left over from before, everything  *)
(* is as it has to be for the first key or movement.                       *)
LEMMA UpFlowing == ASSUME Starting, Kbc!Up PROVE Flowing
<1>1. /\ ps_pc = "main" /\ latched = {} /\ ps_serving = None
      /\ out = None /\ cq = <<>> /\ mq = <<>> /\ kq = <<>> /\ order = None
      /\ typed = <<>> /\ handled = <<>> /\ moved = <<>> /\ drawn = <<>> /\ mouse_bytes = <<>>
  BY DEF Starting, Untouched, Kbc!Up
<1>2. KeyOut = 0 /\ MouseOut = 0
  BY <1>1 DEF KeyOut, MouseOut
<1>3. Kbc!LineOf(out, config) = {}
  BY <1>1, LineBytes
<1>4. Len(<<>>) = 0 /\ 1 .. 0 = {}
  OBVIOUS
<1>5. KeysIn(<<>>, <<>>, 0, last, <<>>)
  BY <1>4 DEF KeysIn
<1>6. PacketsIn(<<>>, <<>>, <<>>, 0, last, <<>>)
  BY <1>4 DEF PacketsIn
<1> QED BY <1>1, <1>2, <1>3, <1>5, <1>6 DEF Flowing, OnTheLine

(* Somebody types and moves the mouse.                                     *)
LEMMA TouchedFlowing ==
  ASSUME Ps2Inv, Kbc!Up \/ typed # <<>> \/ moved # <<>>
  PROVE  Flowing
BY UpFlowing DEF Ps2Inv, Starting, Running, Untouched

LEMMA StrikeKeeps ==
  ASSUME Ps2Inv, NEW k \in Keys, Kbc!Strike(k)
  PROVE  Ps2Inv' /\ Kbc!Streams!Strike
<1>1. /\ kq' = Append(kq, k) /\ typed' = Append(typed, k)
      /\ UNCHANGED <<ps_pc, status, out, last, cq, mq, config, order, latched, ps_serving, mouse_bytes,
                     handled, moved, drawn>>
  BY DEF Kbc!Strike, Kbc!hostVars, Kbc!mouseVars, Kbc!cpuVars
<1>2. Ps2Types /\ Flowing
  BY TouchedFlowing DEF Ps2Inv, Kbc!Strike
<1>3. typed \in Seq(Keys) /\ handled \in Seq(Keys) /\ kq \in Seq(Keys)
  BY <1>2 DEF Ps2Types
<1>4. /\ Append(typed, k) \in Seq(Keys) /\ Append(kq, k) \in Seq(Keys)
      /\ Append(typed, k) # <<>>
  BY <1>3, AppendProperties
<1>5. Ps2Types'
  BY <1>1, <1>2, <1>4 DEF Ps2Types, Kbc!TypeOK
<1>6. KeyOut \in 0 .. 1 /\ KeyOut' = KeyOut /\ MouseOut' = MouseOut
  BY <1>1 DEF KeyOut, MouseOut
<1>7. KeysIn(Append(typed, k), handled, KeyOut, last, Append(kq, k))
  BY <1>2, <1>3, <1>6, KeyStruck DEF Flowing
<1>8. OnTheLine' = OnTheLine /\ Kbc!LineOf(out, config)' = Kbc!LineOf(out, config)
  BY <1>1 DEF OnTheLine, Kbc!LineOf
<1>9. Flowing'
  BY <1>1, <1>2, <1>6, <1>7, <1>8 DEF Flowing
<1>10. ~Untouched'
  BY <1>1, <1>4 DEF Untouched
<1>11. Kbc!Streams!Strike
  BY <1>1 DEF Kbc!Streams!Strike
<1> QED BY <1>5, <1>9, <1>10, <1>11 DEF Ps2Inv, Running

LEMMA MoveKeeps ==
  ASSUME Ps2Inv, NEW p \in Packets, Kbc!Move(p)
  PROVE  Ps2Inv' /\ Kbc!Streams!Move
<1>1. /\ mq' = mq \o p /\ moved' = Append(moved, p)
      /\ UNCHANGED <<ps_pc, status, out, last, cq, kq, config, order, latched, ps_serving, mouse_bytes,
                     typed, handled, drawn>>
  BY DEF Kbc!Move, Kbc!hostVars, Kbc!mouseVars, Kbc!cpuVars
<1>2. Ps2Types /\ Flowing
  BY TouchedFlowing DEF Ps2Inv, Kbc!Move
<1>3. /\ moved \in Seq(Packets) /\ drawn \in Seq(Packets) /\ mouse_bytes \in Seq(Bytes)
      /\ mq \in Seq(Bytes) /\ Len(mouse_bytes) < 3 /\ p \in Seq(Bytes)
  BY <1>2, PacketBytes DEF Ps2Types, Kbc!TypeOK
<1>4. Append(moved, p) \in Seq(Packets) /\ Append(moved, p) # <<>>
  BY <1>3, AppendProperties
<1>5. mq \o p \in Seq(Bytes)
  BY <1>3, ConcatProperties
<1>6. Ps2Types'
  BY <1>1, <1>2, <1>4, <1>5 DEF Ps2Types, Kbc!TypeOK
<1>7. MouseOut \in 0 .. 1 /\ KeyOut' = KeyOut /\ MouseOut' = MouseOut
  BY <1>1 DEF KeyOut, MouseOut
<1>8. PacketsIn(Append(moved, p), drawn, mouse_bytes, MouseOut, last, mq \o p)
  BY <1>2, <1>3, <1>7, PacketSent DEF Flowing
<1>9. OnTheLine' = OnTheLine /\ Kbc!LineOf(out, config)' = Kbc!LineOf(out, config)
  BY <1>1 DEF OnTheLine, Kbc!LineOf
<1>10. Flowing'
  BY <1>1, <1>2, <1>7, <1>8, <1>9 DEF Flowing
<1>11. ~Untouched'
  BY <1>1, <1>4 DEF Untouched
<1>12. Kbc!Streams!Move
  BY <1>1 DEF Kbc!Streams!Move
<1> QED BY <1>6, <1>10, <1>11, <1>12 DEF Ps2Inv, Running

LEMMA Ps2InvStep ==
  ASSUME Ps2Inv, [Kbc!Next]_Kbc!vars
  PROVE  Ps2Inv' /\ [Kbc!Streams!Next]_Kbc!Streams!vars
<1>1. CASE UNCHANGED Kbc!vars
  <2>1. UNCHANGED <<ps_pc, status, out, last, cq, kq, mq, config, order, latched, ps_serving,
                    mouse_bytes, typed, handled, moved, drawn>>
    BY <1>1 DEF Kbc!vars, Kbc!hostVars, Kbc!ctlVars, Kbc!mouseVars, Kbc!cpuVars, Kbc!streamVars
  <2>2. Ps2Types'
    BY <2>1 DEF Ps2Inv, Ps2Types, Kbc!TypeOK
  <2>3. Starting => Starting'
    BY <2>1 DEF Starting, Untouched, Waiting
  <2>4. Running => Running'
    BY <2>1 DEF Running, Flowing, Untouched, OnTheLine, Kbc!LineOf, KeyOut, MouseOut
  <2> QED BY <2>1, <2>2, <2>3, <2>4 DEF Ps2Inv, Kbc!Streams!vars
<1>2. UNCHANGED Kbc!streamVars => UNCHANGED Kbc!Streams!vars
  BY DEF Kbc!streamVars, Kbc!Streams!vars
<1>3. CASE Kbc!Devices
  BY <1>2, <1>3, AnswerKeeps, KeyForwardKeeps, MouseForwardKeeps, AnsweredKeeps DEF Kbc!Devices
<1>4. CASE Kbc!InitMouse \/ Kbc!Sti
  BY <1>2, <1>4, ConfigKeeps, MouseWriteKeeps DEF Kbc!InitMouse
<1>5. ASSUME NEW l \in {1, 12}, Kbc!Accept(l) PROVE Ps2Inv' /\ UNCHANGED Kbc!Streams!vars
  BY <1>2, <1>5, AcceptKeeps
<1>6. CASE Kbc!keyboard_handler
  BY <1>2, <1>6, KeyboardKeeps DEF Kbc!Streams!Next
<1>7. CASE Kbc!mouse_handler
  BY <1>2, <1>7, MouseHandlerKeeps DEF Kbc!Streams!Next
<1>8. ASSUME NEW k \in Keys, Kbc!Strike(k) PROVE Ps2Inv' /\ Kbc!Streams!Next
  BY <1>8, StrikeKeeps DEF Kbc!Streams!Next
<1>9. ASSUME NEW p \in Packets, Kbc!Move(p) PROVE Ps2Inv' /\ Kbc!Streams!Next
  BY <1>9, MoveKeeps DEF Kbc!Streams!Next
<1> QED BY <1>1, <1>3, <1>4, <1>5, <1>6, <1>7, <1>8, <1>9 DEF Kbc!Next, Kbc!Host

THEOREM Ps2Invariant == Kbc!Spec => []Ps2Inv
<1>1. Ps2Inv /\ [Kbc!Next]_Kbc!vars => Ps2Inv'
  BY Ps2InvStep
<1> QED BY <1>1, Ps2InvInit, PTL DEF Kbc!Spec

(* Whatever is struck and moved, and however the handlers and the devices  *)
(* interleave: what a handler makes of the bytes it reads from the port    *)
(* both share is the next key that was struck or the next movement that    *)
(* was made, complete (drivers/keyboard.c 58-90, drivers/mouse.c 87-99).   *)
THEOREM StreamsNeverMixed == Kbc!Spec => Kbc!Streams!Safe
<1>1. Kbc!Init => Kbc!Streams!Init
  BY DEF Kbc!Init, Kbc!Streams!Init
<1>2. Ps2Inv /\ [Kbc!Next]_Kbc!vars => [Kbc!Streams!Next]_Kbc!Streams!vars
  BY Ps2InvStep
<1> QED BY <1>1, <1>2, Ps2Invariant, PTL DEF Kbc!Spec, Kbc!Streams!Safe

-----------------------------------------------------------------------------
(* The five components side by side.                                       *)
LEMMA EachMoves ==
  ASSUME [HwNext]_hwVars
  PROVE  /\ [Next]_vars /\ [DiskNext]_diskVars /\ [PicNext]_picVars
         /\ [Kbc!Next]_Kbc!vars /\ [PointerNext]_pointerVars
<1>1. UNCHANGED ps2Vars => UNCHANGED Kbc!vars
  BY DEF ps2Vars, Kbc!vars, Kbc!hostVars, Kbc!ctlVars, Kbc!mouseVars, Kbc!cpuVars, Kbc!streamVars
<1>2. CASE UNCHANGED hwVars
  BY <1>1, <1>2 DEF hwVars
<1> QED BY <1>1, <1>2 DEF HwNext, TablesMove, DiskMoves, PicMoves, Ps2Moves, PointerMoves

(* No counter leaves its width, no register its bits, no pointer the       *)
(* screen, whichever of the components moves.                              *)
THEOREM HardwareTypesAlways == HwSpec => []HardwareTypes
<1>1. HwSpec => Spec /\ DiskSpec /\ PicSpec /\ Kbc!Spec /\ PointerSpec
  <2>1. HwInit => Init /\ DiskInit /\ PicInit /\ Kbc!Init /\ PointerInit
    BY DEF HwInit
  <2>2. [HwNext]_hwVars =>
          /\ [Next]_vars /\ [DiskNext]_diskVars /\ [PicNext]_picVars
          /\ [Kbc!Next]_Kbc!vars /\ [PointerNext]_pointerVars
    BY EachMoves
  <2> QED BY <2>1, <2>2, PTL DEF HwSpec, Spec, DiskSpec, PicSpec, Kbc!Spec, PointerSpec
<1>2. PicSpec => []PicTypeOK
  <2>1. PicInit => PicInv
    BY InvInit
  <2>2. PicInv /\ [PicNext]_picVars => PicInv'
    BY InvStep
  <2>3. PicInv => PicTypeOK
    BY DEF PicInv
  <2> QED BY <2>1, <2>2, <2>3, PTL DEF PicSpec
<1>3. Ps2Inv => Kbc!TypeOK
  BY DEF Ps2Inv, Ps2Types
<1>4. PointerInv => PointerTypeOK
  BY DEF PointerInv
<1> QED BY <1>1, <1>2, <1>3, <1>4, TypeCorrect, DiskTypesAlways, Ps2Invariant, PointerInvariant, PTL
        DEF HardwareTypes
===============================================================================
