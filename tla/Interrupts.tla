------------------------------ MODULE Interrupts ------------------------------
(***************************************************************************)
(* Hardware interrupts: the two controllers as pic_remap leaves them, the  *)
(* stubs of interrupt.asm, what each handler acknowledges, and the ticks   *)
(* the timer counts on the way.                                            *)
(*                                                                         *)
(* A line that is raised is latched once, however often it is raised, and  *)
(* is taken between two instructions of main, where alone the interrupt    *)
(* flag is set.  The ticks go on while a handler runs.  A short handler    *)
(* takes less than a tick, which is Period steps of the processor;         *)
(* "command" stands for whatever takes longer: a command of the shell, or  *)
(* a key that scrolls the screen.                                          *)
(*                                                                         *)
(* The 32-bit counter of ticks wraps at Wrap; elapsed and lost, which      *)
(* nothing in the kernel keeps, count the ticks of the timer chip and      *)
(* those nobody counted, and wrap with it.                                 *)
(***************************************************************************)
EXTENDS Integers, FiniteSets

CONSTANTS
  Period,   \* steps of the processor in a tick
  Burst,    \* requests of the other devices in a tick
  Wrap      \* 2^32

VARIABLES
  irr,          \* lines that are latched
  inService,    \* lines the controllers believe are being served; 2 is the cascade
  at, line,     \* where the processor is, and in the handler of which line
  timer_ticks,
  elapsed, lost,
  since, burst  \* steps and requests since the last tick

cpuVars == <<irr, inService, at, line, timer_ticks>>
tickVars == <<elapsed, lost>>
picVars == <<cpuVars, tickVars, since, burst>>

ASSUME InterruptsAssumption ==
  /\ Period \in Nat /\ Burst \in Nat /\ Wrap \in Nat \ {0}
  /\ 3 + 4 * Burst < Period  \* time for the tick and the requests, if all are short

Timer == 0
Keyboard == 1
Cascade == 2
Network == 11
Mouse == 12
AtaDrive == 14
NoLine == 15  \* not a line of any device here

(* pic_remap: 0x20 and 0x28, the slave on line 2, no line masked.          *)
Vector(l) == IF l < 8 THEN 32 + l ELSE 40 + (l - 8)
(* isr_install *)
Installed == {0, 13, 14, 32, 33, 43, 44, 46, 128}

Lines == {Timer, Keyboard, Network, Mouse, AtaDrive}
OnSlave(l) == l >= 8
Input(l) == IF OnSlave(l) THEN Cascade ELSE l

(* A controller offers a line above all those it believes in service.      *)
Offered(l) ==
  /\ l \in irr
  /\ \A s \in inService : ~OnSlave(s) => Input(l) < s
  /\ OnSlave(l) => \A s \in inService : OnSlave(s) => l < s
First(l) == Offered(l) /\ \A k \in irr : Offered(k) => l <= k

(* 0x20 to the port of a controller: its highest line is done.             *)
Highest(S) == {s \in S : \A t \in S : s <= t}
EoiMaster(S) == S \ Highest({s \in S : ~OnSlave(s)})
EoiSlave(S) == S \ Highest({s \in S : OnSlave(s)})

Long == at \in {"init", "command"}
Stopped == at \in {"stopped", "fault"}
Step == since' = IF since < Period THEN since + 1 ELSE since

-----------------------------------------------------------------------------
(* The devices. *)

Tick ==
  /\ since = Period \/ Long \/ Stopped
  /\ elapsed' = (elapsed + 1) % Wrap
  /\ IF Timer \in irr THEN lost' = (lost + 1) % Wrap /\ UNCHANGED irr
                      ELSE irr' = irr \cup {Timer} /\ UNCHANGED lost
  /\ since' = 0 /\ burst' = 0
  /\ UNCHANGED <<inService, at, line, timer_ticks>>

Raise(l) ==
  /\ burst < Burst /\ burst' = burst + 1
  /\ irr' = irr \cup {l}
  /\ UNCHANGED <<inService, at, line, timer_ticks, tickVars, since>>

-----------------------------------------------------------------------------
(* sti in main, after the timer and the mouse were set up.                 *)
MainSti ==
  /\ at = "init" /\ at' = "main"
  /\ Step
  /\ UNCHANGED <<irr, inService, line, timer_ticks, tickVars, burst>>

MainLoops ==
  /\ at = "main" /\ \A l \in irr : ~Offered(l)
  /\ since < Period /\ Step
  /\ UNCHANGED <<cpuVars, tickVars, burst>>

(* The processor takes the first line; the gate clears the flag.           *)
Accept(l) ==
  /\ at = "main" /\ First(l)
  /\ irr' = irr \ {l} /\ inService' = inService \cup {l, Input(l)}
  /\ at' = IF Vector(l) \in Installed THEN "handler" ELSE "fault"
  /\ line' = l
  /\ Step /\ UNCHANGED <<timer_ticks, tickVars, burst>>

(* The acknowledgement is forgotten.                                       *)
TimerHandler_NoEoi ==
  /\ at = "handler" /\ line = Timer
  /\ timer_ticks' = (timer_ticks + 1) % Wrap
  /\ at' = "iret"
  /\ Step /\ UNCHANGED <<irr, inService, line, tickVars, burst>>
(* A counter of more bits than the kernel has. *)
TimerHandler_Wider ==
  /\ at = "handler" /\ line = Timer
  /\ timer_ticks' = timer_ticks + 1
  /\ inService' = EoiMaster(inService) /\ at' = "iret"
  /\ Step /\ UNCHANGED <<irr, line, tickVars, burst>>

TimerHandler ==
  /\ at = "handler" /\ line = Timer
  /\ timer_ticks' = (timer_ticks + 1) % Wrap
  /\ inService' = EoiMaster(inService) /\ at' = "iret"
  /\ Step /\ UNCHANGED <<irr, line, tickVars, burst>>

(* Tab returns before the end of the handler. *)
KeyboardEarly_NoEoi ==
  /\ at = "handler" /\ line = Keyboard
  /\ at' = "iret"
  /\ Step /\ UNCHANGED <<irr, inService, line, timer_ticks, tickVars, burst>>

(* Tab and recall acknowledge and return by themselves.                    *)
KeyboardEarly ==
  /\ at = "handler" /\ line = Keyboard
  /\ inService' = EoiMaster(inService) /\ at' = "iret"
  /\ Step /\ UNCHANGED <<irr, line, timer_ticks, tickVars, burst>>

(* The other keys reach the end of the handler, Enter through a command.   *)
KeyboardBody ==
  /\ at = "handler" /\ line = Keyboard
  /\ at' \in {"eoi", "command"}
  /\ Step /\ UNCHANGED <<irr, inService, line, timer_ticks, tickVars, burst>>
(* hack clears a flag that is clear; iretd will set it again.              *)
CommandReturns ==
  /\ at = "command" /\ at' = "eoi"
  /\ Step /\ UNCHANGED <<irr, inService, line, timer_ticks, tickVars, burst>>
(* sleep halts the processor with the flag clear.                          *)
CmdSleep ==
  /\ at = "command" /\ at' = "stopped"
  /\ Step /\ UNCHANGED <<irr, inService, line, timer_ticks, tickVars, burst>>
(* crash, and math with a zero divisor: isr14 and isr0 never return.       *)
Panic ==
  /\ at = "command" /\ at' = "stopped"
  /\ Step /\ UNCHANGED <<irr, inService, line, timer_ticks, tickVars, burst>>
KeyboardEnd ==
  /\ at = "eoi" /\ line = Keyboard
  /\ inService' = EoiMaster(inService) /\ at' = "iret"
  /\ Step /\ UNCHANGED <<irr, line, timer_ticks, tickVars, burst>>

(* Only the master is told. *)
SlaveHandler_MasterOnly ==
  /\ at = "handler" /\ OnSlave(line)
  /\ inService' = EoiMaster(inService)
  /\ at' = "iret"
  /\ Step /\ UNCHANGED <<irr, line, timer_ticks, tickVars, burst>>

(* isr43, isr46, and mouse_handler on all of its ways: 0xA0, then 0x20.    *)
SlaveHandler ==
  /\ at = "handler" /\ OnSlave(line)
  /\ inService' = EoiMaster(EoiSlave(inService))
  /\ at' = "iret"
  /\ Step /\ UNCHANGED <<irr, line, timer_ticks, tickVars, burst>>

(* iretd gives main its flag back. *)
Iretd ==
  /\ at = "iret" /\ at' = "main" /\ line' = NoLine
  /\ Step /\ UNCHANGED <<irr, inService, timer_ticks, tickVars, burst>>

PicInit ==
  /\ irr = {} /\ inService = {}
  /\ at = "init" /\ line = NoLine
  /\ timer_ticks = 0 /\ elapsed = 0 /\ lost = 0
  /\ since = 0 /\ burst = 0

Processor ==
  \/ MainSti \/ \E l \in Lines : Accept(l)
  \/ TimerHandler \/ KeyboardEarly \/ KeyboardBody \/ CommandReturns
  \/ KeyboardEnd \/ SlaveHandler \/ Iretd

PicNext ==
  \/ Tick \/ \E l \in Lines \ {Timer} : Raise(l)
  \/ Processor \/ MainLoops \/ CmdSleep \/ Panic

PicSpec == PicInit /\ [][PicNext]_picVars

(* The processor goes on and commands return (Disk!CallsEnd, and the       *)
(* liveness properties of Fat16, are why they do).                         *)
PicFairSpec == PicSpec /\ WF_picVars(Processor)
-----------------------------------------------------------------------------
PicTypeOK ==
  /\ irr \subseteq Lines /\ inService \subseteq Lines \cup {Cascade}
  /\ at \in {"init", "main", "handler", "command", "eoi", "iret", "stopped", "fault"}
  /\ line \in Lines \cup {NoLine}
  /\ timer_ticks \in 0 .. Wrap - 1 /\ elapsed \in 0 .. Wrap - 1 /\ lost \in 0 .. Wrap - 1
  /\ since \in 0 .. Period /\ burst \in 0 .. Burst

(* Whatever the way out of a handler, both controllers are told, once, so  *)
(* that nothing is held back while main runs; no line lacks a gate.        *)
AllAcknowledged == at # "fault" /\ (at = "main" => inService = {})

(* Every tick is counted once, is on its way, or is lost for good.         *)
OnItsWay == IF Timer \in irr \/ (at = "handler" /\ line = Timer) THEN 1 ELSE 0
BothOnTheirWay == Timer \in irr /\ at = "handler" /\ line = Timer
TicksAccounted ==
  elapsed = (timer_ticks + lost + OnItsWay + (IF BothOnTheirWay THEN 1 ELSE 0)) % Wrap

(* Main runs with nothing held back and no tick unaccounted for.           *)
AcknowledgedAndCounted == AllAcknowledged /\ TicksAccounted

(* No tick is lost to the short handlers, in whatever order they come: one *)
(* that is latched is counted before the next; only what takes longer than *)
(* a tick, with interrupts off, loses any.                                 *)
LostOnlyInCommands == [][lost' # lost => Long \/ Stopped]_picVars

(* A device is served, however busy the lines before its own are, unless   *)
(* commands take the processor for ever.                                   *)
EveryLineServed == \A l \in Lines : (l \in irr) ~> (l \notin irr \/ Long \/ Stopped)

(* What makes these inductive: whom the controllers believe in service in  *)
(* each place of the processor, and how long ago the tick was that is      *)
(* still latched there; when no other device asks for anything (no burst), *)
(* every handler is the timer's, which is the shortest.                    *)
InServiceKnown ==
  /\ at # "fault"
  /\ at \in {"init", "main", "iret"} => inService = {}
  /\ at \in {"handler", "command", "eoi", "stopped"} =>
       line \in Lines /\ inService = {line, Input(line)}
  /\ at \in {"command", "eoi", "stopped"} => line = Keyboard

OnlyTicks == Burst = 0 => irr \subseteq {Timer} /\ line \in {Timer, NoLine}

LatchedSince ==
  Timer \in irr =>
    /\ at \in {"init", "handler"} => since = 0
    /\ at = "command" => since <= 1
    /\ at = "eoi" => since <= 2
    /\ at = "iret" => since <= (IF Burst = 0 THEN 1 ELSE 3)
    /\ at = "main" => since <= (IF Burst = 0 THEN 2 ELSE 4)

PicInv == PicTypeOK /\ InServiceKnown /\ OnlyTicks /\ LatchedSince /\ TicksAccounted

=============================================================================
