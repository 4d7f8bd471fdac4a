------------------------------- MODULE Speaker -------------------------------
(***************************************************************************)
(* drivers/speaker.c, and init_timer of drivers/timer.c: two channels of   *)
(* one timer chip, written through the same control port, and the port of  *)
(* the speaker, which has other bits too.                                  *)
(*                                                                         *)
(* beep runs in the interrupt of the keyboard, so commands follow each     *)
(* other; its delay only takes time.  A channel is given its divisor low   *)
(* byte first; the control word that says so starts it anew.               *)
(***************************************************************************)
EXTENDS Integers

CONSTANT PortAtBoot  \* what the port of the speaker may hold at boot

VARIABLES
  sp_pc,
  divisor,      \* of the two channels; 0 when it is not complete
  low,          \* the byte written first, or -1
  port61,       \* bit 0 runs the channel, bit 1 the speaker
  atBoot        \* port61 at boot

speakerVars == <<sp_pc, divisor, low, port61, atBoot>>

Byte == 0 .. 255
Word16 == 0 .. 65535
ASSUME SpeakerAssumption == PortAtBoot \subseteq Byte

Clock == 1193180
TimerChannel == 0
SpeakerChannel == 2
Frequency == [c \in {TimerChannel, SpeakerChannel} |-> IF c = TimerChannel THEN 100 ELSE 1000]

(* The channel a control word is for: 0x36 and 0xB6.                       *)
Channel(control) == control \div 64

(* The word of the timer for both.                                         *)
ControlWord_Timer(c) == 54
ControlWord(c) == IF c = TimerChannel THEN 54 ELSE 182

Control(c) ==
  LET channel == Channel(ControlWord(c))
  IN  divisor' = [divisor EXCEPT ![channel] = 0] /\ low' = [low EXCEPT ![channel] = -1]

(* A byte to the port of a channel.                                        *)
Data(c, byte) ==
  IF low[c] = -1 THEN low' = [low EXCEPT ![c] = byte] /\ UNCHANGED divisor
  ELSE low' = [low EXCEPT ![c] = -1] /\ divisor' = [divisor EXCEPT ![c] = low[c] + 256 * byte]

LowByte(c) == (Clock \div Frequency[c]) % 256
(* The timer's is shifted; the speaker's is compared.                      *)
HighByte(c) ==
  LET d == Clock \div Frequency[c]
  IN  IF c = TimerChannel THEN (d \div 256) % 256 ELSE IF d > 8 THEN 1 ELSE 0

Bits01(v) == v % 4

-----------------------------------------------------------------------------
SpeakerInit ==
  /\ sp_pc = "timer"
  /\ divisor = [c \in {TimerChannel, SpeakerChannel} |-> 0]
  /\ low = [c \in {TimerChannel, SpeakerChannel} |-> -1]
  /\ port61 \in PortAtBoot /\ atBoot = port61

To(place) == sp_pc' = place /\ UNCHANGED atBoot

InitTimer ==
  \/ sp_pc = "timer" /\ Control(TimerChannel) /\ To("timer low") /\ UNCHANGED port61
  \/ sp_pc = "timer low" /\ Data(TimerChannel, LowByte(TimerChannel)) /\ To("timer high")
       /\ UNCHANGED port61
  \/ sp_pc = "timer high" /\ Data(TimerChannel, HighByte(TimerChannel)) /\ To("idle")
       /\ UNCHANGED port61

(* play_sound(1000), and the port of the speaker, if its bits are not set. *)
PlaySound ==
  \/ sp_pc = "idle" /\ Control(SpeakerChannel) /\ To("low") /\ UNCHANGED port61
  \/ sp_pc = "low" /\ Data(SpeakerChannel, LowByte(SpeakerChannel)) /\ To("high") /\ UNCHANGED port61
  \/ sp_pc = "high" /\ Data(SpeakerChannel, HighByte(SpeakerChannel)) /\ To("on") /\ UNCHANGED port61
  \/ /\ sp_pc = "on"
     /\ port61' = IF Bits01(port61) # 3 THEN port61 + (3 - Bits01(port61)) ELSE port61
     /\ To("playing")
     /\ UNCHANGED <<divisor, low>>

StopSound ==
  sp_pc = "playing" /\ port61' = port61 - Bits01(port61) /\ To("idle") /\ UNCHANGED <<divisor, low>>

SpeakerNext == InitTimer \/ PlaySound \/ StopSound

SpeakerSpec == SpeakerInit /\ [][SpeakerNext]_speakerVars

-----------------------------------------------------------------------------
SpeakerTypeOK ==
  /\ sp_pc \in {"timer", "timer low", "timer high", "idle", "low", "high", "on", "playing"}
  /\ divisor \in [{TimerChannel, SpeakerChannel} -> Word16]
  /\ low \in [{TimerChannel, SpeakerChannel} -> Byte \cup {-1}]
  /\ port61 \in Byte

(* Whatever is played, the timer goes on with the divisor init_timer gave  *)
(* it: the channels share a control port and nothing else.                 *)
TimerUndisturbed ==
  sp_pc \notin {"timer", "timer low", "timer high"} =>
    divisor[TimerChannel] = Clock \div Frequency[TimerChannel] /\ low[TimerChannel] = -1

(* While it plays the speaker has a complete divisor and both its bits;    *)
(* after that it is silent, and the other bits of its port are what they   *)
(* were.                                                                   *)
OnlyWhilePlaying ==
  /\ port61 \div 4 = atBoot \div 4
  /\ sp_pc = "playing" => Bits01(port61) = 3 /\ divisor[SpeakerChannel] # 0
  /\ divisor[SpeakerChannel] # 0 /\ sp_pc \notin {"on", "playing"} => Bits01(port61) = 0

(* A beep sounds while it is played and not after, and the timer goes on   *)
(* as it was set.                                                          *)
SpeakerSound == SpeakerTypeOK /\ TimerUndisturbed /\ OnlyWhilePlaying

=============================================================================
