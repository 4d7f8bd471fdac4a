---------------------------- MODULE CommandsProofs ----------------------------
(***************************************************************************)
(* The commands with a module of their own: what time shows, what beep     *)
(* leaves in the timer chip and the speaker's port, what lspci and netinit *)
(* find and set up, and what math and the functions of libc/string.c       *)
(* compute.                                                                *)
(***************************************************************************)
EXTENDS MCCommands, FiniteSetTheorems, SequenceTheorems, WellFoundedInduction, TLAPS

-----------------------------------------------------------------------------
(* time: a time of day, never ahead of the clock, and the right one unless *)
(* a minute ends while it is read.                                         *)
(* The registers, decoded. *)
A == FromBcd(reg[1])
B == FromBcd(reg[2])
C == FromBcd(reg[3])

Types ==
  /\ hh \in Nat /\ hh < Hours /\ mm \in Nat /\ mm < Minutes /\ ss \in Nat /\ ss < Seconds
  /\ pc \in 0 .. Printed
  /\ reg \in [1 .. 3 -> Nat]
  /\ seconds \in Nat

(* What was read is a time of day, so far not ahead of the clock: the      *)
(* fields read last may be, if one before them is behind.                  *)
ReadSoFar ==
  /\ A \in Nat /\ A < Hours /\ B \in Nat /\ B < Minutes /\ C \in Nat /\ C < Seconds
  /\ pc >= 1 /\ ~midnight => A <= hh
  /\ pc >= 2 /\ ~midnight => A < hh \/ B <= mm
  /\ pc >= 3 /\ ~midnight => A < hh \/ B < mm \/ C <= ss

ShownSoFar ==
  /\ shown \in [1 .. 3 -> Nat]
  /\ shown[1] < Hours /\ shown[2] < Minutes /\ shown[3] < Seconds
  /\ pc = Printed => shown[1] = A /\ shown[2] = B /\ shown[3] = C

(* While no second has ended in the call the clock shows what it showed    *)
(* when the call began, and so do the fields read; when one has ended, but *)
(* no minute, only the seconds differ, by one.                             *)
StartKept ==
  /\ start \in [1 .. 3 -> Nat]
  /\ pc >= 1 /\ seconds = 0 =>
       /\ hh = start[1] /\ mm = start[2] /\ ss = start[3]
       /\ A = hh /\ (pc >= 2 => B = mm) /\ (pc >= 3 => C = ss)
  /\ pc >= 1 /\ seconds = 1 /\ ss # 0 =>
       /\ hh = start[1] /\ mm = start[2] /\ ss = start[3] + 1
       /\ A = hh /\ (pc >= 2 => B = mm) /\ (pc >= 3 => C = ss \/ C = start[3])

TimeInv == Types /\ midnight \in BOOLEAN /\ ReadSoFar /\ ShownSoFar /\ StartKept

(* Two decimal digits come back from the chip as they went in.             *)
LEMMA Digits ==
  ASSUME NEW v \in Nat, v < 100
  PROVE  Bcd(v) \in Nat /\ FromBcd(Bcd(v)) = v
<1>1. PICK q \in Nat, r \in 0 .. 9 : q = v \div 10 /\ r = v % 10 /\ v = 10 * q + r /\ q < 10
  OBVIOUS
<1>2. Bcd(v) = q * 16 + r
  BY <1>1 DEF Bcd
<1>3. (q * 16 + r) % 16 = r /\ (q * 16 + r) \div 16 = q
  BY <1>1
<1>. QED  BY <1>1, <1>2, <1>3 DEF FromBcd

LEMMA ZeroDigits == FromBcd(0) = 0
BY DEF FromBcd

LEMMA TimeInit == Init => TimeInv
<1>. SUFFICES ASSUME Init PROVE TimeInv
  OBVIOUS
<1>. USE HoursAssumption, MinutesAssumption, SecondsAssumption
<1>1. Types
  BY DEF Init, Types, Zeros, Printed
<1>2. A = 0 /\ B = 0 /\ C = 0
  BY ZeroDigits DEF Init, Zeros, A, B, C
<1>3. ReadSoFar
  BY <1>2 DEF Init, ReadSoFar
<1>4. ShownSoFar
  BY DEF Init, ShownSoFar, Zeros, Printed
<1>5. midnight \in BOOLEAN
  BY DEF Init
<1>6. StartKept
  BY DEF Init, StartKept, Zeros
<1>. QED  BY <1>1, <1>3, <1>4, <1>5, <1>6 DEF TimeInv

LEMMA SecondKeeps == TimeInv /\ Second => TimeInv'
<1>. SUFFICES ASSUME TimeInv, Second PROVE TimeInv'
  OBVIOUS
<1>. USE HoursAssumption, MinutesAssumption, SecondsAssumption
<1>1. A' = A /\ B' = B /\ C' = C /\ pc' = pc /\ shown' = shown /\ reg' = reg
  BY DEF Second, A, B, C
<1>2. /\ \/ ss' = ss + 1 /\ ss + 1 < Seconds /\ mm' = mm /\ hh' = hh /\ midnight' = midnight
         \/ ss' = 0 /\ mm' = mm + 1 /\ mm + 1 < Minutes /\ hh' = hh /\ midnight' = midnight
         \/ ss' = 0 /\ mm' = 0 /\ hh' = hh + 1 /\ hh + 1 < Hours /\ midnight' = midnight
         \/ ss' = 0 /\ mm' = 0 /\ hh' = 0 /\ midnight' = TRUE
      /\ seconds' \in Nat
  BY DEF Second, TimeInv, Types
<1>flag. midnight' \in BOOLEAN
  BY <1>2 DEF TimeInv
<1>3. Types'
  BY <1>1, <1>2 DEF TimeInv, Types
<1>4. ReadSoFar'
  BY <1>1, <1>2 DEF TimeInv, Types, ReadSoFar, Printed
<1>5. ShownSoFar'
  BY <1>1 DEF TimeInv, ShownSoFar
<1>6. StartKept'
  <2>1. start' = start /\ seconds' = IF pc = 0 THEN 0 ELSE seconds + 1
    BY DEF Second
  <2>2. CASE ss' = 0
    <3>1. pc >= 1 => seconds' # 0
      BY <2>1 DEF TimeInv, Types
    <3>. QED  BY <1>1, <2>1, <2>2, <3>1 DEF TimeInv, Types, StartKept
  <2>3. CASE ss' = ss + 1 /\ mm' = mm /\ hh' = hh
    BY <1>1, <2>1, <2>3 DEF TimeInv, Types, StartKept, Printed
  <2>. QED  BY <1>2, <2>2, <2>3
<1>. QED  BY <1>3, <1>4, <1>5, <1>6, <1>flag DEF TimeInv

LEMMA GetRegisterKeeps == TimeInv /\ GetRegister => TimeInv'
<1>. SUFFICES ASSUME TimeInv, GetRegister PROVE TimeInv'
  OBVIOUS
<1>. USE HoursAssumption, MinutesAssumption, SecondsAssumption
<1>1. /\ hh' = hh /\ mm' = mm /\ ss' = ss /\ shown' = shown /\ pc' = pc + 1 /\ pc \in 0 .. 2
      /\ seconds' \in Nat /\ (pc # 0 => midnight' = midnight)
  BY DEF GetRegister, TimeInv, Types, Printed, clockVars
<1>flag. midnight' \in BOOLEAN
  BY DEF GetRegister, TimeInv
<1>2. /\ Bcd(hh) \in Nat /\ FromBcd(Bcd(hh)) = hh
      /\ Bcd(mm) \in Nat /\ FromBcd(Bcd(mm)) = mm
      /\ Bcd(ss) \in Nat /\ FromBcd(Bcd(ss)) = ss
  BY Digits DEF TimeInv, Types
<1>3. CASE pc = 0
  <2>1. reg' = [reg EXCEPT ![1] = Bcd(hh)]
    BY <1>3 DEF GetRegister, Order, clock
  <2>2. A' = hh /\ B' = B /\ C' = C /\ reg' \in [1 .. 3 -> Nat]
    BY <2>1, <1>2 DEF A, B, C, TimeInv, Types
  <2>3. start' = <<hh, mm, ss>>
    BY <1>3 DEF GetRegister, clock
  <2>4. start' \in [1 .. 3 -> Nat] /\ start'[1] = hh /\ start'[2] = mm /\ start'[3] = ss
    BY <2>3 DEF TimeInv, Types
  <2>5. seconds' = 0 /\ StartKept'
    BY <1>1, <1>3, <2>2, <2>4 DEF GetRegister, StartKept
  <2>. QED  BY <1>1, <1>flag, <1>3, <2>2, <2>5 DEF TimeInv, Types, ReadSoFar, ShownSoFar, Printed
<1>4. CASE pc = 1
  <2>1. reg' = [reg EXCEPT ![2] = Bcd(mm)]
    BY <1>4 DEF GetRegister, Order, clock
  <2>2. A' = A /\ B' = mm /\ C' = C /\ reg' \in [1 .. 3 -> Nat]
    BY <2>1, <1>2 DEF A, B, C, TimeInv, Types
  <2>3. start' = start /\ seconds' = seconds
    BY <1>4 DEF GetRegister
  <2>4. StartKept'
    BY <1>1, <1>4, <2>2, <2>3 DEF TimeInv, Types, StartKept
  <2>. QED  BY <1>1, <1>flag, <1>4, <2>2, <2>4 DEF TimeInv, Types, ReadSoFar, ShownSoFar, Printed
<1>5. CASE pc = 2
  <2>1. reg' = [reg EXCEPT ![3] = Bcd(ss)]
    BY <1>5 DEF GetRegister, Order, clock
  <2>2. A' = A /\ B' = B /\ C' = ss /\ reg' \in [1 .. 3 -> Nat]
    BY <2>1, <1>2 DEF A, B, C, TimeInv, Types
  <2>3. start' = start /\ seconds' = seconds
    BY <1>5 DEF GetRegister
  <2>4. StartKept'
    BY <1>1, <1>5, <2>2, <2>3 DEF TimeInv, Types, StartKept
  <2>. QED  BY <1>1, <1>flag, <1>5, <2>2, <2>4 DEF TimeInv, Types, ReadSoFar, ShownSoFar, Printed
<1>. QED  BY <1>1, <1>3, <1>4, <1>5

LEMMA ShowTimeKeeps == TimeInv /\ ShowTime => TimeInv'
<1>. SUFFICES ASSUME TimeInv, ShowTime PROVE TimeInv'
  OBVIOUS
<1>1. /\ pc = 3 /\ pc' = Printed /\ A' = A /\ B' = B /\ C' = C
      /\ UNCHANGED <<hh, mm, ss, reg, start, midnight, seconds>>
  BY DEF ShowTime, A, B, C, clockVars
<1>2. Types' /\ ReadSoFar'
  BY <1>1 DEF TimeInv, Types, ReadSoFar, Printed
<1>5. StartKept'
  BY <1>1 DEF TimeInv, StartKept, Printed
<1>3. ShownSoFar'
  <2>1. A \in Nat /\ A < Hours /\ B \in Nat /\ B < Minutes /\ C \in Nat /\ C < Seconds
    BY DEF TimeInv, ReadSoFar
  <2>2. shown' = [f \in 1 .. 3 |-> FromBcd(reg[f])]
    BY DEF ShowTime
  <2>3. \A f \in 1 .. 3 : f = 1 \/ f = 2 \/ f = 3
    OBVIOUS
  <2>4. shown' \in [1 .. 3 -> Nat] /\ shown'[1] = A /\ shown'[2] = B /\ shown'[3] = C
    BY <2>1, <2>2, <2>3 DEF A, B, C
  <2>. QED  BY <1>1, <2>1, <2>4 DEF ShownSoFar
<1>4. midnight' \in BOOLEAN
  BY <1>1 DEF TimeInv
<1>. QED  BY <1>2, <1>3, <1>4, <1>5 DEF TimeInv

LEMMA ReturnKeeps == TimeInv /\ Return => TimeInv'
<1>. SUFFICES ASSUME TimeInv, Return PROVE TimeInv'
  OBVIOUS
<1>. USE HoursAssumption, MinutesAssumption, SecondsAssumption
<1>1. Types'
  BY DEF Return, TimeInv, Types, Zeros, Printed, clockVars
<1>2. A' = 0 /\ B' = 0 /\ C' = 0 /\ pc' = 0
  BY ZeroDigits DEF Return, Zeros, A, B, C
<1>3. ReadSoFar'
  BY <1>2 DEF ReadSoFar
<1>4. ShownSoFar'
  BY <1>2 DEF Return, ShownSoFar, Zeros, Printed
<1>5. midnight' \in BOOLEAN
  BY DEF Return
<1>6. StartKept'
  BY <1>2 DEF Return, StartKept, Zeros
<1>. QED  BY <1>1, <1>3, <1>4, <1>5, <1>6 DEF TimeInv

LEMMA Invariance == Spec => []TimeInv
<1>1. TimeInv /\ [Next]_vars => TimeInv'
  <2>. SUFFICES ASSUME TimeInv, [Next]_vars PROVE TimeInv'
    OBVIOUS
  <2>1. CASE UNCHANGED vars
    BY <2>1 DEF vars, clockVars, TimeInv, Types, ReadSoFar, ShownSoFar, StartKept, A, B, C
  <2>. QED  BY <2>1, SecondKeeps, GetRegisterKeeps, ShowTimeKeeps, ReturnKeeps DEF Next
<1>. QED  BY TimeInit, <1>1, PTL DEF Spec

(* print_time prints a time of day, whatever the lengths of minute, hour   *)
(* and day.                                                                *)
THEOREM TimeOfDay == Spec => []TypeOK
<1>1. TimeInv => TypeOK
  BY DEF TimeInv, Types, ReadSoFar, ShownSoFar, TypeOK, ATime, clock
<1>. QED  BY Invariance, <1>1, PTL

(* The time print_time shows is not ahead of the clock, however many       *)
(* seconds pass between its three reads.                                   *)
THEOREM TimeNeverAhead == Spec => []NeverAhead
<1>1. TimeInv => NeverAhead
  <2>. SUFFICES ASSUME TimeInv, pc = Printed, ~midnight PROVE NotLater(shown, clock)
    BY DEF NeverAhead
  <2>1. shown[1] = A /\ shown[2] = B /\ shown[3] = C
    BY DEF TimeInv, ShownSoFar
  <2>2. /\ A \in Nat /\ B \in Nat /\ C \in Nat
        /\ A <= hh /\ (A < hh \/ B <= mm) /\ (A < hh \/ B < mm \/ C <= ss)
    BY DEF TimeInv, ReadSoFar, Printed
  <2>3. hh \in Nat /\ mm \in Nat /\ ss \in Nat
    BY DEF TimeInv, Types
  <2>. QED  BY <2>1, <2>2, <2>3 DEF NotLater, clock
<1>. QED  BY Invariance, <1>1, PTL

(* If a second ends at most once while it reads, and no minute ends, what  *)
(* print_time shows is the time before or after that second.               *)
THEOREM TimeRightWithinMinute == Spec => []RightWithinMinute
<1>1. TimeInv => RightWithinMinute
  <2>. SUFFICES ASSUME TimeInv, pc = Printed, ss # 0, seconds <= 1
                PROVE  shown \in {start, clock}
    BY DEF RightWithinMinute
  <2>1. /\ shown \in [1 .. 3 -> Nat]
        /\ shown[1] = A /\ shown[2] = B /\ shown[3] = C
    BY DEF TimeInv, ShownSoFar
  <2>2. /\ start \in [1 .. 3 -> Nat] /\ A = start[1] /\ B = start[2]
        /\ A = hh /\ B = mm /\ (C = start[3] \/ C = ss)
    BY DEF TimeInv, Types, StartKept, Printed
  <2>3. clock \in [1 .. 3 -> Nat] /\ clock[1] = hh /\ clock[2] = mm /\ clock[3] = ss
    BY DEF TimeInv, Types, clock
  <2>4. \A f \in 1 .. 3 : f = 1 \/ f = 2 \/ f = 3
    OBVIOUS
  <2>5. CASE C = start[3]
    <3>1. \A f \in 1 .. 3 : shown[f] = start[f]
      BY <2>1, <2>2, <2>4, <2>5
    <3>. QED  BY <2>1, <2>2, <3>1
  <2>6. CASE C = ss
    <3>1. \A f \in 1 .. 3 : shown[f] = clock[f]
      BY <2>1, <2>2, <2>3, <2>4, <2>6
    <3>. QED  BY <2>1, <2>3, <3>1
  <2>. QED  BY <2>2, <2>5, <2>6
<1>. QED  BY Invariance, <1>1, PTL

(* All of it together. *)
THEOREM TimeAlwaysRight == Spec => []ShownRight
BY TimeOfDay, TimeNeverAhead, TimeRightWithinMinute, PTL DEF ShownRight

-----------------------------------------------------------------------------
(* beep: where each byte of the two divisors is.                           *)
SpeakerInv ==
  /\ SpeakerSound
  /\ sp_pc \in {"timer", "timer low", "timer high", "low", "high"} => divisor[SpeakerChannel] = 0
  /\ sp_pc = "on" => divisor[SpeakerChannel] # 0
  /\ sp_pc = "timer low" => low[TimerChannel] = -1
  /\ sp_pc = "timer high" => low[TimerChannel] = LowByte(TimerChannel)
  /\ sp_pc = "low" => low[SpeakerChannel] = -1
  /\ sp_pc = "high" => low[SpeakerChannel] = LowByte(SpeakerChannel)

LEMMA ByteRange ==
  /\ \A v \in Byte : v \in Nat /\ v \in Int /\ 0 <= v /\ v <= 255
  /\ \A v \in Int : 0 <= v /\ v <= 255 => v \in Byte
BY DEF Byte

(* The numbers: 11931, and 1193, of which the second is given 425.         *)
LEMMA Divisors ==
  /\ LowByte(TimerChannel) + 256 * HighByte(TimerChannel) = Clock \div Frequency[TimerChannel]
  /\ \A c \in {TimerChannel, SpeakerChannel} :
       /\ LowByte(c) \in Byte /\ HighByte(c) \in Byte /\ LowByte(c) # -1
       /\ LowByte(c) + 256 * HighByte(c) \in Word16 /\ LowByte(c) + 256 * HighByte(c) # 0
  /\ 0 \in Word16
<1>1. Frequency[TimerChannel] = 100 /\ Frequency[SpeakerChannel] = 1000
  BY DEF Frequency, TimerChannel, SpeakerChannel
<1>2. 1193180 \div 100 = 11931 /\ 1193180 \div 1000 = 1193
  OBVIOUS
<1>3. 11931 % 256 = 155 /\ (11931 \div 256) % 256 = 46 /\ 1193 % 256 = 169
  OBVIOUS
<1>4. /\ Clock \div Frequency[TimerChannel] = 11931
      /\ LowByte(TimerChannel) = 155 /\ HighByte(TimerChannel) = 46
      /\ LowByte(SpeakerChannel) = 169 /\ HighByte(SpeakerChannel) = 1
  BY <1>1, <1>2, <1>3 DEF LowByte, HighByte, Clock, TimerChannel, SpeakerChannel
<1>5. 155 + 256 * 46 = 11931 /\ 169 + 256 * 1 = 425
  OBVIOUS
<1>6. /\ LowByte(TimerChannel) + 256 * HighByte(TimerChannel) = 11931
      /\ LowByte(SpeakerChannel) + 256 * HighByte(SpeakerChannel) = 425
  BY <1>4, <1>5
<1>7. 155 \in Byte /\ 46 \in Byte /\ 169 \in Byte /\ 1 \in Byte
  BY DEF Byte
<1>8. 0 \in Word16 /\ 11931 \in Word16 /\ 425 \in Word16
  BY DEF Word16
<1>9. 155 # -1 /\ 169 # -1 /\ 11931 # 0 /\ 425 # 0
  OBVIOUS
<1>10. ASSUME NEW c \in {TimerChannel, SpeakerChannel}
       PROVE  /\ LowByte(c) \in Byte /\ HighByte(c) \in Byte /\ LowByte(c) # -1
              /\ LowByte(c) + 256 * HighByte(c) \in Word16 /\ LowByte(c) + 256 * HighByte(c) # 0
  <2>1. CASE c = TimerChannel
    <3>1. LowByte(c) = 155 /\ HighByte(c) = 46
      BY <2>1, <1>4
    <3>2. LowByte(c) + 256 * HighByte(c) = 11931
      BY <2>1, <1>6
    <3> QED BY <3>1, <3>2, <1>7, <1>8, <1>9
  <2>2. CASE c = SpeakerChannel
    <3>1. LowByte(c) = 169 /\ HighByte(c) = 1
      BY <2>2, <1>4
    <3>2. LowByte(c) + 256 * HighByte(c) = 425
      BY <2>2, <1>6
    <3> QED BY <3>1, <3>2, <1>7, <1>8, <1>9
  <2> QED BY <2>1, <2>2
<1>11. LowByte(TimerChannel) + 256 * HighByte(TimerChannel) = Clock \div Frequency[TimerChannel]
  BY <1>4, <1>6
<1> QED BY <1>8, <1>10, <1>11

LEMMA BothBits ==
  ASSUME NEW v \in Nat, v <= 255
  PROVE  /\ v + (3 - (v % 4)) \in Int /\ 0 <= v + (3 - (v % 4)) /\ v + (3 - (v % 4)) <= 255
         /\ (v + (3 - (v % 4))) % 4 = 3 /\ (v + (3 - (v % 4))) \div 4 = v \div 4
<1>1. v \div 4 \in Nat /\ v % 4 \in 0 .. 3 /\ v = 4 * (v \div 4) + (v % 4) /\ v \div 4 <= 63
  OBVIOUS
<1>2. PICK q \in Nat : q = v \div 4 /\ q <= 63
  BY <1>1
<1>3. v + (3 - (v % 4)) = 4 * q + 3
  BY <1>1, <1>2
<1>4. (4 * q + 3) % 4 = 3 /\ (4 * q + 3) \div 4 = q /\ 4 * q + 3 \in Nat /\ 4 * q + 3 <= 255
  BY <1>2
<1> QED BY <1>2, <1>3, <1>4

LEMMA Channels ==
  Channel(ControlWord(TimerChannel)) = TimerChannel
  /\ Channel(ControlWord(SpeakerChannel)) = SpeakerChannel /\ TimerChannel # SpeakerChannel
BY DEF Channel, ControlWord, TimerChannel, SpeakerChannel

LEMMA SpeakerStart == SpeakerInit => SpeakerInv
<1> SUFFICES ASSUME SpeakerInit PROVE SpeakerInv
  OBVIOUS
<1>1. /\ sp_pc = "timer" /\ port61 \in Byte /\ atBoot = port61
      /\ divisor \in [{TimerChannel, SpeakerChannel} -> Word16]
      /\ low \in [{TimerChannel, SpeakerChannel} -> Byte \cup {-1}]
      /\ divisor[SpeakerChannel] = 0
  BY SpeakerAssumption, Divisors DEF SpeakerInit
<1> QED BY <1>1 DEF SpeakerInv, SpeakerSound, SpeakerTypeOK, TimerUndisturbed, OnlyWhilePlaying

(* What the bytes written to the chip do.                                  *)
LEMMA ControlStarts ==
  ASSUME SpeakerTypeOK, NEW c \in {TimerChannel, SpeakerChannel}, Control(c)
  PROVE  /\ divisor' \in [{TimerChannel, SpeakerChannel} -> Word16]
         /\ low' \in [{TimerChannel, SpeakerChannel} -> Byte \cup {-1}]
         /\ divisor'[c] = 0 /\ low'[c] = -1
         /\ \A d \in {TimerChannel, SpeakerChannel} :
              d # c => divisor'[d] = divisor[d] /\ low'[d] = low[d]
<1>1. divisor' = [divisor EXCEPT ![c] = 0] /\ low' = [low EXCEPT ![c] = -1]
  BY Channels DEF Control
<1> QED BY <1>1, Divisors DEF SpeakerTypeOK

LEMMA DataGoes ==
  ASSUME SpeakerTypeOK, NEW c \in {TimerChannel, SpeakerChannel}, NEW byte \in Byte, Data(c, byte),
         low[c] = -1 \/ low[c] + 256 * byte \in Word16
  PROVE  /\ divisor' \in [{TimerChannel, SpeakerChannel} -> Word16]
         /\ low' \in [{TimerChannel, SpeakerChannel} -> Byte \cup {-1}]
         /\ low[c] = -1 => low'[c] = byte /\ divisor'[c] = divisor[c]
         /\ low[c] # -1 => low'[c] = -1 /\ divisor'[c] = low[c] + 256 * byte
         /\ \A d \in {TimerChannel, SpeakerChannel} :
              d # c => divisor'[d] = divisor[d] /\ low'[d] = low[d]
<1>1. CASE low[c] = -1
  BY <1>1 DEF SpeakerTypeOK, Data
<1>2. CASE low[c] # -1
  <2>1. low' = [low EXCEPT ![c] = -1] /\ divisor' = [divisor EXCEPT ![c] = low[c] + 256 * byte]
    BY <1>2 DEF Data
  <2> QED BY <1>2, <2>1 DEF SpeakerTypeOK
<1> QED BY <1>1, <1>2

LEMMA SpeakerStep == ASSUME SpeakerInv, [SpeakerNext]_speakerVars PROVE SpeakerInv'
<1> USE DEF SpeakerInv, SpeakerSound, TimerUndisturbed, OnlyWhilePlaying
<1>1. CASE InitTimer
  <2>1. port61' = port61 /\ atBoot' = atBoot /\ divisor[SpeakerChannel] = 0
    BY <1>1 DEF InitTimer, To
  <2>2. CASE sp_pc = "timer"
    <3>1. Control(TimerChannel) /\ sp_pc' = "timer low"
      BY <1>1, <2>2 DEF InitTimer, To
    <3> QED BY <2>1, <3>1, Channels, ControlStarts DEF SpeakerTypeOK
  <2>3. CASE sp_pc = "timer low"
    <3>1. Data(TimerChannel, LowByte(TimerChannel)) /\ sp_pc' = "timer high"
      BY <1>1, <2>3 DEF InitTimer, To
    <3>2. low[TimerChannel] = -1 /\ LowByte(TimerChannel) \in Byte
      BY <2>3, Divisors
    <3>3. /\ divisor' \in [{TimerChannel, SpeakerChannel} -> Word16]
          /\ low' \in [{TimerChannel, SpeakerChannel} -> Byte \cup {-1}]
          /\ low'[TimerChannel] = LowByte(TimerChannel)
          /\ divisor'[SpeakerChannel] = divisor[SpeakerChannel]
      BY <3>1, <3>2, Channels, DataGoes
    <3> QED BY <2>1, <2>3, <3>1, <3>3 DEF SpeakerTypeOK
  <2>4. CASE sp_pc = "timer high"
    <3>1. Data(TimerChannel, HighByte(TimerChannel)) /\ sp_pc' = "idle"
          /\ low[TimerChannel] = LowByte(TimerChannel)
      BY <1>1, <2>4 DEF InitTimer, To
    <3>2. /\ HighByte(TimerChannel) \in Byte /\ low[TimerChannel] # -1
          /\ low[TimerChannel] + 256 * HighByte(TimerChannel) = Clock \div Frequency[TimerChannel]
          /\ low[TimerChannel] + 256 * HighByte(TimerChannel) \in Word16
      BY <3>1, Divisors
    <3>3. /\ divisor' \in [{TimerChannel, SpeakerChannel} -> Word16]
          /\ low' \in [{TimerChannel, SpeakerChannel} -> Byte \cup {-1}]
          /\ low'[TimerChannel] = -1
          /\ divisor'[TimerChannel] = low[TimerChannel] + 256 * HighByte(TimerChannel)
          /\ divisor'[SpeakerChannel] = divisor[SpeakerChannel]
      BY <3>1, <3>2, Channels, DataGoes
    <3> QED BY <2>1, <2>4, <3>1, <3>2, <3>3 DEF SpeakerTypeOK
  <2> QED BY <1>1, <2>2, <2>3, <2>4 DEF InitTimer
<1>2. CASE PlaySound
  <2>1. atBoot' = atBoot /\ sp_pc \notin {"timer", "timer low", "timer high"}
        /\ sp_pc' \notin {"timer", "timer low", "timer high"}
    BY <1>2 DEF PlaySound, To
  <2>2. CASE sp_pc = "idle"
    <3>1. Control(SpeakerChannel) /\ sp_pc' = "low" /\ port61' = port61
      BY <1>2, <2>2 DEF PlaySound, To
    <3> QED BY <2>1, <2>2, <3>1, Channels, ControlStarts DEF SpeakerTypeOK
  <2>3. CASE sp_pc = "low"
    <3>1. Data(SpeakerChannel, LowByte(SpeakerChannel)) /\ sp_pc' = "high" /\ port61' = port61
      BY <1>2, <2>3 DEF PlaySound, To
    <3>2. low[SpeakerChannel] = -1 /\ LowByte(SpeakerChannel) \in Byte
      BY <2>3, Divisors
    <3>3. /\ divisor' \in [{TimerChannel, SpeakerChannel} -> Word16]
          /\ low' \in [{TimerChannel, SpeakerChannel} -> Byte \cup {-1}]
          /\ low'[SpeakerChannel] = LowByte(SpeakerChannel)
          /\ divisor'[SpeakerChannel] = divisor[SpeakerChannel]
          /\ divisor'[TimerChannel] = divisor[TimerChannel] /\ low'[TimerChannel] = low[TimerChannel]
      BY <3>1, <3>2, Channels, DataGoes
    <3> QED BY <2>1, <2>3, <3>1, <3>3 DEF SpeakerTypeOK
  <2>4. CASE sp_pc = "high"
    <3>1. Data(SpeakerChannel, HighByte(SpeakerChannel)) /\ sp_pc' = "on" /\ port61' = port61
          /\ low[SpeakerChannel] = LowByte(SpeakerChannel)
      BY <1>2, <2>4 DEF PlaySound, To
    <3>2. /\ HighByte(SpeakerChannel) \in Byte /\ low[SpeakerChannel] # -1
          /\ low[SpeakerChannel] + 256 * HighByte(SpeakerChannel) # 0
          /\ low[SpeakerChannel] + 256 * HighByte(SpeakerChannel) \in Word16
      <4>1. /\ HighByte(SpeakerChannel) \in Byte /\ LowByte(SpeakerChannel) # -1
            /\ LowByte(SpeakerChannel) + 256 * HighByte(SpeakerChannel) # 0
            /\ LowByte(SpeakerChannel) + 256 * HighByte(SpeakerChannel) \in Word16
        BY Divisors
      <4> QED BY <3>1, <4>1
    <3>3. /\ divisor' \in [{TimerChannel, SpeakerChannel} -> Word16]
          /\ low' \in [{TimerChannel, SpeakerChannel} -> Byte \cup {-1}]
          /\ divisor'[SpeakerChannel] = low[SpeakerChannel] + 256 * HighByte(SpeakerChannel)
          /\ divisor'[TimerChannel] = divisor[TimerChannel] /\ low'[TimerChannel] = low[TimerChannel]
      BY <3>1, <3>2, Channels, DataGoes
    <3> QED BY <2>1, <2>4, <3>1, <3>2, <3>3 DEF SpeakerTypeOK
  <2>5. CASE sp_pc = "on"
    <3>1. /\ sp_pc' = "playing" /\ UNCHANGED <<divisor, low>>
          /\ port61' = IF port61 % 4 # 3 THEN port61 + (3 - (port61 % 4)) ELSE port61
          /\ port61 \in Int /\ 0 <= port61 /\ port61 <= 255
      BY <1>2, <2>5, ByteRange DEF PlaySound, To, Bits01, SpeakerTypeOK
    <3>2. port61' \in Int /\ 0 <= port61' /\ port61' <= 255 /\ port61' % 4 = 3
          /\ port61' \div 4 = port61 \div 4
      <4>1. port61 \in Nat
        BY ByteRange DEF SpeakerTypeOK
      <4>2. CASE port61 % 4 = 3
        <5>1. port61' = port61
          BY <3>1, <4>2, Zenon
        <5> QED BY <3>1, <4>2, <5>1
      <4>3. CASE port61 % 4 # 3
        <5>1. port61' = port61 + (3 - (port61 % 4))
          BY <3>1, <4>3, Zenon
        <5>2. /\ port61 + (3 - (port61 % 4)) \in Int
              /\ 0 <= port61 + (3 - (port61 % 4)) /\ port61 + (3 - (port61 % 4)) <= 255
              /\ (port61 + (3 - (port61 % 4))) % 4 = 3
              /\ (port61 + (3 - (port61 % 4))) \div 4 = port61 \div 4
          <6>1. port61 \in Nat /\ port61 <= 255
            BY <3>1, <4>1
          <6> QED BY <6>1, BothBits
        <5> QED BY <5>1, <5>2
      <4> QED BY <4>2, <4>3
    <3> QED BY <2>1, <2>5, <3>1, <3>2, ByteRange DEF Bits01, SpeakerTypeOK
  <2> QED BY <1>2, <2>2, <2>3, <2>4, <2>5 DEF PlaySound
<1>3. CASE StopSound
  <2>1. sp_pc = "playing" /\ sp_pc' = "idle" /\ UNCHANGED <<atBoot, divisor, low>>
        /\ port61' = port61 - (port61 % 4) /\ port61 \in Int /\ 0 <= port61 /\ port61 <= 255
    BY <1>3, ByteRange DEF StopSound, To, Bits01, SpeakerTypeOK
  <2>2. port61' \in Int /\ 0 <= port61' /\ port61' <= 255 /\ port61' % 4 = 0
        /\ port61' \div 4 = port61 \div 4
    BY <2>1
  <2> QED BY <2>1, <2>2, ByteRange DEF Bits01, SpeakerTypeOK
<1>4. CASE UNCHANGED speakerVars
  BY <1>4 DEF speakerVars, SpeakerTypeOK
<1> QED BY <1>1, <1>2, <1>3, <1>4 DEF SpeakerNext

(* Whatever the firmware left in the port, the speaker sounds while it is  *)
(* played and not after, and the timer goes on as it was set.              *)
THEOREM SpeakerAlwaysSound == SpeakerSpec => []SpeakerSound
<1>1. SpeakerInit => SpeakerInv
  BY SpeakerStart
<1>2. SpeakerInv /\ [SpeakerNext]_speakerVars => SpeakerInv'
  BY SpeakerStep
<1>3. SpeakerInv => SpeakerSound
  BY DEF SpeakerInv
<1> QED BY <1>1, <1>2, <1>3, PTL DEF SpeakerSpec

-----------------------------------------------------------------------------
(* netinit and lspci: what a read of the configuration space gives.        *)
Here == <<bus, slot, 0>>
CardPlaces == {p \in DOMAIN machine : IsCard(p)}

(* The machine stays as the firmware left it, but for the command register *)
(* of the first card.                                                      *)
SpaceInv ==
  /\ machine \in Machines
  /\ space \in [DOMAIN machine -> PciFunctions]
  /\ \A p \in DOMAIN machine : space[p].id = machine[p].id /\ space[p].bar0 = machine[p].bar0
  /\ \A p \in DOMAIN machine : ~First(p) => space[p] = machine[p]

LEMMA Ranges ==
  /\ NBus \in Nat /\ 1 <= NBus /\ NSlot \in Nat /\ 1 <= NSlot
  /\ \A b \in 0 .. NBus - 1 : b \in Nat /\ b < 256
  /\ \A s \in 0 .. NSlot - 1 : s \in Nat /\ s < 32
BY E1000Assumption

(* The address of function 0 of a slot names that place and the register.  *)
AddressOf(b, s, o) == b * 65536 + s * 2048 + o

LEMMA AddressedIs ==
  ASSUME NEW b \in Nat, b < 256, NEW s \in Nat, s < 32, NEW o \in Nat, o < 256
  PROVE  Addressed(AddressOf(b, s, o)) = <<b, s, 0>> /\ AddressOf(b, s, o) % 256 = o
<1>1. PICK a \in Nat : a = b * 65536 + s * 2048 + o
  OBVIOUS
<1>2. (a \div 65536) % 256 = b
  <2>1. PICK r \in Nat : r = s * 2048 + o /\ r < 65536
    OBVIOUS
  <2>2. a = b * 65536 + r
    BY <1>1, <2>1
  <2>3. a \div 65536 = b
    BY <2>1, <2>2
  <2> QED BY <2>3
<1>3. (a \div 2048) % 32 = s
  <2>1. PICK q \in Nat : q = b * 32 + s
    OBVIOUS
  <2>2. a = q * 2048 + o
    BY <1>1, <2>1
  <2>3. a \div 2048 = q
    BY <2>2
  <2>4. q % 32 = s
    BY <2>1
  <2> QED BY <2>3, <2>4
<1>4. (a \div 256) % 8 = 0 /\ a % 256 = o
  <2>1. PICK q \in Nat : q = b * 256 + s * 8
    OBVIOUS
  <2>2. a = q * 256 + o
    BY <1>1, <2>1
  <2>3. a \div 256 = q /\ a % 256 = o
    BY <2>2
  <2>4. PICK n \in Nat : n = b * 32 + s
    OBVIOUS
  <2>5. q = n * 8
    BY <2>1, <2>4
  <2>6. q % 8 = 0
    BY <2>5
  <2> QED BY <2>3, <2>6
<1>5. AddressOf(b, s, o) = a
  BY <1>1 DEF AddressOf
<1> QED BY <1>2, <1>3, <1>4, <1>5 DEF Addressed

LEMMA ReadsAre ==
  ASSUME SpaceInv, NEW b \in Nat, b < 256, NEW s \in Nat, s < 32
  PROVE  /\ PciReadDword(b, s, 0, 0) =
              IF <<b, s, 0>> \in DOMAIN machine THEN machine[<<b, s, 0>>].id ELSE <<Ones, Ones>>
         /\ <<b, s, 0>> \in DOMAIN machine =>
              /\ PciReadDword(b, s, 0, 4) = space[<<b, s, 0>>].command
              /\ PciReadDword(b, s, 0, 16) = machine[<<b, s, 0>>].bar0
         /\ PciReadWord(b, s, 0, 0) = PciReadDword(b, s, 0, 0)[1]
         /\ PciReadWord(b, s, 0, 2) = PciReadDword(b, s, 0, 0)[2]
<1>1. /\ ConfigAddress(b, s, 0, 0) = AddressOf(b, s, 0)
      /\ ConfigAddress(b, s, 0, 2) = AddressOf(b, s, 0)
      /\ ConfigAddress(b, s, 0, 4) = AddressOf(b, s, 4)
      /\ ConfigAddress(b, s, 0, 16) = AddressOf(b, s, 16)
  BY DEF ConfigAddress, AddressOf
<1>2. DOMAIN space = DOMAIN machine
  BY DEF SpaceInv
<1>3. PICK a : a = AddressOf(b, s, 0)
  OBVIOUS
<1>4. Addressed(a) = <<b, s, 0>> /\ a % 256 = 0
  BY <1>3, AddressedIs
<1>5. PICK c : c = AddressOf(b, s, 4)
  OBVIOUS
<1>6. Addressed(c) = <<b, s, 0>> /\ c % 256 = 4
  BY <1>5, AddressedIs
<1>7. PICK d : d = AddressOf(b, s, 16)
  OBVIOUS
<1>8. Addressed(d) = <<b, s, 0>> /\ d % 256 = 16
  BY <1>7, AddressedIs
<1>9. PciReadDword(b, s, 0, 0) =
        IF <<b, s, 0>> \in DOMAIN machine THEN machine[<<b, s, 0>>].id ELSE <<Ones, Ones>>
  <2>1. PciReadDword(b, s, 0, 0) = FunctionAt(a).id
    BY <1>1, <1>3, <1>4 DEF PciReadDword, Register
  <2>2. FunctionAt(a) = IF <<b, s, 0>> \in DOMAIN machine THEN space[<<b, s, 0>>] ELSE Nothing
    BY <1>2, <1>4 DEF FunctionAt
  <2> QED BY <2>1, <2>2 DEF SpaceInv, Nothing
<1>10. ASSUME <<b, s, 0>> \in DOMAIN machine
       PROVE  /\ PciReadDword(b, s, 0, 4) = space[<<b, s, 0>>].command
              /\ PciReadDword(b, s, 0, 16) = machine[<<b, s, 0>>].bar0
  <2>1. FunctionAt(c) = space[<<b, s, 0>>] /\ FunctionAt(d) = space[<<b, s, 0>>]
    BY <1>2, <1>6, <1>8, <1>10 DEF FunctionAt
  <2>2. PciReadDword(b, s, 0, 4) = FunctionAt(c).command
    BY <1>1, <1>5, <1>6 DEF PciReadDword, Register
  <2>3. PciReadDword(b, s, 0, 16) = FunctionAt(d).bar0
    BY <1>1, <1>7, <1>8 DEF PciReadDword, Register
  <2> QED BY <1>10, <2>1, <2>2, <2>3 DEF SpaceInv
<1>11. /\ PciReadWord(b, s, 0, 0) = PciReadDword(b, s, 0, 0)[1]
       /\ PciReadWord(b, s, 0, 2) = PciReadDword(b, s, 0, 0)[2]
  <2>1. /\ PciReadWord(b, s, 0, 0) = PciReadDword(b, s, 0, 0)[1]
        /\ PciReadWord(b, s, 0, 2) = PciReadDword(b, s, 0, 2)[2]
    BY DEF PciReadWord
  <2>2. PciReadDword(b, s, 0, 2) = PciReadDword(b, s, 0, 0)
    BY <1>1 DEF PciReadDword
  <2> QED BY <2>1, <2>2
<1> QED BY <1>9, <1>10, <1>11

-----------------------------------------------------------------------------
(* The first card.                                                         *)

LEMMA PlacesAre ==
  ASSUME machine \in Machines
  PROVE  /\ \A p \in DOMAIN machine :
              /\ p[1] \in Nat /\ p[2] \in Nat /\ p[3] \in Nat /\ p = <<p[1], p[2], p[3]>>
              /\ p[1] < 256 /\ p[2] < 32
         /\ machine \in [DOMAIN machine -> PciFunctions]
<1>1. DOMAIN machine \subseteq (0 .. 255) \X (0 .. 31) \X (0 .. 7)
      /\ machine \in [DOMAIN machine -> PciFunctions]
  BY E1000Assumption
<1> QED BY <1>1

LEMMA FirstIsOne ==
  ASSUME machine \in Machines, NEW p, NEW q, First(p), First(q) PROVE p = q
<1>1. p \in DOMAIN machine /\ q \in DOMAIN machine
  BY DEF First, Found, IsCard
<1> QED BY <1>1, PlacesAre DEF First, Before

(* The search, when it stops, is at the first card.                        *)
Behind(b, s) == \A p \in DOMAIN machine : Found(p) => ~Before(p, <<b, s, 0>>)

LEMMA FoundIsFirst ==
  ASSUME machine \in Machines, NEW b \in 0 .. NBus - 1, NEW s \in 0 .. NSlot - 1,
         Behind(b, s), IsCard(<<b, s, 0>>)
  PROVE  First(<<b, s, 0>>)
<1>1. Found(<<b, s, 0>>)
  BY Ranges DEF Found
<1>2. ASSUME NEW q \in DOMAIN machine, Found(q), q # <<b, s, 0>> PROVE Before(<<b, s, 0>>, q)
  <2>1. q[1] \in Nat /\ q[2] \in Nat /\ q = <<q[1], q[2], 0>>
    BY <1>2, PlacesAre DEF Found
  <2>2. ~(q[1] < b \/ (q[1] = b /\ q[2] < s))
    BY <1>2 DEF Behind, Before
  <2>3. q[1] # b \/ q[2] # s
    BY <1>2, <2>1
  <2>4. b < q[1] \/ (b = q[1] /\ s < q[2])
    BY <2>1, <2>2, <2>3
  <2> QED BY <2>4 DEF Before
<1> QED BY <1>1, <1>2 DEF First

LEMMA SearchGoesOn ==
  ASSUME machine \in Machines, NEW b \in 0 .. NBus - 1, NEW s \in 0 .. NSlot - 1,
         Behind(b, s), ~IsCard(<<b, s, 0>>)
  PROVE  /\ Behind(b, s + 1)
         /\ s + 1 = NSlot => Behind(b + 1, 0)
         /\ s + 1 = NSlot /\ b + 1 = NBus => \A p \in DOMAIN machine : ~Found(p)
<1> SUFFICES ASSUME NEW p \in DOMAIN machine, Found(p)
             PROVE  /\ ~Before(p, <<b, s + 1, 0>>)
                    /\ s + 1 = NSlot => ~Before(p, <<b + 1, 0, 0>>)
                    /\ ~(s + 1 = NSlot /\ b + 1 = NBus)
  BY DEF Behind
<1>1. p[1] \in Nat /\ p[2] \in Nat /\ p = <<p[1], p[2], 0>> /\ p[1] < NBus /\ p[2] < NSlot
  BY PlacesAre DEF Found
<1>2. ~(p[1] < b \/ (p[1] = b /\ p[2] < s))
  BY DEF Behind, Before
<1>3. ~(p[1] = b /\ p[2] = s)
  BY <1>1 DEF Found
<1>4. b \in Nat /\ s \in Nat /\ NBus \in Nat /\ NSlot \in Nat
  BY Ranges
<1> QED BY <1>1, <1>2, <1>3, <1>4 DEF Before

-----------------------------------------------------------------------------
(* The registers of the cards.                                             *)
CardsInv ==
  /\ cards \in [CardPlaces -> CardStates]
  /\ left \in [CardPlaces -> LeftByFirmware]
  /\ \A p \in CardPlaces : ~First(p) => cards[p] = left[p]

RingFilled == \A i \in 0 .. TX_DESC_COUNT - 1 : tx_ring[i] = i + 1

(* A transmitter that runs has been given all of it, the ring is empty.    *)
ReadyInv ==
  /\ tx_ring \in [0 .. TX_DESC_COUNT - 1 -> 0 .. TX_DESC_COUNT]
  /\ \A p \in CardPlaces :
       cards[p].enabled =>
         /\ {1, 2} \subseteq space[p].command /\ RingFilled
         /\ cards[p].tdbal = TxRing /\ cards[p].tdbah = 0
         /\ cards[p].tdlen = 16 * TX_DESC_COUNT /\ cards[p].tdh = 0 /\ cards[p].tdt = 0

(* What each step of netinit knows.                                        *)
AtCard == {"bar", "command", "enable", "mask", "mac", "ring", "registers"}
StageInv ==
  /\ net_pc \in {"idle", "lspci", "search", "missing"} \cup AtCard
  /\ bus \in 0 .. NBus /\ slot \in 0 .. NSlot
  /\ net_pc = "search" => bus < NBus /\ slot < NSlot /\ Behind(bus, slot)
  /\ net_pc = "missing" => \A p \in DOMAIN machine : ~Found(p)
  /\ net_pc = "missing" => slot < NSlot
  /\ net_pc \in AtCard => First(Here)
  /\ net_pc \in AtCard \ {"bar"} => bar0 = machine[Here].bar0
  /\ net_pc = "enable" => pci_command \in SUBSET Nat /\ {1, 2} \subseteq pci_command
  /\ net_pc \in {"mask", "mac", "ring", "registers"} =>
       e1000_mmio_base = RegisterBase(machine[Here]) /\ {1, 2} \subseteq space[Here].command
  /\ mac_address \in [1 .. 6 -> 0 .. 255]
  /\ net_pc \in {"ring", "registers"} => mac_address = cards[Here].mac
  /\ k \in 0 .. 7
  /\ net_pc = "registers" =>
       /\ RingFilled /\ k \in 1 .. 6
       /\ k >= 2 => cards[Here].tdbal = TxRing
       /\ k >= 3 => cards[Here].tdbah = 0
       /\ k >= 4 => cards[Here].tdlen = 16 * TX_DESC_COUNT
       /\ k >= 5 => cards[Here].tdh = 0
       /\ k >= 6 => cards[Here].tdt = 0

ListInv ==
  /\ listed \in Seq(Nat \X Nat)
  /\ net_pc = "lspci" => slot < NSlot
  /\ ListRight

NetInv == SpaceInv /\ CardsInv /\ ReadyInv /\ StageInv /\ ListInv

LEMMA FirstKept ==
  ASSUME machine' = machine
  PROVE  /\ CardPlaces' = CardPlaces
         /\ \A p : IsCard(p)' <=> IsCard(p)
         /\ \A p : Found(p)' <=> Found(p)
         /\ \A p : First(p)' <=> First(p)
         /\ \A b, s : Behind(b, s)' <=> Behind(b, s)
         /\ \A s : Below(s)' = Below(s)
BY DEF CardPlaces, IsCard, Found, First, Behind, Below, Before

LEMMA BehindKept == ASSUME machine' = machine, Behind(bus', slot') PROVE Behind(bus, slot)'
BY FirstKept DEF Behind, Before

LEMMA SpaceKept == SpaceInv /\ UNCHANGED <<machine, space>> => SpaceInv'
<1> SUFFICES ASSUME SpaceInv, UNCHANGED <<machine, space>> PROVE SpaceInv'
  OBVIOUS
<1> QED BY FirstKept DEF SpaceInv

LEMMA CardsKept == CardsInv /\ UNCHANGED <<machine, cards, left>> => CardsInv'
<1> SUFFICES ASSUME CardsInv, UNCHANGED <<machine, cards, left>> PROVE CardsInv'
  OBVIOUS
<1> QED BY FirstKept DEF CardsInv

LEMMA ReadyKept == ReadyInv /\ UNCHANGED <<machine, cards, space, tx_ring>> => ReadyInv'
<1> SUFFICES ASSUME ReadyInv, UNCHANGED <<machine, cards, space, tx_ring>> PROVE ReadyInv'
  OBVIOUS
<1> QED BY FirstKept DEF ReadyInv, RingFilled

(* netinit does not touch what lspci printed.                              *)
LEMMA ListKept ==
  ASSUME ListInv, UNCHANGED <<machine, listed>>, net_pc' # "lspci", slot' # NSlot
  PROVE  ListInv'
BY DEF ListInv, ListRight

(* The card that netinit is at.                                            *)
LEMMA CardHere ==
  ASSUME SpaceInv, First(Here)
  PROVE  /\ Here \in CardPlaces /\ Here \in DOMAIN machine /\ Here \in DOMAIN space
         /\ bus < NBus /\ slot < NSlot
         /\ \A p \in CardPlaces : First(p) => p = Here
<1>1. Found(Here) /\ Here \in DOMAIN machine /\ Here \in CardPlaces
  BY DEF First, Found, IsCard, CardPlaces
<1>2. bus < NBus /\ slot < NSlot
  BY <1>1 DEF Found, Here
<1> QED BY <1>1, <1>2, FirstIsOne DEF SpaceInv

(* Where it reads, it reads the registers of that card.                    *)
LEMMA ReadsHere ==
  ASSUME SpaceInv, First(Here), bus \in 0 .. NBus, slot \in 0 .. NSlot
  PROVE  /\ PciReadDword(bus, slot, 0, 4) = space[Here].command
         /\ PciReadDword(bus, slot, 0, 16) = machine[Here].bar0
<1>1. bus \in 0 .. NBus - 1 /\ slot \in 0 .. NSlot - 1
  BY CardHere, Ranges
<1>2. bus \in Nat /\ bus < 256 /\ slot \in Nat /\ slot < 32
  BY <1>1, Ranges
<1> QED BY <1>2, ReadsAre, CardHere DEF Here

-----------------------------------------------------------------------------
(* netinit, up to the registers of the card.                               *)

LEMMA NetStart == NetInit => NetInv
<1> SUFFICES ASSUME NetInit PROVE NetInv
  OBVIOUS
<1>1. SpaceInv
  BY PlacesAre DEF NetInit, SpaceInv
<1>2. CardsInv
  <2>1. left \in [CardPlaces -> LeftByFirmware] /\ cards = left
    BY DEF NetInit, CardPlaces
  <2> QED BY <2>1, E1000Assumption DEF CardsInv
<1>3. ReadyInv
  <2>1. \A p \in CardPlaces : cards[p] \in LeftByFirmware
    BY DEF NetInit, CardPlaces
  <2>2. \A p \in CardPlaces : ~cards[p].enabled
    BY <2>1, E1000Assumption
  <2>3. tx_ring \in [0 .. TX_DESC_COUNT - 1 -> 0 .. TX_DESC_COUNT]
    BY DEF NetInit, TX_DESC_COUNT
  <2> QED BY <2>2, <2>3 DEF ReadyInv
<1>4. StageInv
  BY Ranges DEF NetInit, StageInv, AtCard
<1>5. ListInv
  BY Ranges DEF NetInit, ListInv, ListRight
<1> QED BY <1>1, <1>2, <1>3, <1>4, <1>5 DEF NetInv

LEMMA NetinitKeeps == NetInv /\ Netinit => NetInv'
<1> SUFFICES ASSUME NetInv, Netinit PROVE NetInv'
  OBVIOUS
<1>1. UNCHANGED <<machine, space, cards, left, tx_ring, listed>>
  BY DEF Netinit, driverVars
<1>2. SpaceInv' /\ CardsInv' /\ ReadyInv'
  BY <1>1, SpaceKept, CardsKept, ReadyKept DEF NetInv
<1>3. ListInv'
  BY <1>1, Ranges, ListKept DEF NetInv, Netinit
<1>4. Behind(0, 0)'
  <2>1. \A p \in DOMAIN machine : p[1] \in Nat /\ p[2] \in Nat
    BY PlacesAre DEF NetInv, SpaceInv
  <2> QED BY <1>1, <2>1 DEF Behind, Before
<1>5. StageInv'
  <2>1. StageInv
    BY DEF NetInv
  <2> QED BY <1>4, <2>1, Ranges DEF StageInv, AtCard, Netinit, driverVars
<1> QED BY <1>2, <1>3, <1>5 DEF NetInv

LEMMA SearchKeeps == NetInv /\ Search => NetInv'
<1> SUFFICES ASSUME NetInv, Search PROVE NetInv'
  OBVIOUS
<1>1. UNCHANGED <<machine, space, cards, left, tx_ring, listed, mac_address, k>>
  BY DEF Search, driverVars
<1>2. SpaceInv' /\ CardsInv' /\ ReadyInv'
  BY <1>1, SpaceKept, CardsKept, ReadyKept DEF NetInv
<1>3. bus \in 0 .. NBus - 1 /\ slot \in 0 .. NSlot - 1 /\ Behind(bus, slot) /\ machine \in Machines
  BY Ranges DEF NetInv, StageInv, SpaceInv, Search
<1>4. PciReadDword(bus, slot, 0, 0) = Intel1000 <=> IsCard(Here)
  <2>1. PciReadDword(bus, slot, 0, 0) =
          IF Here \in DOMAIN machine THEN machine[Here].id ELSE <<Ones, Ones>>
    <3>1. SpaceInv /\ bus \in Nat /\ bus < 256 /\ slot \in Nat /\ slot < 32
      BY <1>3, Ranges DEF NetInv
    <3> QED BY <3>1, ReadsAre DEF Here
  <2>2. <<Ones, Ones>> # Intel1000
    BY DEF Ones, Intel1000
  <2> QED BY <2>1, <2>2 DEF IsCard
<1>5. CASE IsCard(Here)
  <2>1. bus' = bus /\ slot' = slot /\ net_pc' = "bar"
    BY <1>4, <1>5 DEF Search
  <2>2. First(Here)'
    <3>1. First(Here)
      BY <1>3, <1>5, FoundIsFirst DEF Here
    <3> QED BY <1>1, <2>1, <3>1, FirstKept DEF Here
  <2>3. StageInv'
    <3>1. bus \in 0 .. NBus /\ slot \in 0 .. NSlot /\ mac_address \in [1 .. 6 -> 0 .. 255] /\ k \in 0 .. 7
      BY DEF NetInv, StageInv
    <3>2. bus' \in 0 .. NBus /\ slot' \in 0 .. NSlot /\ mac_address' \in [1 .. 6 -> 0 .. 255] /\ k' \in 0 .. 7
      BY <1>1, <2>1, <3>1
    <3>3. /\ net_pc' \in {"idle", "lspci", "search", "missing"} \cup AtCard
          /\ net_pc' \notin {"search", "missing", "enable", "mask", "mac", "ring", "registers"}
          /\ net_pc' \notin AtCard \ {"bar"}
      BY <2>1 DEF AtCard
    <3> QED BY <2>2, <3>2, <3>3 DEF StageInv
  <2>4. ListInv'
    BY <1>1, <1>3, <2>1, ListKept, Ranges DEF NetInv
  <2> QED BY <1>2, <2>3, <2>4 DEF NetInv
<1>6. CASE ~IsCard(Here)
  <2>1. /\ slot' = IF slot + 1 = NSlot THEN 0 ELSE slot + 1
        /\ bus' = IF slot + 1 = NSlot THEN bus + 1 ELSE bus
        /\ net_pc' = IF slot + 1 = NSlot /\ bus + 1 = NBus THEN "missing" ELSE "search"
    BY <1>4, <1>6 DEF Search
  <2>2. /\ Behind(bus, slot + 1)
        /\ slot + 1 = NSlot => Behind(bus + 1, 0)
        /\ slot + 1 = NSlot /\ bus + 1 = NBus => \A p \in DOMAIN machine : ~Found(p)
    BY <1>3, <1>6, SearchGoesOn DEF Here
  <2>3. slot' \in 0 .. NSlot /\ slot' < NSlot /\ bus' \in 0 .. NBus
    BY <1>3, <2>1, Ranges
  <2>4. ListInv'
    BY <1>1, <2>1, <2>3, ListKept, Ranges DEF NetInv
  <2>5. net_pc' \in {"search", "missing"}
    BY <2>1
  <2>6. net_pc' = "search" => bus' < NBus /\ Behind(bus, slot)'
    <3>1. net_pc' = "search" => bus' < NBus
      BY <1>3, <2>1, Ranges
    <3>2. Behind(bus', slot')
      BY <2>1, <2>2
    <3> QED BY <1>1, <3>1, <3>2, BehindKept
  <2>7. net_pc' = "missing" => \A p \in DOMAIN machine' : ~Found(p)'
    BY <1>1, <2>1, <2>2, FirstKept
  <2>8. StageInv'
    BY <1>1, <2>3, <2>5, <2>6, <2>7 DEF NetInv, StageInv, AtCard
  <2> QED BY <1>2, <2>4, <2>8 DEF NetInv
<1> QED BY <1>5, <1>6

(* Later steps stay at the card.                                           *)
LEMMA StaysHere ==
  ASSUME UNCHANGED <<machine, bus, slot>>, First(Here) PROVE First(Here)' /\ Here' = Here
BY FirstKept DEF Here

LEMMA ListKeptHere ==
  ASSUME NetInv, First(Here), UNCHANGED <<machine, bus, slot, listed>>, net_pc' # "lspci"
  PROVE  ListInv'
BY CardHere, ListKept DEF NetInv, StageInv

LEMMA MissingKeeps == NetInv /\ Missing => NetInv'
<1> SUFFICES ASSUME NetInv, Missing PROVE NetInv'
  OBVIOUS
<1>1. UNCHANGED <<machine, space, cards, left, tx_ring, listed, bus, slot, mac_address, k>>
  BY DEF Missing, driverVars
<1>2. SpaceInv' /\ CardsInv' /\ ReadyInv'
  BY <1>1, SpaceKept, CardsKept, ReadyKept DEF NetInv
<1>3. ListInv'
  BY <1>1, Ranges, ListKept DEF NetInv, StageInv, Missing
<1>4. StageInv'
  BY <1>1 DEF NetInv, StageInv, AtCard, Missing
<1> QED BY <1>2, <1>3, <1>4 DEF NetInv

LEMMA ReadBarKeeps == NetInv /\ ReadBar => NetInv'
<1> SUFFICES ASSUME NetInv, ReadBar PROVE NetInv'
  OBVIOUS
<1>1. UNCHANGED <<machine, space, cards, left, tx_ring, listed, bus, slot, mac_address, k>>
  BY DEF ReadBar
<1>2. SpaceInv' /\ CardsInv' /\ ReadyInv'
  BY <1>1, SpaceKept, CardsKept, ReadyKept DEF NetInv
<1>3. First(Here) /\ SpaceInv /\ bus \in 0 .. NBus /\ slot \in 0 .. NSlot
  BY DEF NetInv, StageInv, AtCard, ReadBar
<1>4. net_pc' = "command" /\ bar0' = machine[Here].bar0
  BY <1>3, ReadsHere DEF ReadBar
<1>5. ListInv'
  BY <1>1, <1>3, <1>4, ListKeptHere
<1>6. StageInv'
  BY <1>1, <1>3, <1>4, StaysHere DEF NetInv, StageInv, AtCard
<1> QED BY <1>2, <1>5, <1>6 DEF NetInv

LEMMA ReadCommandKeeps == NetInv /\ ReadCommand => NetInv'
<1> SUFFICES ASSUME NetInv, ReadCommand PROVE NetInv'
  OBVIOUS
<1>1. UNCHANGED <<machine, space, cards, left, tx_ring, listed, bus, slot, bar0, mac_address, k>>
  BY DEF ReadCommand
<1>2. SpaceInv' /\ CardsInv' /\ ReadyInv'
  BY <1>1, SpaceKept, CardsKept, ReadyKept DEF NetInv
<1>3. First(Here) /\ SpaceInv /\ bus \in 0 .. NBus /\ slot \in 0 .. NSlot
  BY DEF NetInv, StageInv, AtCard, ReadCommand
<1>4. net_pc' = "enable" /\ pci_command' = space[Here].command \cup {1, 2, 10}
  BY <1>3, ReadsHere DEF ReadCommand
<1>5. pci_command' \in SUBSET Nat /\ {1, 2} \subseteq pci_command'
  <2>1. space[Here].command \in SUBSET Nat
    BY <1>3, CardHere DEF SpaceInv, PciFunctions
  <2> QED BY <1>4, <2>1
<1>6. bar0' = machine[Here].bar0
  BY <1>1 DEF NetInv, StageInv, AtCard, ReadCommand
<1>7. ListInv'
  BY <1>1, <1>3, <1>4, ListKeptHere
<1>8. StageInv'
  BY <1>1, <1>3, <1>4, <1>5, <1>6, StaysHere DEF NetInv, StageInv, AtCard
<1> QED BY <1>2, <1>7, <1>8 DEF NetInv

LEMMA WriteCommandKeeps == NetInv /\ WriteCommand => NetInv'
<1> SUFFICES ASSUME NetInv, WriteCommand PROVE NetInv'
  OBVIOUS
<1>1. UNCHANGED <<machine, cards, left, tx_ring, listed, bus, slot, bar0, mac_address, k>>
  BY DEF WriteCommand
<1>2. First(Here) /\ SpaceInv /\ bus \in 0 .. NBus /\ slot \in 0 .. NSlot
      /\ bar0 = machine[Here].bar0 /\ pci_command \in SUBSET Nat /\ {1, 2} \subseteq pci_command
  BY DEF NetInv, StageInv, AtCard, WriteCommand
<1>3. Addressed(ConfigAddress(bus, slot, 0, 4)) = Here
  <2>1. bus \in Nat /\ bus < 256 /\ slot \in Nat /\ slot < 32
    <3>1. bus \in 0 .. NBus - 1 /\ slot \in 0 .. NSlot - 1
      BY <1>2, CardHere, Ranges
    <3> QED BY <3>1, Ranges
  <2>2. ConfigAddress(bus, slot, 0, 4) = AddressOf(bus, slot, 4)
    BY <2>1 DEF ConfigAddress, AddressOf
  <2> QED BY <2>1, <2>2, AddressedIs DEF Here
<1>4. space' = [q \in DOMAIN space |->
                  IF q = Here THEN [space[q] EXCEPT !.command = pci_command] ELSE space[q]]
  BY <1>3 DEF WriteCommand, PciWriteCommand
<1>5. Here \in DOMAIN machine /\ DOMAIN space = DOMAIN machine /\ Here \in CardPlaces
      /\ \A p \in CardPlaces : p \in DOMAIN machine
  BY <1>2, CardHere DEF SpaceInv, CardPlaces
<1>6. /\ space'[Here] = [space[Here] EXCEPT !.command = pci_command]
      /\ \A q \in DOMAIN machine : q # Here => space'[q] = space[q]
      /\ DOMAIN space' = DOMAIN machine /\ space' = [q \in DOMAIN machine |-> space'[q]]
  BY <1>4, <1>5
<1>7. /\ space'[Here].command = pci_command /\ space'[Here].id = space[Here].id
      /\ space'[Here].bar0 = space[Here].bar0 /\ space'[Here] \in PciFunctions
  BY <1>2, <1>5, <1>6 DEF SpaceInv, PciFunctions
<1>8. SpaceInv'
  <2>1. \A q \in DOMAIN machine : space'[q] \in PciFunctions
    BY <1>2, <1>6, <1>7 DEF SpaceInv
  <2>2. space' \in [DOMAIN machine -> PciFunctions]
    BY <1>6, <2>1
  <2>3. \A p \in DOMAIN machine : space'[p].id = machine[p].id /\ space'[p].bar0 = machine[p].bar0
    BY <1>2, <1>6, <1>7 DEF SpaceInv
  <2>4. \A p \in DOMAIN machine : ~First(p) => space'[p] = machine[p]
    BY <1>2, <1>6 DEF SpaceInv
  <2> QED BY <1>1, <1>2, <2>2, <2>3, <2>4, FirstKept DEF SpaceInv
<1>9. CardsInv'
  BY <1>1, CardsKept DEF NetInv
<1>10. ReadyInv'
  <2>1. \A p \in CardPlaces : {1, 2} \subseteq space[p].command => {1, 2} \subseteq space'[p].command
    BY <1>2, <1>5, <1>6, <1>7
  <2> QED BY <1>1, <2>1, FirstKept DEF NetInv, ReadyInv, RingFilled
<1>11. net_pc' = "mask" /\ e1000_mmio_base' = RegisterBase(machine[Here])
  BY <1>2 DEF WriteCommand, RegisterBase
<1>12. ListInv'
  BY <1>1, <1>2, <1>11, ListKeptHere
<1>13. StageInv'
  BY <1>1, <1>2, <1>7, <1>11, StaysHere DEF NetInv, StageInv, AtCard
<1> QED BY <1>8, <1>9, <1>10, <1>12, <1>13 DEF NetInv

-----------------------------------------------------------------------------
(* The registers of the card: no other card is at the address.             *)

LEMMA OneAnswers ==
  ASSUME NetInv, net_pc \in {"mask", "mac", "ring", "registers"}
  PROVE  /\ Here \in CardPlaces /\ First(Here)
         /\ \A p \in CardPlaces : Answers(p, e1000_mmio_base) <=> p = Here
<1>1. /\ SpaceInv /\ First(Here) /\ e1000_mmio_base = RegisterBase(machine[Here])
      /\ {1, 2} \subseteq space[Here].command
  BY DEF NetInv, StageInv, AtCard
<1>2. Here \in CardPlaces /\ machine \in Machines
  BY <1>1, CardHere DEF SpaceInv
<1>3. \A p \in CardPlaces : RegisterBase(space[p]) = RegisterBase(machine[p])
  BY <1>1 DEF SpaceInv, CardPlaces, RegisterBase
<1>4. \A p \in CardPlaces : RegisterBase(machine[p]) = RegisterBase(machine[Here]) => p = Here
  BY <1>2, E1000Assumption DEF CardPlaces, IsCard
<1> QED BY <1>1, <1>2, <1>3, <1>4 DEF Answers

(* Byte by byte the address of the card comes back from its registers.     *)
LEMMA MacComesBack ==
  ASSUME NEW mac \in [1 .. 6 -> 0 .. 255]
  PROVE  MacBytes(Ral(mac), Rah(mac)) = mac
<1>a. \A i \in 1 .. 6 : mac[i] \in Nat /\ mac[i] < 256
  OBVIOUS
<1>b. PICK a \in Nat, b \in Nat, c \in Nat : mac[1] = a /\ mac[2] = b /\ mac[3] = c
  BY <1>a
<1>c. PICK d \in Nat, e \in Nat, f \in Nat : mac[4] = d /\ mac[5] = e /\ mac[6] = f
  BY <1>a
<1>1. /\ mac[1] = a /\ mac[2] = b /\ mac[3] = c /\ mac[4] = d /\ mac[5] = e /\ mac[6] = f
      /\ a < 256 /\ b < 256 /\ c < 256 /\ d < 256 /\ e < 256 /\ f < 256
  BY <1>a, <1>b, <1>c
<1>2. PICK lo \in Nat : lo = Ral(mac) /\ lo = a + 256 * b + 65536 * c + 16777216 * d
  BY <1>1 DEF Ral
<1>3. PICK hi \in Nat : hi = Rah(mac) /\ hi = e + 256 * f + 65536 * 16384
  BY <1>1 DEF Rah
<1>4. lo \div 256 = b + 256 * c + 65536 * d /\ lo % 256 = a
  <2>1. PICK q \in Nat : q = b + 256 * c + 65536 * d
    <3>1. b + 256 * c + 65536 * d \in Nat
      OBVIOUS
    <3> QED BY <3>1
  <2>2. lo = q * 256 + a
    BY <1>2, <2>1
  <2>3. lo \div 256 = q /\ lo % 256 = a
    BY <1>1, <2>2
  <2> QED BY <2>1, <2>3
<1>5. (lo \div 256) % 256 = b
  <2>1. PICK q \in Nat : q = c + 256 * d
    OBVIOUS
  <2>2. lo \div 256 = q * 256 + b
    BY <1>4, <2>1
  <2>3. PICK n \in Nat : n = lo \div 256
    BY <2>2
  <2> QED BY <1>1, <2>2, <2>3
<1>6. (lo \div 65536) % 256 = c
  <2>1. PICK q \in Nat : q = d * 256 + c
    OBVIOUS
  <2>2. PICK r \in Nat : r = b * 256 + a /\ r < 65536
    BY <1>1
  <2>3. lo = q * 65536 + r
    BY <1>2, <2>1, <2>2
  <2>4. lo \div 65536 = q
    BY <2>2, <2>3
  <2>5. (q % 256) = c
    BY <1>1, <2>1
  <2> QED BY <2>4, <2>5
<1>7. (lo \div 16777216) % 256 = d
  <2>1. PICK r \in Nat : r = 65536 * c + b * 256 + a /\ r < 16777216
    BY <1>1
  <2>2. lo = d * 16777216 + r
    BY <1>2, <2>1
  <2>3. lo \div 16777216 = d
    BY <2>1, <2>2
  <2>4. d % 256 = d
    BY <1>1
  <2> QED BY <2>3, <2>4
<1>8. hi % 256 = e /\ (hi \div 256) % 256 = f
  <2>0. PICK t \in Nat : t = 16384
    OBVIOUS
  <2>1. PICK q \in Nat : q = t * 256 + f
    OBVIOUS
  <2>2. hi = q * 256 + e
    <3>1. hi = e + 256 * f + 65536 * t
      BY <1>3, <2>0
    <3> QED BY <2>1, <3>1
  <2>3. hi \div 256 = q /\ hi % 256 = e
    BY <1>1, <2>2
  <2>4. q % 256 = f
    BY <1>1, <2>1
  <2> QED BY <2>3, <2>4
<1>9. MacBytes(Ral(mac), Rah(mac)) = <<a, b, c, d, e, f>>
  BY <1>2, <1>3, <1>4, <1>5, <1>6, <1>7, <1>8 DEF MacBytes
<1>10. mac = [i \in 1 .. 6 |-> mac[i]]
  OBVIOUS
<1>11. \A i \in 1 .. 6 : mac[i] = <<a, b, c, d, e, f>>[i]
  BY <1>1
<1>12. <<a, b, c, d, e, f>> = [i \in 1 .. 6 |-> <<a, b, c, d, e, f>>[i]]
  OBVIOUS
<1> QED BY <1>9, <1>10, <1>11, <1>12

LEMMA ReadMacAddressKeeps == NetInv /\ ReadMacAddress => NetInv'
<1> SUFFICES ASSUME NetInv, ReadMacAddress PROVE NetInv'
  OBVIOUS
<1>1. UNCHANGED <<machine, space, cards, left, tx_ring, listed, bus, slot, bar0, pci_command,
                  e1000_mmio_base, k>>
  BY DEF ReadMacAddress
<1>2. SpaceInv' /\ CardsInv' /\ ReadyInv'
  BY <1>1, SpaceKept, CardsKept, ReadyKept DEF NetInv
<1>3. /\ Here \in CardPlaces /\ First(Here)
      /\ \A p \in CardPlaces : Answers(p, e1000_mmio_base) <=> p = Here
  BY OneAnswers DEF ReadMacAddress
<1>4. DOMAIN cards = CardPlaces /\ cards[Here].mac \in [1 .. 6 -> 0 .. 255]
  BY <1>3 DEF NetInv, CardsInv, CardStates
<1>5. MacRegisters = <<Ral(cards[Here].mac), Rah(cards[Here].mac)>>
  <2>1. \E p \in DOMAIN cards : Answers(p, e1000_mmio_base)
    BY <1>3, <1>4
  <2>2. (CHOOSE p \in DOMAIN cards : Answers(p, e1000_mmio_base)) = Here
    BY <1>3, <1>4
  <2> QED BY <2>1, <2>2 DEF MacRegisters
<1>6. net_pc' = "ring" /\ mac_address' = cards[Here].mac
  BY <1>4, <1>5, MacComesBack DEF ReadMacAddress
<1>7. ListInv'
  BY <1>1, <1>3, <1>6, ListKeptHere
<1>8. Here' = Here /\ First(Here)'
  BY <1>1, <1>3, StaysHere
<1>9. StageInv'
  <2>1. StageInv
    BY DEF NetInv
  <2>2. net_pc = "mac"
    BY DEF ReadMacAddress
  <2>3. /\ bus \in 0 .. NBus /\ slot \in 0 .. NSlot /\ bar0 = machine[Here].bar0 /\ k \in 0 .. 7
        /\ e1000_mmio_base = RegisterBase(machine[Here]) /\ {1, 2} \subseteq space[Here].command
    BY <2>1, <2>2 DEF StageInv, AtCard
  <2>4. /\ bus' \in 0 .. NBus /\ slot' \in 0 .. NSlot /\ bar0' = machine'[Here'].bar0
        /\ mac_address' \in [1 .. 6 -> 0 .. 255] /\ mac_address' = cards'[Here'].mac
    BY <1>1, <1>4, <1>6, <1>8, <2>3
  <2>5. /\ e1000_mmio_base' = RegisterBase(machine'[Here'])
        /\ {1, 2} \subseteq space'[Here'].command /\ k' \in 0 .. 7
    BY <1>1, <1>8, <2>3
  <2>6. /\ net_pc' \in {"idle", "lspci", "search", "missing"} \cup AtCard
        /\ net_pc' \notin {"search", "missing", "enable", "registers"}
    BY <1>6 DEF AtCard
  <2> QED BY <1>8, <2>4, <2>5, <2>6 DEF StageInv
<1> QED BY <1>2, <1>7, <1>9 DEF NetInv

LEMMA FillRingKeeps == NetInv /\ FillRing => NetInv'
<1> SUFFICES ASSUME NetInv, FillRing PROVE NetInv'
  OBVIOUS
<1>1. UNCHANGED <<machine, space, cards, left, listed, bus, slot, bar0, pci_command,
                  e1000_mmio_base, mac_address>>
  BY DEF FillRing
<1>2. SpaceInv' /\ CardsInv'
  BY <1>1, SpaceKept, CardsKept DEF NetInv
<1>3. tx_ring' \in [0 .. TX_DESC_COUNT - 1 -> 0 .. TX_DESC_COUNT] /\ RingFilled'
  BY DEF FillRing, RingFilled, TX_DESC_COUNT
<1>4. ReadyInv'
  BY <1>1, <1>3, FirstKept DEF NetInv, ReadyInv
<1>5. First(Here) /\ net_pc' = "registers" /\ k' = 1
  BY DEF NetInv, StageInv, AtCard, FillRing
<1>6. ListInv'
  BY <1>1, <1>5, ListKeptHere
<1>7. Here' = Here /\ First(Here)'
  BY <1>1, <1>5, StaysHere
<1>8. StageInv'
  <2>1. StageInv
    BY DEF NetInv
  <2>2. net_pc = "ring"
    BY DEF FillRing
  <2>3. /\ bus \in 0 .. NBus /\ slot \in 0 .. NSlot /\ bar0 = machine[Here].bar0
        /\ mac_address \in [1 .. 6 -> 0 .. 255] /\ mac_address = cards[Here].mac
        /\ e1000_mmio_base = RegisterBase(machine[Here]) /\ {1, 2} \subseteq space[Here].command
    BY <2>1, <2>2 DEF StageInv, AtCard
  <2>4. /\ bus' \in 0 .. NBus /\ slot' \in 0 .. NSlot /\ bar0' = machine'[Here'].bar0
        /\ mac_address' \in [1 .. 6 -> 0 .. 255] /\ mac_address' = cards'[Here'].mac
    BY <1>1, <1>7, <2>3
  <2>5. /\ e1000_mmio_base' = RegisterBase(machine'[Here'])
        /\ {1, 2} \subseteq space'[Here'].command
    BY <1>1, <1>7, <2>3
  <2>6. RingFilled' /\ First(Here)'
    BY <1>3, <1>7
  <2>7. /\ net_pc' \in {"idle", "lspci", "search", "missing"} \cup AtCard
        /\ net_pc' # "search" /\ net_pc' # "missing" /\ net_pc' # "enable"
    BY <1>5 DEF AtCard
  <2>8. k' \in 0 .. 7 /\ k' \in 1 .. 6 /\ ~(k' >= 2) /\ ~(k' >= 3) /\ ~(k' >= 4) /\ ~(k' >= 5)
        /\ ~(k' >= 6)
    BY <1>5
  <2> QED BY <2>4, <2>5, <2>6, <2>7, <2>8 DEF StageInv
<1> QED BY <1>2, <1>4, <1>6, <1>8 DEF NetInv

(* A register is written in the card at hand and in no other.              *)
LEMMA WrittenHere ==
  ASSUME NetInv, net_pc \in {"mask", "mac", "ring", "registers"}, NEW r, NEW value,
         WriteReg(r, value)
  PROVE  /\ cards' = [p \in CardPlaces |-> cards'[p]]
         /\ cards'[Here] = [cards[Here] EXCEPT ![r] = value]
         /\ \A p \in CardPlaces : p # Here => cards'[p] = cards[p]
<1>1. /\ Here \in CardPlaces
      /\ \A p \in CardPlaces : Answers(p, e1000_mmio_base) <=> p = Here
  BY OneAnswers
<1>2. DOMAIN cards = CardPlaces
  BY DEF NetInv, CardsInv
<1>3. cards' = [p \in CardPlaces |-> IF Answers(p, e1000_mmio_base)
                                    THEN [cards[p] EXCEPT ![r] = value] ELSE cards[p]]
  BY <1>2 DEF WriteReg
<1> QED BY <1>1, <1>3

LEMMA CardWritten ==
  ASSUME NetInv, First(Here), Here \in CardPlaces, UNCHANGED <<machine, left>>,
         cards' = [p \in CardPlaces |-> cards'[p]], cards'[Here] \in CardStates,
         \A p \in CardPlaces : p # Here => cards'[p] = cards[p]
  PROVE  CardsInv'
<1>1. cards' \in [CardPlaces -> CardStates]
  <2>1. \A p \in CardPlaces : cards'[p] \in CardStates
    BY DEF NetInv, CardsInv
  <2> QED BY <2>1
<1>2. \A p \in CardPlaces : ~First(p) => cards'[p] = left[p]
  BY DEF NetInv, CardsInv
<1> QED BY <1>1, <1>2, FirstKept DEF NetInv, CardsInv

LEMMA MaskInterruptsKeeps == NetInv /\ MaskInterrupts => NetInv'
<1> SUFFICES ASSUME NetInv, MaskInterrupts PROVE NetInv'
  OBVIOUS
<1>1. UNCHANGED <<machine, space, left, tx_ring, listed, bus, slot, bar0, e1000_mmio_base,
                  mac_address, k>> /\ net_pc = "mask" /\ net_pc' = "mac"
  BY DEF MaskInterrupts, driverVars
<1>2. Here \in CardPlaces /\ First(Here)
  BY <1>1, OneAnswers
<1>3. /\ cards' = [p \in CardPlaces |-> cards'[p]]
      /\ cards'[Here] = [cards[Here] EXCEPT !["interrupts"] = 0]
      /\ \A p \in CardPlaces : p # Here => cards'[p] = cards[p]
  BY <1>1, WrittenHere DEF MaskInterrupts
<1>4. cards[Here] \in CardStates
  BY <1>2 DEF NetInv, CardsInv
<1>5. PICK d : d = cards'[Here]
  OBVIOUS
<1>6. /\ d \in CardStates /\ d.enabled = cards[Here].enabled /\ d.tdbal = cards[Here].tdbal
      /\ d.tdbah = cards[Here].tdbah /\ d.tdlen = cards[Here].tdlen
      /\ d.tdh = cards[Here].tdh /\ d.tdt = cards[Here].tdt
  <2>1. PICK o : o = cards[Here]
    OBVIOUS
  <2>2. o \in CardStates /\ d = [o EXCEPT !["interrupts"] = 0]
    BY <1>3, <1>4, <1>5, <2>1
  <2>3. d \in CardStates
    BY <2>2 DEF CardStates
  <2>4. /\ d.enabled = o.enabled /\ d.tdbal = o.tdbal /\ d.tdbah = o.tdbah
        /\ d.tdlen = o.tdlen /\ d.tdh = o.tdh /\ d.tdt = o.tdt
    BY <2>2 DEF CardStates
  <2> QED BY <2>1, <2>3, <2>4
<1>7. SpaceInv'
  BY <1>1, SpaceKept DEF NetInv
<1>8. CardsInv'
  BY <1>1, <1>2, <1>3, <1>5, <1>6, CardWritten
<1>9. ReadyInv'
  <2>1. \A p \in CardPlaces :
          /\ cards'[p].enabled = cards[p].enabled /\ cards'[p].tdbal = cards[p].tdbal
          /\ cards'[p].tdbah = cards[p].tdbah /\ cards'[p].tdlen = cards[p].tdlen
          /\ cards'[p].tdh = cards[p].tdh /\ cards'[p].tdt = cards[p].tdt
    BY <1>3, <1>5, <1>6
  <2> QED BY <1>1, <2>1, FirstKept DEF NetInv, ReadyInv, RingFilled
<1>10. ListInv'
  BY <1>1, <1>2, ListKeptHere
<1>11. Here' = Here /\ First(Here)'
  BY <1>1, <1>2, StaysHere
<1>12. StageInv'
  BY <1>1, <1>11 DEF NetInv, StageInv, AtCard
<1> QED BY <1>7, <1>8, <1>9, <1>10, <1>12 DEF NetInv

(* What the sixth of the writes finds, and what each of them leaves.       *)
RegisterAfter(c, d) ==
  /\ d \in CardStates /\ d.mac = c.mac
  /\ d.tdbal = IF k = 1 THEN TxRing ELSE c.tdbal
  /\ d.tdbah = IF k = 2 THEN 0 ELSE c.tdbah
  /\ d.tdlen = IF k = 3 THEN 16 * TX_DESC_COUNT ELSE c.tdlen
  /\ d.tdh = IF k = 4 THEN 0 ELSE c.tdh
  /\ d.tdt = IF k = 5 THEN 0 ELSE c.tdt
  /\ k = 6 => d.enabled
  /\ k # 6 => d.enabled = c.enabled

LEMMA RegisterWritten ==
  ASSUME k \in 1 .. 6, NEW c \in CardStates, NEW d,
         d = [c EXCEPT ![RingRegisters[k][1]] = RingRegisters[k][2]]
  PROVE  RegisterAfter(c, d)
<1>1. TxRing \in Nat /\ 16 * TX_DESC_COUNT \in Nat /\ 16 * TX_DESC_COUNT = TX_DESC_COUNT * 16
  BY DEF TxRing, TX_DESC_COUNT
<1>0. PICK z \in Nat : z = 0
  OBVIOUS
<1>2. CASE k = 1
  <2>1. d = [c EXCEPT !["tdbal"] = TxRing]
    BY <1>1, <1>2 DEF RingRegisters
  <2>2. d \in CardStates
    BY <1>1, <2>1 DEF CardStates
  <2>3. /\ d.mac = c.mac /\ d.tdbal = TxRing /\ d.tdbah = c.tdbah /\ d.tdlen = c.tdlen
        /\ d.tdh = c.tdh /\ d.tdt = c.tdt /\ d.enabled = c.enabled
    BY <2>1 DEF CardStates
  <2> QED BY <1>2, <2>2, <2>3 DEF RegisterAfter
<1>3. CASE k = 2
  <2>1. d = [c EXCEPT !["tdbah"] = z]
    BY <1>0, <1>3 DEF RingRegisters
  <2>2. d \in CardStates
    BY <2>1 DEF CardStates
  <2>3. /\ d.mac = c.mac /\ d.tdbal = c.tdbal /\ d.tdbah = z /\ d.tdlen = c.tdlen
        /\ d.tdh = c.tdh /\ d.tdt = c.tdt /\ d.enabled = c.enabled
    BY <2>1 DEF CardStates
  <2> QED BY <1>0, <1>3, <2>2, <2>3 DEF RegisterAfter
<1>4. CASE k = 3
  <2>1. d = [c EXCEPT !["tdlen"] = 16 * TX_DESC_COUNT]
    BY <1>1, <1>4 DEF RingRegisters
  <2>2. d \in CardStates
    BY <1>1, <2>1 DEF CardStates
  <2>3. /\ d.mac = c.mac /\ d.tdbal = c.tdbal /\ d.tdbah = c.tdbah /\ d.tdlen = 16 * TX_DESC_COUNT
        /\ d.tdh = c.tdh /\ d.tdt = c.tdt /\ d.enabled = c.enabled
    BY <2>1 DEF CardStates
  <2> QED BY <1>4, <2>2, <2>3 DEF RegisterAfter
<1>5. CASE k = 4
  <2>1. d = [c EXCEPT !["tdh"] = z]
    BY <1>0, <1>5 DEF RingRegisters
  <2>2. d \in CardStates
    BY <2>1 DEF CardStates
  <2>3. /\ d.mac = c.mac /\ d.tdbal = c.tdbal /\ d.tdbah = c.tdbah /\ d.tdlen = c.tdlen
        /\ d.tdh = z /\ d.tdt = c.tdt /\ d.enabled = c.enabled
    BY <2>1 DEF CardStates
  <2> QED BY <1>0, <1>5, <2>2, <2>3 DEF RegisterAfter
<1>6. CASE k = 5
  <2>1. d = [c EXCEPT !["tdt"] = z]
    BY <1>0, <1>6 DEF RingRegisters
  <2>2. d \in CardStates
    BY <2>1 DEF CardStates
  <2>3. /\ d.mac = c.mac /\ d.tdbal = c.tdbal /\ d.tdbah = c.tdbah /\ d.tdlen = c.tdlen
        /\ d.tdh = c.tdh /\ d.tdt = z /\ d.enabled = c.enabled
    BY <2>1 DEF CardStates
  <2> QED BY <1>0, <1>6, <2>2, <2>3 DEF RegisterAfter
<1>7. CASE k = 6
  <2>1. d = [c EXCEPT !["enabled"] = TRUE]
    BY <1>1, <1>7 DEF RingRegisters
  <2>2. d \in CardStates
    BY <1>1, <2>1 DEF CardStates
  <2>3. /\ d.mac = c.mac /\ d.tdbal = c.tdbal /\ d.tdbah = c.tdbah /\ d.tdlen = c.tdlen
        /\ d.tdh = c.tdh /\ d.tdt = c.tdt /\ d.enabled
    BY <2>1 DEF CardStates
  <2> QED BY <1>7, <2>2, <2>3 DEF RegisterAfter
<1> QED BY <1>2, <1>3, <1>4, <1>5, <1>6, <1>7

LEMMA WriteRingRegisterKeeps == NetInv /\ WriteRingRegister => NetInv'
<1> SUFFICES ASSUME NetInv, WriteRingRegister PROVE NetInv'
  OBVIOUS
<1>1. UNCHANGED <<machine, space, left, tx_ring, listed, bus, slot, bar0, e1000_mmio_base,
                  mac_address>> /\ net_pc = "registers"
  BY DEF WriteRingRegister
<1>2. Here \in CardPlaces /\ First(Here)
  BY <1>1, OneAnswers
<1>3. k \in 1 .. 6 /\ k' = k + 1 /\ net_pc' = IF k = 6 THEN "idle" ELSE "registers"
  <2>1. Len(RingRegisters) = 6
    BY DEF RingRegisters
  <2> QED BY <1>1, <2>1 DEF NetInv, StageInv, WriteRingRegister
<1>4. /\ cards' = [p \in CardPlaces |-> cards'[p]]
      /\ cards'[Here] = [cards[Here] EXCEPT ![RingRegisters[k][1]] = RingRegisters[k][2]]
      /\ \A p \in CardPlaces : p # Here => cards'[p] = cards[p]
  BY <1>1, WrittenHere DEF WriteRingRegister
<1>5. PICK c, d : c = cards[Here] /\ d = cards'[Here] /\ c \in CardStates
  BY <1>2 DEF NetInv, CardsInv
<1>6. RegisterAfter(c, d)
  BY <1>3, <1>4, <1>5, RegisterWritten
<1>7. SpaceInv'
  BY <1>1, SpaceKept DEF NetInv
<1>8. CardsInv'
  BY <1>1, <1>2, <1>4, <1>5, <1>6, CardWritten DEF RegisterAfter
<1>9. /\ RingFilled /\ {1, 2} \subseteq space[Here].command
      /\ k >= 2 => c.tdbal = TxRing
      /\ k >= 3 => c.tdbah = 0
      /\ k >= 4 => c.tdlen = 16 * TX_DESC_COUNT
      /\ k >= 5 => c.tdh = 0
      /\ k >= 6 => c.tdt = 0
  BY <1>1, <1>5 DEF NetInv, StageInv
<1>10. /\ k' >= 2 => d.tdbal = TxRing
       /\ k' >= 3 => d.tdbah = 0
       /\ k' >= 4 => d.tdlen = 16 * TX_DESC_COUNT
       /\ k' >= 5 => d.tdh = 0
       /\ k' >= 6 => d.tdt = 0
  BY <1>3, <1>6, <1>9 DEF RegisterAfter
<1>11. d.enabled =>
         /\ d.tdbal = TxRing /\ d.tdbah = 0
         /\ d.tdlen = 16 * TX_DESC_COUNT /\ d.tdh = 0 /\ d.tdt = 0
  <2>1. CASE k = 6
    BY <1>3, <1>10, <2>1
  <2>2. CASE k # 6
    <3>1. c.enabled =>
            /\ c.tdbal = TxRing /\ c.tdbah = 0
            /\ c.tdlen = 16 * TX_DESC_COUNT /\ c.tdh = 0 /\ c.tdt = 0
      BY <1>2, <1>5 DEF NetInv, ReadyInv
    <3> QED BY <1>6, <2>2, <3>1 DEF RegisterAfter
  <2> QED BY <2>1, <2>2
<1>12. ReadyInv'
  <2>1. ASSUME NEW p \in CardPlaces, cards'[p].enabled
        PROVE  /\ {1, 2} \subseteq space[p].command /\ RingFilled
               /\ cards'[p].tdbal = TxRing /\ cards'[p].tdbah = 0
               /\ cards'[p].tdlen = 16 * TX_DESC_COUNT
               /\ cards'[p].tdh = 0 /\ cards'[p].tdt = 0
    <3>1. CASE p = Here
      BY <1>5, <1>9, <1>11, <2>1, <3>1
    <3>2. CASE p # Here
      BY <1>4, <2>1, <3>2 DEF NetInv, ReadyInv
    <3> QED BY <3>1, <3>2
  <2> QED BY <1>1, <2>1, FirstKept DEF NetInv, ReadyInv, RingFilled
<1>13. ListInv'
  BY <1>1, <1>2, <1>3, ListKeptHere
<1>14. Here' = Here /\ First(Here)'
  BY <1>1, <1>2, StaysHere
<1>15. cards'[Here].mac = cards[Here].mac
  BY <1>5, <1>6 DEF RegisterAfter
<1>16. StageInv'
  <2>1. CASE k = 6
    <3>1. bus \in 0 .. NBus /\ slot \in 0 .. NSlot /\ mac_address \in [1 .. 6 -> 0 .. 255]
      BY DEF NetInv, StageInv
    <3>2. bus' \in 0 .. NBus /\ slot' \in 0 .. NSlot /\ mac_address' \in [1 .. 6 -> 0 .. 255]
      BY <1>1, <3>1
    <3>3. net_pc' = "idle" /\ k' \in 0 .. 7
      BY <1>3, <2>1
    <3>4. net_pc' \in {"idle"} \cup AtCard /\ net_pc' \notin AtCard
      BY <3>3 DEF AtCard
    <3> QED BY <3>2, <3>3, <3>4 DEF StageInv
  <2>2. CASE k # 6
    <3>1. net_pc' = "registers" /\ k' \in 1 .. 6 /\ k' \in 0 .. 7
      BY <1>3, <2>2
    <3>2. RingFilled'
      BY <1>1, <1>9 DEF RingFilled
    <3> QED BY <1>1, <1>5, <1>10, <1>14, <1>15, <3>1, <3>2 DEF NetInv, StageInv, AtCard
  <2> QED BY <2>1, <2>2
<1> QED BY <1>7, <1>8, <1>12, <1>13, <1>16 DEF NetInv

-----------------------------------------------------------------------------
(* lspci: the list holds what is below the slot it is at.                  *)

LEMMA BelowGrows ==
  ASSUME machine \in Machines, NEW s \in 0 .. NSlot - 1
  PROVE  /\ Below(s + 1) = IF <<0, s, 0>> \in DOMAIN machine THEN Below(s) \cup {s} ELSE Below(s)
         /\ s \notin Below(s)
         /\ IsFiniteSet(Below(s)) /\ Cardinality(Below(s)) \in Nat
<1>1. s \in Nat
  BY Ranges
<1>2. Below(s + 1) = IF <<0, s, 0>> \in DOMAIN machine THEN Below(s) \cup {s} ELSE Below(s)
  <2>1. 0 .. (s + 1) - 1 = (0 .. s - 1) \cup {s}
    BY <1>1
  <2> QED BY <2>1 DEF Below
<1>3. s \notin Below(s)
  BY <1>1 DEF Below
<1>4. IsFiniteSet(0 .. s - 1)
  BY <1>1, FS_Interval
<1>5. IsFiniteSet(Below(s))
  <2>1. Below(s) \subseteq 0 .. s - 1
    BY DEF Below
  <2> QED BY <1>4, <2>1, FS_Subset
<1> QED BY <1>2, <1>3, <1>5, FS_CardinalityType

LEMMA LspciKeeps == NetInv /\ Lspci => NetInv'
<1> SUFFICES ASSUME NetInv, Lspci PROVE NetInv'
  OBVIOUS
<1>1. UNCHANGED <<machine, space, cards, left, bus, tx_ring, mac_address, k>>
      /\ net_pc' = "lspci" /\ slot' = 0 /\ listed' = <<>>
  BY DEF Lspci, driverVars
<1>2. SpaceInv' /\ CardsInv' /\ ReadyInv'
  BY <1>1, SpaceKept, CardsKept, ReadyKept DEF NetInv
<1>3. StageInv'
  <2>1. StageInv
    BY DEF NetInv
  <2> QED BY <1>1, <2>1, Ranges DEF StageInv, AtCard
<1>4. ListInv'
  <2>1. Below(0)' = {} /\ Below(slot)' = {}
    BY <1>1 DEF Below
  <2>2. Cardinality({}) = 0
    BY FS_EmptySet
  <2>3. listed' \in Seq(Nat \X Nat) /\ Len(listed') = 0 /\ slot' < NSlot
    BY <1>1, Ranges
  <2> QED BY <1>1, <2>1, <2>2, <2>3 DEF ListInv, ListRight
<1> QED BY <1>2, <1>3, <1>4 DEF NetInv

LEMMA LspciSlotKeeps == NetInv /\ LspciSlot => NetInv'
<1> SUFFICES ASSUME NetInv, LspciSlot PROVE NetInv'
  OBVIOUS
<1>1. UNCHANGED <<machine, space, cards, left, bus, tx_ring, mac_address, k>>
      /\ net_pc' \in {"idle", "lspci"} /\ slot' = slot + 1
      /\ net_pc' = IF slot' = NSlot THEN "idle" ELSE "lspci"
  BY DEF LspciSlot, driverVars
<1>2. SpaceInv' /\ CardsInv' /\ ReadyInv'
  BY <1>1, SpaceKept, CardsKept, ReadyKept DEF NetInv
<1>3. PICK s \in 0 .. NSlot - 1 : s = slot
  BY Ranges DEF NetInv, StageInv, ListInv, LspciSlot
<1>4. StageInv'
  <2>1. /\ bus \in 0 .. NBus /\ slot \in 0 .. NSlot /\ mac_address \in [1 .. 6 -> 0 .. 255]
        /\ k \in 0 .. 7
    BY DEF NetInv, StageInv
  <2>2. /\ bus' \in 0 .. NBus /\ slot' \in 0 .. NSlot /\ mac_address' \in [1 .. 6 -> 0 .. 255]
        /\ k' \in 0 .. 7
    BY <1>1, <1>3, <2>1, Ranges
  <2>3. net_pc' \in {"idle", "lspci"} \cup AtCard /\ net_pc' \notin AtCard
    BY <1>1 DEF AtCard
  <2> QED BY <1>1, <2>2, <2>3 DEF StageInv
<1>5. /\ Len(listed) = Cardinality(Below(s))
      /\ \A t \in Below(s) : listed[Cardinality(Below(t)) + 1] = machine[<<0, t, 0>>].id
      /\ listed \in Seq(Nat \X Nat) /\ machine \in Machines
  BY <1>3 DEF NetInv, ListInv, ListRight, SpaceInv, LspciSlot
<1>6. /\ PciReadWord(0, s, 0, 0) =
              IF <<0, s, 0>> \in DOMAIN machine THEN machine[<<0, s, 0>>].id[1] ELSE Ones
      /\ <<0, s, 0>> \in DOMAIN machine => PciReadWord(0, s, 0, 2) = machine[<<0, s, 0>>].id[2]
  <2>1. s \in Nat /\ s < 32
    BY Ranges
  <2> QED BY <2>1, ReadsAre DEF NetInv
<1>7. /\ listed' \in Seq(Nat \X Nat)
      /\ Len(listed') = Cardinality(Below(s + 1))
      /\ \A t \in Below(s + 1) : listed'[Cardinality(Below(t)) + 1] = machine[<<0, t, 0>>].id
  <2>1. CASE <<0, s, 0>> \notin DOMAIN machine
    <3>1. listed' = listed
      BY <1>3, <1>6, <2>1 DEF LspciSlot
    <3> QED BY <1>5, <2>1, <3>1, BelowGrows
  <2>2. CASE <<0, s, 0>> \in DOMAIN machine
    <3>1. listed' = Append(listed, machine[<<0, s, 0>>].id) /\ machine[<<0, s, 0>>].id \in Nat \X Nat
      <4>1. PICK v : v = machine[<<0, s, 0>>].id
        OBVIOUS
      <4>2. v \in (Nat \ {Ones}) \X Nat
        BY <1>5, <2>2, <4>1, PlacesAre DEF PciFunctions
      <4>3. listed' = IF v[1] # Ones THEN Append(listed, <<v[1], v[2]>>) ELSE listed
        BY <1>3, <1>6, <2>2, <4>1 DEF LspciSlot
      <4> QED BY <4>1, <4>2, <4>3
    <3>2. PICK n \in Nat : n = Cardinality(Below(s)) /\ n = Len(listed)
      BY <1>5, BelowGrows
    <3>3. Cardinality(Below(s + 1)) = n + 1
      <4>1. PICK S : S = Below(s)
        OBVIOUS
      <4>2. IsFiniteSet(S) /\ s \notin S /\ Below(s + 1) = S \cup {s}
        BY <1>5, <2>2, <4>1, BelowGrows
      <4>3. Cardinality(S \cup {s}) = Cardinality(S) + 1
        BY <4>2, FS_AddElement
      <4> QED BY <3>2, <4>1, <4>2, <4>3
    <3>4. /\ listed' \in Seq(Nat \X Nat) /\ Len(listed') = n + 1
          /\ listed'[n + 1] = machine[<<0, s, 0>>].id
          /\ \A i \in 1 .. n : listed'[i] = listed[i]
      BY <1>5, <3>1, <3>2
    <3>5. ASSUME NEW t \in Below(s) PROVE Cardinality(Below(t)) + 1 \in 1 .. n
      <4>1. t \in 0 .. NSlot - 1 /\ t < s /\ <<0, t, 0>> \in DOMAIN machine
        BY <1>3, Ranges DEF Below
      <4>2. PICK S, T : S = Below(t) /\ T = Below(s)
        OBVIOUS
      <4>3. IsFiniteSet(S) /\ IsFiniteSet(T) /\ t \notin S
        BY <1>5, <4>1, <4>2, BelowGrows
      <4>4. S \cup {t} \subseteq T
        BY <1>3, <4>1, <4>2, Ranges DEF Below
      <4>5. Cardinality(S \cup {t}) = Cardinality(S) + 1 /\ Cardinality(S) \in Nat
        BY <4>3, FS_AddElement, FS_CardinalityType
      <4>6. Cardinality(S \cup {t}) <= Cardinality(T)
        BY <4>3, <4>4, FS_Subset
      <4>7. PICK m \in Nat : m = Cardinality(S) /\ m = Cardinality(Below(t))
        BY <4>2, <4>5
      <4>8. m + 1 <= Cardinality(T) /\ Cardinality(T) = n
        BY <3>2, <4>2, <4>5, <4>6, <4>7
      <4> QED BY <4>7, <4>8
    <3> QED BY <1>5, <2>2, <3>2, <3>3, <3>4, <3>5, BelowGrows
  <2> QED BY <2>1, <2>2
<1>8. ListInv'
  <2>1. Below(slot)' = Below(s + 1) /\ \A t : Below(t)' = Below(t)
    BY <1>1, <1>3, FirstKept DEF Below
  <2>2. slot' = s + 1 /\ listed' \in Seq(Nat \X Nat) /\ (net_pc' = "lspci" => s + 1 < NSlot)
    BY <1>1, <1>3, <1>7, Ranges
  <2> QED BY <1>1, <1>7, <2>1, <2>2 DEF ListInv, ListRight
<1> QED BY <1>2, <1>4, <1>8 DEF NetInv

-----------------------------------------------------------------------------
LEMMA NetKept == NetInv /\ UNCHANGED netVars => NetInv'
<1> SUFFICES ASSUME NetInv, UNCHANGED netVars PROVE NetInv'
  OBVIOUS
<1>1. UNCHANGED <<space, cards, net_pc, bus, slot, bar0, pci_command, e1000_mmio_base,
                  mac_address, k, tx_ring, listed, machine, left>>
  BY DEF netVars, driverVars
<1>2. SpaceInv' /\ CardsInv' /\ ReadyInv'
  BY <1>1, SpaceKept, CardsKept, ReadyKept DEF NetInv
<1>3. ListInv'
  <2>1. \A s : Below(s)' = Below(s)
    BY <1>1, FirstKept
  <2>2. Below(slot)' = Below(slot)
    BY <1>1 DEF Below
  <2> QED BY <1>1, <2>1, <2>2 DEF NetInv, ListInv, ListRight
<1>4. Behind(bus, slot) => Behind(bus, slot)'
  BY <1>1, BehindKept
<1>5. Here' = Here /\ (First(Here) => First(Here)') /\ \A p : Found(p)' <=> Found(p)
  BY <1>1, FirstKept DEF Here
<1>6. StageInv'
  <2>1. StageInv
    BY DEF NetInv
  <2> QED BY <1>1, <1>4, <1>5, <2>1 DEF StageInv, RingFilled, AtCard
<1> QED BY <1>2, <1>3, <1>6 DEF NetInv

LEMMA NetSteps == NetInv /\ [NetNext]_netVars => NetInv'
BY LspciKeeps, LspciSlotKeeps, NetinitKeeps, SearchKeeps, MissingKeeps, ReadBarKeeps,
   ReadCommandKeeps, WriteCommandKeeps, MaskInterruptsKeeps, ReadMacAddressKeeps, FillRingKeeps,
   WriteRingRegisterKeeps, NetKept DEF NetNext

LEMMA NetAlways == NetSpec => []NetInv
BY NetStart, NetSteps, PTL DEF NetSpec

LEMMA ReadyFollows == NetInv => TransmitterReady
<1> SUFFICES ASSUME NetInv PROVE TransmitterReady
  OBVIOUS
<1>1. DOMAIN cards = CardPlaces /\ DOMAIN tx_ring = 0 .. TX_DESC_COUNT - 1
  BY DEF NetInv, CardsInv, ReadyInv
<1> QED BY <1>1 DEF NetInv, ReadyInv, RingFilled, TransmitterReady

LEMMA SoundFollows == NetInv => NetworkSound
<1> SUFFICES ASSUME NetInv PROVE NetworkSound
  OBVIOUS
<1>1. NetTypeOK
  <2>1. Len(RingRegisters) + 1 = 7
    BY DEF RingRegisters
  <2> QED BY <2>1 DEF NetInv, StageInv, ReadyInv, AtCard, NetTypeOK
<1>2. SearchRight
  BY DEF NetInv, StageInv, AtCard, SearchRight, Here, First
<1>3. OnlyTheFirst
  BY DEF NetInv, SpaceInv, CardsInv, OnlyTheFirst, CardPlaces
<1>4. MacKnown
  <2>1. SUFFICES ASSUME net_pc \in {"ring", "registers"}, NEW p \in DOMAIN cards, First(p)
                 PROVE  mac_address = cards[p].mac
    BY DEF MacKnown
  <2>2. First(Here) /\ mac_address = cards[Here].mac
    BY <2>1 DEF NetInv, StageInv, AtCard
  <2> QED BY <2>1, <2>2, FirstIsOne DEF NetInv, SpaceInv
<1>5. ListRight
  BY DEF NetInv, ListInv
<1> QED BY <1>1, <1>2, <1>3, <1>4, <1>5 DEF NetworkSound

(* Whatever the firmware left in the cards, and however often netinit is   *)
(* given, a transmitter runs only with a ring that is filled and empty.    *)
THEOREM TransmitterAlwaysReady == NetSpec => []TransmitterReady
BY NetAlways, ReadyFollows, PTL

(* In every machine, for every number of buses and slots that are          *)
(* searched, netinit finds the first card and configures it alone, shows   *)
(* its address, and lspci lists function 0 of every device of bus 0.       *)
THEOREM NetworkAlwaysSound == NetSpec => []NetworkSound
BY NetAlways, SoundFollows, PTL

-----------------------------------------------------------------------------
(* math: numbers and their texts.                                          *)

(* A property of some number is one of a smallest number.                  *)
LEMMA SmallestOf ==
  ASSUME NEW T, T \subseteq Nat, T # {}
  PROVE  \E x \in T : \A y \in T : x <= y
<1> DEFINE R == OpToRel(<, Nat)
<1>1. IsWellFoundedOn(R, Nat)
  BY NatLessThanWellFounded
<1>2. \A x, y \in Nat : <<y, x>> \in R <=> y < x
  BY DEF OpToRel
<1> HIDE DEF R
<1>3. PICK x \in T : \A y \in T : ~(<<y, x>> \in R)
  BY <1>1, WFMin
<1>4. \A y \in T : x \in Nat /\ y \in Nat /\ ~(y < x)
  BY <1>2, <1>3
<1> QED BY <1>4

(* Induction over sets of numbers, from one number to the next and from    *)
(* all smaller numbers.                                                    *)
LEMMA StepInduction ==
  ASSUME NEW S, 0 \in S, \A n \in Nat : n \in S => n + 1 \in S
  PROVE  \A n \in Nat : n \in S
<1> SUFFICES ASSUME NEW m \in Nat, m \notin S PROVE FALSE
  OBVIOUS
<1>1. PICK x \in Nat \ S : \A y \in Nat \ S : x <= y
  BY SmallestOf
<1>2. x - 1 \in Nat /\ x = (x - 1) + 1
  BY <1>1
<1>3. x - 1 \in S
  BY <1>1, <1>2
<1> QED BY <1>1, <1>2, <1>3

LEMMA StrongInduction ==
  ASSUME NEW S, \A n \in Nat : (\A m \in Nat : m < n => m \in S) => n \in S
  PROVE  \A n \in Nat : n \in S
<1> SUFFICES ASSUME NEW m \in Nat, m \notin S PROVE FALSE
  OBVIOUS
<1>1. PICK x \in Nat \ S : \A y \in Nat \ S : x <= y
  BY SmallestOf
<1>2. \A y \in Nat : y < x => y \in S
  BY <1>1
<1> QED BY <1>1, <1>2

(* A loop of L rounds, of which the n-th turns v into F[n][v], and what is *)
(* there after each round if z was at first.                               *)
Loop(L, V, z, F) == L \in Nat /\ z \in V /\ \A n \in 1 .. L : \A v \in V : F[n][v] \in V
Rounds(L, V, z, F, h) ==
  h \in [0 .. L -> V] /\ h[0] = z /\ \A n \in 1 .. L : h[n] = F[n][h[n - 1]]

LEMMA LoopEnds ==
  ASSUME NEW L, NEW V, NEW z, NEW F, Loop(L, V, z, F)
  PROVE  \E h : Rounds(L, V, z, F, h)
<1> SUFFICES ASSUME L \in Nat, z \in V, \A n \in 1 .. L : \A v \in V : F[n][v] \in V
             PROVE  \E h \in [0 .. L -> V] : h[0] = z /\ \A n \in 1 .. L : h[n] = F[n][h[n - 1]]
  BY DEF Loop, Rounds
<1> DEFINE After(m, h) ==
             h[0] = z /\ \A n \in 1 .. m : h[n] = F[n][h[n - 1]]
           Good == {m \in Nat : m <= L => \E h \in [0 .. m -> V] : After(m, h)}
<1>1. 0 \in Good
  <2>1. PICK h : h = [n \in 0 .. 0 |-> z]
    OBVIOUS
  <2>2. h \in [0 .. 0 -> V] /\ After(0, h)
    BY <2>1
  <2> QED BY <2>2
<1>2. ASSUME NEW m \in Nat, m \in Good PROVE m + 1 \in Good
  <2> SUFFICES ASSUME m + 1 <= L PROVE \E h \in [0 .. m + 1 -> V] : After(m + 1, h)
    OBVIOUS
  <2>1. PICK g \in [0 .. m -> V] : After(m, g)
    BY <1>2
  <2>2. PICK h : h = [n \in 0 .. m + 1 |-> IF n = m + 1 THEN F[m + 1][g[m]] ELSE g[n]]
    OBVIOUS
  <2>3. m + 1 \in 1 .. L /\ g[m] \in V
    BY <2>1
  <2>4. F[m + 1][g[m]] \in V
    BY <2>3
  <2>5. h \in [0 .. m + 1 -> V]
    BY <2>1, <2>2, <2>4
  <2>6. ASSUME NEW n \in 0 .. m PROVE h[n] = g[n]
    BY <2>2
  <2>7. h[0] = z
    BY <2>1, <2>6
  <2>8. ASSUME NEW n \in 1 .. m + 1 PROVE h[n] = F[n][h[n - 1]]
    <3>1. CASE n = m + 1
      <4>1. n - 1 = m /\ m \in 0 .. m /\ n \in 0 .. m + 1
        BY <3>1
      <4>2. h[n - 1] = g[m]
        BY <2>6, <4>1
      <4>3. h[n] = F[m + 1][g[m]]
        BY <2>2, <3>1
      <4> QED BY <3>1, <4>2, <4>3
    <3>2. CASE n # m + 1
      <4>1. n \in 1 .. m /\ n \in 0 .. m /\ n - 1 \in 0 .. m
        BY <3>2
      <4>2. h[n] = g[n] /\ h[n - 1] = g[n - 1] /\ g[n] = F[n][g[n - 1]]
        BY <2>1, <2>6, <4>1
      <4> QED BY <4>2
    <3> QED BY <3>1, <3>2
  <2> QED BY <2>5, <2>7, <2>8
<1>3. L \in Good
  <2> HIDE DEF Good
  <2> QED BY <1>1, <1>2, StepInduction
<1> QED BY <1>3

(* There are at least 16 ints, half of them negative. *)
LEMMA Powers ==
  /\ Num!Sixteen[0] = 1
  /\ \A e \in 1 .. HexDigits : Num!Sixteen[e] = 16 * Num!Sixteen[e - 1]
  /\ \A e \in 0 .. HexDigits : Num!Sixteen[e] \in Nat /\ Num!Sixteen[e] > 0
<1>1. HexDigits \in Nat
  BY NumbersOk DEF Num!NumbersAssumption, Num!StringsAssumption
<1>2. PICK F : F = [n \in 1 .. HexDigits |-> [v \in Nat |-> 16 * v]]
  OBVIOUS
<1>3. PICK h \in [0 .. HexDigits -> Nat] :
        h[0] = 1 /\ \A n \in 1 .. HexDigits : h[n] = F[n][h[n - 1]]
  <2>1. Loop(HexDigits, Nat, 1, F)
    BY <1>1, <1>2 DEF Loop
  <2>2. \E h : Rounds(HexDigits, Nat, 1, F, h)
    BY <2>1, LoopEnds
  <2> QED BY <2>2 DEF Rounds
<1>4. ASSUME NEW n \in 0 .. HexDigits PROVE h[n] = IF n = 0 THEN 1 ELSE 16 * h[n - 1]
  <2>1. CASE n = 0
    BY <1>3, <2>1
  <2>2. CASE n # 0
    <3>1. n \in 1 .. HexDigits /\ n - 1 \in 0 .. HexDigits
      BY <1>1, <2>2
    <3>2. h[n - 1] \in Nat
      BY <1>3, <3>1
    <3>3. F[n] = [v \in Nat |-> 16 * v]
      BY <1>2, <3>1
    <3>4. F[n][h[n - 1]] = 16 * h[n - 1]
      BY <3>2, <3>3
    <3> QED BY <1>3, <2>2, <3>4
  <2> QED BY <2>1, <2>2
<1>5. h = [n \in 0 .. HexDigits |-> IF n = 0 THEN 1 ELSE 16 * h[n - 1]]
  <2>1. h = [n \in 0 .. HexDigits |-> h[n]]
    BY <1>3
  <2> QED BY <1>4, <2>1
<1>6. PICK f : f = CHOOSE g : g = [e \in 0 .. HexDigits |-> IF e = 0 THEN 1 ELSE 16 * g[e - 1]]
  OBVIOUS
<1>7. f = [e \in 0 .. HexDigits |-> IF e = 0 THEN 1 ELSE 16 * f[e - 1]]
  BY <1>5, <1>6
<1>8. Num!Sixteen = f
  BY <1>6 DEF Num!Sixteen
<1>9. f[0] = 1 /\ \A e \in 1 .. HexDigits : f[e] = 16 * f[e - 1]
  <2>1. 0 \in 0 .. HexDigits
    BY <1>1
  <2>2. f[0] = 1
    BY <1>7, <2>1
  <2>3. ASSUME NEW e \in 1 .. HexDigits PROVE f[e] = 16 * f[e - 1]
    <3>1. e \in 0 .. HexDigits /\ e # 0
      BY <1>1
    <3> QED BY <1>7, <3>1
  <2> QED BY <2>2, <2>3
<1>10. ASSUME NEW e \in 0 .. HexDigits PROVE f[e] \in Nat /\ f[e] > 0
  <2>1. PICK S : S = {n \in Nat : n <= HexDigits => f[n] \in Nat /\ f[n] > 0}
    OBVIOUS
  <2>2. 0 \in S
    BY <1>9, <2>1
  <2>3. ASSUME NEW n \in Nat, n \in S PROVE n + 1 \in S
    <3>1. CASE n + 1 <= HexDigits
      <4>1. f[n] \in Nat /\ f[n] > 0
        BY <1>1, <2>1, <2>3, <3>1
      <4>2. n + 1 \in 1 .. HexDigits /\ (n + 1) - 1 = n
        BY <1>1, <3>1
      <4>3. f[n + 1] = 16 * f[n]
        BY <1>9, <4>2
      <4>4. f[n + 1] \in Nat /\ f[n + 1] > 0
        BY <4>1, <4>3
      <4> QED BY <2>1, <4>4
    <3>2. CASE ~(n + 1 <= HexDigits)
      BY <2>1, <3>2
    <3> QED BY <3>1, <3>2
  <2>4. \A n \in Nat : n \in S
    BY <2>2, <2>3, StepInduction
  <2>5. e \in Nat /\ e <= HexDigits
    BY <1>1
  <2> QED BY <2>1, <2>4, <2>5
<1> QED BY <1>8, <1>9, <1>10

LEMMA IntRange ==
  \E H \in Nat : /\ H >= 8 /\ Num!Ints = H + H
                 /\ Num!IntMin = -H /\ Num!IntMax = H - 1
<1>1. HexDigits \in 1 .. HexDigits /\ HexDigits - 1 \in 0 .. HexDigits
  BY NumbersOk DEF Num!NumbersAssumption, Num!StringsAssumption
<1>2. PICK p : p = Num!Sixteen[HexDigits - 1]
  OBVIOUS
<1>3. p \in Nat /\ p > 0 /\ Num!Ints = 16 * p
  BY <1>1, <1>2, Powers DEF Num!Ints
<1>4. 8 * p \in Nat /\ 8 * p >= 8 /\ 16 * p = 8 * p + 8 * p /\ (16 * p) \div 2 = 8 * p
  BY <1>3
<1> QED BY <1>3, <1>4 DEF Num!IntMin, Num!IntMax

(* An int is what it is; a number that is too large wraps.                 *)
LEMMA IntIs ==
  ASSUME NEW x \in Int
  PROVE  /\ Num!Int32(x) \in Num!IntMin .. Num!IntMax
         /\ x \in Num!IntMin .. Num!IntMax => Num!Int32(x) = x
<1>1. PICK H \in Nat : /\ H >= 8 /\ Num!Ints = H + H
                       /\ Num!IntMin = -H /\ Num!IntMax = H - 1
  BY IntRange
<1>2. PICK w \in Nat, y \in Int : w = H + H /\ y = x + H
  BY <1>1
<1>3. w > 0 /\ y % w \in Nat /\ y % w < w
  BY <1>1, <1>2
<1>4. Num!Int32(x) = (y % w) - H
  <2>1. x - (-H) = y /\ Num!Ints = w
    BY <1>1, <1>2
  <2>2. Num!Int32(x) = (y % w) + (-H)
    BY <1>1, <2>1 DEF Num!Int32
  <2> QED BY <1>1, <1>3, <2>2
<1>5. (y % w) - H \in (-H) .. (H - 1)
  BY <1>1, <1>2, <1>3
<1>6. ASSUME x \in (-H) .. (H - 1) PROVE y % w = y
  <2>1. y \in Nat /\ y < w
    BY <1>1, <1>2, <1>6
  <2> QED BY <1>2, <1>3, <2>1
<1>7. x \in (-H) .. (H - 1) => Num!Int32(x) = x
  BY <1>1, <1>2, <1>4, <1>6
<1> QED BY <1>1, <1>4, <1>5, <1>7

(* h holds, for each beginning of the text s, the number it stands for: as *)
(* atoi reads it, and as it is meant.                                      *)
Wrapped(s, h) ==
  h[0] = 0 /\ \A n \in 1 .. Len(s) : h[n] = Num!Int32(h[n - 1] * 10 + s[n] - Num!Zero)
Exactly(s, h) ==
  h[0] = 0 /\ \A n \in 1 .. Len(s) : h[n] = 10 * h[n - 1] + s[n] - Num!Zero

LEMMA AtoiOf ==
  ASSUME NEW s, Len(s) \in Nat, NEW h, Wrapped(s, h)
  PROVE  Num!atoi(s) = h[Len(s)]
<1>1. PICK l \in Nat : l = Len(s)
  OBVIOUS
<1>2. h[0] = 0 /\ \A n \in 1 .. l : h[n] = Num!Int32(h[n - 1] * 10 + s[n] - Num!Zero)
  BY <1>1 DEF Wrapped
<1>3. PICK g : g = [n \in 0 .. l |-> h[n]]
  OBVIOUS
<1>4. ASSUME NEW n \in 0 .. l
      PROVE  g[n] = IF n = 0 THEN 0 ELSE Num!Int32(g[n - 1] * 10 + s[n] - Num!Zero)
  <2>1. CASE n = 0
    BY <1>2, <1>3, <2>1
  <2>2. CASE n # 0
    <3>1. n \in 1 .. l /\ n - 1 \in 0 .. l
      BY <2>2
    <3>2. g[n] = h[n] /\ g[n - 1] = h[n - 1]
      BY <1>3, <3>1
    <3> QED BY <1>2, <2>2, <3>1, <3>2
  <2> QED BY <2>1, <2>2
<1>5. g = [n \in 0 .. l |-> IF n = 0 THEN 0 ELSE Num!Int32(g[n - 1] * 10 + s[n] - Num!Zero)]
  <2>1. g = [n \in 0 .. l |-> g[n]]
    BY <1>3
  <2> QED BY <1>4, <2>1
<1>6. PICK f : f = CHOOSE x : x = [n \in 0 .. Len(s) |->
                 IF n = 0 THEN 0 ELSE Num!Int32(x[n - 1] * 10 + s[n] - Num!Zero)]
  OBVIOUS
<1>7. f = [n \in 0 .. l |-> IF n = 0 THEN 0 ELSE Num!Int32(f[n - 1] * 10 + s[n] - Num!Zero)]
  BY <1>1, <1>5, <1>6
<1>8. Num!atoi(s) = f[l]
  BY <1>1, <1>6 DEF Num!atoi
<1>9. PICK S : S = {n \in Nat : n <= l => f[n] = h[n]}
  OBVIOUS
<1>10. 0 \in S
  BY <1>2, <1>7, <1>9
<1>11. ASSUME NEW n \in Nat, n \in S PROVE n + 1 \in S
  <2>1. CASE n + 1 <= l
    <3>1. f[n] = h[n] /\ n + 1 \in 1 .. l /\ n + 1 \in 0 .. l /\ (n + 1) - 1 = n /\ n + 1 # 0
      BY <1>9, <1>11, <2>1
    <3>2. f[n + 1] = Num!Int32(f[n] * 10 + s[n + 1] - Num!Zero)
      BY <1>7, <3>1
    <3>3. h[n + 1] = Num!Int32(h[n] * 10 + s[n + 1] - Num!Zero)
      BY <1>2, <3>1
    <3>4. f[n + 1] = h[n + 1]
      BY <3>1, <3>2, <3>3
    <3> QED BY <1>9, <3>4
  <2>2. CASE ~(n + 1 <= l)
    BY <1>9, <2>2
  <2> QED BY <2>1, <2>2
<1>12. \A n \in Nat : n \in S
  BY <1>10, <1>11, StepInduction
<1>13. f[l] = h[l]
  BY <1>9, <1>12
<1> QED BY <1>1, <1>8, <1>13

LEMMA NaturalOf ==
  ASSUME NEW s, Len(s) \in Nat, NEW h, Exactly(s, h)
  PROVE  Num!Natural(s) = h[Len(s)]
<1>1. PICK l \in Nat : l = Len(s)
  OBVIOUS
<1>2. h[0] = 0 /\ \A n \in 1 .. l : h[n] = 10 * h[n - 1] + s[n] - Num!Zero
  BY <1>1 DEF Exactly
<1>3. PICK g : g = [n \in 0 .. l |-> h[n]]
  OBVIOUS
<1>4. ASSUME NEW n \in 0 .. l
      PROVE  g[n] = IF n = 0 THEN 0 ELSE 10 * g[n - 1] + s[n] - Num!Zero
  <2>1. CASE n = 0
    BY <1>2, <1>3, <2>1
  <2>2. CASE n # 0
    <3>1. n \in 1 .. l /\ n - 1 \in 0 .. l
      BY <2>2
    <3>2. g[n] = h[n] /\ g[n - 1] = h[n - 1]
      BY <1>3, <3>1
    <3> QED BY <1>2, <2>2, <3>1, <3>2
  <2> QED BY <2>1, <2>2
<1>5. g = [n \in 0 .. l |-> IF n = 0 THEN 0 ELSE 10 * g[n - 1] + s[n] - Num!Zero]
  <2>1. g = [n \in 0 .. l |-> g[n]]
    BY <1>3
  <2> QED BY <1>4, <2>1
<1>6. PICK f : f = CHOOSE x : x = [n \in 0 .. Len(s) |->
                 IF n = 0 THEN 0 ELSE 10 * x[n - 1] + s[n] - Num!Zero]
  OBVIOUS
<1>7. f = [n \in 0 .. l |-> IF n = 0 THEN 0 ELSE 10 * f[n - 1] + s[n] - Num!Zero]
  BY <1>1, <1>5, <1>6
<1>8. Num!Natural(s) = f[l]
  BY <1>1, <1>6 DEF Num!Natural
<1>9. PICK S : S = {n \in Nat : n <= l => f[n] = h[n]}
  OBVIOUS
<1>10. 0 \in S
  BY <1>2, <1>7, <1>9
<1>11. ASSUME NEW n \in Nat, n \in S PROVE n + 1 \in S
  <2>1. CASE n + 1 <= l
    <3>1. f[n] = h[n] /\ n + 1 \in 1 .. l /\ n + 1 \in 0 .. l /\ (n + 1) - 1 = n /\ n + 1 # 0
      BY <1>9, <1>11, <2>1
    <3>2. f[n + 1] = 10 * f[n] + s[n + 1] - Num!Zero
      BY <1>7, <3>1
    <3>3. h[n + 1] = 10 * h[n] + s[n + 1] - Num!Zero
      BY <1>2, <3>1
    <3>4. f[n + 1] = h[n + 1]
      BY <3>1, <3>2, <3>3
    <3> QED BY <1>9, <3>4
  <2>2. CASE ~(n + 1 <= l)
    BY <1>9, <2>2
  <2> QED BY <2>1, <2>2
<1>12. \A n \in Nat : n \in S
  BY <1>10, <1>11, StepInduction
<1>13. f[l] = h[l]
  BY <1>9, <1>12
<1> QED BY <1>1, <1>8, <1>13

(* The numbers a text stands for. *)
LEMMA NaturalReads ==
  ASSUME NEW s \in Seq(Int)
  PROVE  \E h \in [0 .. Len(s) -> Int] : Exactly(s, h) /\ Num!Natural(s) = h[Len(s)]
<1>1. Len(s) \in Nat /\ \A n \in 1 .. Len(s) : s[n] \in Int
  OBVIOUS
<1>2. PICK l \in Nat : l = Len(s)
  BY <1>1
<1>3. PICK F : F = [n \in 1 .. l |-> [v \in Int |-> 10 * v + s[n] - Num!Zero]]
  OBVIOUS
<1>4. \A n \in 1 .. l : \A v \in Int : F[n][v] = 10 * v + s[n] - Num!Zero
  BY <1>3
<1>5. PICK h \in [0 .. l -> Int] : h[0] = 0 /\ \A n \in 1 .. l : h[n] = F[n][h[n - 1]]
  <2>1. ASSUME NEW n \in 1 .. l, NEW v \in Int PROVE F[n][v] \in Int
    <3>1. PICK c \in Int : c = s[n]
      BY <1>1, <1>2
    <3>2. F[n][v] = 10 * v + c - 48
      BY <1>4, <3>1 DEF Num!Zero
    <3> QED BY <3>2
  <2>2. Loop(l, Int, 0, F)
    BY <2>1 DEF Loop
  <2>3. \E h : Rounds(l, Int, 0, F, h)
    BY <2>2, LoopEnds
  <2> QED BY <2>3 DEF Rounds
<1>6. ASSUME NEW n \in 1 .. l PROVE h[n] = 10 * h[n - 1] + s[n] - Num!Zero
  <2>1. h[n - 1] \in Int
    BY <1>5
  <2> QED BY <1>4, <1>5, <2>1
<1>7. Exactly(s, h)
  BY <1>2, <1>5, <1>6 DEF Exactly
<1>8. Num!Natural(s) = h[Len(s)]
  BY <1>1, <1>7, NaturalOf
<1> QED BY <1>2, <1>5, <1>7, <1>8

(* One more digit at the end. *)
LEMMA NaturalAppend ==
  ASSUME NEW t \in Seq(Int), NEW c \in Int
  PROVE  /\ Num!Natural(t) \in Int
         /\ Num!Natural(Append(t, c)) = 10 * Num!Natural(t) + c - Num!Zero
<1>1. PICK s \in Seq(Int) : s = Append(t, c)
  <2>1. Append(t, c) \in Seq(Int)
    BY AppendProperties
  <2> QED BY <2>1
<1>2. PICK l \in Nat : l = Len(t)
  OBVIOUS
<1>3. Len(s) = l + 1 /\ s[l + 1] = c /\ \A n \in 1 .. l : s[n] = t[n]
  BY <1>1, <1>2
<1>4. PICK h \in [0 .. l + 1 -> Int] : Exactly(s, h) /\ Num!Natural(s) = h[l + 1]
  BY <1>3, NaturalReads
<1>5. h[0] = 0 /\ \A n \in 1 .. l + 1 : h[n] = 10 * h[n - 1] + s[n] - Num!Zero
  BY <1>3, <1>4 DEF Exactly
<1>6. ASSUME NEW n \in 1 .. l PROVE h[n] = 10 * h[n - 1] + t[n] - Num!Zero
  <2>1. n \in 1 .. l + 1
    OBVIOUS
  <2> QED BY <1>3, <1>5, <2>1
<1>7. Exactly(t, h)
  BY <1>2, <1>5, <1>6 DEF Exactly
<1>8. Num!Natural(t) = h[l]
  BY <1>2, <1>7, NaturalOf
<1>9. l + 1 \in 1 .. l + 1 /\ (l + 1) - 1 = l /\ l \in 0 .. l + 1
  OBVIOUS
<1>10. h[l + 1] = 10 * h[l] + c - Num!Zero /\ h[l] \in Int
  BY <1>3, <1>4, <1>5, <1>9
<1> QED BY <1>1, <1>4, <1>8, <1>10

LEMMA NaturalOne ==
  ASSUME NEW t \in Seq(Int), NEW l \in Nat, l = Len(t), l = 1
  PROVE  Num!Natural(t) = t[1] - 48
<1>1. PICK h \in [0 .. 1 -> Int] : Exactly(t, h) /\ Num!Natural(t) = h[1]
  BY NaturalReads
<1>2. h[0] = 0 /\ h[1] = 10 * h[1 - 1] + t[1] - Num!Zero
  BY <1>1 DEF Exactly
<1>3. t[1] \in Int
  <2>1. 1 \in 1 .. Len(t)
    OBVIOUS
  <2> QED BY <2>1, ElementOfSeq
<1> QED BY <1>1, <1>2, <1>3 DEF Num!Zero

LEMMA DigitAdded ==
  ASSUME NEW x \in Nat, NEW c \in 48 .. 57
  PROVE  10 * x + c - 48 \in Nat /\ 10 * x + c - 48 >= x
<1>1. c - 48 \in Nat /\ c - 48 >= 0
  OBVIOUS
<1>2. PICK d \in Nat : d = c - 48
  BY <1>1
<1>3. 10 * x + d \in Nat /\ 10 * x + d >= x
  OBVIOUS
<1>4. 10 * x + c - 48 = 10 * x + d
  BY <1>2
<1> QED BY <1>3, <1>4

(* What digits stand for is no less than what their beginning stands for;  *)
(* at least one, if they do not begin with a zero.                         *)
LEMMA DigitsGrow ==
  ASSUME NEW s \in Seq(Int), Num!IsDigits(s), NEW h \in [0 .. Len(s) -> Int], Exactly(s, h)
  PROVE  /\ \A n \in 1 .. Len(s) : h[n] >= h[n - 1]
         /\ \A n \in 0 .. Len(s) : h[n] \in Nat
         /\ s[1] # Num!Zero => \A n \in 1 .. Len(s) : h[n] >= 1
<1>1. PICK l \in Nat : l = Len(s)
  OBVIOUS
<1>2. l >= 1 /\ \A n \in 1 .. l : s[n] \in 48 .. 57
  BY <1>1 DEF Num!IsDigits, Num!Zero
<1>3. h \in [0 .. l -> Int]
  BY <1>1
<1>4. h[0] = 0 /\ \A n \in 1 .. l : h[n] = 10 * h[n - 1] + s[n] - 48
  BY <1>1 DEF Exactly, Num!Zero
<1>5. PICK S : S = {n \in Nat : n <= l => h[n] \in Nat}
  OBVIOUS
<1>6. ASSUME NEW n \in Nat, n \in S PROVE n + 1 \in S
  <2>1. CASE n + 1 <= l
    <3>1. h[n] \in Nat /\ n + 1 \in 1 .. l /\ (n + 1) - 1 = n
      BY <1>5, <1>6, <2>1
    <3>2. h[n + 1] = 10 * h[n] + s[n + 1] - 48 /\ s[n + 1] \in 48 .. 57
      BY <1>2, <1>4, <3>1
    <3>3. PICK x \in Nat, c \in 48 .. 57 : x = h[n] /\ c = s[n + 1]
      BY <3>1, <3>2
    <3>4. h[n + 1] = 10 * x + c - 48
      BY <3>2, <3>3
    <3>5. h[n + 1] \in Nat
      BY <3>4, DigitAdded
    <3> QED BY <1>5, <3>5
  <2>2. CASE ~(n + 1 <= l)
    BY <1>5, <2>2
  <2> QED BY <2>1, <2>2
<1>7. 0 \in S
  BY <1>4, <1>5
<1>8. \A n \in Nat : n \in S
  BY <1>6, <1>7, StepInduction
<1>9. \A n \in 0 .. l : h[n] \in Nat
  BY <1>5, <1>8
<1>10. ASSUME NEW n \in 1 .. l PROVE h[n] >= h[n - 1]
  <2>1. n - 1 \in 0 .. l
    OBVIOUS
  <2>2. h[n - 1] \in Nat /\ h[n] = 10 * h[n - 1] + s[n] - 48 /\ s[n] \in 48 .. 57
    BY <1>2, <1>4, <1>9, <2>1
  <2>3. PICK x \in Nat, c \in 48 .. 57 : x = h[n - 1] /\ c = s[n]
    BY <2>2
  <2>4. h[n] = 10 * x + c - 48
    BY <2>2, <2>3
  <2>5. 10 * x + c - 48 >= x
    BY DigitAdded
  <2> QED BY <2>3, <2>4, <2>5
<1>11. ASSUME s[1] # Num!Zero, NEW m \in 1 .. l PROVE h[m] >= 1
  <2>1. PICK Q : Q = {n \in Nat : n + 1 <= l => h[n + 1] >= 1}
    OBVIOUS
  <2>2. 0 \in Q
    <3>1. 1 \in 1 .. l /\ 1 - 1 = 0
      BY <1>2
    <3>2. h[1] = 10 * h[0] + s[1] - 48 /\ s[1] \in 48 .. 57 /\ s[1] # 48
      BY <1>2, <1>4, <1>11, <3>1 DEF Num!Zero
    <3>3. h[1] >= 1
      BY <1>4, <3>2
    <3> QED BY <2>1, <3>3
  <2>3. ASSUME NEW n \in Nat, n \in Q PROVE n + 1 \in Q
    <3>1. CASE (n + 1) + 1 <= l
      <4>1. h[n + 1] >= 1 /\ (n + 1) + 1 \in 1 .. l /\ ((n + 1) + 1) - 1 = n + 1
        BY <2>1, <2>3, <3>1
      <4>2. h[(n + 1) + 1] >= h[n + 1]
        BY <1>10, <4>1
      <4>3. h[(n + 1) + 1] \in Int /\ h[n + 1] \in Int
        BY <1>3, <3>1
      <4>4. h[(n + 1) + 1] >= 1
        BY <4>1, <4>2, <4>3
      <4> QED BY <2>1, <4>4
    <3>2. CASE ~((n + 1) + 1 <= l)
      BY <2>1, <3>2
    <3> QED BY <3>1, <3>2
  <2>4. \A n \in Nat : n \in Q
    BY <2>2, <2>3, StepInduction
  <2>5. m - 1 \in Nat /\ (m - 1) + 1 = m /\ (m - 1) + 1 <= l
    BY <1>11
  <2> QED BY <2>1, <2>4, <2>5
<1> QED BY <1>1, <1>9, <1>10, <1>11

LEMMA NaturalIs ==
  ASSUME NEW s \in Seq(Int), Num!IsDigits(s)
  PROVE  Num!Natural(s) \in Nat /\ (s[1] # Num!Zero => Num!Natural(s) >= 1)
<1>1. PICK l \in Nat : l = Len(s)
  OBVIOUS
<1>2. l >= 1
  BY <1>1 DEF Num!IsDigits
<1>3. PICK h \in [0 .. Len(s) -> Int] : Exactly(s, h) /\ Num!Natural(s) = h[Len(s)]
  BY NaturalReads
<1>4. /\ \A n \in 0 .. Len(s) : h[n] \in Nat
      /\ s[1] # Num!Zero => \A n \in 1 .. Len(s) : h[n] >= 1
  BY <1>3, DigitsGrow
<1> QED BY <1>1, <1>2, <1>3, <1>4

(* What atoi gives is an int; of digits, the number they stand for, if an  *)
(* int can hold it.                                                        *)
LEMMA AtoiInt ==
  ASSUME NEW s \in Seq(Int)
  PROVE  Num!atoi(s) \in Num!IntMin .. Num!IntMax
<1>1. Len(s) \in Nat /\ \A n \in 1 .. Len(s) : s[n] \in Int
  OBVIOUS
<1>2. PICK l \in Nat : l = Len(s)
  BY <1>1
<1>3. PICK V : V = Num!IntMin .. Num!IntMax
  OBVIOUS
<1>4. 0 \in V /\ \A v \in V : v \in Int
  BY <1>3, IntRange
<1>5. PICK F : F = [n \in 1 .. l |-> [v \in V |-> Num!Int32(v * 10 + s[n] - Num!Zero)]]
  OBVIOUS
<1>6. \A n \in 1 .. l : \A v \in V : F[n][v] = Num!Int32(v * 10 + s[n] - Num!Zero)
  BY <1>5
<1>7. ASSUME NEW n \in 1 .. l, NEW v \in V PROVE F[n][v] \in V
  <2>1. s[n] \in Int /\ v \in Int
    BY <1>1, <1>2, <1>4
  <2>2. v * 10 + s[n] - Num!Zero \in Int
    BY <2>1 DEF Num!Zero
  <2>3. Num!Int32(v * 10 + s[n] - Num!Zero) \in Num!IntMin .. Num!IntMax
    BY <2>2, IntIs
  <2> QED BY <1>3, <1>6, <2>3
<1>8. PICK h \in [0 .. l -> V] : h[0] = 0 /\ \A n \in 1 .. l : h[n] = F[n][h[n - 1]]
  <2>1. Loop(l, V, 0, F)
    BY <1>4, <1>7 DEF Loop
  <2>2. \E h : Rounds(l, V, 0, F, h)
    BY <2>1, LoopEnds
  <2> QED BY <2>2 DEF Rounds
<1>9. ASSUME NEW n \in 1 .. l PROVE h[n] = Num!Int32(h[n - 1] * 10 + s[n] - Num!Zero)
  <2>1. h[n - 1] \in V
    BY <1>8
  <2> QED BY <1>6, <1>8, <2>1
<1>10. Wrapped(s, h)
  BY <1>2, <1>8, <1>9 DEF Wrapped
<1>11. Num!atoi(s) = h[l]
  BY <1>1, <1>2, <1>10, AtoiOf
<1> QED BY <1>3, <1>8, <1>11

LEMMA AtoiReads ==
  ASSUME NEW s \in Seq(Int), Num!IsDigits(s), Num!Natural(s) <= Num!IntMax
  PROVE  Num!atoi(s) = Num!Natural(s)
<1>1. PICK H \in Nat : H >= 8 /\ Num!IntMin = -H /\ Num!IntMax = H - 1
  BY IntRange
<1>2. PICK l \in Nat : l = Len(s)
  OBVIOUS
<1>3. PICK h \in [0 .. Len(s) -> Int] : Exactly(s, h) /\ Num!Natural(s) = h[Len(s)]
  BY NaturalReads
<1>4. /\ \A n \in 1 .. Len(s) : h[n] >= h[n - 1]
      /\ \A n \in 0 .. Len(s) : h[n] \in Nat
  BY <1>3, DigitsGrow
<1>5. PICK S : S = {n \in Nat : n <= l => h[l - n] <= h[l]}
  OBVIOUS
<1>6. l \in 0 .. l /\ l - 0 = l /\ h[l] \in Nat
  BY <1>2, <1>4
<1>7. 0 \in S
  BY <1>5, <1>6
<1>8. ASSUME NEW n \in Nat, n \in S PROVE n + 1 \in S
  <2>1. CASE n + 1 <= l
    <3>1. PICK m \in 1 .. l : m = l - n
      BY <2>1
    <3>2. m \in 0 .. l /\ m - 1 \in 0 .. l /\ m - 1 = l - (n + 1)
      BY <3>1
    <3>3. h[m] <= h[l]
      BY <1>5, <1>8, <2>1, <3>1
    <3>4. PICK x \in Nat, y \in Nat, z \in Nat : x = h[m] /\ y = h[m - 1] /\ z = h[l]
      BY <1>2, <1>4, <1>6, <3>2
    <3>5. y <= x
      BY <1>2, <1>4, <3>4
    <3>6. y <= z
      BY <3>3, <3>4, <3>5
    <3>7. h[l - (n + 1)] <= h[l]
      BY <3>2, <3>4, <3>6
    <3> QED BY <1>5, <3>7
  <2>2. CASE ~(n + 1 <= l)
    BY <1>5, <2>2
  <2> QED BY <2>1, <2>2
<1>9. \A n \in Nat : n \in S
  BY <1>7, <1>8, StepInduction
<1>10. ASSUME NEW n \in 0 .. l PROVE h[n] \in Num!IntMin .. Num!IntMax
  <2>1. l - n \in Nat /\ l - n <= l /\ l - (l - n) = n
    OBVIOUS
  <2>2. h[n] <= h[l]
    BY <1>5, <1>9, <2>1
  <2>3. h[l] <= H - 1
    BY <1>1, <1>2, <1>3
  <2>4. h[n] \in Nat
    BY <1>2, <1>4
  <2> QED BY <1>1, <1>6, <2>2, <2>3, <2>4
<1>11. ASSUME NEW n \in 1 .. l PROVE h[n] = Num!Int32(h[n - 1] * 10 + s[n] - Num!Zero)
  <2>1. h[n - 1] \in Int /\ s[n] \in Int /\ n \in 0 .. l
    BY <1>2
  <2>2. h[n] = 10 * h[n - 1] + s[n] - Num!Zero
    BY <1>2, <1>3 DEF Exactly
  <2>3. h[n - 1] * 10 + s[n] - Num!Zero = 10 * h[n - 1] + s[n] - Num!Zero
    BY <2>1 DEF Num!Zero
  <2>4. h[n] \in Num!IntMin .. Num!IntMax /\ h[n] \in Int
    BY <1>2, <1>10, <2>1
  <2>5. Num!Int32(h[n]) = h[n]
    BY <2>4, IntIs
  <2> QED BY <2>2, <2>3, <2>5
<1>12. h[0] = 0
  BY <1>3 DEF Exactly
<1>13. Wrapped(s, h)
  BY <1>2, <1>11, <1>12 DEF Wrapped
<1>14. Num!atoi(s) = h[Len(s)]
  BY <1>2, <1>13, AtoiOf
<1> QED BY <1>3, <1>14

(* What is left of a text when its first and last m characters are         *)
(* exchanged: after half of them, the text backwards.                      *)
Turned(s, m, t) ==
  /\ t \in Seq(Int) /\ Len(t) = Len(s)
  /\ \A n \in 1 .. Len(s) :
       /\ n <= m \/ n > Len(s) - m => t[n] = s[Len(s) + 1 - n]
       /\ n > m /\ n <= Len(s) - m => t[n] = s[n]
Backwards(s, t) ==
  /\ t \in Seq(Int) /\ Len(t) = Len(s)
  /\ \A n \in 1 .. Len(s) : t[n] = s[Len(s) + 1 - n]

LEMMA ExchangeIs ==
  ASSUME NEW s \in Seq(Int), NEW l \in Nat, l = Len(s), NEW m \in 1 .. l, m < l + 1 - m
  PROVE  /\ Num!Exchange(s, m) \in Seq(Int) /\ Len(Num!Exchange(s, m)) = l
         /\ Num!Exchange(s, m)[m] = s[l + 1 - m] /\ Num!Exchange(s, m)[l + 1 - m] = s[m]
         /\ \A n \in 1 .. l : n # m /\ n # l + 1 - m => Num!Exchange(s, m)[n] = s[n]
<1>1. PICK e \in 1 .. l : e = l + 1 - m /\ m < e
  OBVIOUS
<1>2. s \in [1 .. l -> Int]
  OBVIOUS
<1>3. PICK r : r = [s EXCEPT ![m] = s[e], ![e] = s[m]]
  OBVIOUS
<1>4. Num!Exchange(s, m) = r
  BY <1>1, <1>3 DEF Num!Exchange
<1>5. r \in [1 .. l -> Int] /\ r[m] = s[e] /\ r[e] = s[m]
      /\ \A n \in 1 .. l : n # m /\ n # e => r[n] = s[n]
  BY <1>1, <1>2, <1>3
<1>6. r \in Seq(Int) /\ Len(r) = l
  BY <1>5, SeqDef
<1> QED BY <1>1, <1>4, <1>5, <1>6

LEMMA TurnsOn ==
  ASSUME NEW s \in Seq(Int), NEW l \in Nat, l = Len(s), NEW m \in Nat, m + 1 <= l,
         m + 1 < l - m, NEW t, Turned(s, m, t)
  PROVE  Turned(s, m + 1, Num!Exchange(t, m + 1))
<1>1. /\ t \in Seq(Int) /\ Len(t) = l
      /\ \A n \in 1 .. l :
           /\ n <= m \/ n > l - m => t[n] = s[l + 1 - n]
           /\ n > m /\ n <= l - m => t[n] = s[n]
  BY DEF Turned
<1>2. PICK r : r = Num!Exchange(t, m + 1)
  OBVIOUS
<1>3. PICK a \in 1 .. l : a = m + 1
  OBVIOUS
<1>4. PICK e \in 1 .. l : e = l - m /\ e = l + 1 - a /\ a < e
  BY <1>3
<1>5. /\ r \in Seq(Int) /\ Len(r) = l /\ r[a] = t[e] /\ r[e] = t[a]
      /\ \A n \in 1 .. l : n # a /\ n # e => r[n] = t[n]
  <2>1. a < l + 1 - a
    BY <1>4
  <2>2. /\ Num!Exchange(t, a) \in Seq(Int) /\ Len(Num!Exchange(t, a)) = l
        /\ Num!Exchange(t, a)[a] = t[l + 1 - a] /\ Num!Exchange(t, a)[l + 1 - a] = t[a]
        /\ \A n \in 1 .. l : n # a /\ n # l + 1 - a => Num!Exchange(t, a)[n] = t[n]
    BY <1>1, <2>1, ExchangeIs
  <2> QED BY <1>2, <1>3, <1>4, <2>2
<1>6. ASSUME NEW n \in 1 .. l
      PROVE  /\ n <= a \/ n > l - a => r[n] = s[l + 1 - n]
             /\ n > a /\ n <= l - a => r[n] = s[n]
  <2>1. CASE n = a
    <3>1. r[n] = t[e] /\ e > m /\ e <= l - m /\ l + 1 - n = e
      BY <1>3, <1>4, <1>5, <2>1
    <3>2. r[n] = s[l + 1 - n]
      BY <1>1, <3>1
    <3> QED BY <2>1, <3>2
  <2>2. CASE n = e
    <3>1. r[n] = t[a] /\ a > m /\ a <= l - m /\ l + 1 - n = a
      BY <1>3, <1>4, <1>5, <2>2
    <3>2. r[n] = s[l + 1 - n]
      BY <1>1, <3>1
    <3>3. ~(n <= l - a)
      BY <1>3, <1>4, <2>2
    <3> QED BY <3>2, <3>3
  <2>3. CASE n # a /\ n # e
    <3>1. r[n] = t[n]
      BY <1>5, <2>3
    <3>2. n <= a \/ n > l - a => n <= m \/ n > l - m
      BY <1>3, <1>4, <2>3
    <3>3. n > a /\ n <= l - a => n > m /\ n <= l - m
      BY <1>3, <1>4, <2>3
    <3> QED BY <1>1, <3>1, <3>2, <3>3
  <2> QED BY <2>1, <2>2, <2>3
<1> QED BY <1>2, <1>3, <1>5, <1>6 DEF Turned

(* reverse turns a text around. *)
LEMMA ReverseIs ==
  ASSUME NEW s \in Seq(Int)
  PROVE  Backwards(s, Num!reverse(s))
<1>1. PICK l \in Nat : l = Len(s)
  OBVIOUS
<1>2. PICK c \in Nat : c = l \div 2 /\ (l = c + c \/ l = c + c + 1)
  OBVIOUS
<1>3. PICK V : V = {t \in Seq(Int) : Len(t) = l}
  OBVIOUS
<1>4. PICK F : F = [n \in 1 .. c |-> [t \in V |-> Num!Exchange(t, n)]]
  OBVIOUS
<1>5. \A n \in 1 .. c : \A t \in V : F[n][t] = Num!Exchange(t, n)
  BY <1>4
<1>6. ASSUME NEW n \in 1 .. c, NEW t \in V PROVE F[n][t] \in V
  <2>1. t \in Seq(Int) /\ l = Len(t) /\ n \in 1 .. l /\ n < l + 1 - n
    BY <1>2, <1>3
  <2>2. Num!Exchange(t, n) \in Seq(Int) /\ Len(Num!Exchange(t, n)) = l
    BY <2>1, ExchangeIs
  <2> QED BY <1>3, <1>5, <2>2
<1>7. PICK h \in [0 .. c -> V] : h[0] = s /\ \A n \in 1 .. c : h[n] = F[n][h[n - 1]]
  <2>1. s \in V
    BY <1>1, <1>3
  <2>2. Loop(c, V, s, F)
    BY <1>6, <2>1 DEF Loop
  <2>3. \E h : Rounds(c, V, s, F, h)
    BY <2>2, LoopEnds
  <2> QED BY <2>3 DEF Rounds
<1>8. ASSUME NEW n \in 0 .. c PROVE h[n] = IF n = 0 THEN s ELSE Num!Exchange(h[n - 1], n)
  <2>1. CASE n = 0
    BY <1>7, <2>1
  <2>2. CASE n # 0
    <3>1. n \in 1 .. c /\ n - 1 \in 0 .. c
      BY <2>2
    <3>2. h[n - 1] \in V
      BY <1>7, <3>1
    <3> QED BY <1>5, <1>7, <2>2, <3>1, <3>2
  <2> QED BY <2>1, <2>2
<1>9. h = [n \in 0 .. c |-> IF n = 0 THEN s ELSE Num!Exchange(h[n - 1], n)]
  <2>1. h = [n \in 0 .. c |-> h[n]]
    BY <1>7
  <2> QED BY <1>8, <2>1
<1>10. PICK f : f = CHOOSE x : x = [first \in 0 .. Len(s) \div 2 |->
                  IF first = 0 THEN s ELSE Num!Exchange(x[first - 1], first)]
  OBVIOUS
<1>11. f = [n \in 0 .. c |-> IF n = 0 THEN s ELSE Num!Exchange(f[n - 1], n)]
  BY <1>1, <1>2, <1>9, <1>10
<1>12. Num!reverse(s) = f[c]
  BY <1>1, <1>2, <1>10 DEF Num!reverse
<1>13. PICK S : S = {n \in Nat : n <= c => Turned(s, n, f[n])}
  OBVIOUS
<1>14. 0 \in S
  <2>1. f[0] = s
    BY <1>11
  <2>2. Turned(s, 0, s)
    BY <1>1 DEF Turned
  <2> QED BY <1>13, <2>1, <2>2
<1>15. ASSUME NEW n \in Nat, n \in S PROVE n + 1 \in S
  <2>1. CASE n + 1 <= c
    <3>1. Turned(s, n, f[n]) /\ n + 1 <= l /\ n + 1 < l - n
      BY <1>2, <1>13, <1>15, <2>1
    <3>2. Turned(s, n + 1, Num!Exchange(f[n], n + 1))
      BY <1>1, <3>1, TurnsOn
    <3>3. n + 1 \in 0 .. c /\ n + 1 # 0 /\ (n + 1) - 1 = n
      BY <2>1
    <3>4. f[n + 1] = Num!Exchange(f[n], n + 1)
      BY <1>11, <3>3
    <3> QED BY <1>13, <3>2, <3>4
  <2>2. CASE ~(n + 1 <= c)
    BY <1>13, <2>2
  <2> QED BY <2>1, <2>2
<1>16. \A n \in Nat : n \in S
  BY <1>14, <1>15, StepInduction
<1>17. Turned(s, c, f[c])
  BY <1>13, <1>16
<1>18. PICK t : t = f[c]
  OBVIOUS
<1>19. t \in Seq(Int) /\ Len(t) = l
  BY <1>1, <1>17, <1>18 DEF Turned
<1>20. ASSUME NEW n \in 1 .. l PROVE t[n] = s[l + 1 - n]
  <2>1. /\ n <= c \/ n > l - c => t[n] = s[l + 1 - n]
        /\ n > c /\ n <= l - c => t[n] = s[n]
    BY <1>1, <1>17, <1>18 DEF Turned
  <2>2. CASE n <= c \/ n > l - c
    BY <2>1, <2>2
  <2>3. CASE ~(n <= c \/ n > l - c)
    <3>1. l + 1 - n = n /\ n > c /\ n <= l - c
      BY <1>2, <2>3
    <3> QED BY <2>1, <3>1
  <2> QED BY <2>2, <2>3
<1> QED BY <1>1, <1>12, <1>18, <1>19, <1>20 DEF Backwards

(* A text has one that is it backwards. *)
LEMMA OneBackwards ==
  ASSUME NEW s \in Seq(Int), NEW t, NEW u, Backwards(s, t), Backwards(s, u)
  PROVE  t = u
<1>1. /\ t \in Seq(Int) /\ u \in Seq(Int) /\ Len(t) = Len(s) /\ Len(u) = Len(s)
      /\ \A n \in 1 .. Len(s) : t[n] = s[Len(s) + 1 - n] /\ u[n] = s[Len(s) + 1 - n]
  BY DEF Backwards
<1>2. Len(t) = Len(u) /\ \A n \in 1 .. Len(t) : t[n] = u[n]
  BY <1>1
<1> QED BY <1>1, <1>2, SeqEqual

LEMMA InFront ==
  ASSUME NEW x \in Seq(Int), NEW l \in Nat, l = Len(x), NEW c \in Int, NEW o, o = <<c>>
  PROVE  /\ o \o x \in Seq(Int) /\ Len(o \o x) = l + 1
         /\ (o \o x)[1] = c /\ \A n \in 1 .. l : (o \o x)[n + 1] = x[n]
<1>1. o \in Seq(Int) /\ Len(o) = 1 /\ o[1] = c
  OBVIOUS
<1>2. /\ o \o x \in Seq(Int) /\ Len(o \o x) = Len(o) + Len(x)
      /\ \A n \in 1 .. Len(o) + Len(x) :
           (o \o x)[n] = IF n <= Len(o) THEN o[n] ELSE x[n - Len(o)]
  BY <1>1, ConcatProperties
<1>3. Len(o \o x) = l + 1
  BY <1>1, <1>2
<1>4. (o \o x)[1] = c
  BY <1>1, <1>2
<1>5. ASSUME NEW n \in 1 .. l PROVE (o \o x)[n + 1] = x[n]
  <2>1. n + 1 \in 1 .. Len(o) + Len(x) /\ ~(n + 1 <= Len(o)) /\ (n + 1) - Len(o) = n
    BY <1>1
  <2> QED BY <1>2, <2>1
<1> QED BY <1>2, <1>3, <1>4, <1>5

(* A character in front comes last, and one at the end first. *)
LEMMA BackwardsPut ==
  ASSUME NEW s \in Seq(Int), NEW t, Backwards(s, t), NEW c \in Int
  PROVE  /\ Backwards(<<c>> \o s, Append(t, c))
         /\ Backwards(Append(s, c), <<c>> \o t)
<1>1. PICK l \in Nat : l = Len(s)
  OBVIOUS
<1>2. t \in Seq(Int) /\ Len(t) = l /\ \A n \in 1 .. l : t[n] = s[l + 1 - n]
  BY <1>1 DEF Backwards
<1>3. PICK o : o = <<c>>
  OBVIOUS
<1>4. o \in Seq(Int) /\ Len(o) = 1 /\ o[1] = c
  BY <1>3
<1>5. /\ Append(t, c) \in Seq(Int) /\ Len(Append(t, c)) = l + 1
      /\ Append(t, c)[l + 1] = c /\ \A n \in 1 .. l : Append(t, c)[n] = t[n]
  BY <1>2, AppendProperties
<1>6. /\ Append(s, c) \in Seq(Int) /\ Len(Append(s, c)) = l + 1
      /\ Append(s, c)[l + 1] = c /\ \A n \in 1 .. l : Append(s, c)[n] = s[n]
  BY <1>1, AppendProperties
<1>7. ASSUME NEW x \in Seq(Int), Len(x) = l
      PROVE  /\ o \o x \in Seq(Int) /\ Len(o \o x) = l + 1
             /\ (o \o x)[1] = c /\ \A n \in 1 .. l : (o \o x)[n + 1] = x[n]
  BY <1>3, <1>7, InFront
<1>8. PICK a, b : a = o \o s /\ b = Append(t, c)
  OBVIOUS
<1>9. /\ a \in Seq(Int) /\ Len(a) = l + 1
      /\ a[1] = c /\ \A n \in 1 .. l : a[n + 1] = s[n]
  BY <1>1, <1>7, <1>8
<1>10. ASSUME NEW n \in 1 .. l + 1 PROVE b[n] = a[(l + 1) + 1 - n]
  <2>1. CASE n = l + 1
    <3>1. (l + 1) + 1 - n = 1 /\ b[l + 1] = c
      BY <1>5, <1>8, <2>1
    <3> QED BY <1>9, <2>1, <3>1
  <2>2. CASE n # l + 1
    <3>1. n \in 1 .. l /\ l + 1 - n \in 1 .. l /\ (l + 1) + 1 - n = (l + 1 - n) + 1
      BY <2>2
    <3>2. b[n] = s[l + 1 - n] /\ a[(l + 1 - n) + 1] = s[l + 1 - n]
      BY <1>2, <1>5, <1>8, <1>9, <3>1
    <3> QED BY <3>1, <3>2
  <2> QED BY <2>1, <2>2
<1>11. Backwards(a, b)
  <2>1. Len(a) = l + 1 /\ Len(b) = Len(a) /\ b \in Seq(Int)
    BY <1>5, <1>8, <1>9
  <2>2. \A n \in 1 .. Len(a) : b[n] = a[Len(a) + 1 - n]
    BY <1>10, <2>1
  <2> QED BY <2>1, <2>2 DEF Backwards
<1>12. PICK d, e : d = Append(s, c) /\ e = o \o t
  OBVIOUS
<1>13. /\ e \in Seq(Int) /\ Len(e) = l + 1
       /\ e[1] = c /\ \A n \in 1 .. l : e[n + 1] = t[n]
  BY <1>2, <1>7, <1>12
<1>14. ASSUME NEW n \in 1 .. l + 1 PROVE e[n] = d[(l + 1) + 1 - n]
  <2>1. CASE n = 1
    <3>1. (l + 1) + 1 - n = l + 1 /\ d[l + 1] = c
      BY <1>6, <1>12, <2>1
    <3> QED BY <1>13, <2>1, <3>1
  <2>2. CASE n # 1
    <3>1. PICK m \in 1 .. l : n = m + 1
      BY <2>2
    <3>2. l + 1 - m \in 1 .. l /\ (l + 1) + 1 - n = l + 1 - m
      BY <3>1
    <3>3. e[n] = s[l + 1 - m] /\ d[l + 1 - m] = s[l + 1 - m]
      BY <1>2, <1>6, <1>12, <1>13, <3>1, <3>2
    <3> QED BY <3>2, <3>3
  <2> QED BY <2>1, <2>2
<1>15. Backwards(d, e)
  <2>1. Len(d) = l + 1 /\ Len(e) = Len(d) /\ e \in Seq(Int)
    BY <1>6, <1>12, <1>13
  <2>2. \A n \in 1 .. Len(d) : e[n] = d[Len(d) + 1 - n]
    BY <1>14, <2>1
  <2> QED BY <2>1, <2>2 DEF Backwards
<1> QED BY <1>3, <1>8, <1>11, <1>12, <1>15

(* Division and remainder of numbers that are not negative, by ten.        *)
LEMMA TenIs ==
  ASSUME NEW n \in Nat
  PROVE  /\ Num!Quotient(n, 10) = n \div 10 /\ n \div 10 \in Nat /\ n \div 10 <= n
         /\ Num!Remainder(n, 10) = n % 10 /\ n % 10 \in 0 .. 9
         /\ n = 10 * (n \div 10) + (n % 10)
         /\ n < 10 => n \div 10 = 0 /\ n % 10 = n
         /\ n >= 10 => n \div 10 >= 1 /\ n \div 10 < n
<1>1. n \div 10 \in Nat /\ n % 10 \in 0 .. 9
  OBVIOUS
<1>2. n = 10 * (n \div 10) + (n % 10)
  OBVIOUS
<1>3. PICK q \in Nat, r \in 0 .. 9 : q = n \div 10 /\ r = n % 10 /\ n = 10 * q + r
  BY <1>1, <1>2
<1>4. Num!Quotient(n, 10) = q
  BY <1>3 DEF Num!Quotient
<1>5. Num!Remainder(n, 10) = r
  BY <1>3, <1>4 DEF Num!Remainder
<1>6. q <= n /\ (n < 10 => q = 0 /\ r = n) /\ (n >= 10 => q >= 1 /\ q < n)
  BY <1>3
<1> QED BY <1>1, <1>2, <1>3, <1>4, <1>5, <1>6

LEMMA TenBack ==
  ASSUME NEW q \in Nat, NEW d \in 0 .. 9
  PROVE  /\ (10 * q + d) \div 10 = q /\ (10 * q + d) % 10 = d
         /\ q >= 1 => 10 * q + d >= 10
  OBVIOUS

LEMMA TenOfNegative ==
  ASSUME NEW n \in Int, n < 0
  PROVE  Num!Quotient(n, 10) \in Int /\ Num!Quotient(n, 10) <= 0 /\ Num!Remainder(n, 10) \in Int
<1>1. PICK m \in Nat : m = -n
  OBVIOUS
<1>2. PICK q \in Nat : q = m \div 10
  OBVIOUS
<1>3. Num!Quotient(n, 10) = -q
  BY <1>1, <1>2 DEF Num!Quotient
<1> QED BY <1>3 DEF Num!Remainder

(* The digits of a number, backwards.                                      *)
LEMMA DigitsExist ==
  \E h : /\ h \in [Num!IntMin .. Num!IntMax -> Seq(Int)]
         /\ \A n \in Num!IntMin .. Num!IntMax :
              h[n] = <<Num!Remainder(n, 10) + Num!Zero>>
                     \o (IF Num!Quotient(n, 10) > 0 THEN h[Num!Quotient(n, 10)] ELSE <<>>)
<1>1. PICK H \in Nat : H >= 8 /\ Num!IntMin = -H /\ Num!IntMax = H - 1
  BY IntRange
<1> DEFINE One(n) == <<Num!Remainder(n, 10) + Num!Zero>>
           Of(g, n) == One(n) \o (IF Num!Quotient(n, 10) > 0 THEN g[Num!Quotient(n, 10)] ELSE <<>>)
<1>2. ASSUME NEW n \in Int PROVE One(n) \in Seq(Int)
  <2>1. Num!Remainder(n, 10) \in Int
    <3>1. CASE n < 0
      BY <3>1, TenOfNegative
    <3>2. CASE ~(n < 0)
      <4>1. n \in Nat
        BY <3>2
      <4>2. Num!Remainder(n, 10) = n % 10 /\ n % 10 \in 0 .. 9
        BY <4>1, TenIs
      <4> QED BY <4>2
    <3> QED BY <3>1, <3>2
  <2>2. Num!Remainder(n, 10) + Num!Zero \in Int
    BY <2>1 DEF Num!Zero
  <2> QED BY <2>2
<1>3. ASSUME NEW n \in Int, Num!Quotient(n, 10) > 0
      PROVE  n \in Nat /\ n >= 10 /\ Num!Quotient(n, 10) \in Nat /\ Num!Quotient(n, 10) < n
  <2>1. n \in Nat
    <3>1. CASE n < 0
      <4>1. Num!Quotient(n, 10) <= 0 /\ Num!Quotient(n, 10) \in Int
        BY <3>1, TenOfNegative
      <4> QED BY <1>3, <4>1
    <3> QED BY <3>1
  <2>2. PICK q \in Nat : q = Num!Quotient(n, 10) /\ (n < 10 => q = 0) /\ (n >= 10 => q < n)
    BY <2>1, TenIs
  <2> QED BY <1>3, <2>1, <2>2
<1> HIDE DEF One
<1>4. ASSUME NEW n \in Int, NEW g, Num!Quotient(n, 10) > 0 => g[Num!Quotient(n, 10)] \in Seq(Int)
      PROVE  Of(g, n) \in Seq(Int)
  <2>1. One(n) \in Seq(Int)
    BY <1>2
  <2>2. (IF Num!Quotient(n, 10) > 0 THEN g[Num!Quotient(n, 10)] ELSE <<>>) \in Seq(Int)
    BY <1>4
  <2> QED BY <2>1, <2>2, ConcatProperties
<1> DEFINE Upto(m, h) == h \in [-H .. m -> Seq(Int)] /\ \A n \in -H .. m : h[n] = Of(h, n)
           Good == {m \in Nat : \E h : Upto(m, h)}
<1>5. 0 \in Good
  <2>1. ASSUME NEW n \in -H .. 0 PROVE ~(Num!Quotient(n, 10) > 0)
    BY <1>3
  <2>2. PICK h : h = [n \in -H .. 0 |-> One(n) \o <<>>]
    OBVIOUS
  <2>3. ASSUME NEW n \in -H .. 0 PROVE h[n] = Of(h, n)
    BY <2>1, <2>2
  <2>4. ASSUME NEW n \in -H .. 0 PROVE h[n] \in Seq(Int)
    <3>1. Of(h, n) \in Seq(Int)
      BY <1>4, <2>1
    <3> QED BY <2>3, <3>1
  <2>5. h \in [-H .. 0 -> Seq(Int)]
    BY <2>2, <2>4
  <2>6. Upto(0, h)
    BY <2>3, <2>5
  <2> HIDE DEF Upto
  <2> QED BY <2>6
<1>6. ASSUME NEW m \in Nat, m \in Good PROVE m + 1 \in Good
  <2>1. PICK g : Upto(m, g)
    <3> HIDE DEF Upto
    <3> QED BY <1>6
  <2>2. g \in [-H .. m -> Seq(Int)] /\ \A n \in -H .. m : g[n] = Of(g, n)
    BY <2>1
  <2>3. PICK w : w = Of(g, m + 1)
    OBVIOUS
  <2>4. PICK h : h = [n \in -H .. m + 1 |-> IF n = m + 1 THEN w ELSE g[n]]
    OBVIOUS
  <2>5. ASSUME NEW n \in -H .. m PROVE h[n] = g[n]
    <3>1. n \in -H .. m + 1 /\ n # m + 1
      OBVIOUS
    <3> QED BY <2>4, <3>1
  <2>6. ASSUME NEW n \in -H .. m + 1, Num!Quotient(n, 10) > 0
        PROVE  /\ h[Num!Quotient(n, 10)] = g[Num!Quotient(n, 10)]
               /\ g[Num!Quotient(n, 10)] \in Seq(Int)
    <3>1. Num!Quotient(n, 10) \in Nat /\ Num!Quotient(n, 10) < n
      BY <1>3, <2>6
    <3>2. Num!Quotient(n, 10) \in -H .. m
      BY <3>1
    <3> QED BY <2>2, <2>5, <3>2
  <2>7. ASSUME NEW n \in -H .. m + 1 PROVE Of(h, n) = Of(g, n)
    BY <2>6
  <2>8. ASSUME NEW n \in -H .. m + 1 PROVE h[n] = Of(g, n)
    <3>1. CASE n = m + 1
      BY <2>3, <2>4, <3>1
    <3>2. CASE n # m + 1
      <4>1. n \in -H .. m
        BY <3>2
      <4>2. h[n] = g[n] /\ g[n] = Of(g, n)
        BY <2>2, <2>5, <4>1
      <4> QED BY <4>2
    <3> QED BY <3>1, <3>2
  <2>9. ASSUME NEW n \in -H .. m + 1 PROVE h[n] \in Seq(Int)
    <3>1. Of(g, n) \in Seq(Int)
      BY <1>4, <2>6
    <3> QED BY <2>8, <3>1
  <2>10. h \in [-H .. m + 1 -> Seq(Int)]
    BY <2>4, <2>9
  <2>11. \A n \in -H .. m + 1 : h[n] = Of(h, n)
    BY <2>7, <2>8
  <2>12. Upto(m + 1, h)
    BY <2>10, <2>11
  <2> HIDE DEF Upto
  <2> QED BY <2>12
<1>7. \A m \in Nat : m \in Good
  <2> HIDE DEF Good
  <2> QED BY <1>5, <1>6, StepInduction
<1>8. H - 1 \in Good
  <2> HIDE DEF Good
  <2> QED BY <1>1, <1>7
<1> QED BY <1>1, <1>8 DEF One

LEMMA DigitsIs ==
  ASSUME NEW n \in Nat, n <= Num!IntMax
  PROVE  /\ n < 10 => Num!Digits(n) = <<n + 48>>
         /\ n >= 10 => Num!Digits(n) = <<(n % 10) + 48>> \o Num!Digits(n \div 10)
         /\ Num!Digits(n) \in Seq(Int)
<1>1. PICK H \in Nat : H >= 8 /\ Num!IntMin = -H /\ Num!IntMax = H - 1
  BY IntRange
<1> DEFINE Right(h) == h = [i \in Num!IntMin .. Num!IntMax |->
                 <<Num!Remainder(i, 10) + Num!Zero>>
                 \o (IF Num!Quotient(i, 10) > 0 THEN h[Num!Quotient(i, 10)] ELSE <<>>)]
<1>2. \E h : Right(h)
  <2>1. PICK h \in [Num!IntMin .. Num!IntMax -> Seq(Int)] :
          \A i \in Num!IntMin .. Num!IntMax :
             h[i] = <<Num!Remainder(i, 10) + Num!Zero>>
                    \o (IF Num!Quotient(i, 10) > 0 THEN h[Num!Quotient(i, 10)] ELSE <<>>)
    BY DigitsExist
  <2>2. h = [i \in Num!IntMin .. Num!IntMax |-> h[i]]
    BY <2>1
  <2>3. Right(h)
    BY <2>1, <2>2
  <2> QED BY <2>3
<1>3. PICK f : f = CHOOSE h : Right(h)
  OBVIOUS
<1>4. Right(f)
  BY <1>2, <1>3
<1>5. \A x \in Num!IntMin .. Num!IntMax : Num!Digits(x) = f[x]
  BY <1>3 DEF Num!Digits
<1>6. ASSUME NEW x \in Nat, x <= H - 1
      PROVE  /\ x \in Num!IntMin .. Num!IntMax
             /\ Num!Quotient(x, 10) = x \div 10 /\ Num!Remainder(x, 10) = x % 10
  <2>1. Num!Quotient(x, 10) = x \div 10 /\ Num!Remainder(x, 10) = x % 10
    BY TenIs
  <2> QED BY <1>1, <1>6, <2>1
<1>7. ASSUME NEW x \in Nat, x <= H - 1, x < 10 PROVE f[x] = <<x + 48>>
  <2>1. x \div 10 = 0 /\ x % 10 = x
    BY <1>7, TenIs
  <2>2. /\ x \in Num!IntMin .. Num!IntMax
        /\ ~(Num!Quotient(x, 10) > 0) /\ Num!Remainder(x, 10) = x
    BY <1>6, <1>7, <2>1
  <2>3. f[x] = <<x + 48>> \o <<>>
    BY <1>4, <2>2 DEF Num!Zero
  <2>4. <<x + 48>> \in Seq(Int)
    OBVIOUS
  <2>5. <<x + 48>> \o <<>> = <<x + 48>>
    BY <2>4, ConcatEmptySeq
  <2> QED BY <2>3, <2>5
<1>8. ASSUME NEW x \in Nat, x <= H - 1, x >= 10 PROVE f[x] = <<(x % 10) + 48>> \o f[x \div 10]
  <2>1. x \div 10 >= 1 /\ x \div 10 \in Nat
    BY <1>8, TenIs
  <2>2. /\ x \in Num!IntMin .. Num!IntMax /\ Num!Quotient(x, 10) > 0
        /\ Num!Quotient(x, 10) = x \div 10 /\ Num!Remainder(x, 10) = x % 10
    BY <1>6, <1>8, <2>1
  <2> QED BY <1>4, <2>2 DEF Num!Zero
<1>9. PICK S : S = {x \in Nat : x <= H - 1 => f[x] \in Seq(Int)}
  OBVIOUS
<1>10. ASSUME NEW x \in Nat, \A y \in Nat : y < x => y \in S PROVE x \in S
  <2> SUFFICES ASSUME x <= H - 1 PROVE f[x] \in Seq(Int)
    BY <1>9
  <2>1. CASE x < 10
    <3>1. f[x] = <<x + 48>>
      BY <1>7, <2>1
    <3> QED BY <3>1
  <2>2. CASE ~(x < 10)
    <3>1. x >= 10
      BY <2>2
    <3>2. x \div 10 \in Nat /\ x \div 10 < x /\ x % 10 \in 0 .. 9
      BY <3>1, TenIs
    <3>3. f[x \div 10] \in Seq(Int)
      <4>1. x \div 10 \in S /\ x \div 10 <= H - 1
        BY <1>10, <3>2
      <4> QED BY <1>9, <4>1
    <3>4. <<(x % 10) + 48>> \in Seq(Int)
      <4>1. (x % 10) + 48 \in Int
        BY <3>2
      <4> QED BY <4>1
    <3>5. f[x] = <<(x % 10) + 48>> \o f[x \div 10]
      BY <1>8, <3>1
    <3> QED BY <3>3, <3>4, <3>5, ConcatProperties
  <2> QED BY <2>1, <2>2
<1>11. n \in S
  BY <1>10, StrongInduction
<1>12. f[n] \in Seq(Int)
  BY <1>1, <1>9, <1>11
<1>13. n \in Num!IntMin .. Num!IntMax /\ n \div 10 \in Num!IntMin .. Num!IntMax
  <2>1. n \div 10 \in Nat /\ n \div 10 <= n
    BY TenIs
  <2> QED BY <1>1, <2>1
<1>14. Num!Digits(n) = f[n] /\ Num!Digits(n \div 10) = f[n \div 10]
  BY <1>5, <1>13
<1> QED BY <1>1, <1>7, <1>8, <1>12, <1>14

(* t is the plain text of the number n.                                    *)
Writes(t, n) ==
  /\ t \in Seq(Int) /\ Num!IsDigits(t) /\ Num!Natural(t) = n
  /\ t[1] = Num!Zero => Len(t) = 1

(* One digit more, unless the number is zero. *)
LEMMA WritesOn ==
  ASSUME NEW t, NEW m \in Nat, Writes(t, m), m >= 1, NEW d \in 0 .. 9
  PROVE  Writes(Append(t, d + 48), 10 * m + d)
<1>1. PICK l \in Nat : l = Len(t)
  BY DEF Writes
<1>2. /\ t \in Seq(Int) /\ l >= 1 /\ \A n \in 1 .. l : t[n] \in 48 .. 57
      /\ t[1] = 48 => l = 1
  BY <1>1 DEF Writes, Num!IsDigits, Num!Zero
<1>3. PICK c \in Int : c = d + 48 /\ c \in 48 .. 57
  OBVIOUS
<1>4. PICK u : u = Append(t, c)
  OBVIOUS
<1>5. /\ u \in Seq(Int) /\ u # <<>> /\ Len(u) = l + 1
      /\ u[l + 1] = c /\ \A n \in 1 .. l : u[n] = t[n]
  BY <1>1, <1>2, <1>4, AppendProperties
<1>6. ASSUME NEW n \in 1 .. l + 1 PROVE u[n] \in 48 .. 57
  <2>1. CASE n = l + 1
    BY <1>3, <1>5, <2>1
  <2>2. CASE n # l + 1
    <3>1. n \in 1 .. l
      BY <2>2
    <3> QED BY <1>2, <1>5, <3>1
  <2> QED BY <2>1, <2>2
<1>7. Num!IsDigits(u)
  BY <1>5, <1>6 DEF Num!IsDigits, Num!Zero
<1>8. Num!Natural(u) = 10 * m + d
  <2>1. Num!Natural(u) = 10 * Num!Natural(t) + c - Num!Zero
    BY <1>2, <1>4, NaturalAppend
  <2>2. Num!Natural(t) = m
    BY DEF Writes
  <2> QED BY <1>3, <2>1, <2>2 DEF Num!Zero
<1>9. u[1] # 48
  <2>1. u[1] = t[1]
    BY <1>2, <1>5
  <2>2. ASSUME t[1] = 48 PROVE FALSE
    <3>1. l = 1
      BY <1>2, <2>2
    <3>2. Num!Natural(t) = t[1] - 48
      BY <1>1, <1>2, <3>1, NaturalOne
    <3>3. Num!Natural(t) = m
      BY DEF Writes
    <3> QED BY <2>2, <3>2, <3>3
  <2> QED BY <2>1, <2>2
<1> QED BY <1>3, <1>4, <1>5, <1>7, <1>8, <1>9 DEF Writes, Num!Zero

LEMMA WritesOne ==
  ASSUME NEW n \in Nat, n < 10
  PROVE  Writes(<<n + 48>>, n) /\ Backwards(<<n + 48>>, <<n + 48>>)
<1>1. PICK t : t = <<n + 48>>
  OBVIOUS
<1>2. t \in Seq(Int) /\ Len(t) = 1 /\ t[1] = n + 48 /\ t # <<>>
  BY <1>1
<1>3. Num!Natural(t) = n
  <2>1. PICK l \in Nat : l = Len(t) /\ l = 1
    BY <1>2
  <2>2. Num!Natural(t) = t[1] - 48
    BY <1>2, <2>1, NaturalOne
  <2> QED BY <1>2, <2>2
<1>4. Num!IsDigits(t)
  <2>1. \A i \in 1 .. Len(t) : i = 1
    BY <1>2
  <2>2. n + 48 \in 48 .. 57
    OBVIOUS
  <2> QED BY <1>2, <2>1, <2>2 DEF Num!IsDigits, Num!Zero
<1>5. Writes(t, n)
  BY <1>2, <1>3, <1>4 DEF Writes
<1>6. ASSUME NEW i \in 1 .. Len(t) PROVE t[i] = t[Len(t) + 1 - i]
  <2>1. i = 1 /\ Len(t) + 1 - i = 1
    BY <1>2
  <2> QED BY <2>1
<1>7. Backwards(t, t)
  BY <1>2, <1>6 DEF Backwards
<1> QED BY <1>1, <1>5, <1>7

(* The digits, turned around, are the plain text of the number.            *)
LEMMA TextIs ==
  ASSUME NEW n \in Nat, n <= Num!IntMax
  PROVE  \E t : Backwards(Num!Digits(n), t) /\ Writes(t, n)
<1>1. PICK H \in Nat : H = Num!IntMax
  <2>1. Num!IntMax \in Nat
    BY IntRange
  <2> QED BY <2>1
<1>2. PICK S : S = {x \in Nat : x <= H => \E t : Backwards(Num!Digits(x), t) /\ Writes(t, x)}
  OBVIOUS
<1>3. ASSUME NEW x \in Nat, \A y \in Nat : y < x => y \in S PROVE x \in S
  <2> SUFFICES ASSUME x <= H PROVE \E t : Backwards(Num!Digits(x), t) /\ Writes(t, x)
    BY <1>2
  <2>1. CASE x < 10
    <3>1. Num!Digits(x) = <<x + 48>>
      BY <1>1, <2>1, DigitsIs
    <3>2. Writes(<<x + 48>>, x) /\ Backwards(<<x + 48>>, <<x + 48>>)
      BY <2>1, WritesOne
    <3> QED BY <3>1, <3>2
  <2>2. CASE ~(x < 10)
    <3>1. x >= 10
      BY <2>2
    <3>2. PICK q \in Nat : q = x \div 10 /\ q >= 1 /\ q < x
      BY <3>1, TenIs
    <3>3. PICK d \in 0 .. 9 : d = x % 10 /\ x = 10 * q + d
      BY <3>2, TenIs
    <3>4. q <= H /\ q \in S
      BY <1>3, <3>2
    <3>5. PICK t : Backwards(Num!Digits(q), t) /\ Writes(t, q)
      BY <1>2, <3>4
    <3>6. Num!Digits(q) \in Seq(Int)
      BY <1>1, <3>4, DigitsIs
    <3>7. Num!Digits(x) = <<d + 48>> \o Num!Digits(q)
      BY <1>1, <3>1, <3>2, <3>3, DigitsIs
    <3>8. Writes(Append(t, d + 48), 10 * q + d)
      BY <3>2, <3>5, WritesOn
    <3>9. Backwards(<<d + 48>> \o Num!Digits(q), Append(t, d + 48))
      <4>1. d + 48 \in Int
        OBVIOUS
      <4> QED BY <3>5, <3>6, <4>1, BackwardsPut
    <3> QED BY <3>3, <3>7, <3>8, <3>9
  <2> QED BY <2>1, <2>2
<1>4. \A x \in Nat : x \in S
  BY <1>3, StrongInduction
<1> QED BY <1>1, <1>2, <1>4

(* The last digit of a plain text, and the text before it.                 *)
LEMMA WritesEnds ==
  ASSUME NEW t, NEW n \in Nat, Writes(t, n)
  PROVE  /\ n < 10 => t = <<n + 48>>
         /\ n >= 10 => \E u : Writes(u, n \div 10) /\ t = Append(u, (n % 10) + 48)
<1>1. PICK l \in Nat : l = Len(t)
  BY DEF Writes
<1>2. /\ t \in Seq(Int) /\ l >= 1 /\ \A i \in 1 .. l : t[i] \in 48 .. 57
      /\ t[1] = 48 => l = 1
      /\ Num!Natural(t) = n
  BY <1>1 DEF Writes, Num!IsDigits, Num!Zero
<1>3. CASE l = 1
  <2>1. Num!Natural(t) = t[1] - 48
    BY <1>1, <1>2, <1>3, NaturalOne
  <2>2. t[1] \in 48 .. 57
    BY <1>2, <1>3
  <2>3. n < 10 /\ t[1] = n + 48
    BY <1>2, <2>1, <2>2
  <2>4. t = <<t[1]>>
    <3>1. PICK w : w = <<t[1]>>
      OBVIOUS
    <3>2. w \in Seq(Int) /\ Len(w) = 1 /\ w[1] = t[1]
      BY <2>2, <3>1
    <3>3. Len(w) = Len(t) /\ \A i \in 1 .. Len(w) : w[i] = t[i]
      BY <1>1, <1>3, <3>2
    <3>4. w = t
      BY <1>2, <3>2, <3>3, SeqEqual
    <3> QED BY <3>1, <3>4
  <2> QED BY <2>3, <2>4
<1>4. CASE l # 1
  <2>1. PICK m \in Nat : m + 1 = l /\ m >= 1
    BY <1>2, <1>4
  <2>2. PICK u : u = [i \in 1 .. m |-> t[i]]
    OBVIOUS
  <2>3. \A i \in 1 .. m : u[i] = t[i] /\ u[i] \in Int /\ t[i] \in 48 .. 57
    BY <1>2, <2>1, <2>2
  <2>4. u \in Seq(Int) /\ Len(u) = m
    BY <2>2, <2>3
  <2>5. PICK c \in 48 .. 57 : c = t[l]
    BY <1>2
  <2>6. t = Append(u, c)
    <3>1. PICK w : w = Append(u, c)
      OBVIOUS
    <3>2. /\ w \in Seq(Int) /\ Len(w) = m + 1
          /\ w[m + 1] = c /\ \A i \in 1 .. m : w[i] = u[i]
      <4>1. c \in Int
        OBVIOUS
      <4> QED BY <2>4, <3>1, <4>1, AppendProperties
    <3>3. ASSUME NEW i \in 1 .. m + 1 PROVE w[i] = t[i]
      <4>1. CASE i = m + 1
        BY <2>1, <2>5, <3>2, <4>1
      <4>2. CASE i # m + 1
        <5>1. i \in 1 .. m
          BY <4>2
        <5> QED BY <2>3, <3>2, <5>1
      <4> QED BY <4>1, <4>2
    <3>4. Len(w) = Len(t) /\ \A i \in 1 .. Len(w) : w[i] = t[i]
      BY <1>1, <2>1, <3>2, <3>3
    <3>5. w = t
      BY <1>2, <3>2, <3>4, SeqEqual
    <3> QED BY <3>1, <3>5
  <2>7. Num!IsDigits(u)
    <3>1. u # <<>>
      <4>1. Len(u) # 0
        BY <2>1, <2>4
      <4> QED BY <4>1
    <3>2. \A i \in 1 .. Len(u) : u[i] \in 48 .. 57
      BY <2>3, <2>4
    <3> QED BY <3>1, <3>2 DEF Num!IsDigits, Num!Zero
  <2>8. u[1] # Num!Zero
    <3>1. 1 \in 1 .. m
      BY <2>1
    <3>2. u[1] = t[1] /\ t[1] # 48
      BY <1>2, <1>4, <2>3, <3>1
    <3> QED BY <3>2 DEF Num!Zero
  <2>9. PICK q \in Nat : q = Num!Natural(u) /\ q >= 1
    BY <2>4, <2>7, <2>8, NaturalIs
  <2>10. Writes(u, q)
    BY <2>4, <2>7, <2>8, <2>9 DEF Writes
  <2>11. n = 10 * q + c - 48
    <3>1. Num!Natural(Append(u, c)) = 10 * Num!Natural(u) + c - Num!Zero
      <4>1. c \in Int
        OBVIOUS
      <4> QED BY <2>4, <4>1, NaturalAppend
    <3> QED BY <1>2, <2>6, <2>9, <3>1 DEF Num!Zero
  <2>12. PICK d \in 0 .. 9 : d = c - 48
    OBVIOUS
  <2>13. n = 10 * q + d /\ c = d + 48
    BY <2>11, <2>12
  <2>14. n >= 10 /\ n \div 10 = q /\ n % 10 = d
    BY <2>9, <2>13, TenBack
  <2> QED BY <2>6, <2>10, <2>13, <2>14
<1> QED BY <1>3, <1>4

(* A number has one plain text. *)
LEMMA OneText ==
  ASSUME NEW n \in Nat, NEW t, NEW u, Writes(t, n), Writes(u, n)
  PROVE  t = u
<1>1. PICK S : S = {x \in Nat : \A v, w : Writes(v, x) /\ Writes(w, x) => v = w}
  OBVIOUS
<1>2. ASSUME NEW x \in Nat, \A y \in Nat : y < x => y \in S PROVE x \in S
  <2> SUFFICES ASSUME NEW v, NEW w, Writes(v, x), Writes(w, x) PROVE v = w
    BY <1>1
  <2>1. CASE x < 10
    <3>1. v = <<x + 48>> /\ w = <<x + 48>>
      BY <2>1, WritesEnds
    <3> QED BY <3>1
  <2>2. CASE ~(x < 10)
    <3>1. x >= 10
      BY <2>2
    <3>2. PICK a : Writes(a, x \div 10) /\ v = Append(a, (x % 10) + 48)
      BY <3>1, WritesEnds
    <3>3. PICK b : Writes(b, x \div 10) /\ w = Append(b, (x % 10) + 48)
      BY <3>1, WritesEnds
    <3>4. x \div 10 \in Nat /\ x \div 10 < x
      BY <3>1, TenIs
    <3>5. x \div 10 \in S
      BY <1>2, <3>4
    <3>6. a = b
      BY <1>1, <3>2, <3>3, <3>5
    <3> QED BY <3>2, <3>3, <3>6
  <2> QED BY <2>1, <2>2
<1>3. n \in S
  BY <1>2, StrongInduction
<1> QED BY <1>1, <1>3

(* itoa gives the plain text, with a minus sign in front if there is one.  *)
LEMMA ItoaIs ==
  ASSUME NEW n \in Int, Num!Fits(n)
  PROVE  /\ n >= 0 => Writes(Num!itoa(n), n)
         /\ n < 0 => \E t : Writes(t, -n) /\ Num!itoa(n) = <<Num!Minus>> \o t
<1>1. PICK H \in Nat : H >= 8 /\ Num!IntMin = -H /\ Num!IntMax = H - 1
  BY IntRange
<1>2. -H < n /\ n <= H - 1
  BY <1>1 DEF Num!Fits
<1>3. ASSUME n >= 0 PROVE Writes(Num!itoa(n), n)
  <2>1. n \in Nat /\ n <= Num!IntMax
    BY <1>1, <1>2, <1>3
  <2>2. PICK t : Backwards(Num!Digits(n), t) /\ Writes(t, n)
    BY <2>1, TextIs
  <2>3. Num!Digits(n) \in Seq(Int)
    BY <2>1, DigitsIs
  <2>4. Backwards(Num!Digits(n), Num!reverse(Num!Digits(n)))
    BY <2>3, ReverseIs
  <2>5. Num!reverse(Num!Digits(n)) = t
    BY <2>2, <2>3, <2>4, OneBackwards
  <2>6. Num!itoa(n) = t
    BY <1>3, <2>5 DEF Num!itoa
  <2> QED BY <2>2, <2>6
<1>4. ASSUME n < 0 PROVE \E t : Writes(t, -n) /\ Num!itoa(n) = <<Num!Minus>> \o t
  <2>1. PICK m \in Nat : m = -n /\ m <= H - 1
    BY <1>2, <1>4
  <2>2. m <= Num!IntMax /\ m \in Num!IntMin .. Num!IntMax
    BY <1>1, <2>1
  <2>3. Num!Int32(-n) = m
    BY <2>1, <2>2, IntIs
  <2>4. PICK t : Backwards(Num!Digits(m), t) /\ Writes(t, m)
    BY <2>2, TextIs
  <2>5. Num!Digits(m) \in Seq(Int)
    BY <2>2, DigitsIs
  <2>6. PICK d : d = Append(Num!Digits(m), Num!Minus)
    OBVIOUS
  <2>7. Num!Minus \in Int
    BY DEF Num!Minus
  <2>8. d \in Seq(Int)
    BY <2>5, <2>6, <2>7, AppendProperties
  <2>9. Backwards(d, <<Num!Minus>> \o t)
    BY <2>4, <2>5, <2>6, <2>7, BackwardsPut
  <2>10. Backwards(d, Num!reverse(d))
    BY <2>8, ReverseIs
  <2>11. Num!reverse(d) = <<Num!Minus>> \o t
    BY <2>8, <2>9, <2>10, OneBackwards
  <2>12. Num!itoa(n) = <<Num!Minus>> \o t
    BY <1>4, <2>3, <2>6, <2>11 DEF Num!itoa
  <2> QED BY <2>1, <2>4, <2>12
<1> QED BY <1>3, <1>4

(* Both are numbers, plainly written. *)
LEMMA TextPlain ==
  ASSUME NEW t, NEW n \in Nat, Writes(t, n)
  PROVE  Num!Plain(t) /\ Num!Number(t) = n
<1>1. PICK l \in Nat : l = Len(t)
  BY DEF Writes
<1>2. /\ t \in Seq(Int) /\ l >= 1 /\ \A i \in 1 .. l : t[i] \in 48 .. 57
      /\ t[1] = 48 => l = 1
      /\ Num!IsDigits(t) /\ Num!Natural(t) = n
  BY <1>1 DEF Writes, Num!IsDigits, Num!Zero
<1>3. t[1] # 45
  BY <1>2
<1>4. Num!Number(t) = n
  BY <1>2, <1>3 DEF Num!Number, Num!Minus
<1>5. Num!Plain(t)
  BY <1>1, <1>2, <1>3 DEF Num!Plain, Num!IsNumber, Num!Minus, Num!Zero
<1> QED BY <1>4, <1>5

LEMMA SignedPlain ==
  ASSUME NEW t, NEW n \in Nat, Writes(t, n), n >= 1
  PROVE  Num!Plain(<<Num!Minus>> \o t) /\ Num!Number(<<Num!Minus>> \o t) = -n
<1>1. PICK l \in Nat : l = Len(t)
  BY DEF Writes
<1>2. /\ t \in Seq(Int) /\ l >= 1 /\ \A i \in 1 .. l : t[i] \in 48 .. 57
      /\ t[1] = 48 => l = 1
      /\ Num!IsDigits(t) /\ Num!Natural(t) = n
  BY <1>1 DEF Writes, Num!IsDigits, Num!Zero
<1>3. PICK o : o = <<45>>
  OBVIOUS
<1>4. PICK s : s = o \o t
  OBVIOUS
<1>5. /\ s \in Seq(Int) /\ Len(s) = l + 1
      /\ s[1] = 45 /\ \A i \in 1 .. l : s[i + 1] = t[i]
  <2>1. /\ o \o t \in Seq(Int) /\ Len(o \o t) = l + 1
        /\ (o \o t)[1] = 45 /\ \A i \in 1 .. l : (o \o t)[i + 1] = t[i]
    BY <1>1, <1>2, <1>3, InFront
  <2> QED BY <1>4, <2>1
<1>6. s # <<>> /\ s[1] = 45 /\ s[2] = t[1]
  <2>1. 1 \in 1 .. l /\ 1 + 1 = 2
    BY <1>2
  <2>2. s # <<>>
    <3>1. Len(s) # 0
      BY <1>5
    <3> QED BY <3>1
  <2> QED BY <1>5, <2>1, <2>2
<1>7. Tail(s) = t
  <2>1. PICK u : u = Tail(s)
    OBVIOUS
  <2>2. /\ u \in Seq(Int) /\ Len(u) = Len(s) - 1
        /\ \A i \in 1 .. Len(u) : u[i] = s[i + 1]
    BY <1>5, <1>6, <2>1, HeadTailProperties
  <2>3. Len(u) = l
    BY <1>5, <2>2
  <2>4. ASSUME NEW i \in 1 .. l PROVE u[i] = t[i]
    <3>1. s[i + 1] = t[i]
      BY <1>5
    <3> QED BY <2>2, <2>3, <3>1
  <2>5. Len(u) = Len(t) /\ \A i \in 1 .. Len(u) : u[i] = t[i]
    BY <1>1, <2>3, <2>4
  <2>6. u = t
    BY <1>2, <2>2, <2>5, SeqEqual
  <2> QED BY <2>1, <2>6
<1>8. t[1] # 48
  <2>1. ASSUME t[1] = 48 PROVE FALSE
    <3>1. l = 1
      BY <1>2, <2>1
    <3>2. Num!Natural(t) = t[1] - 48
      BY <1>1, <1>2, <3>1, NaturalOne
    <3> QED BY <1>2, <2>1, <3>2
  <2> QED BY <2>1
<1>9. Num!IsNumber(s)
  BY <1>2, <1>6, <1>7 DEF Num!IsNumber, Num!Minus
<1>10. Num!Plain(s)
  BY <1>6, <1>8, <1>9 DEF Num!Plain, Num!Zero, Num!Minus
<1>11. Num!Number(s) = -n
  BY <1>2, <1>6, <1>7 DEF Num!Number, Num!Minus
<1> QED BY <1>3, <1>4, <1>10, <1>11 DEF Num!Minus

(* What the user types.                                                    *)
Arguments == arg1 \in Seq(Chars) /\ arg2 \in Seq(Chars)

LEMMA ArgumentsAlways == Num!Spec => []Arguments
<1>1. Num!Init => Arguments
  BY DEF Num!Init, Arguments
<1>2. Arguments /\ [Num!Next]_(Num!vars) => Arguments'
  <2> SUFFICES ASSUME Arguments, [Num!Next]_(Num!vars) PROVE Arguments'
    OBVIOUS
  <2>1. CASE UNCHANGED Num!vars
    BY <2>1 DEF Num!vars, Arguments
  <2>2. ASSUME NEW c \in Chars, Num!Type(c) PROVE Arguments'
    <3>1. Append(arg1, c) \in Seq(Chars) /\ Append(arg2, c) \in Seq(Chars)
      BY AppendProperties DEF Arguments
    <3> QED BY <2>2, <3>1 DEF Num!Type, Arguments
  <2>3. ASSUME NEW op \in Num!Operations, Num!cmd_math(op) PROVE Arguments'
    BY <2>3 DEF Num!cmd_math, Arguments
  <2> QED BY <2>1, <2>2, <2>3 DEF Num!Next
<1> QED BY <1>1, <1>2, PTL DEF Num!Spec

LEMMA ArgumentsAreInts ==
  ASSUME Arguments
  PROVE  /\ arg1 \in Seq(Int) /\ arg2 \in Seq(Int)
         /\ \A n \in 1 .. Len(arg1) : arg1[n] \in Nat \ {0}
         /\ \A n \in 1 .. Len(arg2) : arg2[n] \in Nat \ {0}
<1>1. \A c \in Chars : c \in Nat \ {0}
  BY NumbersOk DEF Num!NumbersAssumption
<1>2. ASSUME NEW s \in Seq(Chars)
      PROVE  s \in Seq(Int) /\ \A n \in 1 .. Len(s) : s[n] \in Nat \ {0}
  <2>1. \A n \in 1 .. Len(s) : s[n] \in Chars
    BY ElementOfSeq
  <2>2. \A n \in 1 .. Len(s) : s[n] \in Nat \ {0}
    BY <1>1, <2>1
  <2>3. s \in Seq(Int)
    BY <2>2
  <2> QED BY <2>2, <2>3
<1> QED BY <1>2 DEF Arguments

LEMMA RoundTrips ==
  ASSUME Arguments
  PROVE  Num!RoundTrip
<1>1. arg1 \in Seq(Int)
  BY ArgumentsAreInts
<1>2. PICK H \in Nat : H >= 8 /\ Num!IntMin = -H /\ Num!IntMax = H - 1
  BY IntRange
<1>3. PICK n \in Int : n = Num!atoi(arg1) /\ n \in Num!IntMin .. Num!IntMax
  <2>1. Num!atoi(arg1) \in Num!IntMin .. Num!IntMax
    BY <1>1, AtoiInt
  <2>2. \A x \in Num!IntMin .. Num!IntMax : x \in Int
    BY <1>2
  <2> QED BY <2>1, <2>2
<1>4. ASSUME n >= 0 PROVE Num!atoi(Num!itoa(n)) = n
  <2>1. Num!Fits(n) /\ n <= Num!IntMax
    BY <1>2, <1>3, <1>4 DEF Num!Fits
  <2>2. Writes(Num!itoa(n), n)
    BY <1>4, <2>1, ItoaIs
  <2>3. PICK t \in Seq(Int) : t = Num!itoa(n) /\ Num!IsDigits(t) /\ Num!Natural(t) = n
    BY <2>2 DEF Writes
  <2>4. Num!atoi(t) = Num!Natural(t)
    BY <2>1, <2>3, AtoiReads
  <2> QED BY <2>3, <2>4
<1>5. ASSUME Num!Plain(arg1), Num!IsDigits(arg1), Num!Fits(Num!Natural(arg1))
      PROVE  Num!itoa(n) = arg1
  <2>1. PICK m \in Nat : m = Num!Natural(arg1)
    BY <1>1, <1>5, NaturalIs
  <2>2. m <= Num!IntMax
    BY <1>2, <1>5, <2>1 DEF Num!Fits
  <2>3. n = m
    BY <1>1, <1>3, <1>5, <2>1, <2>2, AtoiReads
  <2>4. Writes(arg1, n)
    BY <1>1, <1>5, <2>1, <2>3 DEF Writes, Num!Plain
  <2>5. Writes(Num!itoa(n), n)
    <3>1. n >= 0 /\ Num!Fits(n)
      BY <1>5, <2>1, <2>3
    <3> QED BY <3>1, ItoaIs
  <2>6. n \in Nat
    BY <2>3
  <2> QED BY <2>4, <2>5, <2>6, OneText
<1> QED BY <1>3, <1>4, <1>5 DEF Num!RoundTrip

(* What math shows. *)
LEMMA MathShows ==
  ASSUME Arguments, NEW op \in Num!Operations, Num!cmd_math(op),
         Num!IsDigits(arg1), Num!IsDigits(arg2),
         Num!Fits(Num!Natural(arg1)), Num!Fits(Num!Natural(arg2))
  PROVE  IF op = "/" /\ Num!Natural(arg2) = 0 THEN math_shown' = Num!Panic
         ELSE LET r == Num!Exact(op, Num!Natural(arg1), Num!Natural(arg2))
              IN  Num!Fits(r) => Num!Plain(math_shown') /\ Num!Number(math_shown') = r
<1>1. arg1 \in Seq(Int) /\ arg2 \in Seq(Int)
  BY ArgumentsAreInts
<1>2. PICK H \in Nat : H >= 8 /\ Num!IntMin = -H /\ Num!IntMax = H - 1
  BY IntRange
<1>3. PICK a \in Nat : a = Num!Natural(arg1) /\ a <= Num!IntMax
  <2>1. Num!Natural(arg1) \in Nat
    BY <1>1, NaturalIs
  <2> QED BY <1>2, <2>1 DEF Num!Fits
<1>4. PICK b \in Nat : b = Num!Natural(arg2) /\ b <= Num!IntMax
  <2>1. Num!Natural(arg2) \in Nat
    BY <1>1, NaturalIs
  <2> QED BY <1>2, <2>1 DEF Num!Fits
<1>5. Num!atoi(arg1) = a
  BY <1>1, <1>3, AtoiReads
<1>6. Num!atoi(arg2) = b
  BY <1>1, <1>4, AtoiReads
<1>7. Num!Faults(op, a, b) <=> op = "/" /\ b = 0
  <2>1. a # Num!IntMin
    BY <1>2, <1>3
  <2> QED BY <2>1 DEF Num!Faults
<1>8. math_shown' = IF op = "/" /\ b = 0 THEN Num!Panic ELSE Num!itoa(Num!Math(op, a, b))
  BY <1>5, <1>6, <1>7 DEF Num!cmd_math
<1>9. CASE op = "/" /\ b = 0
  BY <1>4, <1>8, <1>9
<1>10. CASE ~(op = "/" /\ b = 0)
  <2>1. PICK r : r = Num!Exact(op, a, b)
    OBVIOUS
  <2>2. SUFFICES ASSUME Num!Fits(r)
                 PROVE  Num!Plain(math_shown') /\ Num!Number(math_shown') = r
    BY <1>3, <1>4, <1>10, <2>1
  <2>3. r \in Int /\ r \in Num!IntMin .. Num!IntMax
    BY <1>2, <2>2 DEF Num!Fits
  <2>4. Num!Math(op, a, b) = r
    <3>1. Num!Int32(r) = r
      BY <2>3, IntIs
    <3> QED BY <2>1, <3>1 DEF Num!Math, Num!Exact, Num!Operations
  <2>5. math_shown' = Num!itoa(r)
    BY <1>8, <1>10, <2>4
  <2>6. CASE r >= 0
    <3>1. Writes(Num!itoa(r), r) /\ r \in Nat
      BY <2>2, <2>3, <2>6, ItoaIs
    <3> QED BY <2>5, <3>1, TextPlain
  <2>7. CASE r < 0
    <3>1. PICK n \in Nat : n = -r /\ n >= 1
      BY <2>3, <2>7
    <3>2. PICK t : Writes(t, -r) /\ Num!itoa(r) = <<Num!Minus>> \o t
      BY <2>2, <2>3, <2>7, ItoaIs
    <3>3. Num!Plain(<<Num!Minus>> \o t) /\ Num!Number(<<Num!Minus>> \o t) = -n
      BY <3>1, <3>2, SignedPlain
    <3>4. -n = r
      BY <2>3, <3>1
    <3> QED BY <2>5, <3>2, <3>3, <3>4
  <2> QED BY <2>3, <2>6, <2>7
<1> QED BY <1>9, <1>10

(* hex_to_string: a quotient is sixteen times the next and its digit.      *)
LEMMA QuotientIs ==
  ASSUME NEW n \in Nat, NEW w \in Nat, w > 0, NEW a \in Nat, NEW c \in Nat, c < w, n = a * w + c
  PROVE  n \div w = a
<1>1. PICK q \in Nat : q = n \div w
  OBVIOUS
<1>2. PICK r \in Nat : r = n % w /\ r < w
  OBVIOUS
<1>3. n = q * w + r
  BY <1>1, <1>2
<1>4. (a - q) * w = r - c
  BY <1>3
<1>5. CASE a > q
  <2>1. PICK e \in Nat : e = a - q - 1
    BY <1>5
  <2>2. (a - q) * w = w + e * w /\ e * w >= 0
    BY <2>1
  <2> QED BY <1>2, <1>4, <2>2
<1>6. CASE a < q
  <2>1. PICK e \in Nat : e = q - a - 1
    BY <1>6
  <2>2. (a - q) * w = -w - e * w /\ e * w >= 0
    BY <2>1
  <2> QED BY <1>2, <1>4, <2>2
<1> QED BY <1>1, <1>5, <1>6

LEMMA SixteenTimes ==
  ASSUME NEW n \in Nat, NEW p \in Nat, p > 0
  PROVE  n \div p = 16 * (n \div (16 * p)) + ((n \div p) % 16)
<1>1. PICK q \in Nat : q = n \div p
  OBVIOUS
<1>2. PICK r \in Nat : r = n % p /\ r < p
  OBVIOUS
<1>3. n = q * p + r
  BY <1>1, <1>2
<1>4. PICK a \in Nat, b \in 0 .. 15 : a = q \div 16 /\ b = q % 16 /\ q = 16 * a + b
  OBVIOUS
<1>5. PICK w \in Nat : w = 16 * p /\ w > 0
  OBVIOUS
<1>6. PICK c \in Nat : c = b * p + r
  <2>1. b * p \in Nat
    OBVIOUS
  <2> QED BY <2>1
<1>7. c < w
  <2>1. PICK e \in Nat : e = 15 - b
    OBVIOUS
  <2>2. 15 * p = b * p + e * p /\ e * p >= 0
    BY <2>1
  <2> QED BY <1>2, <1>5, <1>6, <2>2
<1>8. n = a * w + c
  <2>1. q * p = (16 * a) * p + b * p
    BY <1>4
  <2>2. (16 * a) * p = a * w
    BY <1>5
  <2> QED BY <1>3, <1>6, <2>1, <2>2
<1>9. n \div w = a
  BY <1>5, <1>7, <1>8, QuotientIs
<1> QED BY <1>1, <1>4, <1>5, <1>9

LEMMA HexDigitIs ==
  ASSUME NEW d \in 0 .. 15, NEW c, c = Num!HexChar(d)
  PROVE  (IF c < 58 THEN c - Num!Zero ELSE c - 55) = d
  BY DEF Num!HexChar, Num!Zero

LEMMA HexHolds ==
  ASSUME Arguments
  PROVE  Num!HexRight
<1>1. PICK n \in Nat : n = Num!Unsigned(Num!atoi(arg1)) /\ n < Num!Ints
  <2>1. PICK H \in Nat : H >= 8 /\ Num!Ints = H + H /\ Num!IntMin = -H /\ Num!IntMax = H - 1
    BY IntRange
  <2>2. Num!atoi(arg1) \in Num!IntMin .. Num!IntMax
    BY ArgumentsAreInts, AtoiInt
  <2>3. PICK x \in Int, w \in Nat : x = Num!atoi(arg1) /\ w = Num!Ints /\ w > 0
    BY <2>1, <2>2
  <2>4. x % w \in Nat /\ x % w < w
    BY <2>3
  <2> QED BY <2>3, <2>4 DEF Num!Unsigned
<1>2. PICK l \in Nat : l = HexDigits /\ l >= 1
  BY NumbersOk DEF Num!NumbersAssumption, Num!StringsAssumption
<1>3. PICK s : s = Num!hex_to_string(n)
  OBVIOUS
<1>4. Len(s) = l /\ \A i \in 1 .. l : s[i] = Num!HexChar((n \div Num!Sixteen[l - i]) % 16)
  <2>1. s = [i \in 1 .. l |-> Num!HexChar((n \div Num!Sixteen[l - i]) % 16)]
    BY <1>2, <1>3 DEF Num!hex_to_string
  <2> QED BY <2>1
<1>5. /\ \A e \in 1 .. l : Num!Sixteen[e] = 16 * Num!Sixteen[e - 1]
      /\ \A e \in 0 .. l : Num!Sixteen[e] \in Nat /\ Num!Sixteen[e] > 0
      /\ Num!Sixteen[0] = 1
  BY <1>2, Powers
<1>6. PICK h : h = [i \in 0 .. l |-> n \div Num!Sixteen[l - i]]
  OBVIOUS
<1> DEFINE Value(c) == IF c < 58 THEN c - Num!Zero ELSE c - 55
<1>7. h[0] = 0
  <2>1. l - 0 = l /\ 0 \in 0 .. l
    OBVIOUS
  <2>2. h[0] = n \div Num!Ints /\ Num!Ints \in Nat
    BY <1>2, <1>5, <1>6, <2>1 DEF Num!Ints
  <2>3. PICK w \in Nat : w = Num!Ints /\ n < w
    BY <1>1, <2>2
  <2>4. n \div w = 0
    <3>1. n = 0 * w + n /\ w > 0
      BY <2>3
    <3> QED BY <2>3, <3>1, QuotientIs
  <2> QED BY <2>2, <2>3, <2>4
<1>8. ASSUME NEW i \in 1 .. l PROVE h[i] = 16 * h[i - 1] + Value(s[i])
  <2>1. PICK e \in 0 .. l : e = l - i /\ e + 1 \in 1 .. l /\ l - (i - 1) = e + 1 /\ (e + 1) - 1 = e
    OBVIOUS
  <2>2. PICK p \in Nat : p = Num!Sixteen[e] /\ p > 0
    BY <1>5
  <2>3. Num!Sixteen[e + 1] = 16 * p
    BY <1>5, <2>1, <2>2
  <2>4. i \in 0 .. l /\ i - 1 \in 0 .. l
    OBVIOUS
  <2>5. h[i] = n \div p /\ h[i - 1] = n \div (16 * p)
    BY <1>6, <2>1, <2>2, <2>3, <2>4
  <2>6. s[i] = Num!HexChar((n \div p) % 16)
    BY <1>4, <2>1, <2>2
  <2>7. (n \div p) % 16 \in 0 .. 15
    <3>1. n \div p \in Nat
      BY <2>2
    <3> QED BY <3>1
  <2>8. Value(s[i]) = (n \div p) % 16
    BY <2>6, <2>7, HexDigitIs
  <2>9. n \div p = 16 * (n \div (16 * p)) + ((n \div p) % 16)
    BY <2>2, SixteenTimes
  <2> HIDE DEF Value
  <2> QED BY <2>5, <2>8, <2>9
<1>9. PICK f : f = CHOOSE x : x = [i \in 0 .. Len(s) |->
                 IF i = 0 THEN 0 ELSE 16 * x[i - 1] + Value(s[i])]
  OBVIOUS
<1>10. Num!HexRight <=> f[l] = n
  BY <1>1, <1>3, <1>4, <1>9 DEF Num!HexRight
<1> HIDE DEF Value
<1>11. h = [i \in 0 .. l |-> IF i = 0 THEN 0 ELSE 16 * h[i - 1] + Value(s[i])]
  <2>1. ASSUME NEW i \in 0 .. l PROVE h[i] = IF i = 0 THEN 0 ELSE 16 * h[i - 1] + Value(s[i])
    BY <1>7, <1>8
  <2>2. h = [i \in 0 .. l |-> h[i]]
    BY <1>6
  <2> QED BY <2>1, <2>2
<1>12. f = [i \in 0 .. l |-> IF i = 0 THEN 0 ELSE 16 * f[i - 1] + Value(s[i])]
  BY <1>4, <1>9, <1>11
<1>13. PICK S : S = {m \in Nat : m <= l => f[m] = h[m]}
  OBVIOUS
<1>14. 0 \in S
  BY <1>7, <1>12, <1>13
<1>15. ASSUME NEW m \in Nat, m \in S PROVE m + 1 \in S
  <2>1. CASE m + 1 <= l
    <3>1. f[m] = h[m] /\ m + 1 \in 1 .. l /\ m + 1 \in 0 .. l /\ (m + 1) - 1 = m /\ m + 1 # 0
      BY <1>13, <1>15, <2>1
    <3>2. f[m + 1] = 16 * f[m] + Value(s[m + 1])
      BY <1>12, <3>1
    <3>3. h[m + 1] = 16 * h[m] + Value(s[m + 1])
      BY <1>8, <3>1
    <3>4. f[m + 1] = h[m + 1]
      BY <3>1, <3>2, <3>3
    <3> QED BY <1>13, <3>4
  <2>2. CASE ~(m + 1 <= l)
    BY <1>13, <2>2
  <2> QED BY <2>1, <2>2
<1>16. \A m \in Nat : m \in S
  BY <1>14, <1>15, StepInduction
<1>17. f[l] = h[l]
  BY <1>13, <1>16
<1>18. h[l] = n
  <2>1. l \in 0 .. l /\ l - l = 0
    OBVIOUS
  <2>2. h[l] = n \div 1
    BY <1>5, <1>6, <2>1
  <2> QED BY <2>2
<1> QED BY <1>10, <1>17, <1>18

(* strcmp and strncmp: what they find at place i, if v is what they find   *)
(* after it; they go on from a place where both texts have the same        *)
(* character.                                                              *)
Compared(s, t, i, v) ==
  IF Num!CharAt(s, i) # Num!CharAt(t, i) THEN Num!CharAt(s, i) - Num!CharAt(t, i)
  ELSE IF Num!CharAt(s, i) = 0 THEN 0 ELSE v
Same(s, t, i) == Num!CharAt(s, i) = Num!CharAt(t, i) /\ Num!CharAt(s, i) # 0
Text(s) == s \in Seq(Int) /\ \A n \in 1 .. Len(s) : s[n] \in Nat \ {0}

LEMMA CharIs ==
  ASSUME NEW s, Text(s), NEW i \in Nat \ {0}
  PROVE  /\ Num!CharAt(s, i) \in Nat
         /\ Num!CharAt(s, i) # 0 <=> i <= Len(s)
         /\ i <= Len(s) => Num!CharAt(s, i) = s[i]
<1>1. Len(s) \in Nat
  BY DEF Text
<1>2. CASE i <= Len(s)
  <2>1. s[i] \in Nat \ {0}
    BY <1>1, <1>2 DEF Text
  <2> QED BY <1>2, <2>1 DEF Num!CharAt
<1>3. CASE ~(i <= Len(s))
  BY <1>3 DEF Num!CharAt
<1> QED BY <1>2, <1>3

LEMMA ComparedIs ==
  ASSUME NEW s, NEW t, Text(s), Text(t), NEW i \in Nat \ {0}, NEW v
  PROVE  /\ Same(s, t, i) => Compared(s, t, i, v) = v
         /\ ~Same(s, t, i) => Compared(s, t, i, v) = Num!CharAt(s, i) - Num!CharAt(t, i)
<1>1. Num!CharAt(s, i) \in Nat /\ Num!CharAt(t, i) \in Nat
  BY CharIs
<1> QED BY <1>1 DEF Same, Compared

(* They can be computed from the end. *)
Falls(s, t, l, h) ==
  /\ h \in [1 .. l + 1 -> Int] /\ h[l + 1] = 0
  /\ \A i \in 1 .. l : h[i] = Compared(s, t, i, h[i + 1])

LEMMA ComparisonExists ==
  ASSUME NEW s, NEW t, Text(s), Text(t), NEW l \in Nat
  PROVE  \E h : Falls(s, t, l, h)
<1>1. PICK F : F = [n \in 1 .. l |-> [v \in Int |-> Compared(s, t, l + 1 - n, v)]]
  OBVIOUS
<1>2. \A n \in 1 .. l : \A v \in Int : F[n][v] = Compared(s, t, l + 1 - n, v)
  BY <1>1
<1>3. ASSUME NEW n \in 1 .. l, NEW v \in Int PROVE F[n][v] \in Int
  <2>1. PICK i \in Nat \ {0} : i = l + 1 - n
    OBVIOUS
  <2>2. Num!CharAt(s, i) \in Int /\ Num!CharAt(t, i) \in Int
    BY CharIs
  <2>3. Num!CharAt(s, i) - Num!CharAt(t, i) \in Int
    BY <2>2
  <2>4. Compared(s, t, i, v) \in Int
    BY <2>3 DEF Compared
  <2> QED BY <1>2, <2>1, <2>4
<1>4. PICK g \in [0 .. l -> Int] : g[0] = 0 /\ \A n \in 1 .. l : g[n] = F[n][g[n - 1]]
  <2>1. Loop(l, Int, 0, F)
    BY <1>3 DEF Loop
  <2>2. \E h : Rounds(l, Int, 0, F, h)
    BY <2>1, LoopEnds
  <2> QED BY <2>2 DEF Rounds
<1>5. PICK h : h = [i \in 1 .. l + 1 |-> g[l + 1 - i]]
  OBVIOUS
<1>6. h \in [1 .. l + 1 -> Int]
  <2>1. ASSUME NEW i \in 1 .. l + 1 PROVE g[l + 1 - i] \in Int
    <3>1. l + 1 - i \in 0 .. l
      OBVIOUS
    <3> QED BY <1>4, <3>1
  <2> QED BY <1>5, <2>1
<1>7. h[l + 1] = 0
  <2>1. l + 1 \in 1 .. l + 1 /\ l + 1 - (l + 1) = 0
    OBVIOUS
  <2> QED BY <1>4, <1>5, <2>1
<1>8. ASSUME NEW i \in 1 .. l PROVE h[i] = Compared(s, t, i, h[i + 1])
  <2>1. PICK n \in 1 .. l : n = l + 1 - i /\ l + 1 - n = i /\ n - 1 = l + 1 - (i + 1)
    OBVIOUS
  <2>2. h[i] = g[n] /\ h[i + 1] = g[n - 1]
    <3>1. i \in 1 .. l + 1 /\ i + 1 \in 1 .. l + 1
      OBVIOUS
    <3> QED BY <1>5, <2>1, <3>1
  <2>3. g[n - 1] \in Int /\ g[n] = F[n][g[n - 1]]
    BY <1>4
  <2>4. F[n][g[n - 1]] = Compared(s, t, i, g[n - 1])
    BY <1>2, <2>1, <2>3
  <2> QED BY <2>2, <2>3, <2>4
<1> QED BY <1>6, <1>7, <1>8 DEF Falls

(* What they find at the first place is at the first that is not the same. *)
FoundAt(s, t, l, f, j) ==
  /\ \A n \in Nat \ {0} : n < j => Same(s, t, n)
  /\ j <= l => ~Same(s, t, j) /\ f[1] = Num!CharAt(s, j) - Num!CharAt(t, j)
  /\ j > l => f[1] = f[l + 1]

LEMMA ComparisonFinds ==
  ASSUME NEW s, NEW t, Text(s), Text(t), NEW l \in Nat, NEW f,
         \A i \in 1 .. l : f[i] = Compared(s, t, i, f[i + 1])
  PROVE  \E j \in 1 .. l + 1 : FoundAt(s, t, l, f, j)
<1>1. PICK S : S = {n \in Nat : n <= l => \E j \in 1 .. n + 1 : FoundAt(s, t, n, f, j)}
  OBVIOUS
<1>2. 0 \in S
  <2>1. 1 \in 1 .. 0 + 1 /\ FoundAt(s, t, 0, f, 1)
    BY DEF FoundAt
  <2> QED BY <1>1, <2>1
<1>3. ASSUME NEW n \in Nat, n \in S PROVE n + 1 \in S
  <2> SUFFICES ASSUME n + 1 <= l PROVE \E j \in 1 .. (n + 1) + 1 : FoundAt(s, t, n + 1, f, j)
    BY <1>1
  <2>1. PICK j \in 1 .. n + 1 : FoundAt(s, t, n, f, j)
    BY <1>1, <1>3
  <2>2. PICK i \in Nat \ {0} : i = n + 1 /\ i \in 1 .. l
    OBVIOUS
  <2>3. f[i] = Compared(s, t, i, f[i + 1])
    BY <2>2
  <2>4. CASE j <= n
    <3>1. FoundAt(s, t, n + 1, f, j)
      BY <2>1, <2>4 DEF FoundAt
    <3>2. j \in 1 .. (n + 1) + 1
      OBVIOUS
    <3> QED BY <3>1, <3>2
  <2>5. CASE j > n /\ ~Same(s, t, i)
    <3>1. j = i /\ f[1] = f[i] /\ \A m \in Nat \ {0} : m < i => Same(s, t, m)
      BY <2>1, <2>2, <2>5 DEF FoundAt
    <3>2. f[i] = Num!CharAt(s, i) - Num!CharAt(t, i)
      BY <2>3, <2>5, ComparedIs
    <3>3. FoundAt(s, t, i, f, i)
      BY <2>5, <3>1, <3>2 DEF FoundAt
    <3>4. i \in 1 .. (n + 1) + 1
      BY <2>2
    <3> QED BY <2>2, <3>3, <3>4
  <2>6. CASE j > n /\ Same(s, t, i)
    <3>1. j = i /\ f[1] = f[i] /\ \A m \in Nat \ {0} : m < i => Same(s, t, m)
      BY <2>1, <2>2, <2>6 DEF FoundAt
    <3>2. f[i] = f[i + 1]
      BY <2>3, <2>6, ComparedIs
    <3>3. ASSUME NEW m \in Nat \ {0}, m < i + 1 PROVE Same(s, t, m)
      <4>1. m < i \/ m = i
        BY <3>3
      <4> QED BY <2>6, <3>1, <4>1
    <3>4. FoundAt(s, t, i, f, i + 1)
      BY <3>1, <3>2, <3>3 DEF FoundAt
    <3>5. i + 1 \in 1 .. (n + 1) + 1
      BY <2>2
    <3> QED BY <2>2, <3>4, <3>5
  <2>7. j <= n \/ j > n
    OBVIOUS
  <2> QED BY <2>4, <2>5, <2>6, <2>7
<1>4. \A n \in Nat : n \in S
  BY <1>2, <1>3, StepInduction
<1> QED BY <1>1, <1>4

LEMMA StrcmpIs ==
  ASSUME NEW s, NEW t, Text(s), Text(t)
  PROVE  \E j \in Nat \ {0} :
           /\ ~Same(s, t, j) /\ \A n \in Nat \ {0} : n < j => Same(s, t, n)
           /\ Num!strcmp(s, t) = Num!CharAt(s, j) - Num!CharAt(t, j)
<1>1. PICK l \in Nat : l = Len(s)
  BY DEF Text
<1>2. PICK e \in Nat \ {0} : e = l + 1
  OBVIOUS
<1>3. PICK h : Falls(s, t, e, h)
  BY ComparisonExists
<1>4. \A v, w : Compared(s, t, e, v) = Compared(s, t, e, w)
  <2>1. ~Same(s, t, e)
    <3>1. Num!CharAt(s, e) = 0
      BY <1>1, <1>2, CharIs
    <3> QED BY <3>1 DEF Same
  <2> QED BY <2>1, ComparedIs
<1>5. PICK g : g = [i \in 1 .. e |-> h[i]]
  OBVIOUS
<1>6. ASSUME NEW i \in 1 .. e PROVE g[i] = Compared(s, t, i, g[i + 1])
  <2>1. g[i] = h[i] /\ h[i] = Compared(s, t, i, h[i + 1])
    BY <1>3, <1>5 DEF Falls
  <2>2. CASE i = e
    <3>1. Compared(s, t, i, h[i + 1]) = Compared(s, t, i, g[i + 1])
      BY <1>4, <2>2
    <3> QED BY <2>1, <3>1
  <2>3. CASE i # e
    <3>1. i + 1 \in 1 .. e
      BY <2>3
    <3>2. g[i + 1] = h[i + 1]
      BY <1>5, <3>1
    <3> QED BY <2>1, <3>2
  <2> QED BY <2>2, <2>3
<1>7. g = [i \in 1 .. e |-> Compared(s, t, i, g[i + 1])]
  <2>1. g = [i \in 1 .. e |-> g[i]]
    BY <1>5
  <2> QED BY <1>6, <2>1
<1>8. PICK f : f = CHOOSE x : x = [i \in 1 .. Len(s) + 1 |-> Compared(s, t, i, x[i + 1])]
  OBVIOUS
<1>9. f = [i \in 1 .. e |-> Compared(s, t, i, f[i + 1])]
  BY <1>1, <1>2, <1>7, <1>8
<1>10. Num!strcmp(s, t) = f[1]
  BY <1>8 DEF Num!strcmp, Compared
<1>11. \A i \in 1 .. e : f[i] = Compared(s, t, i, f[i + 1])
  BY <1>9
<1>12. PICK j \in 1 .. e + 1 : FoundAt(s, t, e, f, j)
  BY <1>11, ComparisonFinds
<1>13. ~Same(s, t, e)
  <2>1. Num!CharAt(s, e) = 0
    BY <1>1, <1>2, CharIs
  <2> QED BY <2>1 DEF Same
<1>14. j <= e
  <2>1. ASSUME ~(j <= e) PROVE FALSE
    <3>1. e < j
      BY <2>1
    <3> QED BY <1>12, <1>13, <3>1 DEF FoundAt
  <2> QED BY <2>1
<1>15. j \in Nat \ {0}
  OBVIOUS
<1> QED BY <1>10, <1>12, <1>14, <1>15 DEF FoundAt

(* At most l characters are compared. *)
LEMMA StrncmpIs ==
  ASSUME NEW s, NEW t, Text(s), Text(t), NEW l \in Nat
  PROVE  \E j \in 1 .. l + 1 :
           /\ \A n \in Nat \ {0} : n < j => Same(s, t, n)
           /\ j <= l => ~Same(s, t, j)
                        /\ Num!strncmp(s, t, l) = Num!CharAt(s, j) - Num!CharAt(t, j)
           /\ j > l => Num!strncmp(s, t, l) = 0
<1>1. PICK h : Falls(s, t, l, h)
  BY ComparisonExists
<1>2. /\ h \in [1 .. l + 1 -> Int] /\ h[l + 1] = 0
      /\ \A i \in 1 .. l : h[i] = Compared(s, t, i, h[i + 1])
  BY <1>1 DEF Falls
<1>3. h = [i \in 1 .. l + 1 |-> IF i > l THEN 0 ELSE Compared(s, t, i, h[i + 1])]
  <2>1. ASSUME NEW i \in 1 .. l + 1
        PROVE  h[i] = IF i > l THEN 0 ELSE Compared(s, t, i, h[i + 1])
    <3>1. CASE i > l
      <4>1. i = l + 1
        BY <3>1
      <4> QED BY <1>2, <3>1, <4>1
    <3>2. CASE ~(i > l)
      <4>1. i \in 1 .. l
        BY <3>2
      <4> QED BY <1>2, <3>2, <4>1
    <3> QED BY <3>1, <3>2
  <2>2. h = [i \in 1 .. l + 1 |-> h[i]]
    BY <1>2
  <2> QED BY <2>1, <2>2
<1>4. PICK f : f = CHOOSE x : x = [i \in 1 .. l + 1 |->
                 IF i > l THEN 0 ELSE Compared(s, t, i, x[i + 1])]
  OBVIOUS
<1>5. f = [i \in 1 .. l + 1 |-> IF i > l THEN 0 ELSE Compared(s, t, i, f[i + 1])]
  BY <1>3, <1>4
<1>6. Num!strncmp(s, t, l) = f[1]
  BY <1>4 DEF Num!strncmp, Compared
<1>7. ASSUME NEW i \in 1 .. l PROVE f[i] = Compared(s, t, i, f[i + 1])
  <2>1. i \in 1 .. l + 1 /\ ~(i > l)
    OBVIOUS
  <2> QED BY <1>5, <2>1
<1>8. f[l + 1] = 0
  <2>1. l + 1 \in 1 .. l + 1 /\ l + 1 > l
    OBVIOUS
  <2> QED BY <1>5, <2>1
<1>9. PICK j \in 1 .. l + 1 : FoundAt(s, t, l, f, j)
  BY <1>7, ComparisonFinds
<1> QED BY <1>6, <1>8, <1>9 DEF FoundAt

LEMMA ComparesRight ==
  ASSUME Arguments
  PROVE  Num!CompareRight
<1>1. PICK s : s = arg1
  OBVIOUS
<1>2. PICK t : t = arg2
  OBVIOUS
<1>3. Text(s) /\ Text(t)
  BY <1>1, <1>2, ArgumentsAreInts DEF Text
<1>4. PICK l \in Nat : l = Len(s)
  BY <1>3 DEF Text
<1>5. PICK e \in Nat : e = Len(t)
  BY <1>3 DEF Text
<1>6. \A i \in Nat \ {0} : /\ Num!CharAt(s, i) \in Nat /\ Num!CharAt(t, i) \in Nat
                           /\ Num!CharAt(s, i) # 0 <=> i <= l
                           /\ Num!CharAt(t, i) # 0 <=> i <= e
                           /\ i <= l => Num!CharAt(s, i) = s[i]
                           /\ i <= e => Num!CharAt(t, i) = t[i]
  BY <1>3, <1>4, <1>5, CharIs
<1>7. PICK j \in Nat \ {0} :
        /\ ~Same(s, t, j) /\ \A n \in Nat \ {0} : n < j => Same(s, t, n)
        /\ Num!strcmp(s, t) = Num!CharAt(s, j) - Num!CharAt(t, j)
  BY <1>3, StrcmpIs
<1>8. PICK x \in Nat, y \in Nat : x = Num!CharAt(s, j) /\ y = Num!CharAt(t, j)
  BY <1>6
<1>9. ASSUME x = y PROVE s = t
  <2>1. x = 0
    BY <1>7, <1>8, <1>9 DEF Same
  <2>2. ~(j <= l) /\ ~(j <= e)
    BY <1>6, <1>8, <1>9, <2>1
  <2>3. \A n \in Nat \ {0} : n < j => n <= l /\ n <= e /\ s[n] = t[n]
    BY <1>6, <1>7 DEF Same
  <2>4. l = e
    <3>1. ASSUME j # 1 PROVE j - 1 <= l /\ j - 1 <= e
      <4>1. j - 1 \in Nat \ {0} /\ j - 1 < j
        BY <3>1
      <4> QED BY <2>3, <4>1
    <3> QED BY <2>2, <3>1
  <2>5. \A n \in 1 .. l : s[n] = t[n]
    <3>1. ASSUME NEW n \in 1 .. l PROVE n \in Nat \ {0} /\ n < j
      BY <2>2
    <3> QED BY <2>3, <3>1
  <2> QED BY <1>3, <1>4, <1>5, <2>4, <2>5, SeqEqual DEF Text
<1>10. Num!strcmp(s, t) = 0 <=> s = t
  <2>1. ASSUME s = t PROVE x = y
    BY <1>8, <2>1
  <2> QED BY <1>7, <1>8, <1>9, <2>1
<1>11. Num!strcmp(s, t) < 0 <=> Num!strcmp(t, s) > 0
  <2>1. PICK m \in Nat \ {0} :
          /\ ~Same(t, s, m) /\ \A n \in Nat \ {0} : n < m => Same(t, s, n)
          /\ Num!strcmp(t, s) = Num!CharAt(t, m) - Num!CharAt(s, m)
    BY <1>3, StrcmpIs
  <2>2. \A n : Same(s, t, n) <=> Same(t, s, n)
    BY DEF Same
  <2>3. ~(j < m) /\ ~(m < j)
    BY <1>7, <2>1, <2>2
  <2>4. j = m
    BY <2>3
  <2>5. Num!strcmp(s, t) = x - y /\ Num!strcmp(t, s) = y - x
    BY <1>7, <1>8, <2>1, <2>4
  <2> QED BY <2>5
<1>12. Num!strncmp(s, t, l) = 0 <=> Num!IsBeginning(s, t)
  <2>1. PICK m \in 1 .. l + 1 :
          /\ \A n \in Nat \ {0} : n < m => Same(s, t, n)
          /\ m <= l => ~Same(s, t, m)
                       /\ Num!strncmp(s, t, l) = Num!CharAt(s, m) - Num!CharAt(t, m)
          /\ m > l => Num!strncmp(s, t, l) = 0
    BY <1>3, <1>4, StrncmpIs
  <2>2. m \in Nat \ {0}
    OBVIOUS
  <2>3. CASE m <= l
    <3>1. PICK a \in Nat, b \in Nat : a = Num!CharAt(s, m) /\ b = Num!CharAt(t, m)
      BY <1>6, <2>2
    <3>2. a # 0 /\ a # b /\ a = s[m]
      BY <1>6, <2>1, <2>2, <2>3, <3>1 DEF Same
    <3>3. Num!strncmp(s, t, l) = a - b
      BY <2>1, <2>3, <3>1
    <3>4. Num!strncmp(s, t, l) # 0
      BY <3>2, <3>3
    <3>5. ASSUME Num!IsBeginning(s, t) PROVE FALSE
      <4>1. m <= e /\ s[m] = t[m]
        BY <1>4, <1>5, <2>3, <3>5 DEF Num!IsBeginning
      <4>2. b = t[m]
        BY <1>6, <2>2, <3>1, <4>1
      <4> QED BY <3>2, <4>1, <4>2
    <3> QED BY <3>4, <3>5
  <2>4. CASE ~(m <= l)
    <3>1. Num!strncmp(s, t, l) = 0
      BY <2>1, <2>4
    <3>2. ASSUME NEW n \in 1 .. l PROVE n <= e /\ s[n] = t[n]
      <4>1. n \in Nat \ {0} /\ n < m
        BY <2>4
      <4>2. Same(s, t, n)
        BY <2>1, <4>1
      <4> QED BY <1>6, <4>1, <4>2 DEF Same
    <3>3. l <= e
      <4>1. CASE l = 0
        BY <4>1
      <4>2. CASE l # 0
        <5>1. l \in 1 .. l
          BY <4>2
        <5> QED BY <3>2, <5>1
      <4> QED BY <4>1, <4>2
    <3>4. Num!IsBeginning(s, t)
      BY <1>4, <1>5, <3>2, <3>3 DEF Num!IsBeginning
    <3> QED BY <3>1, <3>4
  <2> QED BY <2>3, <2>4
<1> QED BY <1>1, <1>2, <1>4, <1>10, <1>11, <1>12 DEF Num!CompareRight

(* For ints of any width and whatever the user types: itoa and atoi take   *)
(* each other back, every digit of an address is shown, and the            *)
(* comparisons tell equal strings, beginnings and which comes first.       *)
THEOREM ConversionsAlwaysRight == Num!Spec => []ConversionsRight
<1>1. Arguments => ConversionsRight
  BY RoundTrips, HexHolds, ComparesRight DEF ConversionsRight
<1> QED BY <1>1, ArgumentsAlways, PTL

(* math of two numbers shows the exact result in its plain form if an int  *)
(* can hold it, and the panic of a division by zero.                       *)
THEOREM MathAlwaysRight == Num!Spec => MathRight
<1> DEFINE Right ==
      \A op \in Num!Operations :
        Num!cmd_math(op) /\ Num!IsDigits(arg1) /\ Num!IsDigits(arg2)
        /\ Num!Fits(Num!Natural(arg1)) /\ Num!Fits(Num!Natural(arg2)) =>
          IF op = "/" /\ Num!Natural(arg2) = 0 THEN math_shown' = Num!Panic
          ELSE LET r == Num!Exact(op, Num!Natural(arg1), Num!Natural(arg2))
               IN  Num!Fits(r) => Num!Plain(math_shown') /\ Num!Number(math_shown') = r
<1>1. Arguments => Right
  BY MathShows
<1>2. MathRight <=> [][Right]_(Num!vars)
  BY DEF MathRight, Num!MathRight
<1> HIDE DEF Right
<1> QED BY <1>1, <1>2, ArgumentsAlways, PTL
===============================================================================
