----------------------------- MODULE KernelProofs -----------------------------
(***************************************************************************)
(* Interrupts and tasks together, for any memory, any number of slots and  *)
(* stacks of any depth that takes an interrupt: main always comes back as  *)
(* it was interrupted, what it does to the task table is a run of Tasks,   *)
(* and the stacks its interrupts use are nobody's frames.                  *)
(***************************************************************************)
EXTENDS Kernel, TLAPS

TP == INSTANCE TasksProofs WITH Depths <- {48, 56}

-----------------------------------------------------------------------------
(* The tasks of Kernel are those the theorems of TasksProofs are about.    *)

LEMMA Premises == TP!TasksAssumption
BY KernelAssumption DEF TP!TasksAssumption

LEMMA GrantSame == TT!PMM!AllocFrame(ptr') <=> TP!PMM!AllocFrame(ptr')
BY DEF TT!PMM!AllocFrame, TP!PMM!AllocFrame, TT!PMM!FirstClear, TP!PMM!FirstClear,
       TT!PMM!SetBit, TP!PMM!SetBit, TT!PMM!TestBit, TP!PMM!TestBit,
       TT!PMM!FrameIds, TP!PMM!FrameIds, TT!PMM!NFrames, TP!PMM!NFrames,
       TT!PMM!FrameSize, TP!PMM!FrameSize

LEMMA InitSame == TT!Init <=> TP!Init
BY DEF TT!Init, TP!Init, TT!PMM!Init, TP!PMM!Init, TT!PMM!InitBitmap, TP!PMM!InitBitmap,
       TT!PMM!Words, TP!PMM!Words, TT!PMM!Bits, TP!PMM!Bits,
       TT!Ids, TP!Ids, TT!NoTask, TP!NoTask

LEMMA InitMultitaskingSame == TT!InitMultitasking <=> TP!InitMultitasking
BY GrantSame DEF TT!InitMultitasking, TP!InitMultitasking,
                 TT!Ids, TP!Ids, TT!NoTask, TP!NoTask

LEMMA AllocCommandSame == TT!AllocCommand <=> TP!AllocCommand
BY GrantSame DEF TT!AllocCommand, TP!AllocCommand

LEMMA CreateTaskSame == TT!CreateTask <=> TP!CreateTask
BY GrantSame DEF TT!CreateTask, TP!CreateTask, TT!PMM!FrameSize, TP!PMM!FrameSize,
                 TT!FirstFrameBytes, TP!FirstFrameBytes

LEMMA ScheduleSame == ASSUME NEW e PROVE TT!Schedule(e) <=> TP!Schedule(e)
BY DEF TT!Schedule, TP!Schedule, TT!Follows, TP!Follows, TT!Active, TP!Active, TT!Ids, TP!Ids

LEMMA NextSame == TT!Next <=> TP!Next
<1>1. TT!Preempt <=> TP!Preempt
  BY ScheduleSame DEF TT!Preempt, TP!Preempt, TT!StackPages, TP!StackPages, TT!Page, TP!Page,
       TT!Interrupted, TP!Interrupted, TT!PMM!FrameSize, TP!PMM!FrameSize
<1>2. TT!Spawn <=> TP!Spawn
  BY CreateTaskSame DEF TT!Spawn, TP!Spawn
<1> QED BY <1>1, <1>2, InitMultitaskingSame, AllocCommandSame DEF TT!Next, TP!Next

LEMMA VarsSame == TT!taskVars = TP!taskVars /\ TT!taskVars = taskVars
BY DEF TT!taskVars, TP!taskVars, taskVars

LEMMA TypesFollow == TP!StackInv => TT!TypeOK
<1> SUFFICES ASSUME TP!StackInv PROVE TT!TypeOK
  OBVIOUS
<1>1. TP!TypeOK
  BY TP!StackInvSound, Premises DEF TP!StacksSound
<1> QED BY <1>1 DEF TT!TypeOK, TP!TypeOK, TT!Ids, TP!Ids, TT!PMM!TypeOK, TP!PMM!TypeOK,
       TT!PMM!Words, TP!PMM!Words, TT!PMM!Bits, TP!PMM!Bits, TT!PMM!FrameIds, TP!PMM!FrameIds,
       TT!PMM!NFrames, TP!PMM!NFrames, TT!PMM!FrameSize, TP!PMM!FrameSize

LEMMA TypesFollowNext == TP!StackInv' => TT!TypeOK'
<1> SUFFICES ASSUME TP!StackInv' PROVE TT!TypeOK'
  OBVIOUS
<1>1. TP!TypeOK'
  BY TP!StackInvSound, Premises, PTL DEF TP!StacksSound
<1> QED BY <1>1 DEF TT!TypeOK, TP!TypeOK, TT!Ids, TP!Ids, TT!PMM!TypeOK, TP!PMM!TypeOK,
       TT!PMM!Words, TP!PMM!Words, TT!PMM!Bits, TP!PMM!Bits, TT!PMM!FrameIds, TP!PMM!FrameIds,
       TT!PMM!NFrames, TP!PMM!NFrames, TT!PMM!FrameSize, TP!PMM!FrameSize

-----------------------------------------------------------------------------
(* Stacks and the words on them.                                           *)

LEMMA Sizes ==
  /\ Depth \in Nat /\ 14 <= Depth /\ Depth <= 1024
  /\ NWords * WordBits \in Nat \ {0}
  /\ 0 \in Pages /\ PageTop(0) = FrameSize /\ FrameSize = 4096
  /\ NReserved \in Nat \ {0} /\ NReserved - 1 \in Pages /\ PageTop(NReserved - 1) = BootStack
<1>1. NWords * WordBits \in Nat \ {0}
  BY KernelAssumption
<1>2. Depth \in Nat /\ 14 <= Depth /\ Depth <= 1024
  BY KernelAssumption
<1>3. NReserved \in Nat \ {0} /\ NReserved <= NWords * WordBits
  BY KernelAssumption
<1> QED BY <1>1, <1>2, <1>3 DEF Pages, PageTop, FrameSize, BootStack

LEMMA WordsOfPage ==
  ASSUME NEW p \in Pages, NEW k \in 1 .. Depth
  PROVE  PageTop(p) - 4 * k \in StackWords
BY DEF StackWords, Pages, PageTop

(* No two words of the stacks are the same.                                *)
LEMMA WordsDiffer ==
  \A p, q \in Pages, k, n \in 1 .. 1024 :
    PageTop(p) - 4 * k = PageTop(q) - 4 * n => p = q /\ k = n
<1> SUFFICES ASSUME NEW p \in Pages, NEW q \in Pages, NEW k \in 1 .. 1024, NEW n \in 1 .. 1024,
                    PageTop(p) - 4 * k = PageTop(q) - 4 * n
             PROVE  p = q /\ k = n
  OBVIOUS
<1>1. p \in Nat /\ q \in Nat /\ k \in Nat /\ n \in Nat
  BY DEF Pages
<1>2. (p + 1) * 4096 - 4 * k = (q + 1) * 4096 - 4 * n
  BY DEF PageTop, FrameSize
<1> QED BY <1>1, <1>2

LEMMA PushedIs ==
  ASSUME ram \in [StackWords -> Nat], NEW p \in Pages, NEW w \in Seq(Nat), Len(w) <= Depth
  PROVE  /\ Pushed(PageTop(p), w) \in [StackWords -> Nat]
         /\ \A k \in 1 .. Len(w) : Pushed(PageTop(p), w)[PageTop(p) - 4 * k] = w[k]
         /\ \A q \in Pages, k \in 1 .. Depth :
              q # p => Pushed(PageTop(p), w)[PageTop(q) - 4 * k] = ram[PageTop(q) - 4 * k]
<1>1. /\ Len(w) \in Nat /\ \A k \in 1 .. Len(w) : k \in 1 .. 1024 /\ k \in 1 .. Depth
      /\ \A k \in 1 .. Depth : k \in 1 .. 1024
  <2>1. Len(w) \in Nat /\ Depth \in Nat /\ Len(w) <= Depth /\ Depth <= 1024
    BY Sizes
  <2> QED BY <2>1
<1>2. ASSUME NEW a, NEW n \in 1 .. Len(w), a = PageTop(p) - 4 * n
      PROVE  w[CHOOSE k \in 1 .. Len(w) : a = PageTop(p) - 4 * k] = w[n]
  <2>1. PICK c : c = CHOOSE k \in 1 .. Len(w) : a = PageTop(p) - 4 * k
    OBVIOUS
  <2>2. c \in 1 .. Len(w) /\ a = PageTop(p) - 4 * c
    BY <1>2, <2>1, Zenon
  <2>3. c \in 1 .. 1024 /\ n \in 1 .. 1024
    BY <1>1, <1>2, <2>2
  <2>4. c = n
    <3>1. PageTop(p) - 4 * c = PageTop(p) - 4 * n
      BY <1>2, <2>2, Zenon
    <3>2. p \in Nat /\ PageTop(p) \in Nat
      BY DEF Pages, PageTop, FrameSize
    <3> QED BY <2>3, <3>1, <3>2
  <2> QED BY <2>1, <2>4
<1>3. ASSUME NEW a \in StackWords
      PROVE  /\ Pushed(PageTop(p), w)[a] \in Nat
             /\ \A n \in 1 .. Len(w) : a = PageTop(p) - 4 * n => Pushed(PageTop(p), w)[a] = w[n]
             /\ (~\E n \in 1 .. Len(w) : a = PageTop(p) - 4 * n)
                  => Pushed(PageTop(p), w)[a] = ram[a]
  <2>1. Pushed(PageTop(p), w)[a] =
          IF \E k \in 1 .. Len(w) : a = PageTop(p) - 4 * k
          THEN w[CHOOSE k \in 1 .. Len(w) : a = PageTop(p) - 4 * k] ELSE ram[a]
    BY DEF Pushed
  <2>2. CASE \E n \in 1 .. Len(w) : a = PageTop(p) - 4 * n
    <3>1. PICK n \in 1 .. Len(w) : a = PageTop(p) - 4 * n
      BY <2>2
    <3>2. w[n] \in Nat
      OBVIOUS
    <3>3. \A m \in 1 .. Len(w) : a = PageTop(p) - 4 * m => Pushed(PageTop(p), w)[a] = w[m]
      BY <1>2, <2>1, <2>2
    <3> QED BY <2>2, <3>1, <3>2, <3>3
  <2>3. CASE ~\E n \in 1 .. Len(w) : a = PageTop(p) - 4 * n
    BY <2>1, <2>3
  <2> QED BY <2>2, <2>3
<1>4. Pushed(PageTop(p), w) \in [StackWords -> Nat]
  BY <1>3 DEF Pushed
<1>5. ASSUME NEW k \in 1 .. Len(w)
      PROVE  Pushed(PageTop(p), w)[PageTop(p) - 4 * k] = w[k]
  <2>1. k \in 1 .. Depth
    BY <1>1
  <2> QED BY <1>3, <2>1, WordsOfPage
<1>6. ASSUME NEW q \in Pages, NEW k \in 1 .. Depth, q # p
      PROVE  Pushed(PageTop(p), w)[PageTop(q) - 4 * k] = ram[PageTop(q) - 4 * k]
  <2>1. ~\E n \in 1 .. Len(w) : PageTop(q) - 4 * k = PageTop(p) - 4 * n
    <3> SUFFICES ASSUME NEW n \in 1 .. Len(w), PageTop(q) - 4 * k = PageTop(p) - 4 * n PROVE FALSE
      OBVIOUS
    <3>1. n \in 1 .. 1024 /\ k \in 1 .. 1024
      BY <1>1
    <3>2. p \in Nat /\ q \in Nat /\ (q + 1) * 4096 - 4 * k = (p + 1) * 4096 - 4 * n
      BY DEF Pages, PageTop, FrameSize
    <3> QED BY <1>6, <3>1, <3>2
  <2> QED BY <1>3, <2>1, WordsOfPage
<1> QED BY <1>4, <1>5, <1>6

-----------------------------------------------------------------------------
(* What an interrupt pushes.                                               *)

LEMMA EntryWordsAre ==
  ASSUME NEW c \in Cpus, NEW sp \in Nat
  PROVE  /\ EntryWords(c, sp) \in Seq(Nat) /\ Len(EntryWords(c, sp)) <= 14
         /\ c.cs = KernelCode =>
              /\ EntryWords(c, sp) =
                   <<c.eflags, c.cs, c.eip, c.regs[1], c.regs[2], c.regs[3], c.regs[4], sp,
                     c.regs[6], c.regs[7], c.regs[8], c.ds>>
              /\ Len(EntryWords(c, sp)) = 12
         /\ c.cs = UserCode =>
              /\ EntryWords(c, sp) =
                   <<c.ss, sp, c.eflags, c.cs, c.eip, c.regs[1], c.regs[2], c.regs[3], c.regs[4],
                     sp, c.regs[6], c.regs[7], c.regs[8], c.ds>>
              /\ Len(EntryWords(c, sp)) = 14
<1>1. /\ c.ss \in Nat /\ c.eflags \in Nat /\ c.cs \in Nat /\ c.eip \in Nat /\ c.ds \in Nat
      /\ \A k \in 1 .. 8 : c.regs[k] \in Nat
  BY DEF Cpus, KernelCode, UserCode, KernelData, UserData, Flags
<1>2. /\ c.regs[1] \in Nat /\ c.regs[2] \in Nat /\ c.regs[3] \in Nat /\ c.regs[4] \in Nat
      /\ c.regs[6] \in Nat /\ c.regs[7] \in Nat /\ c.regs[8] \in Nat
  BY <1>1
<1>3. CASE c.cs = KernelCode
  BY <1>1, <1>2, <1>3 DEF EntryWords, KernelCode, UserCode
<1>4. CASE c.cs = UserCode
  BY <1>1, <1>2, <1>4 DEF EntryWords, KernelCode, UserCode
<1> QED BY <1>3, <1>4 DEF Cpus

-----------------------------------------------------------------------------
(* What the stub pops again when main was interrupted.                     *)

LEMMA SavedStack ==
  ASSUME MainSaved, esp0 = FrameSize
  PROVE  /\ was.cpu \in Cpus /\ was.esp \in Nat
         /\ \E p \in {0, NReserved - 1} : EntryStack(was.cpu, was.esp) = PageTop(p)
         /\ was.cpu.cs = UserCode => EntryStack(was.cpu, was.esp) = PageTop(0)
<1>1. was.cpu \in Cpus /\ was.esp = BootStack /\ BootStack \in Nat
  BY Sizes DEF MainSaved, MainCpu, BootStack, FrameSize
<1>2. was.cpu.cs \in {KernelCode, UserCode}
  BY <1>1 DEF Cpus
<1>3. EntryStack(was.cpu, was.esp) = IF was.cpu.cs = UserCode THEN PageTop(0) ELSE BootStack
  BY <1>1, <1>2, Sizes DEF EntryStack, KernelCode, UserCode
<1> QED BY <1>1, <1>3, Sizes

LEMMA SavedInRing0 ==
  ASSUME MainSaved, esp0 = FrameSize, was.cpu.cs = KernelCode
  PROVE  /\ esp = BootStack - 48
         /\ Word(esp) = was.cpu.ds /\ Word(esp + 36) = was.cpu.eip
         /\ Word(esp + 40) = was.cpu.cs /\ Word(esp + 44) = was.cpu.eflags
         /\ \A k \in 1 .. 8 : k # 5 => Word(esp + 4 + 4 * (8 - k)) = was.cpu.regs[k]
<1>1. was.cpu \in Cpus /\ was.esp = BootStack /\ BootStack \in Nat
  BY Sizes DEF MainSaved, MainCpu, BootStack, FrameSize
<1>2. PICK w : w = EntryWords(was.cpu, was.esp)
  OBVIOUS
<1>3. /\ w = <<was.cpu.eflags, was.cpu.cs, was.cpu.eip, was.cpu.regs[1], was.cpu.regs[2],
              was.cpu.regs[3], was.cpu.regs[4], was.esp, was.cpu.regs[6], was.cpu.regs[7],
              was.cpu.regs[8], was.cpu.ds>>
      /\ Len(w) = 12
  BY <1>1, <1>2, EntryWordsAre
<1>4. EntryStack(was.cpu, was.esp) = BootStack
  BY <1>1 DEF EntryStack, KernelCode
<1>5. esp = BootStack - 4 * 12 /\ \A k \in 1 .. 12 : Word(BootStack - 4 * k) = w[k]
  BY <1>2, <1>3, <1>4, Zenon DEF MainSaved
<1>6. /\ Word(BootStack - 4 * 1) = was.cpu.eflags /\ Word(BootStack - 4 * 2) = was.cpu.cs
      /\ Word(BootStack - 4 * 3) = was.cpu.eip /\ Word(BootStack - 4 * 4) = was.cpu.regs[1]
      /\ Word(BootStack - 4 * 5) = was.cpu.regs[2] /\ Word(BootStack - 4 * 6) = was.cpu.regs[3]
      /\ Word(BootStack - 4 * 7) = was.cpu.regs[4] /\ Word(BootStack - 4 * 9) = was.cpu.regs[6]
      /\ Word(BootStack - 4 * 10) = was.cpu.regs[7] /\ Word(BootStack - 4 * 11) = was.cpu.regs[8]
      /\ Word(BootStack - 4 * 12) = was.cpu.ds
  BY <1>3, <1>5
<1> QED BY <1>1, <1>5, <1>6

LEMMA SavedInRing3 ==
  ASSUME MainSaved, esp0 = FrameSize, was.cpu.cs = UserCode
  PROVE  /\ esp = PageTop(0) - 56
         /\ Word(esp) = was.cpu.ds /\ Word(esp + 36) = was.cpu.eip
         /\ Word(esp + 40) = was.cpu.cs /\ Word(esp + 44) = was.cpu.eflags
         /\ Word(esp + 48) = was.esp /\ Word(esp + 52) = was.cpu.ss
         /\ \A k \in 1 .. 8 : k # 5 => Word(esp + 4 + 4 * (8 - k)) = was.cpu.regs[k]
<1>1. was.cpu \in Cpus /\ was.esp \in Nat
  BY SavedStack
<1>2. PICK w : w = EntryWords(was.cpu, was.esp)
  OBVIOUS
<1>3. /\ w = <<was.cpu.ss, was.esp, was.cpu.eflags, was.cpu.cs, was.cpu.eip, was.cpu.regs[1],
              was.cpu.regs[2], was.cpu.regs[3], was.cpu.regs[4], was.esp, was.cpu.regs[6],
              was.cpu.regs[7], was.cpu.regs[8], was.cpu.ds>>
  BY <1>1, <1>2, EntryWordsAre
<1>4. PICK t : t = PageTop(0)
  OBVIOUS
<1>5. EntryStack(was.cpu, was.esp) = t /\ Len(w) = 14
  BY <1>1, <1>2, <1>4, SavedStack, EntryWordsAre
<1>6. esp = t - 4 * 14 /\ \A k \in 1 .. 14 : Word(t - 4 * k) = w[k]
  BY <1>2, <1>5, Zenon DEF MainSaved
<1>7. /\ Word(t - 4 * 1) = was.cpu.ss /\ Word(t - 4 * 2) = was.esp
      /\ Word(t - 4 * 3) = was.cpu.eflags /\ Word(t - 4 * 4) = was.cpu.cs
      /\ Word(t - 4 * 5) = was.cpu.eip /\ Word(t - 4 * 6) = was.cpu.regs[1]
      /\ Word(t - 4 * 7) = was.cpu.regs[2] /\ Word(t - 4 * 8) = was.cpu.regs[3]
      /\ Word(t - 4 * 9) = was.cpu.regs[4] /\ Word(t - 4 * 11) = was.cpu.regs[6]
      /\ Word(t - 4 * 12) = was.cpu.regs[7] /\ Word(t - 4 * 13) = was.cpu.regs[8]
      /\ Word(t - 4 * 14) = was.cpu.ds
  BY <1>3, <1>6
<1>8. t \in Nat /\ t = 4096 /\ esp = t - 56
  BY <1>4, <1>6, Sizes
<1> QED BY <1>4, <1>7, <1>8

(* An interrupt of main leaves its stack where schedule takes it to be.    *)
LEMMA SavedAddress ==
  ASSUME MainSaved, esp0 = FrameSize
  PROVE  /\ esp \in Nat
         /\ \/ was.cpu.cs = UserCode /\ esp = PageTop(0) - 56
            \/ was.cpu.cs = KernelCode /\ esp = PageTop(NReserved - 1) - 48
<1>1. was.cpu.cs \in {KernelCode, UserCode}
  BY SavedStack DEF Cpus
<1>2. BootStack \in Nat /\ BootStack >= 4096
  BY Sizes DEF BootStack, FrameSize
<1> QED BY <1>1, <1>2, SavedInRing0, SavedInRing3, Sizes

(* The stub gives main back every register.                                *)
LEMMA ResumeReturns ==
  ASSUME MainSaved, esp0 = FrameSize, Resume
  PROVE  mode' = "run" /\ cpu' = was.cpu /\ esp' = was.esp
<1>1. /\ was.cpu \in Cpus /\ was.cpu.regs[5] = 0 /\ was.esp = BootStack
      /\ was.cpu.cs = KernelCode => was.cpu.ss = KernelData
  BY DEF MainSaved, MainCpu
<1>2. PICK c : c = was.cpu
  OBVIOUS
<1>3. /\ Word(esp) = c.ds /\ Word(esp + 36) = c.eip
      /\ Word(esp + 40) = c.cs /\ Word(esp + 44) = c.eflags
      /\ \A k \in 1 .. 8 : k # 5 => Word(esp + 4 + 4 * (8 - k)) = c.regs[k]
      /\ c.cs = KernelCode => esp = BootStack - 48
      /\ c.cs = UserCode => Word(esp + 48) = was.esp /\ Word(esp + 52) = c.ss
  BY <1>1, <1>2, SavedInRing0, SavedInRing3 DEF Cpus
<1>4. c.cs \in {KernelCode, UserCode} /\ c.ds \in {0, KernelData, UserData}
  BY <1>1, <1>2 DEF Cpus
<1>5. Popa(esp + 4) = c.regs
  BY <1>1, <1>2, <1>3 DEF Popa, Cpus
<1>6. /\ mode' = "run"
      /\ cpu' = [ds |-> c.ds, regs |-> c.regs, eip |-> c.eip, cs |-> c.cs, eflags |-> c.eflags,
                 ss |-> IF c.cs % 4 = 3 THEN Word(esp + 52) ELSE KernelData]
      /\ esp' = IF c.cs % 4 = 3 THEN Word(esp + 48) ELSE esp + 48
  BY <1>3, <1>4, <1>5 DEF Resume
<1>7. (IF c.cs % 4 = 3 THEN Word(esp + 52) ELSE KernelData) = c.ss
  BY <1>1, <1>2, <1>3, <1>4 DEF KernelCode, UserCode
<1>8. esp' = was.esp
  BY <1>1, <1>3, <1>4, <1>6, Sizes DEF KernelCode, UserCode, BootStack, FrameSize
<1>9. cpu' = c
  <2>1. cpu' = [ds |-> c.ds, regs |-> c.regs, eip |-> c.eip, cs |-> c.cs, eflags |-> c.eflags,
                ss |-> c.ss]
    BY <1>6, <1>7
  <2> QED BY <1>1, <1>2, <2>1 DEF Cpus
<1> QED BY <1>2, <1>6, <1>8, <1>9

-----------------------------------------------------------------------------
(* The invariant: that of the tasks, and KernelInv.                        *)
IInv == TP!StackInv /\ KernelInv

LEMMA TaskStep ==
  ASSUME TP!StackInv, TT!Next \/ UNCHANGED taskVars
  PROVE  TP!StackInv' /\ TT!TypeOK'
<1>1. [TP!Next]_(TP!taskVars)
  BY NextSame, VarsSame DEF TP!taskVars, taskVars
<1>2. TP!StackInv'
  BY <1>1, TP!StackStep, Premises
<1> QED BY <1>2, TypesFollowNext

(* What the types of the tasks say, in numbers.                            *)
TableShape ==
  /\ task_count \in Nat /\ task_count <= MaxTask /\ current_task \in 0 .. MaxTask - 1
  /\ MaxTask \in Nat \ {0}
  /\ tasks \in [0 .. MaxTask - 1 -> [esp : Nat, id : Nat, active : 0 .. 1]]
  /\ \E b \in Pages : ptr = b * FrameSize

LEMMA Shape == TT!TypeOK => TableShape
<1> SUFFICES ASSUME TT!TypeOK PROVE TableShape
  OBVIOUS
<1>1. MaxTask \in Nat \ {0} /\ NWords * WordBits \in Nat
  BY KernelAssumption
<1>2. task_count \in Nat /\ task_count <= MaxTask /\ current_task \in 0 .. MaxTask - 1
  BY <1>1 DEF TT!TypeOK, TT!Ids
<1>3. tasks \in [0 .. MaxTask - 1 -> [esp : Nat, id : Nat, active : 0 .. 1]]
  <2>1. PICK B : B = TT!PMM!NFrames * TT!PMM!FrameSize
    OBVIOUS
  <2>2. B \in Nat
    BY <1>1, <2>1 DEF TT!PMM!NFrames, TT!PMM!FrameSize
  <2>3. tasks \in [0 .. MaxTask - 1 -> [esp : 0 .. B, id : 0 .. MaxTask - 1, active : 0 .. 1]]
    BY <2>1 DEF TT!TypeOK, TT!Ids
  <2>4. 0 .. B \subseteq Nat /\ 0 .. MaxTask - 1 \subseteq Nat
    BY <1>1, <2>2
  <2> QED BY <2>3, <2>4
<1>4. \E b \in Pages : ptr = b * FrameSize
  BY DEF TT!TypeOK, TT!PMM!TypeOK, TT!PMM!FrameIds, TT!PMM!NFrames, TT!PMM!FrameSize,
         Pages, FrameSize
<1> QED BY <1>1, <1>2, <1>3, <1>4 DEF TableShape

LEMMA ShapeNext == TT!TypeOK' => TableShape'
BY Shape, PTL

(* Stack pointers in a page are addresses.                                 *)
LEMMA BelowTop ==
  \A p \in Pages :
    /\ PageTop(p) \in Nat /\ PageTop(p) >= 4096
    /\ \A a \in Nat : a <= PageTop(p) => a \in Addresses
<1> SUFFICES ASSUME NEW p \in Pages, NEW a \in Nat
             PROVE  /\ PageTop(p) \in Nat /\ PageTop(p) >= 4096
                    /\ a <= PageTop(p) => a \in Addresses
  OBVIOUS
<1>1. p \in Nat /\ p + 1 <= NWords * WordBits /\ NWords * WordBits \in Nat
  BY Sizes DEF Pages
<1>2. (p + 1) * 4096 <= (NWords * WordBits) * 4096
  BY <1>1
<1> QED BY <1>1, <1>2 DEF PageTop, FrameSize, Addresses

LEMMA InvInit == Init => IInv
<1> SUFFICES ASSUME Init PROVE IInv
  OBVIOUS
<1>1. TP!StackInv
  BY InitSame, TP!StackInit, Premises DEF Init
<1>2. TT!TypeOK /\ task_count = 0 /\ current_task = 0
  BY <1>1, TypesFollow DEF Init, TT!Init
<1>3. BootStack \in Addresses /\ 0 \in Addresses
  <2>1. NReserved \in Nat /\ NWords * WordBits \in Nat /\ NReserved <= NWords * WordBits
    BY KernelAssumption
  <2>2. NReserved * 4096 <= (NWords * WordBits) * 4096
    BY <2>1
  <2> QED BY <2>1, <2>2 DEF Addresses, BootStack, FrameSize
<1>4. (CHOOSE e \in MainCode : TRUE) \in Nat
  <2>1. PICK e : e = CHOOSE x \in MainCode : TRUE
    OBVIOUS
  <2>2. e \in MainCode
    BY <2>1, Zenon DEF MainCode
  <2> QED BY <2>1, <2>2 DEF MainCode
<1>5. MainCpu(StartCpu)
  BY <1>4 DEF MainCpu, StartCpu, Cpus, KernelCode, UserCode, KernelData, UserData, Flags
<1>6. TypeOK
  BY <1>2, <1>3, <1>5 DEF Init, TypeOK, FrameSize, MainCpu
<1>7. ModeInv
  BY <1>2, <1>5 DEF Init, ModeInv
<1>8. FreshStacks
  <2>1. \A a \in StackWords : ram[a] = 0
    BY DEF Init
  <2>2. ASSUME NEW p \in Pages PROVE ram[PageTop(p) - 4] \notin Codes
    <3>1. PageTop(p) - 4 = PageTop(p) - 4 * 1 /\ 1 \in 1 .. Depth
      BY Sizes
    <3> QED BY <2>1, <3>1, WordsOfPage DEF Codes, KernelCode, UserCode
  <2> QED BY <1>2, <2>2 DEF FreshStacks
<1> QED BY <1>1, <1>6, <1>7, <1>8 DEF IInv, KernelInv

-----------------------------------------------------------------------------
(* Each step keeps it, and maps to a step of Tasks or to none.             *)

(* The heap stays one block, wherever it is.                               *)
Blocks == [at : Addresses, size : 0 .. FrameSize, free : BOOLEAN]

LEMMA BlockStays ==
  ASSUME NEW h \in Blocks, NEW n \in Nat
  PROVE  KMalloc(h, n) \in Blocks /\ KMallocResult(h, n) \in Nat
<1>1. PICK f \in BOOLEAN : f = (h.free /\ h.size < n)
  BY DEF Blocks
<1>2. PICK g : g = [h EXCEPT !.free = f]
  OBVIOUS
<1>3. g \in Blocks
  BY <1>1, <1>2 DEF Blocks
<1>4. KMalloc(h, n) = g
  BY <1>1, <1>2 DEF KMalloc
<1>5. h.at \in Nat /\ h.at + 12 \in Nat
  BY DEF Blocks, Addresses
<1> QED BY <1>3, <1>4, <1>5 DEF KMallocResult

LEMMA BootKeeps == ASSUME IInv, Boot PROVE IInv' /\ TT!Next
<1>1. /\ mode = "boot" /\ TT!InitMultitasking /\ mode' = "run"
      /\ heap' = KMalloc(InitHeap(ptr'), 4096)
      /\ esp0' = KMallocResult(InitHeap(ptr'), 4096) + 4096
      /\ cpu' = [cpu EXCEPT !.eflags = Flags] /\ UNCHANGED <<ram, esp, was>>
  BY DEF Boot
<1>2. TT!Next
  BY <1>1 DEF TT!Next
<1>3. TP!StackInv' /\ TT!TypeOK' /\ TableShape'
  BY <1>2, TaskStep, ShapeNext DEF IInv
<1>4. task_count' = 1 /\ current_task' = 0
  BY <1>1 DEF TT!InitMultitasking
<1>5. PICK b \in Pages : ptr' = b * FrameSize
  BY <1>3 DEF TableShape
<1>6. ptr' \in Addresses
  <2>1. b \in Nat /\ b <= NWords * WordBits /\ NWords * WordBits \in Nat
    BY Sizes DEF Pages
  <2>2. b * 4096 <= (NWords * WordBits) * 4096
    BY <2>1
  <2> QED BY <1>5, <2>1, <2>2 DEF Addresses, FrameSize
<1>7. heap' \in [at : Addresses, size : 0 .. FrameSize, free : BOOLEAN]
  <2>1. InitHeap(ptr') \in Blocks
    BY <1>6 DEF InitHeap, Blocks, FrameSize
  <2> QED BY <1>1, <2>1, BlockStays DEF Blocks
<1>8. esp0' = FrameSize
  BY <1>1 DEF KMallocResult, InitHeap, FrameSize
<1>9. esp0' \in Addresses
  <2>1. FrameSize = PageTop(0) /\ PageTop(0) = 4096 /\ NWords * WordBits >= 1
        /\ NWords * WordBits \in Nat
    BY Sizes
  <2> QED BY <1>8, <2>1 DEF Addresses, FrameSize
<1>10. MainCpu(cpu') /\ esp' = BootStack
  <2>1. MainCpu(cpu) /\ esp = BootStack
    BY <1>1 DEF IInv, KernelInv, ModeInv
  <2> QED BY <1>1, <2>1 DEF MainCpu, Cpus
<1>11. TypeOK'
  BY <1>1, <1>3, <1>7, <1>9, <1>10 DEF IInv, KernelInv, TypeOK, MainCpu
<1>12. ModeInv'
  BY <1>1, <1>4, <1>8, <1>10 DEF ModeInv
<1>13. FreshStacks'
  BY <1>1, <1>4 DEF IInv, KernelInv, FreshStacks
<1> QED BY <1>2, <1>3, <1>11, <1>12, <1>13 DEF IInv, KernelInv

LEMMA RunKeeps ==
  ASSUME IInv, SwitchToUserMode \/ Work
  PROVE  IInv' /\ UNCHANGED taskVars
<1>1. mode = "run" /\ UNCHANGED <<taskVars, heap, esp0, ram, esp, mode, was>>
  BY DEF SwitchToUserMode, Work
<1>2. TP!StackInv' /\ TT!TypeOK'
  BY <1>1, TaskStep DEF IInv
<1>3. UNCHANGED <<memory_bitmap, held, ptr, tasks, current_task, task_count, resumed, others>>
  BY <1>1 DEF taskVars
<1>4. MainCpu(cpu) /\ current_task = 0 /\ esp = BootStack /\ task_count > 0 /\ esp0 = FrameSize
  BY <1>1 DEF IInv, KernelInv, ModeInv
<1>5. MainCpu(cpu')
  <2>1. CASE SwitchToUserMode
    <3>1. cpu' = [cpu EXCEPT !.cs = UserCode, !.ss = UserData, !.ds = UserData, !.eflags = Flags]
      BY <2>1 DEF SwitchToUserMode
    <3>2. cpu'.cs = UserCode /\ cpu'.regs = cpu.regs
      BY <1>4, <3>1 DEF MainCpu, Cpus
    <3>3. cpu' \in Cpus
      BY <1>4, <3>1 DEF MainCpu, Cpus
    <3> QED BY <1>4, <3>2, <3>3 DEF MainCpu, KernelCode, UserCode
  <2>2. CASE Work
    <3>1. PICK e : e = CHOOSE x \in MainCode : x # cpu.eip
      OBVIOUS
    <3>2. \E x \in MainCode : x # cpu.eip
      BY DEF MainCode
    <3>3. e \in MainCode
      BY <3>1, <3>2, Zenon
    <3>4. e \in Nat /\ cpu' = [cpu EXCEPT !.eip = e]
      BY <2>2, <3>1, <3>3 DEF Work, MainCode
    <3> QED BY <1>4, <3>4 DEF MainCpu, Cpus
  <2> QED BY <2>1, <2>2
<1>6. TypeOK'
  BY <1>1, <1>2, <1>5 DEF IInv, KernelInv, TypeOK, MainCpu
<1>7. ModeInv'
  BY <1>1, <1>3, <1>4, <1>5 DEF ModeInv
<1>8. FreshStacks'
  BY <1>1, <1>3 DEF IInv, KernelInv, FreshStacks, FreshAt
<1> QED BY <1>1, <1>2, <1>6, <1>7, <1>8 DEF IInv, KernelInv

(* The first word pushed is never one of a code segment.                   *)
LEMMA TopWordNext ==
  ASSUME FreshStacks, ram \in [StackWords -> Nat], NEW p \in Pages, NEW w \in Seq(Nat),
         1 \in 1 .. Len(w), Len(w) <= Depth, w[1] \notin Codes, ram' = Pushed(PageTop(p), w)
  PROVE  /\ ram' \in [StackWords -> Nat]
         /\ \A q \in Pages : ram'[PageTop(q) - 4] \notin Codes
<1>1. 1 \in 1 .. Depth
  BY Sizes
<1>2. /\ ram' \in [StackWords -> Nat]
      /\ \A k \in 1 .. Len(w) : ram'[PageTop(p) - 4 * k] = w[k]
      /\ \A q \in Pages, k \in 1 .. Depth :
           q # p => ram'[PageTop(q) - 4 * k] = ram[PageTop(q) - 4 * k]
  BY <1>1, PushedIs
<1>3. ASSUME NEW q \in Pages PROVE ram'[PageTop(q) - 4] \notin Codes
  <2>1. PageTop(q) - 4 * 1 = PageTop(q) - 4
    OBVIOUS
  <2>2. CASE q = p
    <3>1. ram'[PageTop(p) - 4 * 1] = w[1]
      BY <1>1, <1>2, Zenon
    <3> QED BY <2>1, <2>2, <3>1
  <2>3. CASE q # p
    <3>1. ram'[PageTop(q) - 4 * 1] = ram[PageTop(q) - 4 * 1]
      BY <1>1, <1>2, <2>3, Zenon
    <3> QED BY <2>1, <3>1 DEF FreshStacks
  <2> QED BY <2>2, <2>3
<1> QED BY <1>2, <1>3

LEMMA InterruptKeeps ==
  ASSUME IInv, NEW irq \in {"timer", "keyboard"}, Interrupt(irq)
  PROVE  IInv' /\ UNCHANGED taskVars
<1>1. /\ mode = "run" /\ UNCHANGED <<taskVars, heap, esp0>>
      /\ ram' = Pushed(EntryStack(cpu, esp), EntryWords(cpu, esp))
      /\ esp' = EntryStack(cpu, esp) - 4 * Len(EntryWords(cpu, esp))
      /\ cpu' = [cpu EXCEPT !.eip = HandlerCode, !.cs = KernelCode, !.ss = KernelData,
                            !.ds = KernelData, !.eflags = 2, !.regs = [k \in 1 .. 8 |-> 0]]
      /\ mode' = irq /\ was' = [cpu |-> cpu, esp |-> esp, irq |-> irq] /\ cpu.eflags = Flags
  BY DEF Interrupt
<1>2. TP!StackInv' /\ TT!TypeOK'
  BY <1>1, TaskStep DEF IInv
<1>3. UNCHANGED <<memory_bitmap, held, ptr, tasks, current_task, task_count, resumed, others>>
  BY <1>1 DEF taskVars
<1>4. MainCpu(cpu) /\ current_task = 0 /\ esp = BootStack /\ task_count > 0 /\ esp0 = FrameSize
  BY <1>1 DEF IInv, KernelInv, ModeInv
<1>5. cpu \in Cpus /\ esp \in Nat
  BY <1>4, Sizes DEF MainCpu, BootStack, FrameSize
<1>6. PICK w : w = EntryWords(cpu, esp)
  OBVIOUS
<1>7. PICK p \in {0, NReserved - 1} : EntryStack(cpu, esp) = PageTop(p)
  BY <1>4, Sizes DEF EntryStack
<1>8. PICK n \in 1 .. 14 : Len(w) = n /\ w \in Seq(Nat) /\ w[1] \notin Codes
  <2>1. CASE cpu.cs = KernelCode
    <3>1. w \in Seq(Nat) /\ Len(w) = 12
      BY <1>5, <1>6, <2>1, EntryWordsAre
    <3>2. w[1] = cpu.eflags
      BY <1>5, <1>6, <2>1, EntryWordsAre
    <3> QED BY <1>1, <3>1, <3>2 DEF Codes, KernelCode, UserCode, Flags
  <2>2. CASE cpu.cs = UserCode
    <3>1. w \in Seq(Nat) /\ Len(w) = 14
      BY <1>5, <1>6, <2>2, EntryWordsAre
    <3>2. w[1] = cpu.ss
      BY <1>5, <1>6, <2>2, EntryWordsAre
    <3>3. cpu.ss \in {KernelData, UserData}
      BY <1>5 DEF Cpus
    <3> QED BY <3>1, <3>2, <3>3 DEF Codes, KernelCode, UserCode, KernelData, UserData
  <2> QED BY <1>5, <2>1, <2>2 DEF Cpus
<1>19. n \in Nat /\ 1 \in 1 .. n /\ n <= Depth /\ 1 .. n \subseteq 1 .. Depth /\ 4 * n \in 0 .. 4096
  BY <1>8, Sizes
<1>9. p \in Pages /\ ram' = Pushed(PageTop(p), w) /\ ram \in [StackWords -> Nat] /\ FreshStacks
  <2>1. p \in Pages
    BY <1>7, Sizes
  <2>2. ram' = Pushed(PageTop(p), w)
    BY <1>1, <1>6, <1>7
  <2>3. ram \in [StackWords -> Nat] /\ FreshStacks
    BY DEF IInv, KernelInv, TypeOK
  <2> QED BY <2>1, <2>2, <2>3
<1>10. /\ ram' \in [StackWords -> Nat]
       /\ \A q \in Pages : ram'[PageTop(q) - 4] \notin Codes
  <2>1. 1 \in 1 .. Len(w) /\ Len(w) <= Depth
    <3>1. Len(w) = n
      BY <1>8
    <3> QED BY <1>19, <3>1
  <2>2. w \in Seq(Nat) /\ w[1] \notin Codes
    BY <1>8
  <2> QED BY <1>9, <2>1, <2>2, TopWordNext
<1>11. FreshStacks'
  BY <1>3, <1>9, <1>10 DEF FreshStacks, FreshAt
<1>12. cpu' \in Cpus
  <2>1. PICK z : z = [k \in 1 .. 8 |-> 0]
    OBVIOUS
  <2>2. z \in [1 .. 8 -> Nat]
    BY <2>1
  <2>3. cpu' = [cpu EXCEPT !.eip = HandlerCode, !.cs = KernelCode, !.ss = KernelData,
                           !.ds = KernelData, !.eflags = 2, !.regs = z]
    BY <1>1, <2>1
  <2>4. cpu' = [eip |-> HandlerCode, cs |-> KernelCode, ss |-> KernelData, ds |-> KernelData,
                eflags |-> 2, regs |-> z]
    BY <1>5, <2>3 DEF Cpus
  <2> QED BY <2>2, <2>4 DEF Cpus, HandlerCode
<1>13. esp' \in Addresses
  <2>1. esp' = PageTop(p) - 4 * n
    BY <1>1, <1>6, <1>7, <1>8, Zenon
  <2>2. PageTop(p) \in Nat /\ PageTop(p) >= 4096
    BY <1>9, BelowTop
  <2>3. esp' \in Nat /\ esp' <= PageTop(p)
    BY <2>1, <2>2
  <2> QED BY <1>9, <2>3, BelowTop
<1>14. TypeOK'
  BY <1>1, <1>2, <1>10, <1>12, <1>13 DEF IInv, KernelInv, TypeOK
<1>15. MainSaved'
  <2>1. was'.cpu = cpu /\ was'.esp = esp /\ was'.irq = irq /\ esp0' = esp0
    BY <1>1
  <2>2. ASSUME NEW k \in 1 .. Len(w) PROVE Word(PageTop(p) - 4 * k)' = w[k]
    <3>1. k \in 1 .. Depth /\ Len(w) <= Depth
      <4>1. Len(w) = n
        BY <1>8
      <4>2. k \in 1 .. n /\ Len(w) <= Depth
        BY <1>19, <4>1
      <4> QED BY <1>19, <4>2
    <3>2. PageTop(p) - 4 * k \in StackWords
      BY <1>9, <3>1, WordsOfPage
    <3>3. ram'[PageTop(p) - 4 * k] = w[k]
      BY <1>8, <1>9, <3>1, PushedIs, Zenon
    <3> QED BY <3>2, <3>3 DEF Word
  <2>3. EntryStack(was.cpu, was.esp)' = PageTop(p) /\ EntryWords(was.cpu, was.esp)' = w
    BY <1>6, <1>7, <2>1 DEF EntryStack, EntryWords
  <2> QED BY <1>1, <1>3, <1>4, <1>6, <1>7, <2>1, <2>2, <2>3 DEF MainSaved
<1>16. ModeInv'
  <2>1. was'.irq = mode'
    BY <1>1
  <2> QED BY <1>1, <1>3, <1>4, <1>15, <2>1 DEF ModeInv
<1> QED BY <1>1, <1>2, <1>11, <1>14, <1>16 DEF IInv, KernelInv

(* schedule leaves main where it is, or takes a task that has not run yet. *)
LEMMA TimerKeeps == ASSUME IInv, TimerHandler PROVE IInv' /\ TT!Next
<1>1. /\ mode = "timer" /\ TT!Schedule(esp) /\ esp' = resumed' /\ mode' = "resume"
      /\ UNCHANGED <<heap, esp0, ram, cpu, was>>
  BY DEF TimerHandler
<1>2. MainSaved /\ was.irq = "timer" /\ task_count > 0 /\ esp0 = FrameSize /\ current_task = 0
  BY <1>1 DEF IInv, KernelInv, ModeInv, MainSaved
<1>3. TT!Preempt
  <2>1. \/ esp = PageTop(0) - 56
        \/ esp = PageTop(NReserved - 1) - 48
    BY <1>2, SavedAddress
  <2>2. 0 \in 0 .. NReserved - 1 /\ NReserved - 1 \in 0 .. NReserved - 1
    BY Sizes
  <2>3. \E p \in TT!StackPages, d \in {48, 56} : esp = TT!Interrupted(p, d)
    BY <1>2, <2>1, <2>2 DEF TT!StackPages, TT!Interrupted, TT!PMM!FrameSize, PageTop, FrameSize
  <2> QED BY <1>1, <1>2, <2>3 DEF TT!Preempt
<1>4. TT!Next
  BY <1>3 DEF TT!Next
<1>5. TP!StackInv' /\ TT!TypeOK'
  BY <1>4, TaskStep DEF IInv
<1>6. TableShape
  BY Shape DEF IInv, KernelInv, TypeOK
<1>7. task_count' = task_count
  BY <1>1 DEF TT!Schedule
<1>8. CASE task_count <= 1
  <2>1. UNCHANGED <<tasks, current_task>> /\ esp' = esp /\ task_count = 1
    BY <1>1, <1>2, <1>6, <1>8 DEF TT!Schedule, TableShape
  <2>2. MainSaved'
    BY <1>1, <1>2, <2>1 DEF MainSaved, EntryStack, Word
  <2>3. TypeOK'
    BY <1>1, <1>5, <2>1 DEF IInv, KernelInv, TypeOK
  <2>4. ModeInv'
    BY <1>1, <1>2, <1>7, <2>2 DEF ModeInv
  <2>5. FreshStacks'
    BY <1>1, <1>7, <2>1 DEF IInv, KernelInv, FreshStacks, FreshAt
  <2> QED BY <1>4, <1>5, <2>3, <2>4, <2>5 DEF IInv, KernelInv
<1>9. CASE ~(task_count <= 1)
  <2>1. PICK j \in 0 .. MaxTask - 1 :
          /\ TT!Follows(0, j) /\ tasks' = [tasks EXCEPT ![0].esp = esp]
          /\ current_task' = j /\ resumed' = tasks'[j].esp
    BY <1>1, <1>2, <1>9 DEF TT!Schedule, TT!Ids
  <2>2. j \in 1 .. task_count - 1
    <3>1. \A i \in 0 .. MaxTask - 1 : TT!Active(i) <=> i < task_count
      BY DEF IInv, TP!StackInv, TP!TableInv, TP!TableSound, TP!Active, TT!Active, TP!Ids
    <3>2. TT!Active(j) /\ j < task_count
      BY <2>1, <3>1 DEF TT!Follows
    <3>3. j # 0
      <4> SUFFICES ASSUME j = 0 PROVE FALSE
        OBVIOUS
      <4>1. PICK n \in 1 .. MaxTask :
              0 = (0 + n) % MaxTask /\ \A m \in 1 .. n - 1 : ~TT!Active((0 + m) % MaxTask)
        BY <2>1 DEF TT!Follows
      <4>2. MaxTask \in Nat /\ 2 <= MaxTask /\ task_count \in Nat
        BY <1>6, <1>9 DEF TableShape
      <4>3. n = MaxTask
        BY <4>1, <4>2
      <4>4. 1 \in 1 .. n - 1 /\ (0 + 1) % MaxTask = 1
        BY <4>2, <4>3
      <4>5. ~TT!Active(1)
        BY <4>1, <4>4
      <4> QED BY <1>9, <3>1, <4>2, <4>5
    <3> QED BY <1>6, <3>2, <3>3 DEF TableShape
  <2>3. /\ tasks'[j].esp = tasks[j].esp
        /\ \A i \in 1 .. task_count - 1 : tasks'[i].esp = tasks[i].esp
    BY <1>6, <2>1, <2>2 DEF TableShape
  <2>4. PICK p \in Pages : esp' = PageTop(p) - 44
    BY <1>1, <1>2, <2>1, <2>2, <2>3 DEF IInv, KernelInv, FreshStacks, FreshAt
  <2>5. esp' \in Addresses
    <3>1. PageTop(p) \in Nat /\ PageTop(p) >= 4096
      BY BelowTop
    <3>2. esp' \in Nat /\ esp' <= PageTop(p)
      BY <2>4, <3>1
    <3> QED BY <3>2, BelowTop
  <2>6. TypeOK'
    BY <1>1, <1>5, <2>5 DEF IInv, KernelInv, TypeOK
  <2>7. Word(esp + 40)' \notin Codes
    <3>1. esp' + 40 = PageTop(p) - 4 /\ PageTop(p) - 4 = PageTop(p) - 4 * 1 /\ 1 \in 1 .. Depth
      <4>1. p \in Nat /\ PageTop(p) = (p + 1) * 4096 /\ Depth \in Nat /\ 14 <= Depth
        BY Sizes DEF Pages, PageTop, FrameSize
      <4> QED BY <2>4, <4>1
    <3>2. PageTop(p) - 4 \in StackWords
      BY <3>1, WordsOfPage
    <3>3. ram'[PageTop(p) - 4] \notin Codes
      BY <1>1 DEF IInv, KernelInv, FreshStacks
    <3> QED BY <3>1, <3>2, <3>3 DEF Word
  <2>8. ~(FramesSufficed /\ (was.irq = "keyboard" \/ task_count = 1))'
    BY <1>1, <1>2, <1>6, <1>7, <1>9 DEF TableShape
  <2>9. ModeInv'
    BY <1>1, <1>2, <1>7, <2>7, <2>8 DEF ModeInv
  <2>10. FreshStacks'
    BY <1>1, <1>2, <1>7, <2>3 DEF IInv, KernelInv, FreshStacks, FreshAt
  <2> QED BY <1>4, <1>5, <2>6, <2>9, <2>10 DEF IInv, KernelInv
<1> QED BY <1>8, <1>9

(* What the stub resumes is main as it was, or nothing.                    *)
LEMMA ResumeKeeps ==
  ASSUME IInv, Resume
  PROVE  /\ IInv' /\ UNCHANGED taskVars
         /\ FramesSufficed /\ (was.irq = "keyboard" \/ task_count = 1) =>
              mode' = "run" /\ cpu' = was.cpu /\ esp' = was.esp
<1>1. mode = "resume" /\ UNCHANGED <<taskVars, heap, esp0, ram, was>>
  BY DEF Resume
<1>2. TP!StackInv' /\ TT!TypeOK'
  BY <1>1, TaskStep DEF IInv
<1>3. UNCHANGED <<memory_bitmap, held, ptr, tasks, current_task, task_count, resumed, others>>
  BY <1>1 DEF taskVars
<1>4. task_count > 0 /\ esp0 = FrameSize
  BY <1>1 DEF IInv, KernelInv, ModeInv
<1>5. FreshStacks'
  BY <1>1, <1>3 DEF IInv, KernelInv, FreshStacks, FreshAt
<1>6. CASE MainSaved
  <2>1. mode' = "run" /\ cpu' = was.cpu /\ esp' = was.esp
    BY <1>4, <1>6, ResumeReturns
  <2>2. MainCpu(cpu') /\ esp' = BootStack /\ current_task' = 0
    BY <1>3, <1>6, <2>1 DEF MainSaved
  <2>3. esp' \in Addresses
    <3>1. BootStack = PageTop(NReserved - 1) /\ NReserved - 1 \in Pages
      BY Sizes
    <3> QED BY <2>2, <3>1, BelowTop
  <2>4. TypeOK'
    BY <1>1, <1>2, <2>1, <2>2, <2>3 DEF IInv, KernelInv, TypeOK, MainCpu
  <2>5. ModeInv'
    BY <1>1, <1>3, <1>4, <2>1, <2>2 DEF ModeInv
  <2> QED BY <1>1, <1>2, <1>5, <2>1, <2>4, <2>5 DEF IInv, KernelInv
<1>7. CASE ~MainSaved
  <2>1. /\ Word(esp + 40) \notin Codes
        /\ ~(FramesSufficed /\ (was.irq = "keyboard" \/ task_count = 1))
    BY <1>1, <1>7 DEF IInv, KernelInv, ModeInv
  <2>2. mode' = "fault" /\ UNCHANGED <<cpu, esp>>
    BY <2>1 DEF Resume, Codes
  <2>3. TypeOK'
    BY <1>1, <1>2, <2>2 DEF IInv, KernelInv, TypeOK
  <2>4. ModeInv'
    BY <1>1, <1>3, <1>4, <2>2 DEF ModeInv
  <2> QED BY <1>1, <1>2, <1>5, <2>1, <2>3, <2>4 DEF IInv, KernelInv
<1> QED BY <1>6, <1>7

(* The frame of a new task puts no code segment where iretd finds it.      *)
LEMMA FirstFrameIs ==
  ASSUME NEW code \in Nat
  PROVE  \E w \in Seq(Nat) :
           /\ w = FirstFrame(code) /\ 1 \in 1 .. Len(w) /\ 4 \in 1 .. Len(w) /\ Len(w) <= Depth
           /\ w[1] \notin Codes /\ w[4] \notin Codes
<1>1. PICK w : w = <<Flags, KernelCode, code, 0, 0, 0, 0, 0, 0, 0, 0>>
  OBVIOUS
<1>2. w = FirstFrame(code)
  BY <1>1 DEF FirstFrame
<1>3. w \in Seq(Nat) /\ w[1] = Flags /\ w[4] = 0
  BY <1>1 DEF Flags, KernelCode
<1>4. Len(w) = 11
  BY <1>1
<1>5. 1 \in 1 .. Len(w) /\ 4 \in 1 .. Len(w) /\ Len(w) <= Depth
  BY <1>4, Sizes
<1>6. w[1] \notin Codes /\ w[4] \notin Codes
  BY <1>3 DEF Codes, Flags, KernelCode, UserCode
<1> QED BY <1>2, <1>3, <1>5, <1>6

(* run makes a task that has never run; main's words stay, unless the new  *)
(* stack is page 0.                                                        *)
LEMMA CreateKeeps ==
  ASSUME IInv, mode = "keyboard", was.cpu.cs = UserCode, mode' = "resume",
         TT!CreateTask, NEW code \in Nat, ram' = Pushed(ptr' + FrameSize, FirstFrame(code)),
         heap' \in Blocks, UNCHANGED <<esp0, cpu, esp, was>>
  PROVE  IInv' /\ TT!Next
<1>1. MainSaved /\ task_count > 0 /\ esp0 = FrameSize /\ current_task = 0
  BY DEF IInv, KernelInv, ModeInv, MainSaved
<1>2. TT!Next
  BY <1>1 DEF TT!Next, TT!Spawn
<1>3. TP!StackInv' /\ TT!TypeOK' /\ TableShape'
  BY <1>2, TaskStep, ShapeNext DEF IInv
<1>4. TableShape
  BY Shape DEF IInv, KernelInv, TypeOK
<1>5. PICK b \in Pages : ptr' = b * FrameSize
  BY <1>3 DEF TableShape
<1>6. PageTop(b) = ptr' + FrameSize /\ PageTop(b) \in Nat
  BY <1>5 DEF PageTop, Pages, FrameSize
<1>7. PICK w \in Seq(Nat) :
        /\ w = FirstFrame(code) /\ 1 \in 1 .. Len(w) /\ 4 \in 1 .. Len(w) /\ Len(w) <= Depth
        /\ w[1] \notin Codes /\ w[4] \notin Codes
  BY FirstFrameIs
<1>8. ram' = Pushed(PageTop(b), w) /\ ram \in [StackWords -> Nat] /\ FreshStacks
  BY <1>6, <1>7 DEF IInv, KernelInv, TypeOK
<1>9. /\ ram' \in [StackWords -> Nat]
      /\ \A q \in Pages : ram'[PageTop(q) - 4] \notin Codes
  BY <1>7, <1>8, TopWordNext
<1>10. /\ task_count \in Nat /\ task_count \in 0 .. MaxTask - 1
       /\ task_count' = task_count + 1 /\ current_task' = 0
       /\ \A i \in 1 .. task_count - 1 : tasks'[i] = tasks[i]
       /\ tasks'[task_count].esp = PageTop(b) - 44
  <2>1. task_count \in 0 .. MaxTask - 1 /\ task_count' = task_count + 1 /\ current_task' = 0
    BY <1>1, <1>4 DEF TT!CreateTask, TableShape
  <2>2. tasks' = [tasks EXCEPT ![task_count] =
                    [esp |-> ptr' + 4096 - 44, id |-> task_count, active |-> 1]]
    BY DEF TT!CreateTask, TT!PMM!FrameSize, TT!FirstFrameBytes
  <2>3. \A i \in 1 .. task_count - 1 : tasks'[i] = tasks[i]
    BY <1>4, <2>1, <2>2 DEF TableShape
  <2>4. tasks'[task_count].esp = ptr' + 4096 - 44
    BY <1>4, <2>1, <2>2 DEF TableShape
  <2>5. ptr' \in Nat
    BY <1>5 DEF Pages, FrameSize
  <2> QED BY <1>6, <2>1, <2>3, <2>4, <2>5 DEF FrameSize
<1>11. FreshStacks'
  <2>1. ASSUME NEW i \in 1 .. task_count' - 1 PROVE FreshAt(tasks'[i].esp)
    <3>1. CASE i = task_count
      BY <1>10, <3>1 DEF FreshAt
    <3>2. CASE i # task_count
      <4>1. i \in 1 .. task_count - 1 /\ i # current_task
        BY <1>1, <1>10, <3>2
      <4> QED BY <1>8, <1>10, <4>1 DEF FreshStacks
    <3> QED BY <3>1, <3>2
  <2> QED BY <1>9, <2>1 DEF FreshStacks, FreshAt
<1>12. TypeOK'
  BY <1>3, <1>9 DEF IInv, KernelInv, TypeOK, Blocks
<1>13. CASE b # 0
  <2>1. PICK e : e = EntryWords(was.cpu, was.esp)
    OBVIOUS
  <2>2. /\ EntryStack(was.cpu, was.esp) = PageTop(0) /\ EntryWords(was.cpu, was.esp)' = e
        /\ EntryStack(was.cpu, was.esp)' = PageTop(0)
    <3>1. EntryStack(was.cpu, was.esp) = PageTop(0)
      BY <1>1, SavedStack
    <3> QED BY <2>1, <3>1 DEF EntryStack, EntryWords
  <2>3. Len(e) = 14
    BY <1>1, <2>1, SavedStack, EntryWordsAre
  <2>4. ASSUME NEW k \in 1 .. Len(e) PROVE Word(PageTop(0) - 4 * k)' = e[k]
    <3>1. Word(PageTop(0) - 4 * k) = e[k]
      BY <1>1, <2>1, <2>2 DEF MainSaved
    <3>2. k \in 1 .. Depth
      BY <2>3, Sizes
    <3>3. PageTop(0) - 4 * k \in StackWords
      BY <3>2, WordsOfPage, Sizes
    <3>4. ram'[PageTop(0) - 4 * k] = ram[PageTop(0) - 4 * k]
      BY <1>7, <1>8, <1>13, <3>2, PushedIs, Sizes
    <3> QED BY <3>1, <3>3, <3>4 DEF Word
  <2>5. MainSaved'
    BY <1>1, <1>10, <2>1, <2>2, <2>4 DEF MainSaved
  <2>6. ModeInv'
    BY <1>1, <1>10, <2>5 DEF ModeInv
  <2> QED BY <1>2, <1>3, <1>11, <1>12, <2>6 DEF IInv, KernelInv
<1>14. CASE b = 0
  <2>1. PageTop(0) = 4096 /\ esp = PageTop(0) - 56
    BY <1>1, SavedInRing3, Sizes
  <2>2. esp' + 40 = PageTop(b) - 4 * 4
    BY <1>14, <2>1
  <2>3. 4 \in 1 .. Depth
    BY Sizes
  <2>4. PageTop(b) - 4 * 4 \in StackWords
    BY <2>3, WordsOfPage
  <2>5. ram'[PageTop(b) - 4 * 4] = w[4]
    <3>1. \A k \in 1 .. Len(w) : ram'[PageTop(b) - 4 * k] = w[k]
      BY <1>7, <1>8, PushedIs
    <3> QED BY <1>7, <3>1, Zenon
  <2>6. Word(esp + 40)' \notin Codes
    BY <1>7, <2>2, <2>4, <2>5 DEF Word
  <2>7. task_count \in 1 .. task_count' - 1 /\ tasks'[task_count].esp < FrameSize
    BY <1>1, <1>10, <1>14, <2>1 DEF FrameSize
  <2>8. ~FramesSufficed'
    <3>1. tasks'[task_count].esp \in Nat
      BY <1>10, <1>14, <2>1
    <3>2. ~(tasks'[task_count].esp >= FrameSize)
      BY <2>7, <3>1 DEF FrameSize
    <3> QED BY <2>7, <3>2 DEF FramesSufficed
  <2>9. ModeInv'
    BY <1>1, <1>10, <2>6, <2>8 DEF ModeInv
  <2> QED BY <1>2, <1>3, <1>11, <1>12, <2>9 DEF IInv, KernelInv
<1> QED BY <1>13, <1>14

(* A command that makes no task leaves the stacks alone.                   *)
LEMMA CommandKeeps ==
  ASSUME IInv, mode = "keyboard", mode' \in {"resume", "stopped"},
         TT!AllocCommand \/ UNCHANGED taskVars, heap' \in Blocks,
         UNCHANGED <<esp0, ram, cpu, esp, was>>
  PROVE  IInv' /\ (TT!Next \/ UNCHANGED taskVars)
<1>1. MainSaved /\ task_count > 0 /\ esp0 = FrameSize
  BY DEF IInv, KernelInv, ModeInv
<1>2. TT!Next \/ UNCHANGED taskVars
  BY DEF TT!Next
<1>3. TP!StackInv' /\ TT!TypeOK'
  BY <1>2, TaskStep DEF IInv
<1>4. UNCHANGED <<tasks, current_task, task_count>>
  BY DEF TT!AllocCommand, taskVars
<1>5. MainSaved'
  BY <1>1, <1>4 DEF MainSaved, EntryStack, EntryWords, Word
<1>6. TypeOK'
  BY <1>3 DEF IInv, KernelInv, TypeOK, Blocks
<1>7. ModeInv'
  BY <1>1, <1>4, <1>5 DEF ModeInv
<1>8. FreshStacks'
  BY <1>4 DEF IInv, KernelInv, FreshStacks, FreshAt
<1> QED BY <1>2, <1>3, <1>6, <1>7, <1>8 DEF IInv, KernelInv

LEMMA KeyboardKeeps ==
  ASSUME IInv, KeyboardHandler PROVE IInv' /\ (TT!Next \/ UNCHANGED taskVars)
<1>1. mode = "keyboard" /\ UNCHANGED <<esp0, cpu, esp, was>>
  BY DEF KeyboardHandler
<1>2. heap \in Blocks
  BY DEF IInv, KernelInv, TypeOK, Blocks
<1>3. CASE was.cpu.cs = UserCode /\ RunCommand /\ mode' = "resume"
  <2>1. heap' = KMalloc(heap, 512)
    BY <1>3 DEF RunCommand
  <2>2. heap' \in Blocks /\ KMallocResult(heap, 512) \in Nat
    BY <1>2, <2>1, BlockStays
  <2>3. CASE /\ TT!CreateTask
             /\ ram' = Pushed(ptr' + FrameSize, FirstFrame(KMallocResult(heap, 512)))
    BY <1>1, <1>3, <2>2, <2>3, CreateKeeps
  <2>4. CASE UNCHANGED <<taskVars, ram>>
    BY <1>1, <1>3, <2>2, <2>4, CommandKeeps
  <2> QED BY <1>3, <2>3, <2>4 DEF RunCommand
<1>4. CASE /\ TT!AllocCommand \/ UNCHANGED taskVars
           /\ mode' \in {"resume", "stopped"} /\ UNCHANGED <<heap, ram>>
  BY <1>1, <1>2, <1>4, CommandKeeps
<1> QED BY <1>3, <1>4 DEF KeyboardHandler

LEMMA StutterKeeps == ASSUME IInv, UNCHANGED vars PROVE IInv' /\ UNCHANGED taskVars
<1>1. UNCHANGED <<taskVars, heap, esp0, ram, cpu, esp, mode, was>>
  BY DEF vars, hwVars
<1>2. UNCHANGED <<memory_bitmap, held, ptr, tasks, current_task, task_count, resumed, others>>
  BY <1>1 DEF taskVars
<1>3. TP!StackInv' /\ TT!TypeOK'
  BY <1>1, TaskStep DEF IInv
<1>4. MainSaved' <=> MainSaved
  BY <1>1, <1>2 DEF MainSaved, EntryStack, EntryWords, Word
<1>5. FramesSufficed' <=> FramesSufficed
  BY <1>2 DEF FramesSufficed
<1>6. ModeInv'
  BY <1>1, <1>2, <1>4, <1>5 DEF IInv, KernelInv, ModeInv, Word
<1>7. TypeOK' /\ FreshStacks'
  BY <1>1, <1>2, <1>3 DEF IInv, KernelInv, TypeOK, FreshStacks, FreshAt
<1> QED BY <1>1, <1>3, <1>6, <1>7 DEF IInv, KernelInv

-----------------------------------------------------------------------------
(* Every step.                                                             *)

Returns ==
  mode = "resume" /\ FramesSufficed /\ (was.irq = "keyboard" \/ task_count = 1) =>
    mode' = "run" /\ cpu' = was.cpu /\ esp' = was.esp

LEMMA KernelStep ==
  ASSUME IInv, [Next]_vars
  PROVE  IInv' /\ [TT!Next]_taskVars /\ (Returns \/ UNCHANGED vars)
<1>1. CASE Boot
  BY <1>1, BootKeeps DEF Boot, Returns
<1>2. CASE SwitchToUserMode \/ Work
  BY <1>2, RunKeeps DEF SwitchToUserMode, Work, Returns
<1>3. CASE Interrupt("timer") \/ Interrupt("keyboard")
  <2>1. PICK irq \in {"timer", "keyboard"} : Interrupt(irq)
    BY <1>3
  <2>2. mode = "run"
    BY <2>1 DEF Interrupt
  <2> QED BY <2>1, <2>2, InterruptKeeps DEF Returns
<1>4. CASE TimerHandler
  BY <1>4, TimerKeeps DEF TimerHandler, Returns
<1>5. CASE KeyboardHandler
  BY <1>5, KeyboardKeeps DEF KeyboardHandler, Returns
<1>6. CASE Resume
  BY <1>6, ResumeKeeps DEF Returns
<1>7. CASE UNCHANGED vars
  BY <1>7, StutterKeeps
<1> QED BY <1>1, <1>2, <1>3, <1>4, <1>5, <1>6, <1>7 DEF Next

LEMMA KernelInvSound == IInv => KernelStackSound
<1> SUFFICES ASSUME IInv PROVE KernelStackSound
  OBVIOUS
<1>1. TypeOK
  BY DEF IInv, KernelInv
<1>2. 0 \notin held
  <2>1. TP!FramesOK
    BY DEF IInv, TP!StackInv
  <2>2. 0 \in TP!PMM!Reserved
    BY Sizes DEF TP!PMM!Reserved
  <2> QED BY <2>1, <2>2 DEF TP!FramesOK, TP!PMM!BitmapExact
<1>3. ASSUME mode # "boot" PROVE esp0 > 0 /\ (esp0 - 1) \div FrameSize \notin held
  <2>1. esp0 = 4096
    BY <1>3 DEF IInv, KernelInv, ModeInv, FrameSize
  <2>2. (esp0 - 1) \div FrameSize = 0
    BY <2>1 DEF FrameSize
  <2> QED BY <1>2, <2>1, <2>2
<1> QED BY <1>1, <1>3 DEF KernelStackSound, KernelStackApart

(* The stack interrupts of main arrive on is in no frame anyone was        *)
(* granted, whatever the memory, the slots and the commands typed.         *)
THEOREM KernelStackAlwaysSound == Spec => []KernelStackSound
<1>1. Init => IInv
  BY InvInit
<1>2. IInv /\ [Next]_vars => IInv'
  BY KernelStep
<1>3. IInv => KernelStackSound
  BY KernelInvSound
<1> QED BY <1>1, <1>2, <1>3, PTL DEF Spec

(* Every interrupt that changes no task gives main back each register and  *)
(* its stack, as long as the frames have sufficed.                         *)
THEOREM InterruptsAlwaysReturn == Spec => InterruptsReturn
<1>1. Init => IInv
  BY InvInit
<1>2. IInv /\ [Next]_vars => IInv'
  BY KernelStep
<1>3. IInv /\ [Next]_vars =>
        [mode = "resume" /\ FramesSufficed /\ (was.irq = "keyboard" \/ task_count = 1) =>
           mode' = "run" /\ cpu' = was.cpu /\ esp' = was.esp]_vars
  BY KernelStep DEF Returns
<1> QED BY <1>1, <1>2, <1>3, PTL DEF Spec, InterruptsReturn

(* The interrupts and commands are a run of Tasks: schedule always gets a  *)
(* pointer into the stack of the task it saves it for.                     *)
THEOREM KernelImplementsTasks == Spec => ImplementsTasks
<1>1. Init => IInv /\ TT!Init
  BY InvInit DEF Init
<1>2. IInv /\ [Next]_vars => IInv' /\ [TT!Next]_taskVars
  BY KernelStep
<1>3. [TT!Next]_taskVars => [TT!Next]_(TT!taskVars)
  BY DEF taskVars, TT!taskVars
<1> QED BY <1>1, <1>2, <1>3, PTL DEF Spec, ImplementsTasks, TT!Spec
===============================================================================
