-------------------------------- MODULE Kernel --------------------------------
(***************************************************************************)
(* Boot, interrupts and tasks together: kernel.c's main, the stubs isr32   *)
(* and isr33 of interrupt.asm, the heap of mem.c, set_kernel_stack of      *)
(* gdt.c and the shell commands that take frames, heap or tasks.           *)
(*                                                                         *)
(* An interrupt is three steps: the processor and the stub push what was   *)
(* interrupted, the C handler runs, and the stub pops what esp points to   *)
(* then.  Between them no other interrupt comes, as the gates clear IF.    *)
(* Memory is kept only for the words near the top of each page, which is   *)
(* where stacks are; what C code keeps below the pushed words is left out. *)
(***************************************************************************)
EXTENDS Naturals, Sequences

CONSTANTS
  WordBits, NWords, NReserved,  \* the frames
  MaxTask,                      \* MAX_TASK
  Depth                         \* words kept at the top of each page

VARIABLES
  memory_bitmap, held, ptr,     \* pmm.c
  tasks, current_task, task_count, resumed, others,  \* task.c, as in Tasks
  heap,                         \* the one block of free_list: where, size, free
  esp0,                         \* tss_entry.esp0
  ram,                          \* the words of the stacks
  cpu, esp,                     \* registers, and the stack pointer
  mode,                         \* "boot", "run", "timer", "keyboard", "resume", "stopped", "fault"
  was                           \* what the last interrupt interrupted, and which it was

taskVars == <<memory_bitmap, held, ptr, tasks, current_task, task_count, resumed,
              others>>
hwVars == <<ram, cpu, esp, mode, was>>
vars == <<taskVars, heap, esp0, hwVars>>

(* A stack holds at least the words an interrupt from ring 3 pushes, and    *)
(* at most a page.                                                         *)
ASSUME KernelAssumption ==
  /\ MaxTask \in Nat \ {0}
  /\ WordBits \in Nat \ {0} /\ NWords \in Nat \ {0}
  /\ NReserved \in Nat \ {0} /\ NReserved <= NWords * WordBits
  /\ Depth \in 14 .. 1024

FrameSize == 4096
StackWords == {(p + 1) * FrameSize - 4 * k : p \in 0 .. NWords * WordBits - 1, k \in 1 .. Depth}
TT == INSTANCE Tasks WITH Depths <- {48, 56}
PMM == INSTANCE Frames

KernelCode == 8     \* selectors: 0x08, 0x10, and 0x1B, 0x23 for ring 3
KernelData == 16
UserCode == 27
UserData == 35
Flags == 514        \* 0x202: interrupts enabled
MainCode == {256, 260}   \* two places in main's loop: addresses in the kernel's image
HandlerCode == 512
BootStack == NReserved * FrameSize  \* where boot.asm puts esp, below the frames granted

Word(a) == IF a \in StackWords THEN ram[a] ELSE 0
Pushed(top, words) ==
  [a \in StackWords |->
     IF \E k \in 1 .. Len(words) : a = top - 4 * k
     THEN words[CHOOSE k \in 1 .. Len(words) : a = top - 4 * k] ELSE ram[a]]

(* The registers of pusha, in the order it pushes them; the fifth is esp,  *)
(* which popa drops.                                                       *)
Popa(bottom) == [k \in 1 .. 8 |-> IF k = 5 THEN 0 ELSE Word(bottom + 4 * (8 - k))]

-----------------------------------------------------------------------------
(* The size asked for is not compared.  *)
KMallocResult_AnySize(h, size) == IF h.free THEN h.at + 12 ELSE 0

(* kmalloc(size): a free block that is large enough is taken whole.        *)
KMallocResult(h, size) == IF h.free /\ h.size >= size THEN h.at + 12 ELSE 0
KMalloc(h, size) == [h EXCEPT !.free = h.free /\ h.size < size]

(* The size of the block is that of the page, header included: the stack   *)
(* for interrupts would be the heap's only block.                          *)
InitHeap_WholePage(start) == [at |-> start, size |-> FrameSize, free |-> TRUE]

InitHeap(start) == [at |-> start, size |-> FrameSize - 12, free |-> TRUE]

(* main, up to sti.  kmalloc(4096) finds no block of that size and returns *)
(* 0, so the stack for interrupts is the page at address 0.                *)
Boot ==
  /\ mode = "boot"
  /\ TT!InitMultitasking
  /\ heap' = KMalloc(InitHeap(ptr'), 4096)
  /\ esp0' = KMallocResult(InitHeap(ptr'), 4096) + 4096
  /\ mode' = "run"
  /\ cpu' = [cpu EXCEPT !.eflags = Flags]
  /\ UNCHANGED <<ram, esp, was>>

(* switch_to_user_mode: main goes on in ring 3, on the stack it has.       *)
SwitchToUserMode ==
  /\ mode = "run" /\ cpu.cs = KernelCode /\ current_task = 0
  /\ cpu' = [cpu EXCEPT !.cs = UserCode, !.ss = UserData, !.ds = UserData, !.eflags = Flags]
  /\ UNCHANGED <<taskVars, heap, esp0, ram, esp, mode, was>>

(* The code that runs goes on.                                             *)
Work ==
  /\ mode = "run"
  /\ cpu.eip \in MainCode
  /\ cpu' = [cpu EXCEPT !.eip = CHOOSE e \in MainCode : e # cpu.eip]
  /\ UNCHANGED <<taskVars, heap, esp0, ram, esp, mode, was>>

-----------------------------------------------------------------------------
(* The processor changes to the stack of the TSS when it leaves ring 3 and *)
(* pushes ss and esp of the code interrupted; then eflags, cs and eip.     *)
(* The stub pushes the registers and ds.                                   *)
EntryWords(c, sp) ==
  LET r == c.regs
  IN  IF c.cs % 4 = 3
      THEN <<c.ss, sp, c.eflags, c.cs, c.eip, r[1], r[2], r[3], r[4], sp, r[6], r[7], r[8], c.ds>>
      ELSE <<c.eflags, c.cs, c.eip, r[1], r[2], r[3], r[4], sp, r[6], r[7], r[8], c.ds>>
EntryStack(c, sp) == IF c.cs % 4 = 3 THEN esp0 ELSE sp

Interrupt(irq) ==
  /\ mode = "run" /\ cpu.eflags = Flags
  /\ ram' = Pushed(EntryStack(cpu, esp), EntryWords(cpu, esp))
  /\ esp' = EntryStack(cpu, esp) - 4 * Len(EntryWords(cpu, esp))
  /\ cpu' = [cpu EXCEPT !.eip = HandlerCode, !.cs = KernelCode, !.ss = KernelData,
                        !.ds = KernelData, !.eflags = 2,
                        !.regs = [k \in 1 .. 8 |-> 0]]
  /\ mode' = irq
  /\ was' = [cpu |-> cpu, esp |-> esp, irq |-> irq]
  /\ UNCHANGED <<taskVars, heap, esp0>>

(* isr32: schedule chooses the stack the stub pops from.                   *)
TimerHandler ==
  /\ mode = "timer"
  /\ TT!Schedule(esp)
  /\ esp' = resumed'
  /\ mode' = "resume"
  /\ UNCHANGED <<heap, esp0, ram, cpu, was>>

(* create_task's frame: eflags, cs, eip and eight zeros.                   *)
FirstFrame(task_code) == <<Flags, KernelCode, task_code, 0, 0, 0, 0, 0, 0, 0, 0>>

(* The run command for a program that is on the disk: execute_program      *)
(* loads it where kmalloc says, also at 0, and makes it a task.            *)
RunCommand ==
  LET app_memory == KMallocResult(heap, 512)
  IN  /\ heap' = KMalloc(heap, 512)
      /\ \/ /\ TT!CreateTask
            /\ ram' = Pushed(ptr' + FrameSize, FirstFrame(app_memory))
         \/ /\ task_count >= MaxTask
            /\ UNCHANGED <<taskVars, ram>>

(* The keyboard interrupt, with what the line typed does: run and alloc,   *)
(* the commands that stop the processor (sleep, crash), and all others.    *)
(* Before main is in ring 3, a few instructions after sti, no line is      *)
(* complete.                                                               *)
KeyboardHandler ==
  /\ mode = "keyboard"
  /\ \/ was.cpu.cs = UserCode /\ RunCommand /\ mode' = "resume"
     \/ /\ was.cpu.cs = UserCode /\ TT!AllocCommand
        /\ mode' = "resume" /\ UNCHANGED <<heap, ram>>
     \/ mode' = "resume" /\ UNCHANGED <<taskVars, heap, ram>>
     \/ /\ was.cpu.cs = UserCode
        /\ mode' = "stopped" /\ UNCHANGED <<taskVars, heap, ram>>
  /\ UNCHANGED <<esp0, cpu, esp, was>>

(* The stub's pops do not include the word it pushed for ds. *)
Resume_WithoutDs ==
  LET cs == Word(esp + 36)
  IN  /\ mode = "resume"
      /\ IF cs \notin {KernelCode, UserCode}
         THEN mode' = "fault" /\ UNCHANGED <<cpu, esp>>
         ELSE /\ mode' = "run"
              /\ cpu' = [cpu EXCEPT !.regs = Popa(esp), !.eip = Word(esp + 32), !.cs = cs,
                                    !.eflags = Word(esp + 40)]
              /\ esp' = esp + 44
      /\ UNCHANGED <<taskVars, heap, esp0, ram, was>>

(* The stub's pops and iretd.  A selector that names no segment is a       *)
(* general protection fault, after which nothing is resumed.               *)
Resume ==
  LET cs == Word(esp + 40)
      ring3 == cs % 4 = 3
  IN  /\ mode = "resume"
      /\ IF cs \notin {KernelCode, UserCode} \/ Word(esp) \notin {0, KernelData, UserData}
         THEN mode' = "fault" /\ UNCHANGED <<cpu, esp>>
         ELSE /\ mode' = "run"
              /\ cpu' = [ds |-> Word(esp), regs |-> Popa(esp + 4),
                         eip |-> Word(esp + 36), cs |-> cs, eflags |-> Word(esp + 44),
                         ss |-> IF ring3 THEN Word(esp + 52) ELSE KernelData]
              /\ esp' = IF ring3 THEN Word(esp + 48) ELSE esp + 48
      /\ UNCHANGED <<taskVars, heap, esp0, ram, was>>

StartCpu ==
  [eip |-> CHOOSE e \in MainCode : TRUE, cs |-> KernelCode, eflags |-> 2,
   ss |-> KernelData, ds |-> KernelData,
   regs |-> [k \in 1 .. 8 |-> IF k = 5 THEN 0 ELSE 100 + k]]

Init ==
  /\ TT!Init
  /\ heap = [at |-> 0, size |-> 0, free |-> FALSE]
  /\ esp0 = 0
  /\ ram = [a \in StackWords |-> 0]
  /\ cpu = StartCpu
  /\ esp = BootStack
  /\ mode = "boot"
  /\ was = [cpu |-> StartCpu, esp |-> BootStack, irq |-> "none"]

Next ==
  \/ Boot \/ SwitchToUserMode \/ Work
  \/ Interrupt("timer") \/ TimerHandler
  \/ Interrupt("keyboard") \/ KeyboardHandler
  \/ Resume

Spec == Init /\ [][Next]_vars

-----------------------------------------------------------------------------
Addresses == 0 .. NWords * WordBits * FrameSize
Cpus == [eip : Nat, cs : {KernelCode, UserCode}, eflags : {2, Flags},
         ss : {KernelData, UserData}, ds : {0, KernelData, UserData}, regs : [1 .. 8 -> Nat]]
TypeOK ==
  /\ TT!TypeOK
  /\ heap \in [at : Addresses, size : 0 .. FrameSize, free : BOOLEAN]
  /\ esp0 \in Addresses /\ esp \in Addresses
  /\ ram \in [StackWords -> Nat]
  /\ cpu \in Cpus
  /\ mode \in {"boot", "run", "timer", "keyboard", "resume", "stopped", "fault"}

(* The stack interrupts from ring 3 arrive on is in no frame that was      *)
(* granted: neither the heap nor the stack of a task is written by an      *)
(* interrupt of main.  It is page 0, which main never asked for.           *)
KernelStackApart ==
  mode # "boot" => esp0 > 0 /\ (esp0 - 1) \div FrameSize \notin held

(* What an interrupt writes goes to words of a stack that is nobody's      *)
(* frame, and every register and word holds what it can.                   *)
KernelStackSound == TypeOK /\ KernelStackApart

(* No program has been started without a frame for its stack. *)
FramesSufficed == \A i \in 1 .. task_count - 1 : tasks[i].esp >= FrameSize

(* An interrupt that does not change the task gives back every register,   *)
(* in whichever ring it came and whatever the command it ran; for run this *)
(* needs a frame to be left.                                               *)
InterruptsReturn ==
  [][mode = "resume" /\ FramesSufficed /\ (was.irq = "keyboard" \/ task_count = 1) =>
       mode' = "run" /\ cpu' = was.cpu /\ esp' = was.esp]_vars

(* What the interrupts do to the task table is a run of Tasks: schedule is *)
(* always given a pointer into the stack of the task it takes it for.      *)
ImplementsTasks == TT!Spec

(* A program the shell starts comes to run beside the shell: a switch of   *)
(* tasks never ends in a fault.                                            *)
ProgramsRun == FramesSufficed => mode # "fault"

(* What makes these inductive.  Only main is ever resumed, at the bottom   *)
(* of the stack it began with: the last word of a page, which the stub     *)
(* takes for the code segment of a task that has not run yet, never is     *)
(* one.  From the interrupt to its end the words of main stay as they      *)
(* were pushed, unless a program gets the page at address 0 for a stack.   *)
Pages == 0 .. NWords * WordBits - 1
PageTop(p) == (p + 1) * FrameSize
Codes == {KernelCode, UserCode}
FreshAt(address) == \E p \in Pages : address = PageTop(p) - 44

MainCpu(c) == c \in Cpus /\ c.regs[5] = 0 /\ (c.cs = KernelCode => c.ss = KernelData)
MainSaved ==
  /\ current_task = 0 /\ was.esp = BootStack /\ MainCpu(was.cpu)
  /\ esp = EntryStack(was.cpu, was.esp) - 4 * Len(EntryWords(was.cpu, was.esp))
  /\ \A k \in 1 .. Len(EntryWords(was.cpu, was.esp)) :
       Word(EntryStack(was.cpu, was.esp) - 4 * k) = EntryWords(was.cpu, was.esp)[k]

ModeInv ==
  /\ mode = "boot" => task_count = 0
  /\ mode # "boot" => task_count > 0 /\ esp0 = FrameSize
  /\ mode \in {"boot", "run"} => current_task = 0 /\ esp = BootStack /\ MainCpu(cpu)
  /\ mode \in {"timer", "keyboard"} => MainSaved /\ was.irq = mode
  /\ mode = "resume" =>
       \/ MainSaved
       \/ /\ Word(esp + 40) \notin Codes
          /\ ~(FramesSufficed /\ (was.irq = "keyboard" \/ task_count = 1))
FreshStacks ==
  /\ \A p \in Pages : ram[PageTop(p) - 4] \notin Codes
  /\ \A i \in 1 .. task_count - 1 : i # current_task => FreshAt(tasks[i].esp)
KernelInv == TypeOK /\ ModeInv /\ FreshStacks
=============================================================================
