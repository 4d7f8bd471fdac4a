----------------------------- MODULE Descriptors -----------------------------
(***************************************************************************)
(* The tables the processor reads: the segment descriptors of gdt.c, with  *)
(* the TSS, and the gates of idt.c, as main fills and loads them one after *)
(* the other, and the interrupts and the change to ring 3 that go by them. *)
(*                                                                         *)
(* What the processor makes of a table is not code of the kernel; it is    *)
(* written here for the descriptors the kernel uses.  It checks a selector *)
(* when it is loaded; if the check fails, mode is "fault".                 *)
(*                                                                         *)
(* Stacks are told apart by esp alone; the words on them are in Kernel.    *)
(* Memory nothing was written to holds zeros.                              *)
(***************************************************************************)
EXTENDS Integers, Sequences

CONSTANTS
  TssPlaces,    \* where the linker may put tss_entry
  StubPlaces,   \* and the stubs: functions on Gates
  MainStacks,   \* esp of main when it calls switch_to_user_mode
  IntStacks     \* what set_kernel_stack may be given

VARIABLES
  pc, next,     \* where main is, and in which row of a table
  gdt, idt,     \* gdt_entries, idt
  gdtr, idtr,   \* whether lgdt and lidt have loaded them
  tr,           \* the selector ltr has loaded, or 0
  tss,          \* esp0 and ss0 of tss_entry
  cpu,          \* cs, ss, ds (es, fs, gs are as ds), eip, esp, if
  serving, was, \* the vector being served, or 0, and cpu before it
  tssAt, stub   \* where the linker has put things

tables == <<gdt, idt, gdtr, idtr, tr, tss>>
vars == <<pc, next, tables, cpu, serving, was, tssAt, stub>>

(* isr_install, in its order; the vectors after the first three are those  *)
(* of the devices, and 128, which no code here gets to.                    *)
GateOrder == <<0, 13, 14, 32, 33, 43, 44, 46, 128>>
Gates == {GateOrder[k] : k \in 1 .. Len(GateOrder)}
Hardware == {32, 33, 43, 44, 46}

Address(a) == a \in Nat /\ a \div 65536 < 65536

ASSUME TssAssumption ==
  /\ \A a \in TssPlaces : Address(a)
  /\ \A a \in TssPlaces : a % 1048576 < 1048472   \* 104 bytes below a megabyte
ASSUME StubAssumption ==
  \A f \in StubPlaces : f \in [Gates -> Nat] /\ \A n \in Gates : Address(f[n])
ASSUME StackAssumption == MainStacks \subseteq Nat /\ IntStacks \subseteq Nat

KernelCode == 8
KernelData == 16
UserCode == 27
UserData == 35
TssSelector == 43

-----------------------------------------------------------------------------
(* Writing descriptors. *)

(* The middle of the base is taken from its bits 8 to 15.                  *)
SetGate_Middle(base, limit, access, gran) ==
  [limit_low |-> limit % 65536, base_low |-> base % 65536,
   base_middle |-> (base \div 256) % 256, access |-> access,
   granularity |-> ((limit \div 65536) % 16) + 16 * (gran \div 16),
   base_high |-> (base \div 16777216) % 256]

(* gdt_set_gate *)
SetGate(base, limit, access, gran) ==
  [limit_low |-> limit % 65536, base_low |-> base % 65536,
   base_middle |-> (base \div 65536) % 256, access |-> access,
   granularity |-> ((limit \div 65536) % 16) + 16 * (gran \div 16),
   base_high |-> (base \div 16777216) % 256]

(* A row of init_gdt: of the limit 0xFFFFFFFF a descriptor keeps 20 bits.  *)
Flat(access) == SetGate(0, 1048575, access, 207)
Segments == <<SetGate(0, 0, 0, 0), Flat(154), Flat(146), Flat(250), Flat(242)>>

(* write_tss: the limit is base + sizeof(tss_entry_t).                     *)
TssGate(base) == SetGate(base, base + 104, 233, 0)

(* set_idt_gate: both halves are the low one.                              *)
IdtGate_LowTwice(handler) ==
  [base_lo |-> handler % 65536, sel |-> KernelCode, flags |-> 142, base_hi |-> handler % 65536]
IdtGate(handler) ==
  [base_lo |-> handler % 65536, sel |-> KernelCode, flags |-> 142,
   base_hi |-> (handler \div 65536) % 65536]

NoSegment == SetGate(0, 0, 0, 0)
NoGate == [base_lo |-> 0, sel |-> 0, flags |-> 0, base_hi |-> 0]

(* The table of boot.asm, which is used until lgdt.                        *)
BootGdt == [k \in 0 .. 5 |-> IF k = 1 THEN Flat(154) ELSE IF k = 2 THEN Flat(146) ELSE NoSegment]

-----------------------------------------------------------------------------
(* Reading them. *)

Base(e) == e.base_low + 65536 * e.base_middle + 16777216 * e.base_high
Limit(e) == e.limit_low + 65536 * (e.granularity % 16)
Dpl(e) == (e.access \div 32) % 4
Present(e) == e.access >= 128
Kind(e) == CASE e.access % 32 = 26 -> "code"
             [] e.access % 32 = 18 -> "data"
             [] e.access % 32 = 9  -> "tss"
             [] OTHER              -> "none"
AllMemory(e) == Base(e) = 0 /\ Limit(e) = 1048575 /\ e.granularity \div 128 = 1
Handler(g) == g.base_lo + 65536 * g.base_hi

Ring == cpu.cs % 4
Table == IF gdtr THEN gdt ELSE BootGdt

(* What a selector names: a segment of that kind, for that ring.           *)
Names(selector, kind, ring) ==
  /\ selector \div 8 \in 1 .. 5
  /\ LET e == Table[selector \div 8] IN Present(e) /\ Kind(e) = kind /\ Dpl(e) = ring
  /\ selector % 4 <= ring
(* Code in a ring may use the data of that ring and of those outside it.   *)
LoadsData(selector, ring) == \E r \in ring .. 3 : Names(selector, "data", r)

(* The stack for ring 0, as the processor finds it.                        *)
TaskState ==
  LET e == Table[tr \div 8]
  IN  IF tr # 0 /\ Base(e) = tssAt /\ Limit(e) >= 11 THEN tss ELSE [esp0 |-> 0, ss0 |-> 0]

-----------------------------------------------------------------------------
(* main. *)

Init ==
  /\ pc = "gdt" /\ next = 0
  /\ gdt = [k \in 0 .. 5 |-> NoSegment]
  /\ idt = [n \in Gates |-> NoGate]
  /\ gdtr = FALSE /\ idtr = FALSE /\ tr = 0
  /\ tss = [esp0 |-> 0, ss0 |-> 0]
  /\ \E s \in MainStacks :
       cpu = [cs |-> KernelCode, ss |-> KernelData, ds |-> KernelData, eip |-> 0,
              esp |-> s, intr |-> FALSE]
  /\ serving = 0 /\ was = cpu
  /\ tssAt \in TssPlaces /\ stub \in StubPlaces

(* An instruction of main the processor carries out or refuses.            *)
Main(ok, c, then) ==
  /\ pc' = IF ok THEN then ELSE "fault"
  /\ cpu' = IF ok THEN c ELSE cpu
  /\ UNCHANGED <<next, serving, was, tssAt, stub>>

FillGdt ==
  /\ pc = "gdt"
  /\ gdt' = [gdt EXCEPT ![next] = Segments[next + 1]]
  /\ next' = IF next = 4 THEN 0 ELSE next + 1
  /\ pc' = IF next = 4 THEN "tss" ELSE "gdt"
  /\ UNCHANGED <<idt, gdtr, idtr, tr, tss, cpu, serving, was, tssAt, stub>>

WriteTss ==
  /\ pc = "tss"
  /\ gdt' = [gdt EXCEPT ![5] = TssGate(tssAt)]
  /\ tss' = [esp0 |-> 0, ss0 |-> KernelData]
  /\ Main(TRUE, cpu, "lgdt")
  /\ UNCHANGED <<idt, gdtr, idtr, tr>>

(* gdt_flush *)
LoadGdt ==
  /\ pc = "lgdt"
  /\ gdtr' = TRUE
  /\ Main(TRUE, cpu, "data")
  /\ UNCHANGED <<gdt, idt, idtr, tr, tss>>

LoadSegments ==
  /\ pc = "data"
  /\ Main(Names(KernelData, "data", 0),
          [cpu EXCEPT !.ds = KernelData, !.ss = KernelData], "jump")
  /\ UNCHANGED tables

FarJump ==
  /\ pc = "jump"
  /\ Main(Names(KernelCode, "code", 0), [cpu EXCEPT !.cs = KernelCode], "ltr")
  /\ UNCHANGED tables

(* tss_flush.  The processor marks the TSS as busy.                        *)
LoadTr ==
  /\ pc = "ltr"
  /\ Main(Names(TssSelector, "tss", 3), cpu, "idt")
  /\ IF Names(TssSelector, "tss", 3)
       THEN tr' = TssSelector /\ gdt' = [gdt EXCEPT ![5].access = @ + 2]
       ELSE UNCHANGED <<tr, gdt>>
  /\ UNCHANGED <<idt, gdtr, idtr, tss>>

(* isr_install *)
FillIdt ==
  /\ pc = "idt"
  /\ LET n == GateOrder[next + 1] IN idt' = [idt EXCEPT ![n] = IdtGate(stub[n])]
  /\ next' = IF next = 8 THEN 0 ELSE next + 1
  /\ pc' = IF next = 8 THEN "lidt" ELSE "idt"
  /\ UNCHANGED <<gdt, gdtr, idtr, tr, tss, cpu, serving, was, tssAt, stub>>

LoadIdt ==
  /\ pc = "lidt"
  /\ idtr' = TRUE
  /\ Main(TRUE, cpu, "stack")
  /\ UNCHANGED <<gdt, idt, gdtr, tr, tss>>

SetKernelStack ==
  /\ pc = "stack"
  /\ \E s \in IntStacks : tss' = [tss EXCEPT !.esp0 = s]
  /\ Main(TRUE, cpu, "sti")
  /\ UNCHANGED <<gdt, idt, gdtr, idtr, tr>>

Sti ==
  /\ pc = "sti"
  /\ Main(TRUE, [cpu EXCEPT !.intr = TRUE], "user")
  /\ UNCHANGED tables

(* switch_to_user_mode, up to its iretd: an interrupt may come before it,  *)
(* in ring 0, and after it.                                                *)
LoadUserData ==
  /\ pc = "user" /\ serving = 0
  /\ Main(LoadsData(UserData, 0), [cpu EXCEPT !.intr = FALSE, !.ds = UserData], "iretd")
  /\ UNCHANGED tables

EnterRing3 ==
  /\ pc = "iretd"
  /\ Main(Names(UserCode, "code", 3) /\ Names(UserData, "data", 3),
          [cpu EXCEPT !.cs = UserCode, !.ss = UserData, !.intr = TRUE], "run")
  /\ UNCHANGED tables

-----------------------------------------------------------------------------
(* Interrupts. *)

(* The stubs that load ds.  *)
LoadsDs == {32, 33, 44}

(* Through the gate to the stub, and what it does before it calls C.       *)
Enter(n) ==
  LET gate == idt[n]
      outer == Ring = 3
      top == IF outer THEN TaskState.esp0 - 20 ELSE cpu.esp - 12
      ss0 == IF outer THEN TaskState.ss0 ELSE cpu.ss
      ok == /\ idtr /\ gate.flags = 142 /\ Names(gate.sel, "code", 0)
            /\ outer => Names(ss0, "data", 0)
            /\ n \in LoadsDs => Names(KernelData, "data", 0)
  IN  /\ pc' = IF ok THEN pc ELSE "fault"
      /\ cpu' = IF ok
                  THEN [cs |-> gate.sel, ss |-> ss0,
                        ds |-> IF n \in LoadsDs THEN KernelData ELSE cpu.ds,
                        eip |-> Handler(gate), esp |-> top, intr |-> FALSE]
                  ELSE cpu
      /\ serving' = n /\ was' = cpu
      /\ UNCHANGED <<next, tables, tssAt, stub>>

Interrupt == pc # "fault" /\ cpu.intr /\ \E n \in Hardware : Enter(n)

(* The crash command: int $0x0E, in the handler of the keyboard.  The      *)
(* handler of 14 never returns.                                            *)
Crash == pc = "run" /\ serving = 33 /\ Enter(14)

(* The stub pops ds and what the processor pushed.                         *)
Return ==
  /\ pc # "fault" /\ serving \in Hardware
  /\ LET ring == was.cs % 4
         ok == /\ serving \in LoadsDs => LoadsData(was.ds, 0)
               /\ Names(was.cs, "code", ring)
               /\ ring # Ring => Names(was.ss, "data", ring)
     IN  pc' = (IF ok THEN pc ELSE "fault") /\ cpu' = (IF ok THEN was ELSE cpu)
  /\ serving' = 0
  /\ UNCHANGED <<next, tables, was, tssAt, stub>>

Next ==
  \/ FillGdt \/ WriteTss \/ LoadGdt \/ LoadSegments \/ FarJump \/ LoadTr
  \/ FillIdt \/ LoadIdt \/ SetKernelStack \/ Sti \/ LoadUserData \/ EnterRing3
  \/ Interrupt \/ Crash \/ Return

Spec == Init /\ [][Next]_vars

-----------------------------------------------------------------------------
Descriptor == [limit_low : Nat, base_low : Nat, base_middle : Nat, access : Nat,
               granularity : Nat, base_high : Nat]
Gate == [base_lo : Nat, sel : Nat, flags : Nat, base_hi : Nat]
Cpus == [cs : Nat, ss : Nat, ds : Nat, eip : Nat, esp : Int, intr : BOOLEAN]

TypeOK ==
  /\ pc \in {"gdt", "tss", "lgdt", "data", "jump", "ltr", "idt", "lidt", "stack", "sti",
             "user", "iretd", "run", "fault"}
  /\ next \in 0 .. 8
  /\ gdt \in [0 .. 5 -> Descriptor] /\ idt \in [Gates -> Gate]
  /\ gdtr \in BOOLEAN /\ idtr \in BOOLEAN /\ tr \in {0, TssSelector}
  /\ tss \in [esp0 : Nat, ss0 : Nat]
  /\ cpu \in Cpus /\ was \in Cpus
  /\ serving \in Gates

(* The processor refuses no selector, no gate and no task state, from the  *)
(* first instruction of main to the last interrupt: the tables are filled  *)
(* before they are loaded, and loaded before they are used.                *)
NoFault == pc # "fault"

(* Whatever ring the processor is in, and while the tables are exchanged,  *)
(* its segment registers name segments that cover all memory, of the kind  *)
(* and the ring it needs: every address of the kernel means itself.        *)
SegmentsFit ==
  /\ Names(cpu.cs, "code", Ring) /\ Names(cpu.ss, "data", Ring) /\ LoadsData(cpu.ds, Ring)
  /\ \A s \in {cpu.cs, cpu.ss, cpu.ds} : AllMemory(Table[s \div 8])

(* Once ltr has run, the processor finds tss_entry where the linker put    *)
(* it, with all its 104 bytes below the limit: set_kernel_stack, which     *)
(* writes to it later, is what the next interrupt goes by.                 *)
TssFound ==
  tr # 0 => Base(gdt[5]) = tssAt /\ Limit(gdt[5]) >= 103 /\ TaskState = tss

(* The tables main fills and loads are those it needs, at every step.      *)
TablesSound == NoFault /\ SegmentsFit /\ TssFound

(* An interrupt gets to its own stub in ring 0 with interrupts off: on the *)
(* stack last given to set_kernel_stack if it comes in ring 3, below what  *)
(* is on the stack if it comes in ring 0.                                  *)
StubReached ==
  [][serving' # 0 /\ serving' # serving =>
       /\ cpu'.eip = stub[serving'] /\ cpu'.cs = KernelCode /\ ~cpu'.intr
       /\ cpu'.ss = KernelData
       /\ cpu'.esp = IF cpu.cs = UserCode THEN tss.esp0 - 20 ELSE cpu.esp - 12]_vars
=============================================================================
