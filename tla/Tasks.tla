-------------------------------- MODULE Tasks --------------------------------
(***************************************************************************)
(* cpu/task.c: the table of tasks and the round-robin choice the timer     *)
(* interrupt makes in it, with the page frames the stacks come from.       *)
(*                                                                         *)
(* A step is one call: the handlers that make these calls run with         *)
(* interrupts off.  The words create_task lays on a new stack, and the     *)
(* pushes and pops of interrupt.asm around schedule, are in module Kernel; *)
(* here a stack is known by the page its stack pointer is in.              *)
(***************************************************************************)
EXTENDS Naturals

CONSTANTS
  WordBits, NWords, NReserved,  \* the frames, as in Frames
  MaxTask,                      \* MAX_TASK = 3
  Depths                        \* bytes an interrupted task may have on its stack

VARIABLES
  memory_bitmap, held, ptr,     \* the frames, as in Frames
  tasks,                        \* pcb_t tasks[MAX_TASK]
  current_task, task_count,
  resumed,                      \* what schedule returned last: the stack running now
  others                        \* frames granted that are no stacks; not in the code

taskVars == <<memory_bitmap, held, ptr, tasks, current_task, task_count, resumed,
              others>>

ASSUME TasksAssumption ==
  /\ MaxTask \in Nat \ {0}
  /\ WordBits \in Nat \ {0} /\ NWords \in Nat \ {0}
  /\ NReserved \in Nat \ {0} /\ NReserved <= NWords * WordBits
  /\ Depths \subseteq 44 .. 4095

PMM == INSTANCE Frames

Ids == 0 .. MaxTask - 1
Page(address) == address \div PMM!FrameSize
Active(i) == tasks[i].active = 1
NoTask == [esp |-> 0, id |-> 0, active |-> 0]

(* The word count of the frame create_task builds: eflags, cs, eip and     *)
(* eight zeros of four bytes each.                                         *)
FirstFrameBytes == 44

-----------------------------------------------------------------------------
(* The search begins at the top of the table: the last task starves.       *)
Follows_FromZero(i, j) ==
  /\ Active(j) /\ j # i
  /\ \A k \in Ids : k < j => k = i \/ ~Active(k)

(* The task after i, in table order and round again, that is active.       *)
Follows(i, j) ==
  /\ Active(j)
  /\ \E n \in 1 .. MaxTask :
       /\ j = (i + n) % MaxTask
       /\ \A m \in 1 .. n - 1 : ~Active((i + m) % MaxTask)

(* The pointer is saved after the choice, in the wrong slot. *)
Schedule_SavesLate(current_esp) ==
  /\ UNCHANGED <<memory_bitmap, held, ptr, task_count, others>>
  /\ IF task_count <= 1
     THEN resumed' = current_esp /\ UNCHANGED <<tasks, current_task>>
     ELSE \E j \in Ids :
            /\ Follows(current_task, j)
            /\ tasks' = [tasks EXCEPT ![j].esp = current_esp]
            /\ current_task' = j
            /\ resumed' = current_esp

(* schedule(current_esp).                                                  *)
Schedule(current_esp) ==
  /\ UNCHANGED <<memory_bitmap, held, ptr, task_count, others>>
  /\ IF task_count <= 1
     THEN resumed' = current_esp /\ UNCHANGED <<tasks, current_task>>
     ELSE \E j \in Ids :
            /\ Follows(current_task, j)
            /\ tasks' = [tasks EXCEPT ![current_task].esp = current_esp]
            /\ current_task' = j
            /\ resumed' = tasks'[j].esp

(* The new task is not counted, and the next takes its slot.               *)
CreateTask_NotCounted ==
  /\ task_count < MaxTask
  /\ PMM!AllocFrame(ptr')
  /\ tasks' = [tasks EXCEPT ![task_count] =
                 [esp |-> ptr' + PMM!FrameSize - FirstFrameBytes,
                  id |-> task_count, active |-> 1]]
  /\ UNCHANGED <<task_count, current_task, resumed, others>>

(* The stack grows down from the bottom of the frame.                      *)
CreateTask_BottomOfFrame ==
  /\ task_count < MaxTask
  /\ PMM!AllocFrame(ptr')
  /\ tasks' = [tasks EXCEPT ![task_count] =
                 [esp |-> IF ptr' = 0 THEN 0 ELSE ptr' - FirstFrameBytes,
                  id |-> task_count, active |-> 1]]
  /\ task_count' = task_count + 1
  /\ UNCHANGED <<current_task, resumed, others>>

(* create_task.  The result of pmm_alloc_frame is not looked at: without a *)
(* free frame the stack is at the top of page 0.                           *)
CreateTask ==
  /\ task_count < MaxTask
  /\ PMM!AllocFrame(ptr')
  /\ tasks' = [tasks EXCEPT ![task_count] =
                 [esp |-> ptr' + PMM!FrameSize - FirstFrameBytes,
                  id |-> task_count, active |-> 1]]
  /\ task_count' = task_count + 1
  /\ UNCHANGED <<current_task, resumed, others>>

(* main of kernel.c up to sti, as far as it concerns the tasks: the heap   *)
(* takes the first frame, then init_multitasking makes main task 0.        *)
InitMultitasking ==
  /\ task_count = 0
  /\ PMM!AllocFrame(ptr')
  /\ tasks' = [i \in Ids |-> [NoTask EXCEPT !.active = IF i = 0 THEN 1 ELSE 0]]
  /\ task_count' = 1
  /\ current_task' = 0
  /\ others' = held'
  /\ UNCHANGED resumed

(* The shell's alloc: a frame nobody gives back.                           *)
AllocCommand ==
  /\ task_count > 0
  /\ PMM!AllocFrame(ptr')
  /\ others' = others \cup (held' \ held)
  /\ UNCHANGED <<tasks, current_task, task_count, resumed>>

(* Where the running task's stack pointer is when the timer interrupts it: *)
(* main is on the boot stack or on the one of the TSS, both in the frames  *)
(* never granted; another task is in the page schedule switched to.        *)
StackPages == IF current_task = 0 THEN 0 .. NReserved - 1 ELSE {Page(resumed)}
Interrupted(p, d) == (p + 1) * PMM!FrameSize - d

Preempt == task_count > 0 /\ \E p \in StackPages, d \in Depths : Schedule(Interrupted(p, d))
Spawn == task_count > 0 /\ CreateTask

Init ==
  /\ PMM!Init
  /\ tasks = [i \in Ids |-> NoTask]
  /\ current_task = 0 /\ task_count = 0
  /\ resumed = 0 /\ others = {}

Next == InitMultitasking \/ Preempt \/ Spawn \/ AllocCommand

Spec == Init /\ [][Next]_taskVars

(* The timer goes on interrupting: it is periodic, and every handler       *)
(* returns to code that has interrupts on.                                 *)
FairSpec == Spec /\ WF_taskVars(InitMultitasking) /\ WF_taskVars(Preempt)

-----------------------------------------------------------------------------
TypeOK ==
  /\ PMM!TypeOK
  /\ tasks \in [Ids -> [esp : 0 .. PMM!NFrames * PMM!FrameSize, id : Ids, active : 0 .. 1]]
  /\ current_task \in Ids
  /\ task_count \in 0 .. MaxTask
  /\ resumed \in 0 .. PMM!NFrames * PMM!FrameSize

(* The slots in use are the first task_count of the table, so create_task  *)
(* never takes one in use, and the running task is in use, so the search   *)
(* of schedule, which has no other end, comes to one.                      *)
TableSound ==
  /\ \A i \in Ids : Active(i) <=> i < task_count
  /\ \A i \in Ids : Active(i) => tasks[i].id = i
  /\ task_count > 0 => Active(current_task)

(* The page a task's stack is in. *)
StackPage(i) == Page(IF i = current_task THEN resumed ELSE tasks[i].esp)

(* A task is on a frame granted for it, not on one of the heap or the      *)
(* shell, and no other task is on it; page 0, where create_task puts a     *)
(* stack when no frame was left, is the exception.                         *)
StacksApart ==
  \A i \in Ids \ {0} :
    Active(i) /\ StackPage(i) # 0 =>
      /\ StackPage(i) \in held \ others
      /\ \A j \in Ids \ {i} : Active(j) => StackPage(j) # StackPage(i)

(* Every stack pointer in the table is an address in memory, and that of a *)
(* task which has a stack one in its own frame.                            *)
StacksSound == TypeOK /\ StacksApart

(* However the calls interleave, a task comes back on the stack it left.   *)
StacksKept ==
  [][\A i \in Ids \ {0} : Active(i) => StackPage(i)' = StackPage(i)]_taskVars

(* Each task gets the processor again and again.                           *)
EveryTaskRuns == \A i \in Ids : []<>(Active(i) => current_task = i)
=============================================================================
