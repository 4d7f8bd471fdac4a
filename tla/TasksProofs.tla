----------------------------- MODULE TasksProofs -----------------------------
(***************************************************************************)
(* The table of tasks is sound, for any number of slots and any frames;    *)
(* and so are the stacks, from what the table (TableInv) and what the      *)
(* allocator grants (FramesProofs) say together.                           *)
(***************************************************************************)
EXTENDS Tasks, TLAPS

(* TableSound needs only the types of the table and its two indices.       *)
TableTypes ==
  /\ tasks \in [Ids -> [esp : Nat, id : Ids, active : {0, 1}]]
  /\ current_task \in Ids
  /\ task_count \in 0 .. MaxTask
  /\ resumed \in Nat

TableInv == TableTypes /\ TableSound

(* What pmm_alloc_frame returns is an address, 0 when no frame is left. *)
LEMMA GrantIsAddress ==
  ASSUME PMM!AllocFrame(ptr') PROVE ptr' \in Nat
BY TasksAssumption DEF PMM!AllocFrame, PMM!FirstClear, PMM!FrameIds, PMM!NFrames, PMM!FrameSize

(* An interrupted stack pointer is an address. *)
LEMMA InterruptedIsAddress ==
  ASSUME TableTypes, NEW p \in StackPages, NEW d \in Depths
  PROVE  Interrupted(p, d) \in Nat
<1>1. p \in Nat
  <2>1. CASE current_task = 0
    BY <2>1, TasksAssumption DEF StackPages
  <2>2. CASE current_task # 0
    BY <2>2 DEF StackPages, TableTypes, Page, PMM!FrameSize
  <2> QED BY <2>1, <2>2
<1>2. d \in 44 .. 4095
  BY TasksAssumption
<1> QED BY <1>1, <1>2 DEF Interrupted, PMM!FrameSize

LEMMA TableInit == Init => TableInv
BY TasksAssumption DEF Init, TableInv, TableTypes, TableSound, NoTask, Ids, Active

(* main becomes task 0 of an empty table. *)
LEMMA TableInitMultitasking ==
  ASSUME TableInv, InitMultitasking PROVE TableInv'
<1>1. /\ tasks' = [i \in Ids |-> [NoTask EXCEPT !.active = IF i = 0 THEN 1 ELSE 0]]
      /\ task_count' = 1 /\ current_task' = 0 /\ resumed' = resumed
  BY DEF InitMultitasking
<1>2. 0 \in Ids /\ MaxTask \in Nat /\ 1 \in 0 .. MaxTask
  BY TasksAssumption DEF Ids
<1>3. \A i \in Ids : tasks'[i] = [esp |-> 0, id |-> 0, active |-> IF i = 0 THEN 1 ELSE 0]
  BY <1>1 DEF NoTask
<1>4. TableTypes'
  BY <1>1, <1>2, <1>3 DEF TableInv, TableTypes, NoTask
<1>5. TableSound'
  <2>1. \A i \in Ids : (tasks'[i].active = 1 <=> i = 0) /\ tasks'[i].id = 0
    <3> SUFFICES ASSUME NEW i \in Ids
                 PROVE  (tasks'[i].active = 1 <=> i = 0) /\ tasks'[i].id = 0
      OBVIOUS
    <3>1. CASE i = 0
      <4>1. tasks'[i] = [esp |-> 0, id |-> 0, active |-> 1]
        BY <1>3, <3>1
      <4> QED BY <4>1, <3>1
    <3>2. CASE i # 0
      <4>1. tasks'[i] = [esp |-> 0, id |-> 0, active |-> 0]
        BY <1>3, <3>2
      <4> QED BY <4>1, <3>2
    <3> QED BY <3>1, <3>2
  <2>2. \A i \in Ids : i < 1 <=> i = 0
    BY DEF Ids
  <2> QED BY <1>1, <1>2, <2>1, <2>2 DEF TableSound, Active
<1> QED BY <1>4, <1>5 DEF TableInv

(* The first frame of a task fits in the page it is given. *)
LEMMA FirstFrameFits ==
  ASSUME NEW p \in Nat PROVE p + PMM!FrameSize - FirstFrameBytes \in Nat
BY DEF PMM!FrameSize, FirstFrameBytes

(* A new task takes the slot after the last one in use. *)
LEMMA TableCreate ==
  ASSUME TableInv, task_count > 0, CreateTask PROVE TableInv'
<1> DEFINE pcb == [esp |-> ptr' + PMM!FrameSize - FirstFrameBytes, id |-> task_count, active |-> 1]
<1>1. /\ task_count < MaxTask /\ tasks' = [tasks EXCEPT ![task_count] = pcb]
      /\ task_count' = task_count + 1
      /\ current_task' = current_task /\ resumed' = resumed
  BY DEF CreateTask
<1>2. task_count \in Ids /\ task_count + 1 \in 0 .. MaxTask
  BY <1>1, TasksAssumption DEF TableInv, TableTypes, Ids
<1>3. pcb \in [esp : Nat, id : Ids, active : {0, 1}]
  <2>1. ptr' + PMM!FrameSize - FirstFrameBytes \in Nat
    <3>1. ptr' \in Nat
      BY GrantIsAddress DEF CreateTask
    <3> QED BY <3>1, FirstFrameFits
  <2> QED BY <1>2, <2>1
<1>4. TableTypes'
  BY <1>1, <1>2, <1>3 DEF TableInv, TableTypes
<1>5. tasks'[task_count] = pcb /\ \A i \in Ids \ {task_count} : tasks'[i] = tasks[i]
  BY <1>1, <1>2 DEF TableInv, TableTypes
<1>6. TableSound'
  <2>1. \A i \in Ids : i < task_count + 1 <=> (i = task_count \/ i < task_count)
    BY <1>2, TasksAssumption DEF Ids
  <2>2. \A i \in Ids : Active(i)' <=> (i = task_count \/ Active(i))
    BY <1>5 DEF Active
  <2>3. \A i \in Ids : Active(i)' => tasks'[i].id = i
    BY <1>5, <2>2 DEF TableInv, TableSound
  <2>4. Active(current_task)'
    BY <1>1, <2>2 DEF TableInv, TableTypes, TableSound
  <2> QED BY <1>1, <2>1, <2>2, <2>3, <2>4 DEF TableInv, TableSound
<1> QED BY <1>4, <1>6 DEF TableInv

(* schedule goes to an active task and changes nothing but a pointer. *)
LEMMA TableSchedule ==
  ASSUME TableInv, NEW e \in Nat, Schedule(e) PROVE TableInv'
<1>1. CASE task_count <= 1
  <2>1. resumed' = e /\ UNCHANGED <<tasks, current_task, task_count>>
    BY <1>1 DEF Schedule
  <2> QED BY <2>1 DEF TableInv, TableTypes, TableSound, Active
<1>2. CASE ~(task_count <= 1)
  <2>1. PICK j \in Ids :
          /\ Follows(current_task, j)
          /\ tasks' = [tasks EXCEPT ![current_task].esp = e]
          /\ current_task' = j
          /\ resumed' = tasks'[j].esp
    BY <1>2 DEF Schedule
  <2>2. task_count' = task_count
    BY DEF Schedule
  <2>3. tasks' \in [Ids -> [esp : Nat, id : Ids, active : {0, 1}]]
    BY <2>1 DEF TableInv, TableTypes
  <2>4. \A i \in Ids : tasks'[i].active = tasks[i].active /\ tasks'[i].id = tasks[i].id
    BY <2>1 DEF TableInv, TableTypes
  <2>5. Active(j)
    BY <2>1 DEF Follows
  <2>6. TableTypes'
    BY <2>1, <2>2, <2>3 DEF TableInv, TableTypes
  <2>7. TableSound'
    BY <2>1, <2>2, <2>4, <2>5 DEF TableInv, TableSound, Active
  <2> QED BY <2>6, <2>7 DEF TableInv
<1> QED BY <1>1, <1>2

LEMMA TableStep == ASSUME TableInv, [Next]_taskVars PROVE TableInv'
<1>1. CASE InitMultitasking
  BY <1>1, TableInitMultitasking
<1>2. CASE Preempt
  BY <1>2, InterruptedIsAddress, TableSchedule DEF Preempt, TableInv
<1>3. CASE Spawn
  BY <1>3, TableCreate DEF Spawn
<1>4. CASE AllocCommand
  BY <1>4 DEF AllocCommand, TableInv, TableTypes, TableSound, Active
<1>5. CASE UNCHANGED taskVars
  BY <1>5 DEF taskVars, TableInv, TableTypes, TableSound, Active
<1> QED BY <1>1, <1>2, <1>3, <1>4, <1>5 DEF Next

-----------------------------------------------------------------------------
(* The slots in use are always the first task_count of the table, each     *)
(* under its own number, and the running task is in one of them: so        *)
(* create_task never takes a slot in use, and the search of schedule,      *)
(* which has no other end, comes to one (cpu/task.c).                      *)
THEOREM TableAlwaysSound == Spec => []TableSound
<1>1. Init => TableInv
  BY TableInit
<1>2. TableInv /\ [Next]_taskVars => TableInv'
  BY TableStep
<1>3. TableInv => TableSound
  BY DEF TableInv
<1> QED BY <1>1, <1>2, <1>3, PTL DEF Spec

-----------------------------------------------------------------------------
(* Where the stacks of the tasks are.                                      *)

FP == INSTANCE FramesProofs

FramesOK == PMM!TypeOK /\ PMM!BitmapExact

(* The frames of Tasks are those the theorems of FramesProofs are about.   *)
LEMMA FramesAlike == FramesOK <=> FP!FrameInv
BY DEF FramesOK, FP!FrameInv, PMM!TypeOK, FP!TypeOK, PMM!BitmapExact, FP!BitmapExact,
       PMM!TestBit, FP!TestBit, PMM!Words, FP!Words, PMM!Bits, FP!Bits,
       PMM!FrameIds, FP!FrameIds, PMM!NFrames, FP!NFrames, PMM!Reserved, FP!Reserved,
       PMM!FrameSize, FP!FrameSize

LEMMA FramesAlikeNext == FramesOK' <=> FP!FrameInv'
BY DEF FramesOK, FP!FrameInv, PMM!TypeOK, FP!TypeOK, PMM!BitmapExact, FP!BitmapExact,
       PMM!TestBit, FP!TestBit, PMM!Words, FP!Words, PMM!Bits, FP!Bits,
       PMM!FrameIds, FP!FrameIds, PMM!NFrames, FP!NFrames, PMM!Reserved, FP!Reserved,
       PMM!FrameSize, FP!FrameSize

LEMMA AllocAlike == PMM!AllocFrame(ptr') <=> FP!Alloc
BY DEF FP!Alloc, FP!AllocFrame, PMM!AllocFrame, PMM!FirstClear, FP!FirstClear,
       PMM!SetBit, FP!SetBit, PMM!TestBit, FP!TestBit, PMM!FrameIds, FP!FrameIds,
       PMM!NFrames, FP!NFrames, PMM!FrameSize, FP!FrameSize

LEMMA InitAlike == PMM!Init <=> FP!Init
BY DEF PMM!Init, FP!Init, PMM!InitBitmap, FP!InitBitmap, PMM!Words, FP!Words,
       PMM!Bits, FP!Bits

LEMMA FramesAtFirst == PMM!Init => FramesOK
BY FP!FrameInit, FramesAlike, InitAlike, TasksAssumption

LEMMA GrantKeepsFrames ==
  ASSUME FramesOK, PMM!AllocFrame(ptr') PROVE FramesOK'
BY FP!FrameAlloc, FramesAlike, FramesAlikeNext, AllocAlike, TasksAssumption

(* A grant is a frame nobody holds, and none that is reserved.             *)
LEMMA GrantIsNew ==
  ASSUME FramesOK, PMM!AllocFrame(ptr')
  PROVE  \/ \E bit \in PMM!FrameIds \ (PMM!Reserved \cup held) :
              held' = held \cup {bit} /\ ptr' = bit * PMM!FrameSize
         \/ held' = held /\ ptr' = 0
BY DEF FramesOK, PMM!BitmapExact, PMM!AllocFrame, PMM!FirstClear

LEMMA FramesStay ==
  ASSUME FramesOK, UNCHANGED <<memory_bitmap, held, ptr>> PROVE FramesOK'
BY DEF FramesOK, PMM!TypeOK, PMM!BitmapExact, PMM!TestBit

-----------------------------------------------------------------------------
(* Addresses.                                                              *)
Limit == PMM!NFrames * PMM!FrameSize

LEMMA Memory == PMM!NFrames \in Nat \ {0} /\ Limit = PMM!NFrames * 4096 /\ Limit \in Nat
BY TasksAssumption DEF PMM!NFrames, Limit, PMM!FrameSize

(* What lies less than a page below the end of a page is in it.            *)
Near == Depths \cup {FirstFrameBytes}

LEMMA BelowTheEnd ==
  \A p \in PMM!FrameIds, d \in Near :
    /\ Page(Interrupted(p, d)) = p
    /\ Interrupted(p, d) < Limit
    /\ Interrupted(p, d) \in Nat
<1> SUFFICES ASSUME NEW p \in PMM!FrameIds, NEW d \in Near
             PROVE  /\ Page(Interrupted(p, d)) = p
                    /\ Interrupted(p, d) < Limit
                    /\ Interrupted(p, d) \in Nat
  OBVIOUS
<1>1. d \in 44 .. 4095
  BY TasksAssumption DEF Near, FirstFrameBytes
<1> QED BY <1>1, Memory DEF Interrupted, Page, PMM!FrameSize, PMM!FrameIds

LEMMA PageInMemory ==
  ASSUME NEW a \in Nat, a < Limit
  PROVE  Page(a) \in Nat /\ Page(a) < PMM!NFrames
BY Memory DEF Page, PMM!FrameSize

-----------------------------------------------------------------------------
(* Main is on a frame that is reserved.  Every other task is on a frame    *)
(* of its own, or on page 0.                                               *)
AddressesSound ==
  /\ \A i \in Ids : tasks[i].esp < Limit
  /\ resumed < Limit
MainSound ==
  /\ StackPage(0) \in PMM!Reserved
  /\ task_count = 0 => current_task = 0
Owned ==
  \A i \in Ids \ {0} : Active(i) /\ StackPage(i) # 0 => StackPage(i) \in held \ others
Apart ==
  \A i, j \in Ids \ {0} :
    i # j /\ Active(i) /\ Active(j) /\ StackPage(i) # 0 => StackPage(i) # StackPage(j)

StackInv ==
  /\ FramesOK /\ TableInv
  /\ others \subseteq held
  /\ AddressesSound /\ MainSound /\ Owned /\ Apart

LEMMA StackInvSound == StackInv => StacksSound
<1> SUFFICES ASSUME StackInv PROVE StacksSound
  OBVIOUS
<1>1. TypeOK
  <2>1. tasks \in [Ids -> [esp : 0 .. Limit, id : Ids, active : 0 .. 1]]
    BY Memory DEF StackInv, AddressesSound, TableInv, TableTypes
  <2>2. resumed \in 0 .. Limit
    BY Memory DEF StackInv, AddressesSound, TableInv, TableTypes
  <2>3. PMM!TypeOK /\ current_task \in Ids /\ task_count \in 0 .. MaxTask
    BY DEF StackInv, FramesOK, TableInv, TableTypes
  <2> QED BY <2>1, <2>2, <2>3 DEF TypeOK, Limit
<1>2. StacksApart
  <2> SUFFICES ASSUME NEW i \in Ids \ {0}, Active(i), StackPage(i) # 0,
                      NEW j \in Ids \ {i}, Active(j)
               PROVE  StackPage(i) \in held \ others /\ StackPage(j) # StackPage(i)
    BY DEF StacksApart, StackInv, Owned
  <2>1. StackPage(i) \in held \ others
    BY DEF StackInv, Owned
  <2>2. CASE j = 0
    BY <2>1, <2>2 DEF StackInv, MainSound, FramesOK, PMM!BitmapExact
  <2>3. CASE j # 0
    BY <2>1, <2>3 DEF StackInv, Apart
  <2> QED BY <2>1, <2>2, <2>3
<1> QED BY <1>1, <1>2 DEF StacksSound

LEMMA StackInit == Init => StackInv
<1> SUFFICES ASSUME Init PROVE StackInv
  OBVIOUS
<1>1. FramesOK /\ TableInv /\ others \subseteq held
  BY FramesAtFirst, TableInit DEF Init
<1>2. tasks = [i \in Ids |-> NoTask] /\ resumed = 0 /\ current_task = 0
  BY DEF Init
<1>3. 0 < Limit
  BY Memory
<1>4. AddressesSound
  BY <1>2, <1>3 DEF AddressesSound, NoTask
<1>5. \A i \in Ids : ~Active(i)
  BY <1>2 DEF Active, NoTask
<1>6. MainSound
  <2>1. Page(0) = 0
    BY DEF Page, PMM!FrameSize
  <2>2. 0 \in PMM!Reserved
    BY TasksAssumption DEF PMM!Reserved
  <2> QED BY <1>2, <2>1, <2>2 DEF MainSound, StackPage
<1> QED BY <1>1, <1>4, <1>5, <1>6 DEF StackInv, Owned, Apart

-----------------------------------------------------------------------------
(* A step that moves no stack but main's, which it leaves on a reserved    *)
(* frame, and gives no stack's frame away.                                 *)
StacksStay ==
  /\ \A i \in Ids : Active(i)' <=> Active(i)
  /\ \A i \in Ids \ {0} : StackPage(i)' = StackPage(i)

LEMMA StayKeeps ==
  ASSUME StackInv, StacksStay, held \ others \subseteq held' \ others'
  PROVE  Owned' /\ Apart'
BY DEF StackInv, StacksStay, Owned, Apart

(* main becomes task 0: no task has a stack of its own yet.                *)
LEMMA StackInitMultitasking ==
  ASSUME StackInv, InitMultitasking PROVE StackInv'
<1>1. /\ PMM!AllocFrame(ptr') /\ task_count = 0 /\ task_count' = 1 /\ current_task' = 0
      /\ others' = held' /\ resumed' = resumed
      /\ tasks' = [i \in Ids |-> [NoTask EXCEPT !.active = IF i = 0 THEN 1 ELSE 0]]
  BY DEF InitMultitasking
<1>2. FramesOK' /\ TableInv'
  BY <1>1, GrantKeepsFrames, TableInitMultitasking DEF StackInv
<1>3. AddressesSound'
  <2>1. \A i \in Ids : tasks'[i].esp = 0
    BY <1>1 DEF NoTask
  <2>2. Limit' = Limit /\ 0 < Limit
    BY Memory DEF Limit, PMM!NFrames, PMM!FrameSize
  <2> QED BY <1>1, <2>1, <2>2 DEF StackInv, AddressesSound
<1>4. MainSound'
  <2>1. StackPage(0)' = StackPage(0)
    BY <1>1 DEF StackInv, MainSound, StackPage, Page, PMM!FrameSize
  <2> QED BY <1>1, <2>1 DEF StackInv, MainSound, PMM!Reserved
<1>5. \A i \in Ids \ {0} : ~Active(i)'
  <2> SUFFICES ASSUME NEW i \in Ids \ {0} PROVE tasks'[i].active # 1
    BY DEF Active
  <2>1. tasks'[i] = [esp |-> 0, id |-> 0, active |-> 0]
    BY <1>1 DEF NoTask
  <2> QED BY <2>1
<1> QED BY <1>1, <1>2, <1>3, <1>4, <1>5 DEF StackInv, Owned, Apart

(* alloc takes a frame that is no stack.                                   *)
LEMMA StackAlloc ==
  ASSUME StackInv, AllocCommand PROVE StackInv' /\ StacksStay
<1>1. /\ PMM!AllocFrame(ptr') /\ others' = others \cup (held' \ held)
      /\ UNCHANGED <<tasks, current_task, task_count, resumed>>
  BY DEF AllocCommand
<1>2. held \subseteq held'
  BY <1>1, GrantIsNew DEF StackInv
<1>3. FramesOK'
  BY <1>1, GrantKeepsFrames DEF StackInv
<1>4. TableInv'
  BY <1>1 DEF StackInv, TableInv, TableTypes, TableSound, Active
<1>5. \A i \in Ids : (Active(i)' <=> Active(i)) /\ StackPage(i)' = StackPage(i)
  BY <1>1 DEF Active, StackPage, Page, PMM!FrameSize
<1>6. StacksStay
  BY <1>5 DEF StacksStay
<1>7. Owned' /\ Apart' /\ others' \subseteq held'
  BY <1>1, <1>2, <1>6, StayKeeps DEF StackInv
<1>8. AddressesSound'
  BY <1>1 DEF StackInv, AddressesSound, Limit, PMM!NFrames, PMM!FrameSize
<1>9. MainSound'
  <2>1. StackPage(0)' = StackPage(0)
    BY <1>1 DEF StackPage, Page, PMM!FrameSize
  <2> QED BY <1>1, <2>1 DEF StackInv, MainSound, PMM!Reserved
<1> QED BY <1>3, <1>4, <1>6, <1>7, <1>8, <1>9 DEF StackInv

-----------------------------------------------------------------------------
(* The slots create_task leaves alone keep their stacks; the new one is on *)
(* the frame that was granted, or on page 0.                               *)
LEMMA StackCreate ==
  ASSUME StackInv, task_count > 0, CreateTask
  PROVE  StackInv' /\ \A i \in Ids \ {0} : Active(i) => StackPage(i)' = StackPage(i)
<1> PICK new \in Nat : new = task_count
  BY DEF StackInv, TableInv, TableTypes
<1> DEFINE top == ptr' + PMM!FrameSize - FirstFrameBytes
<1>1. /\ new < MaxTask /\ PMM!AllocFrame(ptr')
      /\ tasks' = [tasks EXCEPT ![new] = [esp |-> top, id |-> new, active |-> 1]]
      /\ task_count' = new + 1
      /\ UNCHANGED <<current_task, resumed, others>>
  BY DEF CreateTask
<1>2. FramesOK' /\ TableInv'
  BY <1>1, GrantKeepsFrames, TableCreate DEF StackInv
<1>3. PICK p \in PMM!FrameIds :
        /\ p # 0 => p \notin PMM!Reserved \cup held /\ p \in held'
        /\ held \subseteq held' /\ held' \subseteq held \cup {p}
        /\ ptr' = p * PMM!FrameSize
  <2>1. 0 \in PMM!FrameIds /\ 0 * PMM!FrameSize = 0
    BY Memory DEF PMM!FrameIds, PMM!FrameSize
  <2> QED BY <1>1, <2>1, GrantIsNew DEF StackInv
<1>4. new \in Ids \ {0} /\ ~Active(new) /\ current_task # new
  <2>1. TableTypes /\ TableSound
    BY DEF StackInv, TableInv
  <2>2. new \in Ids \ {0}
    BY <1>1, TasksAssumption DEF Ids
  <2>3. ~Active(new)
    BY <2>1, <2>2 DEF TableSound
  <2>4. Active(current_task)
    BY <2>1 DEF TableSound
  <2> QED BY <2>2, <2>3, <2>4
<1>5. /\ tasks'[new] = [esp |-> top, id |-> new, active |-> 1]
      /\ \A i \in Ids \ {new} : tasks'[i] = tasks[i]
  BY <1>1, <1>4 DEF StackInv, TableInv, TableTypes
<1>6. Page(top) = p /\ top < Limit
  <2>1. p \in Nat
    BY Memory DEF PMM!FrameIds
  <2>2. top = Interrupted(p, FirstFrameBytes)
    BY <1>3, <2>1 DEF PMM!FrameSize, FirstFrameBytes, Interrupted
  <2>3. FirstFrameBytes \in Near
    BY DEF Near
  <2> HIDE DEF top
  <2> QED BY <2>1, <2>2, <2>3, BelowTheEnd
<1>7. \A i \in Ids \ {new} : (Active(i)' <=> Active(i)) /\ StackPage(i)' = StackPage(i)
  BY <1>1, <1>5 DEF Active, StackPage, Page, PMM!FrameSize
<1>8. Active(new)' /\ StackPage(new)' = p
  BY <1>1, <1>4, <1>5, <1>6 DEF Active, StackPage, Page, PMM!FrameSize
<1>9. others' \subseteq held' /\ held \ others \subseteq held' \ others'
  BY <1>1, <1>3 DEF StackInv
<1>10. AddressesSound'
  <2>1. Limit' = Limit /\ tasks'[new].esp < Limit
    BY <1>5, <1>6 DEF Limit, PMM!NFrames, PMM!FrameSize
  <2> QED BY <1>1, <1>5, <2>1 DEF StackInv, AddressesSound
<1>11. MainSound'
  <2>1. StackPage(0)' = StackPage(0) /\ PMM!Reserved' = PMM!Reserved
    BY <1>4, <1>7, TasksAssumption DEF Ids, PMM!Reserved
  <2>2. task_count' # 0
    BY <1>1 DEF StackInv, TableInv, TableTypes
  <2> QED BY <2>1, <2>2 DEF StackInv, MainSound
<1>12. Owned'
  <2> SUFFICES ASSUME NEW i \in Ids \ {0}, Active(i)', StackPage(i)' # 0
               PROVE  StackPage(i)' \in held' \ others'
    BY DEF Owned
  <2>1. CASE i = new
    BY <2>1, <1>1, <1>3, <1>8 DEF StackInv
  <2>2. CASE i # new
    BY <2>2, <1>7, <1>9 DEF StackInv, Owned
  <2> QED BY <2>1, <2>2
<1>13. Apart'
  <2> SUFFICES ASSUME NEW i \in Ids \ {0}, NEW j \in Ids \ {0}, i # j,
                      Active(i)', Active(j)', StackPage(i)' # 0
               PROVE  StackPage(i)' # StackPage(j)'
    BY DEF Apart
  <2>1. CASE i = new
    <3>1. p # 0 /\ p \notin held /\ StackPage(j)' = StackPage(j) /\ Active(j)
      BY <2>1, <1>3, <1>7, <1>8
    <3>2. StackPage(j) = 0 \/ StackPage(j) \in held
      BY <3>1 DEF StackInv, Owned
    <3> QED BY <2>1, <3>1, <3>2, <1>8
  <2>2. CASE j = new
    <3>1. StackPage(i)' = StackPage(i) /\ Active(i) /\ StackPage(i) \in held
      BY <2>2, <1>7 DEF StackInv, Owned
    <3> QED BY <2>2, <3>1, <1>3, <1>8
  <2>3. CASE i # new /\ j # new
    BY <2>3, <1>7 DEF StackInv, Apart
  <2> QED BY <2>1, <2>2, <2>3
<1>14. \A i \in Ids \ {0} : Active(i) => StackPage(i)' = StackPage(i)
  BY <1>4, <1>7
<1> QED BY <1>2, <1>9, <1>10, <1>11, <1>12, <1>13, <1>14 DEF StackInv

-----------------------------------------------------------------------------
(* The timer interrupts the running task somewhere on its stack, and       *)
(* schedule resumes the next where it was.                                 *)
LEMMA StackPreempt ==
  ASSUME StackInv, Preempt PROVE StackInv' /\ StacksStay
<1>1. PICK p \in StackPages, d \in Depths : Schedule(Interrupted(p, d))
  BY DEF Preempt
<1> DEFINE e == Interrupted(p, d)
<1>2. UNCHANGED <<memory_bitmap, held, ptr, task_count, others>>
  BY <1>1 DEF Schedule
<1>3. p \in Nat /\ p < PMM!NFrames
  <2>1. CASE current_task = 0
    BY <2>1, Memory, TasksAssumption DEF StackPages, PMM!NFrames
  <2>2. CASE current_task # 0
    BY <2>2, PageInMemory DEF StackPages, StackInv, AddressesSound, TableInv, TableTypes
  <2> QED BY <2>1, <2>2
<1>4. Page(e) = p /\ e < Limit /\ e \in Nat
  <2>1. d \in Near
    BY DEF Near
  <2>2. p \in PMM!FrameIds
    BY <1>3, Memory DEF PMM!FrameIds
  <2> QED BY <2>1, <2>2, BelowTheEnd
<1>5. IF current_task = 0 THEN p \in PMM!Reserved ELSE p = StackPage(current_task)
  BY DEF StackPages, PMM!Reserved, StackPage
<1> HIDE DEF e
<1>6. FramesOK' /\ TableInv'
  <2>1. TableInv'
    BY <1>1, <1>4, TableSchedule DEF StackInv, e
  <2> QED BY <1>2, <2>1, FramesStay DEF StackInv
<1>7. /\ \A i \in Ids : (Active(i)' <=> Active(i)) /\ tasks'[i].esp < Limit
      /\ resumed' < Limit
      /\ \A i \in Ids : StackPage(i)' = IF i = current_task THEN p ELSE StackPage(i)
  <2>1. CASE task_count <= 1
    <3>1. resumed' = e /\ UNCHANGED <<tasks, current_task>>
      BY <1>1, <2>1 DEF Schedule, e
    <3> QED BY <3>1, <1>4 DEF StackInv, AddressesSound, Active, StackPage, Page, PMM!FrameSize
  <2>2. CASE ~(task_count <= 1)
    <3>1. PICK j \in Ids :
            /\ tasks' = [tasks EXCEPT ![current_task].esp = e]
            /\ current_task' = j /\ resumed' = tasks'[j].esp
      BY <1>1, <2>2 DEF Schedule, e
    <3>2. current_task \in Ids /\ tasks \in [Ids -> [esp : Nat, id : Ids, active : {0, 1}]]
      BY DEF StackInv, TableInv, TableTypes
    <3>3. \A i \in Ids : /\ tasks'[i].active = tasks[i].active
                         /\ tasks'[i].esp = IF i = current_task THEN e ELSE tasks[i].esp
      BY <3>1, <3>2
    <3>4. \A i \in Ids : StackPage(i)' = Page(tasks'[i].esp)
      BY <3>1 DEF StackPage, Page, PMM!FrameSize
    <3>5. \A i \in Ids : i # current_task => StackPage(i) = Page(tasks[i].esp)
      BY DEF StackPage
    <3>6. \A i \in Ids : tasks'[i].esp < Limit
      BY <3>3, <1>4 DEF StackInv, AddressesSound
    <3> QED BY <3>1, <3>3, <3>4, <3>5, <3>6, <1>4 DEF Active
  <2> QED BY <2>1, <2>2
<1>8. StacksStay
  BY <1>5, <1>7 DEF StacksStay
<1>9. AddressesSound'
  BY <1>7 DEF AddressesSound, Limit, PMM!NFrames, PMM!FrameSize
<1>10. MainSound'
  <2>1. 0 \in Ids
    BY TasksAssumption DEF Ids
  <2>2. StackPage(0)' \in PMM!Reserved
    BY <2>1, <1>5, <1>7 DEF StackInv, MainSound
  <2>3. task_count' # 0
    BY <1>2 DEF Preempt
  <2> QED BY <2>2, <2>3 DEF MainSound, PMM!Reserved
<1>11. Owned' /\ Apart'
  BY <1>2, <1>8, StayKeeps
<1> QED BY <1>2, <1>6, <1>8, <1>9, <1>10, <1>11 DEF StackInv

LEMMA StackStutter ==
  ASSUME StackInv, UNCHANGED taskVars PROVE StackInv' /\ StacksStay
<1>1. StacksStay
  BY DEF taskVars, StacksStay, Active, StackPage, Page, PMM!FrameSize
<1>2. Owned' /\ Apart'
  BY <1>1, StayKeeps DEF taskVars
<1>3. FramesOK'
  BY FramesStay DEF StackInv, taskVars
<1>4. TableInv'
  BY DEF StackInv, taskVars, TableInv, TableTypes, TableSound, Active
<1>5. AddressesSound' /\ MainSound'
  BY DEF StackInv, taskVars, AddressesSound, MainSound, Limit, PMM!NFrames, PMM!FrameSize,
         StackPage, Page, PMM!Reserved
<1> QED BY <1>1, <1>2, <1>3, <1>4, <1>5 DEF StackInv, taskVars

(* No step moves the stack of a task that has one.                         *)
KeepsStacks == \A i \in Ids \ {0} : Active(i) => StackPage(i)' = StackPage(i)

LEMMA StackStep == ASSUME StackInv, [Next]_taskVars PROVE StackInv' /\ KeepsStacks
<1>1. CASE InitMultitasking
  <2>1. \A i \in Ids : ~Active(i)
    BY <1>1 DEF InitMultitasking, StackInv, TableInv, TableSound, Ids
  <2> QED BY <1>1, <2>1, StackInitMultitasking DEF KeepsStacks
<1>2. CASE Preempt
  BY <1>2, StackPreempt DEF StacksStay, KeepsStacks
<1>3. CASE Spawn
  BY <1>3, StackCreate DEF Spawn, KeepsStacks
<1>4. CASE AllocCommand
  BY <1>4, StackAlloc DEF StacksStay, KeepsStacks
<1>5. CASE UNCHANGED taskVars
  BY <1>5, StackStutter DEF StacksStay, KeepsStacks
<1> QED BY <1>1, <1>2, <1>3, <1>4, <1>5 DEF Next

-----------------------------------------------------------------------------
(* Every stack pointer in the table is an address in memory, and a task    *)
(* that got a frame from create_task is the only one on it; neither the    *)
(* heap nor alloc ever gets that frame (cpu/task.c, drivers/pmm.c).        *)
THEOREM StacksAlwaysSound == Spec => []StacksSound
<1>1. Init => StackInv
  BY StackInit
<1>2. StackInv /\ [Next]_taskVars => StackInv'
  BY StackStep
<1>3. StackInv => StacksSound
  BY StackInvSound
<1> QED BY <1>1, <1>2, <1>3, PTL DEF Spec

(* However timer interrupts, new tasks and allocations interleave, a task  *)
(* comes back on the stack it left (schedule and create_task, cpu/task.c). *)
THEOREM StacksAlwaysKept == Spec => StacksKept
<1>1. Init => StackInv
  BY StackInit
<1>2. StackInv /\ [Next]_taskVars => StackInv'
  BY StackStep
<1>3. StackInv /\ [Next]_taskVars => [KeepsStacks]_taskVars
  BY StackStep
<1>4. Spec => [][KeepsStacks]_taskVars
  BY <1>1, <1>2, <1>3, PTL DEF Spec
<1> QED BY <1>4 DEF StacksKept, KeepsStacks
=============================================================================
