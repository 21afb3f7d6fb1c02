------------------------------ MODULE TaskLife ------------------------------
(***************************************************************************)
(* Tasks that come and go while the system runs: dos_task_create,          *)
(* dos_task_delete, dos_task_exit and the idle task that recycles, with    *)
(* the sleeping, waiting and waking of task.c around them, and the         *)
(* two-level priority table of more than 32 priorities.  A task is the     *)
(* memory of its control block, which is used again after it is freed.     *)
(*                                                                         *)
(* A critical section, a switch and an operation on a list are one step.   *)
(* In the calls above the kernel leaves interrupts enabled; an interrupt   *)
(* falls between their steps when the usage says so.                       *)
(***************************************************************************)
EXTENDS Integers, FiniteSets, FiniteSetsExt, TaskStatus

CONSTANTS
  Tasks,       \* control blocks: the memory of them
  Main,        \* the first task, which makes the others
  Idle,
  NoTask,      \* what an empty list holds for a task
  Stacks,      \* the memory of stacks
  NumPrio,     \* DOS_MAX_PRIORITY_NUM
  Width,       \* the bits of a word of the priority table, 32
  Usages

AllTasks == Tasks \cup {Idle}
Prio == 0 .. NumPrio - 1
Calls == {"create", "delete", "exit", "recycle"}

(* The priority of Main, those asked for new tasks, those that create and  *)
(* delete, whether a device interrupt posts, the calls that interrupts get *)
(* into, and whether the application deletes a task only when no other     *)
(* deletes it and it is in none of these calls itself.                     *)
UsageType == [main : Prio, prios : SUBSET Nat, makers : SUBSET Prio,
              isr : BOOLEAN, windows : SUBSET Calls, exclusive : BOOLEAN]

ASSUME LifeAssumption ==
  /\ Main \in Tasks /\ Idle \notin Tasks /\ NoTask \notin AllTasks
  /\ NumPrio \in Nat \ {0} /\ Width \in Nat \ {0}
  /\ Usages \subseteq UsageType

VARIABLES
  used, used_stacks,   \* the blocks that the heap has given out
  stack, prio, status, \* fields of each control block
  item,                \* the list its status_item is on, or "none"
  pend,                \* whether its pend_item is on an object's pend list
  dos_task_priority,   \* the bits of the table, each a word and a bit
  current,
  pc,                  \* where each task is in the calls modelled here
  task, seen, priority,  \* their local variables: the task, its status, the
  loaded,                \* argument, and the table while a bit is being set
  usage

blocks == <<used, used_stacks, stack, prio>>
lists == <<status, item, pend, dos_task_priority>>
locals == <<pc, task, seen, priority, loaded>>
vars == <<blocks, lists, current, locals, usage>>

-----------------------------------------------------------------------------
(* The macros of task.h for the bit of a priority (an index truncates      *)
(* towards zero), and the search of dos_check_task_priority.               *)
TableIndex(p) == IF p = 0 THEN 0 ELSE (p - 1) \div Width
TableBit(p) == <<TableIndex(p), p % Width>>

Highest(table) ==
  LET word == Min({e[1] : e \in table})
  IN  Min({e[2] : e \in {x \in table : x[1] = word}}) + Width * word

ReadyAt(p, where) == {t \in AllTasks : where[t] = "ready" /\ prio[t] = p}

(* The table after t left a list: its bit is reset when no task of its     *)
(* priority is ready.  A fault comes first.                                *)
ResetAlways(t, where) == dos_task_priority \ {TableBit(prio[t])}
ResetBit(t, where) ==
  IF ReadyAt(prio[t], where) = {} THEN dos_task_priority \ {TableBit(prio[t])}
                                  ELSE dos_task_priority

(* dos_scheduler and PendSV_Handler: a task of the highest priority in the *)
(* table, if the current one is not ready or not of it, or its slice ends. *)
Chosen(table, where, st) ==
  LET p == Highest(table)
      first == IF ReadyAt(p, where) = {} THEN {NoTask} ELSE ReadyAt(p, where)
  IN  IF p < prio[current] \/ "READY" \notin st[current] THEN first
      ELSE IF Cardinality(ReadyAt(prio[current], where)) > 1 THEN first \cup {current}
      ELSE {current}

Schedule == current' \in Chosen(dos_task_priority', item', status')

-----------------------------------------------------------------------------
(* The priority of the idle task.                                          *)
IdlePrio == NumPrio - 1

Init ==
  /\ usage \in Usages
  /\ used = {Main, Idle} /\ current = Main
  /\ LET s0 == CHOOSE s \in Stacks : TRUE
         s1 == CHOOSE s \in Stacks : s # s0
     IN  /\ used_stacks = {s0, s1}
         /\ stack = [t \in AllTasks |-> IF t = Idle THEN s0 ELSE s1]
  /\ prio = [t \in AllTasks |-> IF t = Idle THEN IdlePrio ELSE usage.main]
  /\ status = [t \in AllTasks |-> IF t \in used THEN {"READY"} ELSE {}]
  /\ item = [t \in AllTasks |-> IF t \in used THEN "ready" ELSE "none"]
  /\ pend = [t \in AllTasks |-> FALSE]
  /\ dos_task_priority = {TableBit(prio[t]) : t \in used}
  /\ pc = [t \in AllTasks |-> "run"]
  /\ task = [t \in AllTasks |-> NoTask] /\ seen = [t \in AllTasks |-> {}]
  /\ priority = [t \in AllTasks |-> 0] /\ loaded = [t \in AllTasks |-> {}]

(* The call that the current task is in.                                   *)
Creating == {"alloc", "back", "load", "store"}
Call == CASE pc[current] \in Creating -> "create"
          [] current = Idle -> "recycle"
          [] task[current] = current -> "exit"
          [] OTHER -> "delete"

At(t, place) == current = t /\ pc[t] = place
Running(t) == t # Idle /\ At(t, "run") /\ "TIMEOUT" \notin status[t]
Interruptible == current # NoTask /\ (pc[current] = "run" \/ Call \in usage.windows)

(* dos_task_sleep, and dos_task_wait with a timeout or without.            *)
Sleep(t) ==
  /\ Running(t)
  /\ status' = [status EXCEPT ![t] = Asleep(@)]
  /\ item' = [item EXCEPT ![t] = "sleep"]
  /\ dos_task_priority' = ResetBit(t, item')
  /\ Schedule
  /\ UNCHANGED <<blocks, pend, locals, usage>>

Wait(t, forever) ==
  /\ Running(t)
  /\ status' = [status EXCEPT ![t] = Blocked(@, forever)]
  /\ item' = [item EXCEPT ![t] = IF forever THEN "none" ELSE "sleep"]
  /\ pend' = [pend EXCEPT ![t] = TRUE]
  /\ dos_task_priority' = ResetBit(t, item')
  /\ Schedule
  /\ UNCHANGED <<blocks, locals, usage>>

(* A wait that has timed out ends in the task.                             *)
GiveUp(t) ==
  /\ At(t, "run") /\ "TIMEOUT" \in status[t]
  /\ status' = [status EXCEPT ![t] = Resumed(@)]
  /\ pend' = [pend EXCEPT ![t] = FALSE]
  /\ UNCHANGED <<blocks, item, dos_task_priority, current, locals, usage>>

(* dos_tick_update, with some of the sleeping tasks due.                   *)
Tick ==
  /\ Interruptible
  /\ \E due \in SUBSET {t \in Tasks : item[t] = "sleep"} :
       /\ status' = [t \in AllTasks |-> IF t \in due THEN TimedOut(status[t]) ELSE status[t]]
       /\ item' = [t \in AllTasks |-> IF t \in due THEN "ready" ELSE item[t]]
       /\ dos_task_priority' = dos_task_priority \cup {TableBit(prio[t]) : t \in due}
  /\ Schedule
  /\ UNCHANGED <<blocks, pend, locals, usage>>

(* A post wakes a task that waits: from a task, or from an interrupt.      *)
Post(t) ==
  /\ IF usage.isr THEN Interruptible ELSE current # NoTask /\ Running(current)
  /\ pend[t]
  /\ status' = [status EXCEPT ![t] = Woken(@)]
  /\ item' = [item EXCEPT ![t] = "ready"]
  /\ pend' = [pend EXCEPT ![t] = FALSE]
  /\ dos_task_priority' = dos_task_priority \cup {TableBit(prio[t])}
  /\ Schedule
  /\ UNCHANGED <<blocks, locals, usage>>

(* dos_task_create tests the priority and takes the control block; the     *)
(* allocator's release of the scheduler may already switch.                *)
Create(t, p) ==
  /\ Running(t) /\ prio[t] \in usage.makers
  /\ p <= NumPrio
  /\ \E new \in Tasks \ used :
       /\ used' = used \cup {new}
       /\ task' = [task EXCEPT ![t] = new, ![new] = NoTask]
       /\ pc' = [pc EXCEPT ![t] = "alloc", ![new] = "run"]
       /\ seen' = [seen EXCEPT ![new] = {}] /\ loaded' = [loaded EXCEPT ![new] = {}]
       /\ priority' = [priority EXCEPT ![t] = p, ![new] = 0]
  /\ current' \in Chosen(dos_task_priority, item, status)
  /\ UNCHANGED <<used_stacks, stack, prio, lists, usage>>

(* Then the stack, if the heap has the memory (others use it too);         *)
(* task_status is what the memory holds ...                                *)
CreateStack(t) ==
  /\ At(t, "alloc")
  /\ LET new == task[t]
         s == CHOOSE s \in Stacks : s \notin used_stacks
     IN  \/ /\ Stacks \ used_stacks # {}
            /\ used_stacks' = used_stacks \cup {s}
            /\ stack' = [stack EXCEPT ![new] = s]
            /\ prio' = [prio EXCEPT ![new] = priority[t]]
            /\ pc' = [pc EXCEPT ![t] = "load"]
         \/ pc' = [pc EXCEPT ![t] = "back"] /\ UNCHANGED <<used_stacks, stack, prio>>
  /\ priority' = [priority EXCEPT ![t] = 0]
  /\ current' \in Chosen(dos_task_priority, item, status)
  /\ UNCHANGED <<used, lists, task, seen, loaded, usage>>

(* ... or it frees the control block.                                      *)
GiveBack(t) ==
  /\ At(t, "back")
  /\ used' = used \ {task[t]}
  /\ pc' = [pc EXCEPT ![t] = "run"] /\ task' = [task EXCEPT ![t] = NoTask]
  /\ UNCHANGED <<used_stacks, stack, prio, lists, current, seen, priority, loaded, usage>>

(* _dos_insert_task_priority_list: the table is read ...                   *)
LoadTable(t) ==
  /\ At(t, "load")
  /\ loaded' = [loaded EXCEPT ![t] = dos_task_priority]
  /\ pc' = [pc EXCEPT ![t] = "store"]
  /\ UNCHANGED <<blocks, lists, current, task, seen, priority, usage>>

(* ... and written with the bit; no scheduling follows.  There is no ready *)
(* list of priority NumPrio: what happens after that insert is undefined,  *)
(* and not modelled.                                                       *)
Stored(t, p) == loaded[t] \cup {TableBit(p)}

Insert(t) ==
  /\ At(t, "store")
  /\ LET new == task[t]
     IN  /\ dos_task_priority' = Stored(t, prio[new])
         /\ status' = [status EXCEPT ![new] = @ \cup {"READY"}]
         /\ item' = [item EXCEPT ![new] = "ready"]
  /\ pc' = [pc EXCEPT ![t] = "run"]
  /\ task' = [task EXCEPT ![t] = NoTask] /\ loaded' = [loaded EXCEPT ![t] = {}]
  /\ current' = IF prio[task[t]] \in Prio THEN current ELSE NoTask
  /\ UNCHANGED <<blocks, pend, seen, priority, usage>>

(* dos_task_delete reads the status, of another task or (dos_task_exit) of *)
(* its own.  Nobody has the pointer of a task that is still being created. *)
Delete(t, x) ==
  /\ Running(t) /\ (prio[t] \in usage.makers \/ x = t)
  /\ x \in used \ {Idle} /\ status[x] # {"UNUSED"}
  /\ \A u \in AllTasks : task[u] = x => pc[u] \notin Creating
  /\ usage.exclusive => pc[x] = "run" /\ \A u \in AllTasks : task[u] # x
  /\ task' = [task EXCEPT ![t] = x] /\ seen' = [seen EXCEPT ![t] = status[x]]
  /\ pc' = [pc EXCEPT ![t] = "unlist"]
  /\ UNCHANGED <<blocks, lists, current, priority, loaded, usage>>

OnStatusList(st) == "READY" \in st
LeavesStatusList(st) == st \cap {"DELAY", "READY"} # {}

Unlist(t) ==
  /\ At(t, "unlist")
  /\ LET x == task[t]
     IN  IF LeavesStatusList(seen[t])
         THEN /\ item' = [item EXCEPT ![x] = "none"]
              /\ dos_task_priority' = IF item[x] = "none" THEN dos_task_priority ELSE ResetBit(x, item')
         ELSE UNCHANGED <<item, dos_task_priority>>
  /\ pc' = [pc EXCEPT ![t] = "unpend"]
  /\ UNCHANGED <<blocks, status, pend, current, task, seen, priority, loaded, usage>>

LeavesPendList(st) == "SUSPEND" \in st

Unpend(t) ==
  /\ At(t, "unpend")
  /\ LET x == task[t]
     IN  /\ pend' = [pend EXCEPT ![x] = @ /\ ~LeavesPendList(seen[t])]
         /\ status' = [status EXCEPT ![x] = {"UNUSED"}]
         /\ pc' = [pc EXCEPT ![t] = IF x = t THEN "exit" ELSE "free"]
  /\ seen' = [seen EXCEPT ![t] = {}]
  /\ UNCHANGED <<blocks, item, dos_task_priority, current, task, priority, loaded, usage>>

(* The memory is freed, the control block first, then the stack that it    *)
(* names; so does the idle task.                                           *)
Free(t) ==
  /\ At(t, "free")
  /\ used' = used \ {task[t]}
  /\ pc' = [pc EXCEPT ![t] = "stack"]
  /\ UNCHANGED <<used_stacks, stack, prio, lists, current, task, seen, priority, loaded, usage>>

NoStack(x) == NoTask
FreedStack(x) == stack[x]

FreeStack(t) ==
  /\ At(t, "stack")
  /\ used_stacks' = used_stacks \ {FreedStack(task[t])}
  /\ pc' = [pc EXCEPT ![t] = "run"] /\ task' = [task EXCEPT ![t] = NoTask]
  /\ UNCHANGED <<used, stack, prio, lists, current, seen, priority, loaded, usage>>

(* The end of dos_task_exit: the task waits to be recycled.                *)
NotRecycled == "none"
RecycleList == "recycle"

Exit(t) ==
  /\ At(t, "exit")
  /\ item' = [item EXCEPT ![t] = RecycleList]
  /\ pc' = [pc EXCEPT ![t] = "run"] /\ task' = [task EXCEPT ![t] = NoTask]
  /\ UNCHANGED <<status, pend, dos_task_priority>>
  /\ Schedule
  /\ UNCHANGED <<blocks, seen, priority, loaded, usage>>

(* _dos_idle_task takes a task from the recycle list.                      *)
Recycle(x) ==
  /\ At(Idle, "run") /\ item[x] = "recycle"
  /\ item' = [item EXCEPT ![x] = "none"]
  /\ task' = [task EXCEPT ![Idle] = x]
  /\ pc' = [pc EXCEPT ![Idle] = "free"]
  /\ UNCHANGED <<blocks, status, pend, dos_task_priority, current, seen, priority, loaded, usage>>

Next ==
  \/ Tick
  \/ \E t \in Tasks :
       \/ Sleep(t) \/ GiveUp(t) \/ Post(t) \/ Exit(t) \/ Recycle(t)
       \/ CreateStack(t) \/ GiveBack(t) \/ LoadTable(t) \/ Insert(t) \/ Unlist(t) \/ Unpend(t)
       \/ \E forever \in BOOLEAN : Wait(t, forever)
       \/ \E p \in usage.prios : Create(t, p)
       \/ \E x \in Tasks : Delete(t, x)
  \/ \E t \in AllTasks : Free(t) \/ FreeStack(t)

Spec == Init /\ [][Next]_vars

(* The idle task, whenever it runs again and again, goes on; and so does a *)
(* task in a call while it runs.                                           *)
Recycles == Free(Idle) \/ FreeStack(Idle) \/ \E x \in Tasks : Recycle(x)
Exits(t) == Unlist(t) \/ Unpend(t) \/ Exit(t)
FairSpec == Spec /\ SF_vars(Recycles) /\ \A t \in Tasks : SF_vars(Exits(t))

-----------------------------------------------------------------------------
Undisturbed(call) == call \notin usage.windows
(* No interrupt gets into a delete, or none that makes the deleted task    *)
(* run or go elsewhere: those that delete are above the others.            *)
DeleteSafe ==
  \/ Undisturbed("delete")
  \/ ~usage.isr /\ \A p \in usage.prios, q \in usage.makers : q < p
(* No priority but 0 is a multiple of the width of a word.                 *)
Aligned == \A p \in usage.prios \cup {usage.main, IdlePrio} : p = 0 \/ p % Width # 0

(* The priorities of tasks have a ready list.                              *)
InRange == usage.prios \subseteq Prio

(* The priority the scheduler reads from the table is that of the best     *)
(* task on a ready list, whoever was created, deleted, put to sleep or     *)
(* woken.                                                                  *)
HighestFound ==
  (InRange /\ Aligned /\ Undisturbed("create")) =>
    Highest(dos_task_priority) = Min({prio[t] : t \in {u \in AllTasks : item[u] = "ready"}})

(* A control block that was freed is on no list.                           *)
FreedUnlisted ==
  (InRange /\ DeleteSafe) => \A t \in AllTasks \ used : item[t] = "none" /\ ~pend[t]

(* Tasks have a stack each, that the heap has not got back, and no stack   *)
(* is lost: except for a task being freed, and one being created that has  *)
(* no stack yet, used stacks are those of tasks.                           *)
StacksOwned ==
  (InRange /\ usage.exclusive /\ DeleteSafe /\ Undisturbed("recycle")) =>
    LET about(place) == {task[t] : t \in {u \in AllTasks : pc[u] = place}}
        owners == (used \ (about("alloc") \cup about("back"))) \cup about("stack")
    IN  /\ used_stacks = {stack[t] : t \in owners}
        /\ Cardinality(used_stacks) = Cardinality(owners)

(* A task that exits is freed, if the application leaves the idle task     *)
(* time again and again and other tasks do not come to the recycle list    *)
(* for ever (it is sorted by old wake times, and they may come first).     *)
ExitedRecycled ==
  \A t \in Tasks :
    (/\ InRange /\ Undisturbed("exit") /\ []<>(current = Idle)
     /\ <>[](\A u \in Tasks \ {t} : item[u] # "recycle"))
      => ((pc[t] = "unlist" /\ task[t] = t) ~> (t \notin used))
=============================================================================
