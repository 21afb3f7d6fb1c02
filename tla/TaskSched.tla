----------------------------- MODULE TaskSched ------------------------------
(***************************************************************************)
(* The scheduler of DoraOS: task.c and sys.c, with the PendSV and SysTick  *)
(* handlers of the Cortex-M port.  Ready lists and their priority bitmap,  *)
(* the two sleep lists and the wrapping tick, blocking on and waking from  *)
(* a pend list, priority inheritance, the scheduler lock and the context   *)
(* switch.                                                                 *)
(*                                                                         *)
(* Granularity.  A critical section (dos_interrupt_disable to              *)
(* dos_interrupt_enable) is one step.  dos_scheduler called with           *)
(* interrupts enabled is two: it computes the highest ready priority, and  *)
(* later stores it and decides; an interrupt may fall between the two.     *)
(* The SysTick handler is one step per iteration of its wake-up loop, and  *)
(* a device interrupt of higher priority may fall between two of them.     *)
(***************************************************************************)
EXTENDS Integers, FiniteSets, TaskList

CONSTANTS
  Tasks,       \* the application's tasks
  Idle,        \* the idle task
  NoTask,      \* DOS_NULL
  NumPrio,     \* DOS_MAX_PRIORITY_NUM
  BasePrio,    \* the priority each task is created with
  InitTick,    \* task_init_tick of each task
  TickMod,     \* the tick counter's modulus (2^32 on the target)
  Calls,       \* the kernel calls the application makes
  SleepTicks,  \* the arguments it passes to dos_task_sleep
  Timeouts,    \* the timeouts it blocks with, DOS_WAIT_FOREVER included
  MaxLock      \* bound on the nesting of dos_scheduler_lock

AllTasks == Tasks \cup {Idle}
Prio == 0 .. NumPrio - 1
Tick == 0 .. TickMod - 1
UINT32_MAX == TickMod - 1
WAIT_FOREVER == UINT32_MAX
CallNames == {"sleep", "yield", "wait", "post", "lock", "isr"}
StatusBits == {"READY", "DELAY", "TIMEOUT", "SUSPEND"}

ASSUME SchedAssumption ==
  /\ NumPrio \in Nat \ {0}
  /\ TickMod \in Nat /\ TickMod > 1
  /\ Idle \notin Tasks
  /\ NoTask \notin AllTasks
  /\ BasePrio \in [AllTasks -> Prio]
  /\ InitTick \in [AllTasks -> Nat \ {0}]
  /\ Calls \subseteq CallNames
  /\ SleepTicks \subseteq Tick \ {0}
  /\ Timeouts \subseteq Tick \ {0}
  /\ MaxLock \in Nat

(* The idle task is created first, with the lowest priority, before any    *)
(* application task (dos_task_init, DOS_IDLE_TASK_PRIORITY).                *)
ASSUME IdleAssumption == BasePrio[Idle] = NumPrio - 1

VARIABLES
  task_status,            \* the status bits of each task
  priority,               \* its current priority
  status_value,           \* status_item.dos_task_value
  task_tick,              \* what is left of its time slice
  dos_task_priority,      \* the bitmap, as the set of its bits
  dos_task_priority_list, \* the ready lists
  sleep_list,             \* _dos_task_sleep_list
  overflow_list,          \* _dos_task_sleep_overflow_list
  pend_list,              \* the pend list of one kernel object
  dos_tick_count,
  dos_next_wake_tick,
  dos_current_task,
  dos_cur_priority,
  scheduler_lock,
  pendsv,                 \* PendSV is pending
  isr,                    \* where the SysTick handler is
  pc,                     \* where each task is inside the kernel
  hp                      \* the highest priority a dos_scheduler call has
                          \* computed and not yet stored (0 outside it)

readyVars == <<dos_task_priority, dos_task_priority_list>>
sleepVars == <<sleep_list, overflow_list, status_value, dos_next_wake_tick>>
schedVars == <<dos_cur_priority, task_tick, pendsv>>
vars == <<task_status, priority, readyVars, sleepVars, pend_list, schedVars,
          dos_tick_count, dos_current_task, scheduler_lock, isr, pc, hp>>

Handler == "SysTick"   \* the index of hp the SysTick handler uses

-----------------------------------------------------------------------------
(* Bitmap and ready lists.                                                 *)

(* Fault: the search starts from the wrong end of the bitmap.               *)
HighestPriorityFault(bits) == IF bits = {} THEN 0 ELSE Max(bits)

(* _dos_get_highest_priority: the lowest bit that is set, 0 if none is.     *)
HighestPriority(bits) == IF bits = {} THEN 0 ELSE Min(bits)

(* dos_task_item_del on the status item of a task that is on the ready     *)
(* list of priority p (or on none), and the cancelling of the bit of a     *)
(* list that became empty.                                                 *)
UnlinkReady(lists, t, p) == [lists EXCEPT ![p] = ListDelete(@, t, NoTask)]

ResetIfEmpty(bits, lists, p) ==
  IF lists[p].items = << >> THEN bits \ {p} ELSE bits

(* _dos_insert_task_priority_list, for a task that is on no list.          *)
LinkReady(lists, value, t, p) ==
  [lists EXCEPT ![p] = ListInsert(@, value, t)]

(* The move of a list's cursor in dos_get_first_task, dos_get_next_task.   *)
SetCursor(lists, p, t) == [lists EXCEPT ![p].task_item = t]

(* dos_check_task_priority after h has been computed, and the pending of   *)
(* PendSV when it returns true.  It reads the state the call has left.     *)
CheckTaskPriority(h) ==
  LET t == dos_current_task
      better == h < priority'[t] \/ "READY" \notin task_status'[t]
      shared == ~better /\ Len(dos_task_priority_list'[priority'[t]].items) > 1
      expired == shared /\ task_tick[t] = 1
  IN  /\ dos_cur_priority' = h
      /\ pendsv' = (pendsv \/ better \/ expired)
      /\ task_tick' = [task_tick EXCEPT ![t] = IF expired THEN InitTick[t]
                                                ELSE IF shared THEN @ - 1
                                                ELSE @]

(* dos_scheduler where no interrupt can fall inside it.                    *)
Scheduler ==
  IF scheduler_lock = 0
  THEN CheckTaskPriority(HighestPriority(dos_task_priority'))
  ELSE UNCHANGED schedVars

-----------------------------------------------------------------------------
(* What a critical section does to a task.                                 *)

(* _dos_insert_task_sleep_list for the running task, with its status set   *)
(* to st (dos_task_wait has already added SUSPEND).                        *)
SleepCurrent(st, n, bits, lists) ==
  LET t == dos_current_task
      v == (dos_tick_count + n) % TickMod
      value == [status_value EXCEPT ![t] = v]
      left == UnlinkReady(lists, t, priority[t])
  IN  /\ task_status' = [task_status EXCEPT ![t] = (st \ {"READY"}) \cup {"DELAY"}]
      /\ dos_task_priority_list' = left
      /\ dos_task_priority' = ResetIfEmpty(bits, left, priority[t])
      /\ status_value' = value
      /\ IF v < dos_tick_count
         THEN /\ overflow_list' = InsertItem(DeleteItem(overflow_list, t), value, t)
              /\ sleep_list' = DeleteItem(sleep_list, t)
              /\ UNCHANGED dos_next_wake_tick
         ELSE /\ sleep_list' = InsertItem(DeleteItem(sleep_list, t), value, t)
              /\ overflow_list' = DeleteItem(overflow_list, t)
              /\ dos_next_wake_tick' =
                   IF dos_next_wake_tick >= v THEN v ELSE dos_next_wake_tick

(* The FOREVER branch of dos_task_wait.                                    *)
BlockCurrent(st, bits, lists) ==
  LET t == dos_current_task
      left == UnlinkReady(lists, t, priority[t])
  IN  /\ task_status' = [task_status EXCEPT ![t] = st \ {"READY"}]
      /\ dos_task_priority_list' = left
      /\ dos_task_priority' = ResetIfEmpty(bits, left, priority[t])
      /\ UNCHANGED sleepVars

(* dos_task_wake for task t of the pend list: TIMEOUT is left as it is.    *)
Wake(t, bits, lists) ==
  LET p == priority'[t]
  IN  /\ pend_list' = DeleteItem(pend_list, t)
      /\ task_status' = [task_status EXCEPT ![t] =
                           (@ \ {"SUSPEND", "DELAY"}) \cup {"READY"}]
      /\ dos_task_priority' = bits \cup {p}
      /\ dos_task_priority_list' =
           LinkReady(UnlinkReady(lists, t, p), status_value, t, p)
      /\ sleep_list' = DeleteItem(sleep_list, t)
      /\ overflow_list' = DeleteItem(overflow_list, t)
      /\ UNCHANGED <<status_value, dos_next_wake_tick>>

(* Fault: the task is not taken off the ready list of its old priority.    *)
MovedListsFault(t, p) ==
  IF "READY" \in task_status[t]
  THEN LinkReady(dos_task_priority_list, status_value, t, p)
  ELSE dos_task_priority_list

(* dos_set_task_priority: the lists and the bitmap it leaves.  Only a      *)
(* READY task is on a ready list.                                          *)
MovedLists(t, p) ==
  IF "READY" \in task_status[t]
  THEN LinkReady(UnlinkReady(dos_task_priority_list, t, priority[t]),
                 status_value, t, p)
  ELSE dos_task_priority_list

MovedBits(t, p) ==
  IF "READY" \in task_status[t]
  THEN ResetIfEmpty(dos_task_priority,
                    UnlinkReady(dos_task_priority_list, t, priority[t]),
                    priority[t]) \cup {p}
  ELSE dos_task_priority

-----------------------------------------------------------------------------
(* The running task.                                                       *)

Running(t) ==
  t = dos_current_task /\ t \in Tasks /\ isr = "none" /\ ~pendsv

InApp(t, call) == Running(t) /\ pc[t] = "app" /\ call \in Calls

(* dos_task_sleep(n), n > 0: the whole call runs with interrupts disabled. *)
Sleep(t, n) ==
  /\ InApp(t, "sleep")
  /\ SleepCurrent(task_status[t], n, dos_task_priority, dos_task_priority_list)
  /\ UNCHANGED <<priority, pend_list, dos_tick_count, dos_current_task,
                 scheduler_lock, isr, pc, hp>>
  /\ Scheduler

(* dos_task_sleep(0). *)
Yield(t) ==
  /\ InApp(t, "yield")
  /\ pc' = [pc EXCEPT ![t] = "sched"]
  /\ UNCHANGED <<task_status, priority, readyVars, sleepVars, pend_list,
                 schedVars, dos_tick_count, dos_current_task, scheduler_lock,
                 isr, hp>>

(* The blocking part of dos_sem_pend, dos_queue_read, dos_event_wait and   *)
(* dos_mutex_pend.  The last one first gives the owner u the priority of   *)
(* the running task if it is better than the one u took the mutex with.    *)
Wait(t, timeout, u) ==
  /\ InApp(t, "wait")
  /\ scheduler_lock = 0
  /\ u # NoTask => BasePrio[u] > priority[t]
  /\ priority' = IF u = NoTask THEN priority
                 ELSE [priority EXCEPT ![u] = priority[t]]
  /\ pend_list' = InsertItem(pend_list, BasePrio, t)
  /\ LET lists == IF u = NoTask THEN dos_task_priority_list
                  ELSE MovedLists(u, priority[t])
         bits == IF u = NoTask THEN dos_task_priority
                 ELSE MovedBits(u, priority[t])
         st == task_status[t] \cup {"SUSPEND"}
     IN  IF timeout = WAIT_FOREVER THEN BlockCurrent(st, bits, lists)
         ELSE SleepCurrent(st, timeout, bits, lists)
  /\ pc' = [pc EXCEPT ![t] = "waitsched"]
  /\ UNCHANGED <<schedVars, dos_tick_count, dos_current_task, scheduler_lock,
                 isr, hp>>

(* Fault: the end of a timed-out call clears SUSPEND only.                 *)
WaitReturnFault(t) ==
  /\ Running(t) /\ pc[t] = "woken"
  /\ pc' = [pc EXCEPT ![t] = "app"]
  /\ task_status' = [task_status EXCEPT ![t] = @ \ {"SUSPEND"}]
  /\ pend_list' = DeleteItem(pend_list, t)
  /\ UNCHANGED <<priority, readyVars, sleepVars, schedVars, dos_tick_count,
                 dos_current_task, scheduler_lock, isr, hp>>

(* The end of a blocking call, after dos_scheduler has returned.           *)
WaitReturn(t) ==
  /\ Running(t) /\ pc[t] = "woken"
  /\ pc' = [pc EXCEPT ![t] = "app"]
  /\ IF "TIMEOUT" \in task_status[t]
     THEN /\ task_status' = [task_status EXCEPT ![t] =
                               (@ \ {"TIMEOUT", "SUSPEND"}) \cup {"READY"}]
          /\ pend_list' = DeleteItem(pend_list, t)
     ELSE UNCHANGED <<task_status, pend_list>>
  /\ UNCHANGED <<priority, readyVars, sleepVars, schedVars, dos_tick_count,
                 dos_current_task, scheduler_lock, isr, hp>>

(* dos_sem_post, and with restore dos_mutex_post, which first takes back   *)
(* an inherited priority: the first waiter is woken, if there is one.      *)
Post(t, restore) ==
  /\ InApp(t, "post")
  /\ restore => priority[t] # BasePrio[t]
  /\ priority' = IF restore THEN [priority EXCEPT ![t] = BasePrio[t]]
                 ELSE priority
  /\ LET lists == IF restore THEN MovedLists(t, BasePrio[t])
                  ELSE dos_task_priority_list
         bits == IF restore THEN MovedBits(t, BasePrio[t])
                 ELSE dos_task_priority
     IN  IF pend_list # << >>
         THEN /\ Wake(Head(pend_list), bits, lists)
              /\ pc' = [pc EXCEPT ![t] = "sched"]
         ELSE /\ dos_task_priority' = bits
              /\ dos_task_priority_list' = lists
              /\ UNCHANGED <<pend_list, task_status, sleepVars, pc>>
  /\ UNCHANGED <<schedVars, dos_tick_count, dos_current_task, scheduler_lock,
                 isr, hp>>

Lock(t) ==
  /\ InApp(t, "lock")
  /\ scheduler_lock < MaxLock
  /\ scheduler_lock' = scheduler_lock + 1
  /\ UNCHANGED <<task_status, priority, readyVars, sleepVars, pend_list,
                 schedVars, dos_tick_count, dos_current_task, isr, pc, hp>>

(* dos_scheduler_unlock: schedules only when the last lock is released.    *)
Unlock(t) ==
  /\ InApp(t, "lock")
  /\ scheduler_lock > 0
  /\ scheduler_lock' = scheduler_lock - 1
  /\ pc' = [pc EXCEPT ![t] = IF scheduler_lock = 1 THEN "sched" ELSE @]
  /\ UNCHANGED <<task_status, priority, readyVars, sleepVars, pend_list,
                 schedVars, dos_tick_count, dos_current_task, isr, hp>>

(* dos_scheduler with interrupts enabled: compute the highest priority ... *)
AfterSched(where) == IF where \in {"sched", "check"} THEN "app" ELSE "woken"

SchedRead(t) ==
  /\ Running(t) /\ pc[t] \in {"sched", "waitsched"}
  /\ IF scheduler_lock = 0
     THEN /\ hp' = [hp EXCEPT ![t] = HighestPriority(dos_task_priority)]
          /\ pc' = [pc EXCEPT ![t] = IF @ = "sched" THEN "check" ELSE "waitcheck"]
     ELSE /\ pc' = [pc EXCEPT ![t] = AfterSched(@)]
          /\ UNCHANGED hp
  /\ UNCHANGED <<task_status, priority, readyVars, sleepVars, pend_list,
                 schedVars, dos_tick_count, dos_current_task, scheduler_lock, isr>>

(* ... then store it and decide.                                           *)
SchedCheck(t) ==
  /\ Running(t) /\ pc[t] \in {"check", "waitcheck"}
  /\ pc' = [pc EXCEPT ![t] = AfterSched(@)]
  /\ hp' = [hp EXCEPT ![t] = 0]
  /\ UNCHANGED <<task_status, priority, readyVars, sleepVars, pend_list,
                 dos_tick_count, dos_current_task, scheduler_lock, isr>>
  /\ CheckTaskPriority(hp[t])

-----------------------------------------------------------------------------
(* Exceptions.                                                             *)

(* PendSV_Handler and dos_choose_task. On an empty list this is DOS_NULL.  *)
PendSV ==
  /\ pendsv /\ isr = "none"
  /\ LET l == dos_task_priority_list[dos_cur_priority]
         t == NextItem(l, NoTask)
     IN  /\ dos_task_priority_list' =
              SetCursor(dos_task_priority_list, dos_cur_priority, t)
         /\ dos_current_task' = t
  /\ pendsv' = FALSE
  /\ UNCHANGED <<task_status, priority, dos_task_priority, sleepVars, pend_list,
                 dos_cur_priority, task_tick, dos_tick_count, scheduler_lock,
                 isr, pc, hp>>

(* Faults: the wake tick of the new list is not loaded; no switch at all.  *)
SwitchKeepsWakeTick ==
  IF sleep_list = << >>
  THEN /\ sleep_list' = overflow_list
       /\ overflow_list' = sleep_list
       /\ UNCHANGED dos_next_wake_tick
  ELSE UNCHANGED <<sleep_list, overflow_list, dos_next_wake_tick>>

SwitchNothing == UNCHANGED <<sleep_list, overflow_list, dos_next_wake_tick>>

(* _dos_switch_sleep_list: the lists and the wake tick after the wrap.     *)
SwitchSleepList ==
  IF sleep_list = << >>
  THEN /\ sleep_list' = overflow_list
       /\ overflow_list' = sleep_list
       /\ dos_next_wake_tick' = IF overflow_list = << >> THEN UINT32_MAX
                                ELSE status_value[Head(overflow_list)]
  ELSE UNCHANGED <<sleep_list, overflow_list, dos_next_wake_tick>>

(* SysTick_Handler up to the wake-up loop of dos_tick_update. PendSV has   *)
(* the same priority and a lower exception number: pending, it goes first. *)
TickStart ==
  /\ isr = "none" /\ ~pendsv /\ dos_current_task # NoTask
  /\ isr' = "loop"
  /\ dos_tick_count' = (dos_tick_count + 1) % TickMod
  /\ IF dos_tick_count' = 0 THEN SwitchSleepList
     ELSE UNCHANGED <<sleep_list, overflow_list, dos_next_wake_tick>>
  /\ UNCHANGED <<task_status, priority, readyVars, status_value, pend_list,
                 schedVars, dos_current_task, scheduler_lock, pc, hp>>

(* Fault: the value of the first sleeper is not looked at.                 *)
DueAll == dos_tick_count >= dos_next_wake_tick /\ sleep_list # << >>

Due == /\ dos_tick_count >= dos_next_wake_tick
       /\ sleep_list # << >>
       /\ status_value[Head(sleep_list)] <= dos_next_wake_tick

(* One iteration: the first sleeper becomes ready. A task that was waiting *)
(* stays on the pend list.                                                 *)
TickWake ==
  /\ isr = "loop" /\ Due
  /\ LET t == Head(sleep_list)
         p == priority[t]
     IN  /\ task_status' = [task_status EXCEPT ![t] =
                              (@ \ {"DELAY"}) \cup {"READY"} \cup
                              (IF "SUSPEND" \in @ THEN {"TIMEOUT"} ELSE {})]
         /\ dos_task_priority' = dos_task_priority \cup {p}
         /\ dos_task_priority_list' =
              LinkReady(dos_task_priority_list, status_value, t, p)
         /\ sleep_list' = Tail(sleep_list)
  /\ UNCHANGED <<priority, overflow_list, status_value, dos_next_wake_tick,
                 pend_list, schedVars, dos_tick_count, dos_current_task,
                 scheduler_lock, isr, pc, hp>>

(* The loop ends. dos_interrupt_leave then calls dos_scheduler with        *)
(* interrupts enabled: compute ...                                         *)
TickEnd ==
  /\ isr = "loop" /\ ~Due
  /\ dos_next_wake_tick' =
       IF dos_tick_count < dos_next_wake_tick THEN dos_next_wake_tick
       ELSE IF sleep_list = << >> THEN UINT32_MAX
       ELSE status_value[Head(sleep_list)]
  /\ hp' = [hp EXCEPT ![Handler] = HighestPriority(dos_task_priority)]
  /\ isr' = "check"
  /\ UNCHANGED <<task_status, priority, readyVars, sleep_list, overflow_list,
                 status_value, pend_list, schedVars, dos_tick_count,
                 dos_current_task, scheduler_lock, pc>>

(* ... and store.                                                          *)
TickLeave ==
  /\ isr = "check"
  /\ isr' = "none"
  /\ hp' = [hp EXCEPT ![Handler] = 0]
  /\ UNCHANGED <<task_status, priority, readyVars, sleepVars, pend_list,
                 dos_tick_count, dos_current_task, scheduler_lock, pc>>
  /\ IF scheduler_lock = 0 THEN CheckTaskPriority(hp[Handler])
     ELSE UNCHANGED schedVars

(* A device interrupt whose handler posts (HAL_ETH_RxCpltCallback): its    *)
(* dos_interrupt_leave schedules unless it nests inside the tick loop,     *)
(* where _dos_interrupt_count is not yet back to zero.                     *)
DeviceISR ==
  /\ "isr" \in Calls /\ dos_current_task # NoTask
  /\ pend_list # << >>
  /\ UNCHANGED <<priority, dos_tick_count, dos_current_task, scheduler_lock,
                 isr, pc, hp>>
  /\ Wake(Head(pend_list), dos_task_priority, dos_task_priority_list)
  /\ IF isr = "loop" THEN UNCHANGED schedVars ELSE Scheduler

-----------------------------------------------------------------------------
(* Booting: main creates the tasks before dos_system_start_run, when no    *)
(* interrupt can run yet. The heap is still all zeros, so a new task       *)
(* control block starts with no status bit.                                *)

Created(t) == "READY" \in task_status[t]

(* dos_task_create; dos_system_init has created the idle task before.      *)
Create(t) ==
  /\ isr = "boot" /\ ~Created(t)
  /\ t # Idle => Created(Idle)
  /\ priority' = [priority EXCEPT ![t] = BasePrio[t]]
  /\ status_value' = [status_value EXCEPT ![t] = 0]
  /\ task_tick' = [task_tick EXCEPT ![t] = InitTick[t]]
  /\ task_status' = [task_status EXCEPT ![t] = @ \cup {"READY"}]
  /\ dos_task_priority' = dos_task_priority \cup {BasePrio[t]}
  /\ dos_task_priority_list' =
       LinkReady(dos_task_priority_list, status_value', t, BasePrio[t])
  /\ UNCHANGED <<sleep_list, overflow_list, dos_next_wake_tick, pend_list,
                 dos_cur_priority, pendsv, dos_tick_count, dos_current_task,
                 scheduler_lock, isr, pc, hp>>

(* dos_system_start_run. *)
StartRun ==
  /\ isr = "boot" /\ \A t \in AllTasks : Created(t)
  /\ LET h == HighestPriority(dos_task_priority)
         t == FirstItem(dos_task_priority_list[h].items, NoTask)
     IN  /\ dos_cur_priority' = h
         /\ dos_current_task' = t
         /\ dos_task_priority_list' = SetCursor(dos_task_priority_list, h, t)
  /\ dos_tick_count' = 0
  /\ isr' = "none"
  /\ UNCHANGED <<task_status, priority, dos_task_priority, sleepVars, pend_list,
                 task_tick, pendsv, scheduler_lock, pc, hp>>

(* The static initialisers and _dos_task_list_init.                        *)
Init ==
  /\ task_status = [t \in AllTasks |-> {}]
  /\ priority = [t \in AllTasks |-> 0]
  /\ status_value = [t \in AllTasks |-> 0]
  /\ task_tick = [t \in AllTasks |-> 0]
  /\ dos_task_priority = {}
  /\ dos_task_priority_list = [p \in Prio |-> EmptyList(NoTask)]
  /\ sleep_list = << >>
  /\ overflow_list = << >>
  /\ pend_list = << >>
  /\ dos_tick_count = 0
  /\ dos_next_wake_tick = UINT32_MAX
  /\ dos_current_task = NoTask
  /\ dos_cur_priority = 0
  /\ scheduler_lock = 0
  /\ pendsv = FALSE
  /\ isr = "boot"
  /\ pc = [t \in AllTasks |-> "app"]
  /\ hp = [x \in AllTasks \cup {Handler} |-> 0]

Thread(t) ==
  \/ \E n \in SleepTicks : Sleep(t, n)
  \/ Yield(t)
  \/ \E timeout \in Timeouts, u \in (Tasks \ {t}) \cup {NoTask} : Wait(t, timeout, u)
  \/ WaitReturn(t)
  \/ \E restore \in BOOLEAN : Post(t, restore)
  \/ Lock(t)
  \/ Unlock(t)
  \/ SchedRead(t)
  \/ SchedCheck(t)

SysTick == TickStart \/ TickWake \/ TickEnd \/ TickLeave

Next ==
  \/ \E t \in AllTasks : Create(t)
  \/ StartRun
  \/ \E t \in Tasks : Thread(t)
  \/ PendSV
  \/ SysTick
  \/ DeviceISR

Spec == Init /\ [][Next]_vars

(* The hardware delivers the timer interrupt and a pending PendSV, and     *)
(* main completes the boot; tasks may compute for ever.                    *)
FairSpec == Spec /\ WF_vars(SysTick) /\ WF_vars(PendSV)
                 /\ WF_vars(StartRun) /\ \A t \in AllTasks : WF_vars(Create(t))

-----------------------------------------------------------------------------
PcValues == {"app", "sched", "check", "waitsched", "waitcheck", "woken"}
ListType == [items : Seq(AllTasks), task_item : AllTasks \cup {NoTask}]

(* Every variable holds a value of the type the code gives it.             *)
TypeOK ==
  /\ task_status \in [AllTasks -> SUBSET StatusBits]
  /\ priority \in [AllTasks -> Prio]
  /\ status_value \in [AllTasks -> Tick]
  /\ task_tick \in [AllTasks -> Nat]
  /\ dos_task_priority \subseteq Prio
  /\ dos_task_priority_list \in [Prio -> ListType]
  /\ sleep_list \in Seq(AllTasks)
  /\ overflow_list \in Seq(AllTasks)
  /\ pend_list \in Seq(AllTasks)
  /\ dos_tick_count \in Tick
  /\ dos_next_wake_tick \in Tick
  /\ dos_current_task \in AllTasks \cup {NoTask}
  /\ dos_cur_priority \in Prio
  /\ scheduler_lock \in 0 .. MaxLock
  /\ pendsv \in BOOLEAN
  /\ isr \in {"boot", "none", "loop", "check"}
  /\ pc \in [AllTasks -> PcValues]
  /\ hp \in [AllTasks \cup {Handler} -> Prio]

Ready(p) == Range(dos_task_priority_list[p].items)

(* The bitmap that dos_check_task_priority searches tells the truth: the   *)
(* bit of a priority is set exactly when its ready list has a task.        *)
BitmapMatchesLists ==
  dos_task_priority = {p \in Prio : dos_task_priority_list[p].items # << >>}

(* A task is linked where its status bits say and nowhere else: READY on   *)
(* the ready list of its current priority, DELAY on one of the two sleep   *)
(* lists, SUSPEND on the pend list; never twice on a list.                 *)
LinkedWhereStatusSays ==
  /\ \A t \in AllTasks, p \in Prio :
       t \in Ready(p) <=> ("READY" \in task_status[t] /\ p = priority[t])
  /\ \A t \in AllTasks :
       "DELAY" \in task_status[t]
         <=> (t \in Range(sleep_list) \/ t \in Range(overflow_list))
  /\ Range(sleep_list) \cap Range(overflow_list) = {}
  /\ \A t \in AllTasks :
       /\ ~({"READY", "DELAY"} \subseteq task_status[t])
       /\ "SUSPEND" \in task_status[t] <=> t \in Range(pend_list)
  /\ \A s \in {sleep_list, overflow_list, pend_list} \cup
              {dos_task_priority_list[p].items : p \in Prio} : IsInjective(s)

(* Outside the tick handler no sleeper of the current list is due, the     *)
(* next wake tick is not later than any of them, and the sleepers of the   *)
(* overflow list are due only after the wrap: no wake-up can be missed.    *)
NoMissedWake ==
  isr = "none" =>
    /\ \A t \in Range(sleep_list) : /\ status_value[t] > dos_tick_count
                                    /\ dos_next_wake_tick <= status_value[t]
    /\ \A t \in Range(overflow_list) : status_value[t] < dos_tick_count

(* When the tick counter wraps, the current list is empty, so that         *)
(* _dos_switch_sleep_list does switch (its "not empty" branch is dead).    *)
WrapSwitches ==
  (isr = "none" /\ dos_tick_count = UINT32_MAX) => sleep_list = << >>

(* In the tick handler's loop a DELAY that ends without a post was due now. *)
WakesAtItsTick ==
  \A t \in AllTasks :
    (isr = "loop" /\ "DELAY" \in task_status[t] /\ "DELAY" \notin task_status'[t]
       /\ pend_list' = pend_list)
      => status_value[t] = dos_tick_count

(* dos_tick_update ends a sleep or a timed wait exactly at its wake tick,  *)
(* never early and never late.                                             *)
WakesOnTime == [][WakesAtItsTick]_vars

(* Between the handlers, with the scheduler unlocked and no switch         *)
(* pending, the running task is a ready one of the highest ready priority: *)
(* dos_choose_task's "highest priority task".                              *)
HighestRuns ==
  (isr = "none" /\ ~pendsv /\ scheduler_lock = 0) =>
    /\ dos_current_task # NoTask
    /\ "READY" \in task_status[dos_current_task]
    /\ \A p \in dos_task_priority : priority[dos_current_task] <= p

(* dos_choose_task never takes its task from an empty ready list.          *)
ChoosesATask == isr # "boot" => dos_current_task # NoTask

(* Every sleep and every timed wait ends.                                  *)
SleepersWake ==
  \A t \in Tasks : ("DELAY" \in task_status[t]) ~> ("DELAY" \notin task_status[t])

(* Time slicing: a task that stays ready gets the processor again and      *)
(* again if again and again no ready task has a better priority.  A task   *)
(* of a better priority may keep preempting: the cursor of the ready list  *)
(* (dos_get_next_task) remembers whose turn it is.                         *)
RoundRobin ==
  \A t \in Tasks :
    <>[]("READY" \in task_status[t])
      /\ []<>("READY" \in task_status[t] /\ priority[t] = HighestPriority(dos_task_priority))
      => []<>(dos_current_task = t)

=============================================================================
