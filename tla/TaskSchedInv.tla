---------------------------- MODULE TaskSchedInv ----------------------------
(***************************************************************************)
(* The inductive invariant of TaskSched: what has to hold between any two  *)
(* steps for the invariants of TaskSched to be kept by every one of them.  *)
(* TLC checks it; TaskSchedProofs proves it for all constants.             *)
(***************************************************************************)
EXTENDS TaskSched

ReadySet == {t \in AllTasks : "READY" \in task_status[t]}

(* The ready lists hold the tasks of R, each once, at its priority.        *)
Linked(lists, R, prio) ==
  /\ lists \in [Prio -> ListType]
  /\ \A p \in Prio : /\ Range(lists[p].items) = {t \in R : prio[t] = p}
                     /\ IsInjective(lists[p].items)

Bits(lists) == {p \in Prio : lists[p].items # << >>}

ReadyInv ==
  /\ Linked(dos_task_priority_list, ReadySet, priority)
  /\ dos_task_priority = Bits(dos_task_priority_list)

(* The two sleep lists are disjoint and hold the tasks with DELAY.         *)
DelayInv ==
  /\ IsInjective(sleep_list) /\ IsInjective(overflow_list)
  /\ Range(sleep_list) \cap Range(overflow_list) = {}
  /\ \A t \in AllTasks :
       /\ "DELAY" \in task_status[t]
            <=> t \in Range(sleep_list) \cup Range(overflow_list)
       /\ ~("READY" \in task_status[t] /\ "DELAY" \in task_status[t])

(* The pend list holds the tasks with SUSPEND.                             *)
PendInv ==
  /\ IsInjective(pend_list)
  /\ \A t \in AllTasks : "SUSPEND" \in task_status[t] <=> t \in Range(pend_list)

(* Where a task is in the kernel and what its status then cannot be.  A    *)
(* locked scheduler keeps the caller of dos_scheduler_lock on the          *)
(* processor, outside every blocking call.                                 *)
CallInv ==
  /\ \A t \in AllTasks :
       /\ pc[t] \in {"app", "sched", "check"} =>
            "SUSPEND" \notin task_status[t] /\ "TIMEOUT" \notin task_status[t]
       /\ "TIMEOUT" \in task_status[t] => "READY" \in task_status[t]
       /\ {"READY", "SUSPEND"} \subseteq task_status[t] => "TIMEOUT" \in task_status[t]
       /\ (pc[t] = "woken" /\ t = dos_current_task /\ ~pendsv) =>
            "READY" \in task_status[t]
       /\ (isr # "boot" \/ "READY" \in task_status[t]) => task_tick[t] # 0
  /\ scheduler_lock > 0 =>
       /\ ~pendsv /\ dos_current_task \in AllTasks
       /\ pc[dos_current_task] \in {"app", "sched"}
  /\ isr \in {"loop", "check"} => dos_current_task # NoTask
  /\ isr = "boot" =>
       /\ sleep_list = << >> /\ overflow_list = << >> /\ pend_list = << >>
       /\ dos_tick_count = 0 /\ dos_next_wake_tick = UINT32_MAX
       /\ scheduler_lock = 0 /\ \A t \in AllTasks : pc[t] = "app"

(* The order of the sleep lists, and where their values lie around the     *)
(* current tick.  Inside the tick handler a sleeper may be due right now.  *)
SleepInv ==
  /\ Sorted(sleep_list, status_value) /\ Sorted(overflow_list, status_value)
  /\ \A t \in Range(sleep_list) :
       /\ dos_next_wake_tick <= status_value[t]
       /\ IF isr = "loop" THEN status_value[t] >= dos_tick_count
                          ELSE status_value[t] > dos_tick_count
  /\ \A t \in Range(overflow_list) : status_value[t] < dos_tick_count
  /\ IF isr = "loop" THEN dos_next_wake_tick >= dos_tick_count
     ELSE dos_next_wake_tick > dos_tick_count \/ dos_next_wake_tick = UINT32_MAX

(* The inductive invariant: lists, bitmap, status bits, sleep lists and    *)
(* calls in progress agree after every step of task.c and sys.c.           *)
IInv == TypeOK /\ ReadyInv /\ DelayInv /\ PendInv /\ CallInv /\ SleepInv

(* Where tasks only sleep: whenever no handler runs, the running task has  *)
(* the highest ready priority, or the switch that is pending will choose   *)
(* one that has.                                                           *)
TurnInv ==
  /\ scheduler_lock = 0 /\ pend_list = << >> /\ \A t \in AllTasks : pc[t] = "app"
  /\ isr # "none" => ~pendsv
  /\ isr # "boot" => dos_current_task \in AllTasks /\ "READY" \in task_status[Idle]
  /\ isr = "check" => hp[Handler] = HighestPriority(dos_task_priority)
  /\ (isr = "none" /\ pendsv) => dos_cur_priority = HighestPriority(dos_task_priority)
  /\ (isr = "none" /\ ~pendsv) =>
       /\ "READY" \in task_status[dos_current_task]
       /\ priority[dos_current_task] = HighestPriority(dos_task_priority)
=============================================================================
