----------------------------- MODULE TaskStatus -----------------------------
(***************************************************************************)
(* What task.c does to the status bits of a task that blocks on a kernel   *)
(* object, and the priority rule of the scheduler, as the kernel objects   *)
(* (semaphore, mutex, queue) see them.                                     *)
(***************************************************************************)
EXTENDS Naturals, TaskList

StatusBits == {"READY", "DELAY", "TIMEOUT", "SUSPEND"}

(* dos_task_wait, with DOS_WAIT_FOREVER or with a timeout.                 *)
Blocked(st, forever) ==
  (st \ {"READY"}) \cup {"SUSPEND"} \cup (IF forever THEN {} ELSE {"DELAY"})

(* dos_task_wake: TIMEOUT is left as it is.                                *)
Woken(st) == (st \ {"SUSPEND", "DELAY"}) \cup {"READY"}

(* Faults: a waiter gets no TIMEOUT; a waiter is not made ready.           *)
TimedOutUnmarked(st) == (st \ {"DELAY"}) \cup {"READY"}

TimedOutFault(st) ==
  (st \ {"DELAY"}) \cup (IF "SUSPEND" \in st THEN {"TIMEOUT"} ELSE {})

(* dos_tick_update, for a task whose wake tick has come: a task that waits *)
(* for an object gets TIMEOUT, and stays on the object's pend list.        *)
TimedOut(st) ==
  (st \ {"DELAY"}) \cup {"READY"} \cup (IF "SUSPEND" \in st THEN {"TIMEOUT"} ELSE {})

(* Fault: the bit is not looked at.                                        *)
NeverGaveUp(st) == FALSE

(* The end of a blocking call: TIMEOUT tells that the wait gave up, and is *)
(* then reset.                                                             *)
GaveUp(st) == "TIMEOUT" \in st
Resumed(st) == (st \ {"TIMEOUT", "SUSPEND"}) \cup {"READY"}

(* dos_task_sleep. *)
Asleep(st) == (st \ {"READY"}) \cup {"DELAY"}

(* dos_scheduler and PendSV_Handler: a ready task runs when no ready task  *)
(* has a higher priority (a smaller number); tasks of one priority take    *)
(* turns, so any of them may.                                              *)
Runs(t, status, prio) ==
  /\ "READY" \in status[t]
  /\ \A u \in DOMAIN status : "READY" \in status[u] => prio[t] <= prio[u]
=============================================================================
