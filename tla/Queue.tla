------------------------------- MODULE Queue --------------------------------
(***************************************************************************)
(* The message queue of queue.c.  _dos_queue_handler serves reads and      *)
(* writes alike: it takes a token of its own kind or waits for one, copies *)
(* the message, and gives a token of the other kind.  Only the first two   *)
(* parts are critical sections; the last one tests the pend list and       *)
(* increments a counter with interrupts enabled, so each access to shared  *)
(* state is a step of its own.  Messages are numbered in the order they    *)
(* are copied into the queue, modulo MsgIds; sent and got are the numbers  *)
(* of the last message copied in and out and not state of the program.     *)
(* The counts wrap at CountMod, which is 2^16.  usage says how the queue   *)
(* is used; it is chosen once.                                             *)
(***************************************************************************)
EXTENDS Integers, FiniteSets, TaskStatus

CONSTANTS Tasks, BasePrio, MsgIds, CountMod, Usages

UsageType ==
  [readers : SUBSET Tasks, writers : SUBSET Tasks, deleters : SUBSET Tasks,
   len : Nat \ {0},                               \* queue_len
   waits : SUBSET {"try", "timed", "forever"},    \* the timeouts passed
   sleeps : BOOLEAN,                              \* between calls
   isr : SUBSET {"read", "write"}]   \* what interrupts do, with timeout 0

ASSUME QueueAssumption ==
  /\ IsFiniteSet(Tasks) /\ BasePrio \in [Tasks -> Nat]
  /\ Usages \subseteq UsageType
  /\ MsgIds \in Nat /\ CountMod \in Nat
  /\ \A u \in Usages : MsgIds > 2 * u.len /\ CountMod > u.len

VARIABLES
  rw_count,      \* queue_rw_count: messages to read, free places
  rw_ptr,        \* queue_rw_ptr, as indices
  buf,           \* the message in each place
  pend_list,     \* queue_pend_list
  task_status,
  pc, op,        \* where each task is in _dos_queue_handler, and for what
  reg,           \* the register of the increment of queue_rw_count
  live,          \* whether the queue is not yet freed
  fault,         \* dos_task_wake got DOS_NULL, or freed memory was used
  sent, got,
  usage

Ops == {"read", "write"}
Counts == 0 .. CountMod - 1
Other(o) == IF o = "read" THEN "write" ELSE "read"

queueVars == <<rw_count, rw_ptr, buf, pend_list>>
ghosts == <<sent, got>>
rest == <<live, fault, usage>>
vars == <<queueVars, ghosts, task_status, pc, op, reg, rest>>

Running(t) == Runs(t, task_status, BasePrio) /\ ~fault
At(t, p) == Running(t) /\ pc[t] = p /\ live

(* dos_queue_create, before the tasks run.                                 *)
Init ==
  /\ usage \in Usages
  /\ rw_count = [o \in Ops |-> IF o = "read" THEN 0 ELSE usage.len]
  /\ rw_ptr = [o \in Ops |-> 0]
  /\ buf = [i \in 0 .. usage.len - 1 |-> 0]
  /\ pend_list = [o \in Ops |-> << >>]
  /\ task_status = [t \in Tasks |-> {"READY"}]
  /\ pc = [t \in Tasks |-> "app"]
  /\ op = [t \in Tasks |-> "read"]
  /\ reg = [t \in Tasks |-> 0]
  /\ live = TRUE /\ fault = FALSE
  /\ sent = 0 /\ got = 0

(* The tests and values of the handler, each after its faults.             *)
NeverToken(o) == FALSE
AlwaysToken(o) == TRUE
HasToken(o) == rw_count[o] # 0

NextPlace(i) == (i + 1) % usage.len

AlwaysEmpty(o) == TRUE
NobodyWaits(o) == pend_list[o] = << >>

Same(o) == o
GivesTo(o) == Other(o)

Increment(n) == (n + 1) % CountMod

Unmoved(l, t) == l
LeftList(l, t) == DeleteItem(l, t)

(* The first critical section: take a token, or wait for one (a call with  *)
(* timeout 0 returns DOS_NOK and changes nothing).                         *)
Enter(t, o, wait) ==
  /\ At(t, "app")
  /\ op' = [op EXCEPT ![t] = o]
  /\ IF HasToken(o)
     THEN /\ rw_count' = [rw_count EXCEPT ![o] = @ - 1]
          /\ pc' = [pc EXCEPT ![t] = "copy"]
          /\ UNCHANGED <<task_status, pend_list>>
     ELSE /\ wait # "try"
          /\ task_status' = [task_status EXCEPT ![t] = Blocked(@, wait = "forever")]
          /\ pend_list' = [pend_list EXCEPT ![o] = InsertItem(@, BasePrio, t)]
          /\ pc' = [pc EXCEPT ![t] = "pend"]
          /\ UNCHANGED rw_count
  /\ UNCHANGED <<rw_ptr, buf, ghosts, reg, rest>>

(* The task resumes: the status bits are put in order after a timeout ...  *)
Resume(t) ==
  /\ At(t, "pend")
  /\ IF GaveUp(task_status[t])
     THEN /\ task_status' = [task_status EXCEPT ![t] = Resumed(@)]
          /\ pc' = [pc EXCEPT ![t] = "leave"]
     ELSE /\ pc' = [pc EXCEPT ![t] = "copy"]
          /\ UNCHANGED task_status
  /\ UNCHANGED <<queueVars, ghosts, op, reg, rest>>

(* ... and the task leaves the pend list, all without a critical section.  *)
Leave(t) ==
  /\ At(t, "leave")
  /\ pend_list' = [pend_list EXCEPT ![op[t]] = LeftList(@, t)]
  /\ pc' = [pc EXCEPT ![t] = "app"]
  /\ UNCHANGED <<rw_count, rw_ptr, buf, ghosts, task_status, op, reg, rest>>

(* _dos_queue_copy: the pointer steps on and wraps at the tail.            *)
CopyMessage(o) ==
  /\ rw_ptr' = [rw_ptr EXCEPT ![o] = NextPlace(@)]
  /\ IF o = "write"
     THEN /\ sent' = (sent + 1) % MsgIds
          /\ buf' = [buf EXCEPT ![rw_ptr[o]] = sent']
          /\ UNCHANGED got
     ELSE got' = (got + 1) % MsgIds /\ UNCHANGED <<buf, sent>>

Copy(t) ==
  /\ At(t, "copy")
  /\ CopyMessage(op[t])
  /\ pc' = [pc EXCEPT ![t] = "check"]
  /\ UNCHANGED <<rw_count, pend_list, task_status, op, reg, rest>>

(* The test of the other side's pend list, with interrupts enabled.        *)
Check(t) ==
  /\ At(t, "check")
  /\ pc' = [pc EXCEPT ![t] = IF NobodyWaits(Other(op[t])) THEN "load" ELSE "wake"]
  /\ UNCHANGED <<queueVars, ghosts, task_status, op, reg, rest>>

(* dos_get_first_task and dos_task_wake.                                   *)
WakeFirst(o) ==
  /\ pend_list[o] # << >>
  /\ task_status' = [task_status EXCEPT ![Head(pend_list[o])] = Woken(@)]
  /\ pend_list' = [pend_list EXCEPT ![o] = DeleteItem(@, Head(@))]

(* The second critical section wakes a waiter, if one is still there.      *)
Wake(t) ==
  /\ At(t, "wake")
  /\ pc' = [pc EXCEPT ![t] = "app"]
  /\ \/ WakeFirst(Other(op[t])) /\ UNCHANGED fault
     \/ /\ pend_list[Other(op[t])] = << >>
        /\ fault' = TRUE
        /\ UNCHANGED <<task_status, pend_list>>
  /\ UNCHANGED <<rw_count, rw_ptr, buf, ghosts, op, reg, live, usage>>

(* queue_rw_count[1-op]++ with interrupts enabled.                         *)
Load(t) ==
  /\ At(t, "load")
  /\ reg' = [reg EXCEPT ![t] = rw_count[GivesTo(op[t])]]
  /\ pc' = [pc EXCEPT ![t] = "store"]
  /\ UNCHANGED <<queueVars, ghosts, task_status, op, rest>>

Store(t) ==
  /\ At(t, "store")
  /\ rw_count' = [rw_count EXCEPT ![GivesTo(op[t])] = Increment(reg[t])]
  /\ reg' = [reg EXCEPT ![t] = 0]
  /\ pc' = [pc EXCEPT ![t] = "app"]
  /\ UNCHANGED <<rw_ptr, buf, pend_list, ghosts, task_status, op, rest>>

(* The whole handler in an interrupt: no task runs in between.             *)
IsrOp(o) ==
  /\ o \in usage.isr /\ live /\ ~fault
  /\ HasToken(o)
  /\ CopyMessage(o)
  /\ IF NobodyWaits(Other(o))
     THEN /\ rw_count' = [rw_count EXCEPT ![o] = @ - 1, ![Other(o)] = Increment(@)]
          /\ UNCHANGED <<pend_list, task_status>>
     ELSE /\ rw_count' = [rw_count EXCEPT ![o] = @ - 1]
          /\ WakeFirst(Other(o))
  /\ UNCHANGED <<pc, op, reg, rest>>

(* The application sleeps; the tick handler ends a sleep or a timed wait.  *)
Sleep(t) ==
  /\ Running(t) /\ pc[t] = "app" /\ usage.sleeps
  /\ task_status' = [task_status EXCEPT ![t] = Asleep(@)]
  /\ UNCHANGED <<queueVars, ghosts, pc, op, reg, rest>>

Timeout(t) ==
  /\ "DELAY" \in task_status[t] /\ ~fault
  /\ task_status' = [task_status EXCEPT ![t] = TimedOut(@)]
  /\ UNCHANGED <<queueVars, ghosts, pc, op, reg, rest>>

(* dos_queue_delete: the test of both pend lists and the free, without a   *)
(* critical section.  The list heads are cleared too; pend_list goes on to *)
(* say whose pend items are linked to the freed queue.                     *)
Delete(t) ==
  /\ At(t, "app") /\ t \in usage.deleters
  /\ \A o \in Ops : NobodyWaits(o)
  /\ pc' = [pc EXCEPT ![t] = "delete"]
  /\ UNCHANGED <<queueVars, ghosts, task_status, op, reg, rest>>

DeleteFree(t) ==
  /\ At(t, "delete")
  /\ live' = FALSE
  /\ rw_count' = [o \in Ops |-> 0] /\ rw_ptr' = [o \in Ops |-> 0]
  /\ pc' = [pc EXCEPT ![t] = "app"]
  /\ UNCHANGED <<buf, pend_list, ghosts, task_status, op, reg, fault, usage>>

(* A task that was inside a call goes on with the freed queue: what it     *)
(* reads there is undefined.                                               *)
UseFreed(t) ==
  /\ ~live /\ Running(t) /\ pc[t] # "app"
  /\ fault' = TRUE
  /\ UNCHANGED <<queueVars, ghosts, task_status, pc, op, reg, live, usage>>

Inside(t) ==
  Resume(t) \/ Leave(t) \/ Copy(t) \/ Check(t) \/ Wake(t) \/ Load(t) \/ Store(t)
  \/ DeleteFree(t) \/ UseFreed(t)

Next ==
  \/ \E t \in Tasks :
       \/ \E wait \in usage.waits : \/ t \in usage.readers /\ Enter(t, "read", wait)
                                    \/ t \in usage.writers /\ Enter(t, "write", wait)
       \/ Inside(t) \/ Delete(t) \/ Sleep(t) \/ Timeout(t)
  \/ \E o \in Ops : IsrOp(o)

Spec == Init /\ [][Next]_vars

(* The tick handler runs, and a task inside the kernel that may run does.  *)
FairSpec == Spec /\ \A t \in Tasks : WF_vars(Timeout(t)) /\ WF_vars(Inside(t))

-----------------------------------------------------------------------------
(* Every variable holds a value of its type.                               *)
TypeOK ==
  /\ rw_count \in [Ops -> Counts]
  /\ rw_ptr \in [Ops -> 0 .. usage.len - 1]
  /\ buf \in [0 .. usage.len - 1 -> 0 .. MsgIds - 1]
  /\ pend_list \in [Ops -> Seq(Tasks)]
  /\ task_status \in [Tasks -> SUBSET StatusBits]
  /\ pc \in [Tasks -> {"app", "pend", "leave", "copy", "check", "wake", "load", "store",
                   "delete"}]
  /\ op \in [Tasks -> Ops]
  /\ reg \in [Tasks -> Counts]
  /\ live \in BOOLEAN /\ fault \in BOOLEAN /\ usage \in Usages
  /\ sent \in 0 .. MsgIds - 1 /\ got \in 0 .. MsgIds - 1

Top(t) == \A u \in Tasks \ {t} : BasePrio[t] < BasePrio[u]

(* Whatever preempts the handler, every variable keeps its type (the       *)
(* pointers stay in the queue), only a task inside the handler is on a     *)
(* pend list, on that of its call, and once, and a task that waits is on   *)
(* the list.  A queue that the highest task has freed in the two           *)
(* unprotected steps of dos_queue_delete has no waiters left.              *)
WaitersListed ==
  /\ TypeOK
  /\ \A o \in Ops :
       /\ IsInjective(pend_list[o])
       /\ \A t \in Range(pend_list[o]) : op[t] = o /\ pc[t] \in {"pend", "leave"}
       /\ \A t \in Tasks : (op[t] = o /\ "SUSPEND" \in task_status[t]) => t \in Range(pend_list[o])
       /\ (~live /\ \A t \in usage.deleters : Top(t)) => pend_list[o] = << >>

(* Tasks change only where one blocks or wakes another: nobody sleeps or   *)
(* gives up, interrupts leave the queue alone, and no two tasks share a    *)
(* priority (or they would get slices of the processor).                   *)
TakeTurns ==
  /\ ~usage.sleeps /\ "timed" \notin usage.waits /\ usage.isr = {}
  /\ \A t, u \in Tasks : BasePrio[t] = BasePrio[u] => t = u

Stored == (sent - got + MsgIds) % MsgIds
Quiet ==
  live /\ \A t \in Tasks : pc[t] \in {"app", "pend"} /\ "TIMEOUT" \notin task_status[t]
Waiting(t, o) == pc[t] = "pend" /\ op[t] = o /\ "SUSPEND" \in task_status[t]
Granted(o) == {t \in Tasks : pc[t] = "pend" /\ op[t] = o /\ "SUSPEND" \notin task_status[t]}

(* Where tasks take turns, reads return the messages in the order of the   *)
(* writes, each one once and none that was not written.                    *)
Fifo ==
  [][(TakeTurns /\ got' # got) => buf[rw_ptr["read"]] = got' /\ got # sent]_vars

(* There the counts are what they are named for: between calls, the        *)
(* messages stored and the free places, less those promised to woken tasks.*)
(* dos_task_wake never gets DOS_NULL from an emptied list.                 *)
CountsAgree ==
  /\ (TakeTurns /\ usage.deleters = {}) => ~fault
  /\ (TakeTurns /\ Quiet) =>
       /\ rw_count["read"] + Cardinality(Granted("read")) = Stored
       /\ rw_count["write"] + Cardinality(Granted("write")) = usage.len - Stored

(* Between calls, no task waits for a token that the queue has.            *)
NoIdleToken ==
  (TakeTurns /\ Quiet) => \A o \in Ops, t \in Tasks : Waiting(t, o) => rw_count[o] = 0

(* The readers that have a token and have not yet copied their message.    *)
Promised == Granted("read") \cup {t \in Tasks : pc[t] = "copy" /\ op[t] = "read"}

(* A reader of the highest priority that waits gets a message as soon as   *)
(* the queue holds one that no other reader has a token for.               *)
TopServed ==
  \A t \in Tasks :
    Top(t) => (TakeTurns /\ Waiting(t, "read") /\ Stored > Cardinality(Promised))
                ~> (pc[t] # "pend")

=============================================================================
