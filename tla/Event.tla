------------------------------- MODULE Event --------------------------------
(***************************************************************************)
(* The event flags of event.c.  dos_event_wait decides in one critical     *)
(* section; dos_event_set sets the flags in another one and then scans the *)
(* pend list with only the scheduler locked, so an interrupt handler that  *)
(* sets flags too, or a timeout, may come between any two of its steps.    *)
(* fresh and twice follow what the flags stand for and are not state of    *)
(* the program.  usage says how the event is used; it is chosen once.      *)
(***************************************************************************)
EXTENDS Integers, FiniteSets, TaskStatus

CONSTANTS Tasks, BasePrio, Flags, Nobody, Usages

(* What a call of dos_event_wait asks for: wait_event, and in its options  *)
(* WAIT_ALL_EVENT (or else WAIT_ANY_EVENT) and the absence of NO_CLR_EVENT.*)
Want == [want : SUBSET Flags, all : BOOLEAN, clear : BOOLEAN]
NoWant == [want |-> {}, all |-> FALSE, clear |-> FALSE]

UsageType ==
  [asks : [Tasks -> SUBSET Want],               \* what each task waits for
   sets : [Tasks -> SUBSET SUBSET Flags],       \* and sets
   isr : SUBSET SUBSET Flags,                   \* what interrupts set
   waits : SUBSET {"try", "timed", "forever"},  \* the timeouts passed
   sleeps : BOOLEAN,                            \* between calls
   deleters : SUBSET Tasks]

ASSUME EventAssumption ==
  BasePrio \in [Tasks -> Nat] /\ Usages \subseteq UsageType /\ Nobody \notin Tasks

VARIABLES
  event_flag,
  pend_list,     \* event_pend_list, with its cursor task_item
  live,          \* whether the event is not yet freed
  task_status,
  wait_event,    \* wait_event and wait_event_opt of each task
  pc,            \* where each task is
  locker,        \* the task that has locked the scheduler, or Nobody
  value, task,   \* locals of the scan: items to visit, the item visited
  reg,           \* event_flag as _dos_check_event has read it
  isr,           \* items that the scan of an interrupt handler has to visit
  fault,         \* the end item or freed memory was taken for a task or event
  fresh,         \* the flags that were set and taken by no clearing wait
  twice,         \* whether a wait was served with flags that were not fresh
  usage

scanVars == <<locker, value, task, reg>>
rest == <<isr, live, fault, usage>>
vars == <<event_flag, pend_list, task_status, wait_event, pc, scanVars, fresh, twice, rest>>

(* The task that has the scheduler locked keeps the processor, and an      *)
(* interrupt handler runs to its end before any task goes on.              *)
Running(t) ==
  /\ ~fault /\ isr = 0
  /\ IF locker = Nobody THEN Runs(t, task_status, BasePrio) ELSE t = locker
At(t, p) == Running(t) /\ pc[t] = p /\ live

(* dos_event_create, before the tasks run.                                 *)
Init ==
  /\ usage \in Usages
  /\ event_flag = {} /\ pend_list = EmptyList(Nobody)
  /\ task_status = [t \in Tasks |-> {"READY"}]
  /\ wait_event = [t \in Tasks |-> NoWant]
  /\ pc = [t \in Tasks |-> "app"]
  /\ locker = Nobody /\ value = 0 /\ task = Nobody /\ reg = {} /\ isr = 0
  /\ live = TRUE /\ fault = FALSE
  /\ fresh = {} /\ twice = FALSE

(* The tests and values of _dos_check_event and the scan, each after the   *)
(* faults that are tried in its place.                                     *)
Meets(flags, w) ==
  IF w.all THEN w.want \subseteq flags ELSE flags \cap w.want # {}

Cleared(flags, w) == IF w.clear THEN flags \ w.want ELSE flags

NotLocked(t) == Nobody
LockedBy(t) == t

OneFewer(n) == n - 1
VisitsOf(n) == n

Stays(n) == n
Visited(n) == n - 1

NobodyWaits == pend_list.items = << >>

LeftList(l, t) == ListDelete(l, t, Nobody)

(* A wait is served: its flags stop being fresh when it clears them.       *)
Serve(w) ==
  /\ twice' = (twice \/ ~Meets(fresh, w))
  /\ fresh' = IF w.clear THEN fresh \ w.want ELSE fresh

(* dos_event_wait: served at once, refused (no change), or waiting.        *)
Wait(t, w, wait) ==
  /\ At(t, "app") /\ w \in usage.asks[t]
  /\ IF Meets(event_flag, w)
     THEN /\ event_flag' = Cleared(event_flag, w)
          /\ Serve(w)
          /\ UNCHANGED <<pend_list, task_status, wait_event, pc>>
     ELSE /\ wait # "try"
          /\ wait_event' = [wait_event EXCEPT ![t] = w]
          /\ task_status' = [task_status EXCEPT ![t] = Blocked(@, wait = "forever")]
          /\ pend_list' = ListInsert(pend_list, BasePrio, t)
          /\ pc' = [pc EXCEPT ![t] = "wait"]
          /\ UNCHANGED <<event_flag, fresh, twice>>
  /\ UNCHANGED <<scanVars, rest>>

(* The rest of dos_event_wait, when the task runs again.                   *)
WaitReturn(t) ==
  /\ At(t, "wait")
  /\ pc' = [pc EXCEPT ![t] = "app"]
  /\ IF GaveUp(task_status[t])
     THEN /\ task_status' = [task_status EXCEPT ![t] = Resumed(@)]
          /\ pend_list' = LeftList(pend_list, t)
          /\ wait_event' = [wait_event EXCEPT ![t] = NoWant]
     ELSE UNCHANGED <<task_status, pend_list, wait_event>>
  /\ UNCHANGED <<event_flag, scanVars, fresh, twice, rest>>

(* dos_event_set: the flags ...                                            *)
SetFlags(t, f) ==
  /\ At(t, "app") /\ f \in usage.sets[t]
  /\ event_flag' = event_flag \cup f /\ fresh' = fresh \cup f
  /\ pc' = [pc EXCEPT ![t] = "test"]
  /\ UNCHANGED <<pend_list, task_status, wait_event, scanVars, twice, rest>>

(* ... the test of the pend list, with interrupts enabled ...              *)
SetTest(t) ==
  /\ At(t, "test")
  /\ pc' = [pc EXCEPT ![t] = IF NobodyWaits THEN "app" ELSE "lock"]
  /\ UNCHANGED <<event_flag, pend_list, task_status, wait_event, scanVars, fresh, twice, rest>>

(* ... the lock of the scheduler and the number of items to visit ...      *)
SetLock(t) ==
  /\ At(t, "lock")
  /\ locker' = LockedBy(t) /\ value' = VisitsOf(Len(pend_list.items))
  /\ pc' = [pc EXCEPT ![t] = "scan"]
  /\ UNCHANGED <<event_flag, pend_list, task_status, wait_event, task, reg, fresh, twice, rest>>

(* ... the next item, which on an empty list is the end item, and the test *)
(* of what its task waits for ...                                          *)
SetNext(t) ==
  /\ At(t, "scan") /\ value > 0
  /\ LET next == NextItem(pend_list, Nobody)
         met == next # Nobody /\ Meets(event_flag, wait_event[next])
     IN  /\ fault' = (next = Nobody)
         /\ pend_list' = [pend_list EXCEPT !.task_item = next]
         /\ IF met
            THEN /\ task' = next /\ reg' = event_flag
                 /\ pc' = [pc EXCEPT ![t] = "take"]
                 /\ UNCHANGED value
            ELSE /\ value' = Visited(value)
                 /\ UNCHANGED <<task, reg, pc>>
  /\ UNCHANGED <<event_flag, task_status, wait_event, locker, fresh, twice, isr, live, usage>>

(* ... the flags without those the waiter clears, computed from the value  *)
(* that was tested or from a second reading, as the compiler has chosen ...*)
SetTake(t) ==
  /\ At(t, "take")
  /\ \E read \in {reg, event_flag} :
       event_flag' = IF wait_event[task].clear THEN Cleared(read, wait_event[task])
                                               ELSE event_flag
  /\ Serve(wait_event[task])
  /\ reg' = {}
  /\ pc' = [pc EXCEPT ![t] = "wake"]
  /\ UNCHANGED <<pend_list, task_status, wait_event, locker, value, task, rest>>

(* ... dos_task_wake of the waiter ...                                     *)
SetWake(t) ==
  /\ At(t, "wake")
  /\ task_status' = [task_status EXCEPT ![task] = Woken(@)]
  /\ pend_list' = LeftList(pend_list, task)
  /\ value' = Visited(value) /\ task' = Nobody
  /\ pc' = [pc EXCEPT ![t] = "scan"]
  /\ UNCHANGED <<event_flag, wait_event, locker, reg, fresh, twice, rest>>

(* ... and the unlock.                                                     *)
SetUnlock(t) ==
  /\ At(t, "scan") /\ value = 0
  /\ locker' = Nobody
  /\ pc' = [pc EXCEPT ![t] = "app"]
  /\ UNCHANGED <<event_flag, pend_list, task_status, wait_event, value, task, reg,
                 fresh, twice, rest>>

(* dos_event_set in an interrupt handler: the flags, and then each item of *)
(* the list, with no task in between.                                      *)
IsrSet(f) ==
  /\ f \in usage.isr /\ live /\ ~fault /\ isr = 0
  /\ event_flag' = event_flag \cup f /\ fresh' = fresh \cup f
  /\ isr' = IF NobodyWaits THEN 0 ELSE VisitsOf(Len(pend_list.items))
  /\ UNCHANGED <<pend_list, task_status, wait_event, pc, scanVars, twice, live, fault, usage>>

IsrVisit ==
  /\ isr > 0 /\ isr' = isr - 1
  /\ LET next == NextItem(pend_list, Nobody)
         w == wait_event[next]
         moved == [pend_list EXCEPT !.task_item = next]
     IN  IF Meets(event_flag, w)
         THEN /\ event_flag' = Cleared(event_flag, w) /\ Serve(w)
              /\ task_status' = [task_status EXCEPT ![next] = Woken(@)]
              /\ pend_list' = LeftList(moved, next)
         ELSE /\ pend_list' = moved
              /\ UNCHANGED <<event_flag, task_status, fresh, twice>>
  /\ UNCHANGED <<wait_event, pc, scanVars, live, fault, usage>>

(* The application sleeps; the tick handler ends a sleep or a timed wait.  *)
Sleep(t) ==
  /\ Running(t) /\ pc[t] = "app" /\ usage.sleeps
  /\ task_status' = [task_status EXCEPT ![t] = Asleep(@)]
  /\ UNCHANGED <<event_flag, pend_list, wait_event, pc, scanVars, fresh, twice, rest>>

Timeout(t) ==
  /\ "DELAY" \in task_status[t] /\ ~fault /\ isr = 0
  /\ task_status' = [task_status EXCEPT ![t] = TimedOut(@)]
  /\ UNCHANGED <<event_flag, pend_list, wait_event, pc, scanVars, fresh, twice, rest>>

(* dos_event_delete: the test of the pend list and the free, without a     *)
(* critical section.  The list head is cleared too; pend_list goes on to   *)
(* say whose pend items are linked to the freed event.                     *)
Delete(t) ==
  /\ At(t, "app") /\ t \in usage.deleters
  /\ NobodyWaits
  /\ pc' = [pc EXCEPT ![t] = "delete"]
  /\ UNCHANGED <<event_flag, pend_list, task_status, wait_event, scanVars, fresh, twice, rest>>

DeleteFree(t) ==
  /\ At(t, "delete")
  /\ live' = FALSE
  /\ event_flag' = {} /\ fresh' = {}
  /\ pc' = [pc EXCEPT ![t] = "app"]
  /\ UNCHANGED <<pend_list, task_status, wait_event, scanVars, twice, isr, fault, usage>>

(* A task goes on inside dos_event_set or dos_event_wait with a freed event.*)
UseFreed(t) ==
  /\ ~live /\ Running(t) /\ pc[t] # "app"
  /\ fault' = TRUE
  /\ UNCHANGED <<event_flag, pend_list, task_status, wait_event, pc, scanVars, fresh, twice,
                 isr, live, usage>>

Scan(t) == SetNext(t) \/ SetTake(t) \/ SetWake(t) \/ SetUnlock(t)

Next ==
  \/ \E t \in Tasks :
       \/ \E w \in usage.asks[t], wait \in usage.waits : Wait(t, w, wait)
       \/ \E f \in usage.sets[t] : SetFlags(t, f)
       \/ WaitReturn(t) \/ SetTest(t) \/ SetLock(t)
       \/ SetNext(t) \/ SetTake(t) \/ SetWake(t) \/ SetUnlock(t)
       \/ Sleep(t) \/ Timeout(t) \/ Delete(t) \/ DeleteFree(t) \/ UseFreed(t)
  \/ \E f \in usage.isr : IsrSet(f)
  \/ IsrVisit

Spec == Init /\ [][Next]_vars

(* Interrupt handlers return, and the task that scans goes on between them *)
(* (strong fairness: however many there are, they leave it some time).     *)
FairSpec == Spec /\ WF_vars(IsrVisit) /\ \A t \in Tasks : SF_vars(Scan(t))

-----------------------------------------------------------------------------
Waiting(t) == pc[t] = "wait" /\ "TIMEOUT" \notin task_status[t] /\ "SUSPEND" \in task_status[t]
Between == live /\ isr = 0 /\ \A t \in Tasks : pc[t] \in {"app", "wait"}

(* No missed wake-up: when no dos_event_set is under way, nobody waits for *)
(* flags that are there, although interrupt handlers set flags in between  *)
(* the steps of the scan.  Nor does anybody wait for an event that the     *)
(* highest task has freed in the two unprotected steps of                  *)
(* dos_event_delete.                                                       *)
Served ==
  /\ Between => \A t \in Tasks : Waiting(t) => ~Meets(event_flag, wait_event[t])
  /\ (~live /\ \A t \in usage.deleters, u \in Tasks : t = u \/ BasePrio[t] < BasePrio[u])
       => pend_list.items = << >>

(* If they leave the event alone, the flags are those that were set and    *)
(* not yet taken (the unprotected update of event_flag in the scan loses   *)
(* and revives none), and a flag serves one clearing wait only.            *)
FlagsExact == usage.isr = {} => event_flag = fresh /\ ~twice

(* ... and the scan never takes the end item of the list for a task.       *)
NoEndItem == (usage.isr = {} /\ usage.deleters = {}) => ~fault

(* The scan ends and the scheduler is unlocked, although interrupts may go *)
(* on setting flags.                                                       *)
ScanEnds == (locker # Nobody) ~> (locker = Nobody \/ fault)

=============================================================================
