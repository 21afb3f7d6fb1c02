------------------------------- MODULE Mutex --------------------------------
(***************************************************************************)
(* The recursive mutex of mutex.c with its priority inheritance.  As in    *)
(* Sem, a critical section is one step, priority alone decides which task  *)
(* runs, and a timeout may expire at any moment after the wait began.      *)
(* holds counts, for each task, the pends that returned DOS_OK and were    *)
(* not yet posted: what the application believes it holds.  usage says how *)
(* the application uses the mutexes; it is chosen once.                    *)
(***************************************************************************)
EXTENDS Integers, FiniteSets, TaskStatus

CONSTANTS
  Tasks,
  Mutexes,
  NoTask,      \* DOS_NULL
  CountMod,    \* mutex_count wraps here (65536 in the code)
  Usages       \* the ways of using the mutexes

UsageType ==
  [prio : [Tasks -> Nat],                          \* priorities at creation
   waits : SUBSET {"try", "timed", "forever"},     \* the timeouts passed
   sleeps : BOOLEAN,          \* whether tasks sleep while they hold a mutex
   held : Nat \ {0},          \* how many mutexes one task holds at a time
   depth : Nat,               \* how deep pends of one mutex are nested
   deleters : SUBSET Tasks,   \* the tasks that delete a mutex
   own : BOOLEAN]             \* whether they delete only one they hold

ASSUME MutexAssumption ==
  /\ NoTask \notin Tasks
  /\ CountMod \in Nat /\ CountMod > 1 /\ Usages \subseteq UsageType

VARIABLES
  mutex_count, mutex_owner, mutex_priority,
  pend_list,     \* mutex_pend_list of each mutex
  live,          \* whether the mutex is not yet freed
  task_status,
  priority,
  call,          \* <<"pend", m>> while blocked, <<"delete", m>> in the delete
  holds,
  usage

mutexVars == <<mutex_count, mutex_owner, mutex_priority, pend_list, live>>
taskVars == <<task_status, priority, call, holds>>
vars == <<mutexVars, taskVars, usage>>

App == <<"app">>
Running(t) == Runs(t, task_status, priority)
InApp(t) == Running(t) /\ call[t] = App
Held(t) == {m \in Mutexes : holds[t][m] > 0}

(* dos_mutex_create, for every mutex, before the tasks run.                *)
Init ==
  /\ usage \in Usages
  /\ mutex_count = [m \in Mutexes |-> 0]
  /\ mutex_owner = [m \in Mutexes |-> NoTask]
  /\ mutex_priority = [m \in Mutexes |-> 0]
  /\ pend_list = [m \in Mutexes |-> << >>]
  /\ live = [m \in Mutexes |-> TRUE]
  /\ task_status = [t \in Tasks |-> {"READY"}]
  /\ priority = usage.prio
  /\ call = [t \in Tasks |-> App]
  /\ holds = [t \in Tasks |-> [m \in Mutexes |-> 0]]

(* The tests and values of dos_mutex_pend and dos_mutex_post, each after   *)
(* the faults that are tried in its place.                                 *)
IsFree(m) == mutex_count[m] = 0

Counted(m) == (mutex_count[m] + 1) % CountMod

LendsReversed(t, m) == mutex_priority[m] < priority[t]
LendsNever(t, m) == FALSE
Lends(t, m) == mutex_priority[m] > priority[t]

CountKept(m) == mutex_count[m] + 1
HandedCount(m) == (mutex_count[m] - 1) + 1

PriorityKept(t, m) == priority
PriorityBack(t, m) == [priority EXCEPT ![t] = mutex_priority[m]]

Unwanted(m) == TRUE
NobodyWaits(m) == pend_list[m] = << >>

Wants(t, m) == InApp(t) /\ live[m]

(* The application takes a mutex more while it holds fewer than it may.    *)
MayTake(t) == Held(t) = {} \/ (usage.held > 1 /\ Cardinality(Held(t)) < usage.held)

(* dos_mutex_pend on a mutex that is free or already the caller's.         *)
PendFree(t, m) ==
  /\ Wants(t, m) /\ IsFree(m)
  /\ m \in Held(t) \/ MayTake(t)
  /\ mutex_count' = [mutex_count EXCEPT ![m] = Counted(m)]
  /\ mutex_priority' = [mutex_priority EXCEPT ![m] = priority[t]]
  /\ mutex_owner' = [mutex_owner EXCEPT ![m] = t]
  /\ holds' = [holds EXCEPT ![t][m] = @ + 1]
  /\ UNCHANGED <<pend_list,
                 live, task_status, priority, call, usage>>

PendAgain(t, m) ==
  /\ Wants(t, m) /\ ~IsFree(m) /\ mutex_owner[m] = t
  /\ holds[t][m] < usage.depth
  /\ mutex_count' = [mutex_count EXCEPT ![m] = Counted(m)]
  /\ holds' = [holds EXCEPT ![t][m] = @ + 1]
  /\ UNCHANGED <<mutex_owner, mutex_priority, pend_list,
                 live, task_status, priority, call, usage>>

(* dos_mutex_pend on a mutex of another task, up to the return of          *)
(* dos_scheduler. The owner inherits the caller's priority if the caller   *)
(* is better than the priority the owner took the mutex with.              *)
PendWait(t, m, wait) ==
  /\ Wants(t, m) /\ ~IsFree(m) /\ mutex_owner[m] # t
  /\ wait # "try"
  /\ MayTake(t)
  /\ priority' = IF Lends(t, m) THEN [priority EXCEPT ![mutex_owner[m]] = priority[t]]
                                ELSE priority
  /\ task_status' = [task_status EXCEPT ![t] = Blocked(@, wait = "forever")]
  /\ pend_list' = [pend_list EXCEPT ![m] = InsertItem(@, usage.prio, t)]
  /\ call' = [call EXCEPT ![t] = <<"pend", m>>]
  /\ UNCHANGED <<mutex_count, mutex_owner, mutex_priority, live, holds, usage>>

(* The rest of dos_mutex_pend, when the task runs again.                   *)
PendReturn(t, m) ==
  /\ Running(t) /\ call[t] = <<"pend", m>>
  /\ call' = [call EXCEPT ![t] = App]
  /\ IF GaveUp(task_status[t])
     THEN /\ task_status' = [task_status EXCEPT ![t] = Resumed(@)]
          /\ pend_list' = [pend_list EXCEPT ![m] = DeleteItem(@, t)]
          /\ UNCHANGED holds
     ELSE /\ holds' = [holds EXCEPT ![t][m] = @ + 1]
          /\ UNCHANGED <<task_status, pend_list>>
  /\ UNCHANGED <<mutex_count, mutex_owner, mutex_priority, live, priority, usage>>

(* dos_mutex_post by the owner, which believes it holds the mutex; not the *)
(* last release ...                                                        *)
Posts(t, m) == Wants(t, m) /\ holds[t][m] > 0 /\ ~IsFree(m) /\ mutex_owner[m] = t

PostInner(t, m) ==
  /\ Posts(t, m) /\ mutex_count[m] > 1
  /\ mutex_count' = [mutex_count EXCEPT ![m] = @ - 1]
  /\ holds' = [holds EXCEPT ![t][m] = @ - 1]
  /\ UNCHANGED <<mutex_owner, mutex_priority, pend_list,
                 live, task_status, priority, call, usage>>

(* ... and the last one: the inherited priority is given back, and the     *)
(* first waiter becomes the owner.                                         *)
PostLast(t, m) ==
  /\ Posts(t, m) /\ mutex_count[m] = 1
  /\ holds' = [holds EXCEPT ![t][m] = @ - 1]
  /\ priority' = PriorityBack(t, m)
  /\ IF NobodyWaits(m)
     THEN /\ mutex_count' = [mutex_count EXCEPT ![m] = 0]
          /\ mutex_priority' = [mutex_priority EXCEPT ![m] = 0]
          /\ mutex_owner' = [mutex_owner EXCEPT ![m] = NoTask]
          /\ UNCHANGED <<pend_list, task_status>>
     ELSE LET u == Head(pend_list[m])
          IN  /\ mutex_priority' = [mutex_priority EXCEPT ![m] = priority[u]]
              /\ mutex_count' = [mutex_count EXCEPT ![m] = HandedCount(m)]
              /\ mutex_owner' = [mutex_owner EXCEPT ![m] = u]
              /\ pend_list' = [pend_list EXCEPT ![m] = DeleteItem(@, u)]
              /\ task_status' = [task_status EXCEPT ![u] = Woken(@)]
  /\ UNCHANGED <<live, call, usage>>

(* dos_mutex_delete: the test of the pend list, outside any critical       *)
(* section, then the clearing and the freeing.  The owner is not looked    *)
(* at; what a holder does with a mutex that was freed under it is          *)
(* undefined, and not modelled.  pend_list goes on to say who still waits. *)
Delete(t, m) ==
  /\ Wants(t, m) /\ t \in usage.deleters
  /\ usage.own => holds[t][m] > 0
  /\ NobodyWaits(m)
  /\ call' = [call EXCEPT ![t] = <<"delete", m>>]
  /\ UNCHANGED <<mutexVars, task_status, priority, holds, usage>>

DeleteFree(t, m) ==
  /\ Running(t) /\ call[t] = <<"delete", m>>
  /\ live' = [live EXCEPT ![m] = FALSE]
  /\ mutex_count' = [mutex_count EXCEPT ![m] = 0]
  /\ mutex_owner' = [mutex_owner EXCEPT ![m] = NoTask]
  /\ mutex_priority' = [mutex_priority EXCEPT ![m] = 0]
  /\ holds' = [holds EXCEPT ![t][m] = 0]
  /\ call' = [call EXCEPT ![t] = App]
  /\ UNCHANGED <<pend_list, task_status, priority, usage>>

(* The application sleeps; the tick handler ends a sleep or a timed wait.  *)
Sleep(t) ==
  /\ InApp(t)
  /\ Held(t) = {} \/ usage.sleeps
  /\ task_status' = [task_status EXCEPT ![t] = Asleep(@)]
  /\ UNCHANGED <<mutexVars, priority, call, holds, usage>>

Timeout(t) ==
  /\ "DELAY" \in task_status[t]
  /\ task_status' = [task_status EXCEPT ![t] = TimedOut(@)]
  /\ UNCHANGED <<mutexVars, priority, call, holds, usage>>

Next ==
  \E t \in Tasks :
    \/ Sleep(t) \/ Timeout(t)
    \/ \E m \in Mutexes : \/ PendFree(t, m) \/ PendAgain(t, m) \/ PendReturn(t, m)
                          \/ \E wait \in usage.waits : PendWait(t, m, wait)
                          \/ PostInner(t, m) \/ PostLast(t, m)
                          \/ Delete(t, m) \/ DeleteFree(t, m)

Spec == Init /\ [][Next]_vars

(* The tick handler runs, a task that may run does return from a blocked   *)
(* call, and a task that keeps running with a mutex releases it in the end *)
(* (strong fairness: it does not pend and post recursively for ever).      *)
FairSpec ==
  /\ Spec
  /\ \A t \in Tasks :
       /\ WF_vars(Timeout(t))
       /\ \A m \in Mutexes : /\ WF_vars(PendReturn(t, m))
                             /\ WF_vars(PostInner(t, m))
                             /\ SF_vars(PostLast(t, m))

-----------------------------------------------------------------------------
Waiting(t) == "SUSPEND" \in task_status[t] /\ "TIMEOUT" \notin task_status[t]
Untimed == "timed" \notin usage.waits
Shallow == usage.depth + (IF Untimed THEN 0 ELSE 1) < CountMod
OneHeld == usage.held = 1 /\ Shallow
TopDeletes == \A t \in usage.deleters : \A u \in Tasks \ {t} : usage.prio[t] < usage.prio[u]
Plain == OneHeld /\ Untimed /\ ~usage.sleeps /\ TopDeletes

(* Two tasks never both have DOS_OK from dos_mutex_pend for one mutex that *)
(* was not freed, as long as pends are not nested so deep that the 16-bit  *)
(* count wraps (a mutex that was handed to a task that gave up counts once *)
(* more).                                                                  *)
MutualExclusion ==
  Shallow => \A m \in Mutexes, t \in Tasks : (live[m] /\ holds[t][m] > 0) => mutex_owner[m] = t

(* mutex_owner is a task that has been told so: without timed waits, a     *)
(* task outside dos_mutex_pend that owns the mutex got DOS_OK for it, as   *)
(* often as the recursion count says.                                      *)
OwnerKnows ==
  (Untimed /\ Shallow) =>
    \A m \in Mutexes, t \in Tasks :
      (mutex_owner[m] = t /\ call[t] # <<"pend", m>>) => holds[t][m] = mutex_count[m]

(* A mutex is freed only when no task waits for it: where tasks hold one   *)
(* mutex at a time, wait for it without a timeout and do not sleep with    *)
(* it, the task of the highest priority may delete it in the two           *)
(* unprotected steps of dos_mutex_delete, whoever holds it.  If it deletes *)
(* only a mutex that it holds, no other task holds or was just given the   *)
(* mutex either (the code does not test that).                             *)
DeletedUnused ==
  Plain => \A m \in Mutexes :
             ~live[m] => /\ pend_list[m] = << >>
                         /\ usage.own => \A t \in Tasks : holds[t][m] = 0

(* Priority inheritance: there, the owner's priority is not worse than a   *)
(* waiter's.  (A later waiter may lower the owner that sleeps or waits.)   *)
Inherited ==
  Plain => \A m \in Mutexes : \A t \in Range(pend_list[m]) :
             Waiting(t) => priority[mutex_owner[m]] <= priority[t]

(* Inheritance ends with the release: where tasks hold one mutex at a time *)
(* a task that owns no mutex has the priority it was created with, also    *)
(* with timeouts and sleeps unless a mutex is deleted (dos_mutex_delete    *)
(* gives no priority back).                                                *)
PriorityRestored ==
  OneHeld /\ (usage.deleters = {} \/ Plain) =>
    \A t \in Tasks : (\A m \in Mutexes : mutex_owner[m] # t) => priority[t] = usage.prio[t]

(* The task of the highest priority gets the mutex it waits for without    *)
(* limit, although a middle task never stops running.                      *)
TopGetsMutex ==
  \A t \in Tasks :
    (/\ call[t][1] = "pend" /\ Plain
     /\ \A u \in Tasks \ {t} : usage.prio[t] < usage.prio[u]) ~> (call[t] = App)
=============================================================================
