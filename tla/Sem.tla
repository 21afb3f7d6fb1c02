-------------------------------- MODULE Sem ---------------------------------
(***************************************************************************)
(* The counting semaphore of sem.c.  A critical section is one step; which *)
(* task runs is decided by priority alone, a timeout may expire at any     *)
(* moment after the wait began, and an interrupt handler may post at any   *)
(* moment.  posted and taken count the calls that returned DOS_OK: they    *)
(* are not state of the program.                                           *)
(***************************************************************************)
EXTENDS Integers, FiniteSets, TaskStatus

CONSTANTS
  Tasks,
  BasePrio,   \* the priority of each task, also the value of its pend item
  Cnt,        \* the arguments of dos_sem_create
  MaxCnt,
  Waits,      \* how tasks wait: "try" (timeout 0), "timed", "forever"
  Posters,    \* the tasks that post
  IsrPosts,   \* whether an interrupt handler posts
  Deleters,   \* the tasks that delete the semaphore
  MaxPosts    \* bound on the number of successful posts

ASSUME SemAssumption ==
  /\ IsFiniteSet(Tasks)
  /\ BasePrio \in [Tasks -> Nat]
  /\ Cnt \in Nat /\ MaxCnt \in Nat /\ MaxPosts \in Nat
  /\ Waits \subseteq {"try", "timed", "forever"}
  /\ Posters \subseteq Tasks /\ Deleters \subseteq Tasks
  /\ IsrPosts \in BOOLEAN

VARIABLES
  sem,          \* "null" before dos_sem_create, "live", "freed"
  sem_count,
  pend_list,    \* sem_pend_list
  task_status,
  pc,           \* where each task is: "app", "pend" or "delete"
  posted,
  taken

vars == <<sem, sem_count, pend_list, task_status, pc, posted, taken>>

Running(t) == Runs(t, task_status, BasePrio)
InApp(t) == Running(t) /\ pc[t] = "app" /\ sem = "live"

Init ==
  /\ sem = "null" /\ sem_count = 0 /\ pend_list = << >>
  /\ task_status = [t \in Tasks |-> {"READY"}]
  /\ pc = [t \in Tasks |-> "app"]
  /\ posted = 0 /\ taken = 0

(* dos_sem_create: a count above the maximum is only warned about.         *)
Create ==
  /\ sem = "null"
  /\ sem' = "live"
  /\ sem_count' = Cnt
  /\ pend_list' = << >>
  /\ UNCHANGED <<task_status, pc, posted, taken>>

(* dos_sem_pend up to the return of dos_scheduler.                         *)
Pend(t, wait) ==
  /\ InApp(t)
  /\ IF sem_count > 0
     THEN /\ sem_count' = sem_count - 1
          /\ taken' = taken + 1
          /\ UNCHANGED <<pend_list, task_status, pc>>
     ELSE /\ wait # "try"
          /\ task_status' = [task_status EXCEPT ![t] = Blocked(@, wait = "forever")]
          /\ pend_list' = InsertItem(pend_list, BasePrio, t)
          /\ pc' = [pc EXCEPT ![t] = "pend"]
          /\ UNCHANGED <<sem_count, taken>>
  /\ UNCHANGED <<sem, posted>>

(* The rest of dos_sem_pend, when the task runs again.                     *)
PendReturn(t) ==
  /\ Running(t) /\ pc[t] = "pend"
  /\ pc' = [pc EXCEPT ![t] = "app"]
  /\ IF GaveUp(task_status[t])
     THEN /\ task_status' = [task_status EXCEPT ![t] = Resumed(@)]
          /\ pend_list' = DeleteItem(pend_list, t)
          /\ UNCHANGED taken
     ELSE /\ taken' = taken + 1
          /\ UNCHANGED <<task_status, pend_list>>
  /\ UNCHANGED <<sem, sem_count, posted>>

(* Fault: the count grows although the token goes to a waiter.             *)
PostTwice ==
  /\ posted < MaxPosts
  /\ sem_count # MaxCnt
  /\ posted' = posted + 1
  /\ sem_count' = sem_count + 1
  /\ IF pend_list = << >>
     THEN UNCHANGED <<pend_list, task_status>>
     ELSE /\ task_status' = [task_status EXCEPT ![Head(pend_list)] = Woken(@)]
          /\ pend_list' = DeleteItem(pend_list, Head(pend_list))
  /\ UNCHANGED <<sem, pc, taken>>

(* dos_sem_post, from a task or from an interrupt handler.                 *)
DoPost ==
  /\ posted < MaxPosts
  /\ sem_count # MaxCnt
  /\ posted' = posted + 1
  /\ IF pend_list = << >>
     THEN /\ sem_count' = sem_count + 1
          /\ UNCHANGED <<pend_list, task_status>>
     ELSE /\ task_status' = [task_status EXCEPT ![Head(pend_list)] = Woken(@)]
          /\ pend_list' = DeleteItem(pend_list, Head(pend_list))
          /\ UNCHANGED sem_count
  /\ UNCHANGED <<sem, pc, taken>>

Post(t) == t \in Posters /\ InApp(t) /\ DoPost
IsrPost == IsrPosts /\ sem = "live" /\ DoPost

(* The application sleeps; the tick handler ends a sleep or a timed wait.  *)
Sleep(t) ==
  /\ Running(t) /\ pc[t] = "app" /\ sem # "null"
  /\ task_status' = [task_status EXCEPT ![t] = Asleep(@)]
  /\ UNCHANGED <<sem, sem_count, pend_list, pc, posted, taken>>

Timeout(t) ==
  /\ "DELAY" \in task_status[t]
  /\ task_status' = [task_status EXCEPT ![t] = TimedOut(@)]
  /\ UNCHANGED <<sem, sem_count, pend_list, pc, posted, taken>>

(* dos_sem_delete: the test of the pend list, outside any critical         *)
(* section ...                                                             *)
Delete(t) ==
  /\ t \in Deleters /\ InApp(t)
  /\ pend_list = << >>
  /\ pc' = [pc EXCEPT ![t] = "delete"]
  /\ UNCHANGED <<sem, sem_count, pend_list, task_status, posted, taken>>

(* ... and the clearing and freeing of the semaphore.  The list head is    *)
(* cleared too; pend_list goes on to say whose pend items are linked to    *)
(* the freed semaphore.                                                    *)
DeleteFree(t) ==
  /\ Running(t) /\ pc[t] = "delete"
  /\ sem' = "freed"
  /\ sem_count' = 0
  /\ pc' = [pc EXCEPT ![t] = "app"]
  /\ UNCHANGED <<pend_list, task_status, posted, taken>>

Next ==
  \/ Create
  \/ \E t \in Tasks : \/ \E wait \in Waits : Pend(t, wait)
                       \/ PendReturn(t) \/ Post(t) \/ Sleep(t) \/ Timeout(t)
                       \/ Delete(t) \/ DeleteFree(t)
  \/ IsrPost

Spec == Init /\ [][Next]_vars

(* Only what the hardware and the scheduler guarantee: the tick handler    *)
(* runs, and a task that may run does.                                     *)
FairSpec ==
  /\ Spec
  /\ WF_vars(Create)
  /\ \A t \in Tasks : WF_vars(Timeout(t)) /\ WF_vars(PendReturn(t))

-----------------------------------------------------------------------------
(* Tasks that a post has woken and that have not yet returned from         *)
(* dos_sem_pend: the token is theirs.                                      *)
Granted ==
  {t \in Tasks : /\ pc[t] = "pend" /\ t \notin Range(pend_list)
                 /\ "TIMEOUT" \notin task_status[t]}

(* Every variable holds a value of its type, and the count never passes    *)
(* the maximum unless dos_sem_create was given a larger one: dos_sem_post  *)
(* tests it with ==.                                                       *)
TypeOK ==
  /\ sem \in {"null", "live", "freed"}
  /\ sem_count \in Nat /\ (Cnt <= MaxCnt => sem_count <= MaxCnt)
  /\ pend_list \in Seq(Tasks)
  /\ task_status \in [Tasks -> SUBSET StatusBits]
  /\ pc \in [Tasks -> {"app", "pend", "delete"}]
  /\ posted \in Nat
  /\ taken \in Nat

(* No task waits while the semaphore has a token to give (dos_sem_pend and *)
(* dos_sem_post decide under one critical section each).                   *)
NoIdleToken == sem_count > 0 => pend_list = << >>

(* dos_sem_pend never returns DOS_OK more often than tokens were created   *)
(* or posted, whatever timeouts and posts race.                            *)
NeverOverdrawn ==
  sem = "live" => taken + sem_count + Cardinality(Granted) <= Cnt + posted

(* How waiting shows: a task is on the pend list exactly when it has       *)
(* SUSPEND, only inside dos_sem_pend, and once.                            *)
WaitInv ==
  /\ IsInjective(pend_list)
  /\ \A t \in Tasks :
       /\ t \in Range(pend_list) <=> "SUSPEND" \in task_status[t]
       /\ ("SUSPEND" \in task_status[t] \/ "TIMEOUT" \in task_status[t]) => pc[t] = "pend"
       /\ ("READY" \in task_status[t] /\ "SUSPEND" \in task_status[t])
            => "TIMEOUT" \in task_status[t]
  /\ sem = "null" => /\ pend_list = << >> /\ posted = 0 /\ taken = 0
                     /\ \A t \in Tasks : pc[t] = "app"

(* The inductive invariant behind the three invariants above.              *)
SemInv == TypeOK /\ NoIdleToken /\ NeverOverdrawn /\ WaitInv

(* A token that dos_sem_post has accepted is in the count, with a woken    *)
(* waiter, or taken: a post to a semaphore nobody waits for any more is    *)
(* counted.                                                                *)
NoTokenLost ==
  sem = "live" => taken + sem_count + Cardinality(Granted) = Cnt + posted

(* A timed dos_sem_pend of the task of the highest priority returns.       *)
TimedPendReturns ==
  \A t \in Tasks :
    (\A u \in Tasks \ {t} : BasePrio[t] < BasePrio[u]) =>
      (pc[t] = "pend" /\ "DELAY" \in task_status[t]) ~> (pc[t] = "app")

(* The abstract semaphore: tokens that were given and not yet taken.       *)
Abs == INSTANCE SemSpec WITH
         waiting <- {t \in Tasks : pc[t] = "pend"},
         avail <- IF sem = "null" THEN Cnt ELSE sem_count + Cardinality(Granted),
         Lossy <- "timed" \in Waits,
         Deletable <- Deleters # {}

(* sem.c implements the abstract semaphore: exactly when no wait has a     *)
(* timeout and nobody deletes it, and otherwise a token is lost only to a  *)
(* call that is waiting or to the deletion.                                *)
ImplementsSem == Abs!Spec
=============================================================================
