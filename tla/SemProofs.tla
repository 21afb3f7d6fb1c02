----------------------------- MODULE SemProofs ------------------------------
(***************************************************************************)
(* The semaphore's invariants for any number of tasks, any priorities,     *)
(* counts and kinds of waiting, and the refinement of SemSpec.              *)
(***************************************************************************)
EXTENDS Sem, TaskListProofs, FiniteSetTheorems

(* Granted is a finite set, and what adding or removing one task does to   *)
(* its size.                                                               *)
LEMMA GrantedFinite == IsFiniteSet(Granted) /\ Cardinality(Granted) \in Nat
<1>1. IsFiniteSet(Granted)
  BY SemAssumption, FS_Subset DEF Granted
<1>. QED
  BY <1>1, FS_CardinalityType

(* Adding or removing one element changes the size by at most one.         *)
LEMMA SizeSteps ==
  ASSUME NEW S, NEW T, NEW x, IsFiniteSet(S)
  PROVE  /\ T \subseteq S \cup {x} =>
              IsFiniteSet(T) /\ Cardinality(T) \in Nat /\ Cardinality(T) <= Cardinality(S) + 1
         /\ (T = S \cup {x} /\ x \notin S) => Cardinality(T) = Cardinality(S) + 1
         /\ (T = S \ {x} /\ x \in S) =>
              Cardinality(T) = Cardinality(S) - 1 /\ Cardinality(S) > 0
<1>1. /\ IsFiniteSet(S \cup {x}) /\ Cardinality(S) \in Nat
      /\ Cardinality(S \cup {x}) =
           IF x \in S THEN Cardinality(S) ELSE Cardinality(S) + 1
  BY FS_AddElement, FS_CardinalityType
<1>2. ASSUME T \subseteq S \cup {x}
      PROVE  IsFiniteSet(T) /\ Cardinality(T) \in Nat /\ Cardinality(T) <= Cardinality(S) + 1
  <2>1. IsFiniteSet(T) /\ Cardinality(T) <= Cardinality(S \cup {x})
    BY <1>1, <1>2, FS_Subset
  <2>2. Cardinality(T) \in Nat
    BY <2>1, FS_CardinalityType
  <2>. QED
    BY <1>1, <2>1, <2>2
<1>3. ASSUME T = S \ {x}, x \in S
      PROVE  Cardinality(T) = Cardinality(S) - 1 /\ Cardinality(S) > 0
  <2>1. Cardinality(S \ {x}) = Cardinality(S) - 1
    BY <1>3, FS_RemoveElement
  <2>2. S # {}
    BY <1>3
  <2>3. Cardinality(S) # 0
    BY <2>2, FS_EmptySet
  <2>. QED
    BY <1>1, <1>3, <2>1, <2>3
<1>. QED
  BY <1>1, <1>2, <1>3

(* What the pend list looks like to a proof.                               *)
LEMMA PendListFacts ==
  ASSUME SemInv
  PROVE  /\ pend_list \in Seq(Tasks) /\ IsInjective(pend_list)
         /\ Range(pend_list) \subseteq Tasks
         /\ pend_list = << >> <=> Range(pend_list) = {}
         /\ Values(BasePrio, Tasks)
<1>1. pend_list \in Seq(Tasks) /\ IsInjective(pend_list) /\ Values(BasePrio, Tasks)
  BY SemAssumption DEF SemInv, TypeOK, WaitInv, Values
<1>. QED
  BY <1>1, EmptyItems

(* A step that leaves the list, the status and the places of the tasks     *)
(* leaves the tokens they were granted.                                    *)
LEMMA SameGranted ==
  ASSUME UNCHANGED pend_list,
         \A u \in Tasks : /\ pc[u] = "pend" <=> pc'[u] = "pend"
                          /\ u \in Range(pend_list) \/
                             ("TIMEOUT" \in task_status[u] <=> "TIMEOUT" \in task_status'[u])
  PROVE  Granted' = Granted
BY DEF Granted

(* dos_sem_create keeps the invariant.                                     *)
LEMMA CreateStep == ASSUME SemInv, Create PROVE SemInv'
<1>1. Granted' = {} /\ Cardinality(Granted') = 0
  <2>1. \A t \in Tasks : pc'[t] = "app"
    BY DEF SemInv, WaitInv, Create
  <2>2. Granted' = {}
    BY <2>1 DEF Granted
  <2>. QED
    BY <2>2, FS_EmptySet
<1>2. TypeOK' /\ NoIdleToken' /\ WaitInv'
  BY SemAssumption DEF SemInv, TypeOK, NoIdleToken, WaitInv, Create
<1>3. NeverOverdrawn'
  <2>1. posted' = 0 /\ taken' = 0 /\ sem_count' = Cnt
    BY DEF SemInv, WaitInv, Create
  <2>. QED
    BY <1>1, <2>1, SemAssumption DEF NeverOverdrawn
<1>. QED
  BY <1>2, <1>3 DEF SemInv

(* dos_sem_pend up to its first return or its wait keeps the invariant.    *)
LEMMA PendStep ==
  ASSUME SemInv, NEW t \in Tasks, NEW wait, Pend(t, wait)
  PROVE  SemInv'
<1>1. "READY" \in task_status[t] /\ pc[t] = "app" /\ sem = "live"
  BY DEF Pend, InApp, Running, Runs
<1>2. t \notin Range(pend_list) /\ "SUSPEND" \notin task_status[t]
      /\ "TIMEOUT" \notin task_status[t]
  BY <1>1 DEF SemInv, WaitInv
<1>3. CASE sem_count > 0
  <2>1. /\ sem_count' = sem_count - 1 /\ taken' = taken + 1
        /\ UNCHANGED <<pend_list, task_status, pc, sem, posted>>
    BY <1>3 DEF Pend
  <2>2. Granted' = Granted
    BY <2>1 DEF Granted
  <2>3. sem_count' \in Nat /\ taken' \in Nat /\ TypeOK' /\ WaitInv' /\ NoIdleToken'
    BY <1>1, <1>3, <2>1, SemAssumption DEF SemInv, TypeOK, WaitInv, NoIdleToken
  <2>4. NeverOverdrawn'
    BY <1>1, <2>1, <2>2, GrantedFinite, SemAssumption DEF SemInv, TypeOK, NeverOverdrawn
  <2>. QED
    BY <2>3, <2>4 DEF SemInv
<1>4. CASE ~(sem_count > 0)
  <2>1. /\ task_status' = [task_status EXCEPT ![t] = Blocked(@, wait = "forever")]
        /\ pend_list' = InsertItem(pend_list, BasePrio, t)
        /\ pc' = [pc EXCEPT ![t] = "pend"]
        /\ UNCHANGED <<sem_count, taken, sem, posted>>
    BY <1>4 DEF Pend
  <2>2. /\ pend_list' \in Seq(Tasks) /\ IsInjective(pend_list')
        /\ Range(pend_list') = Range(pend_list) \cup {t}
    BY <1>2, <2>1, PendListFacts, InsertItemProps
  <2>3. /\ task_status' \in [Tasks -> SUBSET StatusBits]
        /\ \A u \in Tasks : u # t => task_status'[u] = task_status[u] /\ pc'[u] = pc[u]
        /\ "SUSPEND" \in task_status'[t] /\ "READY" \notin task_status'[t]
        /\ "TIMEOUT" \notin task_status'[t] /\ pc'[t] = "pend"
        /\ pc' \in [Tasks -> {"app", "pend", "delete"}]
    BY <1>2, <2>1 DEF SemInv, TypeOK, Blocked, StatusBits
  <2>4. Granted' = Granted
    BY <1>1, <2>2, <2>3 DEF Granted
  <2>5. WaitInv'
    BY <1>1, <2>1, <2>2, <2>3 DEF SemInv, WaitInv
  <2>6. TypeOK' /\ NoIdleToken' /\ NeverOverdrawn'
    BY <1>4, <2>1, <2>2, <2>3, <2>4 DEF SemInv, TypeOK, NoIdleToken, NeverOverdrawn
  <2>. QED
    BY <2>5, <2>6 DEF SemInv
<1>. QED
  BY <1>3, <1>4

(* The end of dos_sem_pend keeps the invariant: a task that returns DOS_OK *)
(* had been granted a token.                                               *)
LEMMA PendReturnStep ==
  ASSUME SemInv, NEW t \in Tasks, PendReturn(t)
  PROVE  /\ SemInv'
         /\ "TIMEOUT" \notin task_status[t] =>
              t \in Granted /\ Granted' = Granted \ {t}
         /\ "TIMEOUT" \in task_status[t] => Granted' = Granted
<1>1. "READY" \in task_status[t] /\ pc[t] = "pend" /\ sem # "null"
      /\ pc' = [pc EXCEPT ![t] = "app"] /\ UNCHANGED <<sem, sem_count, posted>>
  BY DEF PendReturn, Running, Runs, SemInv, WaitInv
<1>2. pc' \in [Tasks -> {"app", "pend", "delete"}] /\ pc'[t] = "app"
      /\ \A u \in Tasks : u # t => pc'[u] = pc[u]
  BY <1>1 DEF SemInv, TypeOK
<1>3. CASE "TIMEOUT" \in task_status[t]
  <2>1. /\ task_status' = [task_status EXCEPT ![t] = Resumed(@)]
        /\ pend_list' = DeleteItem(pend_list, t)
        /\ UNCHANGED taken
    BY <1>3 DEF PendReturn, GaveUp
  <2>2. /\ pend_list' \in Seq(Tasks) /\ IsInjective(pend_list')
        /\ Range(pend_list') = Range(pend_list) \ {t}
    BY <2>1, PendListFacts, DeleteItemProps
  <2>3. /\ task_status' \in [Tasks -> SUBSET StatusBits]
        /\ \A u \in Tasks : u # t => task_status'[u] = task_status[u]
        /\ "SUSPEND" \notin task_status'[t] /\ "TIMEOUT" \notin task_status'[t]
    BY <2>1 DEF SemInv, TypeOK, Resumed, StatusBits
  <2>4. Granted' = Granted
    BY <1>2, <1>3, <2>2, <2>3 DEF Granted
  <2>5. WaitInv'
    BY <1>1, <1>2, <2>2, <2>3 DEF SemInv, WaitInv
  <2>6. pend_list = << >> => pend_list' = << >>
    BY <2>2, PendListFacts, EmptyItems
  <2>7. TypeOK' /\ NoIdleToken' /\ NeverOverdrawn'
    BY <1>1, <1>2, <2>1, <2>2, <2>3, <2>4, <2>6
       DEF SemInv, TypeOK, NoIdleToken, NeverOverdrawn
  <2>. QED
    BY <1>3, <2>4, <2>5, <2>7 DEF SemInv
<1>4. CASE "TIMEOUT" \notin task_status[t]
  <2>1. taken' = taken + 1 /\ UNCHANGED <<task_status, pend_list>>
    BY <1>4 DEF PendReturn, GaveUp
  <2>2. t \notin Range(pend_list) /\ "SUSPEND" \notin task_status[t]
    BY <1>1, <1>4 DEF SemInv, WaitInv
  <2>3. t \in Granted /\ Granted' = Granted \ {t}
    BY <1>1, <1>2, <1>4, <2>1, <2>2 DEF Granted
  <2>4. Cardinality(Granted') = Cardinality(Granted) - 1
    BY <2>3, GrantedFinite, SizeSteps
  <2>5. TypeOK' /\ NoIdleToken' /\ WaitInv'
    BY <1>1, <1>2, <1>4, <2>1, <2>2 DEF SemInv, TypeOK, NoIdleToken, WaitInv
  <2>6. NeverOverdrawn'
    BY <1>1, <2>1, <2>4, GrantedFinite, SemAssumption DEF SemInv, TypeOK, NeverOverdrawn
  <2>. QED
    BY <1>4, <2>3, <2>5, <2>6 DEF SemInv
<1>. QED
  BY <1>3, <1>4

(* dos_sem_post keeps the invariant; the first waiter, if there is one,    *)
(* is granted the token unless its wait has timed out.                     *)
LEMMA PostStep ==
  ASSUME SemInv, sem = "live", DoPost
  PROVE  /\ SemInv'
         /\ pend_list = << >> => Granted' = Granted /\ sem_count' = sem_count + 1
         /\ pend_list # << >> =>
              /\ sem_count' = sem_count
              /\ \E h \in Tasks :
                   /\ h \notin Granted /\ Granted' \subseteq Granted \cup {h}
                   /\ pc[h] = "pend"
                   /\ IF "TIMEOUT" \in task_status[h] THEN Granted' = Granted
                                                    ELSE Granted' = Granted \cup {h}
<1>1. posted' = posted + 1 /\ UNCHANGED <<sem, pc, taken>>
  BY DEF DoPost
<1>2. CASE pend_list = << >>
  <2>1. /\ sem_count # MaxCnt /\ sem_count' = sem_count + 1
        /\ UNCHANGED <<pend_list, task_status>>
    BY <1>2 DEF DoPost
  <2>2. Granted' = Granted
    BY <1>1, <2>1 DEF Granted
  <2>3. TypeOK' /\ NoIdleToken' /\ WaitInv'
    BY <1>1, <1>2, <2>1, SemAssumption DEF SemInv, TypeOK, NoIdleToken, WaitInv
  <2>4. NeverOverdrawn'
    BY <1>1, <2>1, <2>2, GrantedFinite, SemAssumption DEF SemInv, TypeOK, NeverOverdrawn
  <2>. QED
    BY <1>2, <2>1, <2>2, <2>3, <2>4 DEF SemInv
<1>3. CASE pend_list # << >>
  <2> DEFINE h == Head(pend_list)
  <2>1. /\ task_status' = [task_status EXCEPT ![h] = Woken(@)]
        /\ pend_list' = DeleteItem(pend_list, h)
        /\ sem_count' = sem_count
    BY <1>3 DEF DoPost
  <2>2. h \in Tasks /\ h \in Range(pend_list)
    BY <1>3, PendListFacts, HeadTailProps
  <2> HIDE DEF h
  <2>3. /\ pend_list' \in Seq(Tasks) /\ IsInjective(pend_list')
        /\ Range(pend_list') = Range(pend_list) \ {h}
    BY <2>1, PendListFacts, DeleteItemProps
  <2>4. /\ task_status' \in [Tasks -> SUBSET StatusBits]
        /\ \A u \in Tasks : u # h => task_status'[u] = task_status[u]
        /\ "SUSPEND" \notin task_status'[h]
        /\ "TIMEOUT" \in task_status'[h] <=> "TIMEOUT" \in task_status[h]
    BY <2>1, <2>2 DEF SemInv, TypeOK, Woken, StatusBits
  <2>5. pc[h] = "pend"
    BY <2>2 DEF SemInv, WaitInv
  <2>6. /\ h \notin Granted /\ Granted' \subseteq Granted \cup {h}
        /\ IF "TIMEOUT" \in task_status[h] THEN Granted' = Granted
                                         ELSE Granted' = Granted \cup {h}
    BY <1>1, <2>2, <2>3, <2>4, <2>5 DEF Granted
  <2>7. Cardinality(Granted') \in Nat /\ Cardinality(Granted') <= Cardinality(Granted) + 1
    BY <2>6, GrantedFinite, SizeSteps
  <2>8. sem_count = 0 /\ sem_count' = 0
    BY <1>3, <2>1 DEF SemInv, NoIdleToken, TypeOK
  <2>9. TypeOK' /\ NoIdleToken' /\ WaitInv'
    <3>1. TypeOK' /\ NoIdleToken'
      BY <1>1, <2>3, <2>4, <2>8 DEF SemInv, TypeOK, NoIdleToken
    <3>2. WaitInv'
      BY <1>1, <2>2, <2>3, <2>4, <2>5 DEF SemInv, WaitInv
    <3>. QED
      BY <3>1, <3>2
  <2>10. NeverOverdrawn'
    BY <1>1, <2>7, <2>8, GrantedFinite, SemAssumption DEF SemInv, TypeOK, NeverOverdrawn
  <2>. QED
    BY <1>3, <2>1, <2>2, <2>5, <2>6, <2>9, <2>10 DEF SemInv
<1>. QED
  BY <1>2, <1>3

(* A timeout keeps the invariant and grants nothing.                       *)
LEMMA TimeoutStep ==
  ASSUME SemInv, NEW t \in Tasks, Timeout(t)
  PROVE  SemInv' /\ Granted' = Granted
<1>1. /\ task_status' = [task_status EXCEPT ![t] = TimedOut(@)]
      /\ UNCHANGED <<sem, sem_count, pend_list, pc, posted, taken>>
  BY DEF Timeout
<1>2. /\ task_status' \in [Tasks -> SUBSET StatusBits]
      /\ \A u \in Tasks : u # t => task_status'[u] = task_status[u]
      /\ "SUSPEND" \in task_status'[t] <=> "SUSPEND" \in task_status[t]
      /\ "TIMEOUT" \in task_status'[t] <=>
           ("TIMEOUT" \in task_status[t] \/ "SUSPEND" \in task_status[t])
  BY <1>1 DEF SemInv, TypeOK, TimedOut, StatusBits
<1>3. Granted' = Granted
  BY <1>1, <1>2, SameGranted DEF SemInv, WaitInv
<1>4. TypeOK' /\ NoIdleToken' /\ NeverOverdrawn'
  BY <1>1, <1>2, <1>3 DEF SemInv, TypeOK, NoIdleToken, NeverOverdrawn
<1>5. WaitInv'
  BY <1>1, <1>2 DEF SemInv, WaitInv
<1>. QED
  BY <1>3, <1>4, <1>5 DEF SemInv

(* So does a sleep of the application.                                     *)
LEMMA SleepStep ==
  ASSUME SemInv, NEW t \in Tasks, Sleep(t)
  PROVE  SemInv' /\ Granted' = Granted
<1>1. /\ task_status' = [task_status EXCEPT ![t] = Asleep(@)]
      /\ UNCHANGED <<sem, sem_count, pend_list, pc, posted, taken>>
  BY DEF Sleep
<1>2. /\ task_status' \in [Tasks -> SUBSET StatusBits]
      /\ \A u \in Tasks : u # t => task_status'[u] = task_status[u]
      /\ "SUSPEND" \in task_status'[t] <=> "SUSPEND" \in task_status[t]
      /\ "TIMEOUT" \in task_status'[t] <=> "TIMEOUT" \in task_status[t]
      /\ "READY" \notin task_status'[t]
  BY <1>1 DEF SemInv, TypeOK, Asleep, StatusBits
<1>3. Granted' = Granted
  BY <1>1, <1>2, SameGranted DEF SemInv, WaitInv
<1>4. TypeOK' /\ NoIdleToken' /\ NeverOverdrawn'
  BY <1>1, <1>2, <1>3 DEF SemInv, TypeOK, NoIdleToken, NeverOverdrawn
<1>5. WaitInv'
  BY <1>1, <1>2 DEF SemInv, WaitInv
<1>. QED
  BY <1>3, <1>4, <1>5 DEF SemInv

(* Both halves of dos_sem_delete keep the invariant.                       *)
LEMMA DeleteStep ==
  ASSUME SemInv, NEW t \in Tasks, Delete(t) \/ DeleteFree(t)
  PROVE  SemInv' /\ Granted' = Granted /\ sem # "null" /\ sem' # "null"
<1>1. /\ pc[t] # "pend" /\ pc' \in [Tasks -> {"app", "pend", "delete"}]
      /\ pc'[t] # "pend" /\ \A u \in Tasks : u # t => pc'[u] = pc[u]
      /\ UNCHANGED <<pend_list, task_status, posted, taken>>
      /\ sem # "null"
      /\ \/ sem' = sem /\ sem_count' = sem_count
         \/ sem' = "freed" /\ sem_count' = 0
  BY DEF SemInv, TypeOK, WaitInv, Delete, DeleteFree, InApp
<1>2. Granted' = Granted
  BY <1>1, SameGranted
<1>3. TypeOK' /\ NoIdleToken' /\ NeverOverdrawn'
  <2>1. 0 \in Nat /\ (Cnt <= MaxCnt => 0 <= MaxCnt) /\ ~(0 > 0)
    BY SemAssumption
  <2>2. CASE sem' = sem /\ sem_count' = sem_count
    BY <1>1, <1>2, <2>2 DEF SemInv, TypeOK, NoIdleToken, NeverOverdrawn
  <2>3. CASE sem' = "freed" /\ sem_count' = 0
    BY <1>1, <2>1, <2>3 DEF SemInv, TypeOK, NoIdleToken, NeverOverdrawn
  <2>. QED
    BY <1>1, <2>2, <2>3
<1>4. WaitInv'
  BY <1>1 DEF SemInv, WaitInv
<1>. QED
  BY <1>1, <1>2, <1>3, <1>4 DEF SemInv

(* The initial state satisfies the invariant.                              *)
LEMMA InitInv == Init => SemInv
<1> SUFFICES ASSUME Init PROVE SemInv
  OBVIOUS
<1>1. pend_list \in Seq(Tasks) /\ Range(pend_list) = {} /\ IsInjective(pend_list)
  <2>1. pend_list = << >>
    BY DEF Init
  <2>2. << >> \in Seq(Tasks) /\ DOMAIN << >> = {}
    OBVIOUS
  <2>3. Range(<< >>) = {} /\ IsInjective(<< >>)
    BY <2>2, Zenon DEF Range, IsInjective
  <2>. QED
    BY <2>1, <2>2, <2>3, Zenon
<1>2. TypeOK
  BY <1>1, SemAssumption DEF Init, TypeOK, StatusBits
<1>3. NoIdleToken /\ NeverOverdrawn
  BY DEF Init, NoIdleToken, NeverOverdrawn
<1>4. WaitInv
  BY <1>1 DEF Init, WaitInv
<1>. QED
  BY <1>2, <1>3, <1>4 DEF SemInv

(* Every step keeps the invariant.                                         *)
LEMMA NextInv == SemInv /\ [Next]_vars => SemInv'
<1> SUFFICES ASSUME SemInv, [Next]_vars PROVE SemInv'
  OBVIOUS
<1>1. CASE UNCHANGED vars
  BY <1>1 DEF vars, SemInv, TypeOK, NoIdleToken, NeverOverdrawn, WaitInv, Granted
<1>2. CASE Next
  BY <1>2, CreateStep, PendStep, PendReturnStep, PostStep, TimeoutStep, SleepStep,
     DeleteStep DEF Next, Post, IsrPost, InApp
<1>. QED
  BY <1>1, <1>2

(* The semaphore's inductive invariant holds throughout.                   *)
THEOREM SemInductive == Spec => []SemInv
<1>. QED
  BY InitInv, NextInv, PTL DEF Spec

(* No task waits while the semaphore has a token.                          *)
THEOREM NeverIdle == Spec => []NoIdleToken
<1>1. SemInv => NoIdleToken
  BY DEF SemInv
<1>. QED
  BY <1>1, SemInductive, PTL

(* dos_sem_pend succeeds at most once for every token.                     *)
THEOREM Sound == Spec => []NeverOverdrawn
<1>1. SemInv => NeverOverdrawn
  BY DEF SemInv
<1>. QED
  BY <1>1, SemInductive, PTL

-----------------------------------------------------------------------------
(* The refinement.  Without timed waits no task ever has TIMEOUT, and      *)
(* without tasks that delete the semaphore none is inside dos_sem_delete.  *)
Untimed ==
  \A t \in Tasks : /\ "TIMEOUT" \notin task_status[t]
                   /\ "DELAY" \in task_status[t] =>
                        "SUSPEND" \notin task_status[t] /\ "READY" \notin task_status[t]
Undeleted == \A t \in Tasks : pc[t] # "delete"
Restricted == ("timed" \notin Waits => Untimed) /\ (Deleters = {} => Undeleted)

(* Untimed is kept by every step of a system without timed waits.          *)
LEMMA UntimedStep ==
  ASSUME "timed" \notin Waits, SemInv, Untimed, [Next]_vars
  PROVE  Untimed'
<1>1. CASE UNCHANGED <<task_status, pc>>
  BY <1>1 DEF Untimed
<1>2. ASSUME NEW t \in Tasks, NEW wait \in Waits, Pend(t, wait) PROVE Untimed'
  <2>1. CASE sem_count > 0
    BY <1>1, <1>2, <2>1 DEF Pend
  <2>2. CASE ~(sem_count > 0)
    <3>1. /\ task_status' = [task_status EXCEPT ![t] = Blocked(@, wait = "forever")]
          /\ pc' = [pc EXCEPT ![t] = "pend"] /\ wait = "forever"
      BY <1>2, <2>2, SemAssumption DEF Pend
    <3>2. "DELAY" \notin task_status[t]
      BY <1>2 DEF Pend, InApp, Running, Runs, Untimed
    <3>. QED
      BY <3>1, <3>2 DEF Untimed, Blocked, SemInv, TypeOK
  <2>. QED
    BY <2>1, <2>2
<1>3. ASSUME NEW t \in Tasks, PendReturn(t) PROVE Untimed'
  BY <1>3 DEF PendReturn, GaveUp, Untimed, SemInv, TypeOK
<1>4. ASSUME DoPost PROVE Untimed'
  BY <1>4 DEF DoPost, Untimed, Woken, SemInv, TypeOK
<1>5. ASSUME NEW t \in Tasks, Sleep(t) PROVE Untimed'
  <2>1. /\ task_status' = [task_status EXCEPT ![t] = Asleep(@)]
        /\ pc' = pc /\ "SUSPEND" \notin task_status[t]
    BY <1>5 DEF Sleep, InApp, SemInv, WaitInv
  <2>. QED
    BY <2>1 DEF Untimed, Asleep, SemInv, TypeOK
<1>6. ASSUME NEW t \in Tasks, Timeout(t) PROVE Untimed'
  <2>1. /\ task_status' = [task_status EXCEPT ![t] = TimedOut(@)]
        /\ pc' = pc /\ "SUSPEND" \notin task_status[t]
    BY <1>6 DEF Timeout, Untimed
  <2>. QED
    BY <2>1 DEF Untimed, TimedOut, SemInv, TypeOK
<1>. QED
  BY <1>1, <1>2, <1>3, <1>4, <1>5, <1>6
     DEF Next, vars, Post, IsrPost, Create, Delete, DeleteFree, Untimed

(* So is Undeleted where no task deletes.                                  *)
LEMMA UndeletedStep ==
  ASSUME Deleters = {}, SemInv, Undeleted, [Next]_vars
  PROVE  Undeleted'
<1>1. CASE UNCHANGED pc
  BY <1>1 DEF Undeleted
<1>2. ASSUME NEW t \in Tasks, pc' = [pc EXCEPT ![t] = "app"] \/ pc' = [pc EXCEPT ![t] = "pend"]
      PROVE  Undeleted'
  BY <1>2 DEF Undeleted, SemInv, TypeOK
<1>3. ASSUME NEW t \in Tasks, NEW wait \in Waits, Pend(t, wait) PROVE Undeleted'
  BY <1>1, <1>2, <1>3 DEF Pend
<1>. QED
  BY <1>1, <1>2, <1>3
     DEF Next, vars, Create, PendReturn, Post, IsrPost, DoPost, Sleep, Timeout, Delete, DeleteFree

(* The variables of SemSpec that the refinement computes.                  *)
Pending == {t \in Tasks : pc[t] = "pend"}
Avail == IF sem = "null" THEN Cnt ELSE sem_count + Cardinality(Granted)

(* Each step of sem.c is a step of SemSpec or changes nothing there.       *)
LEMMA RefinementStep ==
  ASSUME SemInv, SemInv', Restricted, [Next]_vars
  PROVE  [Abs!Next]_(Abs!vars)
<1> DEFINE still == Pending' = Pending /\ Avail' = Avail /\ UNCHANGED <<posted, taken>>
<1>0. /\ still => [Abs!Next]_(Abs!vars)
      /\ Cardinality(Granted) \in Nat /\ sem_count \in Nat /\ Avail \in Nat
  <2>1. still => UNCHANGED Abs!vars
    BY DEF Abs!vars, Pending, Avail
  <2>. QED
    BY <2>1, GrantedFinite, SemAssumption DEF SemInv, TypeOK, Avail
<1>1. CASE UNCHANGED vars
  <2>1. still
    BY <1>1 DEF vars, Pending, Avail, Granted
  <2>. QED
    BY <1>0, <2>1
<1>2. CASE Create
  <2>1. \A t \in Tasks : pc[t] = "app" /\ pc'[t] = "app"
    BY <1>2 DEF Create, SemInv, WaitInv
  <2>2. Granted' = {} /\ Cardinality(Granted') = 0
    BY <2>1, FS_EmptySet DEF Granted
  <2>3. still
    BY <1>2, <2>1, <2>2, SemAssumption DEF Create, Pending, Avail
  <2>. QED
    BY <1>0, <2>3
<1>3. ASSUME NEW t \in Tasks, NEW wait \in Waits, Pend(t, wait)
      PROVE  [Abs!Next]_(Abs!vars)
  <2>0. sem = "live" /\ sem' = "live" /\ pc[t] = "app" /\ posted' = posted
    BY <1>3 DEF Pend, InApp
  <2>1. CASE sem_count > 0
    <3>1. /\ sem_count' = sem_count - 1 /\ taken' = taken + 1
          /\ UNCHANGED <<pend_list, task_status, pc>>
      BY <1>3, <2>1 DEF Pend
    <3>2. Granted' = Granted /\ Pending' = Pending
      BY <3>1 DEF Granted, Pending
    <3>3. Avail > 0 /\ Avail' = Avail - 1
      BY <1>0, <2>0, <2>1, <3>1, <3>2 DEF Avail
    <3>4. Abs!Take(Pending)
      BY <2>0, <3>1, <3>2, <3>3 DEF Abs!Take, Pending, Avail
    <3>. QED
      BY <3>4 DEF Abs!Next, Pending
  <2>2. CASE ~(sem_count > 0)
    <3>1. /\ pend_list' = InsertItem(pend_list, BasePrio, t)
          /\ pc' = [pc EXCEPT ![t] = "pend"]
          /\ task_status' = [task_status EXCEPT ![t] = Blocked(@, wait = "forever")]
          /\ UNCHANGED <<sem_count, taken>>
      BY <1>3, <2>2 DEF Pend
    <3>2. Range(pend_list') = Range(pend_list) \cup {t}
      BY <3>1, PendListFacts, InsertItemProps
    <3>3. /\ Granted' = Granted /\ Pending' = Pending \cup {t}
          /\ t \in Tasks \ Pending
      BY <2>0, <3>1, <3>2 DEF Granted, Pending, SemInv, TypeOK
    <3>4. Avail' = Avail
      BY <1>0, <2>0, <3>1, <3>3 DEF Avail
    <3>5. Abs!Change(Pending \cup {t})
      BY <2>0, <3>1, <3>3, <3>4 DEF Abs!Change, Pending, Avail
    <3>. QED
      BY <3>3, <3>5 DEF Abs!Next, Pending
  <2>. QED
    BY <2>1, <2>2
<1>4. ASSUME NEW t \in Tasks, PendReturn(t) PROVE [Abs!Next]_(Abs!vars)
  <2>1. pc[t] = "pend" /\ pc' = [pc EXCEPT ![t] = "app"] /\ UNCHANGED <<sem, sem_count, posted>>
    BY <1>4 DEF PendReturn
  <2>2. t \in Pending /\ Pending' = Pending \ {t} /\ sem # "null"
    BY <2>1 DEF Pending, SemInv, TypeOK, WaitInv
  <2>3. CASE "TIMEOUT" \in task_status[t]
    <3>1. taken' = taken /\ Granted' = Granted
      BY <1>4, <2>3, PendReturnStep DEF PendReturn, GaveUp
    <3>2. Avail' = Avail
      BY <2>1, <3>1 DEF Avail
    <3>3. Abs!Change(Pending \ {t})
      BY <2>1, <2>2, <3>1, <3>2 DEF Abs!Change, Pending, Avail
    <3>. QED
      BY <2>2, <3>3 DEF Abs!Next, Pending
  <2>4. CASE "TIMEOUT" \notin task_status[t]
    <3>1. taken' = taken + 1 /\ t \in Granted /\ Granted' = Granted \ {t}
      BY <1>4, <2>4, PendReturnStep DEF PendReturn, GaveUp
    <3>2. Cardinality(Granted') = Cardinality(Granted) - 1 /\ Cardinality(Granted) > 0
      BY <3>1, GrantedFinite, SizeSteps
    <3>3. Avail > 0 /\ Avail' = Avail - 1
      BY <1>0, <2>1, <2>2, <3>2 DEF Avail
    <3>4. Abs!Take(Pending \ {t})
      BY <2>1, <2>2, <3>1, <3>3 DEF Abs!Take, Pending, Avail
    <3>. QED
      BY <2>2, <3>4 DEF Abs!Next, Pending
  <2>. QED
    BY <2>3, <2>4
<1>5. ASSUME sem = "live", DoPost PROVE [Abs!Next]_(Abs!vars)
  <2>1. UNCHANGED <<sem, pc, taken>> /\ posted' = posted + 1
    BY <1>5 DEF DoPost
  <2>2. Avail' = Avail + 1 => [Abs!Next]_(Abs!vars)
    BY <2>1 DEF Abs!Next, Abs!Give, Pending, Avail
  <2>3. CASE pend_list = << >>
    BY <1>0, <1>5, <2>1, <2>2, <2>3, PostStep DEF Avail
  <2>4. CASE pend_list # << >>
    <3>1. PICK h \in Tasks :
            /\ h \notin Granted /\ pc[h] = "pend"
            /\ IF "TIMEOUT" \in task_status[h] THEN Granted' = Granted
                                             ELSE Granted' = Granted \cup {h}
      BY <1>5, <2>4, PostStep
    <3>2. sem_count' = sem_count
      BY <1>5, <2>4, PostStep
    <3>3. CASE "TIMEOUT" \in task_status[h]
      <4>1. "timed" \in Waits /\ h \in Pending
        BY <3>1, <3>3 DEF Restricted, Untimed, Pending
      <4>2. Avail' = Avail
        BY <2>1, <3>1, <3>2, <3>3 DEF Avail
      <4>3. Abs!Swallow
        BY <2>1, <4>1, <4>2 DEF Abs!Swallow, Pending, Avail
      <4>. QED
        BY <4>3 DEF Abs!Next
    <3>4. CASE "TIMEOUT" \notin task_status[h]
      <4>1. Cardinality(Granted') = Cardinality(Granted) + 1
        BY <3>1, <3>4, GrantedFinite, SizeSteps
      <4>. QED
        BY <1>0, <1>5, <2>1, <2>2, <3>2, <4>1 DEF Avail
    <3>. QED
      BY <3>3, <3>4
  <2>. QED
    BY <2>3, <2>4
<1>6. ASSUME NEW t \in Tasks, Sleep(t) \/ Timeout(t) PROVE [Abs!Next]_(Abs!vars)
  <2>1. Granted' = Granted /\ UNCHANGED <<sem, sem_count, pc, posted, taken>>
    BY <1>6, SleepStep, TimeoutStep DEF Sleep, Timeout
  <2>2. still
    BY <2>1 DEF Pending, Avail
  <2>. QED
    BY <1>0, <2>2
<1>7. ASSUME NEW t \in Tasks, Delete(t) PROVE [Abs!Next]_(Abs!vars)
  <2>1. Granted' = Granted /\ UNCHANGED <<sem, sem_count, posted, taken>>
    BY <1>7, DeleteStep DEF Delete
  <2>2. Pending' = Pending
    BY <1>7 DEF Delete, InApp, Pending, SemInv, TypeOK
  <2>3. still
    BY <2>1, <2>2 DEF Avail
  <2>. QED
    BY <1>0, <2>3
<1>8. ASSUME NEW t \in Tasks, DeleteFree(t) PROVE [Abs!Next]_(Abs!vars)
  <2>1. /\ Granted' = Granted /\ sem # "null" /\ sem' # "null" /\ sem_count' = 0
        /\ UNCHANGED <<posted, taken>> /\ pc[t] = "delete"
    BY <1>8, DeleteStep DEF DeleteFree
  <2>2. Pending' = Pending
    BY <1>8 DEF DeleteFree, Pending, SemInv, TypeOK
  <2>3. Avail' \in 0 .. Avail
    BY <1>0, <2>1 DEF Avail
  <2>4. Deleters # {}
    BY <2>1 DEF Restricted, Undeleted
  <2>5. Abs!Discard
    BY <2>1, <2>2, <2>3, <2>4 DEF Abs!Discard, Pending, Avail
  <2>. QED
    BY <2>5 DEF Abs!Next
<1>. QED
  BY <1>1, <1>2, <1>3, <1>4, <1>5, <1>6, <1>7, <1>8 DEF Next, Post, IsrPost, InApp

(* The initial state maps to SemSpec's.                                    *)
LEMMA RefinementInit == Init => Abs!Init /\ Restricted
BY DEF Init, Abs!Init, Restricted, Untimed, Undeleted

(* sem.c implements SemSpec: every accepted post adds one token or, where  *)
(* waits time out, is used up by a waiting call; every dos_sem_pend that   *)
(* returns DOS_OK takes one.                                               *)
THEOREM Refinement == Spec => ImplementsSem
<1>1. SemInv /\ Restricted /\ [Next]_vars => Restricted'
  BY UntimedStep, UndeletedStep DEF Restricted
<1>2. SemInv /\ SemInv' /\ Restricted /\ [Next]_vars => [Abs!Next]_(Abs!vars)
  BY RefinementStep
<1>. QED
  BY <1>1, <1>2, RefinementInit, SemInductive, PTL DEF Spec, ImplementsSem, Abs!Spec
=============================================================================
