---------------------------- MODULE MutexProofs -----------------------------
(***************************************************************************)
(* Mutual exclusion for any number of tasks and mutexes, any priorities    *)
(* and every use of the mutexes whose nesting the count can express, from  *)
(* an invariant on how tasks and mutexes stand to each other; then         *)
(* priority inheritance, its end, and the deletion of mutexes, where tasks *)
(* hold one mutex at a time, from two more invariants: Owning and (where   *)
(* no wait is timed) Lending.                                              *)
(***************************************************************************)
EXTENDS Mutex, TaskListProofs

Typed ==
  /\ usage \in Usages
  /\ mutex_count \in [Mutexes -> Nat]
  /\ mutex_owner \in [Mutexes -> Tasks \cup {NoTask}]
  /\ pend_list \in [Mutexes -> Seq(Tasks)]
  /\ task_status \in [Tasks -> SUBSET StatusBits]
  /\ call \in [Tasks -> {App} \cup ({"pend", "delete"} \X Mutexes)]
  /\ holds \in [Tasks -> [Mutexes -> Nat]]
  /\ live \in [Mutexes -> BOOLEAN]

InPend(t, m) == call[t] = <<"pend", m>>

(* A task on the pend list is inside dos_mutex_pend, does not own the      *)
(* mutex, and does not run before its wait is marked as given up.          *)
Listed(t, m) ==
  /\ InPend(t, m) /\ mutex_owner[m] # t /\ "SUSPEND" \in task_status[t]
  /\ "READY" \in task_status[t] => "TIMEOUT" \in task_status[t]

(* What the owner believes it holds is the count, or one less after a      *)
(* wait that was given up just before the mutex was handed over.           *)
Knows(t, m) ==
  IF InPend(t, m) THEN mutex_count[m] = 1 /\ holds[t][m] = 0
  ELSE /\ mutex_count[m] > 0
       /\ holds[t][m] <= mutex_count[m] /\ mutex_count[m] <= holds[t][m] + 1
       /\ Untimed => holds[t][m] = mutex_count[m]

(* How a task stands to a mutex.  A task inside dos_mutex_pend that is not *)
(* on the list any more was given the mutex; a task that holds a mutex     *)
(* owns it.  Both end when another task frees it, which does not happen    *)
(* where a task inside dos_mutex_delete holds the mutex.                   *)
Sound(m) == live[m] \/ usage.own

Pair(t, m) ==
  /\ t \in Range(pend_list[m]) => Listed(t, m)
  /\ Sound(m) /\ InPend(t, m) /\ t \notin Range(pend_list[m]) => mutex_owner[m] = t
  /\ usage.own /\ call[t] = <<"delete", m>> => holds[t][m] > 0
  /\ mutex_owner[m] = t => Knows(t, m)
  /\ Sound(m) /\ holds[t][m] > 0 => mutex_owner[m] = t

Lists == \A m \in Mutexes : /\ IsInjective(pend_list[m])
                            /\ mutex_owner[m] = NoTask => mutex_count[m] = 0
                            /\ ~live[m] => mutex_owner[m] = NoTask

(* Where no wait has a timeout, no wait is ever given up.                  *)
Unmarked == Untimed => \A t \in Tasks : task_status[t] \in {{"READY"}, {"SUSPEND"}, {"DELAY"}}

Pairs == \A t \in Tasks, m \in Mutexes : Pair(t, m)

Inv == Typed /\ Lists /\ Pairs /\ Unmarked
MutexInv == Shallow => Inv

-----------------------------------------------------------------------------
(* The places of a task in the calls are told apart.                       *)
LEMMA Calls ==
  ASSUME NEW m, NEW n
  PROVE  /\ App # <<"pend", m>> /\ App # <<"delete", m>>
         /\ <<"pend", m>> # <<"delete", n>>
         /\ m # n => <<"pend", m>> # <<"pend", n>> /\ <<"delete", m>> # <<"delete", n>>
<1>1. Len(App) = 1 /\ Len(<<"pend", m>>) = 2 /\ Len(<<"delete", m>>) = 2
  BY Zenon DEF App
<1>2. <<"pend", m>>[1] = "pend" /\ <<"delete", n>>[1] = "delete"
  BY Zenon
<1>3. <<"pend", m>>[2] = m /\ <<"pend", n>>[2] = n /\ <<"delete", m>>[2] = m /\ <<"delete", n>>[2] = n
  BY Zenon
<1>. QED
  BY <1>1, <1>2, <1>3

(* What the assumptions say of the usage and the constants.                *)
LEMMA UsageFacts ==
  ASSUME usage \in Usages
  PROVE  /\ Values(usage.prio, Tasks) /\ usage.depth \in Nat
         /\ CountMod \in Nat /\ CountMod > 1 /\ NoTask \notin Tasks
<1>1. usage \in UsageType
  BY MutexAssumption, Zenon
<1>. QED
  BY <1>1, MutexAssumption, Zenon DEF UsageType, Values

(* dos_mutex_create establishes the invariant.                             *)
LEMMA InitInv == Init => Inv
<1> SUFFICES ASSUME Init PROVE Inv
  BY Zenon
<1>1. Typed
  BY DEF Init, Typed, App, StatusBits
<1>2. \A m \in Mutexes : IsInjective(pend_list[m]) /\ Range(pend_list[m]) = {}
  BY DEF Init, IsInjective, Range
<1>3. Lists
  BY <1>2, Zenon DEF Init, Lists
<1>4. Pairs
  BY <1>2, Calls, MutexAssumption DEF Init, Pairs, Pair, InPend
<1>5. Unmarked
  BY Zenon DEF Init, Unmarked
<1>. QED
  BY <1>1, <1>3, <1>4, <1>5, Zenon DEF Inv

(* What an update of holds does.                                           *)
LEMMA HoldsUpdate ==
  ASSUME NEW f \in [Tasks -> [Mutexes -> Nat]], NEW t \in Tasks, NEW m \in Mutexes,
         NEW v \in Nat, NEW g, g = [f EXCEPT ![t][m] = v]
  PROVE  /\ g \in [Tasks -> [Mutexes -> Nat]] /\ g[t][m] = v
         /\ \A u \in Tasks, n \in Mutexes : u # t \/ n # m => g[u][n] = f[u][n]
<1> DEFINE row == [f[t] EXCEPT ![m] = v]
<1>1. row \in [Mutexes -> Nat] /\ row[m] = v /\ \A n \in Mutexes : n # m => row[n] = f[t][n]
  BY Zenon
<1>2. g = [f EXCEPT ![t] = row]
  BY Zenon
<1> HIDE DEF row
<1>. QED
  BY <1>1, <1>2, Zenon

(* The task is in a call with the mutex as before.                         *)
SameCall(t, m) ==
  /\ InPend(t, m)' <=> InPend(t, m)
  /\ call'[t] = <<"delete", m>> => call[t] = <<"delete", m>>

(* A task and a mutex whose state does not change stand as before.         *)
LEMMA PairKept ==
  ASSUME NEW t, NEW m, Pair(t, m), live'[m] => live[m], UNCHANGED usage,
         t \in Range(pend_list[m])' <=> t \in Range(pend_list[m]),
         mutex_owner'[m] = mutex_owner[m], mutex_count'[m] = mutex_count[m],
         SameCall(t, m), holds'[t][m] = holds[t][m],
         t \in Range(pend_list[m]) => task_status'[t] = task_status[t]
  PROVE  Pair(t, m)'
BY Zenon DEF SameCall, Pair, Listed, Knows, Untimed, Sound

(* A task that does not own the mutex is not concerned by what happens to  *)
(* its count and owner.                                                    *)
LEMMA PairOther ==
  ASSUME NEW t, NEW m, Pair(t, m), live'[m] => live[m], UNCHANGED usage,
         mutex_owner[m] # t, mutex_owner'[m] # t,
         t \in Range(pend_list[m])' <=> t \in Range(pend_list[m]),
         SameCall(t, m), holds'[t][m] = holds[t][m],
         t \in Range(pend_list[m]) => task_status'[t] = task_status[t]
  PROVE  Pair(t, m)'
BY Zenon DEF SameCall, Pair, Listed, Sound

(* A task outside the calls is on no list.                                 *)
LEMMA OutsideFacts ==
  ASSUME Inv, NEW t \in Tasks, call[t] = App, NEW m \in Mutexes
  PROVE  /\ ~InPend(t, m) /\ call[t] # <<"delete", m>>
         /\ t \notin Range(pend_list[m])
<1>1. ~InPend(t, m) /\ call[t] # <<"delete", m>>
  BY Calls, Zenon DEF InPend
<1>. QED
  BY <1>1, Zenon DEF Inv, Pairs, Pair, Listed

(* Steps that change one entry of holds and, of the shared state, at most  *)
(* the owner and the count of one mutex.                                   *)
OneEntry(t, m) ==
  /\ mutex_count' \in [Mutexes -> Nat] /\ mutex_owner' \in [Mutexes -> Tasks \cup {NoTask}]
  /\ holds' \in [Tasks -> [Mutexes -> Nat]]
  /\ \A n \in Mutexes \ {m} : mutex_count'[n] = mutex_count[n] /\ mutex_owner'[n] = mutex_owner[n]
  /\ \A u \in Tasks, n \in Mutexes : u # t \/ n # m => holds'[u][n] = holds[u][n]
  /\ mutex_owner'[m] = NoTask => mutex_count'[m] = 0
  /\ live' \in [Mutexes -> BOOLEAN] /\ \A n \in Mutexes : live'[n] => live[n]
  /\ \A n \in Mutexes \ {m} : live'[n] = live[n]
  /\ ~live'[m] => mutex_owner'[m] = NoTask
  /\ UNCHANGED <<pend_list, task_status, usage>>

(* They keep whatever is not about that entry.                             *)
LEMMA OneEntryKeeps ==
  ASSUME Inv, NEW t \in Tasks, NEW m \in Mutexes, OneEntry(t, m)
  PROVE  /\ Lists' /\ Unmarked'
         /\ call' \in [Tasks -> {App} \cup ({"pend", "delete"} \X Mutexes)] => Typed'
         /\ \A u \in Tasks, n \in Mutexes : n # m /\ SameCall(u, n) => Pair(u, n)'
<1>1. Typed /\ Lists /\ Pairs /\ Unmarked
  BY Zenon DEF Inv
<1>2. Lists'
  BY <1>1, Zenon DEF Lists, OneEntry
<1>3. Unmarked'
  BY <1>1, Zenon DEF Unmarked, Untimed, OneEntry
<1>4. call' \in [Tasks -> {App} \cup ({"pend", "delete"} \X Mutexes)] => Typed'
  BY <1>1, Zenon DEF Typed, OneEntry
<1>5. ASSUME NEW u \in Tasks, NEW n \in Mutexes, n # m, SameCall(u, n) PROVE Pair(u, n)'
  <2>1. Pair(u, n)
    BY <1>1, Zenon DEF Pairs
  <2>. QED
    BY <2>1, <1>5, PairKept, Zenon DEF OneEntry
<1>. QED
  BY <1>2, <1>3, <1>4, <1>5, Zenon

(* The same when the calls are left alone.                                 *)
LEMMA OneEntryInv ==
  ASSUME Inv, NEW t \in Tasks, NEW m \in Mutexes, OneEntry(t, m), UNCHANGED call
  PROVE  /\ Lists' /\ Unmarked' /\ Typed'
         /\ \A u \in Tasks, n \in Mutexes : n # m => Pair(u, n)'
<1>1. call' \in [Tasks -> {App} \cup ({"pend", "delete"} \X Mutexes)]
  BY Zenon DEF Inv, Typed
<1>2. \A u \in Tasks, n \in Mutexes : SameCall(u, n)
  BY Zenon DEF SameCall, InPend
<1>. QED
  BY <1>1, <1>2, OneEntryKeeps, Zenon

(* Taking a free mutex.                                                    *)
LEMMA PendFreeInv ==
  ASSUME Inv, NEW t \in Tasks, NEW m \in Mutexes, PendFree(t, m)
  PROVE  Inv'
<1>1. Typed /\ Lists /\ Pairs /\ call[t] = App /\ mutex_count[m] = 0 /\ live[m]
  BY Zenon DEF Inv, PendFree, Wants, InApp, IsFree
<1>2. \A u \in Tasks : mutex_owner[m] # u /\ holds[u][m] = 0
  <2>1. \A u \in Tasks : mutex_owner[m] # u
    BY <1>1 DEF Pairs, Pair, Knows
  <2>. QED
    BY <2>1, <1>1 DEF Pairs, Pair, Typed, Sound
<1>3. ~InPend(t, m) /\ call[t] # <<"delete", m>> /\ t \notin Range(pend_list[m])
  BY <1>1, OutsideFacts, Zenon
<1>4. Counted(m) = 1 /\ holds[t][m] + 1 = 1
  BY <1>1, <1>2, MutexAssumption DEF Counted
<1>5. /\ OneEntry(t, m) /\ UNCHANGED call
      /\ mutex_count'[m] = 1 /\ mutex_owner'[m] = t /\ holds'[t][m] = 1
  <2>1. /\ mutex_count' = [mutex_count EXCEPT ![m] = 1]
        /\ mutex_owner' = [mutex_owner EXCEPT ![m] = t]
        /\ holds' = [holds EXCEPT ![t][m] = 1]
        /\ UNCHANGED <<pend_list, task_status, call, live, usage>>
    BY <1>4, Zenon DEF PendFree
  <2>2. /\ holds' \in [Tasks -> [Mutexes -> Nat]] /\ holds'[t][m] = 1
        /\ \A u \in Tasks, n \in Mutexes : u # t \/ n # m => holds'[u][n] = holds[u][n]
    BY <1>1, <2>1, HoldsUpdate DEF Typed
  <2>. QED
    BY <1>1, <2>1, <2>2, MutexAssumption DEF Typed, OneEntry
<1>6. ASSUME NEW u \in Tasks PROVE Pair(u, m)'
  <2>1. Pair(u, m)
    BY <1>1, Zenon DEF Pairs
  <2>2. CASE u # t
    BY <2>1, <2>2, <1>2, <1>5, PairOther, Zenon DEF OneEntry, SameCall, InPend
  <2>3. CASE u = t
    BY <2>3, <1>3, <1>5 DEF Pair, Knows, InPend, OneEntry
  <2>. QED
    BY <2>2, <2>3, Zenon
<1>. QED
  BY <1>5, <1>6, OneEntryInv, Zenon DEF Inv, Pairs

(* Taking a mutex again, within the depth the count can express.           *)
LEMMA PendAgainInv ==
  ASSUME Inv, Shallow, NEW t \in Tasks, NEW m \in Mutexes, PendAgain(t, m)
  PROVE  Inv'
<1>1. Typed /\ Lists /\ Pairs /\ call[t] = App /\ mutex_owner[m] = t /\ holds[t][m] < usage.depth /\ live[m]
  BY Zenon DEF Inv, PendAgain, Wants, InApp
<1>2. ~InPend(t, m) /\ call[t] # <<"delete", m>> /\ t \notin Range(pend_list[m])
  BY <1>1, OutsideFacts, Zenon
<1>3. Knows(t, m) /\ mutex_count[m] \in Nat /\ holds[t][m] \in Nat /\ usage.depth \in Nat
  BY <1>1, UsageFacts DEF Pairs, Pair, Typed
<1>4. Counted(m) = mutex_count[m] + 1
  BY <1>1, <1>2, <1>3, MutexAssumption DEF Counted, Knows, Shallow
<1>5. /\ OneEntry(t, m) /\ UNCHANGED call
      /\ mutex_count'[m] = mutex_count[m] + 1 /\ mutex_owner'[m] = t
      /\ holds'[t][m] = holds[t][m] + 1
  <2>1. /\ mutex_count' = [mutex_count EXCEPT ![m] = mutex_count[m] + 1]
        /\ holds' = [holds EXCEPT ![t][m] = holds[t][m] + 1]
        /\ UNCHANGED <<mutex_owner, pend_list, task_status, call, live, usage>>
    BY <1>4, Zenon DEF PendAgain
  <2>2. holds[t][m] + 1 \in Nat /\ mutex_count[m] + 1 \in Nat /\ t # NoTask
    BY <1>3, MutexAssumption
  <2>3. /\ holds' \in [Tasks -> [Mutexes -> Nat]] /\ holds'[t][m] = holds[t][m] + 1
        /\ \A u \in Tasks, n \in Mutexes : u # t \/ n # m => holds'[u][n] = holds[u][n]
    BY <1>1, <2>1, <2>2, HoldsUpdate DEF Typed
  <2>. QED
    BY <1>1, <2>1, <2>2, <2>3 DEF Typed, OneEntry
<1>6. ASSUME NEW u \in Tasks PROVE Pair(u, m)'
  <2>1. Pair(u, m)
    BY <1>1, Zenon DEF Pairs
  <2>2. CASE u # t
    BY <2>1, <2>2, <1>1, <1>5, PairOther, Zenon DEF OneEntry, SameCall, InPend
  <2>3. CASE u = t
    <3>1. Knows(t, m)'
      BY <1>2, <1>3, <1>5 DEF Knows, InPend, OneEntry, Untimed
    <3>. QED
      BY <2>3, <3>1, <1>2, <1>5, Zenon DEF Pair, InPend, OneEntry
  <2>. QED
    BY <2>2, <2>3, Zenon
<1>. QED
  BY <1>5, <1>6, OneEntryInv, Zenon DEF Inv, Pairs

(* Releasing a mutex that was taken several times.                         *)
LEMMA PostInnerInv ==
  ASSUME Inv, NEW t \in Tasks, NEW m \in Mutexes, PostInner(t, m)
  PROVE  Inv'
<1>1. /\ Typed /\ Lists /\ Pairs /\ call[t] = App /\ live[m]
      /\ mutex_owner[m] = t /\ holds[t][m] > 0 /\ mutex_count[m] > 1
  BY Zenon DEF Inv, PostInner, Posts, Wants, InApp
<1>2. ~InPend(t, m) /\ call[t] # <<"delete", m>> /\ t \notin Range(pend_list[m])
  BY <1>1, OutsideFacts, Zenon
<1>3. Knows(t, m) /\ mutex_count[m] \in Nat /\ holds[t][m] \in Nat
  BY <1>1 DEF Pairs, Pair, Typed
<1>4. /\ OneEntry(t, m) /\ UNCHANGED call
      /\ mutex_count'[m] = mutex_count[m] - 1 /\ mutex_owner'[m] = t
      /\ holds'[t][m] = holds[t][m] - 1
  <2>1. /\ mutex_count' = [mutex_count EXCEPT ![m] = mutex_count[m] - 1]
        /\ holds' = [holds EXCEPT ![t][m] = holds[t][m] - 1]
        /\ UNCHANGED <<mutex_owner, pend_list, task_status, call, live, usage>>
    BY Zenon DEF PostInner
  <2>2. holds[t][m] - 1 \in Nat /\ mutex_count[m] - 1 \in Nat /\ t # NoTask
    BY <1>1, <1>3, MutexAssumption
  <2>3. /\ holds' \in [Tasks -> [Mutexes -> Nat]] /\ holds'[t][m] = holds[t][m] - 1
        /\ \A u \in Tasks, n \in Mutexes : u # t \/ n # m => holds'[u][n] = holds[u][n]
    BY <1>1, <2>1, <2>2, HoldsUpdate DEF Typed
  <2>. QED
    BY <1>1, <2>1, <2>2, <2>3 DEF Typed, OneEntry
<1>5. ASSUME NEW u \in Tasks PROVE Pair(u, m)'
  <2>1. Pair(u, m)
    BY <1>1, Zenon DEF Pairs
  <2>2. CASE u # t
    BY <2>1, <2>2, <1>1, <1>4, PairOther, Zenon DEF OneEntry, SameCall, InPend
  <2>3. CASE u = t
    <3>1. Knows(t, m)'
      <4>1. /\ holds[t][m] <= mutex_count[m] /\ mutex_count[m] <= holds[t][m] + 1
            /\ Untimed => holds[t][m] = mutex_count[m]
        BY <1>2, <1>3, Zenon DEF Knows
      <4>2. ~InPend(t, m)' /\ Untimed' = Untimed
        BY <1>2, <1>4, Zenon DEF InPend, OneEntry, Untimed
      <4> HIDE DEF Untimed
      <4>. QED
        BY <4>1, <4>2, <1>1, <1>3, <1>4 DEF Knows
    <3>. QED
      BY <2>3, <3>1, <1>2, <1>4, Zenon DEF Pair, InPend, OneEntry
  <2>. QED
    BY <2>2, <2>3, Zenon
<1>. QED
  BY <1>4, <1>5, OneEntryInv, Zenon DEF Inv, Pairs

(* The last release of a mutex nobody waits for.                           *)
LEMMA PostFreeInv ==
  ASSUME Inv, NEW t \in Tasks, NEW m \in Mutexes, PostLast(t, m), NobodyWaits(m)
  PROVE  Inv'
<1>1. /\ Typed /\ Lists /\ Pairs /\ call[t] = App /\ live[m]
      /\ mutex_owner[m] = t /\ holds[t][m] > 0 /\ mutex_count[m] = 1
  BY Zenon DEF Inv, PostLast, Posts, Wants, InApp
<1>2. ~InPend(t, m) /\ call[t] # <<"delete", m>> /\ t \notin Range(pend_list[m])
  BY <1>1, OutsideFacts, Zenon
<1>3. holds[t][m] = 1 /\ holds[t][m] - 1 = 0
  BY <1>1, <1>2 DEF Pairs, Pair, Typed, Knows
<1>4. /\ OneEntry(t, m) /\ UNCHANGED call
      /\ mutex_count'[m] = 0 /\ mutex_owner'[m] = NoTask /\ holds'[t][m] = 0
  <2>1. /\ mutex_count' = [mutex_count EXCEPT ![m] = 0]
        /\ mutex_owner' = [mutex_owner EXCEPT ![m] = NoTask]
        /\ holds' = [holds EXCEPT ![t][m] = 0]
        /\ UNCHANGED <<pend_list, task_status, call, live, usage>>
    BY <1>3, Zenon DEF PostLast
  <2>2. /\ holds' \in [Tasks -> [Mutexes -> Nat]] /\ holds'[t][m] = 0
        /\ \A u \in Tasks, n \in Mutexes : u # t \/ n # m => holds'[u][n] = holds[u][n]
    BY <1>1, <2>1, HoldsUpdate DEF Typed
  <2>. QED
    BY <1>1, <2>1, <2>2 DEF Typed, OneEntry
<1>5. ASSUME NEW u \in Tasks PROVE Pair(u, m)'
  <2>1. Pair(u, m)
    BY <1>1, Zenon DEF Pairs
  <2>2. CASE u # t
    BY <2>1, <2>2, <1>1, <1>4, PairOther, MutexAssumption, Zenon DEF OneEntry, SameCall, InPend
  <2>3. CASE u = t
    BY <2>3, <1>2, <1>4, MutexAssumption DEF Pair, InPend, OneEntry
  <2>. QED
    BY <2>2, <2>3, Zenon
<1>. QED
  BY <1>4, <1>5, OneEntryInv, Zenon DEF Inv, Pairs

(* The last release of a mutex that is handed to the first waiter.         *)
LEMMA PostHandInv ==
  ASSUME Inv, NEW t \in Tasks, NEW m \in Mutexes, PostLast(t, m), ~NobodyWaits(m)
  PROVE  Inv'
<1> DEFINE w == Head(pend_list[m])
<1>1. /\ Typed /\ Lists /\ Pairs /\ Unmarked /\ call[t] = App /\ live[m]
      /\ mutex_owner[m] = t /\ holds[t][m] > 0 /\ mutex_count[m] = 1
  BY Zenon DEF Inv, PostLast, Posts, Wants, InApp
<1>2. ~InPend(t, m) /\ call[t] # <<"delete", m>> /\ t \notin Range(pend_list[m])
  BY <1>1, OutsideFacts, Zenon
<1>3. holds[t][m] = 1 /\ holds[t][m] - 1 = 0
  BY <1>1, <1>2 DEF Pairs, Pair, Typed, Knows
<1>4. /\ w \in Tasks /\ w \in Range(pend_list[m])
      /\ DeleteItem(pend_list[m], w) \in Seq(Tasks)
      /\ Range(DeleteItem(pend_list[m], w)) = Range(pend_list[m]) \ {w}
      /\ IsInjective(DeleteItem(pend_list[m], w))
  <2>1. pend_list[m] \in Seq(Tasks) /\ IsInjective(pend_list[m]) /\ pend_list[m] # << >>
    BY <1>1, Zenon DEF NobodyWaits, Typed, Lists
  <2>. QED
    BY <2>1, HeadTailProps, DeleteItemProps, Zenon
<1>5. /\ mutex_count' = [mutex_count EXCEPT ![m] = 1]
      /\ mutex_owner' = [mutex_owner EXCEPT ![m] = w]
      /\ holds' = [holds EXCEPT ![t][m] = 0]
      /\ pend_list' = [pend_list EXCEPT ![m] = DeleteItem(pend_list[m], w)]
      /\ task_status' = [task_status EXCEPT ![w] = Woken(task_status[w])]
      /\ UNCHANGED <<call, live, usage>>
  BY <1>1, <1>3 DEF PostLast, HandedCount
<1> HIDE DEF w
<1>6. /\ holds' \in [Tasks -> [Mutexes -> Nat]] /\ holds'[t][m] = 0
      /\ \A u \in Tasks, n \in Mutexes : u # t \/ n # m => holds'[u][n] = holds[u][n]
  BY <1>1, <1>5, HoldsUpdate DEF Typed
<1>7. /\ mutex_count'[m] = 1 /\ mutex_owner'[m] = w
      /\ pend_list'[m] = DeleteItem(pend_list[m], w)
      /\ \A n \in Mutexes \ {m} : /\ mutex_count'[n] = mutex_count[n] /\ mutex_owner'[n] = mutex_owner[n]
                                  /\ pend_list'[n] = pend_list[n]
      /\ \A u \in Tasks \ {w} : task_status'[u] = task_status[u]
  BY <1>1, <1>5, <1>4, Zenon DEF Typed
<1>8. w # t /\ InPend(w, m) /\ holds[w][m] = 0 /\ "SUSPEND" \in task_status[w]
  BY <1>1, <1>2, <1>4 DEF Pairs, Pair, Listed, Typed, Sound
<1>9. Typed'
  <2>1. Woken(task_status[w]) \in SUBSET StatusBits
    BY <1>1, <1>4, Zenon DEF Typed, Woken, StatusBits
  <2>. QED
    BY <2>1, <1>1, <1>4, <1>5, <1>6, Zenon DEF Typed
<1>10. Lists'
  <2>. SUFFICES ASSUME NEW n \in Mutexes
                PROVE  /\ IsInjective(pend_list'[n]) /\ (mutex_owner'[n] = NoTask => mutex_count'[n] = 0)
                       /\ ~live'[n] => mutex_owner'[n] = NoTask
    BY Zenon DEF Lists
  <2>1. CASE n = m
    <3>1. IsInjective(pend_list'[m])
      BY <1>4, <1>7, Zenon
    <3>2. mutex_owner'[m] # NoTask
      BY <1>4, <1>7, MutexAssumption, Zenon
    <3>3. live'[m]
      BY <1>1, <1>5, Zenon
    <3>. QED BY <2>1, <3>1, <3>2, <3>3, Zenon
  <2>2. CASE n # m
    BY <2>2, <1>1, <1>5, <1>7, Zenon DEF Lists
  <2>. QED
    BY <2>1, <2>2, Zenon
<1>11. Unmarked'
  <2>1. Untimed => Woken(task_status[w]) = {"READY"}
    BY <1>1, <1>4, <1>8, Zenon DEF Unmarked, Woken
  <2>. QED
    BY <2>1, <1>1, <1>4, <1>5, Zenon DEF Unmarked, Untimed, Typed
<1>12. \A u \in Tasks, n \in Mutexes : SameCall(u, n)
  BY <1>5, Zenon DEF SameCall, InPend
<1>13. ASSUME NEW u \in Tasks, NEW n \in Mutexes PROVE Pair(u, n)'
  <2>1. Pair(u, n) /\ SameCall(u, n)
    BY <1>1, <1>12, Zenon DEF Pairs
  <2>2. CASE n # m
    <3>1. w \notin Range(pend_list[n])
      BY <2>2, <1>1, <1>4, <1>8, Calls DEF Pairs, Pair, Listed, InPend
    <3>. QED
      BY <2>1, <2>2, <3>1, <1>5, <1>6, <1>7, PairKept
  <2>3. CASE n = m /\ u = w
    <3>1. u \notin Range(pend_list[m])' /\ InPend(u, m)' /\ holds'[u][m] = 0
      BY <2>3, <1>4, <1>5, <1>6, <1>7, <1>8, Zenon DEF InPend
    <3>2. call'[u] # <<"delete", m>>
      BY <2>3, <1>5, <1>8, Calls, Zenon DEF InPend
    <3>. QED
      BY <2>3, <3>1, <3>2, <1>7, Zenon DEF Pair, Knows
  <2>4. CASE n = m /\ u = t
    <3>1. t \notin Range(pend_list[m])' /\ ~InPend(t, m)' /\ call'[t] # <<"delete", m>>
      BY <1>2, <1>4, <1>5, <1>7, Zenon DEF InPend
    <3>. QED
      BY <2>4, <3>1, <1>6, <1>7, <1>8 DEF Pair
  <2>5. CASE n = m /\ u # w /\ u # t
    <3>1. u \in Range(pend_list[m])' <=> u \in Range(pend_list[m])
      BY <2>5, <1>4, <1>7, Zenon
    <3>. QED
      BY <2>1, <2>5, <3>1, <1>1, <1>5, <1>6, <1>7, PairOther, Zenon
  <2>. QED
    BY <2>2, <2>3, <2>4, <2>5, Zenon
<1>. QED
  BY <1>9, <1>10, <1>11, <1>13, Zenon DEF Inv, Pairs

(* Steps that leave the mutexes and the lists alone: of the state of one   *)
(* task that is on no list, only its status and its place change.          *)
LEMMA AsideInv ==
  ASSUME Inv, NEW t \in Tasks, \A m \in Mutexes : t \notin Range(pend_list[m]) /\ ~InPend(t, m),
         UNCHANGED <<mutex_count, mutex_owner, pend_list, holds, live, usage>>,
         Typed', Unmarked',
         \A u \in Tasks \ {t} : call'[u] = call[u] /\ task_status'[u] = task_status[u],
         \A m \in Mutexes : /\ ~InPend(t, m)'
                            /\ usage.own /\ call'[t] = <<"delete", m>> => holds[t][m] > 0
  PROVE  Inv'
<1>1. Lists /\ Pairs
  BY Zenon DEF Inv
<1>2. Lists'
  BY <1>1, Zenon DEF Lists
<1>3. ASSUME NEW u \in Tasks, NEW n \in Mutexes PROVE Pair(u, n)'
  <2>1. Pair(u, n)
    BY <1>1, Zenon DEF Pairs
  <2>2. CASE u # t
    BY <2>1, <2>2, PairKept, Zenon DEF SameCall, InPend
  <2>3. CASE u = t
    BY <2>1, <2>3, Zenon DEF Pair, Knows, Untimed, Sound
  <2>. QED
    BY <2>2, <2>3, Zenon
<1>. QED
  BY <1>2, <1>3, Zenon DEF Inv, Pairs

(* The test of dos_mutex_delete.                                           *)
LEMMA DeleteInv ==
  ASSUME Inv, NEW t \in Tasks, NEW m \in Mutexes, Delete(t, m)
  PROVE  Inv'
<1>1. /\ Typed /\ call[t] = App /\ (usage.own => holds[t][m] > 0)
      /\ call' = [call EXCEPT ![t] = <<"delete", m>>]
      /\ UNCHANGED <<mutex_count, mutex_owner, pend_list, task_status, holds, live, usage>>
  BY Zenon DEF Inv, Delete, Wants, InApp, mutexVars
<1>2. \A n \in Mutexes : t \notin Range(pend_list[n]) /\ ~InPend(t, n)
  BY <1>1, OutsideFacts, Zenon
<1>3. Typed' /\ Unmarked'
  BY <1>1, Zenon DEF Inv, Typed, Unmarked, Untimed
<1>4. call'[t] = <<"delete", m>> /\ \A u \in Tasks \ {t} : call'[u] = call[u]
  BY <1>1, Zenon DEF Typed
<1>5. \A n \in Mutexes : ~InPend(t, n)' /\ (call'[t] = <<"delete", n>> => n = m)
  BY <1>4, Calls, Zenon DEF InPend
<1>. QED
  BY <1>1, <1>2, <1>3, <1>4, <1>5, AsideInv, Zenon

(* The sleep of the application.                                           *)
LEMMA SleepInv ==
  ASSUME Inv, NEW t \in Tasks, Sleep(t)
  PROVE  Inv'
<1>1. /\ Typed /\ Unmarked /\ call[t] = App /\ "READY" \in task_status[t]
      /\ task_status' = [task_status EXCEPT ![t] = Asleep(task_status[t])]
      /\ UNCHANGED <<mutex_count, mutex_owner, pend_list, call, holds, live, usage>>
  BY Zenon DEF Inv, Sleep, InApp, Running, Runs, mutexVars
<1>2. \A n \in Mutexes : t \notin Range(pend_list[n]) /\ ~InPend(t, n) /\ call[t] # <<"delete", n>>
  BY <1>1, OutsideFacts, Zenon
<1>3. Typed' /\ Unmarked'
  <2>1. /\ Asleep(task_status[t]) \in SUBSET StatusBits
        /\ Untimed => Asleep(task_status[t]) = {"DELAY"}
    <3>1. Asleep(task_status[t]) \in SUBSET StatusBits
      BY <1>1, Zenon DEF Typed, Asleep, StatusBits
    <3>2. Untimed => task_status[t] = {"READY"}
      BY <1>1, Zenon DEF Unmarked
    <3>3. Asleep({"READY"}) = {"DELAY"}
      BY Zenon DEF Asleep
    <3>. QED
      BY <3>1, <3>2, <3>3, Zenon
  <2>. QED
    BY <2>1, <1>1, Zenon DEF Typed, Unmarked, Untimed
<1>4. \A u \in Tasks \ {t} : task_status'[u] = task_status[u]
  BY <1>1, Zenon DEF Typed
<1>5. \A n \in Mutexes : ~InPend(t, n)'
  BY <1>1, <1>2, Zenon DEF InPend
<1>. QED
  BY <1>1, <1>2, <1>3, <1>4, <1>5, AsideInv, Zenon

(* The end of a sleep or of a timed wait.                                  *)
LEMMA TimeoutInv ==
  ASSUME Inv, NEW t \in Tasks, Timeout(t)
  PROVE  Inv'
<1>1. /\ Typed /\ Lists /\ Pairs /\ Unmarked /\ "DELAY" \in task_status[t]
      /\ task_status' = [task_status EXCEPT ![t] = TimedOut(task_status[t])]
      /\ UNCHANGED <<mutex_count, mutex_owner, pend_list, call, holds, live, usage>>
  BY Zenon DEF Inv, Timeout, mutexVars
<1>2. Typed' /\ Unmarked'
  <2>1. /\ TimedOut(task_status[t]) \in SUBSET StatusBits
        /\ Untimed => TimedOut(task_status[t]) = {"READY"}
    <3>1. TimedOut(task_status[t]) \in SUBSET StatusBits
      BY <1>1, Zenon DEF Typed, TimedOut, StatusBits
    <3>2. Untimed => task_status[t] = {"DELAY"}
      BY <1>1, Zenon DEF Unmarked
    <3>3. TimedOut({"DELAY"}) = {"READY"}
      BY Zenon DEF TimedOut
    <3>. QED
      BY <3>1, <3>2, <3>3, Zenon
  <2>. QED
    BY <2>1, <1>1, Zenon DEF Typed, Unmarked, Untimed
<1>3. Lists'
  BY <1>1, Zenon DEF Lists
<1>4. /\ task_status'[t] = TimedOut(task_status[t])
      /\ \A u \in Tasks \ {t} : task_status'[u] = task_status[u]
  BY <1>1, Zenon DEF Typed
<1>5. ASSUME NEW u \in Tasks, NEW n \in Mutexes PROVE Pair(u, n)'
  <2>1. Pair(u, n) /\ SameCall(u, n)
    BY <1>1, Zenon DEF Pairs, SameCall, InPend
  <2>2. CASE u # t \/ u \notin Range(pend_list[n])
    BY <2>1, <2>2, <1>1, <1>4, PairKept, Zenon
  <2>3. CASE u = t /\ u \in Range(pend_list[n])
    <3>1. Listed(u, n)'
      BY <2>1, <2>3, <1>1, <1>4, Zenon DEF Pair, Listed, InPend, TimedOut
    <3>. QED
      BY <2>1, <2>3, <3>1, <1>1, Zenon DEF Pair, Listed, InPend, Sound
  <2>. QED
    BY <2>2, <2>3, Zenon
<1>. QED
  BY <1>2, <1>3, <1>5, Zenon DEF Inv, Pairs

(* The wait for a mutex of another task.                                   *)
LEMMA PendWaitInv ==
  ASSUME Inv, NEW t \in Tasks, NEW m \in Mutexes, NEW wait \in usage.waits, PendWait(t, m, wait)
  PROVE  Inv'
<1> DEFINE st == Blocked(task_status[t], wait = "forever")
<1>1. /\ Typed /\ Lists /\ Pairs /\ Unmarked /\ call[t] = App /\ "READY" \in task_status[t] /\ live[m]
      /\ mutex_owner[m] # t /\ wait # "try"
      /\ task_status' = [task_status EXCEPT ![t] = st]
      /\ pend_list' = [pend_list EXCEPT ![m] = InsertItem(pend_list[m], usage.prio, t)]
      /\ call' = [call EXCEPT ![t] = <<"pend", m>>]
      /\ UNCHANGED <<mutex_count, mutex_owner, holds, live, usage>>
  BY Zenon DEF Inv, PendWait, Wants, InApp, Running, Runs
<1>2. \A n \in Mutexes : t \notin Range(pend_list[n]) /\ ~InPend(t, n) /\ call[t] # <<"delete", n>>
  BY <1>1, OutsideFacts, Zenon
<1>3. /\ InsertItem(pend_list[m], usage.prio, t) \in Seq(Tasks)
      /\ Range(InsertItem(pend_list[m], usage.prio, t)) = Range(pend_list[m]) \cup {t}
      /\ IsInjective(InsertItem(pend_list[m], usage.prio, t))
  <2>1. pend_list[m] \in Seq(Tasks) /\ IsInjective(pend_list[m]) /\ Values(usage.prio, Tasks)
    BY <1>1, UsageFacts, Zenon DEF Typed, Lists
  <2>. QED
    BY <2>1, <1>2, InsertItemProps
<1>4. /\ st \in SUBSET StatusBits /\ "SUSPEND" \in st /\ "READY" \notin st
      /\ Untimed => st = {"SUSPEND"}
  <2>1. st \in SUBSET StatusBits /\ "SUSPEND" \in st /\ "READY" \notin st
    BY <1>1, Zenon DEF Typed, Blocked, StatusBits
  <2>2. ASSUME Untimed PROVE wait = "forever" /\ task_status[t] = {"READY"}
    <3>1. usage.waits \subseteq {"try", "timed", "forever"}
      <4>1. usage \in UsageType
        BY <1>1, MutexAssumption, Zenon DEF Typed
      <4>. QED
        BY <4>1, Zenon DEF UsageType
    <3>. QED
      BY <2>2, <3>1, <1>1, Zenon DEF Untimed, Unmarked
  <2>3. Blocked({"READY"}, TRUE) = {"SUSPEND"}
    BY Zenon DEF Blocked
  <2>. QED
    BY <2>1, <2>2, <2>3, Zenon
<1> HIDE DEF st
<1>5. /\ task_status'[t] = st /\ call'[t] = <<"pend", m>>
      /\ pend_list'[m] = InsertItem(pend_list[m], usage.prio, t)
      /\ \A n \in Mutexes \ {m} : pend_list'[n] = pend_list[n]
      /\ \A u \in Tasks \ {t} : task_status'[u] = task_status[u] /\ call'[u] = call[u]
  BY <1>1, Zenon DEF Typed
<1>6. Typed'
  BY <1>1, <1>3, <1>4, Zenon DEF Typed
<1>7. Unmarked'
  BY <1>1, <1>4, <1>5, Zenon DEF Unmarked, Untimed
<1>8. Lists'
  <2>. SUFFICES ASSUME NEW n \in Mutexes
                PROVE  /\ IsInjective(pend_list'[n]) /\ (mutex_owner'[n] = NoTask => mutex_count'[n] = 0)
                       /\ ~live'[n] => mutex_owner'[n] = NoTask
    BY Zenon DEF Lists
  <2>1. CASE n = m
    BY <2>1, <1>1, <1>3, <1>5, Zenon DEF Lists
  <2>2. CASE n # m
    BY <2>2, <1>1, <1>5, Zenon DEF Lists
  <2>. QED
    BY <2>1, <2>2, Zenon
<1>9. ASSUME NEW u \in Tasks, NEW n \in Mutexes PROVE Pair(u, n)'
  <2>1. Pair(u, n)
    BY <1>1, Zenon DEF Pairs
  <2>2. CASE u # t
    <3>1. u \in Range(pend_list[n])' <=> u \in Range(pend_list[n])
      BY <2>2, <1>3, <1>5, Zenon
    <3>. QED
      BY <2>1, <2>2, <3>1, <1>1, <1>5, PairKept, Zenon DEF SameCall, InPend
  <2>3. CASE u = t /\ n # m
    <3>1. ~InPend(u, n)' /\ call'[u] # <<"delete", n>>
      BY <2>3, <1>5, Calls, Zenon DEF InPend
    <3>2. u \notin Range(pend_list[n])' /\ u \notin Range(pend_list[n]) /\ ~InPend(u, n)
      BY <2>3, <1>2, <1>5, Zenon
    <3>. QED
      BY <2>1, <3>1, <3>2, <1>1, PairKept, Zenon DEF SameCall
  <2>4. CASE u = t /\ n = m
    <3>1. Listed(u, n)' /\ u \in Range(pend_list[n])'
      BY <2>4, <1>1, <1>3, <1>4, <1>5, Zenon DEF Listed, InPend
    <3>2. call'[u] # <<"delete", n>> /\ ~(holds'[u][n] > 0) /\ mutex_owner'[n] # u
      BY <2>1, <2>4, <1>1, <1>5, Calls DEF Pair, Sound
    <3>. QED
      BY <3>1, <3>2, Zenon DEF Pair
  <2>. QED
    BY <2>2, <2>3, <2>4, Zenon
<1>. QED
  BY <1>6, <1>7, <1>8, <1>9, Zenon DEF Inv, Pairs

(* A wait that was given up.                                               *)
LEMMA GiveUpInv ==
  ASSUME Inv, NEW t \in Tasks, NEW m \in Mutexes, PendReturn(t, m), GaveUp(task_status[t])
  PROVE  Inv'
<1>1. /\ Typed /\ Lists /\ Pairs /\ Unmarked /\ InPend(t, m) /\ "TIMEOUT" \in task_status[t]
      /\ call' = [call EXCEPT ![t] = App]
      /\ task_status' = [task_status EXCEPT ![t] = Resumed(task_status[t])]
      /\ pend_list' = [pend_list EXCEPT ![m] = DeleteItem(pend_list[m], t)]
      /\ UNCHANGED <<mutex_count, mutex_owner, holds, live, usage>>
  BY Zenon DEF Inv, PendReturn, GaveUp, InPend
<1>2. ~Untimed
  BY <1>1 DEF Unmarked
<1>3. /\ DeleteItem(pend_list[m], t) \in Seq(Tasks)
      /\ Range(DeleteItem(pend_list[m], t)) = Range(pend_list[m]) \ {t}
      /\ IsInjective(DeleteItem(pend_list[m], t))
  <2>1. pend_list[m] \in Seq(Tasks) /\ IsInjective(pend_list[m])
    BY <1>1, Zenon DEF Typed, Lists
  <2>. QED
    BY <2>1, DeleteItemProps, Zenon
<1>4. /\ call'[t] = App /\ pend_list'[m] = DeleteItem(pend_list[m], t)
      /\ \A n \in Mutexes \ {m} : pend_list'[n] = pend_list[n]
      /\ \A u \in Tasks \ {t} : task_status'[u] = task_status[u] /\ call'[u] = call[u]
  BY <1>1, Zenon DEF Typed
<1>5. Typed'
  <2>1. Resumed(task_status[t]) \in SUBSET StatusBits
    BY <1>1, Zenon DEF Typed, Resumed, StatusBits
  <2>. QED
    BY <2>1, <1>1, <1>3, Zenon DEF Typed
<1>6. Unmarked'
  BY <1>1, <1>2, Zenon DEF Unmarked, Untimed
<1>7. Lists'
  <2>. SUFFICES ASSUME NEW n \in Mutexes
                PROVE  /\ IsInjective(pend_list'[n]) /\ (mutex_owner'[n] = NoTask => mutex_count'[n] = 0)
                       /\ ~live'[n] => mutex_owner'[n] = NoTask
    BY Zenon DEF Lists
  <2>1. CASE n = m
    BY <2>1, <1>1, <1>3, <1>4, Zenon DEF Lists
  <2>2. CASE n # m
    BY <2>2, <1>1, <1>4, Zenon DEF Lists
  <2>. QED
    BY <2>1, <2>2, Zenon
<1>8. ASSUME NEW u \in Tasks, NEW n \in Mutexes PROVE Pair(u, n)'
  <2>1. Pair(u, n)
    BY <1>1, Zenon DEF Pairs
  <2>2. CASE u # t
    <3>1. u \in Range(pend_list[n])' <=> u \in Range(pend_list[n])
      BY <2>2, <1>3, <1>4, Zenon
    <3>. QED
      BY <2>1, <2>2, <3>1, <1>1, <1>4, PairKept, Zenon DEF SameCall, InPend
  <2>3. CASE u = t /\ n # m
    <3>1. ~InPend(u, n)' /\ ~InPend(u, n) /\ call'[u] # <<"delete", n>>
      BY <2>3, <1>1, <1>4, Calls, Zenon DEF InPend
    <3>2. u \notin Range(pend_list[n])' /\ u \notin Range(pend_list[n])
      BY <2>1, <2>3, <3>1, <1>4, Zenon DEF Pair, Listed
    <3>. QED
      BY <2>1, <3>1, <3>2, <1>1, PairKept, Zenon DEF SameCall
  <2>4. CASE u = t /\ n = m
    <3>1. ~InPend(u, n)' /\ call'[u] # <<"delete", n>> /\ u \notin Range(pend_list[n])'
      BY <2>4, <1>3, <1>4, Calls, Zenon DEF InPend
    <3>2. ASSUME mutex_owner[n] = u PROVE Knows(u, n)'
      <4>1. mutex_count[n] = 1 /\ holds[u][n] = 0
        BY <2>1, <2>4, <3>2, <1>1, Zenon DEF Pair, Knows
      <4>2. ~Untimed'
        BY <1>1, <1>2, Zenon DEF Untimed
      <4>3. mutex_count'[n] = 1 /\ holds'[u][n] = 0
        BY <4>1, <1>1, Zenon
      <4> HIDE DEF Untimed
      <4>. QED
        BY <3>1, <4>2, <4>3 DEF Knows
    <3>. QED
      BY <2>1, <3>1, <3>2, <1>1, Zenon DEF Pair, Sound
  <2>. QED
    BY <2>2, <2>3, <2>4, Zenon
<1>. QED
  BY <1>5, <1>6, <1>7, <1>8, Zenon DEF Inv, Pairs

(* A wait that ends with the mutex: the task is the owner, unless the      *)
(* mutex was freed under it.                                               *)
LEMMA GotInv ==
  ASSUME Inv, NEW t \in Tasks, NEW m \in Mutexes, PendReturn(t, m), ~GaveUp(task_status[t])
  PROVE  Inv'
<1>1. /\ Typed /\ Lists /\ Pairs /\ InPend(t, m) /\ "READY" \in task_status[t]
      /\ "TIMEOUT" \notin task_status[t]
      /\ call' = [call EXCEPT ![t] = App]
      /\ holds' = [holds EXCEPT ![t][m] = holds[t][m] + 1]
      /\ UNCHANGED <<mutex_count, mutex_owner, pend_list, task_status, live, usage>>
  BY Zenon DEF Inv, PendReturn, GaveUp, InPend, Running, Runs
<1>2. t \notin Range(pend_list[m]) /\ (Sound(m) => mutex_owner[m] = t)
  BY <1>1, Zenon DEF Pairs, Pair, Listed
<1>3. /\ Sound(m) => mutex_count[m] = 1 /\ holds[t][m] = 0
      /\ ~Sound(m) => mutex_owner[m] = NoTask /\ ~Sound(m)'
  BY <1>1, <1>2, Zenon DEF Pairs, Pair, Knows, Lists, Sound
<1>4. OneEntry(t, m) /\ holds'[t][m] = holds[t][m] + 1
  <2>1. holds[t][m] + 1 \in Nat /\ t # NoTask
    BY <1>1, MutexAssumption DEF Typed
  <2>2. /\ holds' \in [Tasks -> [Mutexes -> Nat]] /\ holds'[t][m] = holds[t][m] + 1
        /\ \A u \in Tasks, n \in Mutexes : u # t \/ n # m => holds'[u][n] = holds[u][n]
    BY <1>1, <2>1, HoldsUpdate DEF Typed
  <2>. QED
    BY <1>1, <2>1, <2>2, Zenon DEF Typed, Lists, OneEntry
<1>5. /\ call' \in [Tasks -> {App} \cup ({"pend", "delete"} \X Mutexes)]
      /\ call'[t] = App /\ \A u \in Tasks \ {t} : call'[u] = call[u]
  BY <1>1, Zenon DEF Typed
<1>6. /\ \A u \in Tasks, n \in Mutexes : u # t \/ n # m => SameCall(u, n)
      /\ ~InPend(t, m)' /\ call'[t] # <<"delete", m>>
  BY <1>1, <1>5, Calls, Zenon DEF SameCall, InPend
<1>7. /\ Lists' /\ Unmarked' /\ Typed'
      /\ \A u \in Tasks, n \in Mutexes : n # m => Pair(u, n)'
  BY <1>4, <1>5, <1>6, OneEntryKeeps
<1>8. ASSUME NEW u \in Tasks PROVE Pair(u, m)'
  <2>1. Pair(u, m)
    BY <1>1, Zenon DEF Pairs
  <2>2. CASE u # t
    <3>1. mutex_owner[m] # u /\ mutex_owner'[m] # u
      BY <2>2, <1>1, <1>2, <1>3, MutexAssumption, Zenon
    <3>. QED
      BY <2>1, <2>2, <3>1, <1>1, <1>4, <1>6, PairOther DEF OneEntry
  <2>3. CASE u = t /\ Sound(m)
    <3>1. mutex_owner'[m] = t /\ mutex_count'[m] = 1 /\ holds'[t][m] = 1 /\ t \notin Range(pend_list[m])'
      BY <2>3, <1>1, <1>2, <1>3, <1>4
    <3>. QED
      BY <2>3, <3>1, <1>6 DEF Pair, Knows
  <2>4. CASE u = t /\ ~Sound(m)
    <3>1. mutex_owner'[m] # t /\ t \notin Range(pend_list[m])' /\ ~Sound(m)'
      BY <2>4, <1>1, <1>2, <1>3, MutexAssumption, Zenon
    <3>. QED
      BY <2>4, <3>1, <1>6, Zenon DEF Pair
  <2>. QED
    BY <2>2, <2>3, <2>4, Zenon
<1>. QED
  BY <1>7, <1>8, Zenon DEF Inv, Pairs

(* The clearing of a mutex.                                                *)
LEMMA DeleteFreeInv ==
  ASSUME Inv, NEW t \in Tasks, NEW m \in Mutexes, DeleteFree(t, m)
  PROVE  Inv'
<1>1. /\ Typed /\ Pairs /\ call[t] = <<"delete", m>>
      /\ live' = [live EXCEPT ![m] = FALSE]
      /\ mutex_count' = [mutex_count EXCEPT ![m] = 0]
      /\ mutex_owner' = [mutex_owner EXCEPT ![m] = NoTask]
      /\ call' = [call EXCEPT ![t] = App]
      /\ holds' = [holds EXCEPT ![t][m] = 0]
      /\ UNCHANGED <<pend_list, task_status, usage>>
  BY Zenon DEF Inv, DeleteFree
<1>2. (usage.own => mutex_owner[m] = t) /\ ~InPend(t, m) /\ t \notin Range(pend_list[m])
  <2>1. ~InPend(t, m)
    BY <1>1, Calls, Zenon DEF InPend
  <2>. QED
    BY <2>1, <1>1, Zenon DEF Pairs, Pair, Listed, Sound
<1>3. /\ OneEntry(t, m) /\ holds'[t][m] = 0 /\ mutex_owner'[m] = NoTask /\ ~live'[m]
  <2>1. /\ holds' \in [Tasks -> [Mutexes -> Nat]] /\ holds'[t][m] = 0
        /\ \A u \in Tasks, n \in Mutexes : u # t \/ n # m => holds'[u][n] = holds[u][n]
    BY <1>1, HoldsUpdate DEF Typed
  <2>. QED
    BY <1>1, <2>1, Zenon DEF Typed, OneEntry
<1>4. /\ call' \in [Tasks -> {App} \cup ({"pend", "delete"} \X Mutexes)]
      /\ call'[t] = App /\ \A u \in Tasks \ {t} : call'[u] = call[u]
  BY <1>1, Zenon DEF Typed
<1>5. \A u \in Tasks, n \in Mutexes : SameCall(u, n) /\ ~InPend(t, m)' /\ call'[t] # <<"delete", m>>
  BY <1>1, <1>2, <1>4, Calls, Zenon DEF SameCall, InPend
<1>6. /\ Lists' /\ Unmarked' /\ Typed'
      /\ \A u \in Tasks, n \in Mutexes : n # m => Pair(u, n)'
  BY <1>3, <1>4, <1>5, OneEntryKeeps, Zenon
<1>7. ASSUME NEW u \in Tasks PROVE Pair(u, m)'
  <2>1. Pair(u, m)
    BY <1>1, Zenon DEF Pairs
  <2>2. CASE u # t
    <3>1. u \in Range(pend_list[m])' => Listed(u, m)'
      BY <2>1, <2>2, <1>3, <1>5, MutexAssumption, Zenon DEF Pair, Listed, OneEntry, SameCall
    <3>2. ASSUME Sound(m)' PROVE usage.own /\ Sound(m) /\ mutex_owner[m] # u
      BY <3>2, <2>2, <1>2, <1>3, Zenon DEF Sound, OneEntry
    <3>3. /\ mutex_owner'[m] # u /\ holds'[u][m] = holds[u][m] /\ SameCall(u, m)
          /\ UNCHANGED <<pend_list, usage>>
      BY <2>2, <1>3, <1>5, MutexAssumption, Zenon DEF OneEntry
    <3>. QED
      BY <2>1, <3>1, <3>2, <3>3, Zenon DEF Pair, SameCall
  <2>3. CASE u = t
    BY <2>3, <1>1, <1>2, <1>3, <1>5, MutexAssumption DEF Pair
  <2>. QED
    BY <2>2, <2>3, Zenon
<1>. QED
  BY <1>6, <1>7, Zenon DEF Inv, Pairs

(* Every step keeps the invariant, where the count does not wrap.          *)
LEMMA StepInv ==
  ASSUME Shallow, Inv, [Next]_vars
  PROVE  Inv'
<1>1. CASE UNCHANGED vars
  <2>1. UNCHANGED <<mutex_count, mutex_owner, pend_list, task_status, call, holds, live, usage>>
    BY <1>1, Zenon DEF vars, mutexVars, taskVars
  <2>2. Typed' /\ Lists' /\ Unmarked'
    <3>1. Typed'
      BY <2>1, Zenon DEF Inv, Typed
    <3>2. Lists'
      BY <2>1, Zenon DEF Inv, Lists
    <3>3. Unmarked'
      BY <2>1, Zenon DEF Inv, Unmarked, Untimed
    <3>. QED
      BY <3>1, <3>2, <3>3, Zenon
  <2>3. ASSUME NEW t \in Tasks, NEW m \in Mutexes PROVE Pair(t, m)'
    <3>1. Pair(t, m) /\ SameCall(t, m)
      BY <2>1, Zenon DEF Inv, Pairs, SameCall, InPend
    <3>. QED
      BY <2>1, <3>1, PairKept, Zenon
  <2>. QED
    BY <2>2, <2>3, Zenon DEF Inv, Pairs
<1>2. ASSUME NEW t \in Tasks, Sleep(t) PROVE Inv'
  BY <1>2, SleepInv, Zenon
<1>3. ASSUME NEW t \in Tasks, Timeout(t) PROVE Inv'
  BY <1>3, TimeoutInv, Zenon
<1>4. ASSUME NEW t \in Tasks, NEW m \in Mutexes,
             PendFree(t, m) \/ PendAgain(t, m) \/ PendReturn(t, m)
      PROVE  Inv'
  BY <1>4, PendFreeInv, PendAgainInv, GiveUpInv, GotInv, Zenon
<1>5. ASSUME NEW t \in Tasks, NEW m \in Mutexes, NEW wait \in usage.waits, PendWait(t, m, wait)
      PROVE  Inv'
  BY <1>5, PendWaitInv, Zenon
<1>6. ASSUME NEW t \in Tasks, NEW m \in Mutexes,
             PostInner(t, m) \/ PostLast(t, m) \/ Delete(t, m) \/ DeleteFree(t, m)
      PROVE  Inv'
  BY <1>6, PostInnerInv, PostFreeInv, PostHandInv, DeleteInv, DeleteFreeInv, Zenon
<1>7. ASSUME Next PROVE Inv'
  BY <1>2, <1>3, <1>4, <1>5, <1>6, <1>7, Zenon DEF Next
<1>. QED
  BY <1>1, <1>7, Zenon

(* usage is chosen once.                                                   *)
LEMMA UsageKept ==
  ASSUME [Next]_vars
  PROVE  UNCHANGED usage
<1>1. ASSUME NEW t \in Tasks, Sleep(t) \/ Timeout(t) PROVE UNCHANGED usage
  BY <1>1, Zenon DEF Sleep, Timeout
<1>2. ASSUME NEW t \in Tasks, NEW m \in Mutexes,
             \/ PendFree(t, m) \/ PendAgain(t, m) \/ PendReturn(t, m)
             \/ \E wait \in usage.waits : PendWait(t, m, wait)
             \/ PostInner(t, m) \/ PostLast(t, m) \/ Delete(t, m) \/ DeleteFree(t, m)
      PROVE  UNCHANGED usage
  BY <1>2, Zenon DEF PendFree, PendAgain, PendReturn, PendWait, PostInner, PostLast, Delete, DeleteFree
<1>3. ASSUME Next PROVE UNCHANGED usage
  BY <1>1, <1>2, <1>3, Zenon DEF Next
<1>. QED
  BY <1>3, Zenon DEF vars

(* The inductive invariant holds in every reachable state.                 *)
LEMMA Invariance == Spec => []MutexInv
<1>1. Init => MutexInv
  BY InitInv, Zenon DEF MutexInv
<1>2. MutexInv /\ [Next]_vars => MutexInv'
  BY StepInv, UsageKept, Zenon DEF MutexInv, Shallow, Untimed
<1>. QED
  BY <1>1, <1>2, PTL DEF Spec

(* dos_mutex_pend excludes: for any tasks, mutexes, priorities and         *)
(* timeouts, a task that was told DOS_OK and has not released the mutex is *)
(* its owner, as long as pends are not nested until the count wraps.       *)
THEOREM Excludes == Spec => []MutualExclusion
<1>1. MutexInv => MutualExclusion
  BY Zenon DEF MutexInv, Inv, Pairs, Pair, MutualExclusion, Sound
<1>. QED
  BY <1>1, Invariance, PTL

(* Without timed waits dos_mutex_post and dos_mutex_pend keep the owner    *)
(* informed: outside dos_mutex_pend, a task owns the mutex as often as it  *)
(* was told so.                                                            *)
THEOREM Informs == Spec => []OwnerKnows
<1>1. MutexInv => OwnerKnows
  BY Zenon DEF MutexInv, Inv, Pairs, Pair, Knows, InPend, OwnerKnows
<1>. QED
  BY <1>1, Invariance, PTL

-----------------------------------------------------------------------------
(* Where tasks hold one mutex at a time: a task that was handed a mutex    *)
(* after it gave up does not know it, and keeps it for ever ...            *)
Stuck(t) ==
  \E m \in Mutexes : mutex_owner[m] = t /\ ~InPend(t, m) /\ holds[t][m] < mutex_count[m]

OwnsNone(t) == \A m \in Mutexes : mutex_owner[m] # t

(* ... and every other task owns one mutex at most, which it took with the *)
(* priority it was created with, and has that priority without one.        *)
Settled(t) ==
  /\ \A m, n \in Mutexes : mutex_owner[m] = t /\ mutex_owner[n] = t => m = n
  /\ \A m \in Mutexes : mutex_owner[m] = t => mutex_priority[m] = usage.prio[t]
  /\ OwnsNone(t) => priority[t] = usage.prio[t]

PrioTyped == priority \in [Tasks -> Nat] /\ mutex_priority \in [Mutexes -> Nat]

Owning ==
  /\ PrioTyped
  /\ \A t \in Tasks : Stuck(t) \/ Settled(t)
  /\ \A t \in Tasks, m, n \in Mutexes : InPend(t, m) => holds[t][n] = 0
  /\ \A t \in Tasks, m \in Mutexes : call[t] = <<"delete", m>> => t \in usage.deleters

(* The owner of a mutex is ready, has the priority of its best waiter if   *)
(* that is better than its own, and nobody waits for a mutex that is being *)
(* deleted.                                                                *)
Lent(t, m) ==
  /\ "READY" \in task_status[t]
  /\ priority[t] <= usage.prio[t]
  /\ \A u \in Range(pend_list[m]) : priority[t] <= usage.prio[u]
  /\ pend_list[m] = << >> => priority[t] = usage.prio[t]

Lending ==
  \A m \in Mutexes :
    /\ Sorted(pend_list[m], usage.prio)
    /\ mutex_owner[m] = NoTask => pend_list[m] = << >>
    /\ ~live[m] => mutex_owner[m] = NoTask
    /\ \A t \in Tasks : /\ mutex_owner[m] = t => Lent(t, m)
                        /\ call[t] = <<"delete", m>> => pend_list[m] = << >>

(* A task inside dos_mutex_delete does not block.                          *)
Deleting ==
  \A t \in Tasks, m \in Mutexes : call[t] = <<"delete", m>> => "READY" \in task_status[t]

Premise == OneHeld /\ (usage.deleters = {} \/ Plain)
PrioInv == Premise => Inv /\ Deleting /\ Owning /\ (Plain => Lending)

(* What the usage says of priorities and of the number of mutexes held.    *)
LEMMA PrioFacts ==
  ASSUME Inv, Premise
  PROVE  /\ usage.prio \in [Tasks -> Nat] /\ usage.held = 1 /\ usage.deleters \subseteq Tasks
         /\ Shallow
         /\ Plain => Untimed /\ ~usage.sleeps /\ TopDeletes
<1>1. usage \in UsageType
  BY MutexAssumption, Zenon DEF Inv, Typed
<1>. QED
  BY <1>1, Zenon DEF UsageType, Premise, OneHeld, Plain

(* Without timed waits no task is handed a mutex without knowing it.       *)
LEMMA NeverStuck ==
  ASSUME Inv, Untimed, NEW t \in Tasks
  PROVE  ~Stuck(t)
<1> SUFFICES ASSUME NEW m \in Mutexes, mutex_owner[m] = t, ~InPend(t, m)
             PROVE  ~(holds[t][m] < mutex_count[m])
  BY Zenon DEF Stuck
<1>1. holds[t][m] = mutex_count[m]
  BY Zenon DEF Inv, Pairs, Pair, Knows
<1>. QED
  BY <1>1 DEF Inv, Typed

(* A task that may take another mutex holds none.                          *)
LEMMA HoldsNone ==
  ASSUME Inv, Premise, NEW t \in Tasks, MayTake(t)
  PROVE  \A m \in Mutexes : holds[t][m] = 0
<1>1. Held(t) = {}
  BY PrioFacts DEF MayTake
<1>. QED
  BY <1>1 DEF Held, Inv, Typed

(* A task outside the calls that holds nothing owns nothing, unless it is  *)
(* stuck, and has its own priority.                                        *)
LEMMA HoldsNoneOwnsNone ==
  ASSUME Inv, Owning, NEW t \in Tasks, call[t] = App, \A m \in Mutexes : holds[t][m] = 0, ~Stuck(t)
  PROVE  OwnsNone(t) /\ priority[t] = usage.prio[t]
<1>1. ASSUME NEW m \in Mutexes, mutex_owner[m] = t PROVE FALSE
  <2>1. ~InPend(t, m) /\ Knows(t, m)
    BY <1>1, OutsideFacts, Zenon DEF Inv, Pairs, Pair
  <2>2. mutex_count[m] > 0 /\ holds[t][m] = 0
    BY <2>1, Zenon DEF Knows
  <2>. QED
    BY <2>1, <2>2, <1>1, Zenon DEF Stuck
<1>. QED
  BY <1>1, Zenon DEF OwnsNone, Owning, Settled

(* A task whose mutexes and priority a step leaves alone.                  *)
Untouched(t) ==
  /\ UNCHANGED usage
  /\ \A m \in Mutexes : mutex_owner'[m] = t <=> mutex_owner[m] = t
  /\ \A m \in Mutexes : mutex_owner[m] = t =>
       /\ mutex_count'[m] = mutex_count[m] /\ mutex_priority'[m] = mutex_priority[m]
       /\ holds'[t][m] = holds[t][m]
       /\ InPend(t, m)' => InPend(t, m)
  /\ OwnsNone(t) => priority'[t] = priority[t]

LEMMA UntouchedKept ==
  ASSUME NEW t, Untouched(t), Stuck(t) \/ Settled(t)
  PROVE  (Stuck(t) \/ Settled(t))'
<1>1. CASE Stuck(t)
  <2>1. PICK m \in Mutexes : mutex_owner[m] = t /\ ~InPend(t, m) /\ holds[t][m] < mutex_count[m]
    BY <1>1, Zenon DEF Stuck
  <2>2. mutex_owner'[m] = t /\ ~InPend(t, m)' /\ holds'[t][m] < mutex_count'[m]
    BY <2>1, Zenon DEF Untouched
  <2>. QED
    BY <2>2, Zenon DEF Stuck
<1>2. CASE Settled(t)
  BY <1>2, Zenon DEF Settled, Untouched, OwnsNone
<1>. QED
  BY <1>1, <1>2, Zenon

(* A stuck task stays so while it keeps its mutexes.                       *)
LEMMA StuckKept ==
  ASSUME NEW t, Stuck(t),
         \A m \in Mutexes : mutex_owner[m] = t /\ ~InPend(t, m) /\ holds[t][m] < mutex_count[m] =>
           mutex_owner'[m] = t /\ ~InPend(t, m)' /\ holds'[t][m] < mutex_count'[m]
  PROVE  Stuck(t)'
BY Zenon DEF Stuck

(* Steps that change neither an owner nor a priority.                      *)
LEMMA SteadyOwning ==
  ASSUME Owning, UNCHANGED <<mutex_owner, mutex_priority, priority, usage>>,
         \A u \in Tasks, n \in Mutexes :
           mutex_owner[n] = u /\ ~InPend(u, n) /\ holds[u][n] < mutex_count[n] =>
             ~InPend(u, n)' /\ holds'[u][n] < mutex_count'[n]
  PROVE  PrioTyped' /\ \A u \in Tasks : (Stuck(u) \/ Settled(u))'
<1>1. PrioTyped'
  BY Zenon DEF Owning, PrioTyped
<1>2. ASSUME NEW u \in Tasks PROVE (Stuck(u) \/ Settled(u))'
  <2>1. CASE Stuck(u)
    BY <2>1, StuckKept, Zenon
  <2>2. CASE Settled(u)
    BY <2>2, Zenon DEF Settled, OwnsNone
  <2>. QED
    BY <2>1, <2>2, Zenon DEF Owning
<1>. QED
  BY <1>1, <1>2, Zenon

LEMMA SteadyLending ==
  ASSUME Lending, UNCHANGED <<mutex_owner, pend_list, live, priority, usage>>,
         \A u \in Tasks, n \in Mutexes :
           mutex_owner[n] = u /\ "READY" \in task_status[u] => "READY" \in task_status'[u],
         \A u \in Tasks, n \in Mutexes :
           call'[u] = <<"delete", n>> => call[u] = <<"delete", n>> \/ pend_list[n] = << >>
  PROVE  Lending'
<1> SUFFICES ASSUME NEW m \in Mutexes
             PROVE  /\ Sorted(pend_list[m], usage.prio)
                    /\ mutex_owner[m] = NoTask => pend_list[m] = << >>
                    /\ ~live[m] => mutex_owner[m] = NoTask
                    /\ \A t \in Tasks : /\ mutex_owner[m] = t => Lent(t, m)'
                                        /\ call'[t] = <<"delete", m>> => pend_list[m] = << >>
  BY Zenon DEF Lending
<1>1. ASSUME NEW t \in Tasks, mutex_owner[m] = t PROVE Lent(t, m)'
  BY <1>1, Zenon DEF Lending, Lent
<1>. QED
  BY <1>1, Zenon DEF Lending

(* Taking a free mutex: the priority that is recorded is the task's own.   *)
LEMMA PendFreePrio ==
  ASSUME Inv, Premise, Owning, Plain => Lending, NEW t \in Tasks, NEW m \in Mutexes, PendFree(t, m)
  PROVE  Owning' /\ (Plain => Lending')
<1>1. /\ Typed /\ PrioTyped /\ call[t] = App /\ mutex_count[m] = 0 /\ live[m]
      /\ "READY" \in task_status[t]
      /\ mutex_count' = [mutex_count EXCEPT ![m] = Counted(m)]
      /\ mutex_priority' = [mutex_priority EXCEPT ![m] = priority[t]]
      /\ mutex_owner' = [mutex_owner EXCEPT ![m] = t]
      /\ holds' = [holds EXCEPT ![t][m] = holds[t][m] + 1]
      /\ UNCHANGED <<pend_list, live, task_status, priority, call, usage>>
  BY Zenon DEF Inv, Owning, PendFree, Wants, InApp, Running, Runs, IsFree
<1>2. \A u \in Tasks : mutex_owner[m] # u /\ holds[u][m] = 0
  <2>1. \A u \in Tasks : mutex_owner[m] # u
    BY <1>1 DEF Inv, Pairs, Pair, Knows
  <2>2. \A u \in Tasks : ~(holds[u][m] > 0)
    BY <2>1, <1>1, Zenon DEF Inv, Pairs, Pair, Sound
  <2>3. \A u \in Tasks : holds[u][m] \in Nat
    BY <1>1, Zenon DEF Typed
  <2>. QED
    BY <2>1, <2>2, <2>3
<1>3. \A n \in Mutexes : holds[t][n] = 0
  <2>1. m \notin Held(t)
    BY <1>2 DEF Held
  <2>. QED
    BY <2>1, HoldsNone, Zenon DEF PendFree
<1>4. /\ mutex_owner'[m] = t /\ mutex_priority'[m] = priority[t]
      /\ \A n \in Mutexes \ {m} : /\ mutex_owner'[n] = mutex_owner[n] /\ mutex_count'[n] = mutex_count[n]
                                  /\ mutex_priority'[n] = mutex_priority[n]
      /\ \A u \in Tasks, n \in Mutexes : u # t \/ n # m => holds'[u][n] = holds[u][n]
  <2>1. holds[t][m] + 1 \in Nat
    BY <1>1 DEF Typed
  <2>2. \A u \in Tasks, n \in Mutexes : u # t \/ n # m => holds'[u][n] = holds[u][n]
    BY <1>1, <2>1, HoldsUpdate DEF Typed
  <2>. QED
    BY <2>2, <1>1 DEF Typed, PrioTyped
<1>5. PrioTyped'
  BY <1>1, Zenon DEF PrioTyped
<1>6. ASSUME ~Stuck(t) PROVE OwnsNone(t) /\ priority[t] = usage.prio[t]
  BY <1>1, <1>3, <1>6, HoldsNoneOwnsNone, Zenon
<1>7. ASSUME NEW u \in Tasks PROVE (Stuck(u) \/ Settled(u))'
  <2>1. CASE u # t
    <3>1. Untouched(u)
      BY <2>1, <1>1, <1>2, <1>4 DEF Untouched, InPend
    <3>. QED
      BY <3>1, UntouchedKept, Zenon DEF Owning
  <2>2. CASE u = t /\ Stuck(t)
    BY <2>2, <1>1, <1>2, <1>4, StuckKept DEF InPend
  <2>3. CASE u = t /\ ~Stuck(t)
    BY <2>3, <1>1, <1>4, <1>6 DEF Settled, OwnsNone
  <2>. QED
    BY <2>1, <2>2, <2>3, Zenon
<1>8. ASSUME NEW u \in Tasks, NEW k \in Mutexes, NEW n \in Mutexes, InPend(u, k)' PROVE holds'[u][n] = 0
  <2>1. InPend(u, k) /\ u # t
    BY <1>8, <1>1, OutsideFacts, Zenon DEF InPend
  <2>. QED
    BY <2>1, <1>4, SMTT(20) DEF Owning
<1>9. Owning'
  BY <1>1, <1>5, <1>7, <1>8, Zenon DEF Owning
<1>10. ASSUME Plain PROVE Lending'
  <2>1. Lending /\ priority[t] = usage.prio[t] /\ pend_list[m] = << >>
    <3>1. Lending /\ mutex_owner[m] = NoTask /\ ~Stuck(t)
      BY <1>10, <1>1, <1>2, PrioFacts, NeverStuck, Zenon DEF Typed
    <3>. QED
      BY <3>1, <1>6, Zenon DEF Lending
  <2>2. t # NoTask /\ usage.prio[t] \in Nat /\ Range(<< >>) = {}
    BY PrioFacts, MutexAssumption DEF Range
  <2>3. Lent(t, m)'
    BY <2>1, <2>2, <1>1 DEF Lent
  <2>4. ASSUME NEW n \in Mutexes, n # m, NEW u \in Tasks, mutex_owner'[n] = u PROVE Lent(u, n)'
    BY <2>1, <2>4, <1>1, <1>4 DEF Lending, Lent
  <2>. QED
    BY <2>1, <2>2, <2>3, <2>4, <1>1, <1>4 DEF Lending
<1>. QED
  BY <1>9, <1>10, Zenon

(* Taking it again and an inner release change what is held and the count  *)
(* alike.                                                                  *)
LEMMA RecursePrio ==
  ASSUME Inv, Premise, Owning, Plain => Lending, NEW t \in Tasks, NEW m \in Mutexes,
         PendAgain(t, m) \/ PostInner(t, m)
  PROVE  Owning' /\ (Plain => Lending')
<1>1. /\ Typed /\ call[t] = App /\ mutex_owner[m] = t
      /\ UNCHANGED <<mutex_owner, mutex_priority, pend_list, live, task_status, priority, call, usage>>
  BY Zenon DEF Inv, PendAgain, PostInner, Posts, Wants, InApp
<1>2. PICK d \in {1, -1} : /\ mutex_count' = [mutex_count EXCEPT ![m] = mutex_count[m] + d]
                           /\ holds' = [holds EXCEPT ![t][m] = holds[t][m] + d]
                           /\ holds[t][m] + d \in Nat
  <2>1. CASE PendAgain(t, m)
    <3>1. Counted(m) = mutex_count[m] + 1
      <4>1. ~InPend(t, m) /\ Knows(t, m) /\ mutex_count[m] \in Nat /\ holds[t][m] \in Nat
        BY <1>1, OutsideFacts DEF Inv, Pairs, Pair, Typed
      <4>2. holds[t][m] < usage.depth /\ usage.depth \in Nat /\ Shallow
        BY <2>1, <1>1, UsageFacts, PrioFacts, Zenon DEF PendAgain, Typed
      <4>. QED
        BY <4>1, <4>2, MutexAssumption DEF Counted, Knows, Shallow
    <3>. QED
      BY <2>1, <3>1, <1>1 DEF PendAgain, Typed
  <2>2. CASE PostInner(t, m)
    <3>1. mutex_count[m] - 1 = mutex_count[m] + (-1) /\ holds[t][m] - 1 = holds[t][m] + (-1)
      BY <1>1, Zenon DEF Typed
    <3>2. holds[t][m] - 1 \in Nat
      BY <2>2, <1>1 DEF PostInner, Posts, Typed
    <3>. QED
      BY <2>2, <3>1, <3>2, Zenon DEF PostInner
  <2>. QED
    BY <2>1, <2>2, Zenon
<1>3. /\ holds'[t][m] = holds[t][m] + d /\ mutex_count'[m] = mutex_count[m] + d
      /\ \A n \in Mutexes \ {m} : mutex_count'[n] = mutex_count[n]
      /\ \A u \in Tasks, n \in Mutexes : u # t \/ n # m => holds'[u][n] = holds[u][n]
  <2>1. /\ holds'[t][m] = holds[t][m] + d
        /\ \A u \in Tasks, n \in Mutexes : u # t \/ n # m => holds'[u][n] = holds[u][n]
    BY <1>1, <1>2, HoldsUpdate DEF Typed
  <2>. QED
    BY <2>1, <1>1, <1>2, Zenon DEF Typed
<1>4. ASSUME NEW u \in Tasks, NEW n \in Mutexes, mutex_owner[n] = u, ~InPend(u, n),
             holds[u][n] < mutex_count[n]
      PROVE  ~InPend(u, n)' /\ holds'[u][n] < mutex_count'[n]
  <2>1. ~InPend(u, n)'
    BY <1>1, <1>4, Zenon DEF InPend
  <2>2. CASE n = m
    <3>1. holds[u][n] \in Nat /\ mutex_count[n] \in Nat /\ d \in Int /\ u = t
      BY <2>2, <1>1, <1>4 DEF Typed
    <3>. QED
      BY <2>1, <2>2, <3>1, <1>3, <1>4
  <2>3. CASE n # m
    BY <2>1, <2>3, <1>3, <1>4, Zenon
  <2>. QED
    BY <2>2, <2>3, Zenon
<1>5. PrioTyped' /\ \A u \in Tasks : (Stuck(u) \/ Settled(u))'
  BY <1>1, <1>4, SteadyOwning, Zenon
<1>6. ASSUME NEW u \in Tasks, NEW k \in Mutexes, NEW n \in Mutexes, InPend(u, k)' PROVE holds'[u][n] = 0
  <2>1. InPend(u, k) /\ u # t
    BY <1>6, <1>1, OutsideFacts, Zenon DEF InPend
  <2>. QED
    BY <2>1, <1>3 DEF Owning
<1>7. Owning'
  BY <1>1, <1>5, <1>6, Zenon DEF Owning
<1>8. Plain => Lending'
  BY <1>1, SteadyLending, Zenon
<1>. QED
  BY <1>7, <1>8, Zenon

(* Waiting for a mutex: the owner is ready, so that the task that runs     *)
(* lends it a priority that no waiter before it was better than.           *)
LEMMA PendWaitPrio ==
  ASSUME Inv, Premise, Deleting, Owning, Plain => Lending, NEW t \in Tasks, NEW m \in Mutexes,
         NEW wait \in usage.waits, PendWait(t, m, wait)
  PROVE  Owning' /\ (Plain => Lending')
<1>1. PICK o \in Tasks : o = mutex_owner[m]
  <2>1. mutex_count[m] # 0 /\ mutex_owner[m] \in Tasks \cup {NoTask}
    BY Zenon DEF Inv, Typed, PendWait, IsFree
  <2>. QED
    BY <2>1, Zenon DEF Inv, Lists
<1>2. /\ Typed /\ PrioTyped /\ call[t] = App /\ o # t
      /\ priority' = IF Lends(t, m) THEN [priority EXCEPT ![o] = priority[t]] ELSE priority
      /\ task_status' = [task_status EXCEPT ![t] = Blocked(task_status[t], wait = "forever")]
      /\ pend_list' = [pend_list EXCEPT ![m] = InsertItem(pend_list[m], usage.prio, t)]
      /\ call' = [call EXCEPT ![t] = <<"pend", m>>]
      /\ UNCHANGED <<mutex_count, mutex_owner, mutex_priority, live, holds, usage>>
  BY <1>1, Zenon DEF Inv, Owning, PendWait, Wants, InApp
<1>3. \A n \in Mutexes : holds[t][n] = 0
  BY HoldsNone, Zenon DEF PendWait
<1>4. /\ call'[t] = <<"pend", m>> /\ \A u \in Tasks \ {t} : call'[u] = call[u]
      /\ \A u \in Tasks \ {t} : task_status'[u] = task_status[u]
      /\ \A u \in Tasks \ {o} : priority'[u] = priority[u]
      /\ priority'[o] = IF Lends(t, m) THEN priority[t] ELSE priority[o]
      /\ pend_list'[m] = InsertItem(pend_list[m], usage.prio, t)
      /\ \A n \in Mutexes \ {m} : pend_list'[n] = pend_list[n]
  BY <1>2, <1>1, Zenon DEF Typed, PrioTyped
<1>5. PrioTyped'
  BY <1>2, <1>1, Zenon DEF PrioTyped
<1>6. \A n \in Mutexes : ~InPend(t, n) /\ call[t] # <<"delete", n>>
  BY <1>2, OutsideFacts, Zenon
<1>7. \A n \in Mutexes : mutex_owner[n] = t => n # m
  BY <1>2, <1>1, Zenon
<1>8. ASSUME NEW u \in Tasks PROVE (Stuck(u) \/ Settled(u))'
  <2>1. \A n \in Mutexes : mutex_owner[n] = u /\ InPend(u, n)' => InPend(u, n)
    BY <1>4, <1>7, Calls DEF InPend
  <2>2. OwnsNone(u) => priority'[u] = priority[u]
    BY <1>1, <1>4, Zenon DEF OwnsNone
  <2>3. Untouched(u)
    BY <2>1, <2>2, <1>2, Zenon DEF Untouched
  <2>. QED
    BY <2>3, UntouchedKept, Zenon DEF Owning
<1>9. ASSUME NEW u \in Tasks, NEW k \in Mutexes, NEW n \in Mutexes, InPend(u, k)' PROVE holds'[u][n] = 0
  <2>1. CASE u = t
    BY <2>1, <1>2, <1>3, Zenon
  <2>2. CASE u # t
    BY <2>2, <1>2, <1>4, <1>9 DEF Owning, InPend
  <2>. QED
    BY <2>1, <2>2, Zenon
<1>10. \A u \in Tasks, n \in Mutexes : call'[u] = <<"delete", n>> => u # t /\ call[u] = <<"delete", n>>
  BY <1>4, Calls
<1>11. Owning'
  BY <1>2, <1>5, <1>8, <1>9, <1>10, Zenon DEF Owning
<1>12. ASSUME Plain PROVE Lending'
  <2>1. Lending /\ ~Stuck(t) /\ ~Stuck(o) /\ usage.prio \in [Tasks -> Nat] /\ TopDeletes
    BY <1>1, <1>12, PrioFacts, NeverStuck, Zenon
  <2>2. OwnsNone(t) /\ priority[t] = usage.prio[t]
    BY <2>1, <1>2, <1>3, HoldsNoneOwnsNone, Zenon
  <2>3. Lent(o, m) /\ mutex_priority[m] = usage.prio[o]
    BY <2>1, <1>1, Zenon DEF Lending, Owning, Settled
  <2>4. usage.prio[t] <= priority[o]
    <3>1. DOMAIN task_status = Tasks
      BY <1>2, Zenon DEF Typed
    <3>. QED
      BY <2>2, <2>3, <3>1, <1>1, Zenon DEF PendWait, Wants, InApp, Running, Runs, Lent
  <2>5. priority'[o] <= usage.prio[o] /\ priority'[o] <= usage.prio[t] /\ priority'[o] <= priority[o]
    <3>1. /\ priority'[o] = IF mutex_priority[m] > priority[t] THEN priority[t] ELSE priority[o]
          /\ mutex_priority[m] = usage.prio[o] /\ priority[o] <= usage.prio[o]
      BY <2>3, <1>4, Zenon DEF Lends, Lent
    <3>2. priority[o] \in Nat /\ usage.prio[o] \in Nat /\ usage.prio[t] \in Nat
      BY <2>1, <1>2, Zenon DEF PrioTyped
    <3>. QED
      BY <2>2, <2>4, <3>1, <3>2, SMTT(20)
  <2>6. /\ pend_list'[m] \in Seq(Tasks) /\ Range(pend_list'[m]) = Range(pend_list[m]) \cup {t}
        /\ Range(pend_list[m]) \subseteq Tasks /\ pend_list'[m] # << >>
        /\ Sorted(pend_list'[m], usage.prio)
    <3>1. pend_list[m] \in Seq(Tasks) /\ Values(usage.prio, Tasks) /\ Sorted(pend_list[m], usage.prio)
      BY <2>1, <1>2, UsageFacts, Zenon DEF Typed, Lending
    <3>2. LET l == InsertItem(pend_list[m], usage.prio, t)
          IN  l \in Seq(Tasks) /\ Range(l) = Range(pend_list[m]) \cup {t} /\ Sorted(l, usage.prio)
      BY <3>1, InsertItemProps, SMTT(20)
    <3>3. pend_list'[m] = InsertItem(pend_list[m], usage.prio, t)
      BY <1>4, Zenon
    <3>4. /\ pend_list'[m] \in Seq(Tasks) /\ Range(pend_list'[m]) = Range(pend_list[m]) \cup {t}
          /\ Sorted(pend_list'[m], usage.prio)
      BY <3>2, <3>3, Zenon
    <3>5. pend_list'[m] # << >>
      BY <3>4, EmptyItems, Zenon
    <3>. QED
      BY <3>1, <3>4, <3>5, EmptyItems, Zenon
  <2>7. Lent(o, m)'
    <3>1. o # t /\ task_status'[o] = task_status[o]
      BY <1>2, <1>1, <1>4, Zenon
    <3>2. ASSUME NEW u \in Range(pend_list'[m]) PROVE priority'[o] <= usage.prio[u]
      <4>1. CASE u = t
        BY <4>1, <2>5, Zenon
      <4>2. CASE u # t
        <5>1. u \in Range(pend_list[m]) /\ u \in Tasks
          BY <4>2, <2>6, Zenon
        <5>2. priority[o] <= usage.prio[u]
          BY <5>1, <2>3, Zenon DEF Lent
        <5>3. priority[o] \in Nat /\ priority'[o] \in Nat /\ usage.prio[u] \in Nat
          BY <5>1, <2>1, <1>2, <1>5, Zenon DEF PrioTyped
        <5>. QED
          BY <5>2, <5>3, <2>5
      <4>. QED
        BY <4>1, <4>2, Zenon
    <3>. QED
      BY <2>3, <2>5, <2>6, <3>1, <3>2, <1>2, Zenon DEF Lent
  <2>8. ASSUME NEW n \in Mutexes, n # m, NEW u \in Tasks, mutex_owner[n] = u PROVE Lent(u, n)'
    <3>1. Lent(u, n) /\ u # t
      BY <2>1, <2>2, <2>8, Zenon DEF Lending, OwnsNone
    <3>2. u # o
      BY <2>1, <2>8, <1>1, Zenon DEF Owning, Settled
    <3>. QED
      BY <2>8, <3>1, <3>2, <1>2, <1>4 DEF Lent
  <2>9. ASSUME NEW u \in Tasks, call'[u] = <<"delete", m>> PROVE FALSE
    <3>1. u # t /\ u \in usage.deleters /\ "READY" \in task_status[u]
      BY <2>9, <1>10, Zenon DEF Owning, Deleting
    <3>2. usage.prio[u] < usage.prio[t]
      BY <2>1, <3>1, Zenon DEF TopDeletes
    <3>3. priority[u] <= usage.prio[u]
      <4>1. CASE OwnsNone(u)
        <5>1. priority[u] = usage.prio[u]
          BY <4>1, Zenon DEF Owning, Settled, Stuck, OwnsNone
        <5>2. usage.prio[u] \in Nat
          BY <2>1, Zenon
        <5>. QED
          BY <5>1, <5>2
      <4>2. CASE ~OwnsNone(u)
        BY <4>2, <2>1, Zenon DEF OwnsNone, Lending, Lent
      <4>. QED
        BY <4>1, <4>2, Zenon
    <3>4. priority[t] <= priority[u]
      <4>1. DOMAIN task_status = Tasks
        BY <1>2, Zenon DEF Typed
      <4>. QED
        BY <3>1, <4>1, Zenon DEF PendWait, Wants, InApp, Running, Runs
    <3>5. priority[u] \in Nat /\ usage.prio[u] \in Nat /\ usage.prio[t] \in Nat
      BY <2>1, <1>2, Zenon DEF PrioTyped
    <3>. QED
      BY <2>2, <3>2, <3>3, <3>4, <3>5
  <2>10. ASSUME NEW n \in Mutexes, n # m
         PROVE  /\ Sorted(pend_list[n], usage.prio)'
                /\ (mutex_owner[n] = NoTask => pend_list[n] = << >>)'
                /\ \A u \in Tasks : call'[u] = <<"delete", n>> => pend_list'[n] = << >>
    BY <2>1, <2>10, <1>2, <1>4, <1>10 DEF Lending
  <2>11. mutex_owner'[m] # NoTask /\ \A n \in Mutexes : ~live'[n] => mutex_owner'[n] = NoTask
    BY <2>1, <1>1, <1>2, MutexAssumption, Zenon DEF Lending
  <2>12. \A u \in Tasks, n \in Mutexes : mutex_owner'[n] = u => Lent(u, n)'
    BY <2>7, <2>8, <1>1, <1>2, Zenon
  <2>13. Sorted(pend_list[m], usage.prio)'
    BY <2>6, <1>2, Zenon
  <2>. QED
    BY <2>9, <2>10, <2>11, <2>12, <2>13, Zenon DEF Lending
<1>. QED
  BY <1>11, <1>12, Zenon

(* A wait that was given up: the task may own the mutex without knowing.   *)
LEMMA GiveUpPrio ==
  ASSUME Inv, Premise, Owning, Plain => Lending, NEW t \in Tasks, NEW m \in Mutexes,
         PendReturn(t, m), GaveUp(task_status[t])
  PROVE  Owning' /\ (Plain => Lending')
<1>1. /\ Typed /\ InPend(t, m) /\ "TIMEOUT" \in task_status[t]
      /\ call' = [call EXCEPT ![t] = App]
      /\ UNCHANGED <<mutex_count, mutex_owner, mutex_priority, holds, priority, usage>>
  BY Zenon DEF Inv, PendReturn, GaveUp, InPend
<1>2. ~Plain
  <2>1. Untimed => task_status[t] \in {{"READY"}, {"SUSPEND"}, {"DELAY"}}
    BY Zenon DEF Inv, Unmarked
  <2>2. ~Untimed
    BY <1>1, <2>1
  <2>. QED
    BY <2>2, Zenon DEF Plain
<1>3. call'[t] = App /\ \A u \in Tasks \ {t} : call'[u] = call[u]
  BY <1>1, Zenon DEF Typed
<1>4. /\ \A u \in Tasks, n \in Mutexes : InPend(u, n)' => u # t /\ InPend(u, n)
      /\ \A u \in Tasks, n \in Mutexes : call'[u] = <<"delete", n>> => call[u] = <<"delete", n>>
  BY <1>3, Calls, Zenon DEF InPend
<1>5. PrioTyped' /\ \A u \in Tasks : (Stuck(u) \/ Settled(u))'
  BY <1>1, <1>4, SteadyOwning, Zenon
<1>6. Owning'
  BY <1>1, <1>4, <1>5, Zenon DEF Owning
<1>. QED
  BY <1>2, <1>6, Zenon

(* A wait that ends with the mutex.                                        *)
LEMMA GotPrio ==
  ASSUME Inv, Premise, Owning, Plain => Lending, NEW t \in Tasks, NEW m \in Mutexes,
         PendReturn(t, m), ~GaveUp(task_status[t])
  PROVE  Owning' /\ (Plain => Lending')
<1>1. /\ Typed /\ Pairs /\ InPend(t, m) /\ "READY" \in task_status[t]
      /\ "TIMEOUT" \notin task_status[t]
      /\ call' = [call EXCEPT ![t] = App]
      /\ holds' = [holds EXCEPT ![t][m] = holds[t][m] + 1]
      /\ UNCHANGED <<mutex_count, mutex_owner, mutex_priority, pend_list, live, task_status, priority, usage>>
  BY Zenon DEF Inv, PendReturn, GaveUp, InPend, Running, Runs
<1>2. call'[t] = App /\ \A u \in Tasks \ {t} : call'[u] = call[u]
  BY <1>1, Zenon DEF Typed
<1>3. \A u \in Tasks, n \in Mutexes : u # t \/ n # m => holds'[u][n] = holds[u][n]
  <2>1. holds[t][m] + 1 \in Nat
    BY <1>1 DEF Typed
  <2>. QED
    BY <2>1, <1>1, HoldsUpdate DEF Typed
<1>4. /\ \A u \in Tasks, n \in Mutexes : InPend(u, n)' => u # t /\ InPend(u, n)
      /\ \A u \in Tasks, n \in Mutexes : call'[u] = <<"delete", n>> => call[u] = <<"delete", n>>
  BY <1>2, Calls, Zenon DEF InPend
<1>5. ASSUME NEW u \in Tasks, NEW n \in Mutexes, mutex_owner[n] = u, ~InPend(u, n),
             holds[u][n] < mutex_count[n]
      PROVE  ~InPend(u, n)' /\ holds'[u][n] < mutex_count'[n]
  BY <1>1, <1>3, <1>4, <1>5, Zenon
<1>6. PrioTyped' /\ \A u \in Tasks : (Stuck(u) \/ Settled(u))'
  BY <1>1, <1>5, SteadyOwning, Zenon
<1>7. Owning'
  BY <1>1, <1>3, <1>4, <1>6 DEF Owning
<1>8. Plain => Lending'
  BY <1>1, <1>4, SteadyLending, Zenon
<1>. QED
  BY <1>7, <1>8, Zenon

(* The last release gives the priority back.  What it does to the task and *)
(* the mutex, whoever gets the mutex next.                                 *)
LEMMA PostLastFacts ==
  ASSUME Inv, Owning, NEW t \in Tasks, NEW m \in Mutexes, PostLast(t, m)
  PROVE  /\ Typed /\ PrioTyped /\ call[t] = App /\ mutex_owner[m] = t
         /\ holds[t][m] = 1 /\ mutex_count[m] = 1
         /\ priority' = [priority EXCEPT ![t] = mutex_priority[m]]
         /\ holds' \in [Tasks -> [Mutexes -> Nat]]
         /\ \A u \in Tasks, n \in Mutexes : u # t \/ n # m => holds'[u][n] = holds[u][n]
         /\ UNCHANGED <<live, call, usage>>
<1>1. /\ Typed /\ PrioTyped /\ Pairs /\ call[t] = App /\ mutex_owner[m] = t
      /\ holds[t][m] > 0 /\ mutex_count[m] = 1
      /\ holds' = [holds EXCEPT ![t][m] = holds[t][m] - 1]
      /\ priority' = [priority EXCEPT ![t] = mutex_priority[m]]
      /\ UNCHANGED <<live, call, usage>>
  BY Zenon DEF Inv, Owning, PostLast, Posts, Wants, InApp, PriorityBack
<1>2. holds[t][m] = 1 /\ holds[t][m] - 1 \in Nat
  <2>1. ~InPend(t, m) /\ holds[t][m] \in Nat
    BY <1>1, OutsideFacts, Zenon DEF Typed
  <2>. QED
    BY <2>1, <1>1 DEF Pairs, Pair, Knows
<1>3. /\ holds' \in [Tasks -> [Mutexes -> Nat]]
      /\ \A u \in Tasks, n \in Mutexes : u # t \/ n # m => holds'[u][n] = holds[u][n]
  BY <1>1, <1>2, HoldsUpdate DEF Typed
<1>. QED
  BY <1>1, <1>2, <1>3, Zenon

(* The task that releases: stuck it remains, otherwise it owned this mutex *)
(* only and has its own priority again.                                    *)
LEMMA Released ==
  ASSUME Inv, Owning, NEW t \in Tasks, NEW m \in Mutexes, PostLast(t, m), mutex_owner'[m] # t,
         \A n \in Mutexes \ {m} : /\ mutex_owner'[n] = mutex_owner[n] /\ mutex_count'[n] = mutex_count[n]
                                  /\ mutex_priority'[n] = mutex_priority[n]
  PROVE  /\ (Stuck(t) \/ Settled(t))'
         /\ ~Stuck(t) => OwnsNone(t)' /\ priority'[t] = usage.prio[t]
<1>1. /\ PrioTyped /\ call[t] = App /\ mutex_owner[m] = t
      /\ holds[t][m] = 1 /\ mutex_count[m] = 1
      /\ priority' = [priority EXCEPT ![t] = mutex_priority[m]]
      /\ \A n \in Mutexes : n # m => holds'[t][n] = holds[t][n]
      /\ UNCHANGED <<call, usage>>
  BY PostLastFacts
<1>2. CASE Stuck(t)
  BY <1>1, <1>2, StuckKept DEF InPend
<1>3. CASE ~Stuck(t)
  <2>1. /\ \A n \in Mutexes : mutex_owner[n] = t => n = m
        /\ mutex_priority[m] = usage.prio[t]
    BY <1>1, <1>3, Zenon DEF Owning, Settled
  <2>2. OwnsNone(t)'
    BY <2>1, Zenon DEF OwnsNone
  <2>3. priority'[t] = usage.prio[t]
    BY <2>1, <1>1, Zenon DEF PrioTyped
  <2>. QED
    BY <2>2, <2>3, <1>1, <1>3, Zenon DEF Settled, OwnsNone
<1>. QED
  BY <1>2, <1>3, Zenon

(* The last release of a mutex nobody waits for.                           *)
LEMMA PostFreePrio ==
  ASSUME Inv, Premise, Owning, Plain => Lending, NEW t \in Tasks, NEW m \in Mutexes,
         PostLast(t, m), NobodyWaits(m)
  PROVE  Owning' /\ (Plain => Lending')
<1>1. /\ Typed /\ PrioTyped /\ call[t] = App /\ mutex_owner[m] = t
      /\ priority' = [priority EXCEPT ![t] = mutex_priority[m]]
      /\ \A u \in Tasks, n \in Mutexes : u # t \/ n # m => holds'[u][n] = holds[u][n]
      /\ UNCHANGED <<live, call, usage>>
  BY PostLastFacts, Zenon
<1>2. /\ mutex_count' = [mutex_count EXCEPT ![m] = 0]
      /\ mutex_priority' = [mutex_priority EXCEPT ![m] = 0]
      /\ mutex_owner' = [mutex_owner EXCEPT ![m] = NoTask]
      /\ pend_list[m] = << >> /\ UNCHANGED <<pend_list, task_status>>
  BY Zenon DEF PostLast, NobodyWaits
<1>3. /\ mutex_owner'[m] = NoTask
      /\ \A n \in Mutexes \ {m} : /\ mutex_owner'[n] = mutex_owner[n] /\ mutex_count'[n] = mutex_count[n]
                                  /\ mutex_priority'[n] = mutex_priority[n]
      /\ \A u \in Tasks \ {t} : priority'[u] = priority[u]
  BY <1>1, <1>2, Zenon DEF Typed, PrioTyped
<1>4. PrioTyped'
  BY <1>1, <1>2, Zenon DEF PrioTyped
<1>5. (Stuck(t) \/ Settled(t))'
  BY <1>3, MutexAssumption, Released, Zenon
<1>6. ASSUME NEW u \in Tasks, u # t PROVE (Stuck(u) \/ Settled(u))'
  <2>1. Untouched(u)
    BY <1>1, <1>3, <1>6, MutexAssumption, Zenon DEF Untouched, InPend
  <2>. QED
    BY <2>1, UntouchedKept, Zenon DEF Owning
<1>7. ASSUME NEW u \in Tasks, NEW k \in Mutexes, NEW n \in Mutexes, InPend(u, k)' PROVE holds'[u][n] = 0
  <2>1. InPend(u, k) /\ u # t
    BY <1>7, <1>1, OutsideFacts, Zenon DEF InPend
  <2>. QED
    BY <2>1, <1>1 DEF Owning
<1>8. Owning'
  BY <1>1, <1>4, <1>5, <1>6, <1>7, Zenon DEF Owning
<1>9. ASSUME Plain PROVE Lending'
  <2>1. Lending /\ ~Stuck(t)
    BY <1>9, PrioFacts, NeverStuck, Zenon
  <2>2. ASSUME NEW n \in Mutexes, NEW u \in Tasks, mutex_owner'[n] = u PROVE Lent(u, n)'
    <3>1. n # m /\ mutex_owner[n] = u /\ Lent(u, n)
      BY <2>1, <2>2, <1>3, MutexAssumption, Zenon DEF Lending
    <3>2. u # t
      BY <2>1, <3>1, <1>1, Zenon DEF Owning, Settled
    <3>. QED
      BY <3>1, <3>2, <1>1, <1>2, <1>3, SMTT(20) DEF Lent
  <2>. QED
    BY <2>1, <2>2, <1>1, <1>2, <1>3, Zenon DEF Lending
<1>. QED
  BY <1>8, <1>9, Zenon

(* The last release of a mutex that goes to the first waiter, which is the *)
(* best of them and has its own priority.                                  *)
LEMMA PostHandPrio ==
  ASSUME Inv, Premise, Owning, Plain => Lending, NEW t \in Tasks, NEW m \in Mutexes,
         PostLast(t, m), ~NobodyWaits(m)
  PROVE  Owning' /\ (Plain => Lending')
<1>1. /\ Typed /\ PrioTyped /\ call[t] = App /\ mutex_owner[m] = t
      /\ holds[t][m] = 1 /\ mutex_count[m] = 1
      /\ priority' = [priority EXCEPT ![t] = mutex_priority[m]]
      /\ \A u \in Tasks, n \in Mutexes : u # t \/ n # m => holds'[u][n] = holds[u][n]
      /\ UNCHANGED <<live, call, usage>>
  BY PostLastFacts
<1>2. /\ pend_list[m] \in Seq(Tasks) /\ pend_list[m] # << >> /\ IsInjective(pend_list[m])
  BY <1>1, Zenon DEF NobodyWaits, Typed, Inv, Lists
<1>3. PICK w \in Tasks :
        /\ w = Head(pend_list[m]) /\ w \in Range(pend_list[m])
        /\ mutex_priority' = [mutex_priority EXCEPT ![m] = priority[w]]
        /\ mutex_count' = [mutex_count EXCEPT ![m] = 1]
        /\ mutex_owner' = [mutex_owner EXCEPT ![m] = w]
        /\ pend_list' = [pend_list EXCEPT ![m] = DeleteItem(pend_list[m], w)]
        /\ task_status' = [task_status EXCEPT ![w] = Woken(task_status[w])]
  <2>1. Head(pend_list[m]) \in Tasks /\ Head(pend_list[m]) \in Range(pend_list[m])
    BY <1>2, HeadTailProps, Zenon
  <2>2. HandedCount(m) = 1
    BY <1>1 DEF HandedCount
  <2>. QED
    BY <2>1, <2>2, Zenon DEF PostLast
<1>4. InPend(w, m) /\ w # t /\ \A n \in Mutexes : holds[w][n] = 0
  <2>1. InPend(w, m) /\ w # t
    BY <1>1, <1>3, Zenon DEF Inv, Pairs, Pair, Listed
  <2>. QED
    BY <2>1, Zenon DEF Owning
<1>5. /\ mutex_owner'[m] = w /\ mutex_priority'[m] = priority[w]
      /\ pend_list'[m] = DeleteItem(pend_list[m], w)
      /\ \A n \in Mutexes \ {m} : /\ mutex_owner'[n] = mutex_owner[n] /\ mutex_count'[n] = mutex_count[n]
                                  /\ mutex_priority'[n] = mutex_priority[n]
                                  /\ pend_list'[n] = pend_list[n]
      /\ \A u \in Tasks \ {t} : priority'[u] = priority[u]
      /\ \A u \in Tasks \ {w} : task_status'[u] = task_status[u]
      /\ "READY" \in task_status'[w]
  <2>1. "READY" \in Woken(task_status[w])
    BY Zenon DEF Woken
  <2>. QED
    BY <2>1, <1>1, <1>3, Zenon DEF Typed, PrioTyped
<1>6. PrioTyped'
  BY <1>1, <1>3, Zenon DEF PrioTyped
<1>7. (Stuck(t) \/ Settled(t))' /\ (~Stuck(t) => OwnsNone(t)' /\ priority'[t] = usage.prio[t])
  BY <1>4, <1>5, Released, Zenon
<1>8. ASSUME ~Stuck(w) PROVE OwnsNone(w) /\ priority[w] = usage.prio[w]
  <2>1. ASSUME NEW n \in Mutexes, mutex_owner[n] = w PROVE FALSE
    <3>1. n # m /\ ~InPend(w, n)
      BY <2>1, <1>1, <1>4, Calls DEF InPend
    <3>2. holds[w][n] = 0 /\ mutex_count[n] > 0
      BY <2>1, <3>1, <1>4, Zenon DEF Inv, Pairs, Pair, Knows
    <3>. QED
      BY <2>1, <3>1, <3>2, <1>8, Zenon DEF Stuck
  <2>. QED
    BY <2>1, <1>8, Zenon DEF OwnsNone, Owning, Settled
<1>9. (Stuck(w) \/ Settled(w))'
  <2>1. CASE Stuck(w)
    BY <2>1, <1>1, <1>4, <1>5, StuckKept DEF InPend
  <2>2. CASE ~Stuck(w)
    <3>1. /\ OwnsNone(w) /\ mutex_owner'[m] = w /\ mutex_priority'[m] = usage'.prio[w]
          /\ \A n \in Mutexes \ {m} : mutex_owner'[n] = mutex_owner[n]
      BY <2>2, <1>1, <1>5, <1>8, Zenon
    <3>2. \A n \in Mutexes : mutex_owner'[n] = w => n = m
      BY <3>1, Zenon DEF OwnsNone
    <3>. QED
      BY <3>1, <3>2, Zenon DEF Settled, OwnsNone
  <2>. QED
    BY <2>1, <2>2, Zenon
<1>10. ASSUME NEW u \in Tasks, u # t, u # w PROVE (Stuck(u) \/ Settled(u))'
  <2>1. Untouched(u)
    BY <1>1, <1>5, <1>10, Zenon DEF Untouched, InPend
  <2>. QED
    BY <2>1, UntouchedKept, Zenon DEF Owning
<1>11. ASSUME NEW u \in Tasks, NEW k \in Mutexes, NEW n \in Mutexes, InPend(u, k)' PROVE holds'[u][n] = 0
  <2>1. InPend(u, k) /\ u # t
    BY <1>11, <1>1, OutsideFacts, Zenon DEF InPend
  <2>2. holds'[u][n] = holds[u][n]
    BY <2>1, <1>1, Zenon
  <2>. QED
    BY <2>1, <2>2, Zenon DEF Owning
<1>12. Owning'
  BY <1>1, <1>6, <1>7, <1>9, <1>10, <1>11, Zenon DEF Owning
<1>13. ASSUME Plain PROVE Lending'
  <2>1. Lending /\ ~Stuck(t) /\ ~Stuck(w) /\ usage.prio \in [Tasks -> Nat] /\ Values(usage.prio, Tasks)
    BY <1>1, <1>13, PrioFacts, NeverStuck, UsageFacts, Zenon DEF Typed
  <2>2. OwnsNone(t)' /\ OwnsNone(w) /\ priority'[w] = usage.prio[w] /\ priority'[w] \in Nat
    BY <2>1, <1>1, <1>4, <1>5, <1>7, <1>8, Zenon DEF PrioTyped
  <2>3. /\ Sorted(pend_list'[m], usage.prio)
        /\ \A u \in Range(pend_list'[m]) : priority'[w] <= usage.prio[u]
    <3>1. Sorted(pend_list[m], usage.prio)
      BY <2>1, Zenon DEF Lending
    <3>2. /\ Sorted(DeleteItem(pend_list[m], w), usage.prio)
          /\ Range(DeleteItem(pend_list[m], w)) = Range(pend_list[m]) \ {w}
      BY <3>1, <1>2, DeleteItemProps, Zenon
    <3>3. \A u \in Range(pend_list[m]) : usage.prio[w] <= usage.prio[u]
      BY <2>1, <3>1, <1>2, <1>3, HeadTailProps, Zenon
    <3>. QED
      BY <3>2, <3>3, <2>2, <1>5, Zenon
  <2>4. Lent(w, m)'
    <3>1. "READY" \in task_status'[w] /\ usage' = usage /\ usage.prio[w] \in Nat
      BY <2>1, <1>1, <1>5, Zenon
    <3>2. priority'[w] = usage.prio[w] /\ priority'[w] <= usage.prio[w]
      BY <2>2, <3>1
    <3>. QED
      BY <2>3, <3>1, <3>2, Zenon DEF Lent
  <2>5. ASSUME NEW n \in Mutexes, n # m, NEW u \in Tasks, mutex_owner'[n] = u PROVE Lent(u, n)'
    <3>1. mutex_owner[n] = u /\ Lent(u, n) /\ u # t /\ u # w
      <4>1. mutex_owner[n] = mutex_owner'[n] /\ mutex_owner[n] # w /\ mutex_owner'[n] # t
        BY <2>2, <2>5, <1>5, Zenon DEF OwnsNone
      <4>. QED
        BY <2>1, <2>5, <4>1, Zenon DEF Lending
    <3>. QED
      BY <2>5, <3>1, <1>1, <1>5, Zenon DEF Lent
  <2>6. \A u \in Tasks : call'[u] # <<"delete", m>>
    <3>1. \A u \in Tasks : call[u] = <<"delete", m>> => pend_list[m] = << >>
      BY <2>1, Zenon DEF Lending
    <3>. QED
      BY <3>1, <1>1, <1>2, Zenon
  <2>7. w # NoTask
    BY MutexAssumption, Zenon
  <2>8. ASSUME NEW n \in Mutexes, n # m
        PROVE  /\ Sorted(pend_list[n], usage.prio)'
               /\ (mutex_owner[n] = NoTask => pend_list[n] = << >>)'
               /\ (~live[n] => mutex_owner[n] = NoTask)'
               /\ \A u \in Tasks : call'[u] = <<"delete", n>> => pend_list'[n] = << >>
    BY <2>1, <2>8, <1>1, <1>5, Zenon DEF Lending
  <2>9. /\ Sorted(pend_list[m], usage.prio)' /\ live'[m]
    BY <2>1, <2>3, <1>1, MutexAssumption, Zenon DEF Lending
  <2>. QED
    <3>1. mutex_owner'[m] = w /\ \A u \in Tasks : mutex_owner'[m] = u => Lent(u, m)'
      BY <2>4, <1>5, Zenon
    <3>2. \A n \in Mutexes \ {m}, u \in Tasks : mutex_owner'[n] = u => Lent(u, n)'
      BY <2>5, Zenon
    <3>. QED
      BY <3>1, <3>2, <2>6, <2>7, <2>8, <2>9, Zenon DEF Lending
<1>. QED
  BY <1>12, <1>13, Zenon

(* The test of dos_mutex_delete.                                           *)
LEMMA DeletePrio ==
  ASSUME Inv, Premise, Owning, Plain => Lending, NEW t \in Tasks, NEW m \in Mutexes, Delete(t, m)
  PROVE  Owning' /\ (Plain => Lending')
<1>1. /\ Typed /\ call[t] = App /\ t \in usage.deleters /\ pend_list[m] = << >>
      /\ call' = [call EXCEPT ![t] = <<"delete", m>>]
      /\ UNCHANGED <<mutex_count, mutex_owner, mutex_priority, pend_list, live, task_status,
                     priority, holds, usage>>
  BY Zenon DEF Inv, Delete, Wants, InApp, NobodyWaits, mutexVars
<1>2. call'[t] = <<"delete", m>> /\ \A u \in Tasks \ {t} : call'[u] = call[u]
  BY <1>1, Zenon DEF Typed
<1>3. /\ \A u \in Tasks, n \in Mutexes : InPend(u, n)' => InPend(u, n)
      /\ \A u \in Tasks, n \in Mutexes : call'[u] = <<"delete", n>> =>
           call[u] = <<"delete", n>> \/ (u = t /\ n = m)
  BY <1>2, Calls, Zenon DEF InPend
<1>4. PrioTyped' /\ \A u \in Tasks : (Stuck(u) \/ Settled(u))'
  BY <1>1, <1>3, SteadyOwning, Zenon
<1>5. Owning'
  BY <1>1, <1>3, <1>4, Zenon DEF Owning
<1>6. Plain => Lending'
  BY <1>1, <1>3, SteadyLending, Zenon
<1>. QED
  BY <1>5, <1>6, Zenon

(* The clearing of a mutex, whose holder nobody has lent a priority.       *)
LEMMA DeleteFreePrio ==
  ASSUME Inv, Premise, Owning, Plain => Lending, NEW t \in Tasks, NEW m \in Mutexes, DeleteFree(t, m)
  PROVE  Owning' /\ (Plain => Lending')
<1>1. /\ Typed /\ PrioTyped /\ call[t] = <<"delete", m>>
      /\ mutex_count' = [mutex_count EXCEPT ![m] = 0]
      /\ mutex_owner' = [mutex_owner EXCEPT ![m] = NoTask]
      /\ mutex_priority' = [mutex_priority EXCEPT ![m] = 0]
      /\ call' = [call EXCEPT ![t] = App]
      /\ holds' = [holds EXCEPT ![t][m] = 0]
      /\ live' = [live EXCEPT ![m] = FALSE]
      /\ UNCHANGED <<pend_list, task_status, priority, usage>>
  BY Zenon DEF Inv, Owning, DeleteFree
<1>2. Plain /\ Lending /\ pend_list[m] = << >>
  <2>1. Plain /\ Lending
    BY <1>1, Zenon DEF Owning, Premise
  <2>. QED
    BY <2>1, <1>1, Zenon DEF Lending
<1>3. ASSUME NEW u \in Tasks, mutex_owner[m] = u
      PROVE  priority[u] = usage.prio[u] /\ Settled(u)
  <2>1. ~Stuck(u)
    BY <1>2, PrioFacts, NeverStuck, Zenon
  <2>. QED
    BY <2>1, <1>2, <1>3, Zenon DEF Lending, Lent, Owning
<1>4. /\ call'[t] = App /\ \A u \in Tasks \ {t} : call'[u] = call[u]
      /\ mutex_owner'[m] = NoTask
      /\ \A n \in Mutexes \ {m} : /\ mutex_owner'[n] = mutex_owner[n] /\ mutex_count'[n] = mutex_count[n]
                                  /\ mutex_priority'[n] = mutex_priority[n]
      /\ \A n \in Mutexes : ~live'[n] => n = m \/ ~live[n]
      /\ \A u \in Tasks, n \in Mutexes : u # t \/ n # m => holds'[u][n] = holds[u][n]
  <2>1. \A u \in Tasks, n \in Mutexes : u # t \/ n # m => holds'[u][n] = holds[u][n]
    BY <1>1, HoldsUpdate DEF Typed
  <2>. QED
    BY <2>1, <1>1 DEF Typed, PrioTyped
<1>5. /\ \A u \in Tasks, n \in Mutexes : InPend(u, n)' => u # t /\ InPend(u, n)
      /\ \A u \in Tasks, n \in Mutexes : call'[u] = <<"delete", n>> => call[u] = <<"delete", n>>
  BY <1>4, Calls, Zenon DEF InPend
<1>6. PrioTyped'
  BY <1>1, Zenon DEF PrioTyped
<1>7. ASSUME NEW u \in Tasks, mutex_owner[m] = u PROVE Settled(u)'
  <2>1. \A n \in Mutexes : mutex_owner[n] = u => n = m
    BY <1>3, <1>7, Zenon DEF Settled
  <2>2. OwnsNone(u)'
    BY <2>1, <1>4, MutexAssumption, Zenon DEF OwnsNone
  <2>. QED
    BY <2>2, <1>1, <1>3, <1>7, Zenon DEF Settled, OwnsNone
<1>8. ASSUME NEW u \in Tasks, mutex_owner[m] # u PROVE (Stuck(u) \/ Settled(u))'
  <2>1. Untouched(u)
    BY <1>1, <1>4, <1>5, <1>8, MutexAssumption DEF Untouched
  <2>. QED
    BY <2>1, UntouchedKept, Zenon DEF Owning
<1>9. Owning'
  <2>1. \A u \in Tasks \ {t}, n \in Mutexes : holds'[u][n] = holds[u][n]
    BY <1>4, Zenon
  <2>2. \A u \in Tasks, k, n \in Mutexes : InPend(u, k)' => holds'[u][n] = 0
    BY <2>1, <1>5 DEF Owning
  <2>. QED
    BY <2>2, <1>1, <1>5, <1>6, <1>7, <1>8, Zenon DEF Owning
<1>10. Lending'
  <2>1. ASSUME NEW n \in Mutexes, NEW u \in Tasks, mutex_owner'[n] = u PROVE Lent(u, n)'
    <3>1. n # m /\ mutex_owner[n] = u /\ Lent(u, n)
      BY <2>1, <1>2, <1>4, MutexAssumption, Zenon DEF Lending
    <3>. QED
      BY <3>1, <1>1, Zenon DEF Lent
  <2>. QED
    BY <2>1, <1>1, <1>2, <1>4, <1>5 DEF Lending
<1>. QED
  BY <1>9, <1>10, Zenon

(* A sleep: where it matters, the task owns no mutex.  The end of a sleep  *)
(* or of a wait makes a task ready.  A step of another part.               *)
LEMMA AsidePrio ==
  ASSUME Inv, Premise, Owning, Plain => Lending,
         UNCHANGED vars \/ \E t \in Tasks : Sleep(t) \/ Timeout(t)
  PROVE  Owning' /\ (Plain => Lending')
<1>1. UNCHANGED <<mutex_count, mutex_owner, mutex_priority, pend_list, live, priority, call, holds, usage>>
  BY Zenon DEF Sleep, Timeout, vars, mutexVars, taskVars
<1>2. PrioTyped' /\ \A u \in Tasks : (Stuck(u) \/ Settled(u))'
  BY <1>1, SteadyOwning, Zenon DEF InPend
<1>3. Owning'
  BY <1>1, <1>2, Zenon DEF Owning, InPend
<1>4. ASSUME Plain, NEW u \in Tasks, NEW n \in Mutexes, mutex_owner[n] = u, "READY" \in task_status[u]
      PROVE  "READY" \in task_status'[u]
  <2>1. CASE UNCHANGED vars
    BY <2>1, <1>4, Zenon DEF vars, taskVars
  <2>2. ASSUME NEW t \in Tasks, Sleep(t) PROVE "READY" \in task_status'[u]
    <3>1. u # t
      <4>1. call[t] = App /\ Held(t) = {} /\ ~Stuck(t)
        BY <1>4, <2>2, PrioFacts, NeverStuck, Zenon DEF Sleep, InApp
      <4>2. OwnsNone(t)
        BY <4>1, HoldsNone, HoldsNoneOwnsNone, Zenon DEF MayTake
      <4>. QED
        BY <1>4, <4>2, Zenon DEF OwnsNone
    <3>. QED
      BY <2>2, <3>1, <1>4 DEF Sleep
  <2>3. ASSUME NEW t \in Tasks, Timeout(t) PROVE "READY" \in task_status'[u]
    <3>1. "READY" \in TimedOut(task_status[t])
      BY Zenon DEF TimedOut
    <3>2. task_status' = [task_status EXCEPT ![t] = TimedOut(task_status[t])]
      BY <2>3, Zenon DEF Timeout
    <3>. QED
      BY <3>1, <3>2, <1>4, Zenon DEF Inv, Typed
  <2>. QED
    BY <2>1, <2>2, <2>3, Zenon
<1>5. Plain => Lending'
  BY <1>1, <1>4, SteadyLending, Zenon
<1>. QED
  BY <1>3, <1>5, Zenon

(* dos_mutex_create.                                                       *)
LEMMA InitPrio ==
  ASSUME Init, Premise
  PROVE  Owning /\ Lending
<1>1. Inv
  BY InitInv, Zenon
<1>2. usage.prio \in [Tasks -> Nat] /\ priority = usage.prio
  BY <1>1, PrioFacts, Zenon DEF Init
<1>3. \A t \in Tasks : OwnsNone(t)
  BY MutexAssumption, Zenon DEF Init, OwnsNone
<1>4. Owning
  <2>1. PrioTyped
    BY <1>2, Zenon DEF Init, PrioTyped
  <2>2. \A t \in Tasks : Settled(t)
    BY <1>2, <1>3, Zenon DEF Settled, OwnsNone
  <2>3. \A t \in Tasks, m \in Mutexes : ~InPend(t, m) /\ call[t] # <<"delete", m>>
    BY <1>1, OutsideFacts, Zenon DEF Init
  <2>. QED
    BY <2>1, <2>2, <2>3, Zenon DEF Owning
<1>5. Lending
  BY <1>3 DEF Init, Lending, OwnsNone, Sorted
<1>. QED
  BY <1>4, <1>5, Zenon

(* A task inside dos_mutex_delete stays ready.                             *)
LEMMA StepDeleting ==
  ASSUME Typed, Deleting, [Next]_vars
  PROVE  Deleting'
<1> SUFFICES ASSUME NEW u \in Tasks, NEW n \in Mutexes, call'[u] = <<"delete", n>>
             PROVE  "READY" \in task_status'[u]
  BY Zenon DEF Deleting
<1>1. ASSUME task_status'[u] = task_status[u], call'[u] = call[u] PROVE "READY" \in task_status'[u]
  BY <1>1, Zenon DEF Deleting
<1>2. CASE UNCHANGED vars
  BY <1>1, <1>2, Zenon DEF vars, taskVars
<1>3. ASSUME NEW t \in Tasks, Sleep(t) \/ Timeout(t) PROVE "READY" \in task_status'[u]
  <2>1. UNCHANGED call /\ (u # t => task_status'[u] = task_status[u])
    BY <1>3, Zenon DEF Sleep, Timeout, Typed
  <2>2. Sleep(t) => call[t] = App
    BY Zenon DEF Sleep, InApp
  <2>3. Timeout(t) => task_status'[t] = TimedOut(task_status[t])
    BY Zenon DEF Timeout, Typed
  <2>. QED
    BY <1>1, <1>3, <2>1, <2>2, <2>3, Calls, Zenon DEF TimedOut
<1>4. ASSUME NEW t \in Tasks, NEW m \in Mutexes, PendFree(t, m) \/ PendAgain(t, m) \/ PostInner(t, m)
      PROVE  "READY" \in task_status'[u]
  BY <1>1, <1>4, Zenon DEF PendFree, PendAgain, PostInner
<1>5. ASSUME NEW t \in Tasks, NEW m \in Mutexes, PendReturn(t, m) \/ DeleteFree(t, m)
      PROVE  "READY" \in task_status'[u]
  <2>1. call'[t] = App /\ (u # t => call'[u] = call[u] /\ task_status'[u] = task_status[u])
    BY <1>5, Zenon DEF PendReturn, DeleteFree, Typed
  <2>. QED
    BY <1>1, <2>1, Calls, Zenon
<1>6. ASSUME NEW t \in Tasks, NEW m \in Mutexes, NEW wait \in usage.waits, PendWait(t, m, wait)
      PROVE  "READY" \in task_status'[u]
  <2>1. call'[t] = <<"pend", m>> /\ (u # t => call'[u] = call[u] /\ task_status'[u] = task_status[u])
    BY <1>6, Zenon DEF PendWait, Typed
  <2>. QED
    BY <1>1, <2>1, Calls, Zenon
<1>7. ASSUME NEW t \in Tasks, NEW m \in Mutexes, PostLast(t, m) PROVE "READY" \in task_status'[u]
  <2>1. UNCHANGED call
    BY <1>7, Zenon DEF PostLast
  <2>2. CASE NobodyWaits(m)
    BY <1>1, <1>7, <2>1, <2>2, Zenon DEF PostLast
  <2>3. CASE ~NobodyWaits(m)
    <3>1. task_status' = [task_status EXCEPT ![Head(pend_list[m])] = Woken(@)]
      BY <1>7, <2>3, Zenon DEF PostLast
    <3>2. CASE u = Head(pend_list[m])
      BY <3>1, <3>2, Zenon DEF Typed, Woken
    <3>3. CASE u # Head(pend_list[m])
      BY <1>1, <2>1, <3>1, <3>3, Zenon DEF Typed
    <3>. QED
      BY <3>2, <3>3, Zenon
  <2>. QED
    BY <2>2, <2>3, Zenon
<1>8. ASSUME NEW t \in Tasks, NEW m \in Mutexes, Delete(t, m) PROVE "READY" \in task_status'[u]
  <2>1. /\ UNCHANGED task_status /\ "READY" \in task_status[t]
        /\ u # t => call'[u] = call[u]
    BY <1>8, Zenon DEF Delete, Wants, InApp, Running, Runs, Typed
  <2>. QED
    BY <1>1, <2>1, Zenon
<1>9. ASSUME Next PROVE "READY" \in task_status'[u]
  BY <1>3, <1>4, <1>5, <1>6, <1>7, <1>8, <1>9, Zenon DEF Next
<1>. QED
  BY <1>2, <1>9, Zenon

(* Every step keeps the invariant where tasks hold one mutex at a time.    *)
LEMMA StepPrio ==
  ASSUME Inv, Premise, Deleting, Owning, Plain => Lending, [Next]_vars
  PROVE  Owning' /\ (Plain => Lending')
<1> DEFINE Goal == Owning' /\ (Plain => Lending')
<1>1. UNCHANGED vars => Goal
  BY AsidePrio, Zenon
<1>2. ASSUME NEW t \in Tasks, Sleep(t) \/ Timeout(t) PROVE Goal
  BY <1>2, AsidePrio, Zenon
<1>3. ASSUME NEW t \in Tasks, NEW m \in Mutexes,
             PendFree(t, m) \/ PendAgain(t, m) \/ PendReturn(t, m)
      PROVE  Goal
  BY <1>3, PendFreePrio, RecursePrio, GiveUpPrio, GotPrio, Zenon
<1>4. ASSUME NEW t \in Tasks, NEW m \in Mutexes, NEW wait \in usage.waits, PendWait(t, m, wait)
      PROVE  Goal
  BY <1>4, PendWaitPrio, Zenon
<1>5. ASSUME NEW t \in Tasks, NEW m \in Mutexes,
             PostInner(t, m) \/ PostLast(t, m) \/ Delete(t, m) \/ DeleteFree(t, m)
      PROVE  Goal
  BY <1>5, RecursePrio, PostFreePrio, PostHandPrio, DeletePrio, DeleteFreePrio, Zenon
<1> HIDE DEF Goal
<1>6. ASSUME Next PROVE Goal
  BY <1>2, <1>3, <1>4, <1>5, <1>6, Zenon DEF Next
<1>7. Goal
  BY <1>1, <1>6, Zenon
<1>. QED
  BY <1>7, Zenon DEF Goal

(* The invariant with the priorities holds in every reachable state.       *)
LEMMA PrioInvariance == Spec => []PrioInv
<1>1. Init => PrioInv
  <2>1. Init => Deleting
    BY Calls, Zenon DEF Init, Deleting
  <2>. QED
    BY <2>1, InitInv, InitPrio, Zenon DEF PrioInv
<1>2. PrioInv /\ [Next]_vars => PrioInv'
  <2> SUFFICES ASSUME PrioInv, [Next]_vars, Premise' PROVE Inv' /\ Deleting' /\ Owning' /\ (Plain' => Lending')
    BY Zenon DEF PrioInv
  <2>1. UNCHANGED usage
    BY UsageKept, Zenon
  <2>2. Premise /\ (Plain' <=> Plain)
    BY <2>1, Zenon DEF Premise, Plain, OneHeld, Shallow, Untimed, TopDeletes
  <2>3. Inv'
    BY <2>2, StepInv, Zenon DEF PrioInv, Premise, OneHeld
  <2>4. Deleting'
    BY <2>2, StepDeleting, Zenon DEF PrioInv, Inv
  <2>. QED
    BY <2>2, <2>3, <2>4, StepPrio, Zenon DEF PrioInv
<1>. QED
  BY <1>1, <1>2, PTL DEF Spec

(* Inheritance ends: dos_mutex_post gives a task back the priority it was  *)
(* created with, whatever waited for its mutex meanwhile and whichever     *)
(* timeouts and sleeps there were, where tasks hold one mutex at a time.   *)
THEOREM RestoresPriority == Spec => []PriorityRestored
<1>1. PrioInv => PriorityRestored
  <2> SUFFICES ASSUME PrioInv, Premise, NEW t \in Tasks, OwnsNone(t) PROVE priority[t] = usage.prio[t]
    BY Zenon DEF PriorityRestored, Premise, OwnsNone
  <2>1. ~Stuck(t)
    BY Zenon DEF Stuck, OwnsNone
  <2>. QED
    BY <2>1, Zenon DEF PrioInv, Owning, Settled
<1>. QED
  BY <1>1, PrioInvariance, PTL

(* Priority inheritance: where a task holds one mutex, does not sleep with *)
(* it and waits without a timeout, the owner of a mutex is never behind a  *)
(* task that waits for it, after any number of waits and hand-overs.       *)
THEOREM Inherits == Spec => []Inherited
<1>1. PrioInv => Inherited
  <2> SUFFICES ASSUME PrioInv, Plain, NEW m \in Mutexes, NEW t \in Range(pend_list[m])
               PROVE  priority[mutex_owner[m]] <= priority[t]
    BY Zenon DEF Inherited
  <2>1. Inv /\ Owning /\ Lending /\ Untimed
    BY Zenon DEF PrioInv, Premise, Plain
  <2>2. pend_list[m] \in Seq(Tasks) /\ t \in Tasks /\ pend_list[m] # << >>
    BY <2>1, EmptyItems, Zenon DEF Inv, Typed
  <2>3. PICK o \in Tasks : o = mutex_owner[m] /\ Lent(o, m)
    BY <2>1, <2>2, Zenon DEF Lending, Inv, Typed
  <2>4. priority[t] = usage.prio[t]
    <3>1. InPend(t, m) /\ mutex_owner[m] # t /\ ~Stuck(t)
      BY <2>1, <2>2, NeverStuck, Zenon DEF Inv, Pairs, Pair, Listed
    <3>2. ASSUME NEW n \in Mutexes, mutex_owner[n] = t PROVE FALSE
      <4>1. n # m /\ ~InPend(t, n)
        BY <3>1, <3>2, Calls, Zenon DEF InPend
      <4>2. holds[t][n] = 0 /\ mutex_count[n] > 0 /\ holds[t][n] = mutex_count[n]
        <5>1. holds[t][n] = 0
          BY <2>1, <2>2, <3>1, Zenon DEF Owning
        <5>2. mutex_count[n] > 0 /\ holds[t][n] = mutex_count[n]
          BY <2>1, <2>2, <3>2, <4>1, Zenon DEF Inv, Pairs, Pair, Knows
        <5>. QED
          BY <5>1, <5>2, Zenon
      <4>. QED
        BY <4>2
    <3>. QED
      BY <2>1, <2>2, <3>1, <3>2, Zenon DEF Owning, Settled, OwnsNone
  <2>. QED
    BY <2>3, <2>4, Zenon DEF Lent
<1>. QED
  BY <1>1, PrioInvariance, PTL

(* Deletion by the best task is safe although dos_mutex_delete tests the   *)
(* pend list and frees in two unprotected steps: nobody waits for a mutex  *)
(* that is gone, whoever held it, and nobody believes to hold it where the *)
(* best task deletes only what it holds itself.                            *)
THEOREM DeletesUnused == Spec => []DeletedUnused
<1>1. PrioInv => DeletedUnused
  <2> SUFFICES ASSUME PrioInv, Plain, NEW m \in Mutexes, ~live[m]
               PROVE  /\ pend_list[m] = << >>
                      /\ usage.own => \A t \in Tasks : holds[t][m] = 0
    BY Zenon DEF DeletedUnused
  <2>1. Inv /\ Lending
    BY Zenon DEF PrioInv, Premise, Plain
  <2>2. mutex_owner[m] = NoTask /\ pend_list[m] = << >>
    BY <2>1, Zenon DEF Lending
  <2>3. ASSUME usage.own, NEW t \in Tasks PROVE holds[t][m] = 0
    <3>1. Sound(m) /\ mutex_owner[m] # t
      BY <2>2, <2>3, MutexAssumption DEF Sound
    <3>2. ~(holds[t][m] > 0)
      BY <2>1, <3>1, Zenon DEF Inv, Pairs, Pair
    <3>. QED
      BY <3>2, <2>1 DEF Inv, Typed
  <2>. QED
    BY <2>2, <2>3, Zenon
<1>. QED
  BY <1>1, PrioInvariance, PTL
=============================================================================
