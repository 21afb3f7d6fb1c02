---------------------------- MODULE QueueProofs -----------------------------
(***************************************************************************)
(* The message queue for any number of tasks, any queue length and every   *)
(* use.  First how tasks stand to the pend lists, whatever preempts the    *)
(* handler; then, where tasks take turns, that at most one task is in the  *)
(* middle of it, and with that the counts and the order of the messages.   *)
(***************************************************************************)
EXTENDS Queue, FiniteSetTheorems, TaskListProofs

(* A task on a pend list is on that of its call; it has not run since it   *)
(* was put there, or it has given up its wait.                             *)
Listed(t, o) ==
  /\ op[t] = o
  /\ \/ pc[t] = "leave"
     \/ /\ pc[t] = "pend" /\ "SUSPEND" \in task_status[t]
        /\ "READY" \in task_status[t] => "TIMEOUT" \in task_status[t]

Lists ==
  /\ \A o \in Ops : IsInjective(pend_list[o])
  /\ \A o \in Ops, t \in Tasks : t \in Range(pend_list[o]) => Listed(t, o)
  /\ \A t \in Tasks : "SUSPEND" \in task_status[t] => t \in Range(pend_list[op[t]])
  /\ \A t \in Tasks : pc[t] = "leave" => "SUSPEND" \notin task_status[t]

TopDeletes == \A t \in usage.deleters : Top(t)

(* A task of the highest priority that deletes the queue is not preempted  *)
(* between the test of the pend lists and the free.                        *)
Deletes ==
  TopDeletes =>
    /\ \A t \in Tasks : pc[t] = "delete" =>
         t \in usage.deleters /\ "READY" \in task_status[t] /\ \A o \in Ops : pend_list[o] = << >>
    /\ ~live => \A o \in Ops : pend_list[o] = << >>

ListInv == TypeOK /\ Lists /\ Deletes

-----------------------------------------------------------------------------
(* Where tasks take turns: a task is ready or waits, and one in the middle *)
(* of a call is the one that runs.                                         *)
Mid(t) == pc[t] \in {"copy", "check", "wake", "load", "store", "delete"}

Turns ==
  /\ \A t \in Tasks : task_status[t] \in {{"READY"}, {"SUSPEND"}}
  /\ \A t \in Tasks : pc[t] # "leave" /\ (Mid(t) => Runs(t, task_status, BasePrio))
  /\ usage.deleters = {} => live /\ ~fault /\ \A t \in Tasks : pc[t] # "delete"

(* The tokens of kind o that are not counted: those of the tasks that have *)
(* not copied yet, and those that will be given by the tasks that have.    *)
Owed(o) ==
  {t \in Tasks : \/ op[t] = o /\ pc[t] = "pend" /\ "SUSPEND" \notin task_status[t]
                 \/ op[t] = o /\ pc[t] = "copy"
                 \/ op[t] = Other(o) /\ pc[t] \in {"check", "wake", "load", "store"}}

Avail(o) == IF o = "read" THEN Stored ELSE usage.len - Stored

Tokens ==
  /\ \A o \in Ops : rw_count[o] + Cardinality(Owed(o)) = Avail(o)
  /\ \A o \in Ops : pend_list[o] # << >> => rw_count[o] = 0
  /\ \A t \in Tasks :
       /\ pc[t] = "wake" => pend_list[Other(op[t])] # << >>
       /\ pc[t] \in {"load", "store"} => pend_list[Other(op[t])] = << >>
       /\ pc[t] = "store" => reg[t] = rw_count[Other(op[t])]

(* The messages that are stored lie between the pointers in their order.   *)
Ring ==
  /\ rw_ptr["write"] = (rw_ptr["read"] + Stored) % usage.len
  /\ \A i \in 0 .. Stored - 1 :
       buf[(rw_ptr["read"] + i) % usage.len] = (got + 1 + i) % MsgIds

TurnInv == TakeTurns => Turns /\ (live => Tokens /\ Ring)

-----------------------------------------------------------------------------
(* What a remainder is, for numbers below twice the divisor.               *)
LEMMA Remainder ==
  ASSUME NEW m \in Nat, m > 0, NEW a \in Int
  PROVE  /\ a % m \in 0 .. m - 1
         /\ a \in 0 .. m - 1 => a % m = a
         /\ a \in m .. 2 * m - 1 => a % m = a - m
OBVIOUS

(* What the assumptions say of the usage and the constants.                *)
LEMMA UseFacts ==
  ASSUME usage \in Usages
  PROVE  /\ usage.len \in Nat /\ usage.len > 0 /\ usage.deleters \subseteq Tasks
         /\ MsgIds \in Nat /\ MsgIds > 2 * usage.len /\ MsgIds > 0
         /\ BasePrio \in [Tasks -> Nat] /\ Values(BasePrio, Tasks) /\ IsFiniteSet(Tasks)
<1>1. usage \in UsageType
  BY QueueAssumption, Zenon
<1>. QED
  BY <1>1, QueueAssumption DEF UsageType, Values

(* The counts are unsigned 16-bit numbers.                                 *)
LEMMA CountFacts ==
  ASSUME usage \in Usages
  PROVE  /\ CountMod \in Nat /\ CountMod > usage.len
         /\ 0 \in Counts /\ usage.len \in Counts
         /\ \A n \in Counts :
              /\ n \in Nat /\ n < CountMod /\ Increment(n) \in Counts
              /\ n # 0 => n - 1 \in Counts
              /\ n + 1 < CountMod => Increment(n) = n + 1
<1>1. CountMod \in Nat /\ CountMod > usage.len /\ usage.len \in Nat /\ usage.len > 0
  BY UseFacts, QueueAssumption
<1>2. 0 \in Counts /\ usage.len \in Counts
  BY <1>1 DEF Counts
<1>3. ASSUME NEW n \in Counts
      PROVE  /\ n \in Nat /\ n < CountMod /\ Increment(n) \in Counts
             /\ n # 0 => n - 1 \in Counts
             /\ n + 1 < CountMod => Increment(n) = n + 1
  <2>1. n \in Nat /\ n < CountMod /\ (n # 0 => n - 1 \in Counts)
    BY <1>1 DEF Counts
  <2>2. (n + 1) % CountMod \in 0 .. CountMod - 1
    BY <1>1, <2>1, Remainder
  <2>3. n + 1 < CountMod => (n + 1) % CountMod = n + 1
    BY <1>1, <2>1, Remainder
  <2>. QED
    BY <2>1, <2>2, <2>3, Zenon DEF Counts, Increment
<1>. QED
  BY <1>1, <1>2, <1>3, Zenon

(* The other kind of operation.                                            *)
LEMMA OtherOp ==
  ASSUME NEW o \in Ops
  PROVE  Other(o) \in Ops /\ Other(o) # o /\ Other(Other(o)) = o /\ \A p \in Ops : p = o \/ p = Other(o)
BY Zenon DEF Ops, Other

(* A task outside the handler is on no pend list and does not wait.        *)
LEMMA Outside ==
  ASSUME TypeOK, Lists, NEW t \in Tasks, pc[t] \notin {"pend", "leave"}
  PROVE  "SUSPEND" \notin task_status[t] /\ \A o \in Ops : t \notin Range(pend_list[o])
<1>1. \A o \in Ops : t \notin Range(pend_list[o])
  BY Zenon DEF Lists, Listed
<1>. QED
  BY <1>1, Zenon DEF Lists, TypeOK

(* Where a step leaves the tasks on the lists.                             *)
SamePlaces ==
  \A u \in Tasks :
    /\ pc'[u] = pc[u] \/ (pc[u] \notin {"pend", "leave"} /\ pc'[u] # "leave")
    /\ op'[u] = op[u] \/ pc[u] = "app"

(* Steps that do not touch the pend lists.                                 *)
LEMMA ListsKept ==
  ASSUME TypeOK, Lists, UNCHANGED <<pend_list, task_status>>, SamePlaces
  PROVE  Lists'
<1>1. ASSUME NEW o \in Ops, NEW u \in Tasks, u \in Range(pend_list[o]) PROVE Listed(u, o)'
  BY <1>1 DEF Lists, Listed, SamePlaces
<1>2. ASSUME NEW u \in Tasks, "SUSPEND" \in task_status[u] PROVE u \in Range(pend_list[op'[u]])
  BY <1>2, Outside, Zenon DEF Lists, SamePlaces
<1>3. ASSUME NEW u \in Tasks, pc'[u] = "leave" PROVE "SUSPEND" \notin task_status[u]
  BY <1>3, Zenon DEF Lists, SamePlaces
<1>. QED
  BY <1>1, <1>2, <1>3, Zenon DEF Lists

(* Steps that put no task on a list and begin no deletion.                 *)
LEMMA DeletesKept ==
  ASSUME Deletes, UNCHANGED <<live, usage>>,
         \A o \in Ops : pend_list[o] = << >> => pend_list'[o] = << >>,
         \A u \in Tasks : pc'[u] = "delete" =>
           pc[u] = "delete" /\ ("READY" \in task_status[u] => "READY" \in task_status'[u])
  PROVE  Deletes'
<1>1. TopDeletes' <=> TopDeletes
  BY Zenon DEF TopDeletes
<1>. QED
  BY <1>1, Zenon DEF Deletes

(* dos_get_first_task and dos_task_wake.                                   *)
LEMMA WakeFirstLists ==
  ASSUME TypeOK, Lists, NEW o \in Ops, WakeFirst(o), SamePlaces
  PROVE  /\ Lists' /\ task_status' \in [Tasks -> SUBSET StatusBits] /\ pend_list' \in [Ops -> Seq(Tasks)]
         /\ \A p \in Ops : pend_list[p] = << >> => pend_list'[p] = << >>
         /\ \A u \in Tasks : "READY" \in task_status[u] => "READY" \in task_status'[u]
<1> DEFINE h == Head(pend_list[o])
<1>1. /\ pend_list[o] \in Seq(Tasks) /\ pend_list[o] # << >>
      /\ task_status' = [task_status EXCEPT ![h] = Woken(task_status[h])]
      /\ pend_list' = [pend_list EXCEPT ![o] = DeleteItem(pend_list[o], h)]
  BY Zenon DEF WakeFirst, TypeOK
<1>2. h \in Tasks /\ h \in Range(pend_list[o]) /\ Listed(h, o)
  BY <1>1, HeadTailProps, Zenon DEF Lists
<1>3. /\ DeleteItem(pend_list[o], h) \in Seq(Tasks)
      /\ IsInjective(DeleteItem(pend_list[o], h))
      /\ Range(DeleteItem(pend_list[o], h)) = Range(pend_list[o]) \ {h}
  BY <1>1, DeleteItemProps DEF Lists
<1> HIDE DEF h
<1>4. task_status' \in [Tasks -> SUBSET StatusBits] /\ pend_list' \in [Ops -> Seq(Tasks)]
  BY <1>1, <1>2, <1>3, Zenon DEF TypeOK, Woken, StatusBits
<1>5. /\ "SUSPEND" \notin task_status'[h] /\ "READY" \in task_status'[h]
      /\ \A u \in Tasks : u # h => task_status'[u] = task_status[u]
  BY <1>1, <1>2, Zenon DEF TypeOK, Woken
<1>6. /\ \A p \in Ops : p # o => pend_list'[p] = pend_list[p]
      /\ pend_list'[o] = DeleteItem(pend_list[o], h)
  BY <1>1, Zenon DEF TypeOK
<1>7. ASSUME NEW p \in Ops, NEW u \in Tasks, u \in Range(pend_list'[p])
      PROVE  u # h /\ u \in Range(pend_list[p]) /\ Listed(u, p)'
  <2>1. u \in Range(pend_list[p]) /\ Listed(u, p) /\ u # h
    <3>1. CASE p = o
      BY <3>1, <1>3, <1>6, <1>7, Zenon DEF Lists
    <3>2. CASE p # o
      BY <3>2, <1>2, <1>6, <1>7 DEF Lists, Listed
    <3>. QED
      BY <3>1, <3>2, Zenon
  <2>. QED
    BY <2>1, <1>5, Zenon DEF Listed, SamePlaces
<1>8. ASSUME NEW u \in Tasks, "SUSPEND" \in task_status'[u] PROVE u \in Range(pend_list'[op'[u]])
  <2>1. u # h /\ u \in Range(pend_list[op[u]]) /\ op[u] \in Ops
    BY <1>5, <1>8, Zenon DEF Lists, TypeOK
  <2>2. op'[u] = op[u]
    BY <2>1, Zenon DEF Lists, Listed, SamePlaces
  <2>. QED
    BY <2>1, <2>2, <1>3, <1>6
<1>9. \A p \in Ops : IsInjective(pend_list'[p])
  BY <1>3, <1>6, Zenon DEF Lists
<1>10. \A u \in Tasks : pc'[u] = "leave" => "SUSPEND" \notin task_status'[u]
  BY <1>5, Zenon DEF Lists, SamePlaces
<1>11. Lists'
  BY <1>7, <1>8, <1>9, <1>10, Zenon DEF Lists
<1>. QED
  BY <1>1, <1>4, <1>5, <1>6, <1>11, Zenon

(* dos_queue_create establishes the invariant.                             *)
LEMMA InitList == Init => ListInv
<1> SUFFICES ASSUME Init PROVE ListInv
  BY Zenon
<1>1. usage \in Usages /\ usage.len \in Nat /\ usage.len > 0 /\ MsgIds \in Nat /\ MsgIds > 0
  BY UseFacts, Zenon DEF Init
<1>2. TypeOK
  <2>1. 0 \in Counts /\ usage.len \in Counts /\ 0 \in 0 .. usage.len - 1
    BY <1>1, CountFacts
  <2>5. rw_count \in [Ops -> Counts] /\ reg \in [Tasks -> Counts]
    BY <2>1, Zenon DEF Init
  <2>6. rw_ptr \in [Ops -> 0 .. usage.len - 1]
    BY <2>1, Zenon DEF Init
  <2>2. buf \in [0 .. usage.len - 1 -> 0 .. MsgIds - 1] /\ 0 \in 0 .. MsgIds - 1
    BY <1>1 DEF Init
  <2>3. pend_list \in [Ops -> Seq(Tasks)] /\ op \in [Tasks -> Ops]
    BY DEF Init, Ops
  <2>4. task_status \in [Tasks -> SUBSET StatusBits]
    BY Zenon DEF Init, StatusBits
  <2>. QED
    BY <1>1, <2>2, <2>3, <2>4, <2>5, <2>6, Zenon DEF Init, TypeOK
<1>3. \A o \in Ops : IsInjective(pend_list[o]) /\ Range(pend_list[o]) = {}
  BY DEF Init, IsInjective, Range
<1>4. Lists
  BY <1>3, Zenon DEF Init, Lists
<1>5. Deletes
  BY Zenon DEF Init, Deletes
<1>. QED
  BY <1>2, <1>4, <1>5, Zenon DEF ListInv

(* The first critical section with a token.                                *)
LEMMA EnterTokenList ==
  ASSUME ListInv, NEW t \in Tasks, NEW o \in Ops, NEW wait, Enter(t, o, wait), HasToken(o)
  PROVE  ListInv'
<1>1. /\ TypeOK /\ Lists /\ Deletes /\ pc[t] = "app"
      /\ op' = [op EXCEPT ![t] = o] /\ pc' = [pc EXCEPT ![t] = "copy"]
      /\ rw_count' = [rw_count EXCEPT ![o] = rw_count[o] - 1] /\ rw_count[o] # 0
      /\ UNCHANGED <<task_status, pend_list, rw_ptr, buf, sent, got, reg, live, fault, usage>>
  BY Zenon DEF ListInv, Enter, At, HasToken, ghosts, rest
<1>2. rw_count[o] - 1 \in Counts
  BY <1>1, CountFacts, Zenon DEF TypeOK
<1>3. TypeOK'
  BY <1>1, <1>2, Zenon DEF TypeOK
<1>4. SamePlaces
  BY <1>1, Zenon DEF TypeOK, SamePlaces
<1>5. Lists'
  BY <1>1, <1>4, ListsKept, Zenon
<1>6. Deletes'
  BY <1>1, DeletesKept, Zenon DEF TypeOK
<1>. QED
  BY <1>3, <1>5, <1>6, Zenon DEF ListInv

(* The first critical section without one: dos_task_wait.                  *)
LEMMA EnterWaitList ==
  ASSUME ListInv, NEW t \in Tasks, NEW o \in Ops, NEW wait, Enter(t, o, wait), ~HasToken(o)
  PROVE  ListInv'
<1> DEFINE new == InsertItem(pend_list[o], BasePrio, t)
           st == Blocked(task_status[t], wait = "forever")
<1>1. /\ TypeOK /\ Lists /\ Deletes /\ pc[t] = "app" /\ live /\ Runs(t, task_status, BasePrio)
      /\ op' = [op EXCEPT ![t] = o] /\ pc' = [pc EXCEPT ![t] = "pend"]
      /\ task_status' = [task_status EXCEPT ![t] = st]
      /\ pend_list' = [pend_list EXCEPT ![o] = new]
      /\ UNCHANGED <<rw_count, rw_ptr, buf, sent, got, reg, live, fault, usage>>
  BY Zenon DEF ListInv, Enter, At, Running, ghosts, rest
<1>2. /\ "SUSPEND" \notin task_status[t] /\ \A p \in Ops : t \notin Range(pend_list[p])
      /\ pend_list[o] \in Seq(Tasks) /\ IsInjective(pend_list[o]) /\ Values(BasePrio, Tasks)
  BY <1>1, Outside, UseFacts, Zenon DEF TypeOK, Lists
<1>3. new \in Seq(Tasks) /\ IsInjective(new) /\ Range(new) = Range(pend_list[o]) \cup {t}
  BY <1>2, InsertItemProps
<1>4. st \in SUBSET StatusBits /\ "SUSPEND" \in st /\ "READY" \notin st
  BY <1>1, Zenon DEF TypeOK, Blocked, StatusBits
<1> HIDE DEF new, st
<1>5. TypeOK'
  BY <1>1, <1>3, <1>4, Zenon DEF TypeOK
<1>6. /\ op'[t] = o /\ pc'[t] = "pend" /\ task_status'[t] = st
      /\ \A u \in Tasks : u # t => op'[u] = op[u] /\ pc'[u] = pc[u] /\ task_status'[u] = task_status[u]
      /\ pend_list'[o] = new /\ \A p \in Ops : p # o => pend_list'[p] = pend_list[p]
  BY <1>1, Zenon DEF TypeOK
<1>7. Lists'
  <2>1. \A p \in Ops : IsInjective(pend_list'[p])
    BY <1>1, <1>3, <1>6, Zenon DEF Lists
  <2>2. ASSUME NEW p \in Ops, NEW u \in Tasks, u \in Range(pend_list'[p]) PROVE Listed(u, p)'
    <3>1. CASE u = t
      BY <3>1, <2>2, <1>2, <1>4, <1>6, Zenon DEF Listed
    <3>2. CASE u # t
      BY <3>2, <2>2, <1>1, <1>3, <1>6 DEF Lists, Listed
    <3>. QED
      BY <3>1, <3>2, Zenon
  <2>3. ASSUME NEW u \in Tasks, "SUSPEND" \in task_status'[u] PROVE u \in Range(pend_list'[op'[u]])
    <3>1. CASE u = t
      BY <3>1, <1>3, <1>6, Zenon
    <3>2. CASE u # t
      <4>1. u \in Range(pend_list[op[u]]) /\ op[u] \in Ops
        BY <3>2, <2>3, <1>1, <1>6, Zenon DEF Lists, TypeOK
      <4>. QED
        BY <4>1, <3>2, <1>3, <1>6
    <3>. QED
      BY <3>1, <3>2, Zenon
  <2>4. \A u \in Tasks : pc'[u] = "leave" => "SUSPEND" \notin task_status'[u]
    BY <1>1, <1>6, Zenon DEF Lists
  <2>. QED
    BY <2>1, <2>2, <2>3, <2>4, Zenon DEF Lists
<1>8. Deletes'
  <2>1. ASSUME TopDeletes, NEW u \in Tasks, pc[u] = "delete" PROVE FALSE
    <3>1. u # t /\ "READY" \in task_status[u] /\ Top(u)
      BY <2>1, <1>1, Zenon DEF Deletes, TopDeletes
    <3>2. BasePrio[t] <= BasePrio[u] /\ BasePrio[u] < BasePrio[t]
      BY <3>1, <1>1, Zenon DEF Runs, Top, TypeOK
    <3>3. BasePrio[t] \in Nat /\ BasePrio[u] \in Nat
      BY QueueAssumption, Zenon
    <3>. QED
      BY <3>2, <3>3
  <2>. QED
    BY <2>1, <1>1, <1>6, Zenon DEF Deletes, TopDeletes
<1>. QED
  BY <1>5, <1>7, <1>8, Zenon DEF ListInv

(* The task resumes from its wait.                                         *)
LEMMA ResumeList ==
  ASSUME ListInv, NEW t \in Tasks, Resume(t)
  PROVE  ListInv'
<1>1. /\ TypeOK /\ Lists /\ Deletes /\ pc[t] = "pend" /\ "READY" \in task_status[t]
      /\ UNCHANGED <<rw_count, rw_ptr, buf, pend_list, sent, got, op, reg, live, fault, usage>>
  BY Zenon DEF ListInv, Resume, At, Running, Runs, queueVars, ghosts, rest
<1>2. CASE GaveUp(task_status[t])
  <2>1. /\ task_status' = [task_status EXCEPT ![t] = Resumed(task_status[t])]
        /\ pc' = [pc EXCEPT ![t] = "leave"]
    BY <1>2, Zenon DEF Resume
  <2>2. /\ Resumed(task_status[t]) \in SUBSET StatusBits
        /\ "SUSPEND" \notin Resumed(task_status[t])
    BY <1>1, Zenon DEF TypeOK, Resumed, StatusBits
  <2>3. TypeOK'
    BY <1>1, <2>1, <2>2, Zenon DEF TypeOK
  <2>4. /\ pc'[t] = "leave" /\ "SUSPEND" \notin task_status'[t]
        /\ \A u \in Tasks : u # t => pc'[u] = pc[u] /\ task_status'[u] = task_status[u]
    BY <1>1, <2>1, <2>2, Zenon DEF TypeOK
  <2>5. Lists'
    BY <1>1, <2>4 DEF Lists, Listed
  <2>6. Deletes'
    BY <1>1, <2>4, DeletesKept, Zenon
  <2>. QED
    BY <2>3, <2>5, <2>6, Zenon DEF ListInv
<1>3. CASE ~GaveUp(task_status[t])
  <2>1. pc' = [pc EXCEPT ![t] = "copy"] /\ UNCHANGED task_status
    BY <1>3, Zenon DEF Resume
  <2>2. \A o \in Ops : t \notin Range(pend_list[o])
    BY <1>1, <1>3, Zenon DEF Lists, Listed, GaveUp
  <2>3. /\ pc'[t] = "copy" /\ \A u \in Tasks : u # t => pc'[u] = pc[u]
    BY <1>1, <2>1, Zenon DEF TypeOK
  <2>4. TypeOK'
    BY <1>1, <2>1, Zenon DEF TypeOK
  <2>5. Lists'
    BY <1>1, <2>1, <2>2, <2>3 DEF Lists, Listed
  <2>6. Deletes'
    BY <1>1, <2>1, <2>3, DeletesKept, Zenon
  <2>. QED
    BY <2>4, <2>5, <2>6, Zenon DEF ListInv
<1>. QED
  BY <1>2, <1>3, Zenon

(* The task leaves the pend list.                                          *)
LEMMA LeaveList ==
  ASSUME ListInv, NEW t \in Tasks, Leave(t)
  PROVE  ListInv'
<1>1. PICK o \in Ops : op[t] = o
  BY Zenon DEF ListInv, TypeOK
<1> DEFINE new == DeleteItem(pend_list[o], t)
<1>2. /\ TypeOK /\ Lists /\ Deletes /\ pc[t] = "leave"
      /\ pend_list' = [pend_list EXCEPT ![o] = new] /\ pc' = [pc EXCEPT ![t] = "app"]
      /\ UNCHANGED <<rw_count, rw_ptr, buf, sent, got, task_status, op, reg, live, fault, usage>>
  BY <1>1, Zenon DEF ListInv, Leave, At, LeftList, ghosts, rest
<1>3. /\ pend_list[o] \in Seq(Tasks)
      /\ new \in Seq(Tasks) /\ IsInjective(new) /\ Range(new) = Range(pend_list[o]) \ {t}
  BY <1>2, DeleteItemProps DEF TypeOK, Lists
<1>4. ASSUME pend_list[o] = << >> PROVE new = << >>
  <2>1. Range(pend_list[o]) = {}
    BY <1>3, <1>4, EmptyItems, Zenon
  <2>2. Range(new) = {}
    BY <2>1, <1>3, Zenon
  <2> HIDE DEF new
  <2>. QED
    BY <2>2, <1>3, EmptyItems
<1> HIDE DEF new
<1>5. TypeOK'
  BY <1>2, <1>3, Zenon DEF TypeOK
<1>6. /\ pc'[t] = "app" /\ \A u \in Tasks : u # t => pc'[u] = pc[u]
      /\ pend_list'[o] = new /\ \A p \in Ops : p # o => pend_list'[p] = pend_list[p]
  BY <1>2, Zenon DEF TypeOK
<1>7. Lists'
  <2>1. \A p \in Ops : IsInjective(pend_list'[p])
    BY <1>2, <1>3, <1>6, Zenon DEF Lists
  <2>2. ASSUME NEW p \in Ops, NEW u \in Tasks, u \in Range(pend_list'[p]) PROVE Listed(u, p)'
    <3>1. u # t /\ Listed(u, p)
      BY <2>2, <1>1, <1>2, <1>3, <1>6 DEF Lists, Listed
    <3>. QED
      BY <3>1, <1>2, <1>6, Zenon DEF Listed
  <2>3. ASSUME NEW u \in Tasks, "SUSPEND" \in task_status[u] PROVE u \in Range(pend_list'[op[u]])
    <3>1. u # t /\ u \in Range(pend_list[op[u]]) /\ op[u] \in Ops
      BY <2>3, <1>2, Zenon DEF Lists, TypeOK
    <3>. QED
      BY <3>1, <1>3, <1>6, Zenon
  <2>4. \A u \in Tasks : pc'[u] = "leave" => "SUSPEND" \notin task_status[u]
    BY <1>2, <1>6, Zenon DEF Lists
  <2>. QED
    BY <2>1, <2>2, <2>3, <2>4, <1>2, Zenon DEF Lists
<1>8. Deletes'
  BY <1>2, <1>4, <1>6, DeletesKept, Zenon
<1>. QED
  BY <1>5, <1>7, <1>8, Zenon DEF ListInv

(* _dos_queue_copy.                                                        *)
LEMMA CopyTypes ==
  ASSUME TypeOK, NEW o \in Ops, CopyMessage(o)
  PROVE  /\ rw_ptr' \in [Ops -> 0 .. usage.len - 1] /\ buf' \in [0 .. usage.len - 1 -> 0 .. MsgIds - 1]
         /\ sent' \in 0 .. MsgIds - 1 /\ got' \in 0 .. MsgIds - 1
<1>1. /\ usage.len \in Nat /\ usage.len > 0 /\ MsgIds \in Nat /\ MsgIds > 0
      /\ rw_ptr[o] \in 0 .. usage.len - 1 /\ sent \in 0 .. MsgIds - 1 /\ got \in 0 .. MsgIds - 1
  BY UseFacts, Zenon DEF TypeOK
<1>2. NextPlace(rw_ptr[o]) \in 0 .. usage.len - 1
  BY <1>1, Remainder DEF NextPlace
<1>3. (sent + 1) % MsgIds \in 0 .. MsgIds - 1 /\ (got + 1) % MsgIds \in 0 .. MsgIds - 1
  BY <1>1, Remainder
<1>4. rw_ptr' = [rw_ptr EXCEPT ![o] = NextPlace(rw_ptr[o])]
  BY Zenon DEF CopyMessage
<1>5. CASE o = "write"
  <2>1. sent' = (sent + 1) % MsgIds /\ buf' = [buf EXCEPT ![rw_ptr[o]] = sent'] /\ got' = got
    BY <1>5, Zenon DEF CopyMessage
  <2>. QED
    BY <2>1, <1>1, <1>2, <1>3, <1>4, Zenon DEF TypeOK
<1>6. CASE o # "write"
  <2>1. got' = (got + 1) % MsgIds /\ buf' = buf /\ sent' = sent
    BY <1>6, Zenon DEF CopyMessage
  <2>. QED
    BY <2>1, <1>1, <1>2, <1>3, <1>4, Zenon DEF TypeOK
<1>. QED
  BY <1>5, <1>6, Zenon

LEMMA CopyList ==
  ASSUME ListInv, NEW t \in Tasks, Copy(t)
  PROVE  ListInv'
<1>1. /\ TypeOK /\ Lists /\ Deletes /\ pc[t] = "copy" /\ CopyMessage(op[t]) /\ op[t] \in Ops
      /\ pc' = [pc EXCEPT ![t] = "check"]
      /\ UNCHANGED <<rw_count, pend_list, task_status, op, reg, live, fault, usage>>
  BY Zenon DEF ListInv, TypeOK, Copy, At, rest
<1>2. TypeOK'
  BY <1>1, CopyTypes, Zenon DEF TypeOK
<1>3. pc'[t] = "check" /\ \A u \in Tasks : u # t => pc'[u] = pc[u]
  BY <1>1, Zenon DEF TypeOK
<1>4. Lists'
  BY <1>1, <1>3, ListsKept, Zenon DEF SamePlaces
<1>5. Deletes'
  BY <1>1, <1>3, DeletesKept, Zenon
<1>. QED
  BY <1>2, <1>4, <1>5, Zenon DEF ListInv

(* The test of the pend list, and queue_rw_count[1-op]++.                  *)
LEMMA CheckList ==
  ASSUME ListInv, NEW t \in Tasks, Check(t) \/ Load(t) \/ Store(t)
  PROVE  ListInv'
<1>1. /\ TypeOK /\ Lists /\ Deletes /\ pc[t] \in {"check", "load", "store"} /\ op[t] \in Ops
      /\ UNCHANGED <<rw_ptr, buf, pend_list, sent, got, task_status, op, live, fault, usage>>
  BY Zenon DEF ListInv, TypeOK, Check, Load, Store, At, queueVars, ghosts, rest
<1>2. PICK p \in {"load", "wake", "store", "app"} : pc' = [pc EXCEPT ![t] = p]
  BY Zenon DEF Check, Load, Store
<1>3. rw_count' \in [Ops -> Counts] /\ reg' \in [Tasks -> Counts]
  <2>1. GivesTo(op[t]) \in Ops /\ Increment(reg[t]) \in Counts /\ 0 \in Counts
    BY <1>1, OtherOp, CountFacts, Zenon DEF GivesTo, TypeOK
  <2>2. CASE Check(t)
    BY <2>2, <1>1, Zenon DEF Check, TypeOK, queueVars
  <2>3. CASE Load(t)
    BY <2>1, <2>3, <1>1, Zenon DEF Load, TypeOK, queueVars
  <2>4. CASE Store(t)
    BY <2>1, <2>4, <1>1, Zenon DEF Store, TypeOK
  <2>. QED
    BY <2>2, <2>3, <2>4, Zenon
<1>4. TypeOK'
  BY <1>1, <1>2, <1>3, Zenon DEF TypeOK
<1>5. pc'[t] = p /\ \A u \in Tasks : u # t => pc'[u] = pc[u]
  BY <1>1, <1>2, Zenon DEF TypeOK
<1>6. Lists'
  BY <1>1, <1>5, ListsKept, Zenon DEF SamePlaces
<1>7. Deletes'
  BY <1>1, <1>5, DeletesKept, Zenon
<1>. QED
  BY <1>4, <1>6, <1>7, Zenon DEF ListInv

(* The second critical section.                                            *)
LEMMA WakeList ==
  ASSUME ListInv, NEW t \in Tasks, Wake(t)
  PROVE  ListInv'
<1>1. /\ TypeOK /\ Lists /\ Deletes /\ pc[t] = "wake" /\ Other(op[t]) \in Ops
      /\ pc' = [pc EXCEPT ![t] = "app"] /\ fault' \in BOOLEAN
      /\ UNCHANGED <<rw_count, rw_ptr, buf, sent, got, op, reg, live, usage>>
  BY OtherOp, Zenon DEF ListInv, TypeOK, Wake, At, ghosts
<1>2. /\ pc'[t] = "app" /\ \A u \in Tasks : u # t => pc'[u] = pc[u]
      /\ SamePlaces
  BY <1>1, Zenon DEF TypeOK, SamePlaces
<1>3. CASE WakeFirst(Other(op[t]))
  <2>1. /\ Lists' /\ task_status' \in [Tasks -> SUBSET StatusBits]
        /\ pend_list' \in [Ops -> Seq(Tasks)]
        /\ \A p \in Ops : pend_list[p] = << >> => pend_list'[p] = << >>
        /\ \A u \in Tasks : "READY" \in task_status[u] => "READY" \in task_status'[u]
    BY <1>1, <1>2, <1>3, WakeFirstLists, Zenon
  <2>2. TypeOK'
    BY <1>1, <2>1, Zenon DEF TypeOK
  <2>3. Deletes'
    BY <1>1, <1>2, <2>1, DeletesKept, Zenon
  <2>. QED
    BY <2>1, <2>2, <2>3, Zenon DEF ListInv
<1>4. CASE UNCHANGED <<task_status, pend_list>>
  <2>1. TypeOK'
    BY <1>1, <1>4, Zenon DEF TypeOK
  <2>2. Lists' /\ Deletes'
    BY <1>1, <1>2, <1>4, ListsKept, DeletesKept, Zenon
  <2>. QED
    BY <2>1, <2>2, Zenon DEF ListInv
<1>. QED
  BY <1>3, <1>4, Zenon DEF Wake

(* The whole handler in an interrupt.                                      *)
LEMMA IsrOpList ==
  ASSUME ListInv, NEW o \in Ops, IsrOp(o)
  PROVE  ListInv'
<1>1. /\ TypeOK /\ Lists /\ Deletes /\ rw_count[o] # 0 /\ rw_count[o] \in Counts
      /\ Other(o) \in Ops /\ Other(o) # o /\ rw_count[Other(o)] \in Counts /\ CopyMessage(o)
      /\ UNCHANGED <<pc, op, reg, live, fault, usage>>
  BY OtherOp, Zenon DEF ListInv, TypeOK, IsrOp, HasToken, rest
<1>2. rw_count' \in [Ops -> Counts]
  <2>1. rw_count[o] - 1 \in Counts /\ Increment(rw_count[Other(o)]) \in Counts
    BY <1>1, CountFacts, Zenon DEF TypeOK
  <2>2. CASE NobodyWaits(Other(o))
    <3>1. rw_count' = [rw_count EXCEPT ![o] = rw_count[o] - 1, ![Other(o)] = Increment(rw_count[Other(o)])]
      BY <1>1, <2>2, Zenon DEF IsrOp, TypeOK
    <3>. QED
      BY <1>1, <2>1, <3>1, Zenon DEF TypeOK
  <2>3. CASE ~NobodyWaits(Other(o))
    <3>1. rw_count' = [rw_count EXCEPT ![o] = rw_count[o] - 1]
      BY <2>3, Zenon DEF IsrOp
    <3>. QED
      BY <1>1, <2>1, <3>1, Zenon DEF TypeOK
  <2>. QED
    BY <2>2, <2>3, Zenon
<1>3. SamePlaces
  BY <1>1, Zenon DEF SamePlaces
<1>4. WakeFirst(Other(o)) \/ UNCHANGED <<pend_list, task_status>>
  BY Zenon DEF IsrOp
<1>5. /\ Lists' /\ task_status' \in [Tasks -> SUBSET StatusBits] /\ pend_list' \in [Ops -> Seq(Tasks)]
      /\ \A p \in Ops : pend_list[p] = << >> => pend_list'[p] = << >>
      /\ \A u \in Tasks : "READY" \in task_status[u] => "READY" \in task_status'[u]
  BY <1>1, <1>3, <1>4, WakeFirstLists, ListsKept, Zenon DEF TypeOK
<1>6. TypeOK'
  BY <1>1, <1>2, <1>5, CopyTypes, Zenon DEF TypeOK
<1>7. Deletes'
  BY <1>1, <1>5, DeletesKept, Zenon
<1>. QED
  BY <1>5, <1>6, <1>7, Zenon DEF ListInv

(* A sleep, and the end of a sleep or of a timed wait.                     *)
LEMMA SleepList ==
  ASSUME ListInv, NEW t \in Tasks, Sleep(t) \/ Timeout(t)
  PROVE  ListInv'
<1>1. /\ TypeOK /\ Lists /\ Deletes
      /\ UNCHANGED <<rw_count, rw_ptr, buf, pend_list, sent, got, pc, op, reg, live, fault, usage>>
  BY Zenon DEF ListInv, Sleep, Timeout, queueVars, ghosts, rest
<1>2. PICK st \in SUBSET StatusBits :
        /\ task_status' = [task_status EXCEPT ![t] = st]
        /\ "SUSPEND" \in st <=> "SUSPEND" \in task_status[t]
        /\ ("SUSPEND" \in st /\ "READY" \in st) => "TIMEOUT" \in st
        /\ pc[t] # "app" => "READY" \in st
  <2>1. CASE Sleep(t)
    <3>1. pc[t] = "app" /\ "SUSPEND" \notin task_status[t]
      BY <2>1, <1>1, Outside, Zenon DEF Sleep
    <3>2. /\ Asleep(task_status[t]) \in SUBSET StatusBits /\ "SUSPEND" \notin Asleep(task_status[t])
      BY <3>1, <1>1, Zenon DEF Asleep, TypeOK, StatusBits
    <3>. QED
      BY <2>1, <3>1, <3>2, Zenon DEF Sleep
  <2>2. CASE Timeout(t)
    <3>1. /\ TimedOut(task_status[t]) \in SUBSET StatusBits
          /\ "SUSPEND" \in TimedOut(task_status[t]) <=> "SUSPEND" \in task_status[t]
          /\ "SUSPEND" \in task_status[t] => "TIMEOUT" \in TimedOut(task_status[t])
          /\ "READY" \in TimedOut(task_status[t])
      BY <1>1, Zenon DEF TimedOut, TypeOK, StatusBits
    <3>. QED
      BY <2>2, <3>1, Zenon DEF Timeout
  <2>. QED
    BY <2>1, <2>2, Zenon
<1>3. task_status'[t] = st /\ \A u \in Tasks : u # t => task_status'[u] = task_status[u]
  BY <1>1, <1>2, Zenon DEF TypeOK
<1>4. TypeOK'
  BY <1>1, <1>2, Zenon DEF TypeOK
<1>5. Lists'
  <2>1. ASSUME NEW o \in Ops, NEW u \in Tasks, u \in Range(pend_list[o]) PROVE Listed(u, o)'
    BY <2>1, <1>1, <1>2, <1>3, Zenon DEF Lists, Listed
  <2>2. \A u \in Tasks : "SUSPEND" \in task_status'[u] <=> "SUSPEND" \in task_status[u]
    BY <1>2, <1>3, Zenon
  <2>. QED
    BY <2>1, <2>2, <1>1, Zenon DEF Lists
<1>6. Deletes'
  BY <1>1, <1>2, <1>3, DeletesKept, Zenon
<1>. QED
  BY <1>4, <1>5, <1>6, Zenon DEF ListInv

(* dos_queue_delete, and the use of a queue that is gone.                  *)
LEMMA DeleteList ==
  ASSUME ListInv, NEW t \in Tasks, Delete(t) \/ DeleteFree(t) \/ UseFreed(t)
  PROVE  ListInv'
<1>1. /\ TypeOK /\ Lists /\ Deletes /\ "READY" \in task_status[t]
      /\ UNCHANGED <<buf, pend_list, sent, got, task_status, op, reg, usage>>
  BY Zenon DEF ListInv, Delete, DeleteFree, UseFreed, At, Running, Runs, queueVars, ghosts, rest
<1>2. CASE Delete(t)
  <2>1. /\ pc[t] = "app" /\ t \in usage.deleters /\ \A o \in Ops : pend_list[o] = << >>
        /\ pc' = [pc EXCEPT ![t] = "delete"]
        /\ UNCHANGED <<rw_count, rw_ptr, live, fault>>
    BY <1>2, Zenon DEF Delete, At, NobodyWaits, queueVars, rest
  <2>2. TypeOK'
    BY <1>1, <2>1, Zenon DEF TypeOK
  <2>3. pc'[t] = "delete" /\ \A u \in Tasks : u # t => pc'[u] = pc[u]
    BY <1>1, <2>1, Zenon DEF TypeOK
  <2>4. Lists'
    BY <1>1, <2>1, <2>3, ListsKept, Zenon DEF SamePlaces
  <2>5. Deletes'
    BY <1>1, <2>1, <2>3, Zenon DEF Deletes, TopDeletes
  <2>. QED
    BY <2>2, <2>4, <2>5, Zenon DEF ListInv
<1>3. CASE DeleteFree(t)
  <2>1. /\ pc[t] = "delete" /\ pc' = [pc EXCEPT ![t] = "app"] /\ live' = FALSE
        /\ rw_count' = [o \in Ops |-> 0] /\ rw_ptr' = [o \in Ops |-> 0] /\ fault' = fault
    BY <1>3, Zenon DEF DeleteFree, At
  <2>2. TypeOK'
    <3>1. 0 \in 0 .. usage.len - 1
      BY <1>1, UseFacts DEF TypeOK
    <3>2. rw_ptr' \in [Ops -> 0 .. usage.len - 1] /\ rw_count' \in [Ops -> Counts]
      BY <1>1, <2>1, <3>1, CountFacts, Zenon DEF TypeOK
    <3>. QED
      BY <1>1, <2>1, <3>2, Zenon DEF TypeOK
  <2>3. pc'[t] = "app" /\ \A u \in Tasks : u # t => pc'[u] = pc[u]
    BY <1>1, <2>1, Zenon DEF TypeOK
  <2>4. Lists'
    BY <1>1, <2>1, <2>3, ListsKept, Zenon DEF SamePlaces
  <2>5. Deletes'
    BY <1>1, <2>1, <2>3, Zenon DEF Deletes, TopDeletes
  <2>. QED
    BY <2>2, <2>4, <2>5, Zenon DEF ListInv
<1>4. CASE UseFreed(t)
  <2>1. fault' = TRUE /\ UNCHANGED <<rw_count, rw_ptr, pc, live>>
    BY <1>4, Zenon DEF UseFreed, queueVars
  <2>2. TypeOK'
    BY <1>1, <2>1, Zenon DEF TypeOK
  <2>3. Lists' /\ Deletes'
    BY <1>1, <2>1, ListsKept, DeletesKept, Zenon DEF SamePlaces
  <2>. QED
    BY <2>2, <2>3, Zenon DEF ListInv
<1>. QED
  BY <1>2, <1>3, <1>4, Zenon

(* The steps of the specification, one by one.                             *)
LEMMA Steps ==
  ASSUME [Next]_vars
  PROVE  \/ UNCHANGED vars
         \/ \E o \in Ops : IsrOp(o)
         \/ \E t \in Tasks :
              \/ \E o \in Ops, wait \in usage.waits : Enter(t, o, wait)
              \/ Resume(t) \/ Leave(t) \/ Copy(t) \/ Wake(t)
              \/ Check(t) \/ Load(t) \/ Store(t)
              \/ Sleep(t) \/ Timeout(t)
              \/ Delete(t) \/ DeleteFree(t) \/ UseFreed(t)
<1>1. "read" \in Ops /\ "write" \in Ops
  BY Zenon DEF Ops
<1>. QED
  BY <1>1, Zenon DEF Next, Inside

(* Every step keeps the invariant of the lists.                            *)
LEMMA StepList ==
  ASSUME ListInv, [Next]_vars
  PROVE  ListInv'
<1>1. CASE UNCHANGED vars
  BY <1>1, Zenon DEF vars, queueVars, ghosts, rest, ListInv, TypeOK, Lists, Listed, Deletes, TopDeletes, Top
<1>2. ASSUME NEW t \in Tasks, NEW o \in Ops, NEW wait, Enter(t, o, wait) PROVE ListInv'
  BY <1>2, EnterTokenList, EnterWaitList, Zenon
<1>. QED
  BY <1>1, <1>2, Steps, ResumeList, LeaveList, CopyList, WakeList, CheckList, IsrOpList,
     SleepList, DeleteList, Zenon

(* usage is chosen once.                                                   *)
LEMMA UsageKept ==
  ASSUME [Next]_vars
  PROVE  UNCHANGED usage
<1>1. ASSUME NEW t \in Tasks, NEW o \in Ops, NEW wait, Enter(t, o, wait) PROVE UNCHANGED usage
  BY <1>1, Zenon DEF Enter, rest
<1>2. ASSUME NEW o \in Ops, IsrOp(o) PROVE UNCHANGED usage
  BY <1>2, Zenon DEF IsrOp, rest
<1>3. ASSUME NEW t \in Tasks,
             \/ Resume(t) \/ Leave(t) \/ Copy(t) \/ Wake(t) \/ Check(t) \/ Load(t) \/ Store(t)
             \/ Sleep(t) \/ Timeout(t) \/ Delete(t) \/ DeleteFree(t) \/ UseFreed(t)
      PROVE  UNCHANGED usage
  BY <1>3, Zenon DEF Resume, Leave, Copy, Wake, Check, Load, Store, Sleep, Timeout, Delete, DeleteFree,
              UseFreed, rest
<1>. QED
  BY <1>1, <1>2, <1>3, Steps, Zenon DEF vars, rest

(* _dos_queue_handler keeps the pend lists right whatever preempts it, for *)
(* any tasks, lengths, timeouts, sleeps and interrupts, and a queue that   *)
(* the highest task has freed has no waiters.                              *)
THEOREM ListsWaiters == Spec => []WaitersListed
<1>1. ListInv => WaitersListed
  <2> SUFFICES ASSUME ListInv PROVE WaitersListed
    BY Zenon
  <2>1. ASSUME NEW o \in Ops, NEW t \in Range(pend_list[o]) PROVE op[t] = o /\ pc[t] \in {"pend", "leave"}
    <3>1. t \in Tasks
      BY EmptyItems, Zenon DEF ListInv, TypeOK
    <3>. QED
      BY <3>1, Zenon DEF ListInv, Lists, Listed
  <2>. QED
    BY <2>1, Zenon DEF WaitersListed, ListInv, Lists, Deletes, TopDeletes
<1>2. ListInv /\ [Next]_vars => ListInv'
  BY StepList, Zenon
<1>. QED
  BY <1>1, <1>2, InitList, PTL DEF Spec

-----------------------------------------------------------------------------
(* Where tasks take turns, only the running task is in the middle of a     *)
(* call.                                                                   *)
LEMMA Alone ==
  ASSUME TypeOK, TakeTurns, Turns, NEW t \in Tasks, Running(t)
  PROVE  /\ task_status[t] = {"READY"}
         /\ \A u \in Tasks \ {t} : ~Mid(u)
<1>1. task_status[t] = {"READY"} /\ Runs(t, task_status, BasePrio)
  BY Zenon DEF Running, Runs, Turns
<1>2. ASSUME NEW u \in Tasks \ {t}, Mid(u) PROVE FALSE
  <2>1. Runs(u, task_status, BasePrio)
    BY <1>2, Zenon DEF Turns
  <2>2. BasePrio[u] <= BasePrio[t] /\ BasePrio[t] <= BasePrio[u]
    BY <1>1, <2>1, Zenon DEF Runs, TypeOK
  <2>3. BasePrio[u] = BasePrio[t]
    BY <2>2, QueueAssumption
  <2>. QED
    BY <2>3, <1>2, Zenon DEF TakeTurns
<1>. QED
  BY <1>1, <1>2, Zenon

(* A step of the running task that leaves the status bits alone.           *)
LEMMA TurnsKept ==
  ASSUME TypeOK, TakeTurns, Turns, NEW t \in Tasks, Running(t),
         UNCHANGED <<task_status, live, fault, usage>>,
         \A u \in Tasks \ {t} : pc'[u] = pc[u],
         pc'[t] # "leave", pc'[t] = "delete" => usage.deleters # {}
  PROVE  Turns'
<1>1. \A u \in Tasks : Mid(u)' => u = t
  BY Alone, Zenon DEF Mid
<1>2. Runs(t, task_status, BasePrio)
  BY Zenon DEF Running
<1>. QED
  BY <1>1, <1>2, Zenon DEF Turns

(* Where no message is copied, the ring is as it was.                      *)
LEMMA RingKept ==
  ASSUME Ring, UNCHANGED <<rw_ptr, buf, sent, got, usage>>
  PROVE  Ring' /\ Stored' = Stored /\ \A o \in Ops : Avail(o)' = Avail(o)
BY Zenon DEF Ring, Stored, Avail

(* Counting the tasks that are owed a token.                               *)
LEMMA OwedCount ==
  ASSUME TypeOK, NEW o \in Ops
  PROVE  /\ IsFiniteSet(Owed(o)) /\ Cardinality(Owed(o)) \in Nat
         /\ \A t \in Tasks : t \notin Owed(o) =>
              /\ IsFiniteSet(Owed(o) \cup {t})
              /\ Cardinality(Owed(o) \cup {t}) = Cardinality(Owed(o)) + 1
         /\ \A t \in Owed(o) : /\ Cardinality(Owed(o) \ {t}) = Cardinality(Owed(o)) - 1
                               /\ Cardinality(Owed(o)) > 0
<1>1. IsFiniteSet(Owed(o))
  BY FS_Subset, UseFacts, Zenon DEF Owed, TypeOK
<1>2. Cardinality(Owed(o)) \in Nat
  BY <1>1, FS_CardinalityType, Zenon
<1>3. ASSUME NEW t \in Owed(o) PROVE Cardinality(Owed(o) \ {t}) = Cardinality(Owed(o)) - 1 /\ Cardinality(Owed(o)) > 0
  <2>1. IsFiniteSet(Owed(o) \ {t}) /\ Cardinality(Owed(o) \ {t}) = Cardinality(Owed(o)) - 1
    BY <1>1, <1>3, FS_RemoveElement, Zenon
  <2>2. Cardinality(Owed(o) \ {t}) \in Nat
    BY <2>1, FS_CardinalityType, Zenon
  <2>. QED
    BY <1>2, <2>1, <2>2
<1>4. ASSUME NEW t \in Tasks, t \notin Owed(o)
      PROVE  IsFiniteSet(Owed(o) \cup {t}) /\ Cardinality(Owed(o) \cup {t}) = Cardinality(Owed(o)) + 1
  BY <1>1, <1>4, FS_AddElement, Zenon
<1>. QED
  BY <1>1, <1>2, <1>3, <1>4, Zenon

(* The number of messages in the queue, by the numbers of the last ones.   *)
LEMMA StoredCount ==
  ASSUME TypeOK
  PROVE  /\ Stored = IF sent >= got THEN sent - got ELSE sent - got + MsgIds
         /\ Stored \in 0 .. MsgIds - 1 /\ (Stored = 0 <=> sent = got)
<1>1. MsgIds \in Nat /\ MsgIds > 0 /\ sent \in 0 .. MsgIds - 1 /\ got \in 0 .. MsgIds - 1
  BY UseFacts, Zenon DEF TypeOK
<1>2. CASE sent >= got
  <2>1. sent - got + MsgIds \in MsgIds .. 2 * MsgIds - 1
    BY <1>1, <1>2
  <2>2. Stored = sent - got + MsgIds - MsgIds
    BY <1>1, <2>1, Remainder DEF Stored
  <2>. QED
    BY <1>1, <1>2, <2>2
<1>3. CASE ~(sent >= got)
  <2>1. sent - got + MsgIds \in 0 .. MsgIds - 1
    BY <1>1, <1>3
  <2>2. Stored = sent - got + MsgIds
    BY <1>1, <2>1, Remainder DEF Stored
  <2>. QED
    BY <1>1, <1>3, <2>2
<1>. QED
  BY <1>2, <1>3, Zenon

(* A token that is counted or owed is a message, or a free place.          *)
LEMMA StoredFits ==
  ASSUME TypeOK, Tokens
  PROVE  /\ Stored \in 0 .. usage.len
         /\ \A o \in Ops : /\ Avail(o) \in 0 .. usage.len
                           /\ \A t \in Owed(o) : Avail(o) > 0
                           /\ Avail(Other(o)) = usage.len - Avail(o)
<1>1. /\ usage.len \in Nat /\ Stored \in Nat
      /\ \A o \in Ops : rw_count[o] \in Nat /\ Cardinality(Owed(o)) \in Nat
  <2>1. usage.len \in Nat /\ MsgIds \in Nat /\ Stored \in 0 .. MsgIds - 1
    BY UseFacts, StoredCount, Zenon DEF TypeOK
  <2>2. \A o \in Ops : rw_count[o] \in Nat
    BY CountFacts, Zenon DEF TypeOK
  <2>. QED
    BY <2>1, <2>2, OwedCount
<1>2. Stored <= usage.len
  <2>1. Avail("write") = usage.len - Stored /\ "write" \in Ops
    BY Zenon DEF Avail, Ops
  <2>2. Avail("write") >= 0
    BY <2>1, <1>1 DEF Tokens
  <2>. QED
    BY <2>1, <2>2, <1>1
<1>3. ASSUME NEW o \in Ops
      PROVE  Avail(o) \in 0 .. usage.len /\ Avail(Other(o)) = usage.len - Avail(o)
  BY <1>1, <1>2 DEF Avail, Ops, Other
<1>4. ASSUME NEW o \in Ops, NEW t \in Owed(o) PROVE Avail(o) > 0
  <2>1. Cardinality(Owed(o)) > 0 /\ rw_count[o] + Cardinality(Owed(o)) = Avail(o)
    BY OwedCount, <1>4, Zenon DEF Tokens
  <2>. QED
    BY <2>1, <1>1, <1>3
<1>. QED
  BY <1>1, <1>2, <1>3, <1>4

(* What the step of the running task means for the tokens it does not      *)
(* touch: nobody else is in the middle of a call.                          *)
LEMMA TokensKept ==
  ASSUME TypeOK, Tokens, Ring, NEW t \in Tasks, \A u \in Tasks \ {t} : ~Mid(u),
         UNCHANGED <<rw_count, pend_list, rw_ptr, buf, sent, got, task_status, op, usage>>,
         \A u \in Tasks \ {t} : pc'[u] = pc[u],
         \A o \in Ops : t \in Owed(o)' <=> t \in Owed(o),
         /\ pc'[t] = "wake" => pend_list[Other(op[t])] # << >>
         /\ pc'[t] \in {"load", "store"} => pend_list[Other(op[t])] = << >>
         /\ pc'[t] = "store" => reg'[t] = rw_count[Other(op[t])]
  PROVE  Tokens' /\ Ring'
<1>1. Ring' /\ \A o \in Ops : Avail(o)' = Avail(o)
  BY RingKept, Zenon
<1>2. ASSUME NEW o \in Ops PROVE Owed(o)' = Owed(o)
  <2>1. \A u \in Tasks \ {t} : u \in Owed(o)' <=> u \in Owed(o)
    BY Zenon DEF Owed
  <2>2. Owed(o) \subseteq Tasks /\ Owed(o)' \subseteq Tasks
    BY Zenon DEF Owed
  <2>. QED
    BY <2>1, <2>2
<1>3. \A u \in Tasks : pc'[u] \in {"wake", "load", "store"} => u = t
  BY Zenon DEF Mid
<1>. QED
  BY <1>1, <1>2, <1>3, Zenon DEF Tokens

(* The first critical section with a token.                                *)
LEMMA EnterTokenTurn ==
  ASSUME ListInv, TakeTurns, Turns, live => Tokens /\ Ring,
         NEW t \in Tasks, NEW o \in Ops, NEW wait, Enter(t, o, wait), HasToken(o)
  PROVE  Turns' /\ Tokens' /\ Ring'
<1>1. /\ TypeOK /\ Tokens /\ Ring /\ pc[t] = "app" /\ Running(t)
      /\ op' = [op EXCEPT ![t] = o] /\ pc' = [pc EXCEPT ![t] = "copy"]
      /\ rw_count' = [rw_count EXCEPT ![o] = rw_count[o] - 1] /\ rw_count[o] # 0
      /\ UNCHANGED <<task_status, pend_list, rw_ptr, buf, sent, got, reg, live, fault, usage>>
  BY Zenon DEF ListInv, Enter, At, HasToken, ghosts, rest
<1>2. /\ pc'[t] = "copy" /\ op'[t] = o
      /\ \A u \in Tasks \ {t} : pc'[u] = pc[u] /\ op'[u] = op[u]
      /\ rw_count'[o] = rw_count[o] - 1 /\ \A p \in Ops : p # o => rw_count'[p] = rw_count[p]
  BY <1>1, Zenon DEF TypeOK
<1>3. Turns'
  BY <1>1, <1>2, TurnsKept, Zenon
<1>4. \A u \in Tasks \ {t} : ~Mid(u)
  BY <1>1, Alone, Zenon
<1>5. Ring' /\ \A p \in Ops : Avail(p)' = Avail(p)
  BY <1>1, RingKept, Zenon
<1>6. t \notin Owed(o) /\ Owed(o)' = Owed(o) \cup {t} /\ Owed(Other(o))' = Owed(Other(o))
  BY <1>1, <1>2, OtherOp, SMTT(20) DEF Owed
<1>7. ASSUME NEW p \in Ops PROVE rw_count'[p] + Cardinality(Owed(p)') = Avail(p)'
  <2>1. CASE p = o
    <3>1. rw_count[o] \in Nat /\ Cardinality(Owed(o)) \in Nat
      BY <1>1, OwedCount, CountFacts, Zenon DEF TypeOK
    <3>2. Cardinality(Owed(o)') = Cardinality(Owed(o)) + 1
      BY <1>1, <1>6, OwedCount, Zenon
    <3>3. rw_count[o] + Cardinality(Owed(o)) = Avail(o)
      BY <1>1, Zenon DEF Tokens
    <3>. QED
      BY <2>1, <3>1, <3>2, <3>3, <1>2, <1>5
  <2>2. CASE p = Other(o)
    BY <2>2, <1>1, <1>2, <1>5, <1>6, OtherOp, SMTT(20) DEF Tokens
  <2>. QED
    BY <2>1, <2>2, OtherOp, Zenon
<1>8. Tokens'
  BY <1>1, <1>2, <1>4, <1>7, SMTT(20) DEF Tokens, Mid
<1>. QED
  BY <1>3, <1>5, <1>8, Zenon

(* The first critical section without one.                                 *)
LEMMA EnterWaitTurn ==
  ASSUME ListInv, TakeTurns, Turns, live => Tokens /\ Ring,
         NEW t \in Tasks, NEW o \in Ops, NEW wait \in usage.waits, Enter(t, o, wait), ~HasToken(o)
  PROVE  Turns' /\ Tokens' /\ Ring'
<1>1. /\ TypeOK /\ Tokens /\ Ring /\ pc[t] = "app" /\ Running(t) /\ wait # "try" /\ rw_count[o] = 0
      /\ op' = [op EXCEPT ![t] = o] /\ pc' = [pc EXCEPT ![t] = "pend"]
      /\ task_status' = [task_status EXCEPT ![t] = Blocked(task_status[t], wait = "forever")]
      /\ pend_list' = [pend_list EXCEPT ![o] = InsertItem(pend_list[o], BasePrio, t)]
      /\ UNCHANGED <<rw_count, rw_ptr, buf, sent, got, reg, live, fault, usage>>
  BY Zenon DEF ListInv, Enter, At, HasToken, ghosts, rest
<1>2. wait = "forever"
  <2>1. usage \in UsageType
    BY <1>1, QueueAssumption, Zenon DEF TypeOK
  <2>. QED
    BY <2>1, <1>1, Zenon DEF UsageType, TakeTurns
<1>3. task_status[t] = {"READY"} /\ \A u \in Tasks \ {t} : ~Mid(u)
  BY <1>1, Alone, Zenon
<1>4. Blocked({"READY"}, TRUE) = {"SUSPEND"}
  BY Zenon DEF Blocked
<1>5. /\ pc'[t] = "pend" /\ op'[t] = o /\ task_status'[t] = {"SUSPEND"}
      /\ \A u \in Tasks \ {t} : pc'[u] = pc[u] /\ op'[u] = op[u] /\ task_status'[u] = task_status[u]
      /\ \A p \in Ops : p # o => pend_list'[p] = pend_list[p]
  BY <1>1, <1>2, <1>3, <1>4, Zenon DEF TypeOK
<1>6. \A u \in Tasks : ~Mid(u)'
  BY <1>3, <1>5, Zenon DEF Mid
<1>7. Turns'
  BY <1>1, <1>5, <1>6, Zenon DEF Turns, Mid
<1>8. Ring' /\ \A p \in Ops : Avail(p)' = Avail(p)
  BY <1>1, RingKept, Zenon
<1>9. \A p \in Ops : Owed(p)' = Owed(p)
  BY <1>1, <1>5 DEF Owed
<1>10. \A p \in Ops : pend_list'[p] # << >> => rw_count'[p] = 0
  BY <1>1, <1>5, Zenon DEF Tokens
<1>11. Tokens'
  BY <1>1, <1>6, <1>8, <1>9, <1>10, Zenon DEF Tokens, Mid
<1>. QED
  BY <1>7, <1>8, <1>11, Zenon

(* The task resumes with its token.                                        *)
LEMMA ResumeTurn ==
  ASSUME ListInv, TakeTurns, Turns, live => Tokens /\ Ring, NEW t \in Tasks, Resume(t)
  PROVE  Turns' /\ Tokens' /\ Ring'
<1>1. /\ TypeOK /\ Tokens /\ Ring /\ pc[t] = "pend" /\ Running(t)
      /\ UNCHANGED <<rw_count, rw_ptr, buf, pend_list, sent, got, op, reg, live, fault, usage>>
  BY Zenon DEF ListInv, Resume, At, queueVars, ghosts, rest
<1>2. task_status[t] = {"READY"} /\ \A u \in Tasks \ {t} : ~Mid(u)
  BY <1>1, Alone, Zenon
<1>3. pc' = [pc EXCEPT ![t] = "copy"] /\ UNCHANGED task_status
  BY <1>2, Zenon DEF Resume, GaveUp
<1>4. pc'[t] = "copy" /\ \A u \in Tasks \ {t} : pc'[u] = pc[u]
  BY <1>1, <1>3, Zenon DEF TypeOK
<1>5. Turns'
  BY <1>1, <1>3, <1>4, TurnsKept, Zenon
<1>6. \A o \in Ops : t \in Owed(o)' <=> t \in Owed(o)
  BY <1>1, <1>2, <1>3, <1>4, Zenon DEF Owed
<1>7. Tokens' /\ Ring'
  BY <1>1, <1>2, <1>3, <1>4, <1>6, TokensKept, Zenon
<1>. QED
  BY <1>5, <1>7, Zenon

(* The test of the pend list, the load of the counter and the test of      *)
(* dos_queue_delete.                                                       *)
LEMMA CheckTurn ==
  ASSUME ListInv, TakeTurns, Turns, live => Tokens /\ Ring,
         NEW t \in Tasks, Check(t) \/ Load(t) \/ Delete(t)
  PROVE  Turns' /\ Tokens' /\ Ring'
<1>1. /\ TypeOK /\ Tokens /\ Ring /\ Running(t) /\ op[t] \in Ops
      /\ UNCHANGED <<rw_count, rw_ptr, buf, pend_list, sent, got, task_status, op, live, fault, usage>>
  BY Zenon DEF ListInv, TypeOK, Check, Load, Delete, At, queueVars, ghosts, rest
<1>2. PICK p \in {"load", "wake", "store", "delete"} :
        /\ pc' = [pc EXCEPT ![t] = p]
        /\ \/ pc[t] = "check" /\ p = "load" /\ pend_list[Other(op[t])] = << >>
           \/ pc[t] = "check" /\ p = "wake" /\ pend_list[Other(op[t])] # << >>
           \/ pc[t] = "load" /\ p = "store" /\ reg' = [reg EXCEPT ![t] = rw_count[Other(op[t])]]
           \/ pc[t] = "app" /\ p = "delete" /\ usage.deleters # {}
  BY Zenon DEF Check, Load, Delete, At, NobodyWaits, GivesTo
<1>3. pc'[t] = p /\ \A u \in Tasks \ {t} : pc'[u] = pc[u]
  BY <1>1, <1>2, Zenon DEF TypeOK
<1>4. \A u \in Tasks \ {t} : ~Mid(u)
  BY <1>1, Alone, Zenon
<1>5. Turns'
  BY <1>1, <1>2, <1>3, TurnsKept, Zenon
<1>6. \A o \in Ops : t \in Owed(o)' <=> t \in Owed(o)
  BY <1>1, <1>2, <1>3, Zenon DEF Owed
<1>7. p = "store" => reg'[t] = rw_count[Other(op[t])]
  BY <1>1, <1>2, Zenon DEF TypeOK
<1>8. p \in {"load", "store"} => pend_list[Other(op[t])] = << >>
  BY <1>1, <1>2, Zenon DEF Tokens
<1>9. Tokens' /\ Ring'
  BY <1>1, <1>2, <1>3, <1>4, <1>6, <1>7, <1>8, TokensKept
<1>. QED
  BY <1>5, <1>9, Zenon

(* The store of the counter, which nobody else has touched since the load. *)
LEMMA StoreTurn ==
  ASSUME ListInv, TakeTurns, Turns, live => Tokens /\ Ring, NEW t \in Tasks, Store(t)
  PROVE  Turns' /\ Tokens' /\ Ring'
<1>1. PICK o \in Ops : o = op[t]
  BY Zenon DEF ListInv, TypeOK
<1>2. PICK p \in Ops : p = Other(o) /\ p # o /\ o = Other(p)
  BY OtherOp, Zenon
<1>3. /\ TypeOK /\ Tokens /\ Ring /\ pc[t] = "store" /\ Running(t)
      /\ rw_count' = [rw_count EXCEPT ![p] = Increment(reg[t])]
      /\ reg[t] = rw_count[p] /\ pend_list[p] = << >>
      /\ pc' = [pc EXCEPT ![t] = "app"]
      /\ UNCHANGED <<rw_ptr, buf, pend_list, sent, got, task_status, op, live, fault, usage>>
  BY <1>1, <1>2, Zenon DEF ListInv, Store, At, GivesTo, Tokens, ghosts, rest
<1>4. /\ pc'[t] = "app" /\ \A u \in Tasks \ {t} : pc'[u] = pc[u]
      /\ rw_count'[p] = rw_count[p] + 1 /\ rw_count'[o] = rw_count[o] /\ rw_count[p] \in Nat
  <2>1. /\ pc'[t] = "app" /\ \A u \in Tasks \ {t} : pc'[u] = pc[u]
        /\ rw_count'[p] = Increment(rw_count[p]) /\ rw_count'[o] = rw_count[o]
        /\ rw_count[p] \in Counts /\ usage \in Usages
    BY <1>2, <1>3, Zenon DEF TypeOK
  <2>2. t \in Owed(p)
    BY <1>1, <1>2, <1>3, Zenon DEF Owed
  <2>3. rw_count[p] + 1 < CountMod
    <3>1. Cardinality(Owed(p)) \in Nat /\ Cardinality(Owed(p)) > 0
      BY <1>3, <2>2, OwedCount
    <3>2. rw_count[p] + Cardinality(Owed(p)) = Avail(p) /\ rw_count[p] \in Nat
      BY <1>3, <2>1, CountFacts, Zenon DEF Tokens
    <3>3. Avail(p) <= usage.len /\ usage.len \in Nat /\ Avail(p) \in Int
      BY <1>3, <2>1, StoredFits, UseFacts
    <3>4. CountMod \in Nat /\ CountMod > usage.len
      BY <2>1, CountFacts, Zenon
    <3>. QED
      BY <3>1, <3>2, <3>3, <3>4
  <2>. QED
    BY <2>1, <2>3, CountFacts, Zenon
<1>5. \A u \in Tasks \ {t} : ~Mid(u)
  BY <1>3, Alone, Zenon
<1>6. Turns'
  BY <1>3, <1>4, TurnsKept, Zenon
<1>7. Ring' /\ \A k \in Ops : Avail(k)' = Avail(k)
  BY <1>3, RingKept, Zenon
<1>8. t \in Owed(p) /\ Owed(p)' = Owed(p) \ {t} /\ Owed(o)' = Owed(o)
  BY <1>1, <1>2, <1>3, <1>4, Zenon DEF Owed
<1>9. rw_count'[p] + Cardinality(Owed(p)') = Avail(p)'
  <2>1. Cardinality(Owed(p)) \in Nat /\ Cardinality(Owed(p)') = Cardinality(Owed(p)) - 1
    BY <1>3, <1>8, OwedCount, Zenon
  <2>2. rw_count[p] + Cardinality(Owed(p)) = Avail(p)
    BY <1>3, Zenon DEF Tokens
  <2>. QED
    BY <2>1, <2>2, <1>4, <1>7, SMTT(20)
<1>10. rw_count'[o] + Cardinality(Owed(o)') = Avail(o)'
  BY <1>3, <1>4, <1>7, <1>8, Zenon DEF Tokens
<1>11. \A k \in Ops : k = o \/ k = p
  BY <1>2, OtherOp, Zenon
<1>12. Tokens'
  BY <1>3, <1>4, <1>5, <1>9, <1>10, <1>11 DEF Tokens, Mid
<1>. QED
  BY <1>6, <1>7, <1>12, Zenon

(* The second critical section: the token goes to the first waiter, which  *)
(* is still there.                                                         *)
LEMMA WakeTurn ==
  ASSUME ListInv, TakeTurns, Turns, live => Tokens /\ Ring, NEW t \in Tasks, Wake(t)
  PROVE  Turns' /\ Tokens' /\ Ring'
<1>1. PICK o \in Ops : o = op[t]
  BY Zenon DEF ListInv, TypeOK
<1>2. PICK p \in Ops : p = Other(o) /\ p # o /\ o = Other(p)
  BY OtherOp, Zenon
<1>3. /\ TypeOK /\ Lists /\ Tokens /\ Ring /\ pc[t] = "wake" /\ Running(t) /\ pend_list[p] # << >>
      /\ pc' = [pc EXCEPT ![t] = "app"]
      /\ UNCHANGED <<rw_count, rw_ptr, buf, sent, got, op, reg, live, usage>>
  BY <1>1, <1>2, Zenon DEF ListInv, Wake, At, Tokens, ghosts
<1>4. PICK h : h = Head(pend_list[p])
  BY Zenon
<1>5. /\ fault' = fault
      /\ task_status' = [task_status EXCEPT ![h] = Woken(task_status[h])]
      /\ pend_list' = [pend_list EXCEPT ![p] = DeleteItem(pend_list[p], h)]
  BY <1>1, <1>2, <1>3, <1>4, Zenon DEF Wake, WakeFirst
<1>6. h \in Tasks /\ op[h] = p /\ pc[h] = "pend" /\ task_status[h] = {"SUSPEND"}
  <2>1. h \in Tasks /\ h \in Range(pend_list[p])
    BY <1>3, <1>4, HeadTailProps, Zenon DEF TypeOK
  <2>2. Listed(h, p)
    BY <2>1, <1>3, Zenon DEF Lists
  <2>. QED
    BY <2>1, <2>2, Zenon DEF Listed, Turns
<1>7. /\ task_status[t] = {"READY"} /\ \A u \in Tasks \ {t} : ~Mid(u)
  BY <1>3, Alone, Zenon
<1>8. Woken({"SUSPEND"}) = {"READY"}
  BY Zenon DEF Woken
<1>9. /\ h # t /\ pc'[t] = "app" /\ task_status'[h] = {"READY"}
      /\ \A u \in Tasks \ {t} : pc'[u] = pc[u]
      /\ \A u \in Tasks \ {h} : task_status'[u] = task_status[u]
      /\ pend_list'[o] = pend_list[o]
  BY <1>2, <1>3, <1>5, <1>6, <1>7, <1>8, Zenon DEF TypeOK
<1>10. Turns'
  <2>1. \A u \in Tasks : ~Mid(u)'
    BY <1>7, <1>9, Zenon DEF Mid
  <2>. QED
    BY <2>1, <1>3, <1>5, <1>9, Zenon DEF Turns
<1>11. Ring' /\ \A k \in Ops : Avail(k)' = Avail(k)
  BY <1>3, RingKept, Zenon
<1>12. /\ t \in Owed(p) /\ h \notin Owed(p)
       /\ Owed(p)' = (Owed(p) \ {t}) \cup {h} /\ Owed(o)' = Owed(o)
  <2>1. t \in Owed(p) /\ h \notin Owed(p) /\ t \notin Owed(p)' /\ h \in Owed(p)'
    BY <1>1, <1>2, <1>3, <1>6, <1>9, Zenon DEF Owed
  <2>2. t \notin Owed(o) /\ h \notin Owed(o) /\ t \notin Owed(o)' /\ h \notin Owed(o)'
    BY <1>1, <1>2, <1>3, <1>6, <1>9, Zenon DEF Owed
  <2>3. \A k \in Ops, u \in Tasks \ {t, h} : u \in Owed(k)' <=> u \in Owed(k)
    BY <1>3, <1>9, Zenon DEF Owed
  <2>4. \A k \in Ops : Owed(k) \subseteq Tasks /\ Owed(k)' \subseteq Tasks
    BY Zenon DEF Owed
  <2>5. \A u : u \in Owed(p)' <=> u \in (Owed(p) \ {t}) \cup {h}
    BY <2>1, <2>3, <2>4, <1>6, <1>9, Zenon
  <2>6. \A u : u \in Owed(o)' <=> u \in Owed(o)
    BY <2>2, <2>3, <2>4, Zenon
  <2>7. Owed(p)' = (Owed(p) \ {t}) \cup {h}
    BY <2>5, Zenon
  <2>8. Owed(o)' = Owed(o)
    BY <2>6, Zenon
  <2>. QED
    BY <2>1, <2>7, <2>8, Zenon
<1>13. Cardinality(Owed(p)') = Cardinality(Owed(p))
  <2>1. IsFiniteSet(Owed(p)) /\ Cardinality(Owed(p)) \in Nat
    BY <1>3, OwedCount, Zenon
  <2>2. IsFiniteSet(Owed(p) \ {t}) /\ Cardinality(Owed(p) \ {t}) = Cardinality(Owed(p)) - 1
    BY <2>1, <1>12, FS_RemoveElement, Zenon
  <2>3. Cardinality((Owed(p) \ {t}) \cup {h}) = Cardinality(Owed(p) \ {t}) + 1
    BY <2>2, <1>12, FS_AddElement, Zenon
  <2>. QED
    BY <2>1, <2>2, <2>3, <1>12
<1>14. \A k \in Ops : k = o \/ k = p
  BY <1>2, OtherOp, Zenon
<1>15. Tokens'
  <2>1. \A k \in Ops : rw_count'[k] + Cardinality(Owed(k)') = Avail(k)'
    BY <1>3, <1>11, <1>12, <1>13, <1>14, Zenon DEF Tokens
  <2>2. \A k \in Ops : pend_list'[k] # << >> => rw_count'[k] = 0
    BY <1>3, <1>9, <1>14, Zenon DEF Tokens
  <2>3. \A u \in Tasks : pc'[u] \notin {"wake", "load", "store"}
    BY <1>7, <1>9, Zenon DEF Mid
  <2>. QED
    BY <2>1, <2>2, <2>3, Zenon DEF Tokens
<1>. QED
  BY <1>10, <1>11, <1>15, Zenon

(* Remainders of a place or a number that steps on.                        *)
LEMMA StepOn ==
  ASSUME NEW m \in Nat, m > 0, NEW a \in 0 .. m - 1, NEW k \in 0 .. m - 1
  PROVE  /\ (((a + k) % m) + 1) % m = (a + k + 1) % m
         /\ (((a + 1) % m) + k) % m = (a + 1 + k) % m
         /\ \A j \in 0 .. m - 1 : j # k => (a + j) % m # (a + k) % m
<1>1. (((a + k) % m) + 1) % m = (a + k + 1) % m
  <2>1. CASE a + k < m
    <3>1. (a + k) % m = a + k
      BY <2>1, Remainder
    <3>. QED
      BY <3>1, Zenon
  <2>2. CASE a + k >= m
    <3>1. a + k \in m .. 2 * m - 1 /\ a + k + 1 \in m .. 2 * m - 1 /\ a + k - m + 1 \in 0 .. m - 1
      BY <2>2
    <3>2. (a + k) % m = a + k - m /\ (a + k + 1) % m = a + k + 1 - m
      BY <3>1, Remainder
    <3>3. (a + k - m + 1) % m = a + k - m + 1
      BY <3>1, Remainder
    <3>. QED
      BY <3>1, <3>2, <3>3
  <2>. QED
    BY <2>1, <2>2
<1>2. (((a + 1) % m) + k) % m = (a + 1 + k) % m
  <2>1. CASE a + 1 < m
    <3>1. (a + 1) % m = a + 1
      BY <2>1, Remainder
    <3>. QED
      BY <3>1, Zenon
  <2>2. CASE a + 1 = m
    <3>1. a + 1 \in m .. 2 * m - 1 /\ a + 1 + k \in m .. 2 * m - 1
      BY <2>2
    <3>2. (a + 1) % m = 0 /\ (a + 1 + k) % m = k
      BY <3>1, <2>2, Remainder
    <3>3. (0 + k) % m = k
      BY Remainder
    <3>. QED
      BY <3>2, <3>3, Zenon
  <2>. QED
    BY <2>1, <2>2
<1>3. ASSUME NEW j \in 0 .. m - 1, j # k PROVE (a + j) % m # (a + k) % m
  <2>1. \A i \in 0 .. m - 1 : (a + i) % m = a + i \/ (a + i) % m = a + i - m
    BY Remainder
  <2>. QED
    BY <2>1, <1>3
<1>. QED
  BY <1>1, <1>2, <1>3, Zenon

(* A message is copied into the first free place.                          *)
LEMMA RingWrite ==
  ASSUME TypeOK, Ring, Stored \in 0 .. usage.len - 1, CopyMessage("write"), UNCHANGED usage
  PROVE  Ring' /\ Stored' = Stored + 1
<1>1. PICK n \in Nat : n = usage.len /\ n > 0
  BY UseFacts, Zenon DEF TypeOK
<1>2. PICK r \in 0 .. n - 1 : r = rw_ptr["read"]
  BY <1>1, Zenon DEF TypeOK, Ops
<1>3. PICK k \in 0 .. n - 1 : k = Stored
  BY <1>1, Zenon
<1>4. PICK M \in Nat : M = MsgIds /\ M > 2 * n
  BY <1>1, UseFacts, Zenon DEF TypeOK
<1>5. /\ sent' = (sent + 1) % M /\ got' = got
      /\ buf' = [buf EXCEPT ![rw_ptr["write"]] = sent']
      /\ rw_ptr'["write"] = (rw_ptr["write"] + 1) % n /\ rw_ptr'["read"] = r
      /\ sent \in 0 .. M - 1 /\ got \in 0 .. M - 1
      /\ rw_ptr["write"] = (r + k) % n
      /\ usage.len' = n
      /\ buf \in [0 .. n - 1 -> 0 .. M - 1]
  BY <1>1, <1>2, <1>3, <1>4, Zenon DEF CopyMessage, NextPlace, TypeOK, Ops, Ring
<1>6. Stored' = k + 1
  <2>1. k = IF sent >= got THEN sent - got ELSE sent - got + M
    BY <1>3, <1>4, StoredCount, Zenon
  <2>2. sent + 1 \in 0 .. M - 1 => (sent + 1) % M = sent + 1
    BY <1>4, Remainder
  <2>3. M % M = 0
    BY <1>4, Remainder
  <2>4. sent' \in 0 .. M - 1 /\ sent' = IF sent + 1 = M THEN 0 ELSE sent + 1
    <3>1. CASE sent + 1 = M
      <4>1. sent' = M % M
        BY <3>1, <1>5, Zenon
      <4>. QED
        BY <4>1, <3>1, <2>3, <1>4
    <3>2. CASE sent + 1 # M
      <4>1. sent + 1 \in 0 .. M - 1
        BY <3>2, <1>4, <1>5
      <4>. QED
        BY <4>1, <3>2, <2>2, <1>5, Zenon
    <3>. QED
      BY <3>1, <3>2, Zenon
  <2>5. PICK d \in Int : d = sent' - got + M
    <3>1. sent' \in Int /\ got \in Int /\ M \in Int
      BY <2>4, <1>5
    <3>2. sent' - got + M \in Int
      BY <3>1
    <3>. QED
      BY <3>2, Zenon
  <2>6. Stored' = d % M
    BY <2>5, <1>4, <1>5, Zenon DEF Stored
  <2>7. d = k + 1 \/ d = k + 1 + M
    BY <2>1, <2>4, <2>5, <1>4, <1>5
  <2>8. k + 1 \in 0 .. M - 1 /\ k + 1 + M \in M .. 2 * M - 1
    BY <1>3, <1>4
  <2>9. (k + 1) % M = k + 1 /\ (k + 1 + M) % M = k + 1
    BY <2>8, <1>4, Remainder
  <2>. QED
    BY <2>6, <2>7, <2>9, Zenon
<1>7. rw_ptr'["write"] = (r + (k + 1)) % n
  <2>1. (((r + k) % n) + 1) % n = (r + k + 1) % n
    BY <1>1, StepOn, ZenonT(40)
  <2>2. r + k + 1 = r + (k + 1)
    OBVIOUS
  <2>. QED
    BY <1>5, <2>1, <2>2, Zenon
<1>8. ASSUME NEW i \in 0 .. k PROVE buf'[(r + i) % n] = (got + 1 + i) % M
  <2>1. (r + k) % n \in 0 .. n - 1 /\ (r + i) % n \in 0 .. n - 1
    BY <1>1, Remainder
  <2>2. CASE i = k
    <3>1. buf'[(r + k) % n] = (sent + 1) % M
      BY <1>5, <2>1, Zenon
    <3>2. k = IF sent >= got THEN sent - got ELSE sent - got + M
      BY <1>3, <1>4, StoredCount, Zenon
    <3>3. CASE sent >= got
      <4>1. got + 1 + k = sent + 1
        BY <3>2, <3>3, <1>5
      <4>. QED
        BY <3>1, <4>1, <2>2, Zenon
    <3>4. CASE ~(sent >= got)
      <4>1. got + 1 + k = sent + 1 + M /\ sent + 1 \in 0 .. M - 1 /\ sent + 1 + M \in M .. 2 * M - 1
        BY <3>2, <3>4, <1>4, <1>5
      <4>2. (sent + 1) % M = sent + 1 /\ (sent + 1 + M) % M = sent + 1
        BY <4>1, <1>4, Remainder
      <4>. QED
        BY <3>1, <4>1, <4>2, <2>2, Zenon
    <3>. QED
      BY <3>3, <3>4, Zenon
  <2>3. CASE i # k
    <3>1. i \in 0 .. k - 1 /\ i \in 0 .. n - 1
      BY <2>3, <1>1
    <3>2. (r + i) % n # (r + k) % n
      BY <3>1, <2>3, <1>1, StepOn
    <3>3. buf[(r + i) % n] = (got + 1 + i) % M
      BY <3>1, <1>1, <1>2, <1>3, <1>4, Zenon DEF Ring
    <3>. QED
      BY <3>1, <3>2, <3>3, <2>1, <1>5, Zenon
  <2>. QED
    BY <2>2, <2>3, Zenon
<1>9. Ring'
  BY <1>4, <1>5, <1>6, <1>7, <1>8 DEF Ring
<1>. QED
  BY <1>3, <1>6, <1>9, Zenon

(* The oldest message is copied out.                                       *)
LEMMA RingRead ==
  ASSUME TypeOK, Ring, Stored \in 1 .. usage.len, CopyMessage("read"), UNCHANGED usage
  PROVE  /\ Ring' /\ Stored' = Stored - 1
         /\ buf[rw_ptr["read"]] = got' /\ got # sent
<1>1. PICK n \in Nat : n = usage.len /\ n > 0
  BY UseFacts, Zenon DEF TypeOK
<1>2. PICK r \in 0 .. n - 1 : r = rw_ptr["read"]
  BY <1>1, Zenon DEF TypeOK, Ops
<1>3. PICK k \in 1 .. n : k = Stored
  BY <1>1, Zenon
<1>4. PICK M \in Nat : M = MsgIds /\ M > 2 * n
  BY <1>1, UseFacts, Zenon DEF TypeOK
<1>5. /\ got' = (got + 1) % M /\ sent' = sent /\ buf' = buf
      /\ rw_ptr'["read"] = (r + 1) % n /\ rw_ptr'["write"] = rw_ptr["write"]
      /\ sent \in 0 .. M - 1 /\ got \in 0 .. M - 1
      /\ rw_ptr["write"] = (r + k) % n
      /\ usage.len' = n
  BY <1>1, <1>2, <1>3, <1>4, Zenon DEF CopyMessage, NextPlace, TypeOK, Ops, Ring
<1>6. got # sent /\ Stored' = k - 1
  <2>1. k = IF sent >= got THEN sent - got ELSE sent - got + M
    BY <1>3, <1>4, StoredCount, Zenon
  <2>2. got + 1 \in 0 .. M - 1 => (got + 1) % M = got + 1
    BY <1>4, Remainder
  <2>3. M % M = 0
    BY <1>4, Remainder
  <2>4. got' \in 0 .. M - 1 /\ got' = IF got + 1 = M THEN 0 ELSE got + 1
    <3>1. CASE got + 1 = M
      <4>1. got' = M % M
        BY <3>1, <1>5, Zenon
      <4>. QED
        BY <4>1, <3>1, <2>3, <1>4
    <3>2. CASE got + 1 # M
      <4>1. got + 1 \in 0 .. M - 1
        BY <3>2, <1>4, <1>5
      <4>. QED
        BY <4>1, <3>2, <2>2, <1>5, Zenon
    <3>. QED
      BY <3>1, <3>2, Zenon
  <2>5. PICK d \in Int : d = sent - got' + M
    <3>1. sent \in Int /\ got' \in Int /\ M \in Int
      BY <2>4, <1>5
    <3>2. sent - got' + M \in Int
      BY <3>1
    <3>. QED
      BY <3>2, Zenon
  <2>6. Stored' = d % M
    BY <2>5, <1>4, <1>5, Zenon DEF Stored
  <2>7. d = k - 1 \/ d = k - 1 + M
    BY <2>1, <2>4, <2>5, <1>3, <1>4, <1>5
  <2>8. k - 1 \in 0 .. M - 1 /\ k - 1 + M \in M .. 2 * M - 1
    BY <1>3, <1>4
  <2>9. (k - 1) % M = k - 1 /\ (k - 1 + M) % M = k - 1
    BY <2>8, <1>4, Remainder
  <2>. QED
    BY <2>1, <2>6, <2>7, <2>9, <1>3, <1>5
<1>7. rw_ptr'["write"] = (rw_ptr'["read"] + (k - 1)) % n
  <2>0. k - 1 \in 0 .. n - 1
    OBVIOUS
  <2>1. (((r + 1) % n) + (k - 1)) % n = (r + 1 + (k - 1)) % n
    BY <2>0, <1>1, StepOn
  <2>2. r + 1 + (k - 1) = r + k
    OBVIOUS
  <2>. QED
    BY <1>5, <2>1, <2>2, Zenon
<1>8. ASSUME NEW i \in 0 .. (k - 1) - 1 PROVE buf'[(rw_ptr'["read"] + i) % n] = (got' + 1 + i) % M
  <2>1. i \in 0 .. n - 1 /\ 1 + i \in 0 .. M - 1 /\ i + 1 \in 0 .. k - 1
    BY <1>4
  <2>2. (((r + 1) % n) + i) % n = (r + 1 + i) % n
    BY <2>1, <1>1, StepOn, ZenonT(40)
  <2>3. (((got + 1) % M) + (1 + i)) % M = (got + 1 + (1 + i)) % M
    <3>1. M > 0
      BY <1>4
    <3>2. got \in 0 .. M - 1 /\ 1 + i \in 0 .. M - 1
      BY <2>1, <1>5, Zenon
    <3>. QED
      BY <3>1, <3>2, StepOn, Zenon
  <2>4. buf[(r + (i + 1)) % n] = (got + 1 + (i + 1)) % M
    BY <2>1, <1>1, <1>2, <1>3, <1>4, Zenon DEF Ring
  <2>5. PICK g \in 0 .. M - 1 : g = (got + 1) % M
    BY <1>4, <1>5, Remainder
  <2>6. r + 1 + i = r + (i + 1) /\ g + 1 + i = g + (1 + i) /\ 1 + i = i + 1
    BY <1>5
  <2>. QED
    BY <2>2, <2>3, <2>4, <2>5, <2>6, <1>5, Zenon
<1>9. Ring'
  BY <1>4, <1>5, <1>6, <1>7, <1>8, Zenon DEF Ring
<1>10. buf[r] = got'
  <2>1. buf[(r + 0) % n] = (got + 1 + 0) % M
    BY <1>1, <1>2, <1>3, <1>4 DEF Ring
  <2>2. (r + 0) % n = r /\ got + 1 + 0 = got + 1
    BY <1>1, <1>5, Remainder
  <2>. QED
    BY <2>1, <2>2, <1>5, Zenon
<1>. QED
  BY <1>2, <1>3, <1>6, <1>9, <1>10, Zenon

(* The copy in _dos_queue_handler: a message becomes a free place, or a    *)
(* free place a message.                                                   *)
LEMMA CopyTurn ==
  ASSUME ListInv, TakeTurns, Turns, live => Tokens /\ Ring, NEW t \in Tasks, Copy(t)
  PROVE  /\ Turns' /\ Tokens' /\ Ring'
         /\ got' # got => buf[rw_ptr["read"]] = got' /\ got # sent
<1>1. PICK o \in Ops : o = op[t]
  BY Zenon DEF ListInv, TypeOK
<1>2. PICK p \in Ops : p = Other(o) /\ p # o /\ o = Other(p)
  BY OtherOp, Zenon
<1>3. /\ TypeOK /\ Tokens /\ Ring /\ pc[t] = "copy" /\ Running(t) /\ CopyMessage(o)
      /\ pc' = [pc EXCEPT ![t] = "check"]
      /\ UNCHANGED <<rw_count, pend_list, task_status, op, reg, live, fault, usage>>
  BY <1>1, Zenon DEF ListInv, Copy, At, rest
<1>4. pc'[t] = "check" /\ \A u \in Tasks \ {t} : pc'[u] = pc[u] /\ ~Mid(u)
  BY <1>3, Alone, Zenon DEF TypeOK
<1>5. Turns'
  BY <1>3, <1>4, TurnsKept, Zenon
<1>6. /\ t \in Owed(o) /\ t \notin Owed(p) /\ Owed(o)' = Owed(o) \ {t} /\ Owed(p)' = Owed(p) \cup {t}
  <2>1. t \in Owed(o) /\ t \notin Owed(p) /\ t \notin Owed(o)' /\ t \in Owed(p)'
    BY <1>1, <1>2, <1>3, <1>4, Zenon DEF Owed
  <2>2. \A k \in Ops, u \in Tasks \ {t} : u \in Owed(k)' <=> u \in Owed(k)
    BY <1>3, <1>4, Zenon DEF Owed
  <2>3. \A k \in Ops : Owed(k) \subseteq Tasks /\ Owed(k)' \subseteq Tasks
    BY Zenon DEF Owed
  <2>4. \A u : u \in Owed(p)' <=> u \in Owed(p) \cup {t}
    BY <2>1, <2>2, <2>3, Zenon
  <2>5. \A u : u \in Owed(o)' <=> u \in Owed(o) \ {t}
    BY <2>1, <2>2, <2>3, Zenon
  <2>6. Owed(p)' = Owed(p) \cup {t}
    BY <2>4, Zenon
  <2>7. Owed(o)' = Owed(o) \ {t}
    BY <2>5, Zenon
  <2>. QED
    BY <2>1, <2>6, <2>7, Zenon
<1>7. Stored \in 0 .. usage.len /\ Avail(o) > 0 /\ usage.len \in Nat
  BY <1>3, <1>6, StoredFits, UseFacts, Zenon DEF TypeOK
<1>8. /\ Ring' /\ Avail(o)' = Avail(o) - 1 /\ Avail(p)' = Avail(p) + 1
      /\ got' # got => buf[rw_ptr["read"]] = got' /\ got # sent
  <2>1. CASE o = "write"
    <3>1. Stored \in 0 .. usage.len - 1 /\ p = "read"
      BY <2>1, <1>2, <1>7 DEF Avail, Other
    <3>2. Ring' /\ Stored' = Stored + 1 /\ got' = got
      BY <2>1, <3>1, <1>3, RingWrite, Zenon DEF CopyMessage
    <3>3. /\ Avail("write") = usage.len - Stored /\ Avail("write")' = usage.len - Stored'
          /\ Avail("read") = Stored /\ Avail("read")' = Stored'
      BY <1>3, Zenon DEF Avail
    <3>4. usage.len - (Stored + 1) = (usage.len - Stored) - 1
      BY <1>7
    <3>. QED
      BY <2>1, <3>1, <3>2, <3>3, <3>4, Zenon
  <2>2. CASE o = "read"
    <3>1. Stored \in 1 .. usage.len /\ p = "write"
      BY <2>2, <1>2, <1>7 DEF Avail, Other
    <3>2. Ring' /\ Stored' = Stored - 1 /\ buf[rw_ptr["read"]] = got' /\ got # sent
      BY <2>2, <3>1, <1>3, RingRead, Zenon
    <3>. QED
      BY <2>2, <3>1, <3>2, <1>3, <1>7 DEF Avail
  <2>. QED
    BY <2>1, <2>2, Zenon DEF Ops
<1>9. /\ rw_count'[o] + Cardinality(Owed(o)') = Avail(o)'
      /\ rw_count'[p] + Cardinality(Owed(p)') = Avail(p)'
  <2>1. /\ rw_count[o] \in Nat /\ rw_count[p] \in Nat
        /\ Cardinality(Owed(o)) \in Nat /\ Cardinality(Owed(p)) \in Nat
    BY <1>3, OwedCount, CountFacts, Zenon DEF TypeOK
  <2>2. Cardinality(Owed(o)') = Cardinality(Owed(o)) - 1
    BY <1>3, <1>6, OwedCount, Zenon
  <2>3. Cardinality(Owed(p)') = Cardinality(Owed(p)) + 1
    BY <1>3, <1>6, OwedCount, Zenon
  <2>4. rw_count[o] + Cardinality(Owed(o)) = Avail(o) /\ rw_count[p] + Cardinality(Owed(p)) = Avail(p)
    BY <1>3, Zenon DEF Tokens
  <2>. QED
    BY <2>1, <2>2, <2>3, <2>4, <1>3, <1>8, SMTT(20)
<1>10. \A k \in Ops : k = o \/ k = p
  BY <1>2, OtherOp, Zenon
<1>11. Tokens'
  BY <1>3, <1>4, <1>9, <1>10, Zenon DEF Tokens, Mid
<1>. QED
  BY <1>5, <1>8, <1>11, Zenon

(* The free of dos_queue_delete, and the use of a queue that is gone.      *)
LEMMA DeleteTurn ==
  ASSUME ListInv, TakeTurns, Turns, NEW t \in Tasks, DeleteFree(t) \/ UseFreed(t)
  PROVE  Turns' /\ ~live'
<1>1. /\ TypeOK /\ Running(t) /\ UNCHANGED <<task_status, usage>> /\ live' = FALSE
      /\ usage.deleters # {}
      /\ pc' = pc \/ pc' = [pc EXCEPT ![t] = "app"]
  BY Zenon DEF ListInv, TypeOK, DeleteFree, UseFreed, At, Turns
<1>2. \A u \in Tasks : pc'[u] = pc[u] \/ pc'[u] = "app"
  BY <1>1, Zenon DEF TypeOK
<1>. QED
  BY <1>1, <1>2, Zenon DEF Turns, Mid

(* dos_queue_create: the queue is empty and every place is free.           *)
LEMMA InitTurn ==
  ASSUME Init
  PROVE  Turns /\ Tokens /\ Ring
<1>1. TypeOK
  BY InitList, Zenon DEF ListInv
<1>2. Stored = 0
  BY <1>1, StoredCount, Zenon DEF Init
<1>3. Turns
  BY Zenon DEF Init, Turns, Mid
<1>4. ASSUME NEW o \in Ops PROVE rw_count[o] + Cardinality(Owed(o)) = Avail(o)
  <2>1. Owed(o) = {}
    BY Zenon DEF Init, Owed
  <2>2. Cardinality(Owed(o)) = 0
    BY <2>1, FS_EmptySet, Zenon
  <2>3. rw_count[o] = Avail(o) /\ rw_count[o] \in Nat
    BY <1>1, <1>2, UseFacts, SMTT(20) DEF Init, Avail, TypeOK
  <2>. QED
    BY <2>2, <2>3
<1>5. Tokens
  BY <1>4, Zenon DEF Init, Tokens
<1>6. Ring
  <2>1. usage.len \in Nat /\ usage.len > 0
    BY <1>1, UseFacts, Zenon DEF TypeOK
  <2>2. 0 % usage.len = 0
    BY <2>1, Remainder
  <2>. QED
    BY <1>2, <2>2 DEF Init, Ring, Ops
<1>. QED
  BY <1>3, <1>5, <1>6, Zenon

(* Every step keeps the invariant where tasks take turns, and reads give   *)
(* the oldest message.                                                     *)
ReadsOldest == got' # got => buf[rw_ptr["read"]] = got' /\ got # sent

LEMMA StepTurn ==
  ASSUME ListInv, TakeTurns, Turns, live => Tokens /\ Ring, [Next]_vars
  PROVE  Turns' /\ (live' => Tokens' /\ Ring') /\ ReadsOldest
<1> DEFINE Goal == Turns' /\ (live' => Tokens' /\ Ring') /\ ReadsOldest
<1>1. CASE UNCHANGED vars
  <2>1. UNCHANGED <<rw_count, rw_ptr, buf, pend_list, sent, got, task_status, pc, op, reg, live,
                    fault, usage>>
    BY <1>1, Zenon DEF vars, queueVars, ghosts, rest
  <2>2. Turns'
    BY <2>1, Zenon DEF Turns, Mid
  <2>3. live => Ring' /\ \A o \in Ops : Avail(o)' = Avail(o)
    BY <2>1, RingKept, Zenon
  <2>4. \A o \in Ops : Owed(o)' = Owed(o)
    BY <2>1, Zenon DEF Owed
  <2>5. live => Tokens'
    BY <2>1, <2>3, <2>4, Zenon DEF Tokens
  <2>. QED
    BY <2>1, <2>2, <2>3, <2>5, Zenon DEF ReadsOldest
<1>2. ASSUME NEW t \in Tasks, NEW o \in Ops, NEW wait \in usage.waits, Enter(t, o, wait) PROVE Goal
  <2>1. got' = got
    BY <1>2, Zenon DEF Enter, ghosts
  <2>. QED
    BY <1>2, <2>1, EnterTokenTurn, EnterWaitTurn, Zenon DEF ReadsOldest
<1>3. ASSUME NEW t \in Tasks, Resume(t) \/ Check(t) \/ Load(t) \/ Delete(t) \/ Store(t) \/ Wake(t)
      PROVE  Goal
  <2>1. got' = got
    BY <1>3, Zenon DEF Resume, Check, Load, Delete, Store, Wake, ghosts
  <2>. QED
    BY <1>3, <2>1, ResumeTurn, CheckTurn, StoreTurn, WakeTurn, Zenon DEF ReadsOldest
<1>4. ASSUME NEW t \in Tasks, Copy(t) PROVE Goal
  BY <1>4, CopyTurn, Zenon DEF ReadsOldest
<1>5. ASSUME NEW t \in Tasks, DeleteFree(t) \/ UseFreed(t) PROVE Goal
  <2>1. got' = got
    BY <1>5, Zenon DEF DeleteFree, UseFreed, ghosts
  <2>. QED
    BY <1>5, <2>1, DeleteTurn, Zenon DEF ReadsOldest
<1>6. ASSUME NEW t \in Tasks, Leave(t) \/ Sleep(t) \/ Timeout(t) PROVE FALSE
  <2>1. pc[t] # "leave" /\ task_status[t] \in {{"READY"}, {"SUSPEND"}} /\ ~usage.sleeps
    BY Zenon DEF Turns, TakeTurns
  <2>. QED
    BY <1>6, <2>1, Zenon DEF Leave, Sleep, Timeout, At
<1>7. ASSUME NEW o \in Ops, IsrOp(o) PROVE FALSE
  BY <1>7, Zenon DEF IsrOp, TakeTurns
<1> HIDE DEF Goal
<1>8. Goal
  BY <1>1, <1>2, <1>3, <1>4, <1>5, <1>6, <1>7, Steps, Zenon DEF Goal
<1>. QED
  BY <1>8, Zenon DEF Goal

(* Both invariants hold in every reachable state.                          *)
LEMMA Invariance == Spec => [](ListInv /\ TurnInv)
<1>1. Init => ListInv /\ TurnInv
  BY InitList, InitTurn, Zenon DEF TurnInv
<1>2. ListInv /\ TurnInv /\ [Next]_vars => (ListInv /\ TurnInv)'
  <2> SUFFICES ASSUME ListInv, TurnInv, [Next]_vars, TakeTurns' PROVE ListInv' /\ Turns' /\ (live' => Tokens' /\ Ring')
    BY StepList, Zenon DEF TurnInv
  <2>1. TakeTurns
    BY UsageKept, Zenon DEF TakeTurns
  <2>. QED
    BY <2>1, StepList, StepTurn, Zenon DEF TurnInv
<1>. QED
  BY <1>1, <1>2, PTL DEF Spec

(* Where tasks take turns, queue_rw_count is exact between calls although  *)
(* the handler increments it outside its critical sections, and            *)
(* dos_task_wake always finds a task.                                      *)
THEOREM CountsExact == Spec => []CountsAgree
<1>1. ListInv /\ TurnInv => CountsAgree
  <2> SUFFICES ASSUME ListInv, TurnInv, TakeTurns PROVE CountsAgree
    BY Zenon DEF CountsAgree
  <2>1. usage.deleters = {} => ~fault
    BY Zenon DEF TurnInv, Turns
  <2>2. ASSUME Quiet
        PROVE  /\ rw_count["read"] + Cardinality(Granted("read")) = Stored
               /\ rw_count["write"] + Cardinality(Granted("write")) = usage.len - Stored
    <3>1. \A o \in Ops : Owed(o) = Granted(o)
      BY <2>2, Zenon DEF Quiet, Owed, Granted
    <3>2. \A o \in Ops : rw_count[o] + Cardinality(Owed(o)) = Avail(o)
      BY <2>2, Zenon DEF Quiet, TurnInv, Tokens
    <3>. QED
      BY <3>1, <3>2, Zenon DEF Avail, Ops
  <2>. QED
    BY <2>1, <2>2, Zenon DEF CountsAgree
<1>. QED
  BY <1>1, Invariance, PTL

(* There, no task is left waiting between calls for a token that the queue *)
(* has: the test of the pend list and the increment after it do not miss a *)
(* waiter.                                                                 *)
THEOREM NoTokenIdle == Spec => []NoIdleToken
<1>1. ListInv /\ TurnInv => NoIdleToken
  <2> SUFFICES ASSUME ListInv, TurnInv, TakeTurns, Quiet, NEW o \in Ops, NEW t \in Tasks, Waiting(t, o)
               PROVE  rw_count[o] = 0
    BY Zenon DEF NoIdleToken
  <2>1. t \in Range(pend_list[o])
    BY Zenon DEF ListInv, Lists, Waiting
  <2>2. pend_list[o] # << >>
    BY <2>1, EmptyItems, Zenon DEF ListInv, TypeOK
  <2>. QED
    BY <2>2, Zenon DEF TurnInv, Tokens, Quiet
<1>. QED
  BY <1>1, Invariance, PTL

(* There, dos_queue_read gives the messages in the order dos_queue_write   *)
(* stored them, for every length of the queue: the pointers wrap and never *)
(* overtake each other.                                                    *)
THEOREM ReadsInOrder == Spec => Fifo
<1>1. ListInv /\ TurnInv /\ [Next]_vars => [(TakeTurns /\ got' # got) => buf[rw_ptr["read"]] = got' /\ got # sent]_vars
  BY StepTurn, Zenon DEF TurnInv, ReadsOldest
<1>. QED
  BY <1>1, Invariance, PTL DEF Spec, Fifo
=============================================================================
