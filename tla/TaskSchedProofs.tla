--------------------------- MODULE TaskSchedProofs --------------------------
(***************************************************************************)
(* The invariants of TaskSched hold for every number of tasks, priorities  *)
(* and ticks: every step preserves IInv of TaskSchedInv, which implies     *)
(* them.  First what the helpers of TaskSched do to the parts of IInv,     *)
(* then one lemma for each step, then the theorems.                        *)
(***************************************************************************)
EXTENDS TaskSchedInv, TaskListProofs

(* Facts about the constants.                                              *)
LEMMA Constants ==
  /\ NumPrio \in Nat /\ 0 \in Prio /\ Prio \subseteq Nat
  /\ TickMod \in Nat /\ TickMod > 1 /\ Tick \subseteq Nat /\ 0 \in Tick
  /\ UINT32_MAX \in Tick /\ \A n \in Tick : n <= UINT32_MAX
  /\ NoTask \notin AllTasks /\ Tasks \subseteq AllTasks /\ Idle \in AllTasks
  /\ BasePrio \in [AllTasks -> Prio] /\ BasePrio \in [AllTasks -> Nat]
  /\ \A t \in AllTasks : InitTick[t] \in Nat /\ InitTick[t] # 0
BY SchedAssumption DEF AllTasks, Prio, Tick, UINT32_MAX

(* _dos_get_highest_priority returns the least bit that is set.            *)
LEMMA HighestIsPrio ==
  ASSUME NEW bits \in SUBSET Prio
  PROVE  HighestPriority(bits) \in Prio
<1>1. CASE bits = {}
  BY <1>1, Constants, Zenon DEF HighestPriority
<1>2. CASE bits # {}
  <2>1. Min(bits) \in bits
    BY <1>2, Constants, MinOfNats, Zenon
  <2>. QED
    BY <1>2, <2>1, Zenon DEF HighestPriority
<1>. QED
  BY <1>1, <1>2, Zenon

-----------------------------------------------------------------------------
(* The ready lists and the bitmap, as the kernel's helpers change them.    *)

(* S is R with t. *)
Adds(S, R, t) == S = R \cup {t}

(* The ready lists of task.c are lists with a cursor, End being DOS_NULL.  *)
LEMMA ListTypeIsCursorList == ListType = CursorList(AllTasks, NoTask)
BY Zenon DEF ListType, CursorList

(* Taking a ready task off its list keeps the lists in step with the       *)
(* ready tasks that remain.                                                *)
LEMMA UnlinkLinked ==
  ASSUME NEW lists, NEW R \in SUBSET AllTasks, NEW prio \in [AllTasks -> Prio],
         NEW t \in AllTasks, Linked(lists, R, prio)
  PROVE  LET left == UnlinkReady(lists, t, prio[t])
         IN  /\ Linked(left, R \ {t}, prio)
             /\ ResetIfEmpty(Bits(lists), left, prio[t]) = Bits(left)
<1> DEFINE p == prio[t]
           left == UnlinkReady(lists, t, p)
           one == ListDelete(lists[p], t, NoTask)
<1>1. p \in Prio /\ lists \in [Prio -> ListType]
  BY Zenon DEF Linked
<1>2. lists[p] \in CursorList(AllTasks, NoTask) /\ lists[p].items \in Seq(AllTasks)
      /\ Range(lists[p].items) = {u \in R : prio[u] = p} /\ IsInjective(lists[p].items)
  BY <1>1, ListTypeIsCursorList, Zenon DEF Linked, CursorList
<1>3. one \in ListType /\ one.items = DeleteItem(lists[p].items, t)
  BY <1>2, ListDeleteProps, ListTypeIsCursorList
<1>4. one.items \in Seq(AllTasks) /\ Range(one.items) = Range(lists[p].items) \ {t}
      /\ IsInjective(one.items)
  BY <1>2, <1>3, DeleteItemProps
<1> HIDE DEF one
<1>5. left = [lists EXCEPT ![p] = one]
  BY Zenon DEF UnlinkReady, one
<1> HIDE DEF p, left
<1>6. left \in [Prio -> ListType] /\ left[p] = one
      /\ \A q \in Prio : q # p => left[q] = lists[q]
  BY <1>1, <1>3, <1>5, Zenon
<1>7. Linked(left, R \ {t}, prio)
  <2> SUFFICES ASSUME NEW q \in Prio
               PROVE  /\ Range(left[q].items) = {u \in R \ {t} : prio[u] = q}
                      /\ IsInjective(left[q].items)
    BY <1>6, Zenon DEF Linked
  <2>1. CASE q = p
    BY <1>2, <1>4, <1>6, <2>1, Zenon DEF p
  <2>2. CASE q # p
    BY <1>6, <2>2, Zenon DEF p, Linked
  <2>. QED
    BY <2>1, <2>2, Zenon
<1>8. ResetIfEmpty(Bits(lists), left, p) = Bits(left)
  BY <1>1, <1>6, EmptyItems, <1>2, <1>4 DEF ResetIfEmpty, Bits
<1>. QED
  BY <1>7, <1>8, Zenon DEF p, left

(* _dos_insert_task_priority_list adds a task to the list of its priority  *)
(* and sets its bit.                                                       *)
LEMMA LinkLinked ==
  ASSUME NEW lists, NEW R \in SUBSET AllTasks, NEW prio \in [AllTasks -> Prio],
         NEW value, Values(value, AllTasks), NEW t \in AllTasks, t \notin R,
         NEW S, Adds(S, R, t), Linked(lists, R, prio)
  PROVE  LET linked == LinkReady(lists, value, t, prio[t])
         IN  /\ Linked(linked, S, prio)
             /\ Bits(lists) \cup {prio[t]} = Bits(linked)
<1> DEFINE p == prio[t]
           linked == LinkReady(lists, value, t, p)
           one == ListInsert(lists[p], value, t)
<1>1. p \in Prio /\ lists \in [Prio -> ListType]
  BY Zenon DEF Linked
<1>2. lists[p] \in CursorList(AllTasks, NoTask) /\ lists[p].items \in Seq(AllTasks)
      /\ Range(lists[p].items) = {u \in R : prio[u] = p} /\ IsInjective(lists[p].items)
  BY <1>1, ListTypeIsCursorList, Zenon DEF Linked, CursorList
<1>3. one \in ListType /\ one.items = InsertItem(lists[p].items, value, t)
  BY <1>2, ListInsertProps, ListTypeIsCursorList
<1>4. one.items \in Seq(AllTasks) /\ Range(one.items) = Range(lists[p].items) \cup {t}
      /\ IsInjective(one.items)
  <2>1. t \notin Range(lists[p].items)
    BY <1>2, Zenon
  <2>2. LET s == lists[p].items
        IN  /\ InsertItem(s, value, t) \in Seq(AllTasks)
            /\ Range(InsertItem(s, value, t)) = Range(s) \cup {t}
            /\ (IsInjective(s) /\ t \notin Range(s)) => IsInjective(InsertItem(s, value, t))
    BY <1>2, InsertItemProps
  <2>. QED
    BY <1>2, <1>3, <2>1, <2>2, Zenon
<1> HIDE DEF one
<1>5. linked = [lists EXCEPT ![p] = one]
  BY Zenon DEF LinkReady, one
<1> HIDE DEF p, linked
<1>6. linked \in [Prio -> ListType] /\ linked[p] = one
      /\ \A q \in Prio : q # p => linked[q] = lists[q]
  BY <1>1, <1>3, <1>5, Zenon
<1>7. Linked(linked, S, prio)
  <2> SUFFICES ASSUME NEW q \in Prio
               PROVE  /\ Range(linked[q].items) = {u \in S : prio[u] = q}
                      /\ IsInjective(linked[q].items)
    BY <1>6, Zenon DEF Linked
  <2>1. CASE q = p
    BY <1>2, <1>4, <1>6, <2>1, Zenon DEF p, Adds
  <2>2. CASE q # p
    BY <1>6, <2>2, Zenon DEF p, Linked, Adds
  <2>. QED
    BY <2>1, <2>2, Zenon
<1>8. one.items # << >>
  BY <1>4, EmptyItems, Zenon
<1>9. Bits(lists) \cup {p} = Bits(linked)
  BY <1>1, <1>6, <1>8, Zenon DEF Bits
<1>. QED
  BY <1>7, <1>9, Zenon DEF p, linked

(* dos_task_wake: whether or not the task was on the list already.         *)
LEMMA WakeLinked ==
  ASSUME NEW lists, NEW R \in SUBSET AllTasks, NEW prio \in [AllTasks -> Prio],
         NEW value, Values(value, AllTasks), NEW t \in AllTasks,
         NEW S, Adds(S, R, t), Linked(lists, R, prio)
  PROVE  LET linked == LinkReady(UnlinkReady(lists, t, prio[t]), value, t, prio[t])
         IN  /\ Linked(linked, S, prio)
             /\ Bits(lists) \cup {prio[t]} = Bits(linked)
<1> DEFINE p == prio[t]
           left == UnlinkReady(lists, t, p)
           linked == LinkReady(left, value, t, p)
<1>1. Linked(left, R \ {t}, prio) /\ ResetIfEmpty(Bits(lists), left, p) = Bits(left)
  BY UnlinkLinked, Zenon
<1> HIDE DEF left
<1>2. Linked(linked, S, prio) /\ Bits(left) \cup {p} = Bits(linked)
  <2> DEFINE Q == R \ {t}
  <2>1. Q \in SUBSET AllTasks /\ t \notin Q /\ Adds(S, Q, t)
    BY Zenon DEF Adds
  <2>2. Linked(left, Q, prio)
    BY <1>1, Zenon
  <2> HIDE DEF Q
  <2>3. Linked(linked, S, prio) /\ Bits(left) \cup {p} = Bits(linked)
    BY <2>1, <2>2, LinkLinked
  <2>. QED
    BY <2>3, Zenon
<1>4. Bits(lists) \cup {p} = Bits(left) \cup {p}
  BY <1>1, Zenon DEF ResetIfEmpty
<1>. QED
  BY <1>2, <1>4, Zenon DEF left

(* The priority of a task that is on no ready list may change freely.      *)
LEMMA SetPrioLinked ==
  ASSUME NEW lists, NEW R \in SUBSET AllTasks, NEW prio \in [AllTasks -> Prio],
         NEW t \in AllTasks \ R, NEW p \in Prio, Linked(lists, R, prio)
  PROVE  Linked(lists, R, [prio EXCEPT ![t] = p])
BY Zenon DEF Linked

(* The cursor of a list moves freely.                                      *)
LEMMA CursorLinked ==
  ASSUME NEW lists, NEW R, NEW prio, NEW p \in Prio,
         NEW t \in AllTasks \cup {NoTask}, Linked(lists, R, prio)
  PROVE  LET moved == SetCursor(lists, p, t)
         IN  Linked(moved, R, prio) /\ Bits(moved) = Bits(lists)
<1> DEFINE one == [lists[p] EXCEPT !.task_item = t]
           moved == [lists EXCEPT ![p] = one]
<1>1. lists \in [Prio -> ListType] /\ lists[p] \in ListType
  BY Zenon DEF Linked
<1>2. one \in ListType /\ one.items = lists[p].items
  BY <1>1, Zenon DEF ListType
<1> HIDE DEF one
<1>3. moved \in [Prio -> ListType] /\ \A q \in Prio : moved[q].items = lists[q].items
  BY <1>1, <1>2, Zenon
<1> HIDE DEF moved
<1>4. Linked(moved, R, prio) /\ Bits(moved) = Bits(lists)
  BY <1>3, Zenon DEF Linked, Bits
<1>5. SetCursor(lists, p, t) = moved
  BY Zenon DEF moved, one, SetCursor
<1>. QED
  BY <1>4, <1>5, Zenon

(* dos_set_task_priority. *)
LEMMA MovedLinked ==
  ASSUME TypeOK, ReadyInv, NEW u \in AllTasks, NEW p \in Prio
  PROVE  /\ Linked(MovedLists(u, p), ReadySet, [priority EXCEPT ![u] = p])
         /\ MovedBits(u, p) = Bits(MovedLists(u, p))
<1> DEFINE prio == [priority EXCEPT ![u] = p]
<1>1. /\ priority \in [AllTasks -> Prio] /\ Values(status_value, AllTasks)
      /\ Linked(dos_task_priority_list, ReadySet, priority)
      /\ dos_task_priority = Bits(dos_task_priority_list)
      /\ ReadySet \in SUBSET AllTasks
      /\ prio \in [AllTasks -> Prio] /\ prio[u] = p
  BY Constants, Zenon DEF TypeOK, ReadyInv, ReadySet, Values
<1>2. CASE "READY" \in task_status[u]
  <2> DEFINE left == UnlinkReady(dos_task_priority_list, u, priority[u])
  <2>1. /\ Linked(left, ReadySet \ {u}, priority)
        /\ ResetIfEmpty(dos_task_priority, left, priority[u]) = Bits(left)
    BY <1>1, UnlinkLinked, ZenonT(60)
  <2> HIDE DEF left
  <2>2. Linked(left, ReadySet \ {u}, prio)
    BY <1>1, <2>1, SetPrioLinked, Zenon
  <2> HIDE DEF prio
  <2> DEFINE Q == ReadySet \ {u}
  <2>3. Q \in SUBSET AllTasks /\ u \notin Q /\ Adds(ReadySet, Q, u)
    BY <1>2, Zenon DEF ReadySet, Adds
  <2>4. Linked(left, Q, prio)
    BY <2>2, Zenon
  <2>7. prio \in [AllTasks -> Prio] /\ Values(status_value, AllTasks)
    BY <1>1, Zenon
  <2> HIDE DEF Q
  <2>6. /\ Linked(LinkReady(left, status_value, u, prio[u]), ReadySet, prio)
        /\ Bits(left) \cup {prio[u]} = Bits(LinkReady(left, status_value, u, prio[u]))
    BY <2>3, <2>4, <2>7, LinkLinked
  <2>5. /\ MovedLists(u, p) = LinkReady(left, status_value, u, p)
        /\ MovedBits(u, p) = Bits(left) \cup {p}
    BY <1>2, <2>1, Zenon DEF MovedLists, MovedBits, left
  <2>. QED
    BY <1>1, <2>3, <2>5, <2>6, Zenon DEF prio
<1>3. CASE "READY" \notin task_status[u]
  <2>1. u \in AllTasks \ ReadySet
    BY <1>3, Zenon DEF ReadySet
  <2>2. Linked(dos_task_priority_list, ReadySet, prio)
    BY <1>1, <2>1, SetPrioLinked, Zenon
  <2>. QED
    BY <1>1, <1>3, <2>2, Zenon DEF MovedLists, MovedBits
<1>. QED
  BY <1>2, <1>3, Zenon

-----------------------------------------------------------------------------
(* The wake tick: a sleep that does not overflow ends later, one that does *)
(* has a smaller value.                                                    *)
LEMMA WakeTick ==
  ASSUME NEW c \in Tick, NEW n \in Tick \ {0}
  PROVE  LET v == (c + n) % TickMod
         IN  v \in Tick /\ (~(v < c) => v > c)
<1>1. c \in Nat /\ n \in Nat /\ n > 0 /\ c < TickMod /\ n < TickMod /\ TickMod \in Nat \ {0}
  BY Constants DEF Tick
<1>2. CASE c + n < TickMod
  <2>1. (c + n) % TickMod = c + n
    BY <1>1, <1>2
  <2>. QED
    BY <1>1, <1>2, <2>1 DEF Tick
<1>3. CASE ~(c + n < TickMod)
  <2>1. (c + n) % TickMod = c + n - TickMod
    BY <1>1, <1>3
  <2>. QED
    BY <1>1, <1>3, <2>1 DEF Tick
<1>. QED
  BY <1>2, <1>3, Zenon

-----------------------------------------------------------------------------
(* dos_check_task_priority: the time slice never reaches zero, and a       *)
(* running task that is no longer ready is switched out.                   *)
LEMMA CheckEffect ==
  ASSUME TypeOK, CallInv, isr # "boot", dos_current_task \in AllTasks,
         NEW h \in Prio, CheckTaskPriority(h)
  PROVE  /\ dos_cur_priority' \in Prio
         /\ pendsv' \in BOOLEAN
         /\ task_tick' \in [AllTasks -> Nat]
         /\ \A t \in AllTasks : task_tick'[t] # 0
         /\ "READY" \notin task_status'[dos_current_task] => pendsv'
<1> DEFINE t == dos_current_task
<1>1. task_tick \in [AllTasks -> Nat] /\ \A u \in AllTasks : task_tick[u] # 0
  BY Zenon DEF TypeOK, CallInv
<1>2. PICK expired \in BOOLEAN, shared \in BOOLEAN :
        /\ expired => task_tick[t] = 1
        /\ expired = (shared /\ task_tick[t] = 1)
        /\ task_tick' = [task_tick EXCEPT ![t] = IF expired THEN InitTick[t]
                                                  ELSE IF shared THEN task_tick[t] - 1
                                                  ELSE task_tick[t]]
  BY Zenon DEF CheckTaskPriority
<1>3. task_tick' \in [AllTasks -> Nat] /\ \A u \in AllTasks : task_tick'[u] # 0
  BY <1>1, <1>2, Constants
<1>4. dos_cur_priority' \in Prio
  BY Zenon DEF CheckTaskPriority
<1>5. pendsv' \in BOOLEAN /\ ("READY" \notin task_status'[dos_current_task] => pendsv')
  BY Zenon DEF CheckTaskPriority
<1>. QED
  BY <1>3, <1>4, <1>5, Zenon

(* dos_scheduler changes only the scheduling variables, or nothing.        *)
LEMMA SchedulerEffect ==
  ASSUME TypeOK, CallInv, isr # "boot", dos_current_task \in AllTasks,
         dos_task_priority' \subseteq Prio, Scheduler
  PROVE  /\ dos_cur_priority' \in Prio
         /\ pendsv' \in BOOLEAN
         /\ task_tick' \in [AllTasks -> Nat]
         /\ \A t \in AllTasks : task_tick'[t] # 0
         /\ scheduler_lock = 0 =>
              ("READY" \notin task_status'[dos_current_task] => pendsv')
         /\ scheduler_lock # 0 => pendsv' = pendsv
<1>1. CASE scheduler_lock = 0
  <2>1. HighestPriority(dos_task_priority') \in Prio
    BY HighestIsPrio, Zenon
  <2>2. CheckTaskPriority(HighestPriority(dos_task_priority'))
    BY <1>1, Zenon DEF Scheduler
  <2>. QED
    BY <1>1, <2>1, <2>2, CheckEffect, Zenon
<1>2. CASE scheduler_lock # 0
  BY <1>2, Zenon DEF Scheduler, schedVars, TypeOK, CallInv
<1>. QED
  BY <1>1, <1>2, Zenon

-----------------------------------------------------------------------------
(* A sorted list without t, seen with t's new value, and t put back.       *)
LEMMA Reinsert ==
  ASSUME NEW s \in Seq(AllTasks), NEW t \in AllTasks, IsInjective(s),
         NEW value, Sorted(s, value),
         NEW new, Values(new, AllTasks), \A u \in AllTasks \ {t} : new[u] = value[u]
  PROVE  LET a == DeleteItem(s, t)
             b == InsertItem(a, new, t)
         IN  /\ a \in Seq(AllTasks) /\ IsInjective(a) /\ Range(a) = Range(s) \ {t}
             /\ Sorted(a, new)
             /\ b \in Seq(AllTasks) /\ IsInjective(b) /\ Range(b) = Range(s) \cup {t}
             /\ Sorted(b, new)
<1> DEFINE a == DeleteItem(s, t)
           b == InsertItem(a, new, t)
<1>1. a \in Seq(AllTasks) /\ IsInjective(a) /\ Range(a) = Range(s) \ {t} /\ Sorted(a, value)
  BY DeleteItemProps, Zenon
<1> HIDE DEF a
<1>2. Range(a) \subseteq AllTasks /\ t \notin Range(a)
  BY <1>1, EmptyItems, Zenon
<1>3. \A x \in Range(a) : new[x] = value[x]
  BY <1>2, Zenon
<1>4. Sorted(a, new)
  BY <1>1, <1>3, SortedOther, Zenon
<1>5. /\ b \in Seq(AllTasks) /\ Range(b) = Range(a) \cup {t}
      /\ IsInjective(b) /\ Sorted(b, new)
  BY <1>1, <1>2, <1>4, InsertItemProps
<1>6. Range(b) = Range(s) \cup {t}
  BY <1>1, <1>5, Zenon
<1>. QED
  BY <1>1, <1>4, <1>5, <1>6, Zenon DEF a

(* _dos_insert_task_sleep_list. *)
LEMMA SleepEffect ==
  ASSUME TypeOK, DelayInv, SleepInv,
         isr = "none", isr' = isr, dos_tick_count' = dos_tick_count,
         NEW t \in AllTasks, t = dos_current_task,
         NEW n \in Tick \ {0}, NEW st \in SUBSET StatusBits,
         NEW bits, NEW lists, priority' \in [AllTasks -> Prio],
         priority'[t] = priority[t],
         Linked(lists, ReadySet, priority'), bits = Bits(lists),
         SleepCurrent(st, n, bits, lists)
  PROVE  /\ task_status' = [task_status EXCEPT ![t] = (st \ {"READY"}) \cup {"DELAY"}]
         /\ task_status' \in [AllTasks -> SUBSET StatusBits]
         /\ status_value' \in [AllTasks -> Tick]
         /\ sleep_list' \in Seq(AllTasks) /\ overflow_list' \in Seq(AllTasks)
         /\ dos_next_wake_tick' \in Tick
         /\ ReadyInv' /\ DelayInv' /\ SleepInv'
<1> DEFINE v == (dos_tick_count + n) % TickMod
           value == [status_value EXCEPT ![t] = v]
           left == UnlinkReady(lists, t, priority[t])
<1>1. v \in Tick /\ (~(v < dos_tick_count) => v > dos_tick_count)
  BY WakeTick, Zenon DEF TypeOK
<1>2. /\ task_status' = [task_status EXCEPT ![t] = (st \ {"READY"}) \cup {"DELAY"}]
      /\ dos_task_priority_list' = left
      /\ dos_task_priority' = ResetIfEmpty(bits, left, priority[t])
      /\ status_value' = value
      /\ IF v < dos_tick_count
         THEN /\ overflow_list' = InsertItem(DeleteItem(overflow_list, t), value, t)
              /\ sleep_list' = DeleteItem(sleep_list, t)
              /\ dos_next_wake_tick' = dos_next_wake_tick
         ELSE /\ sleep_list' = InsertItem(DeleteItem(sleep_list, t), value, t)
              /\ overflow_list' = DeleteItem(overflow_list, t)
              /\ dos_next_wake_tick' =
                   IF dos_next_wake_tick >= v THEN v ELSE dos_next_wake_tick
  BY Zenon DEF SleepCurrent
<1> HIDE DEF v
<1>3. task_status' \in [AllTasks -> SUBSET StatusBits]
  BY <1>2, Zenon DEF TypeOK, StatusBits
<1>4. /\ value \in [AllTasks -> Tick] /\ Values(value, AllTasks) /\ value[t] = v
      /\ \A u \in AllTasks \ {t} : value[u] = status_value[u]
  BY <1>1, Constants, Zenon DEF TypeOK, Values
<1>5. ReadyInv'
  <2>1. Linked(left, ReadySet \ {t}, priority') /\ ResetIfEmpty(bits, left, priority[t]) = Bits(left)
    BY UnlinkLinked, Zenon DEF ReadySet
  <2>2. ReadySet' = ReadySet \ {t}
    BY <1>2, Zenon DEF ReadySet, TypeOK
  <2>. QED
    BY <1>2, <2>1, <2>2, Zenon DEF ReadyInv
<1>4a. Values(value, AllTasks) /\ \A u \in AllTasks \ {t} : value[u] = status_value[u]
  BY <1>4, Zenon
<1> HIDE DEF value, left
<1>6. /\ sleep_list \in Seq(AllTasks) /\ overflow_list \in Seq(AllTasks)
      /\ IsInjective(sleep_list) /\ IsInjective(overflow_list)
      /\ Sorted(sleep_list, status_value) /\ Sorted(overflow_list, status_value)
  BY Zenon DEF TypeOK, DelayInv, SleepInv
<1> DEFINE sa == DeleteItem(sleep_list, t)
           sb == InsertItem(sa, value, t)
           oa == DeleteItem(overflow_list, t)
           ob == InsertItem(oa, value, t)
<1>7. \A s \in Seq(AllTasks) :
        IsInjective(s) /\ Sorted(s, status_value) =>
          LET a == DeleteItem(s, t)
              b == InsertItem(a, value, t)
          IN  /\ a \in Seq(AllTasks) /\ IsInjective(a) /\ Range(a) = Range(s) \ {t}
              /\ Sorted(a, value)
              /\ b \in Seq(AllTasks) /\ IsInjective(b) /\ Range(b) = Range(s) \cup {t}
              /\ Sorted(b, value)
  <2> DEFINE old == status_value
  <2> SUFFICES ASSUME NEW s \in Seq(AllTasks), IsInjective(s), Sorted(s, old)
               PROVE  LET a == DeleteItem(s, t)
                          b == InsertItem(a, value, t)
                      IN  /\ a \in Seq(AllTasks) /\ IsInjective(a)
                          /\ Range(a) = Range(s) \ {t} /\ Sorted(a, value)
                          /\ b \in Seq(AllTasks) /\ IsInjective(b)
                          /\ Range(b) = Range(s) \cup {t} /\ Sorted(b, value)
    BY Zenon
  <2>1. Values(value, AllTasks) /\ \A u \in AllTasks \ {t} : value[u] = old[u]
    BY <1>4a, Zenon
  <2> HIDE DEF old
  <2>. QED
    BY <2>1, Reinsert, SMTT(20)
<1>8. /\ sa \in Seq(AllTasks) /\ IsInjective(sa) /\ Range(sa) = Range(sleep_list) \ {t}
      /\ Sorted(sa, value)
      /\ sb \in Seq(AllTasks) /\ IsInjective(sb) /\ Range(sb) = Range(sleep_list) \cup {t}
      /\ Sorted(sb, value)
      /\ oa \in Seq(AllTasks) /\ IsInjective(oa) /\ Range(oa) = Range(overflow_list) \ {t}
      /\ Sorted(oa, value)
      /\ ob \in Seq(AllTasks) /\ IsInjective(ob) /\ Range(ob) = Range(overflow_list) \cup {t}
      /\ Sorted(ob, value)
  BY <1>6, <1>7, Zenon
<1>9. CASE v < dos_tick_count
  <2>1. overflow_list' = ob /\ sleep_list' = sa /\ dos_next_wake_tick' = dos_next_wake_tick
    BY <1>2, <1>9, Zenon
  <2>. HIDE DEF sa, sb, oa, ob
  <2>2. DelayInv'
    BY <1>2, <1>8, <2>1, Zenon DEF DelayInv, TypeOK
  <2>3. SleepInv'
    BY <1>2, <1>4, <1>8, <1>9, <2>1, EmptyItems, <1>6, Zenon DEF SleepInv
  <2>. QED
    BY <1>2, <1>3, <1>4, <1>5, <1>8, <2>1, <2>2, <2>3, Zenon DEF TypeOK
<1>10. CASE ~(v < dos_tick_count)
  <2>1. /\ sleep_list' = sb /\ overflow_list' = oa
        /\ dos_next_wake_tick' = IF dos_next_wake_tick >= v THEN v ELSE dos_next_wake_tick
    BY <1>2, <1>10, Zenon
  <2>. HIDE DEF sa, sb, oa, ob
  <2>2. DelayInv'
    BY <1>2, <1>8, <2>1, Zenon DEF DelayInv, TypeOK
  <2>3. SleepInv'
    <3>1. Range(sleep_list) \subseteq AllTasks /\ Range(overflow_list) \subseteq AllTasks
      BY <1>6, EmptyItems, Zenon
    <3>2. /\ dos_next_wake_tick \in Nat /\ dos_tick_count \in Nat /\ v \in Nat
          /\ \A u \in AllTasks : status_value[u] \in Nat
      BY <1>1, Constants, Zenon DEF TypeOK
    <3>3. ASSUME NEW u \in Range(sleep_list')
          PROVE  dos_next_wake_tick' <= value[u] /\ value[u] > dos_tick_count
      <4>1. CASE u = t
        BY <1>1, <1>4, <1>10, <2>1, <3>2, <4>1
      <4>2. CASE u # t
        <5>1. u \in Range(sleep_list) /\ u \in AllTasks /\ value[u] = status_value[u]
          BY <1>4, <1>8, <2>1, <3>1, <4>2, Zenon
        <5>2. dos_next_wake_tick <= status_value[u] /\ status_value[u] > dos_tick_count
          BY <5>1, Zenon DEF SleepInv
        <5>. QED
          BY <2>1, <3>2, <5>1, <5>2
      <4>. QED
        BY <4>1, <4>2, Zenon
    <3>4. \A u \in Range(overflow_list') : value[u] < dos_tick_count
      BY <1>4, <1>8, <2>1, <3>1, Zenon DEF SleepInv
    <3>5. dos_next_wake_tick' > dos_tick_count \/ dos_next_wake_tick' = UINT32_MAX
      BY <1>1, <1>10, <2>1, <3>2, Zenon DEF SleepInv
    <3>. QED
      BY <1>2, <1>8, <2>1, <3>3, <3>4, <3>5, Zenon DEF SleepInv
  <2>. QED
    BY <1>1, <1>2, <1>3, <1>4, <1>5, <1>8, <2>1, <2>2, <2>3, Zenon DEF TypeOK
<1>. QED
  BY <1>9, <1>10, Zenon

(* The FOREVER branch of dos_task_wait. *)
LEMMA BlockEffect ==
  ASSUME TypeOK, DelayInv, SleepInv,
         isr' = isr, dos_tick_count' = dos_tick_count,
         NEW t \in AllTasks, t = dos_current_task, NEW st \in SUBSET StatusBits,
         "DELAY" \in st <=> "DELAY" \in task_status[t],
         NEW bits, NEW lists, priority' \in [AllTasks -> Prio],
         priority'[t] = priority[t],
         Linked(lists, ReadySet, priority'), bits = Bits(lists),
         BlockCurrent(st, bits, lists)
  PROVE  /\ task_status' = [task_status EXCEPT ![t] = st \ {"READY"}]
         /\ task_status' \in [AllTasks -> SUBSET StatusBits]
         /\ UNCHANGED <<status_value, sleep_list, overflow_list, dos_next_wake_tick>>
         /\ ReadyInv' /\ DelayInv' /\ SleepInv'
<1> DEFINE left == UnlinkReady(lists, t, priority[t])
<1>1. /\ task_status' = [task_status EXCEPT ![t] = st \ {"READY"}]
      /\ dos_task_priority_list' = left
      /\ dos_task_priority' = ResetIfEmpty(bits, left, priority[t])
      /\ UNCHANGED <<status_value, sleep_list, overflow_list, dos_next_wake_tick>>
  BY Zenon DEF BlockCurrent, sleepVars
<1>2. task_status' \in [AllTasks -> SUBSET StatusBits]
  BY <1>1, Zenon DEF TypeOK, StatusBits
<1>3. ReadyInv'
  <2>1. Linked(left, ReadySet \ {t}, priority') /\ ResetIfEmpty(bits, left, priority[t]) = Bits(left)
    BY UnlinkLinked, Zenon DEF ReadySet
  <2>2. ReadySet' = ReadySet \ {t}
    BY <1>1, Zenon DEF ReadySet, TypeOK
  <2>. QED
    BY <1>1, <2>1, <2>2, Zenon DEF ReadyInv
<1>4. DelayInv'
  BY <1>1, Zenon DEF DelayInv, TypeOK
<1>5. SleepInv'
  BY <1>1, Zenon DEF SleepInv
<1>. QED
  BY <1>1, <1>2, <1>3, <1>4, <1>5, Zenon

(* dos_task_wake of the first task of the pend list.                       *)
LEMMA WakeEffect ==
  ASSUME TypeOK, DelayInv, PendInv, SleepInv,
         isr' = isr, dos_tick_count' = dos_tick_count,
         pend_list # << >>,
         NEW bits, NEW lists, priority' \in [AllTasks -> Prio],
         Linked(lists, ReadySet, priority'), bits = Bits(lists),
         Wake(Head(pend_list), bits, lists)
  PROVE  /\ \E t \in AllTasks :
              /\ "SUSPEND" \in task_status[t]
              /\ task_status' = [task_status EXCEPT ![t] =
                                   (@ \ {"SUSPEND", "DELAY"}) \cup {"READY"}]
         /\ task_status' \in [AllTasks -> SUBSET StatusBits]
         /\ UNCHANGED <<status_value, dos_next_wake_tick>>
         /\ sleep_list' \in Seq(AllTasks) /\ overflow_list' \in Seq(AllTasks)
         /\ pend_list' \in Seq(AllTasks)
         /\ ReadyInv' /\ DelayInv' /\ PendInv' /\ SleepInv'
<1>1. PICK t \in AllTasks : t = Head(pend_list) /\ t \in Range(pend_list)
  BY HeadTailProps, Zenon DEF TypeOK
<1> DEFINE p == priority'[t]
           new == LinkReady(UnlinkReady(lists, t, p), status_value, t, p)
<1>2. /\ pend_list' = DeleteItem(pend_list, t)
      /\ task_status' = [task_status EXCEPT ![t] =
                            (@ \ {"SUSPEND", "DELAY"}) \cup {"READY"}]
      /\ dos_task_priority' = bits \cup {p}
      /\ dos_task_priority_list' = new
      /\ sleep_list' = DeleteItem(sleep_list, t)
      /\ overflow_list' = DeleteItem(overflow_list, t)
      /\ UNCHANGED <<status_value, dos_next_wake_tick>>
  BY <1>1, Zenon DEF Wake
<1>3. task_status' \in [AllTasks -> SUBSET StatusBits]
  BY <1>2, Zenon DEF TypeOK, StatusBits
<1>4. ReadyInv'
  <2>1. ReadySet \in SUBSET AllTasks /\ Values(status_value, AllTasks)
    BY Constants, Zenon DEF ReadySet, Values, TypeOK
  <2>3. Adds(ReadySet', ReadySet, t)
    BY <1>2, Zenon DEF ReadySet, TypeOK, Adds
  <2>2. Linked(new, ReadySet', priority') /\ Bits(lists) \cup {p} = Bits(new)
    BY <2>1, <2>3, WakeLinked
  <2> HIDE DEF new, p
  <2>. QED
    BY <1>2, <2>2, Zenon DEF ReadyInv
<1> HIDE DEF new, p
<1>5. /\ sleep_list' \in Seq(AllTasks) /\ IsInjective(sleep_list')
      /\ Range(sleep_list') = Range(sleep_list) \ {t} /\ Sorted(sleep_list', status_value)
  BY <1>2, DeleteItemProps, Zenon DEF TypeOK, DelayInv, SleepInv
<1>6. /\ overflow_list' \in Seq(AllTasks) /\ IsInjective(overflow_list')
      /\ Range(overflow_list') = Range(overflow_list) \ {t} /\ Sorted(overflow_list', status_value)
  BY <1>2, DeleteItemProps, Zenon DEF TypeOK, DelayInv, SleepInv
<1>7. /\ pend_list' \in Seq(AllTasks) /\ IsInjective(pend_list')
      /\ Range(pend_list') = Range(pend_list) \ {t}
  BY <1>2, DeleteItemProps, Zenon DEF TypeOK, PendInv
<1>8. DelayInv'
  BY <1>2, <1>5, <1>6, Zenon DEF DelayInv, TypeOK
<1>9. PendInv'
  BY <1>2, <1>7, Zenon DEF PendInv, TypeOK
<1>10. SleepInv'
  BY <1>2, <1>5, <1>6, Zenon DEF SleepInv
<1>11. "SUSPEND" \in task_status[t]
  BY <1>1, Zenon DEF PendInv
<1>. QED
  BY <1>2, <1>3, <1>4, <1>5, <1>6, <1>7, <1>8, <1>9, <1>10, <1>11, Zenon

-----------------------------------------------------------------------------
(* dos_task_sleep. *)
LEMMA SleepStep ==
  ASSUME IInv, NEW t \in Tasks, NEW n \in SleepTicks, Sleep(t, n)
  PROVE  IInv'
<1>1. /\ TypeOK /\ ReadyInv /\ DelayInv /\ PendInv /\ CallInv /\ SleepInv
      /\ t \in AllTasks /\ t = dos_current_task /\ isr = "none" /\ pc[t] = "app"
      /\ n \in Tick \ {0}
      /\ UNCHANGED <<priority, pend_list, dos_tick_count, dos_current_task,
                     scheduler_lock, isr, pc, hp>>
  BY Constants, SchedAssumption, Zenon DEF IInv, Sleep, InApp, Running
<1>2. /\ task_status[t] \in SUBSET StatusBits
      /\ priority' \in [AllTasks -> Prio] /\ priority'[t] = priority[t]
      /\ Linked(dos_task_priority_list, ReadySet, priority')
      /\ dos_task_priority = Bits(dos_task_priority_list)
  BY <1>1, Zenon DEF TypeOK, ReadyInv
<1>3. SleepCurrent(task_status[t], n, dos_task_priority, dos_task_priority_list) /\ Scheduler
  BY Zenon DEF Sleep
<1>4. /\ task_status' = [task_status EXCEPT ![t] = (task_status[t] \ {"READY"}) \cup {"DELAY"}]
      /\ task_status' \in [AllTasks -> SUBSET StatusBits]
      /\ status_value' \in [AllTasks -> Tick]
      /\ sleep_list' \in Seq(AllTasks) /\ overflow_list' \in Seq(AllTasks)
      /\ dos_next_wake_tick' \in Tick
      /\ ReadyInv' /\ DelayInv' /\ SleepInv'
  <2> DEFINE st == task_status[t]
             bits == dos_task_priority
             lists == dos_task_priority_list
  <2>1. /\ st \in SUBSET StatusBits /\ Linked(lists, ReadySet, priority')
        /\ bits = Bits(lists) /\ SleepCurrent(st, n, bits, lists)
    BY <1>2, <1>3, Zenon
  <2>2. st = task_status[t]
    BY Zenon
  <2> HIDE DEF st, bits, lists
  <2>. QED
    BY <1>1, <1>2, <2>1, <2>2, SleepEffect, ZenonT(40)
<1>5. dos_task_priority' \subseteq Prio /\ dos_task_priority_list' \in [Prio -> ListType]
  BY <1>4, Zenon DEF ReadyInv, Linked, Bits
<1>6. /\ dos_cur_priority' \in Prio /\ pendsv' \in BOOLEAN
      /\ task_tick' \in [AllTasks -> Nat] /\ \A u \in AllTasks : task_tick'[u] # 0
      /\ scheduler_lock # 0 => pendsv' = pendsv
  BY <1>1, <1>3, <1>5, SchedulerEffect, Zenon
<1>7. TypeOK'
  BY <1>1, <1>2, <1>4, <1>5, <1>6, Zenon DEF TypeOK
<1>8. PendInv'
  BY <1>1, <1>4, Zenon DEF PendInv, TypeOK
<1>9. CallInv'
  BY <1>1, <1>4, <1>6 DEF CallInv, TypeOK
<1>. QED
  BY <1>4, <1>7, <1>8, <1>9, Zenon DEF IInv

(* A step that leaves every list, status and value alone leaves these      *)
(* parts alone.                                                            *)
LEMMA QuietParts ==
  ASSUME IInv, UNCHANGED <<task_status, priority, dos_task_priority,
                           dos_task_priority_list, sleep_list, overflow_list,
                           status_value, dos_next_wake_tick, pend_list>>
  PROVE  /\ ReadyInv' /\ DelayInv' /\ PendInv'
         /\ UNCHANGED <<dos_tick_count, isr>> => SleepInv'
BY Zenon DEF IInv, ReadyInv, ReadySet, DelayInv, PendInv, SleepInv

(* dos_task_sleep(0), dos_scheduler_lock and dos_scheduler_unlock.         *)
LEMMA YieldStep ==
  ASSUME IInv, NEW t \in Tasks, Yield(t)
  PROVE  IInv'
<1>1. TypeOK /\ CallInv /\ t \in AllTasks /\ t = dos_current_task /\ pc[t] = "app" /\ isr = "none"
  BY Constants, Zenon DEF IInv, Yield, InApp, Running
<1>2. ReadyInv' /\ DelayInv' /\ PendInv' /\ SleepInv'
  BY QuietParts, Zenon DEF Yield, readyVars, sleepVars
<1>3. TypeOK'
  BY <1>1, Zenon DEF TypeOK, Yield, readyVars, sleepVars, schedVars, PcValues
<1>4. CallInv'
  BY <1>1, Zenon DEF CallInv, TypeOK, Yield, readyVars, sleepVars, schedVars
<1>. QED
  BY <1>2, <1>3, <1>4, Zenon DEF IInv

(* dos_scheduler_lock keeps the invariant.                                 *)
LEMMA LockStep ==
  ASSUME IInv, NEW t \in Tasks, Lock(t)
  PROVE  IInv'
<1>1. TypeOK /\ CallInv /\ t \in AllTasks /\ t = dos_current_task /\ pc[t] = "app"
      /\ isr = "none" /\ ~pendsv
  BY Constants, Zenon DEF IInv, Lock, InApp, Running
<1>2. ReadyInv' /\ DelayInv' /\ PendInv' /\ SleepInv'
  BY QuietParts, Zenon DEF Lock, readyVars, sleepVars
<1>3. TypeOK'
  BY <1>1, SchedAssumption DEF TypeOK, Lock, readyVars, sleepVars, schedVars
<1>4. CallInv'
  BY <1>1, Zenon DEF CallInv, TypeOK, Lock, readyVars, sleepVars, schedVars
<1>. QED
  BY <1>2, <1>3, <1>4, Zenon DEF IInv

(* dos_scheduler_unlock keeps the invariant.                               *)
LEMMA UnlockStep ==
  ASSUME IInv, NEW t \in Tasks, Unlock(t)
  PROVE  IInv'
<1>1. TypeOK /\ CallInv /\ t \in AllTasks /\ t = dos_current_task /\ pc[t] = "app"
      /\ isr = "none" /\ ~pendsv
  BY Constants, Zenon DEF IInv, Unlock, InApp, Running
<1>2. ReadyInv' /\ DelayInv' /\ PendInv' /\ SleepInv'
  BY QuietParts, Zenon DEF Unlock, readyVars, sleepVars
<1>3. TypeOK'
  BY <1>1, SchedAssumption DEF TypeOK, Unlock, readyVars, sleepVars, schedVars, PcValues
<1>4. CallInv'
  BY <1>1, SchedAssumption, Zenon DEF CallInv, TypeOK, Unlock, readyVars, sleepVars, schedVars
<1>. QED
  BY <1>2, <1>3, <1>4, Zenon DEF IInv

(* dos_scheduler with interrupts enabled, in its two halves.               *)
LEMMA SchedReadStep ==
  ASSUME IInv, NEW t \in Tasks, SchedRead(t)
  PROVE  IInv'
<1>1. TypeOK /\ CallInv /\ t \in AllTasks /\ t = dos_current_task
      /\ isr = "none" /\ ~pendsv /\ pc[t] \in {"sched", "waitsched"}
  BY Constants, Zenon DEF IInv, SchedRead, Running
<1>2. ReadyInv' /\ DelayInv' /\ PendInv' /\ SleepInv'
  BY QuietParts, Zenon DEF SchedRead, readyVars, sleepVars
<1>3. HighestPriority(dos_task_priority) \in Prio
  BY <1>1, HighestIsPrio, Zenon DEF TypeOK
<1>4. UNCHANGED <<task_status, priority, readyVars, sleepVars, pend_list,
                 schedVars, dos_tick_count, dos_current_task, scheduler_lock, isr>>
  BY Zenon DEF SchedRead
<1>5. CASE scheduler_lock = 0
  <2>1. /\ hp' = [hp EXCEPT ![t] = HighestPriority(dos_task_priority)]
        /\ pc' = [pc EXCEPT ![t] = IF pc[t] = "sched" THEN "check" ELSE "waitcheck"]
    BY <1>5, Zenon DEF SchedRead
  <2>2. TypeOK'
    BY <1>1, <1>3, <1>4, <2>1, Zenon DEF TypeOK, readyVars, sleepVars, schedVars, PcValues
  <2>3. CallInv'
    BY <1>1, <1>4, <1>5, <2>1 DEF CallInv, TypeOK, readyVars, sleepVars, schedVars
  <2>. QED
    BY <1>2, <2>2, <2>3, Zenon DEF IInv
<1>6. CASE scheduler_lock # 0
  <2>1. scheduler_lock > 0
    BY <1>1, <1>6, SchedAssumption DEF TypeOK
  <2>2. pc[t] = "sched"
    BY <1>1, <2>1, Zenon DEF CallInv
  <2>3. hp' = hp /\ pc' = [pc EXCEPT ![t] = "app"]
    BY <1>6, <2>2, Zenon DEF SchedRead, AfterSched
  <2>4. TypeOK'
    BY <1>1, <1>4, <2>3, Zenon DEF TypeOK, readyVars, sleepVars, schedVars, PcValues
  <2>5. CallInv'
    BY <1>1, <1>4, <2>1, <2>2, <2>3, Zenon DEF CallInv, TypeOK, readyVars, sleepVars, schedVars
  <2>. QED
    BY <1>2, <2>4, <2>5, Zenon DEF IInv
<1>. QED
  BY <1>5, <1>6, Zenon

(* The second half of dos_scheduler keeps the invariant.                   *)
LEMMA SchedCheckStep ==
  ASSUME IInv, NEW t \in Tasks, SchedCheck(t)
  PROVE  IInv'
<1>1. TypeOK /\ CallInv /\ t \in AllTasks /\ t = dos_current_task
      /\ isr = "none" /\ ~pendsv /\ pc[t] \in {"check", "waitcheck"}
      /\ pc' = [pc EXCEPT ![t] = IF pc[t] = "check" THEN "app" ELSE "woken"]
      /\ hp' = [hp EXCEPT ![t] = 0]
      /\ UNCHANGED <<task_status, priority, readyVars, sleepVars, pend_list,
                 dos_tick_count, dos_current_task, scheduler_lock, isr>>
  BY Constants, Zenon DEF IInv, SchedCheck, Running, AfterSched
<1>2. ReadyInv' /\ DelayInv' /\ PendInv' /\ SleepInv'
  BY <1>1, QuietParts, Zenon DEF readyVars, sleepVars
<1>3. hp[t] \in Prio /\ CheckTaskPriority(hp[t])
  BY <1>1, Zenon DEF TypeOK, SchedCheck
<1>4. /\ dos_cur_priority' \in Prio /\ pendsv' \in BOOLEAN
      /\ task_tick' \in [AllTasks -> Nat] /\ \A u \in AllTasks : task_tick'[u] # 0
      /\ "READY" \notin task_status'[dos_current_task] => pendsv'
  BY <1>1, <1>3, CheckEffect, Zenon
<1>5. scheduler_lock = 0
  BY <1>1, SchedAssumption DEF CallInv, TypeOK
<1>6. TypeOK'
  BY <1>1, <1>4, Constants, Zenon DEF TypeOK, readyVars, sleepVars, PcValues
<1>7. CallInv'
  BY <1>1, <1>4, <1>5, Zenon DEF CallInv, TypeOK, readyVars, sleepVars
<1>. QED
  BY <1>2, <1>6, <1>7, Zenon DEF IInv

(* The blocking calls: dos_task_wait, with or without the boost of the     *)
(* mutex's owner.                                                          *)
LEMMA WaitStep ==
  ASSUME IInv, NEW t \in Tasks, NEW timeout \in Timeouts,
         NEW u \in (Tasks \ {t}) \cup {NoTask}, Wait(t, timeout, u)
  PROVE  IInv'
<1> DEFINE lists == IF u = NoTask THEN dos_task_priority_list
                    ELSE MovedLists(u, priority[t])
           bits == IF u = NoTask THEN dos_task_priority
                   ELSE MovedBits(u, priority[t])
           st == task_status[t] \cup {"SUSPEND"}
<1>1. /\ TypeOK /\ ReadyInv /\ DelayInv /\ PendInv /\ CallInv /\ SleepInv
      /\ t \in AllTasks /\ t = dos_current_task /\ isr = "none" /\ pc[t] = "app"
      /\ ~pendsv /\ scheduler_lock = 0 /\ timeout \in Tick \ {0}
      /\ pend_list' = InsertItem(pend_list, BasePrio, t)
      /\ pc' = [pc EXCEPT ![t] = "waitsched"]
      /\ UNCHANGED <<schedVars, dos_tick_count, dos_current_task, scheduler_lock, isr, hp>>
  BY Constants, SchedAssumption, Zenon DEF IInv, Wait, InApp, Running
<1>2. /\ priority' \in [AllTasks -> Prio] /\ priority'[t] = priority[t]
      /\ Linked(lists, ReadySet, priority') /\ bits = Bits(lists)
  <2>1. CASE u = NoTask
    BY <1>1, <2>1, Zenon DEF Wait, TypeOK, ReadyInv
  <2>2. CASE u # NoTask
    <3>1. u \in AllTasks /\ u # t /\ priority[t] \in Prio
          /\ priority' = [priority EXCEPT ![u] = priority[t]]
      BY <1>1, <2>2, Constants, Zenon DEF Wait, TypeOK
    <3>2. /\ Linked(MovedLists(u, priority[t]), ReadySet, [priority EXCEPT ![u] = priority[t]])
          /\ MovedBits(u, priority[t]) = Bits(MovedLists(u, priority[t]))
      BY <1>1, <3>1, MovedLinked, Zenon
    <3>. QED
      BY <1>1, <2>2, <3>1, <3>2, Zenon DEF TypeOK
  <2>. QED
    BY <2>1, <2>2, Zenon
<1>3. st \in SUBSET StatusBits
  BY <1>1, Zenon DEF TypeOK, StatusBits
<1>4. IF timeout = WAIT_FOREVER THEN BlockCurrent(st, bits, lists)
      ELSE SleepCurrent(st, timeout, bits, lists)
  BY Zenon DEF Wait
<1> HIDE DEF lists, bits
<1>5. /\ \E d \in SUBSET {"DELAY"} :
             task_status' = [task_status EXCEPT ![t] = (st \ {"READY"}) \cup d]
      /\ task_status' \in [AllTasks -> SUBSET StatusBits]
      /\ status_value' \in [AllTasks -> Tick]
      /\ sleep_list' \in Seq(AllTasks) /\ overflow_list' \in Seq(AllTasks)
      /\ dos_next_wake_tick' \in Tick
      /\ ReadyInv' /\ DelayInv' /\ SleepInv'
  <2>1. CASE timeout = WAIT_FOREVER
    <3>1. BlockCurrent(st, bits, lists) /\ ("DELAY" \in st <=> "DELAY" \in task_status[t])
      BY <1>4, <2>1, Zenon
    <3>2. /\ task_status' = [task_status EXCEPT ![t] = st \ {"READY"}]
          /\ task_status' \in [AllTasks -> SUBSET StatusBits]
          /\ UNCHANGED <<status_value, sleep_list, overflow_list, dos_next_wake_tick>>
          /\ ReadyInv' /\ DelayInv' /\ SleepInv'
      BY <1>1, <1>2, <1>3, <3>1, BlockEffect, Zenon
    <3>3. st \ {"READY"} = (st \ {"READY"}) \cup {}
      BY Zenon
    <3>. QED
      BY <1>1, <3>2, <3>3, Zenon DEF TypeOK
  <2>2. CASE timeout # WAIT_FOREVER
    <3>1. SleepCurrent(st, timeout, bits, lists)
      BY <1>4, <2>2, Zenon
    <3>. QED
      BY <1>1, <1>2, <1>3, <3>1, SleepEffect, Zenon
  <2>. QED
    BY <2>1, <2>2, Zenon
<1>6. t \notin Range(pend_list)
  BY <1>1, Zenon DEF CallInv, PendInv
<1>7. pend_list' \in Seq(AllTasks) /\ Range(pend_list') = Range(pend_list) \cup {t}
      /\ IsInjective(pend_list')
  <2>1. pend_list \in Seq(AllTasks) /\ IsInjective(pend_list) /\ Values(BasePrio, AllTasks)
    BY <1>1, Constants, Zenon DEF TypeOK, PendInv, Values
  <2>. QED
    BY <1>1, <1>6, <2>1, InsertItemProps
<1>8. PendInv'
  <2>1. PICK d \in SUBSET {"DELAY"} :
          task_status' = [task_status EXCEPT ![t] = (st \ {"READY"}) \cup d]
    BY <1>5, Zenon
  <2>2. "SUSPEND" \in task_status'[t]
        /\ \A x \in AllTasks \ {t} : task_status'[x] = task_status[x]
    BY <1>1, <2>1, Zenon DEF TypeOK
  <2>. QED
    BY <1>1, <1>7, <2>2, Zenon DEF PendInv
<1>9. TypeOK'
  <2>1. dos_task_priority' \subseteq Prio /\ dos_task_priority_list' \in [Prio -> ListType]
    BY <1>5, Zenon DEF ReadyInv, Linked, Bits
  <2>. QED
    BY <1>1, <1>2, <1>5, <1>7, <2>1, Zenon DEF TypeOK, schedVars, PcValues
<1>10. CallInv'
  <2>1. PICK d \in SUBSET {"DELAY"} :
          task_status' = [task_status EXCEPT ![t] = (st \ {"READY"}) \cup d]
    BY <1>5, Zenon
  <2>2. /\ "SUSPEND" \in task_status'[t]
        /\ "READY" \notin task_status'[t] /\ "TIMEOUT" \notin task_status'[t]
        /\ \A x \in AllTasks \ {t} : task_status'[x] = task_status[x]
    BY <1>1, <2>1, Zenon DEF TypeOK, CallInv
  <2>. HIDE DEF st
  <2>3. pc'[t] = "waitsched" /\ \A x \in AllTasks \ {t} : pc'[x] = pc[x]
    BY <1>1, Zenon DEF TypeOK
  <2>4. /\ task_tick' = task_tick /\ pendsv' = pendsv /\ dos_current_task' = dos_current_task
        /\ scheduler_lock' = 0 /\ isr' = "none"
    BY <1>1, Zenon DEF schedVars
  <2>5. \A x \in AllTasks : task_tick[x] # 0
    BY <1>1, Zenon DEF CallInv
  <2>6. ASSUME NEW x \in AllTasks
        PROVE  /\ pc'[x] \in {"app", "sched", "check"} =>
                    "SUSPEND" \notin task_status'[x] /\ "TIMEOUT" \notin task_status'[x]
               /\ "TIMEOUT" \in task_status'[x] => "READY" \in task_status'[x]
               /\ {"READY", "SUSPEND"} \subseteq task_status'[x] => "TIMEOUT" \in task_status'[x]
               /\ (pc'[x] = "woken" /\ x = dos_current_task /\ ~pendsv) => "READY" \in task_status'[x]
    <3>1. CASE x = t
      BY <2>2, <2>3, <3>1, Zenon
    <3>2. CASE x # t
      <4>1. pc'[x] = pc[x] /\ task_status'[x] = task_status[x]
        BY <2>2, <2>3, <3>2, Zenon
      <4>. QED
        BY <1>1, <4>1, Zenon DEF CallInv
    <3>. QED
      BY <3>1, <3>2, Zenon
  <2>. QED
    BY <2>4, <2>5, <2>6 DEF CallInv
<1>. QED
  BY <1>5, <1>8, <1>9, <1>10, Zenon DEF IInv

(* The return of a blocking call.                                          *)
LEMMA WaitReturnStep ==
  ASSUME IInv, NEW t \in Tasks, WaitReturn(t)
  PROVE  IInv'
<1>1. /\ TypeOK /\ ReadyInv /\ DelayInv /\ PendInv /\ CallInv /\ SleepInv
      /\ t \in AllTasks /\ t = dos_current_task /\ isr = "none" /\ pc[t] = "woken"
      /\ ~pendsv /\ "READY" \in task_status[t]
      /\ pc' = [pc EXCEPT ![t] = "app"]
      /\ UNCHANGED <<priority, readyVars, sleepVars, schedVars, dos_tick_count,
                     dos_current_task, scheduler_lock, isr, hp>>
  BY Constants, Zenon DEF IInv, WaitReturn, Running, CallInv
<1>2. CASE "TIMEOUT" \in task_status[t]
  <2>1. /\ task_status' = [task_status EXCEPT ![t] =
                              (task_status[t] \ {"TIMEOUT", "SUSPEND"}) \cup {"READY"}]
        /\ pend_list' = DeleteItem(pend_list, t)
    BY <1>2, Zenon DEF WaitReturn
  <2>2. pend_list' \in Seq(AllTasks) /\ IsInjective(pend_list')
        /\ Range(pend_list') = Range(pend_list) \ {t}
    BY <1>1, <2>1, DeleteItemProps, Zenon DEF TypeOK, PendInv
  <2>3. TypeOK'
    BY <1>1, <2>1, <2>2, Zenon DEF TypeOK, readyVars, sleepVars, schedVars, StatusBits, PcValues
  <2>4. ReadyInv'
    <3>1. ReadySet' = ReadySet
      BY <1>1, <2>1, Zenon DEF ReadySet, TypeOK
    <3>. QED
      BY <1>1, <3>1, Zenon DEF ReadyInv, readyVars
  <2>5. DelayInv' /\ PendInv' /\ SleepInv'
    BY <1>1, <2>1, <2>2, Zenon DEF DelayInv, PendInv, SleepInv, TypeOK, sleepVars
  <2>6. CallInv'
    BY <1>1, <2>1, Zenon DEF CallInv, TypeOK, sleepVars, schedVars
  <2>. QED
    BY <2>3, <2>4, <2>5, <2>6, Zenon DEF IInv
<1>3. CASE "TIMEOUT" \notin task_status[t]
  <2>1. UNCHANGED <<task_status, pend_list>>
    BY <1>3, Zenon DEF WaitReturn
  <2>2. ReadyInv' /\ DelayInv' /\ PendInv' /\ SleepInv'
    BY <1>1, <2>1, QuietParts, Zenon DEF readyVars, sleepVars
  <2>3. TypeOK'
    BY <1>1, <2>1, Zenon DEF TypeOK, readyVars, sleepVars, schedVars, PcValues
  <2>4. CallInv'
    BY <1>1, <1>3, <2>1, Zenon DEF CallInv, TypeOK, sleepVars, schedVars
  <2>. QED
    BY <2>2, <2>3, <2>4, Zenon DEF IInv
<1>. QED
  BY <1>2, <1>3, Zenon

(* A woken task was inside a blocking call and becomes ready; nothing else *)
(* that CallInv speaks of changes.                                         *)
LEMMA WokenCallInv ==
  ASSUME TypeOK, CallInv, isr # "boot",
         \E u \in AllTasks :
           /\ "SUSPEND" \in task_status[u]
           /\ task_status' = [task_status EXCEPT ![u] =
                                (@ \ {"SUSPEND", "DELAY"}) \cup {"READY"}],
         \A u \in AllTasks : task_tick'[u] # 0,
         UNCHANGED <<dos_current_task, scheduler_lock, isr>>,
         pendsv' \in BOOLEAN, pendsv => pendsv',
         scheduler_lock > 0 => pendsv' = pendsv,
         pc' \in [AllTasks -> PcValues],
         \A u \in AllTasks :
           pc'[u] = pc[u] \/ (/\ pc[u] = "app" /\ pc'[u] = "sched")
  PROVE  CallInv'
<1>1. PICK u \in AllTasks :
           /\ "SUSPEND" \in task_status[u]
           /\ task_status' = [task_status EXCEPT ![u] =
                                (task_status[u] \ {"SUSPEND", "DELAY"}) \cup {"READY"}]
  BY Zenon
<1>. QED
  BY <1>1, Zenon DEF CallInv, TypeOK

(* dos_check_task_priority never cancels a pending PendSV.                 *)
LEMMA PendsvKept ==
  ASSUME NEW h, CheckTaskPriority(h)
  PROVE  pendsv => pendsv'
BY Zenon DEF CheckTaskPriority

(* dos_sem_post and dos_mutex_post. *)
LEMMA PostStep ==
  ASSUME IInv, NEW t \in Tasks, NEW restore \in BOOLEAN, Post(t, restore)
  PROVE  IInv'
<1> DEFINE lists == IF restore THEN MovedLists(t, BasePrio[t])
                    ELSE dos_task_priority_list
           bits == IF restore THEN MovedBits(t, BasePrio[t])
                   ELSE dos_task_priority
<1>1. /\ TypeOK /\ ReadyInv /\ DelayInv /\ PendInv /\ CallInv /\ SleepInv
      /\ t \in AllTasks /\ t = dos_current_task /\ isr = "none" /\ pc[t] = "app"
      /\ BasePrio[t] \in Prio
      /\ UNCHANGED <<schedVars, dos_tick_count, dos_current_task, scheduler_lock, isr, hp>>
  BY Constants, Zenon DEF IInv, Post, InApp, Running
<1>2. /\ priority' \in [AllTasks -> Prio]
      /\ Linked(lists, ReadySet, priority') /\ bits = Bits(lists)
  <2>1. CASE ~restore
    BY <1>1, <2>1, Zenon DEF Post, TypeOK, ReadyInv
  <2>2. CASE restore
    <3>1. priority' = [priority EXCEPT ![t] = BasePrio[t]]
      BY <2>2, Zenon DEF Post
    <3>2. /\ Linked(MovedLists(t, BasePrio[t]), ReadySet, [priority EXCEPT ![t] = BasePrio[t]])
          /\ MovedBits(t, BasePrio[t]) = Bits(MovedLists(t, BasePrio[t]))
      BY <1>1, MovedLinked, Zenon
    <3>. QED
      BY <1>1, <2>2, <3>1, <3>2, Zenon DEF TypeOK
  <2>. QED
    BY <2>1, <2>2, Zenon
<1>3. IF pend_list # << >>
      THEN /\ Wake(Head(pend_list), bits, lists)
           /\ pc' = [pc EXCEPT ![t] = "sched"]
      ELSE /\ dos_task_priority' = bits
           /\ dos_task_priority_list' = lists
           /\ UNCHANGED <<pend_list, task_status, sleepVars, pc>>
  BY Zenon DEF Post
<1> HIDE DEF lists, bits
<1>4. CASE pend_list # << >>
  <2>1. Wake(Head(pend_list), bits, lists) /\ pc' = [pc EXCEPT ![t] = "sched"]
    BY <1>3, <1>4, Zenon
  <2>2. /\ \E u \in AllTasks :
              /\ "SUSPEND" \in task_status[u]
              /\ task_status' = [task_status EXCEPT ![u] =
                                   (@ \ {"SUSPEND", "DELAY"}) \cup {"READY"}]
        /\ task_status' \in [AllTasks -> SUBSET StatusBits]
        /\ UNCHANGED <<status_value, dos_next_wake_tick>>
        /\ sleep_list' \in Seq(AllTasks) /\ overflow_list' \in Seq(AllTasks)
        /\ pend_list' \in Seq(AllTasks)
        /\ ReadyInv' /\ DelayInv' /\ PendInv' /\ SleepInv'
    BY <1>1, <1>2, <1>4, <2>1, WakeEffect, Zenon
  <2>3. dos_task_priority' \subseteq Prio /\ dos_task_priority_list' \in [Prio -> ListType]
    BY <2>2, Zenon DEF ReadyInv, Linked, Bits
  <2>4. TypeOK'
    BY <1>1, <1>2, <2>1, <2>2, <2>3, Zenon DEF TypeOK, schedVars, PcValues
  <2>5. CallInv'
    <3>1. /\ \A u \in AllTasks : task_tick'[u] # 0
          /\ pendsv' \in BOOLEAN /\ pendsv' = pendsv
          /\ pc' \in [AllTasks -> PcValues]
          /\ \A u \in AllTasks : pc'[u] = pc[u] \/ (pc[u] = "app" /\ pc'[u] = "sched")
      BY <1>1, <2>1, <2>4, Zenon DEF CallInv, TypeOK, schedVars
    <3>. QED
      BY <1>1, <2>2, <3>1, WokenCallInv, Zenon
  <2>. QED
    BY <2>2, <2>4, <2>5, Zenon DEF IInv
<1>5. CASE pend_list = << >>
  <2>1. /\ dos_task_priority' = bits /\ dos_task_priority_list' = lists
        /\ UNCHANGED <<pend_list, task_status, sleepVars, pc>>
    BY <1>3, <1>5, Zenon
  <2>2. ReadyInv'
    BY <1>2, <2>1, Zenon DEF ReadyInv, ReadySet
  <2>3. DelayInv' /\ PendInv' /\ SleepInv'
    BY <1>1, <2>1, Zenon DEF DelayInv, PendInv, SleepInv, sleepVars
  <2>4. dos_task_priority' \subseteq Prio /\ dos_task_priority_list' \in [Prio -> ListType]
    BY <2>2, Zenon DEF ReadyInv, Linked, Bits
  <2>5. TypeOK'
    BY <1>1, <1>2, <2>1, <2>4, Zenon DEF TypeOK, sleepVars, schedVars
  <2>6. CallInv'
    BY <1>1, <2>1, Zenon DEF CallInv, sleepVars, schedVars
  <2>. QED
    BY <2>2, <2>3, <2>5, <2>6, Zenon DEF IInv
<1>. QED
  BY <1>4, <1>5, Zenon

(* A device interrupt that posts, on top of a task or of the tick handler. *)
LEMMA DeviceISRStep ==
  ASSUME IInv, DeviceISR
  PROVE  IInv'
<1>1. /\ TypeOK /\ ReadyInv /\ DelayInv /\ PendInv /\ CallInv /\ SleepInv
      /\ dos_current_task # NoTask /\ pend_list # << >>
      /\ UNCHANGED <<priority, dos_tick_count, dos_current_task, scheduler_lock,
                     isr, pc, hp>>
      /\ Wake(Head(pend_list), dos_task_priority, dos_task_priority_list)
      /\ IF isr = "loop" THEN UNCHANGED schedVars ELSE Scheduler
  BY Zenon DEF IInv, DeviceISR
<1>2. dos_current_task \in AllTasks /\ isr # "boot"
  BY <1>1, Zenon DEF TypeOK, CallInv
<1>3. /\ priority' \in [AllTasks -> Prio]
      /\ Linked(dos_task_priority_list, ReadySet, priority')
      /\ dos_task_priority = Bits(dos_task_priority_list)
  BY <1>1, Zenon DEF TypeOK, ReadyInv
<1>4. /\ \E u \in AllTasks :
            /\ "SUSPEND" \in task_status[u]
            /\ task_status' = [task_status EXCEPT ![u] =
                                 (@ \ {"SUSPEND", "DELAY"}) \cup {"READY"}]
      /\ task_status' \in [AllTasks -> SUBSET StatusBits]
      /\ UNCHANGED <<status_value, dos_next_wake_tick>>
      /\ sleep_list' \in Seq(AllTasks) /\ overflow_list' \in Seq(AllTasks)
      /\ pend_list' \in Seq(AllTasks)
      /\ ReadyInv' /\ DelayInv' /\ PendInv' /\ SleepInv'
  BY <1>1, <1>3, WakeEffect, Zenon
<1>5. dos_task_priority' \subseteq Prio /\ dos_task_priority_list' \in [Prio -> ListType]
  BY <1>4, Zenon DEF ReadyInv, Linked, Bits
<1>6. /\ dos_cur_priority' \in Prio /\ pendsv' \in BOOLEAN
      /\ task_tick' \in [AllTasks -> Nat] /\ \A u \in AllTasks : task_tick'[u] # 0
      /\ scheduler_lock # 0 => pendsv' = pendsv
  <2>1. CASE isr = "loop"
    BY <1>1, <1>2, <2>1, Zenon DEF TypeOK, CallInv, schedVars
  <2>2. CASE isr # "loop"
    BY <1>1, <1>2, <1>5, <2>2, SchedulerEffect, Zenon
  <2>. QED
    BY <2>1, <2>2, Zenon
<1>7. pendsv => pendsv'
  <2>1. (UNCHANGED schedVars) => (pendsv => pendsv')
    BY Zenon DEF schedVars
  <2>. QED
    BY <1>1, <2>1, PendsvKept, Zenon DEF Scheduler
<1>8. TypeOK'
  BY <1>1, <1>3, <1>4, <1>5, <1>6, Zenon DEF TypeOK
<1>9. CallInv'
  <2>1. /\ scheduler_lock > 0 => pendsv' = pendsv
        /\ pc' \in [AllTasks -> PcValues]
        /\ \A u \in AllTasks : pc'[u] = pc[u] \/ (pc[u] = "app" /\ pc'[u] = "sched")
    BY <1>1, <1>6 DEF TypeOK
  <2>. QED
    BY <1>1, <1>2, <1>4, <1>6, <1>7, <2>1, WokenCallInv, Zenon
<1>. QED
  BY <1>4, <1>8, <1>9, Zenon DEF IInv

(* PendSV_Handler: the task it switches to is ready, if there is one.      *)
LEMMA PendSVStep ==
  ASSUME IInv, PendSV
  PROVE  IInv'
<1> DEFINE l == dos_task_priority_list[dos_cur_priority]
           t == NextItem(l, NoTask)
<1>1. /\ TypeOK /\ ReadyInv /\ DelayInv /\ PendInv /\ CallInv /\ SleepInv
      /\ pendsv /\ isr = "none" /\ pendsv' = FALSE
      /\ dos_task_priority_list' =
           SetCursor(dos_task_priority_list, dos_cur_priority, t)
      /\ dos_current_task' = t
      /\ UNCHANGED <<task_status, priority, dos_task_priority, sleepVars, pend_list,
                 dos_cur_priority, task_tick, dos_tick_count, scheduler_lock,
                 isr, pc, hp>>
  BY Zenon DEF IInv, PendSV
<1>2. dos_cur_priority \in Prio /\ l \in CursorList(AllTasks, NoTask)
      /\ l.items \in Seq(AllTasks)
  BY <1>1, ListTypeIsCursorList, Zenon DEF TypeOK, ListType
<1>3. /\ t \in AllTasks \cup {NoTask}
      /\ l.items # << >> => t \in Range(l.items)
      /\ l.items = << >> => t = NoTask
  BY <1>2, NextItemProps, Zenon
<1>4. t \in AllTasks => "READY" \in task_status[t]
  <2>1. Range(l.items) \subseteq ReadySet
    BY <1>1, <1>2, Zenon DEF ReadyInv, Linked
  <2>. QED
    BY <1>3, <2>1, Constants, Zenon DEF ReadySet
<1> HIDE DEF t, l
<1>5. ReadyInv'
  <2>1. Linked(dos_task_priority_list', ReadySet, priority)
        /\ Bits(dos_task_priority_list') = Bits(dos_task_priority_list)
    <3>1. Linked(dos_task_priority_list, ReadySet, priority)
      BY <1>1, Zenon DEF ReadyInv
    <3>. QED
      BY <1>1, <1>2, <1>3, <3>1, CursorLinked, SMTT(20)
  <2>. QED
    BY <1>1, <2>1, Zenon DEF ReadyInv, ReadySet
<1>6. DelayInv' /\ PendInv' /\ SleepInv'
  BY <1>1, Zenon DEF DelayInv, PendInv, SleepInv, sleepVars
<1>7. dos_task_priority_list' \in [Prio -> ListType]
  BY <1>5, Zenon DEF ReadyInv, Linked
<1>8. TypeOK'
  BY <1>1, <1>3, <1>7, Zenon DEF TypeOK, sleepVars
<1>9. scheduler_lock = 0
  <2>1. scheduler_lock \in Nat /\ ~(scheduler_lock > 0)
    BY <1>1, SchedAssumption DEF CallInv, TypeOK
  <2>. QED
    BY <2>1
<1>10. CallInv'
  BY <1>1, <1>3, <1>4, <1>9, Zenon DEF CallInv, sleepVars
<1>. QED
  BY <1>5, <1>6, <1>8, <1>10, Zenon DEF IInv

(* SysTick_Handler: the tick advances, and the sleep lists are switched    *)
(* when it wraps. At the wrap the current list is empty, because no tick   *)
(* is greater than the last one.                                           *)
LEMMA WrapEmpty ==
  ASSUME TypeOK, SleepInv, isr # "loop", dos_tick_count = UINT32_MAX
  PROVE  sleep_list = << >>
<1>1. sleep_list \in Seq(AllTasks) /\ Range(sleep_list) \subseteq AllTasks
      /\ (sleep_list = << >> <=> Range(sleep_list) = {})
  BY EmptyItems, Zenon DEF TypeOK
<1>2. ASSUME NEW t \in Range(sleep_list) PROVE FALSE
  <2>1. status_value[t] \in Tick /\ status_value[t] > UINT32_MAX
    BY <1>1, Zenon DEF TypeOK, SleepInv
  <2>. QED
    BY <2>1, SchedAssumption DEF Tick, UINT32_MAX
<1>. QED
  BY <1>1, <1>2, Zenon

(* The next tick value: zero after the last, one more otherwise.           *)
LEMMA NextTick ==
  ASSUME NEW c \in Tick
  PROVE  LET n == (c + 1) % TickMod
         IN  /\ n \in Tick
             /\ c = UINT32_MAX => n = 0
             /\ c # UINT32_MAX => n = c + 1 /\ n # 0
<1>1. c \in Nat /\ c < TickMod /\ TickMod \in Nat \ {0}
  BY Constants DEF Tick
<1>2. CASE c + 1 < TickMod
  <2>1. (c + 1) % TickMod = c + 1
    BY <1>1, <1>2
  <2>. QED
    BY <1>1, <1>2, <2>1 DEF Tick, UINT32_MAX
<1>3. CASE ~(c + 1 < TickMod)
  <2>1. c + 1 = TickMod
    BY <1>1, <1>3
  <2>2. (c + 1) % TickMod = 0
    BY <1>1, <2>1
  <2>. QED
    BY <1>1, <2>1, <2>2 DEF Tick, UINT32_MAX
<1>. QED
  BY <1>2, <1>3, Zenon

(* The start of dos_tick_update, with the switch of the sleep lists at     *)
(* the wrap, keeps the invariant.                                          *)
LEMMA TickStartStep ==
  ASSUME IInv, TickStart
  PROVE  IInv'
<1>1. /\ TypeOK /\ ReadyInv /\ DelayInv /\ PendInv /\ CallInv /\ SleepInv
      /\ isr = "none" /\ ~pendsv /\ dos_current_task # NoTask /\ isr' = "loop"
      /\ dos_tick_count' = (dos_tick_count + 1) % TickMod
      /\ UNCHANGED <<task_status, priority, readyVars, status_value, pend_list,
                 schedVars, dos_current_task, scheduler_lock, pc, hp>>
  BY Zenon DEF IInv, TickStart
<1>2. /\ dos_tick_count' \in Tick
      /\ dos_tick_count = UINT32_MAX => dos_tick_count' = 0
      /\ dos_tick_count # UINT32_MAX =>
           dos_tick_count' = dos_tick_count + 1 /\ dos_tick_count' # 0
  BY <1>1, NextTick, Zenon DEF TypeOK
<1>3. ReadyInv' /\ PendInv'
  BY <1>1, Zenon DEF ReadyInv, ReadySet, PendInv, readyVars
<1>4. CallInv'
  BY <1>1, Zenon DEF CallInv, schedVars
<1>5. /\ dos_tick_count \in Nat /\ dos_next_wake_tick \in Nat /\ dos_next_wake_tick \in Tick
      /\ \A u \in AllTasks : status_value[u] \in Nat
      /\ Range(sleep_list) \subseteq AllTasks /\ Range(overflow_list) \subseteq AllTasks
  BY <1>1, EmptyItems, Constants, Zenon DEF TypeOK
<1>6. CASE dos_tick_count # UINT32_MAX
  <2>1. UNCHANGED <<sleep_list, overflow_list, dos_next_wake_tick>>
    BY <1>2, <1>6, Zenon DEF TickStart
  <2>2. DelayInv'
    BY <1>1, <2>1, Zenon DEF DelayInv
  <2>3. TypeOK'
    BY <1>1, <1>2, <2>1, Zenon DEF TypeOK, readyVars, schedVars
  <2>4. SleepInv'
    <3>1. \A u \in Range(sleep_list) : dos_next_wake_tick <= status_value[u]
                                       /\ status_value[u] >= dos_tick_count'
      BY <1>1, <1>2, <1>5, <1>6 DEF SleepInv
    <3>2. \A u \in Range(overflow_list) : status_value[u] < dos_tick_count'
      BY <1>1, <1>2, <1>5, <1>6 DEF SleepInv
    <3>3. dos_next_wake_tick >= dos_tick_count'
      <4>1. dos_tick_count' <= UINT32_MAX /\ UINT32_MAX \in Nat
        BY <1>2, Constants, Zenon
      <4>2. CASE dos_next_wake_tick = UINT32_MAX
        BY <4>1, <4>2, Zenon
      <4>3. CASE dos_next_wake_tick > dos_tick_count
        BY <1>2, <1>5, <1>6, <4>3
      <4>. QED
        BY <1>1, <4>2, <4>3, Zenon DEF SleepInv
    <3>. QED
      BY <1>1, <2>1, <3>1, <3>2, <3>3, Zenon DEF SleepInv
  <2>. QED
    BY <1>3, <1>4, <2>2, <2>3, <2>4, Zenon DEF IInv
<1>7. CASE dos_tick_count = UINT32_MAX
  <2>1. sleep_list = << >>
    BY <1>1, <1>7, WrapEmpty, Zenon
  <2>2. /\ sleep_list' = overflow_list /\ overflow_list' = sleep_list
        /\ dos_next_wake_tick' = IF overflow_list = << >> THEN UINT32_MAX
                                 ELSE status_value[Head(overflow_list)]
    BY <1>2, <1>7, <2>1, Zenon DEF TickStart, SwitchSleepList
  <2>3. DelayInv'
    BY <1>1, <2>2, Zenon DEF DelayInv
  <2>4. /\ overflow_list # << >> =>
             /\ status_value[Head(overflow_list)] \in Tick
             /\ \A u \in Range(overflow_list) :
                  status_value[Head(overflow_list)] <= status_value[u]
        /\ overflow_list = << >> => Range(overflow_list) = {}
        /\ Range(sleep_list) = {}
    <3>1. overflow_list \in Seq(AllTasks) /\ Sorted(overflow_list, status_value)
          /\ Values(status_value, AllTasks) /\ status_value \in [AllTasks -> Tick]
          /\ sleep_list \in Seq(AllTasks)
      BY <1>1, Constants, Zenon DEF TypeOK, SleepInv, Values
    <3>2. overflow_list # << >> =>
             /\ Head(overflow_list) \in AllTasks
             /\ \A u \in Range(overflow_list) :
                  status_value[Head(overflow_list)] <= status_value[u]
      BY <3>1, HeadTailProps, Zenon
    <3>. QED
      BY <2>1, <3>1, <3>2, EmptyItems, Zenon
  <2>5. dos_next_wake_tick' \in Tick
    BY <2>2, <2>4, Constants, Zenon
  <2>6. TypeOK'
    BY <1>1, <1>2, <2>2, <2>5, Zenon DEF TypeOK, readyVars, schedVars
  <2>7. SleepInv'
    <3>1. dos_tick_count' = 0 /\ dos_next_wake_tick' \in Nat
      BY <1>2, <1>7, <2>5, Constants, Zenon
    <3>2. \A u \in Range(overflow_list) : dos_next_wake_tick' <= status_value[u]
                                         /\ status_value[u] >= 0
      BY <1>5, <2>2, <2>4
    <3>. QED
      BY <1>1, <2>2, <2>4, <3>1, <3>2 DEF SleepInv
  <2>. QED
    BY <1>3, <1>4, <2>3, <2>6, <2>7, Zenon DEF IInv
<1>. QED
  BY <1>6, <1>7, Zenon

(* One iteration of the wake-up loop.                                      *)
LEMMA TickWakeStep ==
  ASSUME IInv, TickWake
  PROVE  IInv'
<1>1. /\ TypeOK /\ ReadyInv /\ DelayInv /\ PendInv /\ CallInv /\ SleepInv
      /\ isr = "loop" /\ sleep_list # << >>
      /\ UNCHANGED <<priority, overflow_list, status_value, dos_next_wake_tick,
                 pend_list, schedVars, dos_tick_count, dos_current_task,
                 scheduler_lock, isr, pc, hp>>
  BY Zenon DEF IInv, TickWake, Due
<1>2. PICK t \in AllTasks : t = Head(sleep_list) /\ t \in Range(sleep_list)
  BY <1>1, HeadTailProps, Zenon DEF TypeOK
<1>3. /\ sleep_list' = Tail(sleep_list)
      /\ sleep_list' \in Seq(AllTasks) /\ IsInjective(sleep_list')
      /\ Range(sleep_list') = Range(sleep_list) \ {t} /\ Sorted(sleep_list', status_value)
  BY <1>1, <1>2, HeadTailProps, Zenon DEF TypeOK, DelayInv, SleepInv, TickWake
<1> DEFINE x == IF "SUSPEND" \in task_status[t] THEN {"TIMEOUT"} ELSE {}
<1>4. /\ task_status' = [task_status EXCEPT ![t] =
                            (task_status[t] \ {"DELAY"}) \cup {"READY"} \cup x]
      /\ \A b : b \in x <=> (b = "TIMEOUT" /\ "SUSPEND" \in task_status[t])
  BY <1>2, Zenon DEF TickWake
<1> HIDE DEF x
<1>5. /\ dos_task_priority' = dos_task_priority \cup {priority[t]}
      /\ dos_task_priority_list' =
           LinkReady(dos_task_priority_list, status_value, t, priority[t])
  BY <1>2, Zenon DEF TickWake
<1>6. "DELAY" \in task_status[t] /\ "READY" \notin task_status[t]
      /\ t \notin Range(overflow_list)
  BY <1>1, <1>2, Zenon DEF DelayInv
<1>7. task_status' \in [AllTasks -> SUBSET StatusBits]
  BY <1>1, <1>4, Zenon DEF TypeOK, StatusBits
<1>8. ReadyInv'
  <2>1. ReadySet \in SUBSET AllTasks /\ t \notin ReadySet /\ Values(status_value, AllTasks)
        /\ Linked(dos_task_priority_list, ReadySet, priority)
        /\ dos_task_priority = Bits(dos_task_priority_list)
        /\ priority \in [AllTasks -> Prio]
    BY <1>1, <1>6, Constants, Zenon DEF ReadySet, Values, TypeOK, ReadyInv
  <2>2. Adds(ReadySet', ReadySet, t)
    BY <1>1, <1>4, Zenon DEF Adds, ReadySet, TypeOK
  <2>3. /\ Linked(dos_task_priority_list', ReadySet', priority)
        /\ Bits(dos_task_priority_list) \cup {priority[t]} = Bits(dos_task_priority_list')
    BY <1>5, <2>1, <2>2, LinkLinked
  <2>. QED
    BY <1>1, <1>5, <2>1, <2>3, Zenon DEF ReadyInv
<1>9. DelayInv'
  BY <1>1, <1>3, <1>4, <1>6, Zenon DEF DelayInv, TypeOK
<1>10. PendInv'
  BY <1>1, <1>4, Zenon DEF PendInv, TypeOK
<1>11. SleepInv'
  BY <1>1, <1>3, Zenon DEF SleepInv
<1>12. TypeOK'
  <2>1. dos_task_priority' \subseteq Prio /\ dos_task_priority_list' \in [Prio -> ListType]
    BY <1>8, Zenon DEF ReadyInv, Linked, Bits
  <2>. QED
    BY <1>1, <1>3, <1>7, <2>1, Zenon DEF TypeOK, schedVars
<1>13. CallInv'
  BY <1>1, <1>4, <1>6, Zenon DEF CallInv, TypeOK, schedVars
<1>. QED
  BY <1>8, <1>9, <1>10, <1>11, <1>12, <1>13, Zenon DEF IInv

(* The end of the wake-up loop: no sleeper that is left is due.            *)
LEMMA TickEndStep ==
  ASSUME IInv, TickEnd
  PROVE  IInv'
<1>1. /\ TypeOK /\ ReadyInv /\ DelayInv /\ PendInv /\ CallInv /\ SleepInv
      /\ isr = "loop" /\ ~Due /\ isr' = "check"
      /\ dos_next_wake_tick' =
           IF dos_tick_count < dos_next_wake_tick THEN dos_next_wake_tick
           ELSE IF sleep_list = << >> THEN UINT32_MAX
           ELSE status_value[Head(sleep_list)]
      /\ hp' = [hp EXCEPT ![Handler] = HighestPriority(dos_task_priority)]
      /\ UNCHANGED <<task_status, priority, readyVars, sleep_list, overflow_list,
                 status_value, pend_list, schedVars, dos_tick_count,
                 dos_current_task, scheduler_lock, pc>>
  BY Zenon DEF IInv, TickEnd
<1>2. ReadyInv' /\ DelayInv' /\ PendInv'
  BY <1>1, Zenon DEF ReadyInv, ReadySet, DelayInv, PendInv, readyVars
<1>3. CallInv'
  BY <1>1, Zenon DEF CallInv, schedVars
<1>4. HighestPriority(dos_task_priority) \in Prio
  BY <1>1, HighestIsPrio, Zenon DEF TypeOK
<1>5. /\ dos_tick_count \in Nat /\ dos_next_wake_tick \in Nat
      /\ \A u \in AllTasks : status_value[u] \in Nat
      /\ Range(sleep_list) \subseteq AllTasks
      /\ (sleep_list = << >> <=> Range(sleep_list) = {})
  BY <1>1, EmptyItems, Constants, Zenon DEF TypeOK
<1>6. sleep_list # << >> =>
        /\ Head(sleep_list) \in AllTasks /\ Head(sleep_list) \in Range(sleep_list)
        /\ \A u \in Range(sleep_list) : status_value[Head(sleep_list)] <= status_value[u]
  <2>1. sleep_list \in Seq(AllTasks) /\ Sorted(sleep_list, status_value)
        /\ Values(status_value, AllTasks)
    BY <1>1, Constants, Zenon DEF TypeOK, SleepInv, Values
  <2>. QED
    BY <2>1, HeadTailProps, Zenon
<1>7. TypeOK'
  <2>1. dos_next_wake_tick' \in Tick
    BY <1>1, <1>6, Constants, Zenon DEF TypeOK
  <2>. QED
    BY <1>1, <1>4, <2>1, Zenon DEF TypeOK, readyVars, schedVars
<1>8. SleepInv'
  <2>1. CASE dos_tick_count < dos_next_wake_tick
    <3>1. \A u \in Range(sleep_list) : status_value[u] > dos_tick_count
      BY <1>1, <1>5, <2>1 DEF SleepInv
    <3>. QED
      BY <1>1, <2>1, <3>1, Zenon DEF SleepInv
  <2>2. CASE ~(dos_tick_count < dos_next_wake_tick) /\ sleep_list = << >>
    BY <1>1, <1>5, <2>2, Zenon DEF SleepInv
  <2>3. CASE ~(dos_tick_count < dos_next_wake_tick) /\ sleep_list # << >>
    <3>1. status_value[Head(sleep_list)] > dos_next_wake_tick
          /\ dos_next_wake_tick >= dos_tick_count
      BY <1>1, <1>5, <1>6, <2>3 DEF Due, SleepInv
    <3>2. status_value[Head(sleep_list)] > dos_tick_count
      BY <1>5, <1>6, <2>3, <3>1
    <3>3. \A u \in Range(sleep_list) : status_value[u] > dos_tick_count
      BY <1>5, <1>6, <2>3, <3>2
    <3>4. dos_next_wake_tick' = status_value[Head(sleep_list)]
      BY <1>1, <2>3, Zenon
    <3>. QED
      BY <1>1, <1>6, <2>3, <3>2, <3>3, <3>4, Zenon DEF SleepInv
  <2>. QED
    BY <2>1, <2>2, <2>3, Zenon
<1>. QED
  BY <1>2, <1>3, <1>7, <1>8, Zenon DEF IInv

(* The dos_scheduler at the end of the handler.                            *)
LEMMA TickLeaveStep ==
  ASSUME IInv, TickLeave
  PROVE  IInv'
<1>1. /\ TypeOK /\ CallInv /\ SleepInv /\ isr = "check" /\ isr' = "none"
      /\ hp' = [hp EXCEPT ![Handler] = 0]
      /\ UNCHANGED <<task_status, priority, readyVars, sleepVars, pend_list,
                 dos_tick_count, dos_current_task, scheduler_lock, pc>>
      /\ IF scheduler_lock = 0 THEN CheckTaskPriority(hp[Handler])
         ELSE UNCHANGED schedVars
  BY Zenon DEF IInv, TickLeave
<1>2. ReadyInv' /\ DelayInv' /\ PendInv'
  BY <1>1, QuietParts, Zenon DEF readyVars, sleepVars
<1>3. SleepInv'
  BY <1>1, Zenon DEF SleepInv, sleepVars
<1>4. dos_current_task \in AllTasks /\ hp[Handler] \in Prio
  BY <1>1, Zenon DEF CallInv, TypeOK
<1>5. /\ dos_cur_priority' \in Prio /\ pendsv' \in BOOLEAN
      /\ task_tick' \in [AllTasks -> Nat] /\ \A u \in AllTasks : task_tick'[u] # 0
      /\ scheduler_lock # 0 => pendsv' = pendsv
  <2>1. CASE scheduler_lock = 0
    BY <1>1, <1>4, <2>1, CheckEffect, Zenon
  <2>2. CASE scheduler_lock # 0
    BY <1>1, <2>2, Zenon DEF TypeOK, CallInv, schedVars
  <2>. QED
    BY <2>1, <2>2, Zenon
<1>6. pendsv => pendsv'
  <2>1. (UNCHANGED schedVars) => (pendsv => pendsv')
    BY Zenon DEF schedVars
  <2>. QED
    BY <1>1, <2>1, PendsvKept, Zenon
<1>7. TypeOK'
  BY <1>1, <1>5, Constants, Zenon DEF TypeOK, readyVars, sleepVars
<1>8. CallInv'
  <2>1. /\ task_status' = task_status /\ pc' = pc /\ dos_current_task' = dos_current_task
        /\ scheduler_lock' = scheduler_lock
    BY <1>1, Zenon
  <2>2. scheduler_lock > 0 => ~pendsv' /\ dos_current_task \in AllTasks
                              /\ pc[dos_current_task] \in {"app", "sched"}
    BY <1>1, <1>5 DEF CallInv
  <2>3. \A t \in AllTasks :
          /\ pc[t] \in {"app", "sched", "check"} =>
               "SUSPEND" \notin task_status[t] /\ "TIMEOUT" \notin task_status[t]
          /\ "TIMEOUT" \in task_status[t] => "READY" \in task_status[t]
          /\ {"READY", "SUSPEND"} \subseteq task_status[t] => "TIMEOUT" \in task_status[t]
          /\ (pc[t] = "woken" /\ t = dos_current_task /\ ~pendsv') => "READY" \in task_status[t]
    BY <1>1, <1>6, Zenon DEF CallInv
  <2>. QED
    BY <1>1, <1>5, <2>1, <2>2, <2>3, Zenon DEF CallInv
<1>. QED
  BY <1>2, <1>3, <1>7, <1>8, Zenon DEF IInv

(* Booting: dos_task_create and dos_system_start_run.                      *)
LEMMA CreateStep ==
  ASSUME IInv, NEW t \in AllTasks, Create(t)
  PROVE  IInv'
<1>1. /\ TypeOK /\ ReadyInv /\ DelayInv /\ PendInv /\ CallInv /\ SleepInv
      /\ isr = "boot" /\ "READY" \notin task_status[t]
      /\ priority' = [priority EXCEPT ![t] = BasePrio[t]]
      /\ status_value' = [status_value EXCEPT ![t] = 0]
      /\ task_tick' = [task_tick EXCEPT ![t] = InitTick[t]]
      /\ task_status' = [task_status EXCEPT ![t] = task_status[t] \cup {"READY"}]
      /\ dos_task_priority' = dos_task_priority \cup {BasePrio[t]}
      /\ dos_task_priority_list' =
           LinkReady(dos_task_priority_list, status_value', t, BasePrio[t])
      /\ UNCHANGED <<sleep_list, overflow_list, dos_next_wake_tick, pend_list,
                 dos_cur_priority, pendsv, dos_tick_count, dos_current_task,
                 scheduler_lock, isr, pc, hp>>
  BY Zenon DEF IInv, Create, Created
<1>2. /\ sleep_list = << >> /\ overflow_list = << >> /\ pend_list = << >>
      /\ Range(sleep_list) = {} /\ Range(overflow_list) = {} /\ Range(pend_list) = {}
  <2>1. sleep_list = << >> /\ overflow_list = << >> /\ pend_list = << >>
    BY <1>1, Zenon DEF CallInv
  <2>. QED
    BY <1>1, <2>1, EmptyItems, Zenon DEF TypeOK
<1>3. /\ priority' \in [AllTasks -> Prio] /\ priority'[t] = BasePrio[t]
      /\ status_value' \in [AllTasks -> Tick] /\ Values(status_value', AllTasks)
      /\ task_tick' \in [AllTasks -> Nat] /\ task_tick'[t] # 0
      /\ \A u \in AllTasks \ {t} : task_tick'[u] = task_tick[u]
      /\ task_status' \in [AllTasks -> SUBSET StatusBits]
  BY <1>1, Constants, Zenon DEF TypeOK, Values, StatusBits
<1>4. ReadyInv'
  <2>1. ReadySet \in SUBSET AllTasks /\ t \notin ReadySet /\ t \in AllTasks \ ReadySet
        /\ Linked(dos_task_priority_list, ReadySet, priority)
        /\ dos_task_priority = Bits(dos_task_priority_list)
        /\ priority \in [AllTasks -> Prio] /\ BasePrio[t] \in Prio
    BY <1>1, Constants, Zenon DEF ReadySet, TypeOK, ReadyInv
  <2>2. Adds(ReadySet', ReadySet, t)
    BY <1>1, Zenon DEF Adds, ReadySet, TypeOK
  <2>3. Linked(dos_task_priority_list, ReadySet, priority')
    BY <1>1, <2>1, SetPrioLinked, Zenon
  <2>4. dos_task_priority_list' =
          LinkReady(dos_task_priority_list, status_value', t, priority'[t])
    BY <1>1, <1>3, Zenon
  <2> DEFINE prio == priority'
             value == status_value'
             S == ReadySet'
             R == ReadySet
             lists == dos_task_priority_list
  <2>5. /\ R \in SUBSET AllTasks /\ t \notin R /\ Adds(S, R, t)
        /\ prio \in [AllTasks -> Prio] /\ Values(value, AllTasks)
        /\ Linked(lists, R, prio)
    BY <1>3, <2>1, <2>2, <2>3, Zenon
  <2> HIDE DEF prio, value, S, R, lists
  <2>6. /\ Linked(LinkReady(lists, value, t, prio[t]), S, prio)
        /\ Bits(lists) \cup {prio[t]} = Bits(LinkReady(lists, value, t, prio[t]))
    BY <2>5, LinkLinked
  <2>7. /\ Linked(dos_task_priority_list', ReadySet', priority')
        /\ Bits(dos_task_priority_list) \cup {priority'[t]} = Bits(dos_task_priority_list')
    BY <2>4, <2>6, Zenon DEF prio, value, S, R, lists
  <2>. QED
    BY <1>1, <1>3, <2>1, <2>7, Zenon DEF ReadyInv
<1>5. DelayInv' /\ PendInv'
  BY <1>1, <1>2, Zenon DEF DelayInv, PendInv, TypeOK
<1>6. SleepInv'
  <2>1. Len(sleep_list) = 0 /\ Len(overflow_list) = 0
    BY <1>2, Zenon
  <2>2. Sorted(sleep_list', status_value') /\ Sorted(overflow_list', status_value')
    <3>1. sleep_list' = sleep_list /\ overflow_list' = overflow_list
      BY <1>1, Zenon
    <3>2. /\ Len(sleep_list') = 0 /\ Len(overflow_list') = 0
          /\ \A i \in 1 .. 0 : FALSE
      BY <2>1, <3>1
    <3>. QED
      BY <3>2, Zenon DEF Sorted
  <2>3. Range(sleep_list') = {} /\ Range(overflow_list') = {}
    BY <1>1, <1>2, EmptyItems, Zenon
  <2>4. /\ isr' = isr /\ dos_next_wake_tick' = dos_next_wake_tick
        /\ dos_tick_count' = dos_tick_count
    BY <1>1, Zenon
  <2>5. IF isr = "loop" THEN dos_next_wake_tick >= dos_tick_count
        ELSE dos_next_wake_tick > dos_tick_count \/ dos_next_wake_tick = UINT32_MAX
    BY <1>1, Zenon DEF SleepInv
  <2>. QED
    BY <2>2, <2>3, <2>4, <2>5, Zenon DEF SleepInv
<1>7. TypeOK'
  <2>1. dos_task_priority' \subseteq Prio /\ dos_task_priority_list' \in [Prio -> ListType]
    BY <1>4, Zenon DEF ReadyInv, Linked, Bits
  <2>. QED
    BY <1>1, <1>3, <2>1, Zenon DEF TypeOK
<1>8. CallInv'
  BY <1>1, <1>2, <1>3, Zenon DEF CallInv, TypeOK
<1>. QED
  BY <1>4, <1>5, <1>6, <1>7, <1>8, Zenon DEF IInv

(* dos_system_start_run keeps the invariant.                               *)
LEMMA StartRunStep ==
  ASSUME IInv, StartRun
  PROVE  IInv'
<1> DEFINE h == HighestPriority(dos_task_priority)
           t == FirstItem(dos_task_priority_list[h].items, NoTask)
<1>1. /\ TypeOK /\ ReadyInv /\ DelayInv /\ PendInv /\ CallInv /\ SleepInv
      /\ isr = "boot" /\ isr' = "none" /\ \A u \in AllTasks : "READY" \in task_status[u]
      /\ dos_cur_priority' = h /\ dos_current_task' = t
      /\ dos_task_priority_list' = SetCursor(dos_task_priority_list, h, t)
      /\ dos_tick_count' = 0
      /\ UNCHANGED <<task_status, priority, dos_task_priority, sleepVars, pend_list,
                 task_tick, pendsv, scheduler_lock, pc, hp>>
  BY Zenon DEF IInv, StartRun, Created
<1>2. h \in Prio
  BY <1>1, HighestIsPrio, Zenon DEF TypeOK
<1>3. t \in AllTasks \cup {NoTask}
  <2>1. dos_task_priority_list[h].items \in Seq(AllTasks)
    BY <1>1, <1>2, Zenon DEF TypeOK, ListType
  <2>. QED
    BY <2>1, HeadTailProps, Zenon DEF FirstItem
<1> HIDE DEF h, t
<1>4. ReadyInv'
  <2>1. Linked(dos_task_priority_list, ReadySet, priority)
    BY <1>1, Zenon DEF ReadyInv
  <2>2. Linked(dos_task_priority_list', ReadySet, priority)
        /\ Bits(dos_task_priority_list') = Bits(dos_task_priority_list)
    <3> DEFINE moved == SetCursor(dos_task_priority_list, h, t)
    <3>1. Linked(moved, ReadySet, priority) /\ Bits(moved) = Bits(dos_task_priority_list)
      BY <1>2, <1>3, <2>1, CursorLinked, SMTT(40)
    <3>2. dos_task_priority_list' = moved
      BY <1>1, Zenon
    <3>. QED
      BY <3>1, <3>2, Zenon
  <2>. QED
    BY <1>1, <2>2, Zenon DEF ReadyInv, ReadySet
<1>5. dos_tick_count = 0
  BY <1>1, Zenon DEF CallInv
<1>6. DelayInv' /\ PendInv' /\ SleepInv'
  BY <1>1, <1>5, Zenon DEF DelayInv, PendInv, SleepInv, sleepVars
<1>7. TypeOK'
  <2>1. dos_task_priority_list' \in [Prio -> ListType]
    BY <1>4, Zenon DEF ReadyInv, Linked
  <2>. QED
    BY <1>1, <1>2, <1>3, <2>1, Constants, Zenon DEF TypeOK, sleepVars
<1>8. CallInv'
  <2>1. /\ pc' = pc /\ scheduler_lock' = 0 /\ isr' = "none" /\ task_status' = task_status
        /\ task_tick' = task_tick
        /\ \A u \in AllTasks : pc[u] = "app" /\ "READY" \in task_status[u]
    BY <1>1, Zenon DEF CallInv
  <2>2. \A u \in AllTasks : /\ "SUSPEND" \notin task_status[u]
                            /\ "TIMEOUT" \notin task_status[u]
                            /\ task_tick[u] # 0
    <3>1. \A u \in AllTasks :
            /\ pc[u] \in {"app", "sched", "check"} =>
                 "SUSPEND" \notin task_status[u] /\ "TIMEOUT" \notin task_status[u]
            /\ "READY" \in task_status[u] => task_tick[u] # 0
      BY <1>1, Zenon DEF CallInv
    <3>. QED
      BY <2>1, <3>1, Zenon
  <2>3. ~(scheduler_lock' > 0) /\ isr' \notin {"loop", "check"} /\ isr' # "boot"
    BY <2>1
  <2>4. \A u \in AllTasks : "READY" \in task_status'[u] /\ task_tick'[u] # 0
                            /\ "SUSPEND" \notin task_status'[u]
                            /\ "TIMEOUT" \notin task_status'[u]
    BY <2>1, <2>2, Zenon
  <2>. QED
    BY <2>3, <2>4, Zenon DEF CallInv
<1>. QED
  BY <1>4, <1>6, <1>7, <1>8, Zenon DEF IInv

-----------------------------------------------------------------------------
(* The static initialisers. *)
LEMMA InitIInv == Init => IInv
<1> SUFFICES ASSUME Init PROVE IInv
  BY Zenon
<1>1. << >> \in Seq(AllTasks) /\ Range(<< >>) = {} /\ IsInjective(<< >>)
      /\ EmptyList(NoTask) \in ListType
  <2>1. << >> \in Seq(AllTasks) /\ DOMAIN << >> = {}
    OBVIOUS
  <2>2. Range(<< >>) = {} /\ IsInjective(<< >>)
    BY <2>1, Zenon DEF Range, IsInjective
  <2>. QED
    BY <2>1, <2>2, Zenon DEF EmptyList, ListType
<1>2. TypeOK
  <2>1. scheduler_lock \in 0 .. MaxLock
    BY SchedAssumption DEF Init
  <2>2. /\ sleep_list \in Seq(AllTasks) /\ overflow_list \in Seq(AllTasks)
        /\ pend_list \in Seq(AllTasks)
        /\ dos_task_priority_list \in [Prio -> ListType]
    BY <1>1, Zenon DEF Init
  <2>3. /\ task_status \in [AllTasks -> SUBSET StatusBits]
        /\ pc \in [AllTasks -> PcValues] /\ pendsv \in BOOLEAN
        /\ priority \in [AllTasks -> Prio] /\ status_value \in [AllTasks -> Tick]
        /\ task_tick \in [AllTasks -> Nat] /\ hp \in [AllTasks \cup {Handler} -> Prio]
    BY Constants, Zenon DEF Init, PcValues
  <2>. QED
    BY <2>1, <2>2, <2>3, Constants, Zenon DEF Init, TypeOK
<1>3. ReadyInv
  <2>1. ReadySet = {}
    BY Zenon DEF Init, ReadySet
  <2>2. \A p \in Prio : dos_task_priority_list[p] = EmptyList(NoTask)
                       /\ dos_task_priority_list[p].items = << >>
    BY Zenon DEF Init, EmptyList
  <2>3. dos_task_priority_list \in [Prio -> ListType] /\ dos_task_priority = {}
    BY <1>2, Zenon DEF TypeOK, Init
  <2>. QED
    BY <1>1, <2>1, <2>2, <2>3, Zenon DEF ReadyInv, Linked, Bits
<1>4. DelayInv /\ PendInv
  BY <1>1, Zenon DEF Init, DelayInv, PendInv
<1>5. CallInv
  BY DEF Init, CallInv
<1>6. SleepInv
  BY <1>1 DEF Init, SleepInv, Sorted
<1>. QED
  BY <1>2, <1>3, <1>4, <1>5, <1>6, Zenon DEF IInv

(* Every step of the system preserves the inductive invariant.             *)
LEMMA NextIInv == IInv /\ [Next]_vars => IInv'
<1> SUFFICES ASSUME IInv, [Next]_vars PROVE IInv'
  BY Zenon
<1>1. CASE \E t \in AllTasks : Create(t)
  BY <1>1, CreateStep, Zenon
<1>2. CASE StartRun
  BY <1>2, StartRunStep, Zenon
<1>3. ASSUME NEW t \in Tasks, Thread(t) PROVE IInv'
  <2>1. CASE \E n \in SleepTicks : Sleep(t, n)
    BY <2>1, SleepStep, Zenon
  <2>2. CASE Yield(t)
    BY <2>2, YieldStep, Zenon
  <2>3. CASE \E timeout \in Timeouts, u \in (Tasks \ {t}) \cup {NoTask} : Wait(t, timeout, u)
    BY <2>3, WaitStep, Zenon
  <2>4. CASE WaitReturn(t)
    BY <2>4, WaitReturnStep, Zenon
  <2>5. CASE \E restore \in BOOLEAN : Post(t, restore)
    BY <2>5, PostStep, Zenon
  <2>6. CASE Lock(t)
    BY <2>6, LockStep, Zenon
  <2>7. CASE Unlock(t)
    BY <2>7, UnlockStep, Zenon
  <2>8. CASE SchedRead(t)
    BY <2>8, SchedReadStep, Zenon
  <2>9. CASE SchedCheck(t)
    BY <2>9, SchedCheckStep, Zenon
  <2>. QED
    BY <1>3, <2>1, <2>2, <2>3, <2>4, <2>5, <2>6, <2>7, <2>8, <2>9, Zenon DEF Thread
<1>4. CASE PendSV
  BY <1>4, PendSVStep, Zenon
<1>5. CASE SysTick
  BY <1>5, TickStartStep, TickWakeStep, TickEndStep, TickLeaveStep, Zenon DEF SysTick
<1>6. CASE DeviceISR
  BY <1>6, DeviceISRStep, Zenon
<1>7. CASE UNCHANGED vars
  <2>1. UNCHANGED <<task_status, priority, dos_task_priority, dos_task_priority_list,
                    sleep_list, overflow_list, status_value, dos_next_wake_tick,
                    pend_list, dos_cur_priority, task_tick, pendsv, dos_tick_count,
                    dos_current_task, scheduler_lock, isr, pc, hp>>
    BY <1>7, Zenon DEF vars, readyVars, sleepVars, schedVars
  <2>2. ReadyInv' /\ DelayInv' /\ PendInv' /\ SleepInv'
    BY <2>1, QuietParts, Zenon
  <2>3. TypeOK' /\ CallInv'
    BY <2>1, Zenon DEF IInv, TypeOK, CallInv
  <2>. QED
    BY <2>2, <2>3, Zenon DEF IInv
<1>. QED
  BY <1>1, <1>2, <1>3, <1>4, <1>5, <1>6, <1>7, Zenon DEF Next

(* The inductive invariant holds throughout, for all constants.            *)
THEOREM Inductive == Spec => []IInv
<1>1. Init => IInv
  BY InitIInv, Zenon
<1>2. IInv /\ [Next]_vars => IInv'
  BY NextIInv, Zenon
<1>. QED
  BY <1>1, <1>2, PTL DEF Spec

(* Type correctness of the scheduler's state.                              *)
THEOREM TypeCorrect == Spec => []TypeOK
<1>1. IInv => TypeOK
  BY Zenon DEF IInv
<1>. QED
  BY <1>1, Inductive, PTL

(* The bitmap of ready priorities is right between any two steps, however  *)
(* many tasks and priorities there are.                                    *)
THEOREM BitmapCorrect == Spec => []BitmapMatchesLists
<1>1. IInv => BitmapMatchesLists
  BY Zenon DEF IInv, ReadyInv, Bits, BitmapMatchesLists
<1>. QED
  BY <1>1, Inductive, PTL

(* Every task is on exactly the lists its status bits name.                *)
THEOREM LinksCorrect == Spec => []LinkedWhereStatusSays
<1>1. IInv => LinkedWhereStatusSays
  <2> SUFFICES ASSUME IInv PROVE LinkedWhereStatusSays
    BY Zenon
  <2>1. Linked(dos_task_priority_list, ReadySet, priority) /\ DelayInv /\ PendInv
    BY Zenon DEF IInv, ReadyInv
  <2>2. \A t \in AllTasks, p \in Prio :
          t \in Ready(p) <=> ("READY" \in task_status[t] /\ p = priority[t])
    BY <2>1, Zenon DEF Linked, Ready, ReadySet
  <2>3. \A t \in AllTasks :
          /\ "DELAY" \in task_status[t]
               <=> (t \in Range(sleep_list) \/ t \in Range(overflow_list))
          /\ ~({"READY", "DELAY"} \subseteq task_status[t])
          /\ "SUSPEND" \in task_status[t] <=> t \in Range(pend_list)
    BY <2>1, Zenon DEF DelayInv, PendInv
  <2>4. \A s \in {sleep_list, overflow_list, pend_list} \cup
              {dos_task_priority_list[p].items : p \in Prio} : IsInjective(s)
    BY <2>1, Zenon DEF DelayInv, PendInv, Linked
  <2>. QED
    BY <2>1, <2>2, <2>3, <2>4, Zenon DEF LinkedWhereStatusSays, DelayInv
<1>. QED
  BY <1>1, Inductive, PTL

(* No wake-up can be missed: outside the tick handler every sleeper's wake *)
(* tick lies ahead, and dos_next_wake_tick is not behind any of them.      *)
THEOREM NoWakeMissed == Spec => []NoMissedWake
<1>1. IInv => NoMissedWake
  BY Zenon DEF IInv, SleepInv, NoMissedWake
<1>. QED
  BY <1>1, Inductive, PTL

(* _dos_switch_sleep_list always finds the current list empty.             *)
THEOREM WrapIsClean == Spec => []WrapSwitches
<1>1. IInv => WrapSwitches
  BY WrapEmpty, Zenon DEF IInv, WrapSwitches
<1>. QED
  BY <1>1, Inductive, PTL

(* The tick handler ends no delay early or late: a task it takes off the   *)
(* sleep list had exactly the current tick as its wake tick.               *)
THEOREM WakesWhenDue == Spec => WakesOnTime
<1>1. IInv /\ [Next]_vars => [WakesAtItsTick]_vars
  <2> SUFFICES ASSUME IInv, Next, NEW t \in AllTasks, isr = "loop",
                      "DELAY" \in task_status[t], "DELAY" \notin task_status'[t],
                      pend_list' = pend_list
               PROVE  status_value[t] = dos_tick_count
    BY Zenon DEF WakesAtItsTick
  <2>1. TickWake \/ DeviceISR
    <3>1. ASSUME NEW u \in AllTasks, Create(u) PROVE FALSE
      BY <3>1, Zenon DEF Create
    <3>2. ~StartRun
      BY Zenon DEF StartRun
    <3>3. ASSUME NEW u \in Tasks, Thread(u) PROVE FALSE
      <4>1. Running(u)
        BY <3>3, Zenon DEF Thread, Sleep, Yield, Wait, WaitReturn, Post, Lock, Unlock,
                    SchedRead, SchedCheck, InApp
      <4>. QED
        BY <4>1, Zenon DEF Running
    <3>4. ~PendSV
      BY Zenon DEF PendSV
    <3>5. ~TickStart /\ ~TickLeave
      BY Zenon DEF TickStart, TickLeave
    <3>6. ~TickEnd
      BY Zenon DEF TickEnd
    <3>. QED
      BY <3>1, <3>2, <3>3, <3>4, <3>5, <3>6, Zenon DEF Next, SysTick
  <2>2. ~DeviceISR
    <3> SUFFICES ASSUME DeviceISR PROVE FALSE
      BY Zenon
    <3> DEFINE h == Head(pend_list)
    <3>1. /\ pend_list \in Seq(AllTasks) /\ pend_list # << >> /\ IsInjective(pend_list)
          /\ pend_list' = DeleteItem(pend_list, h)
      BY Zenon DEF IInv, TypeOK, PendInv, DeviceISR, Wake
    <3>2. h \in Range(pend_list) /\ h \in AllTasks
      BY <3>1, HeadTailProps, Zenon
    <3>3. h \notin Range(pend_list')
      <4>1. Range(DeleteItem(pend_list, h)) = Range(pend_list) \ {h}
        BY <3>1, DeleteItemProps, Zenon
      <4>. QED
        BY <3>1, <4>1, Zenon
    <3>. QED
      BY <3>2, <3>3, Zenon
  <2>3. /\ sleep_list \in Seq(AllTasks) /\ sleep_list # << >>
        /\ t = Head(sleep_list)
    BY <2>1, <2>2, Zenon DEF IInv, TypeOK, TickWake, Due
  <2>4. t \in Range(sleep_list)
    BY <2>3, HeadTailProps, Zenon
  <2>5. /\ status_value[t] \in Nat /\ dos_tick_count \in Nat /\ dos_next_wake_tick \in Nat
        /\ status_value[t] >= dos_tick_count
    BY <2>4, Constants, Zenon DEF IInv, TypeOK, SleepInv
  <2>6. dos_tick_count >= dos_next_wake_tick /\ status_value[t] <= dos_next_wake_tick
    BY <2>1, <2>2, <2>3, Zenon DEF TickWake, Due
  <2>. QED
    BY <2>5, <2>6
<1>. QED
  BY <1>1, Inductive, PTL DEF WakesOnTime, Spec
-----------------------------------------------------------------------------
(* Where the application only sleeps, dos_scheduler is never called with   *)
(* interrupts enabled but from the tick handler: the priority that it      *)
(* computes is still the highest when it is stored and when PendSV runs.   *)

(* The bitmap's first bit is the priority of ready tasks, and no ready     *)
(* task has a better one.                                                  *)
LEMMA HighestReady ==
  TypeOK /\ ReadyInv =>
    \A t \in AllTasks : "READY" \in task_status[t] =>
      LET h == HighestPriority(dos_task_priority)
      IN  /\ h \in Prio /\ h <= priority[t]
          /\ \A p \in dos_task_priority : h <= p
          /\ dos_task_priority_list[h].items # << >>
          /\ \A u \in Range(dos_task_priority_list[h].items) :
               u \in AllTasks /\ "READY" \in task_status[u] /\ priority[u] = h
<1> SUFFICES ASSUME TypeOK, ReadyInv, NEW t \in AllTasks, "READY" \in task_status[t]
             PROVE  LET h == HighestPriority(dos_task_priority)
                    IN  /\ h \in Prio /\ h <= priority[t]
                        /\ \A p \in dos_task_priority : h <= p
                        /\ dos_task_priority_list[h].items # << >>
                        /\ \A u \in Range(dos_task_priority_list[h].items) :
                             u \in AllTasks /\ "READY" \in task_status[u] /\ priority[u] = h
  BY Zenon
<1>1. priority[t] \in Prio /\ t \in Range(dos_task_priority_list[priority[t]].items)
      /\ dos_task_priority_list[priority[t]].items \in Seq(AllTasks)
  BY Zenon DEF TypeOK, ReadyInv, Linked, ReadySet, ListType
<1>2. priority[t] \in dos_task_priority /\ dos_task_priority \in SUBSET Nat
      /\ dos_task_priority \subseteq Prio
  BY <1>1, EmptyItems, Constants, Zenon DEF ReadyInv, Bits
<1>3. Min(dos_task_priority) \in dos_task_priority
      /\ \A p \in dos_task_priority : Min(dos_task_priority) <= p
  BY <1>2, MinOfNats, Zenon
<1>4. HighestPriority(dos_task_priority) = Min(dos_task_priority)
  BY <1>2, Zenon DEF HighestPriority
<1>. QED
  BY <1>2, <1>3, <1>4, Zenon DEF ReadyInv, Linked, Bits, ReadySet

(* dos_check_task_priority with the right priority: either a switch is     *)
(* pending that will use it, or the running task already has it.           *)
LEMMA CheckTurn ==
  ASSUME TypeOK', ReadyInv', dos_current_task' = dos_current_task,
         dos_current_task \in AllTasks,
         CheckTaskPriority(HighestPriority(dos_task_priority'))
  PROVE  /\ pendsv' => dos_cur_priority' = HighestPriority(dos_task_priority')
         /\ ~pendsv' => /\ "READY" \in task_status'[dos_current_task']
                        /\ priority'[dos_current_task'] = HighestPriority(dos_task_priority')
<1> DEFINE h == HighestPriority(dos_task_priority')
<1>1. /\ dos_cur_priority' = h
      /\ (h < priority'[dos_current_task] \/ "READY" \notin task_status'[dos_current_task])
           => pendsv'
  BY Zenon DEF CheckTaskPriority
<1>2. (TypeOK /\ ReadyInv =>
         \A t \in AllTasks : "READY" \in task_status[t] =>
           LET k == HighestPriority(dos_task_priority)
           IN  /\ k \in Prio /\ k <= priority[t]
               /\ \A p \in dos_task_priority : k <= p
               /\ dos_task_priority_list[k].items # << >>
               /\ \A u \in Range(dos_task_priority_list[k].items) :
                    u \in AllTasks /\ "READY" \in task_status[u] /\ priority[u] = k)'
  BY HighestReady, PTL
<1>3. ASSUME "READY" \in task_status'[dos_current_task], ~(h < priority'[dos_current_task])
      PROVE  priority'[dos_current_task] = h
  <2>1. h \in Prio /\ h <= priority'[dos_current_task]
    BY <1>2, <1>3, Zenon
  <2>2. priority'[dos_current_task] \in Prio
    BY Zenon DEF TypeOK
  <2>3. \A i, j \in Prio : i <= j /\ ~(i < j) => i = j
    BY Constants
  <2> HIDE DEF h
  <2>. QED
    BY <1>3, <2>1, <2>2, <2>3, Zenon
<1>. QED
  BY <1>1, <1>3, Zenon

(* Every step of a system whose tasks only sleep keeps TurnInv.            *)
LEMMA NextTurn ==
  ASSUME Calls \subseteq {"sleep"}, IInv, IInv', TurnInv, [Next]_vars
  PROVE  TurnInv'
<1> USE DEF IInv
<1>1. ASSUME NEW t \in AllTasks, Create(t) PROVE TurnInv'
  BY <1>1, Zenon DEF Create, TurnInv
<1>2. CASE StartRun
  <2> DEFINE h == HighestPriority(dos_task_priority)
             t == FirstItem(dos_task_priority_list[h].items, NoTask)
  <2>1. "READY" \in task_status[Idle] /\ Idle \in AllTasks
    BY <1>2, Constants, Zenon DEF StartRun, Created
  <2>2. h \in Prio /\ dos_task_priority_list[h].items # << >>
        /\ dos_task_priority_list[h].items \in Seq(AllTasks)
    BY <2>1, HighestReady, Zenon DEF TypeOK, ListType
  <2>3. t \in Range(dos_task_priority_list[h].items)
    BY <2>2, HeadTailProps, Zenon DEF FirstItem
  <2>4. t \in AllTasks /\ "READY" \in task_status[t] /\ priority[t] = h
    BY <2>1, <2>3, HighestReady, Zenon
  <2>. QED
    BY <1>2, <2>1, <2>4, Zenon DEF StartRun, TurnInv
<1>3. ASSUME NEW t \in Tasks, Thread(t) PROVE TurnInv'
  <2>1. PICK n \in SleepTicks : Sleep(t, n)
    <3>1. pc[t] = "app" /\ \A call \in Calls : call = "sleep"
      BY Constants, Zenon DEF TurnInv
    <3>2. ~Yield(t) /\ ~WaitReturn(t) /\ ~Lock(t) /\ ~Unlock(t) /\ ~SchedRead(t) /\ ~SchedCheck(t)
      BY <3>1, Zenon DEF Yield, WaitReturn, Lock, Unlock, SchedRead, SchedCheck, InApp
    <3>3. \A timeout, u : ~Wait(t, timeout, u)
      BY <3>1, Zenon DEF Wait, InApp
    <3>4. \A restore : ~Post(t, restore)
      BY <3>1, Zenon DEF Post, InApp
    <3>. QED
      BY <1>3, <3>2, <3>3, <3>4, Zenon DEF Thread
  <2>2. /\ t = dos_current_task /\ isr = "none" /\ isr' = "none" /\ t # Idle
        /\ dos_current_task' = dos_current_task /\ t \in AllTasks
        /\ UNCHANGED <<scheduler_lock, pend_list, pc>>
    BY <2>1, Constants, SchedAssumption, Zenon DEF Sleep, InApp, Running
  <2>3. CheckTaskPriority(HighestPriority(dos_task_priority'))
    BY <2>1, Zenon DEF Sleep, Scheduler, TurnInv
  <2>4. "READY" \in task_status'[Idle]
    BY <2>1, <2>2, Constants, Zenon DEF Sleep, SleepCurrent, TurnInv, TypeOK
  <2>. QED
    BY <2>2, <2>3, <2>4, CheckTurn, Zenon DEF TurnInv
<1>4. CASE PendSV
  <2> DEFINE l == dos_task_priority_list[dos_cur_priority]
             t == NextItem(l, NoTask)
  <2>1. /\ "READY" \in task_status[Idle] /\ Idle \in AllTasks
        /\ dos_cur_priority = HighestPriority(dos_task_priority)
    BY <1>4, Constants, Zenon DEF PendSV, TurnInv
  <2>2. dos_cur_priority \in Prio /\ l.items # << >>
    BY <2>1, HighestReady, Zenon
  <2>3. t \in Range(l.items)
    BY <2>2, NextItemProps, ListTypeIsCursorList, Zenon DEF TypeOK
  <2>4. t \in AllTasks /\ "READY" \in task_status[t] /\ priority[t] = dos_cur_priority
    BY <2>1, <2>3, HighestReady, Zenon
  <2>. QED
    BY <1>4, <2>1, <2>4, Zenon DEF PendSV, TurnInv
<1>5. CASE TickStart
  BY <1>5, Zenon DEF TickStart, TurnInv, readyVars, schedVars
<1>6. CASE TickWake
  <2>1. "READY" \in task_status'[Idle]
    BY <1>6, Constants, Zenon DEF TickWake, TurnInv, TypeOK
  <2>. QED
    BY <1>6, <2>1, Zenon DEF TickWake, TurnInv, schedVars
<1>7. CASE TickEnd
  BY <1>7, Constants, Zenon DEF TickEnd, TurnInv, TypeOK, readyVars, schedVars
<1>8. CASE TickLeave
  <2>1. CheckTaskPriority(HighestPriority(dos_task_priority'))
    BY <1>8, Zenon DEF TickLeave, TurnInv, readyVars
  <2>. QED
    BY <1>8, <2>1, CheckTurn, Zenon DEF TickLeave, TurnInv, readyVars
<1>9. CASE UNCHANGED vars
  BY <1>9, Zenon DEF vars, TurnInv, readyVars, schedVars
<1>. QED
  BY <1>1, <1>2, <1>3, <1>4, <1>5, <1>6, <1>7, <1>8, <1>9, Zenon DEF Next, SysTick, DeviceISR

(* Where the application only sleeps, the running task is a ready one of   *)
(* the highest ready priority whenever no handler runs and no switch is    *)
(* pending, for any number of tasks, priorities and ticks.                 *)
THEOREM HighestIsRunning ==
  ASSUME Calls \subseteq {"sleep"}
  PROVE  Spec => []HighestRuns
<1>1. Init => TurnInv
  BY Zenon DEF Init, TurnInv
<1>2. IInv /\ IInv' /\ TurnInv /\ [Next]_vars => TurnInv'
  BY NextTurn, Zenon
<1>3. IInv /\ TurnInv => HighestRuns
  <2> SUFFICES ASSUME IInv, TurnInv, isr = "none", ~pendsv PROVE HighestRuns
    BY Zenon DEF HighestRuns
  <2>1. dos_current_task \in AllTasks /\ "READY" \in task_status[dos_current_task]
        /\ priority[dos_current_task] = HighestPriority(dos_task_priority)
    BY Zenon DEF TurnInv
  <2>. QED
    BY <2>1, HighestReady, Constants, Zenon DEF HighestRuns, IInv
<1>. QED
  BY <1>1, <1>2, <1>3, Inductive, PTL DEF Spec

=============================================================================
