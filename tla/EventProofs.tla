---------------------------- MODULE EventProofs -----------------------------
(***************************************************************************)
(* The event flags for any tasks, flags, waits and priorities, with        *)
(* timeouts at any moment and interrupt handlers that set flags too.  The  *)
(* scan of dos_event_set walks round the pend list from wherever its       *)
(* cursor is, and an interrupt handler's scan, in the middle of it, moves  *)
(* the same cursor once round the list: what a scan has still to visit is  *)
(* therefore counted from the cursor.                                      *)
(***************************************************************************)
EXTENDS Event, TaskListProofs

Places == {"app", "wait", "test", "lock", "scan", "take", "wake", "delete"}
Scanning == {"scan", "take", "wake"}

Typed ==
  /\ usage \in Usages
  /\ pend_list \in CursorList(Tasks, Nobody)
  /\ task_status \in [Tasks -> SUBSET StatusBits]
  /\ wait_event \in [Tasks -> Want]
  /\ pc \in [Tasks -> Places]
  /\ locker \in Tasks \cup {Nobody}
  /\ value \in Nat
  /\ isr \in Nat /\ isr <= Len(pend_list.items)

(* The task that scans the list is the one that has the scheduler locked;  *)
(* the task it serves may be off the list already.                         *)
Locked ==
  \A t \in Tasks : /\ locker = t <=> pc[t] \in Scanning
                   /\ pc[t] \in {"take", "wake"} => task \in Tasks /\ value > 0

(* A task on the pend list is inside dos_event_wait and does not run       *)
(* before its wait is marked as given up.                                  *)
Lists ==
  /\ IsInjective(pend_list.items)
  /\ \A t \in Range(pend_list.items) :
       /\ pc[t] = "wait" /\ "SUSPEND" \in task_status[t]
       /\ "READY" \in task_status[t] => "TIMEOUT" \in task_status[t]
  /\ \A t \in Tasks :
       pc[t] = "wait" /\ "SUSPEND" \in task_status[t] => t \in Range(pend_list.items)

(* How far ahead of the cursor the i-th item is, round the list, and how   *)
(* far ahead of where the cursor will be at the end of the interrupt.      *)
Ahead(l, i) ==
  LET c == IndexOf(l.items, l.task_item)
  IN  IF i > c THEN i - c ELSE (i - c) + Len(l.items)

Later(a, v, n) == IF a > v THEN a - v ELSE a + (n - v)
TaskAhead(i) == Later(Ahead(pend_list, i), isr, Len(pend_list.items))

(* The i-th item is still to be visited by the scan of a task, or another  *)
(* dos_event_set is about to scan the list.                                *)
Due(i) ==
  \/ \E u \in Tasks : pc[u] \in {"test", "lock"}
  \/ \E u \in Tasks : pc[u] = "scan" /\ TaskAhead(i) <= value
  \/ \E u \in Tasks : /\ pc[u] \in {"take", "wake"}
                      /\ pend_list.items[i] = task \/ TaskAhead(i) < value

(* A waiter whose flags are there will be visited; so will one whose flags *)
(* come back when the scan stores what it has read before an interrupt.    *)
Kept ==
  \A i \in 1 .. Len(pend_list.items) :
    LET w == wait_event[pend_list.items[i]]
    IN  /\ Meets(event_flag, w) => Due(i) \/ Ahead(pend_list, i) <= isr
        /\ Meets(reg, w) => Due(i) \/ \A u \in Tasks : pc[u] # "take"

TopDeletes == \A t \in usage.deleters, u \in Tasks : t = u \/ BasePrio[t] < BasePrio[u]

(* A task of the highest priority that deletes the event is not preempted  *)
(* between the test of the pend list and the free.                         *)
Deletes ==
  /\ \A t \in Tasks : pc[t] = "delete" => t \in usage.deleters
  /\ TopDeletes =>
       /\ \A t \in Tasks : pc[t] = "delete" =>
            locker = Nobody /\ "READY" \in task_status[t] /\ pend_list.items = << >>
       /\ ~live => pend_list.items = << >>

(* Where interrupts leave the event alone, the scan has no more items to   *)
(* visit than there are, and serves one that it has tested with the flags  *)
(* as they still are.                                                      *)
ScanExact ==
  \A t \in Tasks :
    /\ pc[t] \in Scanning => value <= Len(pend_list.items)
    /\ pc[t] \in {"take", "wake"} => task \in Range(pend_list.items)
    /\ pc[t] = "take" => reg = event_flag /\ Meets(event_flag, wait_event[task])

Exact ==
  usage.isr = {} =>
    /\ isr = 0 /\ event_flag = fresh /\ ~twice
    /\ usage.deleters = {} => live /\ ~fault
    /\ ScanExact

Inv == Typed /\ Locked /\ Lists /\ Kept /\ Deletes /\ Exact

-----------------------------------------------------------------------------
(* Where an item is on a list that has none twice.                         *)
LEMMA IndexFacts ==
  ASSUME NEW T, NEW s \in Seq(T), IsInjective(s), NEW e
  PROVE  /\ IndexOf(s, e) \in 0 .. Len(s)
         /\ IndexOf(s, e) = 0 <=> e \notin Range(s)
         /\ \A i \in 1 .. Len(s) : s[i] = e <=> IndexOf(s, e) = i
<1> DEFINE I == {i \in 1 .. Len(s) : s[i] = e}
           k == IF I = {} THEN 0 ELSE Min(I)
<1>1. /\ I = {} <=> e \notin Range(s)
      /\ I # {} => Min(I) \in 1 .. Len(s) /\ s[Min(I)] = e
  BY IndexOfItem, Zenon
<1>2. IndexOf(s, e) = k
  BY Zenon DEF IndexOf, FirstOf
<1>3. \A i, j \in 1 .. Len(s) : s[i] = s[j] => i = j
  BY DEF IsInjective
<1>4. \A i \in 1 .. Len(s) : s[i] = e => i \in I
  BY Zenon
<1> HIDE DEF I
<1>5. k \in 0 .. Len(s) /\ (k = 0 <=> I = {}) /\ (k # 0 => k \in 1 .. Len(s) /\ s[k] = e)
  BY <1>1
<1> HIDE DEF k
<1> QED
  BY <1>1, <1>2, <1>3, <1>4, <1>5

(* The cursor moves to the next item: every other one is nearer by one.    *)
LEMMA NextAhead ==
  ASSUME NEW T, NEW End, NEW l \in CursorList(T, End), IsInjective(l.items), l.items # << >>,
         NEW m, m = [l EXCEPT !.task_item = NextItem(l, End)]
  PROVE  /\ m.items = l.items /\ m.task_item = NextItem(l, End) /\ m \in CursorList(T, End)
         /\ m.task_item \in Range(l.items)
         /\ \A i \in 1 .. Len(l.items) :
              /\ l.items[i] # m.task_item => Ahead(m, i) = Ahead(l, i) - 1
              /\ l.items[i] = m.task_item => Ahead(l, i) = 1 /\ Ahead(m, i) = Len(l.items)
<1> DEFINE s == l.items
           n == Len(s)
           c == IndexOf(s, l.task_item)
           j == IF c < n THEN c + 1 ELSE 1
<1>1. s \in Seq(T) /\ n \in Nat /\ n > 0 /\ Head(s) = s[1]
  BY DEF CursorList
<1>2. c \in 0 .. n
  BY <1>1, IndexFacts, Zenon
<1>3. NextItem(l, End) = s[j]
  BY <1>1, Zenon DEF NextItem, FirstItem
<1>4. NextItem(l, End) \in T \cup {End} /\ NextItem(l, End) \in Range(s)
  BY NextItemProps, Zenon
<1>5. m.items = s /\ m.task_item = s[j] /\ m \in CursorList(T, End)
  BY <1>3, <1>4, Zenon DEF CursorList
<1>6. j \in 1 .. n /\ IndexOf(s, s[j]) = j
  <2>1. j \in 1 .. n
    BY <1>1, <1>2
  <2> HIDE DEF j
  <2> QED BY <1>1, <2>1, IndexFacts
<1>7. /\ \A i \in 1 .. n : Ahead(l, i) = IF i > c THEN i - c ELSE (i - c) + n
      /\ \A i \in 1 .. n : Ahead(m, i) = IF i > j THEN i - j ELSE (i - j) + n
  BY <1>5, <1>6 DEF Ahead
<1> HIDE DEF s, n, c
<1>8. \A i \in 1 .. n : i # j => Ahead(m, i) = Ahead(l, i) - 1
  <2>1. (c < n /\ j = c + 1) \/ (c = n /\ j = 1)
    BY <1>1, <1>2
  <2> HIDE DEF j
  <2>2. ASSUME NEW a, NEW b, NEW i \in 1 .. n, i # j, a = (IF i > c THEN i - c ELSE (i - c) + n),
               b = (IF i > j THEN i - j ELSE (i - j) + n)
        PROVE  b = a - 1
    BY <1>1, <1>2, <2>1, <2>2
  <2> QED BY <1>7, <2>2, Zenon
<1>9. Ahead(l, j) = 1 /\ Ahead(m, j) = n
  <2>1. (c < n /\ j = c + 1) \/ (c = n /\ j = 1)
    BY <1>1, <1>2
  <2>2. Ahead(l, j) = (IF j > c THEN j - c ELSE (j - c) + n)
        /\ Ahead(m, j) = (IF j > j THEN j - j ELSE (j - j) + n)
    BY <1>6, <1>7, Zenon
  <2> HIDE DEF j
  <2>3. ASSUME NEW a, NEW b, a = (IF j > c THEN j - c ELSE (j - c) + n),
               b = (IF j > j THEN j - j ELSE (j - j) + n)
        PROVE  a = 1 /\ b = n
    BY <1>1, <1>2, <1>6, <2>1, <2>3
  <2> QED BY <2>2, <2>3, Zenon
<1>10. \A i \in 1 .. n : s[i] = s[j] => i = j
  BY <1>6 DEF IsInjective, s, n
<1> QED
  BY <1>3, <1>4, <1>5, <1>8, <1>9, <1>10, Zenon DEF s, n

(* The item under the cursor is deleted and the cursor steps back: no      *)
(* other item is nearer or farther.                                        *)
LEMMA DeleteAhead ==
  ASSUME NEW T, NEW End, End \notin T, NEW l \in CursorList(T, End), IsInjective(l.items),
         l.task_item \in Range(l.items), NEW d, d = ListDelete(l, l.task_item, End)
  PROVE  /\ Len(d.items) = Len(l.items) - 1
         /\ \A i \in 1 .. Len(d.items) : \E j \in 1 .. Len(l.items) :
              /\ d.items[i] = l.items[j] /\ l.items[j] # l.task_item
              /\ Ahead(d, i) = Ahead(l, j)
<1> DEFINE s == l.items
           n == Len(s)
           e == l.task_item
           c == IndexOf(s, e)
           r == d.items
<1>1. s \in Seq(T) /\ n \in Nat /\ IsInjective(s) /\ e \in Range(s)
  BY DEF CursorList
<1>2. c \in 1 .. n /\ s[c] = e /\ \A i \in 1 .. n : s[i] = e => i = c
  <2>1. c \in 0 .. n /\ c # 0 /\ \A i \in 1 .. n : s[i] = e <=> c = i
    BY <1>1, IndexFacts, Zenon
  <2> HIDE DEF c
  <2> QED BY <1>1, <2>1
<1>3. r = RemoveAt(s, c) /\ d.task_item = IF c <= 1 THEN End ELSE s[c - 1]
  BY <1>2 DEF ListDelete, DeleteItem
<1>4. /\ r \in Seq(T) /\ Len(r) = n - 1
      /\ \A i \in 1 .. n - 1 : r[i] = IF i < c THEN s[i] ELSE s[i + 1]
  <2>1. /\ RemoveAt(s, c) \in Seq(T) /\ Len(RemoveAt(s, c)) = Len(s) - 1
        /\ \A i \in 1 .. Len(s) - 1 : RemoveAt(s, c)[i] = IF i < c THEN s[i] ELSE s[i + 1]
    <3> HIDE DEF s, c
    <3> QED BY <1>1, <1>2, RemoveAtIndex, Zenon DEF n
  <2> QED BY <1>3, <2>1, Zenon
<1>5. IsInjective(r)
  BY <1>1, <1>2, <1>3, DeleteItemProps DEF DeleteItem
<1>6. IndexOf(r, d.task_item) = c - 1
  <2>1. CASE c <= 1
    <3>1. d.task_item = End /\ End \notin Range(r)
      BY <1>3, <1>4, <2>1, EmptyItems, Zenon
    <3> HIDE DEF r, c
    <3> QED BY <1>2, <1>4, <1>5, <2>1, <3>1, IndexFacts
  <2>2. CASE c > 1
    <3>1. c - 1 \in 1 .. n - 1 /\ r[c - 1] = s[c - 1] /\ d.task_item = s[c - 1]
      BY <1>1, <1>2, <1>3, <1>4, <2>2
    <3> HIDE DEF r, c
    <3> QED BY <1>4, <1>5, <3>1, IndexFacts
  <2> QED BY <2>1, <2>2, <1>2
<1>7. /\ \A i \in 1 .. n : Ahead(l, i) = IF i > c THEN i - c ELSE (i - c) + n
      /\ \A i \in 1 .. n - 1 :
           Ahead(d, i) = IF i > c - 1 THEN i - (c - 1) ELSE (i - (c - 1)) + (n - 1)
  BY <1>4, <1>6, Zenon DEF Ahead
<1> HIDE DEF s, n, c, r, e
<1>8. ASSUME NEW i \in 1 .. n - 1
      PROVE  \E j \in 1 .. n : r[i] = s[j] /\ s[j] # e /\ Ahead(d, i) = Ahead(l, j)
  <2> DEFINE j == IF i < c THEN i ELSE i + 1
  <2>1. j \in 1 .. n /\ j # c /\ Ahead(d, i) = Ahead(l, j) /\ r[i] = s[j]
    BY <1>1, <1>2, <1>4, <1>7
  <2> HIDE DEF j
  <2> QED BY <1>2, <2>1, Zenon
<1> QED
  BY <1>4, <1>8, Zenon DEF s, n, r, e
(* Whatever item is deleted, no other one is farther from the cursor then. *)
LEMMA DeleteNearer ==
  ASSUME NEW T, NEW End, End \notin T, NEW l \in CursorList(T, End), IsInjective(l.items),
         NEW e \in T, NEW d, d = ListDelete(l, e, End)
  PROVE  /\ e \in Range(l.items) => Len(d.items) = Len(l.items) - 1
         /\ \A i \in 1 .. Len(d.items) : \E j \in 1 .. Len(l.items) :
              /\ d.items[i] = l.items[j] /\ l.items[j] # e
              /\ Ahead(d, i) <= Ahead(l, j)
<1> DEFINE s == l.items
           n == Len(s)
           c == IndexOf(s, l.task_item)
           k == IndexOf(s, e)
           r == d.items
<1>1. s \in Seq(T) /\ n \in Nat /\ IsInjective(s) /\ l.task_item \in T \cup {End}
  BY DEF CursorList
<1>2. c \in 0 .. n /\ \A i \in 1 .. n : s[i] = l.task_item <=> c = i
  BY <1>1, IndexFacts
<1>3. k \in 0 .. n /\ (k = 0 <=> e \notin Range(s)) /\ \A i \in 1 .. n : s[i] = e <=> k = i
  BY <1>1, IndexFacts
<1>4. \A i \in 1 .. n : Ahead(l, i) = IF i > c THEN i - c ELSE (i - c) + n
  BY Zenon DEF Ahead
<1>5. CASE k = 0
  <2>1. r = s /\ d.task_item = IF l.task_item # e THEN l.task_item ELSE End
    BY <1>5 DEF ListDelete, DeleteItem
  <2>2. IndexOf(r, d.task_item) = c
    <3>1. CASE l.task_item # e
      BY <2>1, <3>1, Zenon
    <3>2. CASE l.task_item = e
      <4>1. c = 0
        BY <1>5, <3>2, Zenon
      <4>2. End \notin Range(s)
        BY <1>1, EmptyItems, Zenon
      <4> QED BY <1>1, <2>1, <3>2, <4>1, <4>2, IndexFacts
    <3> QED BY <3>1, <3>2, Zenon
  <2>3. \A i \in 1 .. n : Ahead(d, i) = Ahead(l, i) /\ Ahead(d, i) <= Ahead(l, i)
    <3>1. \A i \in 1 .. n : Ahead(d, i) = IF i > c THEN i - c ELSE (i - c) + n
      BY <2>1, <2>2, Zenon DEF Ahead
    <3> HIDE DEF c, n
    <3> QED BY <1>1, <1>2, <1>4, <3>1
  <2>4. \A i \in 1 .. n : s[i] # e
    BY <1>1, <1>3, <1>5
  <2>5. e \notin Range(s)
    BY <1>3, <1>5, Zenon
  <2> QED BY <2>1, <2>3, <2>4, <2>5, Zenon
<1>6. CASE k # 0
  <2>1. k \in 1 .. n /\ s[k] = e
    BY <1>1, <1>3, <1>6
  <2>2. r = RemoveAt(s, k) /\ d.task_item = IF l.task_item # e THEN l.task_item
                                            ELSE IF k <= 1 THEN End ELSE s[k - 1]
    BY <1>6, Zenon DEF ListDelete, DeleteItem
  <2>3. /\ r \in Seq(T) /\ Len(r) = n - 1
        /\ \A i \in 1 .. n - 1 : r[i] = IF i < k THEN s[i] ELSE s[i + 1]
    <3>1. s \in Seq(T) /\ k \in 1 .. Len(s) /\ n = Len(s)
      BY <1>1, <2>1
    <3>2. /\ RemoveAt(s, k) \in Seq(T) /\ Len(RemoveAt(s, k)) = Len(s) - 1
          /\ \A i \in 1 .. Len(s) - 1 : RemoveAt(s, k)[i] = IF i < k THEN s[i] ELSE s[i + 1]
      BY <3>1, RemoveAtIndex, Zenon
    <3> HIDE DEF s, n, k, r
    <3> QED BY <2>2, <3>1, <3>2, Zenon
  <2>4. IsInjective(r) /\ Range(r) = Range(s) \ {e}
    BY <1>1, <1>6, <2>2, DeleteItemProps DEF DeleteItem
  <2>5. \A x : IndexOf(r, x) = 0 <=> x \notin Range(r)
    BY <2>3, <2>4, IndexFacts, Zenon
  <2>6. \A i \in 1 .. n - 1 : IndexOf(r, r[i]) = i
    BY <2>3, <2>4, IndexFacts
  <2> DEFINE b == IndexOf(r, d.task_item)
  <2>7. b = IF c < k THEN c ELSE c - 1
    <3>1. CASE c = k
      <4>1. l.task_item = e
        BY <1>2, <2>1, <3>1, Zenon
      <4>2. CASE k <= 1
        <5>1. d.task_item = End /\ End \notin Range(r) /\ k = 1
          BY <2>1, <2>2, <2>3, <4>1, <4>2, EmptyItems
        <5> QED BY <2>5, <3>1, <5>1
      <4>3. CASE k > 1
        <5>1. k - 1 \in 1 .. n - 1 /\ r[k - 1] = s[k - 1] /\ d.task_item = s[k - 1]
          BY <1>1, <2>1, <2>2, <2>3, <4>1, <4>3
        <5>2. b = k - 1
          BY <2>6, <5>1, Zenon
        <5> QED BY <2>1, <3>1, <5>2
      <4> QED BY <2>1, <4>2, <4>3
    <3>2. CASE c = 0
      <4>1. l.task_item \notin Range(s)
        BY <1>1, <3>2, IndexFacts, Zenon
      <4>2. l.task_item # e /\ l.task_item \notin Range(r)
        BY <1>3, <1>6, <2>4, <4>1, Zenon
      <4>3. b = 0
        BY <2>2, <2>5, <4>2, Zenon
      <4> QED BY <2>1, <3>2, <4>3
    <3>3. CASE c # 0 /\ c # k
      <4>1. c \in 1 .. n /\ s[c] = l.task_item /\ l.task_item # e
        BY <1>1, <1>2, <1>3, <3>3
      <4>2. d.task_item = s[c]
        BY <2>2, <4>1, Zenon
      <4>3. CASE c < k
        <5>1. c \in 1 .. n - 1 /\ r[c] = s[c]
          BY <1>1, <2>1, <2>3, <4>1, <4>3
        <5> QED BY <2>6, <4>2, <4>3, <5>1, Zenon
      <4>4. CASE c > k
        <5>1. c - 1 \in 1 .. n - 1 /\ r[c - 1] = s[c]
          BY <1>1, <2>1, <2>3, <4>1, <4>4
        <5>2. b = c - 1
          BY <2>6, <4>2, <5>1, Zenon
        <5> QED BY <2>1, <4>1, <4>4, <5>2
      <4> QED BY <2>1, <3>3, <4>1, <4>3, <4>4
    <3> QED BY <3>1, <3>2, <3>3, Zenon
  <2>8. \A i \in 1 .. n - 1 : Ahead(d, i) = IF i > b THEN i - b ELSE (i - b) + (n - 1)
    BY <2>3, Zenon DEF Ahead
  <2> HIDE DEF s, n, c, k, r, b
  <2>9. ASSUME NEW i \in 1 .. n - 1
        PROVE  \E j \in 1 .. n : r[i] = s[j] /\ s[j] # e /\ Ahead(d, i) <= Ahead(l, j)
    <3> DEFINE j == IF i < k THEN i ELSE i + 1
    <3>1. j \in 1 .. n /\ j # k /\ r[i] = s[j] /\ ((i < k /\ j = i) \/ (i >= k /\ j = i + 1))
      BY <1>1, <2>1, <2>3
    <3> HIDE DEF j
    <3>2. s[j] # e
      BY <1>3, <3>1, Zenon
    <3>3. ASSUME NEW x, NEW y, x = (IF i > b THEN i - b ELSE (i - b) + (n - 1)),
                 y = (IF j > c THEN j - c ELSE (j - c) + n)
          PROVE  x <= y
      BY <1>1, <1>2, <2>1, <2>7, <3>1, <3>3
    <3>4. Ahead(d, i) <= Ahead(l, j)
      BY <1>4, <2>8, <3>1, <3>3, Zenon
    <3> QED BY <3>1, <3>2, <3>4, Zenon
  <2> QED BY <2>3, <2>9, Zenon DEF s, n, r
<1> QED BY <1>5, <1>6, Zenon

(* The distances count from 1 to the number of items.                      *)
LEMMA AheadRange ==
  ASSUME NEW T, NEW End, NEW l \in CursorList(T, End), IsInjective(l.items),
         NEW i \in 1 .. Len(l.items)
  PROVE  Ahead(l, i) \in 1 .. Len(l.items)
<1>1. l.items \in Seq(T) /\ Len(l.items) \in Nat
  BY DEF CursorList
<1>2. IndexOf(l.items, l.task_item) \in 0 .. Len(l.items)
  BY <1>1, IndexFacts, Zenon
<1> QED BY <1>1, <1>2 DEF Ahead


-----------------------------------------------------------------------------
(* Fewer flags meet no more waits.                                         *)
LEMMA MeetsMonotone ==
  ASSUME NEW f, NEW g, f \subseteq g, NEW w
  PROVE  /\ Meets(f, w) => Meets(g, w)
         /\ Cleared(g, w) \subseteq g
  BY Zenon DEF Meets, Cleared

LEMMA UseFacts ==
  ASSUME usage \in Usages
  PROVE  /\ \A t \in Tasks : usage.asks[t] \subseteq Want
         /\ usage.deleters \subseteq Tasks
         /\ Nobody \notin Tasks /\ BasePrio \in [Tasks -> Nat] /\ Values(BasePrio, Tasks)
<1>1. usage \in UsageType
  BY EventAssumption, Zenon
<1> QED BY <1>1, EventAssumption, Zenon DEF UsageType, Values

(* While no interrupt handler scans, the distances are from the cursor.    *)
FromCursor ==
  \A i \in 1 .. Len(pend_list.items) :
    TaskAhead(i) = Ahead(pend_list, i) /\ Ahead(pend_list, i) \in 1 .. Len(pend_list.items)

LEMMA AheadNow == (Typed /\ Lists /\ isr = 0) => FromCursor
<1> SUFFICES ASSUME Typed, Lists, isr = 0, NEW i \in 1 .. Len(pend_list.items)
             PROVE  /\ TaskAhead(i) = Ahead(pend_list, i)
                    /\ Ahead(pend_list, i) \in 1 .. Len(pend_list.items)
  BY Zenon DEF FromCursor
<1>1. pend_list \in CursorList(Tasks, Nobody) /\ IsInjective(pend_list.items)
  BY Zenon DEF Typed, Lists
<1>2. Ahead(pend_list, i) \in 1 .. Len(pend_list.items)
  BY <1>1, AheadRange, Zenon
<1>3. Len(pend_list.items) \in Nat
  BY <1>1 DEF CursorList
<1> QED BY <1>2, <1>3 DEF TaskAhead, Later

LEMMA AheadNext == (Typed' /\ Lists' /\ isr' = 0) => FromCursor'
<1>1. ((Typed /\ Lists /\ isr = 0) => FromCursor)'
  BY AheadNow, PTL
<1> QED BY <1>1, Zenon

(* An item stays due if it is no farther from the end of the interrupt.    *)
LEMMA DueMoves ==
  ASSUME UNCHANGED <<pc, value, task>>, value \in Nat, NEW i, NEW j, Due(j),
         pend_list'.items[i] = pend_list.items[j],
         TaskAhead(i)' \in Int, TaskAhead(j) \in Int, TaskAhead(i)' <= TaskAhead(j)
  PROVE  Due(i)'
<1> DEFINE x == TaskAhead(i)'
           y == TaskAhead(j)
<1>1. x \in Int /\ y \in Int /\ x <= y
  BY Zenon
<1>2. Due(i)' <=> \/ \E u \in Tasks : pc[u] \in {"test", "lock"}
                  \/ \E u \in Tasks : pc[u] = "scan" /\ x <= value
                  \/ \E u \in Tasks : /\ pc[u] \in {"take", "wake"}
                                      /\ pend_list.items[j] = task \/ x < value
  BY Zenon DEF Due
<1>3. \/ \E u \in Tasks : pc[u] \in {"test", "lock"}
      \/ \E u \in Tasks : pc[u] = "scan" /\ y <= value
      \/ \E u \in Tasks : /\ pc[u] \in {"take", "wake"}
                          /\ pend_list.items[j] = task \/ y < value
  BY Zenon DEF Due
<1> HIDE DEF x, y
<1>4. (y <= value => x <= value) /\ (y < value => x < value)
  BY <1>1
<1> QED BY <1>2, <1>3, <1>4, Zenon

(* Where nobody scans, a waiter whose flags are there is due only to a     *)
(* dos_event_set that is about to.                                         *)
Quiet == \A u \in Tasks : pc[u] \notin Scanning
Coming == \E u \in Tasks : pc[u] \in {"test", "lock"}

LEMMA KeptQuiet ==
  (Quiet /\ Typed /\ Lists /\ isr = 0) =>
    (Kept <=> \A x \in Range(pend_list.items) : Meets(event_flag, wait_event[x]) => Coming)
<1> SUFFICES ASSUME Quiet, Typed, Lists, isr = 0
             PROVE  Kept <=> \A x \in Range(pend_list.items) :
                               Meets(event_flag, wait_event[x]) => Coming
  BY Zenon
<1>1. (\A i : Due(i) <=> Coming) /\ \A u \in Tasks : pc[u] # "take"
  BY Zenon DEF Quiet, Scanning, Due, Coming
<1>2. pend_list.items \in Seq(Tasks)
  BY Zenon DEF Typed, CursorList
<1>3. Range(pend_list.items) = {pend_list.items[i] : i \in 1 .. Len(pend_list.items)}
  BY <1>2 DEF Range
<1>4. \A i \in 1 .. Len(pend_list.items) : ~(Ahead(pend_list, i) <= isr)
  BY <1>2, AheadNow DEF FromCursor
<1> QED
  BY <1>1, <1>3, <1>4, Zenon DEF Kept

(* A task that runs outside the scan runs while nobody scans.              *)
LEMMA Alone ==
  ASSUME Typed, Locked, NEW t \in Tasks, Running(t), pc[t] \notin Scanning
  PROVE  locker = Nobody /\ Quiet /\ Runs(t, task_status, BasePrio) /\ isr = 0
<1>1. locker # t
  BY Zenon DEF Locked
<1>2. locker = Nobody /\ Runs(t, task_status, BasePrio) /\ isr = 0
  BY <1>1, Zenon DEF Running
<1>3. \A u \in Tasks : locker # u
  BY <1>2, UseFacts, Zenon DEF Typed
<1> QED
  BY <1>2, <1>3, Zenon DEF Quiet, Locked

(* While a task of the highest priority deletes the event no other runs.   *)
LEMMA OnlyDeleter ==
  ASSUME Typed, Locked, Deletes, TopDeletes, NEW t \in Tasks, Running(t),
         NEW u \in Tasks, pc[u] = "delete"
  PROVE  t = u
<1>1. locker = Nobody /\ "READY" \in task_status[u] /\ u \in usage.deleters
  BY Zenon DEF Deletes
<1>2. Runs(t, task_status, BasePrio) /\ DOMAIN task_status = Tasks
  BY <1>1, Zenon DEF Running, Typed
<1>3. BasePrio[t] <= BasePrio[u] /\ BasePrio[t] \in Nat /\ BasePrio[u] \in Nat
  BY <1>1, <1>2, UseFacts, Zenon DEF Runs, Typed
<1>4. u = t \/ BasePrio[u] < BasePrio[t]
  BY <1>1, Zenon DEF TopDeletes
<1> QED
  BY <1>3, <1>4

(* The static state of the event satisfies the invariant.                  *)
LEMMA InitInv == Init => Inv
<1> SUFFICES ASSUME Init PROVE Inv
  BY Zenon
<1>1. pend_list.items = << >> /\ Range(pend_list.items) = {} /\ IsInjective(pend_list.items)
      /\ pend_list \in CursorList(Tasks, Nobody)
  BY DEF Init, EmptyList, CursorList, Range, IsInjective
<1>2. Typed
  BY <1>1 DEF Init, Typed, NoWant, Want, StatusBits, Places
<1>3. Locked /\ Lists
  BY <1>1, <1>2, UseFacts, Zenon DEF Init, Typed, Locked, Lists, Scanning
<1>4. Kept
  BY <1>1 DEF Kept
<1>5. Deletes /\ Exact
  BY <1>1, Zenon DEF Init, Deletes, Exact, ScanExact, Scanning
<1> QED
  BY <1>2, <1>3, <1>4, <1>5, Zenon DEF Inv
-----------------------------------------------------------------------------
(* A step after which nobody scans.                                        *)
LEMMA QuietAfter ==
  ASSUME locker' = Nobody, Quiet'
  PROVE  Locked' /\ ScanExact'
<1>1. Nobody \notin Tasks
  BY EventAssumption, Zenon
<1> QED BY <1>1, Zenon DEF Quiet, Locked, ScanExact, Scanning

LEMMA KeptQuietNext ==
  ASSUME Quiet', Typed', Lists', isr' = 0,
         \A x \in Range(pend_list'.items) : Meets(event_flag', wait_event'[x]) => Coming'
  PROVE  Kept'
<1>1. ((Quiet /\ Typed /\ Lists /\ isr = 0) =>
        (Kept <=> \A x \in Range(pend_list.items) : Meets(event_flag, wait_event[x]) => Coming))'
  BY KeptQuiet, PTL
<1> QED
  BY <1>1, Zenon

LEMMA KeptQuietNow ==
  ASSUME Quiet, Typed, Lists, isr = 0, Kept, NEW x \in Range(pend_list.items),
         Meets(event_flag, wait_event[x])
  PROVE  Coming
  BY KeptQuiet, Zenon

(* dos_event_wait is served at once.                                       *)
LEMMA WaitServed ==
  ASSUME Inv, NEW t \in Tasks, NEW w, NEW wait, Wait(t, w, wait), Meets(event_flag, w)
  PROVE  Inv'
<1>1. /\ Typed /\ Locked /\ Lists /\ Kept /\ Deletes /\ Exact
      /\ Running(t) /\ pc[t] = "app"
      /\ event_flag' = Cleared(event_flag, w) /\ Serve(w)
      /\ UNCHANGED <<pend_list, task_status, wait_event, pc, scanVars, rest>>
  BY Zenon DEF Inv, Wait, At
<1>2. locker = Nobody /\ Quiet /\ isr = 0 /\ isr' = 0
  BY <1>1, Alone, Zenon DEF Scanning, rest
<1>3. Typed' /\ Quiet' /\ Lists' /\ Deletes'
  BY <1>1, <1>2, Zenon DEF Typed, Quiet, Lists, Deletes, TopDeletes, scanVars, rest
<1>4. Locked' /\ ScanExact'
  BY <1>1, <1>2, <1>3, QuietAfter, Zenon DEF scanVars
<1>5. Exact'
  BY <1>1, <1>2, <1>4, Zenon DEF Exact, Serve, Cleared, rest
<1>6. Kept'
  <2>1. ASSUME NEW x \in Range(pend_list'.items), Meets(event_flag', wait_event'[x])
        PROVE  Coming'
    <3>1. x \in Range(pend_list.items) /\ Meets(event_flag', wait_event[x])
      BY <1>1, <2>1, Zenon
    <3>2. Meets(event_flag, wait_event[x])
      BY <1>1, <3>1, MeetsMonotone, Zenon
    <3>3. Coming
      BY <1>1, <1>2, <3>1, <3>2, KeptQuietNow, Zenon
    <3> QED BY <1>1, <3>3, Zenon DEF Coming
  <2> QED BY <1>2, <1>3, <2>1, KeptQuietNext, Zenon
<1> QED
  BY <1>3, <1>4, <1>5, <1>6, Zenon DEF Inv

(* dos_event_wait blocks its caller.                                       *)
LEMMA WaitBlocks ==
  ASSUME Inv, NEW t \in Tasks, NEW w, NEW wait, Wait(t, w, wait), ~Meets(event_flag, w)
  PROVE  Inv'
<1> DEFINE st == Blocked(task_status[t], wait = "forever")
<1>1. /\ Typed /\ Locked /\ Lists /\ Kept /\ Deletes /\ Exact
      /\ Running(t) /\ pc[t] = "app" /\ live /\ w \in usage.asks[t]
      /\ wait_event' = [wait_event EXCEPT ![t] = w]
      /\ task_status' = [task_status EXCEPT ![t] = st]
      /\ pend_list' = ListInsert(pend_list, BasePrio, t)
      /\ pc' = [pc EXCEPT ![t] = "wait"]
      /\ UNCHANGED <<event_flag, fresh, twice, scanVars, rest>>
  BY Zenon DEF Inv, Wait, At
<1>2. locker = Nobody /\ Quiet /\ UNCHANGED <<locker, value>> /\ isr = 0 /\ isr' = 0
  BY <1>1, Alone, Zenon DEF Scanning, scanVars, rest
<1>3. st \in SUBSET StatusBits /\ "READY" \notin st /\ "SUSPEND" \in st
  BY <1>1, Zenon DEF Blocked, Typed, StatusBits
<1> HIDE DEF st
<1>4. /\ pend_list' \in CursorList(Tasks, Nobody) /\ pend_list \in CursorList(Tasks, Nobody)
      /\ pend_list'.items = InsertItem(pend_list.items, BasePrio, t)
  BY <1>1, UseFacts, ListInsertProps DEF Typed
<1>5. t \notin Range(pend_list.items)
  BY <1>1, Zenon DEF Lists
<1>6. Range(pend_list'.items) = Range(pend_list.items) \cup {t} /\ IsInjective(pend_list'.items)
  <2>1. pend_list.items \in Seq(Tasks) /\ IsInjective(pend_list.items)
    BY <1>1, <1>4, Zenon DEF CursorList, Lists
  <2> QED BY <1>1, <1>4, <1>5, <2>1, UseFacts, InsertItemProps DEF Typed
<1>7. Typed'
  <2>1. 0 <= Len(pend_list'.items)
    BY <1>4 DEF CursorList
  <2> QED BY <1>1, <1>2, <1>3, <1>4, <2>1, UseFacts, Zenon DEF Typed, Places, rest
<1>8. /\ pc'[t] = "wait" /\ task_status'[t] = st /\ wait_event'[t] = w
      /\ \A u \in Tasks \ {t} : /\ pc'[u] = pc[u] /\ task_status'[u] = task_status[u]
                                /\ wait_event'[u] = wait_event[u]
  BY <1>1, Zenon DEF Typed
<1>9. Quiet' /\ (Coming => Coming')
  BY <1>1, <1>2, <1>8, Zenon DEF Quiet, Scanning, Coming
<1>10. Locked' /\ ScanExact'
  BY <1>2, <1>9, QuietAfter, Zenon
<1>11. Lists'
  <2>1. Range(pend_list.items) \subseteq Tasks
    BY <1>4, EmptyItems, Zenon DEF CursorList
  <2> QED BY <1>1, <1>3, <1>5, <1>6, <1>8, <2>1, Zenon DEF Lists
<1>12. Kept'
  <2>1. ASSUME NEW x \in Range(pend_list'.items), Meets(event_flag', wait_event'[x])
        PROVE  Coming'
    <3>1. x # t
      BY <1>1, <1>8, <2>1, Zenon
    <3>2. x \in Range(pend_list.items) /\ x \in Tasks
      BY <1>4, <1>6, <2>1, <3>1, EmptyItems, Zenon DEF CursorList
    <3>3. Meets(event_flag, wait_event[x])
      BY <1>1, <1>8, <2>1, <3>1, <3>2, Zenon
    <3>4. Coming
      BY <1>1, <1>2, <3>2, <3>3, KeptQuietNow, Zenon
    <3> QED BY <1>9, <3>4, Zenon
  <2> QED BY <1>2, <1>7, <1>9, <1>11, <2>1, KeptQuietNext, Zenon
<1>13. Deletes'
  <2>1. ASSUME TopDeletes, NEW u \in Tasks, pc[u] = "delete" PROVE FALSE
    BY <1>1, <2>1, OnlyDeleter, Zenon
  <2> QED BY <1>1, <1>8, <2>1, Zenon DEF Deletes, TopDeletes, rest
<1>14. Exact'
  BY <1>1, <1>2, <1>10, Zenon DEF Exact, rest
<1> QED
  BY <1>7, <1>10, <1>11, <1>12, <1>13, <1>14, Zenon DEF Inv

(* The end of dos_event_wait: a task that gave up leaves the list.         *)
LEMMA WaitReturns ==
  ASSUME Inv, NEW t \in Tasks, WaitReturn(t)
  PROVE  Inv'
<1>1. /\ Typed /\ Locked /\ Lists /\ Kept /\ Deletes /\ Exact
      /\ Running(t) /\ pc[t] = "wait"
      /\ pc' = [pc EXCEPT ![t] = "app"]
      /\ UNCHANGED <<event_flag, fresh, twice, scanVars, rest>>
  BY Zenon DEF Inv, WaitReturn, At
<1>2. locker = Nobody /\ Quiet /\ Runs(t, task_status, BasePrio)
      /\ UNCHANGED <<locker, value>> /\ isr = 0 /\ isr' = 0
  BY <1>1, Alone, Zenon DEF Scanning, scanVars, rest
<1>3. pend_list \in CursorList(Tasks, Nobody) /\ pend_list.items \in Seq(Tasks)
      /\ Range(pend_list.items) \subseteq Tasks /\ IsInjective(pend_list.items)
  BY <1>1, EmptyItems, Zenon DEF Typed, CursorList, Lists
<1>4. /\ pend_list' \in CursorList(Tasks, Nobody)
      /\ Range(pend_list'.items) = Range(pend_list.items) \ {t}
      /\ IsInjective(pend_list'.items)
      /\ pend_list.items = << >> => pend_list'.items = << >>
      /\ \A u \in Tasks \ {t} : task_status'[u] = task_status[u] /\ wait_event'[u] = wait_event[u]
      /\ task_status' \in [Tasks -> SUBSET StatusBits] /\ wait_event' \in [Tasks -> Want]
  <2>1. CASE GaveUp(task_status[t])
    <3>1. /\ task_status' = [task_status EXCEPT ![t] = Resumed(@)]
          /\ pend_list' = ListDelete(pend_list, t, Nobody)
          /\ wait_event' = [wait_event EXCEPT ![t] = NoWant]
      BY <2>1, Zenon DEF WaitReturn, LeftList
    <3>2. pend_list' \in CursorList(Tasks, Nobody)
          /\ pend_list'.items = DeleteItem(pend_list.items, t)
      BY <1>3, <3>1, ListDeleteProps
    <3>3. /\ pend_list'.items \in Seq(Tasks)
          /\ Range(pend_list'.items) = Range(pend_list.items) \ {t}
          /\ IsInjective(pend_list'.items)
      BY <1>3, <3>2, DeleteItemProps
    <3>4. pend_list.items = << >> => pend_list'.items = << >>
      <4>1. pend_list.items = << >> => Range(pend_list.items) = {}
        BY <1>3, EmptyItems, Zenon
      <4>2. Range(pend_list'.items) = {} => pend_list'.items = << >>
        BY <3>3, EmptyItems
      <4> QED BY <3>3, <4>1, <4>2, Zenon
    <3>5. Resumed(task_status[t]) \in SUBSET StatusBits /\ NoWant \in Want
      BY <1>1, Zenon DEF Resumed, StatusBits, Typed, NoWant, Want
    <3> QED BY <1>1, <3>1, <3>2, <3>3, <3>4, <3>5, Zenon DEF Typed
  <2>2. CASE ~GaveUp(task_status[t])
    <3>1. UNCHANGED <<task_status, pend_list, wait_event>>
      BY <2>2, Zenon DEF WaitReturn
    <3>2. t \notin Range(pend_list.items)
      BY <1>1, <1>2, <2>2, Zenon DEF Lists, GaveUp, Runs
    <3> QED BY <1>1, <1>3, <3>1, <3>2, Zenon DEF Typed
  <2> QED BY <2>1, <2>2, Zenon
<1>5. Typed'
  <2>1. 0 <= Len(pend_list'.items)
    BY <1>4 DEF CursorList
  <2> QED BY <1>1, <1>2, <1>4, <2>1, Zenon DEF Typed, Places, rest
<1>6. pc'[t] = "app" /\ \A u \in Tasks \ {t} : pc'[u] = pc[u]
  BY <1>1, Zenon DEF Typed
<1>7. Quiet' /\ (Coming => Coming')
  BY <1>1, <1>2, <1>6, Zenon DEF Quiet, Scanning, Coming
<1>8. Locked' /\ ScanExact'
  BY <1>2, <1>7, QuietAfter, Zenon
<1>9. Lists'
  BY <1>1, <1>3, <1>4, <1>6, Zenon DEF Lists
<1>10. Kept'
  <2>1. ASSUME NEW x \in Range(pend_list'.items), Meets(event_flag', wait_event'[x])
        PROVE  Coming'
    <3>1. x \in Range(pend_list.items) /\ x \in Tasks \ {t}
      BY <1>3, <1>4, <2>1, Zenon
    <3>2. Meets(event_flag, wait_event[x])
      BY <1>1, <1>4, <2>1, <3>1, Zenon
    <3>3. Coming
      BY <1>1, <1>2, <3>1, <3>2, KeptQuietNow, Zenon
    <3> QED BY <1>7, <3>3, Zenon
  <2> QED BY <1>2, <1>5, <1>7, <1>9, <2>1, KeptQuietNext, Zenon
<1>11. Deletes'
  <2>1. ASSUME TopDeletes, NEW u \in Tasks, pc[u] = "delete" PROVE FALSE
    BY <1>1, <2>1, OnlyDeleter, Zenon
  <2> QED BY <1>1, <1>4, <1>6, <2>1, Zenon DEF Deletes, TopDeletes, rest
<1>12. Exact'
  BY <1>1, <1>2, <1>8, Zenon DEF Exact, rest
<1> QED
  BY <1>5, <1>8, <1>9, <1>10, <1>11, <1>12, Zenon DEF Inv

(* The steps of dos_event_set before the scan, and of dos_event_delete     *)
(* before the free: only the place of the caller and the flags change.     *)
LEMMA CallerMoves ==
  ASSUME Inv, NEW t \in Tasks, Running(t), pc[t] \in {"app", "test"},
         NEW p \in {"app", "test", "lock", "delete"}, pc' = [pc EXCEPT ![t] = p],
         p = "delete" => t \in usage.deleters /\ pend_list.items = << >>,
         event_flag' = event_flag \/ p = "test",
         p = "app" => pend_list.items = << >>,
         usage.isr = {} => event_flag' = fresh',
         UNCHANGED <<pend_list, task_status, wait_event, scanVars, twice, rest>>
  PROVE  Inv'
<1>1. /\ Typed /\ Locked /\ Lists /\ Kept /\ Deletes /\ Exact
  BY Zenon DEF Inv
<1>2. locker = Nobody /\ Quiet /\ Runs(t, task_status, BasePrio) /\ isr = 0 /\ isr' = 0
  BY <1>1, Alone, Zenon DEF Scanning, rest
<1>3. pc'[t] = p /\ \A u \in Tasks \ {t} : pc'[u] = pc[u]
  BY <1>1, Zenon DEF Typed
<1>4. Typed'
  BY <1>1, Zenon DEF Typed, Places, scanVars, rest
<1>5. Quiet'
  BY <1>2, <1>3, Zenon DEF Quiet, Scanning
<1>6. Locked' /\ ScanExact'
  BY <1>2, <1>5, QuietAfter, Zenon DEF scanVars
<1>7. Lists'
  <2>1. t \notin Range(pend_list.items)
    BY <1>1, Zenon DEF Lists
  <2>2. \A u \in Tasks : pc'[u] = "wait" <=> pc[u] = "wait"
    BY <1>3, Zenon
  <2>3. Range(pend_list.items) \subseteq Tasks
    BY <1>1, EmptyItems, Zenon DEF Typed, CursorList
  <2> QED BY <1>1, <2>2, <2>3, Zenon DEF Lists
<1>8. Kept'
  <2>1. ASSUME NEW x \in Range(pend_list'.items), Meets(event_flag', wait_event'[x])
        PROVE  Coming'
    <3>1. x \in Range(pend_list.items) /\ pend_list.items # << >>
      BY <1>1, <2>1, EmptyItems, Zenon DEF Typed, CursorList
    <3>2. CASE p \in {"test", "lock"}
      BY <1>3, <3>2, Zenon DEF Coming
    <3>3. CASE p \notin {"test", "lock"}
      BY <3>1, <3>3, Zenon
    <3> QED BY <3>2, <3>3, Zenon
  <2> QED BY <1>2, <1>4, <1>5, <1>7, <2>1, KeptQuietNext, Zenon
<1>9. Deletes'
  <2>2. p = "delete" => pend_list'.items = << >> /\ t \in usage'.deleters
    BY Zenon DEF rest
  <2>3. TopDeletes' => /\ TopDeletes
                       /\ \A u \in Tasks : pc'[u] = "delete" => u = t
    <3>1. ASSUME TopDeletes, NEW u \in Tasks, pc[u] = "delete" PROVE FALSE
      BY <1>1, <3>1, OnlyDeleter, Zenon
    <3> QED BY <1>3, <3>1, Zenon DEF TopDeletes, rest
  <2>4. "READY" \in task_status'[t] /\ locker' = Nobody
    BY <1>2, Zenon DEF Runs, scanVars
  <2>5. \A u \in Tasks : pc'[u] = "delete" => u \in usage'.deleters
    BY <1>1, <1>3, <2>2, Zenon DEF Deletes, rest
  <2>6. TopDeletes' => (~live' => pend_list'.items = << >>)
    BY <1>1, <2>3, Zenon DEF Deletes, rest
  <2> QED BY <1>3, <2>2, <2>3, <2>4, <2>5, <2>6, Zenon DEF Deletes
<1>10. Exact'
  BY <1>1, <1>2, <1>6, Zenon DEF Exact, rest
<1> QED
  BY <1>4, <1>6, <1>7, <1>8, <1>9, <1>10, Zenon DEF Inv

LEMMA SetFlagsInv ==
  ASSUME Inv, NEW t \in Tasks, NEW f, SetFlags(t, f)
  PROVE  Inv'
<1>1. usage.isr = {} => event_flag' = fresh'
  BY Zenon DEF Inv, Exact, SetFlags
<1> QED BY <1>1, CallerMoves, Zenon DEF SetFlags, At

LEMMA SetTestInv ==
  ASSUME Inv, NEW t \in Tasks, SetTest(t)
  PROVE  Inv'
<1> DEFINE p == IF NobodyWaits THEN "app" ELSE "lock"
<1>1. event_flag' = event_flag /\ (usage.isr = {} => event_flag' = fresh')
  BY Zenon DEF Inv, Exact, SetTest
<1>2. /\ p \in {"app", "test", "lock", "delete"} /\ p # "delete"
      /\ p = "app" => pend_list.items = << >>
      /\ pc' = [pc EXCEPT ![t] = p] /\ Running(t) /\ pc[t] \in {"app", "test"}
      /\ UNCHANGED <<pend_list, task_status, wait_event, scanVars, twice, rest>>
  BY Zenon DEF NobodyWaits, SetTest, At
<1> HIDE DEF p
<1> QED BY <1>1, <1>2, CallerMoves, Zenon

LEMMA DeleteInv ==
  ASSUME Inv, NEW t \in Tasks, Delete(t)
  PROVE  Inv'
<1>1. event_flag' = event_flag /\ (usage.isr = {} => event_flag' = fresh')
  BY Zenon DEF Inv, Exact, Delete
<1> QED BY <1>1, CallerMoves, Zenon DEF Delete, At, NobodyWaits

(* dos_event_set locks the scheduler and counts the items to visit.        *)
LEMMA SetLockInv ==
  ASSUME Inv, NEW t \in Tasks, SetLock(t)
  PROVE  Inv'
<1>1. /\ Typed /\ Locked /\ Lists /\ Kept /\ Deletes /\ Exact
      /\ Running(t) /\ pc[t] = "lock"
      /\ locker' = t /\ value' = Len(pend_list.items)
      /\ pc' = [pc EXCEPT ![t] = "scan"]
      /\ UNCHANGED <<event_flag, pend_list, task_status, wait_event, fresh, twice, rest>>
  BY Zenon DEF Inv, SetLock, At, LockedBy, VisitsOf
<1>2. locker = Nobody /\ Quiet /\ isr = 0 /\ isr' = 0
  BY <1>1, Alone, Zenon DEF Scanning, rest
<1>3. pc'[t] = "scan" /\ \A u \in Tasks \ {t} : pc'[u] = pc[u]
  BY <1>1, Zenon DEF Typed
<1>4. pend_list.items \in Seq(Tasks) /\ Len(pend_list.items) \in Nat
      /\ IsInjective(pend_list.items) /\ Range(pend_list.items) \subseteq Tasks
  BY <1>1, EmptyItems DEF Typed, CursorList, Lists
<1>5. Typed'
  BY <1>1, <1>4, Zenon DEF Typed, Places, rest
<1>6. Locked'
  BY <1>1, <1>2, <1>3, Zenon DEF Locked, Quiet, Scanning
<1>7. Lists'
  <2>1. \A u \in Tasks : pc'[u] = "wait" <=> pc[u] = "wait"
    BY <1>1, <1>3, Zenon
  <2> QED BY <1>1, <1>4, <2>1, Zenon DEF Lists
<1>8. ScanExact'
  BY <1>1, <1>2, <1>3, <1>4 DEF ScanExact, Quiet, Scanning
<1>9. Kept'
  <2>1. ASSUME NEW i \in 1 .. Len(pend_list.items) PROVE Due(i)'
    <3>1. TaskAhead(i)' \in 1 .. Len(pend_list.items)
      BY <1>1, <1>2, <1>5, <1>7, AheadNext, Zenon DEF FromCursor
    <3>2. TaskAhead(i)' <= value'
      BY <1>1, <1>4, <3>1
    <3> QED BY <1>3, <3>2, Zenon DEF Due
  <2> QED BY <1>1, <2>1, Zenon DEF Kept
<1>10. Deletes'
  <2>1. ASSUME TopDeletes, NEW u \in Tasks, pc[u] = "delete" PROVE FALSE
    BY <1>1, <2>1, OnlyDeleter, Zenon
  <2> QED BY <1>1, <1>3, <2>1, Zenon DEF Deletes, TopDeletes, rest
<1>11. Exact'
  BY <1>1, <1>2, <1>8, Zenon DEF Exact, rest
<1> QED
  BY <1>5, <1>6, <1>7, <1>9, <1>10, <1>11, Zenon DEF Inv

(* A task is in the scan: no other one is, and none deletes the event      *)
(* where only the highest task does.                                       *)
LEMMA Scanner ==
  ASSUME Inv, NEW t \in Tasks, pc[t] \in Scanning, isr = 0
  PROVE  /\ locker = t /\ \A u \in Tasks \ {t} : pc[u] \notin Scanning
         /\ TopDeletes => \A u \in Tasks : pc[u] # "delete"
         /\ pend_list \in CursorList(Tasks, Nobody) /\ pend_list.items \in Seq(Tasks)
         /\ IsInjective(pend_list.items) /\ Range(pend_list.items) \subseteq Tasks
         /\ value \in Nat /\ (usage.isr = {} => value <= Len(pend_list.items))
         /\ FromCursor
<1>1. locker = t /\ locker # Nobody /\ \A u \in Tasks \ {t} : pc[u] \notin Scanning
  BY EventAssumption, Zenon DEF Inv, Locked
<1>2. TopDeletes => \A u \in Tasks : pc[u] # "delete"
  BY <1>1, Zenon DEF Inv, Deletes
<1>3. /\ pend_list \in CursorList(Tasks, Nobody) /\ pend_list.items \in Seq(Tasks)
      /\ IsInjective(pend_list.items) /\ Range(pend_list.items) \subseteq Tasks
  BY EmptyItems, Zenon DEF Inv, Typed, CursorList, Lists
<1>4. value \in Nat /\ (usage.isr = {} => value <= Len(pend_list.items))
  BY Zenon DEF Inv, Typed, Exact, ScanExact
<1>5. FromCursor
  BY AheadNow, Zenon DEF Inv
<1> QED BY <1>1, <1>2, <1>3, <1>4, <1>5, Zenon

(* The scan visits the next item; it finds the end item where interrupts   *)
(* have left the list empty.                                               *)
LEMMA SetNextInv ==
  ASSUME Inv, NEW t \in Tasks, SetNext(t)
  PROVE  Inv'
<1> DEFINE next == NextItem(pend_list, Nobody)
           met == Meets(event_flag, wait_event[next])
           s == pend_list.items
<1>1. /\ Typed /\ Locked /\ Lists /\ Kept /\ Deletes /\ Exact
      /\ pc[t] = "scan" /\ value > 0 /\ pc[t] \in Scanning /\ isr = 0 /\ isr' = 0 /\ live
      /\ fault' = (next = Nobody) /\ pend_list' = [pend_list EXCEPT !.task_item = next]
      /\ UNCHANGED <<event_flag, task_status, wait_event, locker, fresh, twice, live, usage>>
  BY Zenon DEF Inv, SetNext, At, Running, Scanning
<1>2. /\ locker = t /\ \A u \in Tasks \ {t} : pc[u] \notin Scanning
      /\ TopDeletes => \A u \in Tasks : pc[u] # "delete"
      /\ pend_list \in CursorList(Tasks, Nobody) /\ s \in Seq(Tasks)
      /\ IsInjective(s) /\ Range(s) \subseteq Tasks
      /\ value \in Nat /\ (usage.isr = {} => value <= Len(s)) /\ FromCursor
  BY <1>1, Scanner, Zenon
<1>3. CASE s = << >>
  <2>1. next = Nobody /\ pend_list'.items = s /\ Len(s) = 0 /\ usage.isr # {}
    <3>1. Len(s) = 0 /\ IndexOf(s, pend_list.task_item) \in 0 .. Len(s)
      BY <1>2, <1>3, IndexFacts, Zenon
    <3>2. next = Nobody
      BY <1>3, <3>1 DEF NextItem, FirstItem
    <3> HIDE DEF next
    <3> QED BY <1>1, <1>2, <3>1, <3>2 DEF CursorList
  <2>2. pend_list' \in CursorList(Tasks, Nobody)
    BY <1>1, <1>2, <2>1, Zenon DEF CursorList
  <2>3. value' = value - 1 /\ value' \in Nat /\ UNCHANGED <<task, reg, pc>>
    BY <1>1, <1>2, <2>1 DEF SetNext, Visited
  <2>4. Typed' /\ Lists' /\ Kept' /\ Deletes' /\ Exact'
    BY <1>1, <2>1, <2>2, <2>3 DEF Typed, Lists, Kept, Deletes, TopDeletes, Exact
  <2>5. Locked'
    BY <1>1, <1>2, <2>3, Zenon DEF Locked, Scanning
  <2> QED BY <2>4, <2>5, Zenon DEF Inv
<1> SUFFICES ASSUME s # << >> PROVE Inv'
  BY <1>3, Zenon
<1>4. /\ pend_list'.items = s /\ pend_list'.task_item = next
      /\ pend_list' \in CursorList(Tasks, Nobody) /\ next \in Range(s)
      /\ \A i \in 1 .. Len(s) : s[i] # next => Ahead(pend_list', i) = Ahead(pend_list, i) - 1
  <2>1. /\ pend_list'.items = s /\ pend_list'.task_item = NextItem(pend_list, Nobody)
        /\ pend_list' \in CursorList(Tasks, Nobody) /\ pend_list'.task_item \in Range(s)
        /\ \A i \in 1 .. Len(s) :
             s[i] # pend_list'.task_item => Ahead(pend_list', i) = Ahead(pend_list, i) - 1
    BY <1>1, <1>2, NextAhead
  <2> QED BY <2>1, Zenon
<1>5. next \in Tasks /\ next # Nobody /\ fault' = FALSE
  BY <1>1, <1>2, <1>4, EventAssumption, Zenon
<1>6. /\ met => /\ task' = next /\ reg' = event_flag
                /\ pc' = [pc EXCEPT ![t] = "take"] /\ value' = value
      /\ ~met => value' = value - 1 /\ UNCHANGED <<task, reg, pc>>
  BY <1>5, Zenon DEF SetNext, Visited
<1> HIDE DEF next, met
<1>7. /\ met => pc'[t] = "take"
      /\ ~met => pc'[t] = "scan"
      /\ \A u \in Tasks \ {t} : pc'[u] = pc[u]
      /\ pc' \in [Tasks -> Places] /\ value' \in Nat
  <2>1. value - 1 \in Nat
    BY <1>1, <1>2
  <2> QED BY <1>1, <1>2, <1>6, <2>1, Zenon DEF Typed, Places
<1>8. Typed'
  BY <1>1, <1>4, <1>7, Zenon DEF Typed
<1>9. Locked'
  <2>1. value' > 0 \/ ~met
    BY <1>1, <1>6, Zenon
  <2> QED BY <1>1, <1>2, <1>5, <1>6, <1>7, <2>1, Zenon DEF Locked, Scanning
<1>10. Lists'
  <2>1. \A u \in Tasks : pc'[u] = "wait" <=> pc[u] = "wait"
    BY <1>1, <1>7, Zenon
  <2> QED BY <1>1, <1>2, <1>4, <2>1, Zenon DEF Lists
<1>11. usage.isr = {} => ScanExact'
  <2>1. /\ usage.isr = {} => value' <= Len(s)
        /\ met => task' = next /\ reg' = event_flag
    BY <1>1, <1>2, <1>6
  <2> QED BY <1>1, <1>2, <1>4, <1>7, <2>1, Zenon DEF ScanExact, Scanning, met
<1>12. Kept'
  <2> SUFFICES ASSUME NEW i \in 1 .. Len(s), Meets(event_flag, wait_event[s[i]])
               PROVE  Due(i)'
    <3>1. met => reg' = event_flag
      BY <1>6, Zenon
    <3>2. ~met => \A u \in Tasks : pc'[u] # "take"
      BY <1>2, <1>7, Zenon DEF Scanning
    <3> QED BY <1>1, <1>4, <3>1, <3>2, Zenon DEF Kept
  <2>0. /\ TaskAhead(i) = Ahead(pend_list, i) /\ TaskAhead(i)' = Ahead(pend_list', i)
        /\ Ahead(pend_list, i) \in 1 .. Len(s)
    BY <1>1, <1>2, <1>4, <1>8, <1>10, AheadNext, Zenon DEF FromCursor
  <2>1. Coming \/ Ahead(pend_list, i) <= value
    <3>1. Due(i)
      BY <1>1, <1>2, <2>0 DEF Kept
    <3> QED BY <1>1, <1>2, <2>0, <3>1, Zenon DEF Due, Coming, Scanning
  <2>2. CASE Coming
    <3>1. Coming'
      BY <1>1, <1>7, <2>2, Zenon DEF Coming
    <3> QED BY <3>1, Zenon DEF Due, Coming
  <2>3. CASE s[i] = next
    BY <1>4, <1>6, <1>7, <2>3, Zenon DEF Due, met
  <2>4. CASE s[i] # next /\ Ahead(pend_list, i) <= value
    <3>1. Ahead(pend_list', i) = Ahead(pend_list, i) - 1 /\ Ahead(pend_list, i) \in Int
      BY <1>2, <1>4, <2>0, <2>4
    <3>2. /\ met => Ahead(pend_list', i) < value'
          /\ ~met => Ahead(pend_list', i) <= value'
      BY <1>2, <1>6, <2>4, <3>1
    <3> QED BY <1>7, <2>0, <3>2, Zenon DEF Due
  <2> QED BY <2>1, <2>2, <2>3, <2>4, Zenon
<1>13. Deletes' /\ Exact'
  BY <1>1, <1>2, <1>4, <1>5, <1>7, <1>11, Zenon DEF Deletes, TopDeletes, Exact
<1> QED
  BY <1>8, <1>9, <1>10, <1>12, <1>13, Zenon DEF Inv

(* The scan takes the flags of the waiter it serves.                       *)
LEMMA SetTakeInv ==
  ASSUME Inv, NEW t \in Tasks, SetTake(t)
  PROVE  Inv'
<1> DEFINE w == wait_event[task]
<1>1. /\ Typed /\ Locked /\ Lists /\ Kept /\ Deletes /\ Exact
      /\ pc[t] = "take" /\ pc[t] \in Scanning /\ Serve(w) /\ isr = 0 /\ isr' = 0
      /\ pc' = [pc EXCEPT ![t] = "wake"]
      /\ UNCHANGED <<pend_list, task_status, wait_event, locker, value, task, rest>>
  BY Zenon DEF Inv, SetTake, At, Running, Scanning, rest
<1>2. /\ locker = t /\ \A u \in Tasks \ {t} : pc[u] \notin Scanning
      /\ TopDeletes => \A u \in Tasks : pc[u] # "delete"
      /\ Range(pend_list.items) \subseteq Tasks /\ FromCursor
  BY <1>1, Scanner, Zenon
<1>3. event_flag' \subseteq reg \/ event_flag' \subseteq event_flag
  BY Zenon DEF SetTake, Cleared
<1>6. pc'[t] = "wake" /\ \A u \in Tasks \ {t} : pc'[u] = pc[u]
  BY <1>1, Zenon DEF Typed
<1>7. Typed' /\ Locked'
  BY <1>1, <1>2, <1>6, Zenon DEF Typed, Places, Locked, Scanning, rest
<1>8. Lists'
  <2>1. \A u \in Tasks : pc'[u] = "wait" <=> pc[u] = "wait"
    BY <1>1, <1>6, Zenon
  <2> QED BY <1>1, <1>2, <2>1, Zenon DEF Lists
<1>9. ASSUME usage.isr = {}
      PROVE  event_flag' = fresh' /\ ~twice' /\ ScanExact'
  <2>1. event_flag = fresh /\ ~twice /\ ScanExact
    BY <1>1, <1>9, Zenon DEF Exact
  <2>2. reg = event_flag /\ Meets(event_flag, w)
    BY <1>1, <2>1, Zenon DEF ScanExact
  <2>3. event_flag' = Cleared(event_flag, w)
    BY <2>2, Zenon DEF SetTake, Cleared
  <2>4. ScanExact'
    BY <1>1, <1>2, <1>6, <2>1, Zenon DEF ScanExact, Scanning
  <2> QED BY <1>1, <2>1, <2>2, <2>3, <2>4, Zenon DEF Serve, Cleared
<1>10. Kept'
  <2> SUFFICES ASSUME NEW i \in 1 .. Len(pend_list.items),
                      Meets(event_flag', wait_event[pend_list.items[i]])
               PROVE  Due(i)'
    <3>1. \A u \in Tasks : pc'[u] # "take"
      BY <1>2, <1>6, Zenon DEF Scanning
    <3> QED BY <1>1, <3>1, Zenon DEF Kept
  <2>0. Due(i)
    <3>1. \/ Meets(event_flag, wait_event[pend_list.items[i]])
          \/ Meets(reg, wait_event[pend_list.items[i]])
      <4>1. CASE event_flag' \subseteq reg
        BY <4>1, Zenon DEF Meets
      <4>2. CASE event_flag' \subseteq event_flag
        BY <4>2, Zenon DEF Meets
      <4> QED BY <1>3, <4>1, <4>2, Zenon
    <3>2. ~(Ahead(pend_list, i) <= isr)
      BY <1>1, <1>2, SMTT(20) DEF FromCursor
    <3> QED BY <1>1, <3>1, <3>2, Zenon DEF Kept
  <2>1. TaskAhead(i)' = TaskAhead(i)
    BY <1>1, Zenon DEF TaskAhead
  <2>2. Coming \/ pend_list.items[i] = task \/ TaskAhead(i) < value
    BY <1>1, <1>2, <2>0, Zenon DEF Due, Coming, Scanning
  <2>3. Coming => Coming'
    BY <1>1, <1>6, Zenon DEF Coming
  <2> QED BY <1>1, <1>6, <2>1, <2>2, <2>3, Zenon DEF Due, Coming
<1>11. Deletes' /\ Exact'
  BY <1>1, <1>2, <1>6, <1>9, Zenon DEF Deletes, TopDeletes, Exact, rest
<1> QED
  BY <1>7, <1>8, <1>10, <1>11, Zenon DEF Inv

(* The scan wakes the waiter, which leaves the list if it is still on it.  *)
LEMMA SetWakeInv ==
  ASSUME Inv, NEW t \in Tasks, SetWake(t)
  PROVE  Inv'
<1> DEFINE s == pend_list.items
           r == pend_list'.items
<1>1. /\ Typed /\ Locked /\ Lists /\ Kept /\ Deletes /\ Exact
      /\ pc[t] = "wake" /\ pc[t] \in Scanning /\ isr = 0 /\ isr' = 0 /\ live
      /\ task_status' = [task_status EXCEPT ![task] = Woken(@)]
      /\ pend_list' = ListDelete(pend_list, task, Nobody)
      /\ value' = value - 1 /\ pc' = [pc EXCEPT ![t] = "scan"]
      /\ UNCHANGED <<event_flag, wait_event, locker, fresh, twice, rest>>
  BY Zenon DEF Inv, SetWake, At, Running, Scanning, LeftList, Visited, rest
<1>2. /\ locker = t /\ \A u \in Tasks \ {t} : pc[u] \notin Scanning
      /\ TopDeletes => \A u \in Tasks : pc[u] # "delete"
      /\ pend_list \in CursorList(Tasks, Nobody) /\ s \in Seq(Tasks)
      /\ IsInjective(s) /\ Range(s) \subseteq Tasks
      /\ value \in Nat /\ (usage.isr = {} => value <= Len(s)) /\ FromCursor
  BY <1>1, Scanner, Zenon
<1>3. value > 0 /\ task \in Tasks /\ (usage.isr = {} => task \in Range(s))
  BY <1>1, Zenon DEF Locked, Exact, ScanExact
<1>4. /\ pend_list' \in CursorList(Tasks, Nobody) /\ r \in Seq(Tasks)
      /\ Range(r) = Range(s) \ {task} /\ IsInjective(r)
  <2>1. pend_list' \in CursorList(Tasks, Nobody) /\ r = DeleteItem(s, task)
    BY <1>1, <1>2, ListDeleteProps
  <2> QED BY <1>2, <2>1, DeleteItemProps
<1>5. /\ task \in Range(s) => Len(r) = Len(s) - 1
      /\ \A i \in 1 .. Len(r) : \E j \in 1 .. Len(s) :
           r[i] = s[j] /\ s[j] # task /\ Ahead(pend_list', i) <= Ahead(pend_list, j)
  <2>1. Nobody \notin Tasks
    BY EventAssumption, Zenon
  <2> QED BY <1>1, <1>2, <1>3, <2>1, DeleteNearer, SMTT(20)
<1> HIDE DEF r, s
<1>6. /\ Woken(task_status[task]) \in SUBSET StatusBits
      /\ "SUSPEND" \notin Woken(task_status[task])
  BY <1>1, <1>3, Zenon DEF Woken, StatusBits, Typed
<1>7. /\ pc'[t] = "scan" /\ \A u \in Tasks \ {t} : pc'[u] = pc[u]
      /\ task_status'[task] = Woken(task_status[task])
      /\ \A u \in Tasks \ {task} : task_status'[u] = task_status[u]
      /\ task_status' \in [Tasks -> SUBSET StatusBits]
  BY <1>1, <1>3, <1>6, Zenon DEF Typed
<1>8. /\ value' \in Nat /\ value' = value - 1 /\ Len(r) \in Nat
      /\ usage.isr = {} => value' <= Len(r)
  BY <1>1, <1>2, <1>3, <1>4, <1>5, SMTT(20)
<1>9. Typed'
  BY <1>1, <1>4, <1>7, <1>8, SMTT(20) DEF Typed, Places, rest, r
<1>10. Locked'
  BY <1>1, <1>2, <1>7, Zenon DEF Locked, Scanning
<1>11. Lists'
  <2>1. \A u \in Tasks : pc'[u] = "wait" <=> pc[u] = "wait"
    BY <1>1, <1>7, Zenon
  <2> QED BY <1>1, <1>2, <1>3, <1>4, <1>6, <1>7, <2>1 DEF Lists, r, s
<1>12. usage.isr = {} => ScanExact'
  BY <1>2, <1>7, <1>8, Zenon DEF ScanExact, Scanning, r
<1>13. Kept'
  <2> SUFFICES ASSUME NEW i \in 1 .. Len(r), Meets(event_flag, wait_event[r[i]])
               PROVE  Due(i)'
    <3>1. \A u \in Tasks : pc'[u] # "take"
      BY <1>2, <1>7, Zenon DEF Scanning
    <3> QED BY <1>1, <3>1, Zenon DEF Kept, r
  <2>1. PICK j \in 1 .. Len(s) :
          r[i] = s[j] /\ s[j] # task /\ Ahead(pend_list', i) <= Ahead(pend_list, j)
    BY <1>5, Zenon
  <2>2. /\ TaskAhead(j) = Ahead(pend_list, j) /\ Ahead(pend_list, j) \in 1 .. Len(s)
        /\ TaskAhead(i)' = Ahead(pend_list', i) /\ Ahead(pend_list', i) \in 1 .. Len(r)
    BY <1>1, <1>2, <1>9, <1>11, <2>1, AheadNext, Zenon DEF FromCursor, s, r
  <2>3. Due(j)
    BY <1>1, <2>1, <2>2, SMTT(20) DEF Kept, s
  <2>4. Coming \/ Ahead(pend_list, j) < value
    BY <1>1, <1>2, <2>1, <2>2, <2>3, Zenon DEF Due, Coming, Scanning, s
  <2>5. Coming => Coming'
    BY <1>1, <1>7, Zenon DEF Coming
  <2>6. Ahead(pend_list, j) < value => TaskAhead(i)' <= value'
    <3>1. ASSUME NEW a \in Int, NEW b \in Int, NEW v \in Nat, b <= a, a < v PROVE b <= v - 1
      BY <3>1
    <3>2. Ahead(pend_list', i) \in Int /\ Ahead(pend_list, j) \in Int
      BY <2>2, SMTT(20)
    <3> QED BY <1>2, <1>8, <2>1, <2>2, <3>1, <3>2, Zenon
  <2> QED BY <1>7, <2>4, <2>5, <2>6, Zenon DEF Due, Coming
<1>14. Deletes'
  <2>1. TopDeletes' => TopDeletes
    BY <1>1, Zenon DEF TopDeletes, rest
  <2>2. TopDeletes => \A u \in Tasks : pc'[u] # "delete"
    BY <1>2, <1>7, Zenon
  <2> QED BY <1>1, <1>7, <2>1, <2>2, Zenon DEF Deletes, rest
<1>15. Exact'
  BY <1>1, <1>12, Zenon DEF Exact, rest
<1> QED
  BY <1>9, <1>10, <1>11, <1>13, <1>14, <1>15, Zenon DEF Inv

(* The scan is over: nothing is left to visit.                             *)
LEMMA SetUnlockInv ==
  ASSUME Inv, NEW t \in Tasks, SetUnlock(t)
  PROVE  Inv'
<1>1. /\ Typed /\ Locked /\ Lists /\ Kept /\ Deletes /\ Exact
      /\ pc[t] = "scan" /\ pc[t] \in Scanning /\ value = 0 /\ locker' = Nobody
      /\ isr = 0 /\ isr' = 0
      /\ pc' = [pc EXCEPT ![t] = "app"]
      /\ UNCHANGED <<event_flag, pend_list, task_status, wait_event, value, fresh, twice, rest>>
  BY Zenon DEF Inv, SetUnlock, At, Running, Scanning, rest
<1>2. /\ \A u \in Tasks \ {t} : pc[u] \notin Scanning
      /\ TopDeletes => \A u \in Tasks : pc[u] # "delete"
      /\ pend_list.items \in Seq(Tasks) /\ IsInjective(pend_list.items)
      /\ Range(pend_list.items) \subseteq Tasks /\ FromCursor
  BY <1>1, Scanner, Zenon
<1>3. pc'[t] = "app" /\ \A u \in Tasks \ {t} : pc'[u] = pc[u]
  BY <1>1, Zenon DEF Typed
<1>4. Typed' /\ Quiet'
  BY <1>1, <1>2, <1>3, Zenon DEF Typed, Quiet, Places, Scanning, rest
<1>5. Locked' /\ ScanExact'
  BY <1>1, <1>4, QuietAfter, Zenon
<1>6. Lists'
  <2>1. \A u \in Tasks : pc'[u] = "wait" <=> pc[u] = "wait"
    BY <1>1, <1>3, Zenon
  <2> QED BY <1>1, <1>2, <2>1, Zenon DEF Lists
<1>7. Kept'
  <2>1. ASSUME NEW i \in 1 .. Len(pend_list.items),
               Meets(event_flag, wait_event[pend_list.items[i]])
        PROVE  Coming
    <3>1. TaskAhead(i) = Ahead(pend_list, i) /\ Ahead(pend_list, i) \in 1 .. Len(pend_list.items)
      BY <1>2, Zenon DEF FromCursor
    <3>2. Due(i) /\ ~(TaskAhead(i) <= value)
      BY <1>1, <2>1, <3>1 DEF Kept
    <3> QED BY <1>1, <1>2, <3>2, Zenon DEF Due, Coming, Scanning
  <2>2. Coming => Coming'
    BY <1>1, <1>3, Zenon DEF Coming
  <2>3. Coming' => \A i : Due(i)'
    BY Zenon DEF Due, Coming
  <2>4. \A u \in Tasks : pc'[u] # "take"
    BY <1>4, Zenon DEF Quiet, Scanning
  <2> QED BY <1>1, <2>1, <2>2, <2>3, <2>4, Zenon DEF Kept
<1>8. Deletes' /\ Exact'
  BY <1>1, <1>2, <1>3, <1>5, Zenon DEF Deletes, TopDeletes, Exact, rest
<1> QED
  BY <1>4, <1>5, <1>6, <1>7, <1>8, Zenon DEF Inv

(* The application sleeps, or the tick handler ends a sleep or a wait.     *)
LEMMA StatusMoves ==
  ASSUME Inv, NEW t \in Tasks, NEW st \in SUBSET StatusBits,
         task_status' = [task_status EXCEPT ![t] = st],
         "SUSPEND" \in st <=> "SUSPEND" \in task_status[t],
         t \in Range(pend_list.items) => ("READY" \in st => "TIMEOUT" \in st),
         pc[t] = "delete" => "READY" \in st,
         UNCHANGED <<event_flag, pend_list, wait_event, pc, scanVars, fresh, twice, rest>>
  PROVE  Inv'
<1>1. task_status'[t] = st /\ \A u \in Tasks \ {t} : task_status'[u] = task_status[u]
  BY Zenon DEF Inv, Typed
<1>2. Typed' /\ Locked' /\ Exact'
  BY Zenon DEF Inv, Typed, Locked, Exact, ScanExact, scanVars, rest
<1>3. Lists'
  <2>1. Range(pend_list.items) \subseteq Tasks
    BY EmptyItems, Zenon DEF Inv, Typed, CursorList
  <2> QED BY <1>1, <2>1, Zenon DEF Inv, Lists
<1>4. Kept'
  BY Zenon DEF Inv, Kept, Due, TaskAhead, scanVars, rest
<1>5. Deletes'
  BY <1>1, Zenon DEF Inv, Deletes, TopDeletes, scanVars, rest
<1> QED
  BY <1>2, <1>3, <1>4, <1>5, Zenon DEF Inv

LEMMA SleepInv ==
  ASSUME Inv, NEW t \in Tasks, Sleep(t)
  PROVE  Inv'
<1> DEFINE st == Asleep(task_status[t])
<1>1. st \in SUBSET StatusBits /\ ("SUSPEND" \in st <=> "SUSPEND" \in task_status[t])
  BY Zenon DEF Inv, Typed, Asleep, StatusBits
<1>2. t \notin Range(pend_list.items) /\ pc[t] # "delete"
  BY Zenon DEF Inv, Lists, Sleep
<1>3. /\ task_status' = [task_status EXCEPT ![t] = st]
      /\ UNCHANGED <<event_flag, pend_list, wait_event, pc, scanVars, fresh, twice, rest>>
  BY Zenon DEF Sleep
<1> HIDE DEF st
<1> QED BY <1>1, <1>2, <1>3, StatusMoves, Zenon

LEMMA TimeoutInv ==
  ASSUME Inv, NEW t \in Tasks, Timeout(t)
  PROVE  Inv'
<1> DEFINE st == TimedOut(task_status[t])
<1>1. /\ st \in SUBSET StatusBits /\ ("SUSPEND" \in st <=> "SUSPEND" \in task_status[t])
      /\ "READY" \in st /\ ("SUSPEND" \in task_status[t] => "TIMEOUT" \in st)
  BY Zenon DEF Inv, Typed, TimedOut, StatusBits
<1>2. t \in Range(pend_list.items) => "SUSPEND" \in task_status[t]
  BY Zenon DEF Inv, Lists
<1>3. /\ task_status' = [task_status EXCEPT ![t] = st]
      /\ UNCHANGED <<event_flag, pend_list, wait_event, pc, scanVars, fresh, twice, rest>>
  BY Zenon DEF Timeout
<1> HIDE DEF st
<1> QED BY <1>1, <1>2, <1>3, StatusMoves, Zenon

(* dos_event_delete frees the event.                                       *)
LEMMA DeleteFreeInv ==
  ASSUME Inv, NEW t \in Tasks, DeleteFree(t)
  PROVE  Inv'
<1>1. /\ Typed /\ Locked /\ Lists /\ Kept /\ Deletes /\ Exact
      /\ Running(t) /\ pc[t] = "delete" /\ live' = FALSE
      /\ event_flag' = {} /\ fresh' = {} /\ pc' = [pc EXCEPT ![t] = "app"]
      /\ UNCHANGED <<pend_list, task_status, wait_event, scanVars, twice, isr, fault, usage>>
  BY Zenon DEF Inv, DeleteFree, At
<1>2. locker = Nobody /\ Quiet /\ isr = 0
  BY <1>1, Alone, Zenon DEF Scanning
<1>3. pc'[t] = "app" /\ \A u \in Tasks \ {t} : pc'[u] = pc[u]
  BY <1>1, Zenon DEF Typed
<1>4. Typed' /\ Quiet'
  BY <1>1, <1>2, <1>3, Zenon DEF Typed, Quiet, Places, Scanning, scanVars
<1>5. Locked' /\ ScanExact'
  BY <1>1, <1>2, <1>4, QuietAfter, Zenon DEF scanVars
<1>6. Lists'
  <2>1. \A u \in Tasks : pc'[u] = "wait" <=> pc[u] = "wait"
    BY <1>1, <1>3, Zenon
  <2>2. Range(pend_list.items) \subseteq Tasks
    BY <1>1, EmptyItems, Zenon DEF Typed, CursorList
  <2> QED BY <1>1, <2>1, <2>2, Zenon DEF Lists
<1>7. Kept'
  <2>1. ASSUME NEW x \in Range(pend_list'.items), Meets(event_flag', wait_event'[x])
        PROVE  Coming'
    <3>1. x \in Range(pend_list.items) /\ Meets({}, wait_event[x])
      BY <1>1, <2>1, Zenon
    <3>2. Meets(event_flag, wait_event[x])
      BY <3>1, MeetsMonotone, Zenon
    <3>3. Coming
      BY <1>1, <1>2, <3>1, <3>2, KeptQuietNow, Zenon
    <3> QED BY <1>1, <1>3, <3>3, Zenon DEF Coming
  <2> QED BY <1>1, <1>2, <1>4, <1>6, <2>1, KeptQuietNext, Zenon
<1>8. Deletes' /\ Exact'
  <2>1. t \in usage.deleters
    BY <1>1, Zenon DEF Deletes
  <2> QED BY <1>1, <1>3, <1>5, <2>1, Zenon DEF Deletes, TopDeletes, Exact, scanVars
<1> QED
  BY <1>4, <1>5, <1>6, <1>7, <1>8, Zenon DEF Inv

(* A task goes on with an event that was freed.                            *)
LEMMA UseFreedInv ==
  ASSUME Inv, NEW t \in Tasks, UseFreed(t)
  PROVE  Inv'
<1>1. Typed' /\ Locked' /\ Exact' /\ Lists'
  BY Zenon DEF Inv, UseFreed, Typed, Locked, Exact, ScanExact, Lists, scanVars
<1>2. Kept' /\ Deletes'
  BY Zenon DEF Inv, UseFreed, Kept, Due, TaskAhead, Deletes, TopDeletes, scanVars
<1> QED
  BY <1>1, <1>2, Zenon DEF Inv

-----------------------------------------------------------------------------
(* An interrupt handler sets flags: whoever they meet is ahead of it.      *)
LEMMA IsrSetInv ==
  ASSUME Inv, NEW f, IsrSet(f), f \in usage.isr
  PROVE  Inv'
<1>1. /\ Typed /\ Locked /\ Lists /\ Kept /\ Deletes /\ isr = 0
      /\ UNCHANGED <<pend_list, task_status, wait_event, pc, twice, live, fault, usage>>
      /\ UNCHANGED <<locker, value, task, reg>>
  BY Zenon DEF Inv, IsrSet, scanVars
<1>2. pend_list.items \in Seq(Tasks) /\ Len(pend_list.items) \in Nat /\ FromCursor
  <2>1. FromCursor
    BY <1>1, AheadNow, Zenon
  <2>2. pend_list.items \in Seq(Tasks) /\ Len(pend_list.items) \in Nat
    BY <1>1 DEF Typed, CursorList
  <2> QED BY <2>1, <2>2, Zenon
<1>3. isr' = Len(pend_list.items)
  BY <1>2, SMTT(20) DEF IsrSet, VisitsOf, NobodyWaits
<1>4. Typed'
  <2>1. isr' \in Nat /\ isr' <= Len(pend_list'.items)
    BY <1>1, <1>2, <1>3
  <2> QED BY <1>1, <2>1, Zenon DEF Typed
<1>5. Locked' /\ Lists'
  BY <1>1, Zenon DEF Locked, Lists
<1>6. Deletes' /\ Exact'
  BY <1>1, Zenon DEF Deletes, TopDeletes, Exact
<1>7. Kept'
  <2> SUFFICES ASSUME NEW i \in 1 .. Len(pend_list.items)
               PROVE  /\ Ahead(pend_list, i) <= isr'
                      /\ Due(i) => Due(i)'
    BY <1>1, Zenon DEF Kept
  <2>1. TaskAhead(i) = Ahead(pend_list, i) /\ Ahead(pend_list, i) \in 1 .. Len(pend_list.items)
    BY <1>2, Zenon DEF FromCursor
  <2>2. Later(Ahead(pend_list, i), Len(pend_list.items), Len(pend_list.items)) = Ahead(pend_list, i)
    BY <1>2, <2>1 DEF Later
  <2>3. TaskAhead(i)' = TaskAhead(i)
    BY <1>1, <1>3, <2>1, <2>2, Zenon DEF TaskAhead
  <2>4. Ahead(pend_list, i) <= isr'
    BY <1>2, <1>3, <2>1
  <2>5. Due(i) => Due(i)'
    BY <1>1, <2>3, Zenon DEF Due
  <2> QED BY <2>4, <2>5, Zenon
<1> QED
  BY <1>4, <1>5, <1>6, <1>7, Zenon DEF Inv

(* The cursor and the end of the interrupt handler's scan come nearer      *)
(* together: for the task's scan, an item is where it was, or nearer.      *)
LEMMA LaterMoves ==
  ASSUME NEW n \in Nat, NEW v \in 1 .. n, NEW a \in 1 .. n
  PROVE  /\ Later(a, v, n) \in Int /\ Later(n, v - 1, n) = Later(1, v, n)
         /\ a > 1 => /\ Later(a - 1, v - 1, n) = Later(a, v, n)
                     /\ Later(a - 1, v - 1, n - 1) \in Int
                     /\ Later(a - 1, v - 1, n - 1) <= Later(a, v, n)
  BY DEF Later

(* An interrupt handler visits the next item of the list.                  *)
LEMMA IsrVisitInv ==
  ASSUME Inv, IsrVisit
  PROVE  Inv'
<1> DEFINE next == NextItem(pend_list, Nobody)
           w == wait_event[next]
           moved == [pend_list EXCEPT !.task_item = next]
           s == pend_list.items
           n == Len(s)
<1>1. /\ Typed /\ Locked /\ Lists /\ Kept /\ Deletes /\ Exact
      /\ isr > 0 /\ isr' = isr - 1 /\ isr \in Nat /\ isr <= n
      /\ UNCHANGED <<wait_event, pc, scanVars, live, fault, usage>>
      /\ UNCHANGED <<value, task, reg, locker>>
  BY Zenon DEF Inv, Typed, IsrVisit, scanVars
<1>2. /\ pend_list \in CursorList(Tasks, Nobody) /\ s \in Seq(Tasks) /\ n \in Nat /\ s # << >>
      /\ IsInjective(s) /\ Range(s) \subseteq Tasks /\ isr \in 1 .. n
  BY <1>1, EmptyItems DEF Typed, CursorList, Lists
<1>3. /\ moved.items = s /\ moved.task_item = next /\ moved \in CursorList(Tasks, Nobody)
      /\ next \in Range(s)
      /\ \A i \in 1 .. n :
           /\ s[i] # next => Ahead(moved, i) = Ahead(pend_list, i) - 1
           /\ s[i] = next => Ahead(pend_list, i) = 1 /\ Ahead(moved, i) = n
  <2>1. ASSUME NEW m, m = [pend_list EXCEPT !.task_item = NextItem(pend_list, Nobody)]
        PROVE  /\ m.items = s /\ m.task_item = NextItem(pend_list, Nobody)
               /\ m \in CursorList(Tasks, Nobody) /\ m.task_item \in Range(s)
               /\ \A i \in 1 .. n :
                    /\ s[i] # m.task_item => Ahead(m, i) = Ahead(pend_list, i) - 1
                    /\ s[i] = m.task_item => Ahead(pend_list, i) = 1 /\ Ahead(m, i) = n
    BY <1>2, <2>1, NextAhead
  <2>2. moved = [pend_list EXCEPT !.task_item = NextItem(pend_list, Nobody)]
    BY Zenon
  <2> HIDE DEF moved
  <2>3. moved.task_item = next
    BY <2>1, <2>2, Zenon
  <2> QED BY <2>1, <2>2, <2>3, Zenon
<1>4. next \in Tasks /\ n >= 1
  BY <1>2, <1>3
<1>5. /\ Meets(event_flag, w) =>
           /\ event_flag' = Cleared(event_flag, w)
           /\ task_status' = [task_status EXCEPT ![next] = Woken(@)]
           /\ pend_list' = ListDelete(moved, next, Nobody)
      /\ ~Meets(event_flag, w) =>
           /\ pend_list' = moved /\ UNCHANGED <<event_flag, task_status>>
  BY Zenon DEF IsrVisit, LeftList
<1> HIDE DEF next, w, moved
<1>6. \A i \in 1 .. n : Ahead(pend_list, i) \in 1 .. n /\ Ahead(moved, i) \in 1 .. n
  BY <1>2, <1>3, AheadRange, Zenon
<1>7. ASSUME NEW i \in 1 .. n, s[i] # next
       PROVE  /\ Ahead(moved, i) = Ahead(pend_list, i) - 1
              /\ Ahead(pend_list, i) \in 1 .. n /\ Ahead(pend_list, i) > 1
  <2>1. /\ Ahead(moved, i) = Ahead(pend_list, i) - 1
        /\ Ahead(pend_list, i) \in 1 .. n /\ Ahead(moved, i) \in 1 .. n
    BY <1>3, <1>6, <1>7, Zenon
  <2> HIDE DEF s, n
  <2> QED BY <1>2, <2>1
<1>8. Deletes' /\ Locked'
  BY <1>1, <1>2, Zenon DEF Deletes, TopDeletes, Locked
<1>9. Exact'
  BY <1>1 DEF Exact
<1>10. CASE ~Meets(event_flag, w)
  <2>1. pend_list'.items = s /\ pend_list' = moved /\ UNCHANGED <<event_flag, task_status>>
    BY <1>3, <1>5, <1>10, Zenon
  <2>2. Typed' /\ Lists'
    BY <1>1, <1>2, <1>3, <2>1, SMTT(20) DEF Typed, Lists
  <2>3. Kept'
    <3> SUFFICES ASSUME NEW i \in 1 .. n
                 PROVE  /\ Due(i) => Due(i)'
                        /\ /\ Ahead(pend_list, i) <= isr
                           /\ Meets(event_flag, wait_event[s[i]])
                           => Ahead(pend_list', i) <= isr'
      BY <1>1, <2>1, Zenon DEF Kept
    <3>1. TaskAhead(i)' = TaskAhead(i) /\ TaskAhead(i) \in Int
      <4>1. /\ TaskAhead(i) = Later(Ahead(pend_list, i), isr, n)
            /\ TaskAhead(i)' = Later(Ahead(moved, i), isr - 1, n)
        BY <1>1, <2>1, Zenon DEF TaskAhead
      <4>2. CASE s[i] = next
        <5>1. Ahead(pend_list, i) = 1 /\ Ahead(moved, i) = n
          BY <1>3, <4>2, Zenon
        <5> HIDE DEF s, n
        <5>2. Later(n, isr - 1, n) = Later(1, isr, n) /\ Later(1, isr, n) \in Int
          BY <1>2, <1>4, LaterMoves
        <5> QED BY <4>1, <5>1, <5>2, Zenon
      <4>3. CASE s[i] # next
        <5>1. /\ Ahead(moved, i) = Ahead(pend_list, i) - 1
              /\ Ahead(pend_list, i) \in 1 .. n /\ Ahead(pend_list, i) > 1
          BY <1>7, <4>3, Zenon
        <5> HIDE DEF s, n
        <5>2. /\ Later(Ahead(pend_list, i) - 1, isr - 1, n) = Later(Ahead(pend_list, i), isr, n)
              /\ Later(Ahead(pend_list, i), isr, n) \in Int
          BY <1>2, <5>1, LaterMoves, Zenon
        <5> QED BY <4>1, <5>1, <5>2, Zenon
      <4> QED BY <4>2, <4>3, Zenon
    <3>2. Due(i) => Due(i)'
      <4>1. value \in Nat /\ UNCHANGED <<pc, value, task>> /\ pend_list'.items[i] = s[i]
        BY <1>1, <2>1, Zenon DEF Typed
      <4>2. TaskAhead(i)' <= TaskAhead(i) /\ TaskAhead(i)' \in Int
        BY <3>1
      <4> QED BY <3>1, <4>1, <4>2, DueMoves, Zenon
    <3>3. ASSUME Ahead(pend_list, i) <= isr, Meets(event_flag, wait_event[s[i]])
          PROVE  Ahead(pend_list', i) <= isr'
      <4>1. s[i] # next
        BY <1>10, <3>3, Zenon DEF w
      <4>2. Ahead(moved, i) = Ahead(pend_list, i) - 1 /\ Ahead(pend_list, i) \in 1 .. n
        BY <1>7, <4>1, Zenon
      <4> HIDE DEF s, n
      <4>3. Ahead(moved, i) <= isr - 1
        BY <1>1, <1>2, <3>3, <4>2
      <4> QED BY <1>1, <2>1, <4>3, Zenon
    <3> QED BY <3>2, <3>3, Zenon
  <2> QED BY <1>8, <1>9, <2>2, <2>3, Zenon DEF Inv
<1>11. CASE Meets(event_flag, w)
  <2> DEFINE r == pend_list'.items
  <2>1. /\ pend_list' = ListDelete(moved, next, Nobody) /\ event_flag' \subseteq event_flag
        /\ task_status' = [task_status EXCEPT ![next] = Woken(@)]
    BY <1>5, <1>11, MeetsMonotone, Zenon
  <2>2. /\ Len(r) = n - 1
        /\ \A i \in 1 .. Len(r) : \E j \in 1 .. n :
             r[i] = s[j] /\ s[j] # next /\ Ahead(pend_list', i) = Ahead(moved, j)
    <3>1. Nobody \notin Tasks
      BY EventAssumption, Zenon
    <3>2. /\ Len(pend_list'.items) = Len(moved.items) - 1
          /\ \A i \in 1 .. Len(pend_list'.items) : \E j \in 1 .. Len(moved.items) :
               /\ pend_list'.items[i] = moved.items[j] /\ moved.items[j] # moved.task_item
               /\ Ahead(pend_list', i) = Ahead(moved, j)
      <4>1. pend_list' = ListDelete(moved, moved.task_item, Nobody)
        BY <1>3, <2>1, Zenon
      <4>2. IsInjective(moved.items) /\ moved.task_item \in Range(moved.items)
        BY <1>2, <1>3, Zenon
      <4> QED BY <1>3, <3>1, <4>1, <4>2, DeleteAhead, SMTT(20)
    <3> QED BY <1>3, <3>2
  <2>3. /\ pend_list' \in CursorList(Tasks, Nobody)
        /\ Range(r) = Range(s) \ {next} /\ IsInjective(r)
    <3>1. pend_list' \in CursorList(Tasks, Nobody) /\ r = DeleteItem(s, next)
      BY <1>3, <2>1, ListDeleteProps
    <3> QED BY <1>2, <3>1, DeleteItemProps
  <2>4. /\ task_status' \in [Tasks -> SUBSET StatusBits] /\ "SUSPEND" \notin task_status'[next]
        /\ \A u \in Tasks \ {next} : task_status'[u] = task_status[u]
    <3>1. /\ Woken(task_status[next]) \in SUBSET StatusBits
          /\ "SUSPEND" \notin Woken(task_status[next])
      BY <1>1, <1>4, Zenon DEF Woken, StatusBits, Typed
    <3> QED BY <1>1, <1>4, <2>1, <3>1, Zenon DEF Typed
  <2> HIDE DEF r, s, n
  <2>5. isr' \in Nat /\ isr' <= Len(r)
    BY <1>1, <1>2, <2>2
  <2>6. Typed'
    BY <1>1, <2>3, <2>4, <2>5, Zenon DEF Typed, r
  <2>7. Lists'
    BY <1>1, <1>2, <1>4, <2>3, <2>4, Zenon DEF Lists, r, s
  <2>8. Kept'
    <3>1. ASSUME NEW i \in 1 .. Len(r)
          PROVE  /\ Meets(event_flag', wait_event[r[i]]) => Due(i)' \/ Ahead(pend_list', i) <= isr'
                 /\ Meets(reg, wait_event[r[i]]) => Due(i)' \/ \A u \in Tasks : pc[u] # "take"
      <4>1. PICK j \in 1 .. n :
              r[i] = s[j] /\ s[j] # next /\ Ahead(pend_list', i) = Ahead(moved, j)
        BY <2>2, Zenon
      <4>2. /\ Ahead(pend_list', i) = Ahead(pend_list, j) - 1
            /\ Ahead(pend_list, j) \in 1 .. n /\ Ahead(pend_list, j) > 1
        BY <1>7, <4>1, Zenon
      <4>3. /\ TaskAhead(j) = Later(Ahead(pend_list, j), isr, n)
            /\ TaskAhead(i)' = Later(Ahead(pend_list, j) - 1, isr - 1, n - 1)
        BY <1>1, <2>2, <4>2, Zenon DEF TaskAhead, n, s, r
      <4>4. TaskAhead(i)' \in Int /\ TaskAhead(j) \in Int /\ TaskAhead(i)' <= TaskAhead(j)
        BY <1>2, <4>2, <4>3, LaterMoves
      <4>5. Due(j) => Due(i)'
        <5>1. /\ value \in Nat /\ UNCHANGED <<pc, value, task>>
              /\ pend_list'.items[i] = pend_list.items[j]
          BY <1>1, <4>1, Zenon DEF Typed, r, s
        <5> QED BY <4>4, <5>1, DueMoves, Zenon
      <4>6. Meets(event_flag', wait_event[r[i]]) => Meets(event_flag, wait_event[s[j]])
        BY <2>1, <4>1, MeetsMonotone, Zenon
      <4>7. Ahead(pend_list, j) <= isr => Ahead(pend_list', i) <= isr'
        BY <1>1, <4>2
      <4>8. /\ Meets(event_flag, wait_event[s[j]]) => Due(j) \/ Ahead(pend_list, j) <= isr
            /\ Meets(reg, wait_event[s[j]]) => Due(j) \/ \A u \in Tasks : pc[u] # "take"
        BY <1>1, Zenon DEF Kept, s, n
      <4> QED BY <4>1, <4>5, <4>6, <4>7, <4>8, Zenon
    <3> QED BY <1>1, <3>1, Zenon DEF Kept, r
  <2> QED BY <1>8, <1>9, <2>6, <2>7, <2>8, Zenon DEF Inv
<1> QED BY <1>10, <1>11, Zenon

-----------------------------------------------------------------------------
(* Every step of the tasks, the tick and the interrupt handlers keeps the  *)
(* invariant.                                                              *)
LEMMA NextInv == Inv /\ [Next]_vars => Inv'
<1> SUFFICES ASSUME Inv, [Next]_vars PROVE Inv'
  BY Zenon
<1>1. CASE UNCHANGED vars
  <2>1. Typed' /\ Locked' /\ Exact' /\ Lists'
    BY <1>1, Zenon DEF Inv, Typed, Locked, Exact, ScanExact, Lists, vars, scanVars, rest
  <2>2. Kept' /\ Deletes'
    BY <1>1, Zenon DEF Inv, Kept, Due, TaskAhead, Deletes, TopDeletes, vars, scanVars, rest
  <2> QED BY <2>1, <2>2, Zenon DEF Inv
<1>2. ASSUME NEW f \in usage.isr, IsrSet(f) PROVE Inv'
  BY <1>2, IsrSetInv, Zenon
<1>3. CASE IsrVisit
  BY <1>3, IsrVisitInv, Zenon
<1>4. ASSUME NEW t \in Tasks, NEW w, NEW wait, Wait(t, w, wait) PROVE Inv'
  BY <1>4, WaitServed, WaitBlocks, Zenon
<1>5. ASSUME NEW t \in Tasks, NEW f, SetFlags(t, f) PROVE Inv'
  BY <1>5, SetFlagsInv, Zenon
<1>6. ASSUME NEW t \in Tasks, WaitReturn(t) \/ SetTest(t) \/ SetLock(t) PROVE Inv'
  BY <1>6, WaitReturns, SetTestInv, SetLockInv, Zenon
<1>7. ASSUME NEW t \in Tasks, SetNext(t) \/ SetTake(t) \/ SetWake(t) \/ SetUnlock(t) PROVE Inv'
  BY <1>7, SetNextInv, SetTakeInv, SetWakeInv, SetUnlockInv, Zenon
<1>8. ASSUME NEW t \in Tasks, Sleep(t) \/ Timeout(t) \/ Delete(t) \/ DeleteFree(t) \/ UseFreed(t)
      PROVE Inv'
  BY <1>8, SleepInv, TimeoutInv, DeleteInv, DeleteFreeInv, UseFreedInv, Zenon
<1> QED
  BY <1>1, <1>2, <1>3, <1>4, <1>5, <1>6, <1>7, <1>8, Zenon DEF Next

(* The invariant holds always.                                             *)
LEMMA Invariance == Spec => []Inv
  BY InitInv, NextInv, PTL DEF Spec

(* If no interrupt handler sets flags, event_flag is exactly what was set  *)
(* and not yet taken, however timeouts, waits and several scans of         *)
(* dos_event_set interleave, and a flag serves one clearing wait only.     *)
THEOREM FlagsStayExact == Spec => []FlagsExact
<1>1. Inv => FlagsExact
  BY Zenon DEF Inv, Exact, FlagsExact
<1> QED BY <1>1, Invariance, PTL

(* Then the scan of dos_event_set visits no more items than the list has,  *)
(* so it never takes the end item for a task, if the event is not deleted. *)
THEOREM ScansOnlyTasks == Spec => []NoEndItem
<1>1. Inv => NoEndItem
  BY Zenon DEF Inv, Exact, NoEndItem
<1> QED BY <1>1, Invariance, PTL

(* The scan of dos_event_set misses no waiter: between calls nobody waits  *)
(* for flags that are there, wherever the cursor of the list was when the  *)
(* scan began and however interrupt handlers set flags, serve waiters and  *)
(* move the cursor in the middle of it; nor does anybody wait for an event *)
(* that the highest task has freed.                                        *)
THEOREM ServesWaiters == Spec => []Served
<1>1. ASSUME Inv PROVE Served
  <2>1. ASSUME Between, NEW t \in Tasks, Waiting(t), Meets(event_flag, wait_event[t]) PROVE FALSE
    <3>1. Quiet /\ ~Coming /\ isr = 0
      BY <2>1, Zenon DEF Between, Quiet, Scanning, Coming
    <3>2. t \in Range(pend_list.items)
      BY <1>1, <2>1, Zenon DEF Inv, Lists, Waiting
    <3> QED BY <1>1, <2>1, <3>1, <3>2, KeptQuietNow, Zenon DEF Inv
  <2>2. (~live /\ TopDeletes) => pend_list.items = << >>
    BY <1>1, Zenon DEF Inv, Deletes
  <2> QED BY <2>1, <2>2, Zenon DEF Served, TopDeletes
<1>2. Inv => Served
  BY <1>1, Zenon
<1> QED BY <1>2, Invariance, PTL

=============================================================================
