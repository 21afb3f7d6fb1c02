---------------------------- MODULE SwtmrProofs -----------------------------
(***************************************************************************)
(* The software timers, for any timers, timeouts, senders, size of the     *)
(* command queue and range of the tick.  ListsRight is inductive together  *)
(* with what a message read from the queue may be and that a freed timer   *)
(* is on no list until it is cleared.  That callbacks come on time needs   *)
(* more, where usage is Timely: that the queue holds one message at most   *)
(* and which at each step of the timer task, which timers are behind the   *)
(* tick between its wrap and the exchange of the lists, and what left is   *)
(* for each of them.                                                       *)
(***************************************************************************)
EXTENDS Swtmr, TaskListProofs

Ops == {"start", "stop", "delete"}
Statuses == {"UNUSED", "CREATE", "RUNNING", "STOP"}
Places == {"head", "read", "wait", "copy", "load", "store", "expired", "due", "rearm", "clear", "cmd"}

Typed ==
  /\ usage \in Usages /\ tick \in 0 .. LastTick
  /\ status \in [Timers -> Statuses] /\ wake_time \in [Timers -> 0 .. LastTick]
  /\ timers \in Seq(Timers) /\ overflow \in Seq(Timers)
  /\ wake_swtmr \in Timers \cup {ListHead} /\ wait_time \in 0 .. LastTick
  /\ left \in [Timers -> -1 .. Off]

(* The queue holds messages, whatever the counts say of them.              *)
Slots == 0 .. usage.size - 1

QueueTyped ==
  /\ rw_count \in [read : Counts, write : Counts]
  /\ rw_ptr \in [read : Slots, write : Slots]
  /\ buf \in [Slots -> Messages]

SendTyped ==
  /\ at \in [Senders -> {"app", "copy", "check", "wake", "load", "store"}]
  /\ job \in [Senders -> Messages] /\ reg \in [Senders -> Counts] /\ fault \in BOOLEAN

Queued ==
  /\ QueueTyped /\ SendTyped
  /\ pc \in Places /\ msg \in Messages /\ loaded \in Counts
  /\ pc = "wait" => wait_time # 0

(* Two lists in order with no timer twice, and the running timers on them. *)
InOrder(p, o, wake) ==
  /\ IsInjective(p) /\ IsInjective(o) /\ Range(p) \cap Range(o) = {}
  /\ Sorted(p, wake) /\ Sorted(o, wake)

Listed ==
  /\ InOrder(timers, overflow, wake_time)
  /\ Range(timers) \cup Range(overflow) = {t \in Timers : status[t] = "RUNNING"}

(* What the task holds: the first timer, no message, or a freed timer.     *)
Idle == {"head", "read", "wait", "copy", "expired", "due", "rearm"}

Chosen ==
  /\ pc \in {"read", "wait", "expired", "due", "rearm"} =>
       wake_swtmr = FirstItem(timers, ListHead)
  /\ pc = "rearm" => wake_swtmr # ListHead
  /\ pc \in Idle => msg = NoMsg
  /\ pc = "clear" => /\ Deleted \in Timers /\ status[Deleted] # "RUNNING"
                     /\ msg = NoMsg \/ msg = <<"delete", Deleted>>

Inv == Typed /\ Queued /\ Listed /\ Chosen

(* A message that is there to be read.                                     *)
Pending == pc = "copy" \/ rw_count.read > 0
InQueue(m) == Pending /\ buf[rw_ptr.read] = m

(* The tick has wrapped and the lists are not yet exchanged; a command for *)
(* timer t is not yet handled; the callback of t was called and t is not   *)
(* yet started again or freed.                                             *)
Wrapping == InQueue(OverflowMsg) \/ msg = OverflowMsg
Asked(op, t) == InQueue(<<op, t>>) \/ msg = <<op, t>>
Called(t) == pc = "rearm" /\ t = wake_swtmr

(* Where nobody writes in steps the queue holds one message at most.       *)
Ring ==
  /\ usage.senders = {} /\ \A s \in Senders : at[s] = "app"
  /\ rw_count.read \in {0, 1} /\ (pc = "copy" => rw_count.read = 0)
  /\ rw_ptr.write = IF Pending THEN NextPlace(rw_ptr.read) ELSE rw_ptr.read
  /\ rw_count.write = IF Pending \/ pc \in {"load", "store"} THEN usage.size - 1 ELSE usage.size
  /\ pc = "store" => loaded = usage.size - 1

(* A prompt task waits with an empty queue and is woken by one message.    *)
Prompt ==
  /\ Ring
  /\ pc \in {"wait", "expired", "load", "store", "cmd", "clear"} => ~Pending
  /\ pc \in {"head", "read", "due", "rearm"} => (Pending => InQueue(OverflowMsg))
  /\ Wrapping => tick = 0 /\ timers = << >>
  /\ pc \in {"read", "wait"} =>
       wait_time = IF timers = << >> THEN LastTick ELSE wake_time[Head(timers)] - tick

(* When t is due, in ticks since the tick was last 0.                      *)
DueAt(t) ==
  IF t \in Range(timers) \/ Wrapping THEN wake_time[t] ELSE wake_time[t] + TickMod

Restarted(t, again) == left[t] = IF again THEN usage.timeout[t] ELSE Off

LeftOf(t) ==
  /\ left[t] \in 0 .. LastTick - 1 \/ left[t] = Off
  /\ status[t] = "UNUSED" => left[t] = Off
  /\ status[t] # "UNUSED" =>
       /\ \A op \in Ops : Asked(op, t) => Restarted(t, op = "start")
       /\ Called(t) => Restarted(t, t \in usage.period)
       /\ (~Called(t) /\ \A op \in Ops : ~Asked(op, t)) =>
            IF status[t] = "RUNNING" THEN left[t] # Off /\ left[t] = DueAt(t) - tick
                                     ELSE left[t] = Off

Follows == \A t \in Timers : LeftOf(t)

PromptInv == Timely => Prompt /\ Follows

-----------------------------------------------------------------------------
(* What the assumptions say of the constants and the usage.                *)
LEMMA Constants ==
  /\ TickMod \in Nat /\ TickMod > 2 /\ LastTick \in Nat /\ LastTick = TickMod - 1 /\ Off = TickMod
  /\ ListHead \notin Timers
  /\ \A op \in Ops, t \in Timers : <<op, t>> \in Messages \ {NoMsg, OverflowMsg}
  /\ OverflowMsg \in Messages \ {NoMsg}
  /\ \A m \in Messages \ {NoMsg, OverflowMsg} : m = <<m[1], m[2]>> /\ m[1] \in Ops /\ m[2] \in Timers
BY SwtmrAssumption DEF LastTick, Off, Ops, Messages, NoMsg, OverflowMsg

LEMMA UseFacts ==
  ASSUME usage \in Usages
  PROVE  /\ usage.ops \subseteq Ops /\ usage.size \in Nat \ {0} /\ usage.prompt \in BOOLEAN
         /\ CountMod \in Nat /\ CountMod > usage.size
         /\ \A t \in Timers : /\ usage.timeout[t] \in 1 .. LastTick - 1
                              /\ usage.timeout[t] \in 0 .. LastTick - 1 /\ usage.timeout[t] # Off
<1>1. usage \in UsageType
  BY SwtmrAssumption, Zenon
<1>2. \A n \in 1 .. LastTick - 1 : n \in 0 .. LastTick - 1 /\ n # Off
  BY Constants
<1>3. \A t \in Timers : usage.timeout[t] \in 1 .. LastTick - 1
  BY <1>1, Zenon DEF UsageType
<1>4. CountMod \in Nat /\ CountMod > usage.size
  BY SwtmrAssumption, Zenon
<1> QED BY <1>1, <1>2, <1>3, <1>4, Zenon DEF UsageType, Ops

(* What a remainder is, for numbers below twice the divisor.               *)
LEMMA Remainder ==
  ASSUME NEW m \in Nat, m > 0, NEW a \in Int
  PROVE  /\ a % m \in 0 .. m - 1
         /\ a \in 0 .. m - 1 => a % m = a
         /\ a \in m .. 2 * m - 1 => a % m = a - m
OBVIOUS

(* The next place of the queue, and the count with one more or less.       *)
LEMMA Wraps ==
  ASSUME usage \in Usages
  PROVE  /\ 0 \in Slots /\ \A i \in Slots : NextPlace(i) \in Slots
         /\ 0 \in Counts /\ 1 \in Counts /\ usage.size \in Counts /\ usage.size - 1 \in Counts
         /\ \A n \in Counts : Increment(n) \in Counts /\ (n # 0 => n - 1 \in Counts)
         /\ Increment(0) = 1 /\ Increment(usage.size - 1) = usage.size
<1>1. usage.size \in Nat \ {0} /\ CountMod \in Nat /\ CountMod > usage.size
  BY UseFacts, Zenon
<1>2. 0 \in Slots /\ \A i \in Slots : NextPlace(i) \in Slots
  BY <1>1, Remainder DEF Slots, NextPlace
<1>3. /\ 0 \in Counts /\ 1 \in Counts /\ usage.size \in Counts /\ usage.size - 1 \in Counts
      /\ \A n \in Counts : n # 0 => n - 1 \in Counts
  BY <1>1 DEF Counts
<1>4. \A n \in Counts : Increment(n) \in Counts
  BY <1>1, Remainder DEF Counts, Increment
<1>5. Increment(0) = 1 /\ Increment(usage.size - 1) = usage.size
  <2> DEFINE k == usage.size
  <2>1. k \in Nat \ {0} /\ CountMod > k
    BY <1>1, Zenon
  <2> HIDE DEF k
  <2>2. (0 + 1) % CountMod = 1 /\ ((k - 1) + 1) % CountMod = k
    BY <1>1, <2>1, Remainder
  <2> QED BY <2>2, Zenon DEF k, Increment
<1> QED BY <1>2, <1>3, <1>4, <1>5, Zenon

(* swtmr_wake_time: of a timer that goes to the second list it is before   *)
(* the tick.                                                               *)
LEMMA WakeTime ==
  ASSUME Typed, NEW t \in Timers
  PROVE  /\ WakeOf(t) \in 0 .. LastTick
         /\ Overflows(WakeOf(t)) => WakeOf(t) + TickMod - tick = usage.timeout[t]
         /\ ~Overflows(WakeOf(t)) => WakeOf(t) - tick = usage.timeout[t]
<1>1. tick \in 0 .. LastTick /\ usage.timeout[t] \in 1 .. LastTick - 1
  BY UseFacts, Zenon DEF Typed
<1> DEFINE n == usage.timeout[t]
<1> HIDE DEF n
<1>2. tick + n \in Nat /\ tick + n < 2 * TickMod /\ n \in 1 .. LastTick - 1
  BY <1>1, Constants DEF n
<1>3. (tick + n) % TickMod = IF tick + n < TickMod THEN tick + n ELSE (tick + n) - TickMod
  <2> DEFINE a == tick + n
  <2>1. a \in Nat /\ a < 2 * TickMod
    BY <1>2, Zenon
  <2> HIDE DEF a
  <2>2. a % TickMod = IF a < TickMod THEN a ELSE a - TickMod
    BY <2>1, Constants, Remainder
  <2> QED BY <2>2, Zenon DEF a
<1>4. WakeOf(t) = IF tick + n < TickMod THEN tick + n ELSE (tick + n) - TickMod
  BY <1>3, Zenon DEF WakeOf, n
<1> QED
  <2> DEFINE w == WakeOf(t)
  <2>1. w = IF tick + n < TickMod THEN tick + n ELSE (tick + n) - TickMod
    BY <1>4, Zenon
  <2> HIDE DEF w
  <2>2. /\ w \in 0 .. LastTick
        /\ w < tick => w + TickMod - tick = n
        /\ ~(w < tick) => w - tick = n
    BY <2>1, <1>1, <1>2, Constants
  <2> QED BY <2>2, Zenon DEF w, n, Overflows

-----------------------------------------------------------------------------
(* The lists without one timer.                                            *)
LEMMA Removed ==
  ASSUME Typed, Listed, NEW t \in Timers
  PROVE  LET p == Without(timers, t)
             o == Without(overflow, t)
         IN  /\ p \in Seq(Timers) /\ o \in Seq(Timers) /\ InOrder(p, o, wake_time)
             /\ Range(p) = Range(timers) \ {t} /\ Range(o) = Range(overflow) \ {t}
             /\ status[t] # "RUNNING" => p = timers /\ o = overflow
<1>1. timers \in Seq(Timers) /\ overflow \in Seq(Timers)
  BY Zenon DEF Typed
<1>2. status[t] # "RUNNING" => t \notin Range(timers) /\ t \notin Range(overflow)
  BY Zenon DEF Listed
<1> QED BY <1>1, <1>2, DeleteItemProps, Zenon DEF Without, Listed, InOrder

(* _dos_swtmr_stop and _dos_swtmr_delete: timer t is on no list any more,  *)
(* and the others are where they were.                                     *)
LEMMA DropStep ==
  ASSUME Typed, Listed, NEW t \in Timers, NEW s \in Statuses \ {"RUNNING"},
         timers' = Without(timers, t), overflow' = Without(overflow, t),
         status' = [status EXCEPT ![t] = s],
         wake_time' \in [Timers -> 0 .. LastTick], \A u \in Timers \ {t} : wake_time'[u] = wake_time[u]
  PROVE  /\ timers' \in Seq(Timers) /\ overflow' \in Seq(Timers)
         /\ status' \in [Timers -> Statuses] /\ Listed'
         /\ \A u \in Timers \ {t} : status'[u] = status[u]
                                    /\ (u \in Range(timers') <=> u \in Range(timers))
<1> DEFINE p == Without(timers, t)
           o == Without(overflow, t)
<1>1. /\ p \in Seq(Timers) /\ o \in Seq(Timers) /\ InOrder(p, o, wake_time)
      /\ Range(p) = Range(timers) \ {t} /\ Range(o) = Range(overflow) \ {t}
  BY Removed, Zenon
<1>2. timers' = p /\ overflow' = o
  BY Zenon
<1> HIDE DEF p, o
<1>3. \A u \in Range(p) \cup Range(o) : wake_time'[u] = wake_time[u]
  BY <1>1, EmptyItems, Zenon
<1>4. Sorted(p, wake_time') /\ Sorted(o, wake_time')
  BY <1>1, <1>3, SortedOther, Zenon DEF InOrder
<1>5. InOrder(timers', overflow', wake_time')
  BY <1>1, <1>2, <1>4, Zenon DEF InOrder
<1>6. status' \in [Timers -> Statuses] /\ status'[t] = s /\ \A u \in Timers \ {t} : status'[u] = status[u]
  BY Zenon DEF Typed
<1>7. Range(timers') \cup Range(overflow') = {u \in Timers : status'[u] = "RUNNING"}
  BY <1>1, <1>2, <1>6, Zenon DEF Listed
<1> QED BY <1>1, <1>2, <1>5, <1>6, <1>7, Zenon DEF Listed

(* _dos_swtmr_start: timer t is on one list, by its wake time, and the     *)
(* others are where they were.                                             *)
LEMMA StartStep ==
  ASSUME Typed, Listed, NEW t \in Timers, StartIn(t, Without(timers, t), Without(overflow, t))
  PROVE  /\ timers' \in Seq(Timers) /\ overflow' \in Seq(Timers)
         /\ wake_time' \in [Timers -> 0 .. LastTick] /\ wake_time'[t] = WakeOf(t)
         /\ status' \in [Timers -> Statuses] /\ status'[t] = "RUNNING" /\ Listed'
         /\ t \in Range(timers') <=> ~Overflows(WakeOf(t))
         /\ \A u \in Timers \ {t} : status'[u] = status[u] /\ wake_time'[u] = wake_time[u]
                                    /\ (u \in Range(timers') <=> u \in Range(timers))
<1> DEFINE p == Without(timers, t)
           o == Without(overflow, t)
           wake == [wake_time EXCEPT ![t] = WakeOf(t)]
<1>1. /\ p \in Seq(Timers) /\ o \in Seq(Timers) /\ InOrder(p, o, wake_time)
      /\ Range(p) = Range(timers) \ {t} /\ Range(o) = Range(overflow) \ {t}
  BY Removed, Zenon
<1>2. /\ wake \in [Timers -> 0 .. LastTick] /\ wake[t] = WakeOf(t)
      /\ \A u \in Timers \ {t} : wake[u] = wake_time[u]
  BY WakeTime, Zenon DEF Typed
<1>3. /\ wake_time' = wake /\ status' = [status EXCEPT ![t] = "RUNNING"]
      /\ Overflows(wake[t]) => timers' = p /\ overflow' = InsertItem(o, wake, t)
      /\ ~Overflows(wake[t]) => timers' = InsertItem(p, wake, t) /\ overflow' = o
  BY Zenon DEF StartIn
<1> HIDE DEF p, o, wake
<1>4. Values(wake, Timers)
  BY <1>2, Constants DEF Values
<1>5. \A u \in Range(p) \cup Range(o) : wake[u] = wake_time[u] /\ u # t
  BY <1>1, <1>2, EmptyItems, Zenon
<1>6. Sorted(p, wake) /\ Sorted(o, wake) /\ InOrder(p, o, wake)
  BY <1>1, <1>5, SortedOther, Zenon DEF InOrder
<1>7. /\ InsertItem(p, wake, t) \in Seq(Timers) /\ Range(InsertItem(p, wake, t)) = Range(p) \cup {t}
      /\ IsInjective(InsertItem(p, wake, t)) /\ Sorted(InsertItem(p, wake, t), wake)
  BY <1>1, <1>4, <1>5, <1>6, InsertItemProps DEF InOrder
<1>8. /\ InsertItem(o, wake, t) \in Seq(Timers) /\ Range(InsertItem(o, wake, t)) = Range(o) \cup {t}
      /\ IsInjective(InsertItem(o, wake, t)) /\ Sorted(InsertItem(o, wake, t), wake)
  BY <1>1, <1>4, <1>5, <1>6, InsertItemProps DEF InOrder
<1>9. /\ timers' \in Seq(Timers) /\ overflow' \in Seq(Timers) /\ InOrder(timers', overflow', wake_time')
      /\ t \in Range(timers') <=> ~Overflows(wake[t])
      /\ Range(timers') \cup Range(overflow') = Range(p) \cup Range(o) \cup {t}
      /\ \A u \in Timers \ {t} : u \in Range(timers') <=> u \in Range(timers)
  <2>1. CASE Overflows(wake[t])
    BY <2>1, <1>1, <1>3, <1>5, <1>6, <1>8, Zenon DEF InOrder
  <2>2. CASE ~Overflows(wake[t])
    BY <2>2, <1>1, <1>3, <1>5, <1>6, <1>7, Zenon DEF InOrder
  <2> QED BY <2>1, <2>2, Zenon
<1>10. /\ status' \in [Timers -> Statuses] /\ status'[t] = "RUNNING"
       /\ \A u \in Timers \ {t} : status'[u] = status[u]
  BY <1>3, Zenon DEF Typed, Statuses
<1>11. Range(timers') \cup Range(overflow') = {u \in Timers : status'[u] = "RUNNING"}
  BY <1>1, <1>9, <1>10, Zenon DEF Listed
<1> QED BY <1>2, <1>3, <1>9, <1>10, <1>11, Zenon DEF Listed

-----------------------------------------------------------------------------
LEMMA InitInv == Init => Inv /\ PromptInv
<1> SUFFICES ASSUME Init PROVE Inv /\ PromptInv
  BY Zenon
<1>1. Typed
  BY Constants, UseFacts DEF Init, Typed, Statuses
<1>2. Queued
  <2>1. QueueTyped
    BY <1>1, Wraps, Constants DEF Init, QueueTyped, Slots, Typed, Messages
  <2>2. SendTyped /\ loaded \in Counts
    BY <1>1, Wraps, Zenon DEF Init, SendTyped, Typed, Messages
  <2> QED BY <2>1, <2>2, Zenon DEF Init, Queued, Places, Messages
<1>3. Listed
  <2>1. << >> \in Seq(Timers) /\ Range(<< >>) = {} /\ IsInjective(<< >>) /\ Len(<< >>) = 0
    BY DEF Range, IsInjective
  <2> QED BY <2>1 DEF Init, Listed, InOrder, Sorted
<1>4. Chosen
  BY Zenon DEF Init, Chosen
<1>5. ASSUME Timely PROVE Prompt
  <2>1. pc = "head" /\ rw_count.read = 0 /\ rw_count.write = usage.size
        /\ rw_ptr.read = 0 /\ rw_ptr.write = 0
    BY DEF Init
  <2>2. ~Pending
    BY <2>1 DEF Pending
  <2>3. Ring
    BY <1>5, <2>1, <2>2, Zenon DEF Init, Timely, Ring
  <2> QED BY <2>1, <2>2, <2>3, Constants, Zenon DEF Init, Prompt, Wrapping, InQueue, NoMsg, OverflowMsg
<1>6. Follows
  BY Zenon DEF Init, Follows, LeftOf
<1> QED BY <1>1, <1>2, <1>3, <1>4, <1>5, <1>6, Zenon DEF Inv, PromptInv

(* dos_queue_write keeps messages in the places of the queue.              *)
LEMMA StoreTyped ==
  ASSUME Typed, QueueTyped, NEW m \in Messages, Store(m)
  PROVE  rw_ptr' \in [read : Slots, write : Slots] /\ buf' \in [Slots -> Messages]
<1>1. \A i \in Slots : NextPlace(i) \in Slots
  BY Wraps, Zenon DEF Typed
<1>2. rw_ptr' = [rw_ptr EXCEPT !.write = NextPlace(rw_ptr.write)] /\ buf' = [buf EXCEPT ![rw_ptr.write] = m]
  BY DEF Store
<1> QED BY <1>1, <1>2 DEF QueueTyped

LEMMA WriteTyped ==
  ASSUME Typed, QueueTyped, NEW m \in Messages, Write(m), usage' = usage
  PROVE  QueueTyped'
<1>1. Slots' = Slots
  BY Zenon DEF Slots
<1>2. CASE rw_count.write = 0
  BY <1>1, <1>2, Zenon DEF Write, queue, QueueTyped
<1>3. CASE rw_count.write # 0
  <2>1. Store(m) /\ rw_count' = [rw_count EXCEPT !.write = rw_count.write - 1,
                            !.read = IF Listens THEN rw_count.read ELSE Increment(rw_count.read)]
    BY <1>3 DEF Write
  <2>2. rw_count.read \in Counts /\ rw_count.write \in Counts
    BY DEF QueueTyped
  <2>3. rw_count.write - 1 \in Counts /\ Increment(rw_count.read) \in Counts
    BY <1>3, <2>2, Wraps, Zenon DEF Typed
  <2>4. rw_count' \in [read : Counts, write : Counts]
    BY <2>1, <2>2, <2>3, Zenon DEF QueueTyped
  <2> QED BY <1>1, <2>1, <2>4, StoreTyped, Zenon DEF QueueTyped
<1> QED BY <1>2, <1>3, Zenon

(* The queue is left alone.                                                *)
LEMMA SameQueue ==
  ASSUME QueueTyped, UNCHANGED <<queue, usage>>
  PROVE  QueueTyped'
BY Zenon DEF QueueTyped, Slots, queue

LEMMA SameSenders ==
  ASSUME SendTyped, UNCHANGED sending
  PROVE  SendTyped'
BY Zenon DEF SendTyped, sending

(* Where the timer task is after a message.                                *)
LEMMA AfterFacts ==
  ASSUME pc \in Places
  PROVE  /\ AfterWrite \in Places
         /\ AfterWrite \in {"head", "read", "wait", "rearm", "clear", "expired", "load", "store", "cmd"} => AfterWrite = pc
         /\ AfterWrite = "due" => pc \in {"due", "expired"}
         /\ AfterWrite = "copy" => pc \in {"copy", "wait"}
BY Zenon DEF AfterWrite, Awakened, Listens, Places

(* The timers that are not touched stay in place.                          *)
LEMMA SameLists ==
  ASSUME Listed, UNCHANGED lists
  PROVE  Listed'
BY Zenon DEF Listed, InOrder, lists

(* _dos_swtmr_delete, also of a timer that is on no list.                  *)
LEMMA FreeDrops ==
  ASSUME Typed, Listed, NEW t \in Timers, FreeTimer(t)
  PROVE  /\ timers' = Without(timers, t) /\ overflow' = Without(overflow, t)
         /\ \E s \in Statuses \ {"RUNNING"} : status' = [status EXCEPT ![t] = s]
         /\ wake_time' = wake_time
<1>1. status[t] # "RUNNING" => Without(timers, t) = timers /\ Without(overflow, t) = overflow
  BY Removed, Zenon
<1>2. CASE status[t] = "RUNNING"
  BY <1>2, Zenon DEF FreeTimer, StopLists, IsRunning, Statuses
<1>3. CASE status[t] # "RUNNING"
  <2>1. status[t] \in Statuses \ {"RUNNING"} /\ status = [status EXCEPT ![t] = status[t]]
    BY <1>3, Zenon DEF Typed
  <2>2. status' = status /\ timers' = timers /\ overflow' = overflow /\ wake_time' = wake_time
    BY <1>3, Zenon DEF FreeTimer, IsRunning
  <2> QED BY <1>1, <1>3, <2>1, <2>2, Zenon
<1> QED BY <1>2, <1>3, Zenon

(* A timer that is on no list gets another status and wake time.           *)
LEMMA Unlisted ==
  ASSUME Typed, Listed, NEW t \in Timers, status[t] # "RUNNING", NEW s \in Statuses \ {"RUNNING"},
         status' = [status EXCEPT ![t] = s], wake_time' = [wake_time EXCEPT ![t] = 0],
         timers' = timers, overflow' = overflow
  PROVE  /\ status' \in [Timers -> Statuses] /\ wake_time' \in [Timers -> 0 .. LastTick] /\ Listed'
         /\ status'[t] = s
         /\ \A u \in Timers \ {t} : status'[u] = status[u] /\ wake_time'[u] = wake_time[u]
<1>1. 0 \in 0 .. LastTick
  BY Constants
<1>2. /\ status' \in [Timers -> Statuses] /\ wake_time' \in [Timers -> 0 .. LastTick]
      /\ status'[t] = s /\ \A u \in Timers \ {t} : status'[u] = status[u] /\ wake_time'[u] = wake_time[u]
  BY <1>1, Zenon DEF Typed
<1>3. timers' = Without(timers, t) /\ overflow' = Without(overflow, t)
  BY Removed, Zenon
<1> QED BY <1>2, <1>3, DropStep, Zenon

LEMMA FirstTimer ==
  ASSUME NEW s \in Seq(Timers)
  PROVE  /\ FirstItem(s, ListHead) \in Timers \cup {ListHead}
         /\ s # << >> => FirstItem(s, ListHead) = Head(s) /\ Head(s) \in Timers /\ Head(s) \in Range(s)
         /\ s = << >> => FirstItem(s, ListHead) = ListHead
BY HeadTailProps, Zenon DEF FirstItem

(* The timer chosen or freed is not touched.                               *)
LEMMA SameChosen ==
  ASSUME Chosen, UNCHANGED <<timers, status, wake_swtmr, msg>>,
         pc' \in {"read", "wait", "expired", "due", "rearm"} => pc \in {"read", "wait", "expired", "due", "rearm"},
         pc' \in {"rearm", "clear"} => pc' = pc, pc' \in Idle => pc \in Idle
  PROVE  Chosen'
<1>1. Deleted' = Deleted
  BY Zenon DEF Deleted
<1> QED BY <1>1, Zenon DEF Chosen

-----------------------------------------------------------------------------
(* Every step keeps Inv.                                                   *)
LEMMA ChooseInv == Inv /\ Choose => Inv'
<1> SUFFICES ASSUME Inv, Choose PROVE Inv'
  BY Zenon
<1>1. wait_time' \in 0 .. LastTick
  <2>1. CASE timers = << >>
    BY <2>1, Constants DEF Choose
  <2>2. CASE timers # << >>
    <3> DEFINE d == wake_time[Head(timers)] - tick
    <3>1. Head(timers) \in Timers
      BY <2>2, FirstTimer, Zenon DEF Inv, Typed
    <3>2. d \in Int
      BY <3>1, Constants DEF Inv, Typed
    <3> HIDE DEF d
    <3>3. d % TickMod \in 0 .. LastTick
      BY <3>2, Constants, Remainder
    <3> QED BY <2>2, <3>3, Zenon DEF Choose, d
  <2> QED BY <2>1, <2>2, Zenon
<1>2. wake_swtmr' = FirstItem(timers, ListHead) /\ wake_swtmr' \in Timers \cup {ListHead}
  BY FirstTimer, Zenon DEF Choose, Inv, Typed
<1>3. Typed'
  BY <1>1, <1>2, Zenon DEF Choose, Inv, Typed, lists
<1>4. Queued'
  BY SameQueue, SameSenders, Zenon DEF Choose, Inv, Queued, Places
<1>5. Listed'
  BY SameLists, Zenon DEF Choose, Inv
<1>6. Chosen'
  <2>1. pc' = "read" /\ wake_swtmr' = FirstItem(timers', ListHead)
    BY <1>2, Zenon DEF Choose, lists
  <2>2. msg' = NoMsg
    BY Zenon DEF Choose, Inv, Chosen, Idle
  <2> QED BY <2>1, <2>2, Zenon DEF Chosen
<1> QED BY <1>3, <1>4, <1>5, <1>6, Zenon DEF Inv

LEMMA ReadInv == Inv /\ (Read \/ ReadCopy \/ ReadLoad \/ ReadStore \/ ReadExpired) => Inv'
<1> SUFFICES ASSUME Inv, Read \/ ReadCopy \/ ReadLoad \/ ReadStore \/ ReadExpired PROVE Inv'
  BY Zenon
<1>1. UNCHANGED <<tick, lists, wake_swtmr, wait_time, sending, left, usage>> /\ Slots' = Slots
  BY Zenon DEF Read, ReadCopy, ReadLoad, ReadStore, ReadExpired, locals, Slots
<1>2. Typed' /\ Listed' /\ SendTyped'
  BY <1>1, SameLists, SameSenders, Zenon DEF Inv, Typed, lists, Queued
<1>3. /\ rw_count.read \in Counts /\ rw_count.write \in Counts /\ rw_ptr.read \in Slots
      /\ rw_count \in [read : Counts, write : Counts] /\ rw_ptr \in [read : Slots, write : Slots]
  BY DEF Inv, Queued, QueueTyped
<1>4. QueueTyped' /\ msg' \in Messages /\ loaded' \in Counts
  <2>1. CASE Read /\ rw_count.read > 0
    <3>1. rw_count.read - 1 \in Counts
      <4>1. \A n \in Counts : n > 0 => n # 0
        BY DEF Counts
      <4> QED BY <1>3, <2>1, <4>1, Wraps, Zenon DEF Inv, Typed
    <3>2. rw_count' = [rw_count EXCEPT !.read = rw_count.read - 1]
      BY <2>1 DEF Read
    <3>3. rw_count' \in [read : Counts, write : Counts]
      BY <1>3, <3>1, <3>2
    <3> QED BY <1>1, <2>1, <3>3, Zenon DEF Read, Inv, Queued, QueueTyped, locals
  <2>2. CASE Read /\ ~(rw_count.read > 0)
    BY <1>1, <2>2, Zenon DEF Read, Inv, Queued, QueueTyped, locals
  <2>3. CASE ReadCopy
    <3>1. NextPlace(rw_ptr.read) \in Slots
      BY <1>3, Wraps, Zenon DEF Inv, Typed
    <3>2. rw_ptr' = [rw_ptr EXCEPT !.read = NextPlace(rw_ptr.read)]
      BY <2>3 DEF ReadCopy
    <3>3. rw_ptr' \in [read : Slots, write : Slots]
      BY <1>3, <3>1, <3>2
    <3> QED BY <1>1, <1>3, <2>3, <3>3, Zenon DEF ReadCopy, Inv, Queued, QueueTyped
  <2>4. CASE ReadLoad
    BY <1>1, <1>3, <2>4, SameQueue, Zenon DEF ReadLoad, Inv, Queued
  <2>5. CASE ReadStore
    <3>1. Increment(loaded) \in Counts /\ 0 \in Counts
      BY Wraps, Zenon DEF Inv, Typed, Queued
    <3>2. rw_count' = [rw_count EXCEPT !.write = Increment(loaded)]
      BY <2>5 DEF ReadStore
    <3>3. rw_count' \in [read : Counts, write : Counts]
      BY <1>3, <3>1, <3>2
    <3> QED BY <1>1, <2>5, <3>1, <3>3, Zenon DEF ReadStore, Inv, Queued, QueueTyped
  <2>6. CASE ReadExpired
    BY <1>1, <2>6, SameQueue, Zenon DEF ReadExpired, Inv, Queued, locals
  <2> QED BY <2>1, <2>2, <2>3, <2>4, <2>5, <2>6, Zenon
<1>5. /\ pc' \in {"copy", "due", "wait", "load", "store", "cmd"} /\ (pc' = "wait" => wait_time' # 0)
      /\ pc' \in {"due", "wait"} => pc \in {"read", "expired"}
      /\ pc' \in {"due", "wait", "copy"} => msg' = NoMsg
  BY <1>1, Zenon DEF Read, ReadCopy, ReadLoad, ReadStore, ReadExpired, locals, Inv, Chosen, Idle
<1>6. Queued'
  BY <1>2, <1>4, <1>5, Zenon DEF Queued, Places
<1>7. Chosen'
  BY <1>1, <1>5, Zenon DEF Inv, Chosen, lists, Idle
<1> QED BY <1>2, <1>6, <1>7, Zenon DEF Inv

LEMMA FireInv == Inv /\ (Fire \/ NoneDue) => Inv'
<1> SUFFICES ASSUME Inv, Fire \/ NoneDue PROVE Inv'
  BY Zenon
<1>1. UNCHANGED <<tick, lists, queue, wake_swtmr, msg, loaded, sending, usage>>
  BY Zenon DEF Fire, NoneDue, locals
<1>2. left' \in [Timers -> -1 .. Off] /\ wait_time' \in 0 .. LastTick
  <2>1. \A t \in Timers : usage.timeout[t] \in -1 .. Off
    <3>1. \A n \in 1 .. LastTick - 1 : n \in -1 .. Off
      BY Constants
    <3>2. \A t \in Timers : usage.timeout[t] \in 1 .. LastTick - 1
      BY UseFacts, Zenon DEF Inv, Typed
    <3> QED BY <3>1, <3>2, Zenon
  <2>2. Off \in -1 .. Off
    BY Constants
  <2>3. CASE Fire
    <3>1. wake_swtmr \in Timers /\ wait_time' = wait_time
      BY <2>3, Zenon DEF Fire, Inv, Typed, locals
    <3>2. PICK n \in -1 .. Off : left' = [left EXCEPT ![wake_swtmr] = n]
      BY <2>1, <2>2, <2>3, <3>1, Zenon DEF Fire
    <3> QED BY <3>1, <3>2, Zenon DEF Inv, Typed
  <2>4. CASE NoneDue
    BY <2>4, Constants DEF NoneDue, Inv, Typed
  <2> QED BY <2>3, <2>4, Zenon
<1>3. Typed' /\ Listed'
  BY <1>1, <1>2, SameLists, Zenon DEF Inv, Typed, lists
<1>4. Queued'
  BY <1>1, SameQueue, SameSenders, Zenon DEF Fire, NoneDue, Inv, Queued, Places
<1>5. Chosen'
  BY <1>1, Zenon DEF Fire, NoneDue, Inv, Chosen, lists, Idle
<1> QED BY <1>3, <1>4, <1>5, Zenon DEF Inv

LEMMA RearmInv == Inv /\ Rearm => Inv'
<1> SUFFICES ASSUME Inv, Rearm PROVE Inv'
  BY Zenon
<1> DEFINE t == wake_swtmr
<1>1. t \in Timers
  BY Zenon DEF Rearm, Inv, Typed, Chosen
<1>2. /\ timers' \in Seq(Timers) /\ overflow' \in Seq(Timers) /\ Listed'
      /\ status' \in [Timers -> Statuses] /\ wake_time' \in [Timers -> 0 .. LastTick]
  <2>1. CASE t \in usage.period
    BY <2>1, <1>1, StartStep, Zenon DEF Rearm, Inv
  <2>2. CASE t \notin usage.period
    BY <2>2, <1>1, FreeDrops, DropStep, Zenon DEF Rearm, Inv, Typed
  <2> QED BY <2>1, <2>2, Zenon
<1>3. /\ wake_swtmr' \in Timers \cup {ListHead}
      /\ pc' = "due" => wake_swtmr' = FirstItem(timers', ListHead)
  <2>1. CASE t \in usage.period
    BY <2>1, <1>2, FirstTimer, Zenon DEF Rearm
  <2>2. CASE t \notin usage.period
    BY <2>2, <1>1, Zenon DEF Rearm
  <2> QED BY <2>1, <2>2, Zenon
<1>4. Typed'
  BY <1>2, <1>3, Zenon DEF Rearm, Inv, Typed
<1>5. Queued'
  BY SameQueue, SameSenders, Zenon DEF Rearm, Inv, Queued, Places
<1>6. Chosen'
  <2>3. msg = NoMsg /\ msg' = msg
    BY Zenon DEF Rearm, Inv, Chosen, Idle
  <2>1. CASE t \in usage.period
    BY <2>1, <2>3, <1>3, Zenon DEF Rearm, Chosen
  <2>2. CASE t \notin usage.period
    <3>1. pc' = "clear" /\ wake_swtmr' = t /\ FreeTimer(t)
      BY <2>2, Zenon DEF Rearm
    <3>2. msg = NoMsg /\ msg' = msg
      BY <2>3, Zenon
    <3>3. Deleted' = t
      BY <3>1, <3>2, Zenon DEF Deleted
    <3>4. status'[t] # "RUNNING"
      BY <1>1, <3>1, FreeDrops, DropStep, Zenon DEF Inv, Typed
    <3> QED BY <1>1, <3>1, <3>2, <3>3, <3>4, Zenon DEF Chosen
  <2> QED BY <2>1, <2>2, Zenon
<1> QED BY <1>2, <1>4, <1>5, <1>6, Zenon DEF Inv

LEMMA ClearInv == Inv /\ Clear => Inv'
<1> SUFFICES ASSUME Inv, Clear PROVE Inv'
  BY Zenon
<1> DEFINE t == Deleted
<1>1. t \in Timers /\ status[t] # "RUNNING"
  BY Zenon DEF Clear, Inv, Chosen
<1>2. /\ status' = [status EXCEPT ![t] = "UNUSED"] /\ wake_time' = [wake_time EXCEPT ![t] = 0]
      /\ UNCHANGED <<tick, timers, overflow, queue, loaded, sending, left, usage>>
      /\ msg' = NoMsg /\ pc' \in {"due", "head"} /\ (pc' = "due" => wake_swtmr' = FirstItem(timers, ListHead))
      /\ wake_swtmr' = FirstItem(timers, ListHead) \/ wake_swtmr' = ListHead
      /\ wait_time' = wait_time \/ wait_time' = 0
  BY Zenon DEF Clear
<1>3. "UNUSED" \in Statuses \ {"RUNNING"}
  BY Zenon DEF Statuses
<1>4. status' \in [Timers -> Statuses] /\ wake_time' \in [Timers -> 0 .. LastTick] /\ Listed'
  BY <1>1, <1>2, <1>3, Unlisted, Zenon DEF Inv
<1>5. 0 \in 0 .. LastTick
  BY Constants
<1>6. Typed'
  BY <1>2, <1>4, <1>5, FirstTimer, Zenon DEF Inv, Typed
<1>7. Queued'
  BY <1>2, SameQueue, SameSenders, Zenon DEF Inv, Queued, Places, Messages
<1>8. Chosen'
  BY <1>2, Zenon DEF Chosen
<1> QED BY <1>4, <1>6, <1>7, <1>8, Zenon DEF Inv

(* _dos_swtmr_cmd_handle of a command: what becomes of its timer.          *)
LEMMA CommandCases ==
  ASSUME Inv, Handle, msg \notin {NoMsg, OverflowMsg}
  PROVE  /\ msg = <<msg[1], msg[2]>> /\ msg[1] \in Ops /\ msg[2] \in Timers
         /\ \/ status[msg[2]] = "UNUSED" /\ UNCHANGED lists
            \/ /\ msg[1] = "start" /\ status[msg[2]] # "UNUSED"
               /\ StartIn(msg[2], Without(timers, msg[2]), Without(overflow, msg[2]))
            \/ /\ msg[1] = "stop" /\ status[msg[2]] # "UNUSED"
               /\ timers' = Without(timers, msg[2]) /\ overflow' = Without(overflow, msg[2])
               /\ \E s \in Statuses \ {"RUNNING"} : status' = [status EXCEPT ![msg[2]] = s]
               /\ wake_time' = wake_time
<1> DEFINE t == msg[2]
<1>1. msg = <<msg[1], msg[2]>> /\ msg[1] \in Ops /\ t \in Timers
  BY Constants, Zenon DEF Inv, Queued
<1>2. CASE status[t] = "UNUSED"
  BY <1>1, <1>2, Zenon DEF Handle
<1>3. CASE status[t] # "UNUSED" /\ msg[1] = "start"
  BY <1>1, <1>3, Zenon DEF Handle
<1>4. CASE status[t] # "UNUSED" /\ msg[1] = "stop" /\ status[t] = "RUNNING"
  BY <1>1, <1>4, Zenon DEF Handle, IsRunning, StopLists, Inv, Typed, Statuses
<1>5. CASE status[t] # "UNUSED" /\ msg[1] = "stop" /\ status[t] # "RUNNING"
  <2>1. UNCHANGED lists
    BY <1>1, <1>5, Zenon DEF Handle, IsRunning, lists
  <2>2. Without(timers, t) = timers /\ Without(overflow, t) = overflow
    BY <1>1, <1>5, Removed, Zenon DEF Inv
  <2>3. status[t] \in Statuses \ {"RUNNING"} /\ status = [status EXCEPT ![t] = status[t]]
    BY <1>1, <1>5, Zenon DEF Inv, Typed
  <2> QED BY <1>1, <1>5, <2>1, <2>2, <2>3, Zenon DEF lists, Inv, Typed
<1>6. CASE status[t] # "UNUSED" /\ msg[1] = "delete"
  BY <1>6, Zenon DEF Handle
<1> QED BY <1>1, <1>2, <1>3, <1>4, <1>5, <1>6, Zenon DEF Ops

LEMMA HandleInv == Inv /\ Handle => Inv'
<1> SUFFICES ASSUME Inv, Handle PROVE Inv'
  BY Zenon
<1>1. /\ timers' \in Seq(Timers) /\ overflow' \in Seq(Timers) /\ Listed'
      /\ status' \in [Timers -> Statuses] /\ wake_time' \in [Timers -> 0 .. LastTick]
  <2>1. CASE msg = OverflowMsg
    <3>1. timers' = overflow /\ overflow' = timers /\ status' = status /\ wake_time' = wake_time
      BY <2>1, Constants, Zenon DEF Handle, OverflowMsg
    <3> QED BY <3>1, Zenon DEF Inv, Typed, Listed, InOrder
  <2>3. CASE msg = NoMsg
    <3>1. UNCHANGED lists
      BY <2>3, Constants, Zenon DEF Handle, NoMsg, OverflowMsg
    <3> QED BY <3>1, SameLists, Zenon DEF Inv, Typed, lists
  <2>2. CASE msg \notin {NoMsg, OverflowMsg}
    <3> DEFINE t == msg[2]
    <3>1. t \in Timers
      BY <2>2, CommandCases, Zenon
    <3>2. CASE status[t] = "UNUSED" /\ UNCHANGED lists
      BY <3>2, SameLists, Zenon DEF Inv, Typed, lists
    <3>3. CASE StartIn(t, Without(timers, t), Without(overflow, t))
      BY <3>1, <3>3, StartStep, Zenon DEF Inv
    <3>4. CASE /\ timers' = Without(timers, t) /\ overflow' = Without(overflow, t)
               /\ \E s \in Statuses \ {"RUNNING"} : status' = [status EXCEPT ![t] = s]
               /\ wake_time' = wake_time
      BY <3>1, <3>4, DropStep, Zenon DEF Inv, Typed
    <3> QED BY <2>2, <3>2, <3>3, <3>4, CommandCases, Zenon
  <2> QED BY <2>1, <2>2, <2>3, Zenon
<1>2. Typed'
  <2>1. 0 \in 0 .. LastTick
    BY Constants
  <2> QED BY <1>1, <2>1, Zenon DEF Handle, Inv, Typed
<1>3. Queued'
  BY SameQueue, SameSenders, Zenon DEF Handle, Inv, Queued, Places, Messages
<1>4. Chosen'
  BY Zenon DEF Handle, Chosen
<1> QED BY <1>1, <1>2, <1>3, <1>4, Zenon DEF Inv

LEMMA HandleDeleteInv == Inv /\ HandleDelete => Inv'
<1> SUFFICES ASSUME Inv, HandleDelete PROVE Inv'
  BY Zenon
<1> DEFINE t == msg[2]
<1>1. msg \notin {NoMsg, OverflowMsg}
  <2>1. msg[1] = "delete" /\ NoMsg[1] = "none" /\ OverflowMsg[1] = "overflow"
    BY DEF HandleDelete, NoMsg, OverflowMsg
  <2> QED BY <2>1, Zenon
<1>2. t \in Timers /\ msg = <<"delete", t>>
  BY <1>1, Constants, Zenon DEF HandleDelete, Inv, Queued
<1>3. /\ timers' \in Seq(Timers) /\ overflow' \in Seq(Timers) /\ Listed' /\ status'[t] # "RUNNING"
      /\ status' \in [Timers -> Statuses] /\ wake_time' \in [Timers -> 0 .. LastTick]
  BY <1>2, FreeDrops, DropStep, Zenon DEF HandleDelete, Inv, Typed
<1>4. pc' = "clear" /\ UNCHANGED <<tick, queue, wake_swtmr, wait_time, msg, loaded, sending, left, usage>>
  BY Zenon DEF HandleDelete, locals
<1>5. Typed'
  BY <1>3, <1>4, Zenon DEF Inv, Typed
<1>6. Queued'
  BY <1>4, SameQueue, SameSenders, Zenon DEF Inv, Queued, Places
<1>7. Deleted' = t
  BY <1>1, <1>4, Zenon DEF Deleted
<1>8. Chosen'
  BY <1>2, <1>3, <1>4, <1>7, Zenon DEF Chosen, Idle
<1> QED BY <1>3, <1>5, <1>6, <1>8, Zenon DEF Inv

LEMMA TickInv == Inv /\ Tick => Inv'
<1> SUFFICES ASSUME Inv, Tick PROVE Inv'
  BY Zenon
<1> DEFINE p == IF tick' = 0 THEN AfterWrite ELSE pc
<1>1. tick' \in 0 .. LastTick
  <2>1. tick + 1 \in Int
    BY Constants DEF Inv, Typed
  <2> QED BY <2>1, Constants, Remainder DEF Tick
<1>2. /\ pc' = IF p = "wait" /\ wait_time = 1 THEN "expired" ELSE p
      /\ wait_time' = IF p = "wait" /\ wait_time # LastTick THEN wait_time - 1 ELSE wait_time
      /\ UNCHANGED <<lists, timers, status, wake_swtmr, msg, loaded, sending, usage>>
  BY Zenon DEF Tick, lists
<1>3. QueueTyped'
  <2>1. CASE tick' = 0
    BY <1>2, <2>1, WriteTyped, Constants, Zenon DEF Tick, Inv, Queued
  <2>2. CASE tick' # 0
    BY <1>2, <2>2, SameQueue, Zenon DEF Tick, Inv, Queued
  <2> QED BY <2>1, <2>2, Zenon
<1>4. /\ p \in Places
      /\ p \in {"head", "read", "wait", "rearm", "clear", "expired", "load", "store", "cmd"} => p = pc
      /\ p = "due" => pc \in {"due", "expired"}
      /\ p = "copy" => pc \in {"copy", "wait"}
  BY AfterFacts, Zenon DEF Inv, Queued
<1> HIDE DEF p
<1>5. wait_time' \in 0 .. LastTick /\ (pc' = "wait" => wait_time' # 0)
  <2>1. p = "wait" => wait_time # 0
    BY <1>4, Zenon DEF Inv, Queued
  <2>2. wait_time \in 0 .. LastTick
    BY Zenon DEF Inv, Typed
  <2> QED BY <1>2, <2>1, <2>2, Constants
<1>6. left' \in [Timers -> -1 .. Off]
  <2>1. \A n \in -1 .. Off : (IF n \in 0 .. LastTick THEN n - 1 ELSE n) \in -1 .. Off
    BY Constants
  <2> QED BY <2>1, Zenon DEF Tick, Inv, Typed
<1>7. Typed' /\ Listed'
  BY <1>1, <1>2, <1>5, <1>6, SameLists, Zenon DEF Inv, Typed, lists
<1>8. Queued'
  BY <1>2, <1>3, <1>4, <1>5, SameSenders, Zenon DEF Inv, Queued, Places
<1>9. Chosen'
  BY <1>2, <1>4, SameChosen, Zenon DEF Inv, Idle, Places
<1> QED BY <1>7, <1>8, <1>9, Zenon DEF Inv

LEMMA CreateInv ==
  ASSUME Inv, NEW t \in Timers, Create(t)
  PROVE  Inv'
<1>1. /\ status' = [status EXCEPT ![t] = "CREATE"] /\ wake_time' = [wake_time EXCEPT ![t] = 0]
      /\ UNCHANGED <<tick, timers, overflow, queue, pc, wake_swtmr, wait_time, msg, loaded, sending, left, usage>>
  BY Zenon DEF Create, locals
<1>2. status[t] # "RUNNING" /\ "CREATE" \in Statuses \ {"RUNNING"}
  BY Zenon DEF Create, Inv, Chosen, Statuses
<1>3. /\ status' \in [Timers -> Statuses] /\ wake_time' \in [Timers -> 0 .. LastTick] /\ Listed'
      /\ status'[t] = "CREATE" /\ \A u \in Timers \ {t} : status'[u] = status[u]
  BY <1>1, <1>2, Unlisted, Zenon DEF Inv
<1>4. Typed'
  BY <1>1, <1>3, Zenon DEF Inv, Typed
<1>5. Queued'
  BY <1>1, SameQueue, SameSenders, Zenon DEF Inv, Queued
<1>6. Chosen'
  <2>1. Deleted' = Deleted
    BY <1>1, Zenon DEF Deleted
  <2>2. \A u \in Timers : status[u] # "RUNNING" => status'[u] # "RUNNING"
    BY <1>3, Zenon
  <2> QED BY <1>1, <2>1, <2>2, Zenon DEF Inv, Chosen
<1> QED BY <1>3, <1>4, <1>5, <1>6, Zenon DEF Inv

LEMMA CommandInv ==
  ASSUME Inv, NEW t \in Timers, NEW op \in usage.ops, Command(op, t)
  PROVE  Inv'
<1>1. <<op, t>> \in Messages
  BY Constants, UseFacts, Zenon DEF Inv, Typed
<1>2. /\ Write(<<op, t>>) /\ pc' = AfterWrite
      /\ UNCHANGED <<tick, lists, timers, status, wake_swtmr, wait_time, msg, loaded, sending, usage>>
  BY Zenon DEF Command, lists, locals
<1>3. QueueTyped'
  BY <1>1, <1>2, WriteTyped, Zenon DEF Inv, Queued
<1>4. left' \in [Timers -> -1 .. Off]
  <2>1. \A n \in 1 .. LastTick - 1 : n \in -1 .. Off
    BY Constants
  <2>2. usage.timeout[t] \in -1 .. Off
    BY <2>1, UseFacts, Zenon DEF Inv, Typed
  <2>3. Off \in -1 .. Off
    BY Constants
  <2>4. left' = left \/ left' = [left EXCEPT ![t] = IF op = "start" THEN usage.timeout[t] ELSE Off]
    BY Zenon DEF Command
  <2> QED BY <2>2, <2>3, <2>4, Zenon DEF Inv, Typed
<1>5. Typed' /\ Listed'
  BY <1>2, <1>4, SameLists, Zenon DEF Inv, Typed, lists
<1>6. /\ AfterWrite \in Places
      /\ AfterWrite \in {"head", "read", "wait", "rearm", "clear", "expired", "load", "store", "cmd"} => AfterWrite = pc
      /\ AfterWrite = "due" => pc \in {"due", "expired"}
      /\ AfterWrite = "copy" => pc \in {"copy", "wait"}
  BY AfterFacts, Zenon DEF Inv, Queued
<1>7. Queued'
  BY <1>2, <1>3, <1>6, SameSenders, Zenon DEF Inv, Queued
<1>8. Chosen'
  BY <1>2, <1>6, SameChosen, Zenon DEF Inv, Idle, Places
<1> QED BY <1>5, <1>7, <1>8, Zenon DEF Inv

(* The steps of a command that is sent with interrupts enabled.            *)
LEMMA SendInv ==
  ASSUME Inv, NEW s \in Senders, NEW t \in Timers, NEW op \in usage.ops, Send(s, op, t)
  PROVE  Inv'
<1>1. <<op, t>> \in Messages
  BY Constants, UseFacts, Zenon DEF Inv, Typed
<1>2. /\ rw_count' = [rw_count EXCEPT !.write = rw_count.write - 1] /\ rw_count.write # 0
      /\ job' = [job EXCEPT ![s] = <<op, t>>] /\ at' = [at EXCEPT ![s] = "copy"]
      /\ UNCHANGED <<tick, lists, timers, status, rw_ptr, buf, pc, wake_swtmr, wait_time, msg, loaded, reg, fault, left, usage>>
  BY DEF Send, lists, locals
<1>3. QueueTyped'
  <2>1. rw_count \in [read : Counts, write : Counts] /\ rw_count.write \in Counts
    BY DEF Inv, Queued, QueueTyped
  <2>2. rw_count.write - 1 \in Counts
    BY <1>2, <2>1, Wraps, Zenon DEF Inv, Typed
  <2>3. rw_count' \in [read : Counts, write : Counts]
    BY <1>2, <2>1, <2>2
  <2> QED BY <1>2, <2>3, Zenon DEF Inv, Queued, QueueTyped, Slots
<1>4. SendTyped'
  BY <1>1, <1>2, Zenon DEF Inv, Queued, SendTyped
<1>5. Typed' /\ Listed'
  BY <1>2, SameLists, Zenon DEF Inv, Typed, lists
<1>6. Queued' /\ Chosen'
  BY <1>2, <1>3, <1>4, SameChosen, Zenon DEF Inv, Queued
<1> QED BY <1>5, <1>6, Zenon DEF Inv

LEMMA SendsInv ==
  ASSUME Inv, NEW s \in Senders, Sends(s)
  PROVE  Inv'
<1>1. UNCHANGED <<tick, lists, timers, status, wake_swtmr, wait_time, msg, loaded, left, usage>> /\ Slots' = Slots
  BY Zenon DEF Sends, SendCopy, SendCheck, SendWake, SendLoad, SendStore, lists, locals, Slots
<1>2. /\ pc' \in Places /\ (pc' \in {"head", "read", "wait", "rearm", "clear", "expired", "load", "store", "cmd"} => pc' = pc)
      /\ pc' = "due" => pc \in {"due", "expired"}
      /\ pc' = "copy" => pc \in {"copy", "wait"}
  <2>1. pc' = pc \/ (Listens /\ pc' = Awakened)
    BY Zenon DEF Sends, SendCopy, SendCheck, SendWake, SendLoad, SendStore
  <2> QED BY <2>1, Zenon DEF Inv, Queued, Listens, Awakened, Places
<1>3. rw_count \in [read : Counts, write : Counts] /\ rw_count.read \in Counts /\ NoMsg \in Messages
  BY DEF Inv, Queued, QueueTyped, Messages
<1>4. QueueTyped' /\ SendTyped'
  <2>1. CASE SendCopy(s)
    <3>1. rw_ptr' \in [read : Slots, write : Slots] /\ buf' \in [Slots -> Messages]
      BY <2>1, StoreTyped, Zenon DEF SendCopy, Inv, Queued, SendTyped
    <3> QED BY <1>1, <1>3, <2>1, <3>1, Zenon DEF SendCopy, Inv, Queued, QueueTyped, SendTyped
  <2>2. CASE SendCheck(s)
    BY <1>1, <2>2, SameQueue, Zenon DEF SendCheck, Inv, Queued, SendTyped
  <2>3. CASE SendWake(s)
    <3>1. QueueTyped' /\ at' \in [Senders -> {"app", "copy", "check", "wake", "load", "store"}] /\ UNCHANGED <<job, reg>>
      BY <1>1, <2>3, SameQueue, Zenon DEF SendWake, Inv, Queued, SendTyped
    <3>2. fault' \in BOOLEAN
      BY <2>3, Zenon DEF SendWake, Inv, Queued, SendTyped
    <3> QED BY <3>1, <3>2, Zenon DEF Inv, Queued, SendTyped
  <2>4. CASE SendLoad(s)
    BY <1>1, <1>3, <2>4, SameQueue, Zenon DEF SendLoad, Inv, Queued, SendTyped
  <2>5. CASE SendStore(s)
    <3>1. Increment(reg[s]) \in Counts /\ 0 \in Counts
      BY Wraps, Zenon DEF Inv, Typed, Queued, SendTyped
    <3>2. rw_count' = [rw_count EXCEPT !.read = Increment(reg[s])]
      BY <2>5 DEF SendStore
    <3>3. rw_count' \in [read : Counts, write : Counts]
      BY <1>3, <3>1, <3>2
    <3> QED BY <1>1, <2>5, <3>1, <3>3, Zenon DEF SendStore, Inv, Queued, QueueTyped, SendTyped
  <2> QED BY <2>1, <2>2, <2>3, <2>4, <2>5, Zenon DEF Sends
<1>5. Typed' /\ Listed'
  BY <1>1, SameLists, Zenon DEF Inv, Typed, lists
<1>6. Queued'
  BY <1>1, <1>2, <1>4, Zenon DEF Inv, Queued
<1>7. Chosen'
  BY <1>1, <1>2, SameChosen, Zenon DEF Inv, Idle, Places
<1> QED BY <1>5, <1>6, <1>7, Zenon DEF Inv

LEMMA NextInv == Inv /\ [Next]_vars => Inv'
<1> SUFFICES ASSUME Inv, [Next]_vars PROVE Inv'
  BY Zenon
<1>1. CASE UNCHANGED vars
  <2>1. UNCHANGED <<tick, lists, timers, overflow, status, wake_time, queue, pc, wake_swtmr, wait_time, msg, loaded, sending, left, usage>>
    BY <1>1, Zenon DEF vars, lists, locals
  <2>2. Typed' /\ Listed'
    BY <2>1, SameLists, Zenon DEF Inv, Typed
  <2> QED BY <2>1, <2>2, SameQueue, SameSenders, SameChosen, Zenon DEF Inv, Queued
<1>2. CASE Next
  BY <1>2, ChooseInv, ReadInv, FireInv, RearmInv, ClearInv, HandleInv, HandleDeleteInv, TickInv, CreateInv,
     CommandInv, SendInv, SendsInv, Zenon DEF Next
<1> QED BY <1>1, <1>2, Zenon

(* The lists joined: the statement of ListsRight.                          *)
LEMMA Joined ==
  ASSUME NEW T, NEW p \in Seq(T), NEW o \in Seq(T),
         IsInjective(p), IsInjective(o), Range(p) \cap Range(o) = {}
  PROVE  IsInjective(p \o o) /\ Range(p \o o) = Range(p) \cup Range(o)
<1> DEFINE j == p \o o
<1>1. /\ DOMAIN j = 1 .. Len(p) + Len(o) /\ Len(p) \in Nat /\ Len(o) \in Nat
      /\ DOMAIN p = 1 .. Len(p) /\ DOMAIN o = 1 .. Len(o)
      /\ \A i \in 1 .. Len(p) + Len(o) : j[i] = IF i <= Len(p) THEN p[i] ELSE o[i - Len(p)]
  BY Concat
<1>2. /\ \A i \in 1 .. Len(p) : j[i] = p[i] /\ i \in DOMAIN j
      /\ \A i \in 1 .. Len(o) : j[Len(p) + i] = o[i] /\ Len(p) + i \in DOMAIN j
  BY <1>1
<1>3. \A i \in DOMAIN j : i \in 1 .. Len(p) \/ (i - Len(p) \in 1 .. Len(o) /\ j[i] = o[i - Len(p)])
  BY <1>1
<1> HIDE DEF j
<1>4. Range(j) = Range(p) \cup Range(o)
  <2>1. \A i \in DOMAIN p : p[i] \in Range(j)
    BY <1>1, <1>2, Zenon DEF Range
  <2>2. \A i \in DOMAIN o : o[i] \in Range(j)
    BY <1>1, <1>2, Zenon DEF Range
  <2>3. \A i \in DOMAIN j : j[i] \in Range(p) \cup Range(o)
    BY <1>1, <1>2, <1>3, Zenon DEF Range
  <2> QED BY <2>1, <2>2, <2>3, Zenon DEF Range
<1>5. ASSUME NEW a \in DOMAIN j, NEW b \in DOMAIN j, j[a] = j[b] PROVE a = b
  <2>1. CASE a \in 1 .. Len(p) /\ b \in 1 .. Len(p)
    BY <2>1, <1>1, <1>2, <1>5, Zenon DEF IsInjective
  <2>2. CASE a \in 1 .. Len(p) /\ b \notin 1 .. Len(p)
    <3>1. j[a] \in Range(p) /\ j[b] \in Range(o)
      BY <2>2, <1>1, <1>2, <1>3, <1>5, Zenon DEF Range
    <3> QED BY <3>1, <1>5, Zenon
  <2>3. CASE a \notin 1 .. Len(p) /\ b \in 1 .. Len(p)
    <3>1. j[b] \in Range(p) /\ j[a] \in Range(o)
      BY <2>3, <1>1, <1>2, <1>3, <1>5, Zenon DEF Range
    <3> QED BY <3>1, <1>5, Zenon
  <2>4. CASE a \notin 1 .. Len(p) /\ b \notin 1 .. Len(p)
    <3>1. a - Len(p) = b - Len(p)
      BY <2>4, <1>1, <1>3, <1>5, Zenon DEF IsInjective
    <3> QED BY <3>1, <1>1, <1>5
  <2> QED BY <2>1, <2>2, <2>3, <2>4, Zenon
<1>6. IsInjective(j)
  BY <1>5, Zenon DEF IsInjective
<1> QED BY <1>4, <1>6, Zenon DEF j

(* The running timers, and only they, are on one of the two lists, once    *)
(* and in order, and the timer that the task waits for is still the first  *)
(* of its list when it is used, with ticks, commands and overflow messages *)
(* at any moment, for any number of timers.                                *)
THEOREM KeepsLists == Spec => []ListsRight
<1>1. Inv => ListsRight
  <2> SUFFICES ASSUME Inv PROVE ListsRight
    BY Zenon
  <2>1. TypeOK
    <3>1. Range(timers) \cup Range(overflow) \subseteq Timers
      BY EmptyItems, Zenon DEF Inv, Typed
    <3>2. DOMAIN buf = Slots
      BY Zenon DEF Inv, Queued, QueueTyped
    <3> QED BY <3>1, <3>2, Zenon DEF TypeOK, Inv, Typed, Queued, QueueTyped, SendTyped, Slots, Statuses, Places
  <2>2. IsInjective(timers \o overflow) /\ Range(timers \o overflow) = {t \in Timers : status[t] = "RUNNING"}
    BY Joined DEF Inv, Typed, Listed, InOrder
  <2> QED BY <2>1, <2>2, Zenon DEF ListsRight, Inv, Listed, InOrder, Chosen
<1> QED BY <1>1, InitInv, NextInv, PTL DEF Spec

-----------------------------------------------------------------------------
(* Where usage is Timely.  The queue, when nothing is read or written ...  *)
LEMMA OnePending == Ring => (Pending <=> pc = "copy" \/ rw_count.read = 1)
BY DEF Ring, Pending

LEMMA QuietStep ==
  ASSUME Ring, UNCHANGED <<queue, sending, usage>>,
         pc \notin {"copy", "load", "store"}, pc' \notin {"copy", "load", "store"}
  PROVE  Ring' /\ (Pending' <=> Pending) /\ \A m : InQueue(m)' <=> InQueue(m)
<1>1. UNCHANGED <<rw_count, rw_ptr, buf, at>>
  BY Zenon DEF queue, sending
<1>2. (Pending' <=> Pending) /\ \A m : InQueue(m)' <=> InQueue(m)
  BY <1>1, Zenon DEF Pending, InQueue
<1> QED BY <1>1, <1>2, Zenon DEF Ring, NextPlace

(* ... and when a message is written in one step ...                       *)
LEMMA WriteStep ==
  ASSUME Typed, QueueTyped, Ring, ~Pending, pc \in {"wait", "due"}, NEW m \in Messages,
         Write(m), pc' = AfterWrite, UNCHANGED <<sending, usage>>
  PROVE  /\ pc' = (IF pc = "wait" THEN "copy" ELSE "due") /\ Ring' /\ Pending' /\ rw_count.write # 0
         /\ \A k : InQueue(k)' <=> k = m
<1>1. usage.size \in Nat \ {0}
  BY UseFacts, Zenon DEF Typed
<1>2. rw_count.write = usage.size /\ rw_count.read = 0 /\ rw_ptr.write = rw_ptr.read
  BY OnePending, Zenon DEF Ring
<1>3. /\ rw_count.write # 0 /\ (Listens <=> pc = "wait")
      /\ pc' = (IF pc = "wait" THEN "copy" ELSE "due")
  BY <1>1, <1>2, Zenon DEF AfterWrite, Awakened, Listens
<1>4. rw_count' = [rw_count EXCEPT !.write = usage.size - 1, !.read = IF pc = "wait" THEN 0 ELSE 1]
  <2>1. Increment(0) = 1
    BY Wraps, Zenon DEF Typed
  <2> QED BY <1>2, <1>3, <2>1, Zenon DEF Write
<1>5. /\ rw_ptr' = [rw_ptr EXCEPT !.write = NextPlace(rw_ptr.read)]
      /\ buf' = [buf EXCEPT ![rw_ptr.read] = m]
  BY <1>2, <1>3 DEF Write, Store
<1>6. /\ rw_count'.write = usage.size - 1 /\ rw_count'.read = (IF pc = "wait" THEN 0 ELSE 1)
      /\ rw_ptr'.read = rw_ptr.read /\ rw_ptr'.write = NextPlace(rw_ptr.read) /\ buf'[rw_ptr.read] = m
  BY <1>4, <1>5 DEF QueueTyped
<1>7. Pending'
  BY <1>3, <1>6 DEF Pending
<1>8. \A k : InQueue(k)' <=> k = m
  BY <1>6, <1>7, Zenon DEF InQueue
<1>9. Ring'
  <2>1. rw_count'.read \in {0, 1} /\ (pc' = "copy" => rw_count'.read = 0) /\ pc' # "store"
    BY <1>3, <1>6, Zenon
  <2>2. usage'.senders = {} /\ \A s \in Senders : at'[s] = "app"
    BY Zenon DEF Ring, sending
  <2> QED BY <1>6, <1>7, <2>1, <2>2, Zenon DEF Ring, NextPlace
<1> QED BY <1>3, <1>7, <1>8, <1>9, Zenon

(* ... what is said of the commands in the queue where there is none ...   *)
Free == {"head", "read", "wait", "expired", "due", "rearm"}

LEMMA NotAsked ==
  ASSUME Inv, Prompt, pc \in Free
  PROVE  /\ msg = NoMsg /\ \A op \in Ops, t \in Timers : ~Asked(op, t)
         /\ pc \in {"wait", "expired"} => ~Wrapping /\ ~Pending
<1>1. msg = NoMsg
  BY Zenon DEF Inv, Chosen, Idle, Free
<1>2. OverflowMsg # NoMsg /\ \A op \in Ops, t \in Timers : <<op, t>> # NoMsg /\ <<op, t>> # OverflowMsg
  BY Constants, Zenon
<1>3. Pending => buf[rw_ptr.read] = OverflowMsg
  BY Zenon DEF Prompt, Free, InQueue
<1>4. \A op \in Ops, t \in Timers : ~Asked(op, t)
  BY <1>1, <1>2, <1>3, Zenon DEF Asked, InQueue
<1>5. pc \in {"wait", "expired"} => ~Wrapping /\ ~Pending
  BY <1>1, <1>2, Zenon DEF Wrapping, InQueue, Prompt
<1> QED BY <1>1, <1>4, <1>5, Zenon

(* ... of the timers on the first list, which are not behind the tick ...  *)
LEMMA NotBehind ==
  ASSUME Inv, Prompt, Follows, pc \in Free, NEW t \in Range(timers), ~Called(t)
  PROVE  /\ t \in Timers /\ status[t] = "RUNNING" /\ left[t] = wake_time[t] - tick
         /\ left[t] \in 0 .. LastTick - 1
<1>1. t \in Timers /\ status[t] = "RUNNING"
  BY EmptyItems, Zenon DEF Inv, Typed, Listed
<1>2. left[t] = wake_time[t] - tick
  BY <1>1, NotAsked, Zenon DEF Inv, Follows, LeftOf, DueAt
<1>3. left[t] \in 0 .. LastTick - 1 \/ left[t] = Off
  BY <1>1, Zenon DEF Follows, LeftOf
<1>4. wake_time[t] \in 0 .. LastTick /\ tick \in 0 .. LastTick
  BY <1>1, Zenon DEF Inv, Typed
<1> QED BY <1>1, <1>2, <1>3, <1>4, Constants

(* ... and of a timer that a step leaves alone.                            *)
LEMMA SameLeft ==
  ASSUME NEW t \in Timers, LeftOf(t), tick' = tick, usage' = usage,
         left'[t] = left[t], status'[t] = status[t], wake_time'[t] = wake_time[t],
         t \in Range(timers') <=> t \in Range(timers), Wrapping' <=> Wrapping,
         \A op \in Ops : Asked(op, t)' <=> Asked(op, t), Called(t)' <=> Called(t)
  PROVE  LeftOf(t)'
<1>1. DueAt(t)' = DueAt(t)
  BY Zenon DEF DueAt
<1>2. \A again : Restarted(t, again)' <=> Restarted(t, again)
  BY Zenon DEF Restarted
<1> QED BY <1>1, <1>2, Zenon DEF LeftOf

LEMMA ChoosePrompt ==
  ASSUME Inv, Prompt, Follows, Choose
  PROVE  Prompt' /\ Follows'
<1>1. /\ pc = "head" /\ pc' = "read" /\ UNCHANGED <<tick, lists, queue, msg, sending, left, usage>>
      /\ wait_time' = IF timers = << >> THEN LastTick ELSE (wake_time[Head(timers)] - tick) % TickMod
  BY Zenon DEF Choose
<1>2. timers # << >> => wait_time' = wake_time[Head(timers)] - tick
  <2> SUFFICES ASSUME timers # << >> PROVE wait_time' = wake_time[Head(timers)] - tick
    BY Zenon
  <2> DEFINE d == wake_time[Head(timers)] - tick
  <2>1. d \in 0 .. LastTick - 1
    BY <1>1, FirstTimer, NotBehind, Zenon DEF Inv, Typed, Called, Free
  <2> HIDE DEF d
  <2>2. d % TickMod = d
    BY <2>1, Constants, Remainder
  <2> QED BY <1>1, <2>2, Zenon DEF d
<1>0. Ring' /\ (Pending' <=> Pending) /\ \A m : InQueue(m)' <=> InQueue(m)
  BY <1>1, QuietStep, Zenon DEF Prompt
<1>3. Wrapping' <=> Wrapping
  BY <1>0, <1>1, Zenon DEF Wrapping
<1>4. Prompt'
  BY <1>0, <1>1, <1>2, <1>3, Zenon DEF Prompt, lists
<1>5. Follows'
  <2> SUFFICES ASSUME NEW t \in Timers PROVE LeftOf(t)'
    BY Zenon DEF Follows
  <2>1. \A op \in Ops : Asked(op, t)' <=> Asked(op, t)
    BY <1>0, <1>1, Zenon DEF Asked
  <2> QED BY <1>1, <1>3, <2>1, SameLeft, Zenon DEF Follows, Called, lists
<1> QED BY <1>4, <1>5, Zenon

LEMMA ReadPrompt ==
  ASSUME Inv, Prompt, Follows, Read \/ ReadCopy \/ ReadLoad \/ ReadStore \/ ReadExpired
  PROVE  Prompt' /\ Follows'
<1>1. /\ UNCHANGED <<tick, status, wake_time, timers, overflow, wake_swtmr, wait_time, at, sending, left, usage>>
      /\ pc \in {"read", "copy", "load", "store", "expired"}
      /\ pc' \in {"copy", "load", "store", "cmd", "due", "wait"}
  BY Zenon DEF Read, ReadCopy, ReadLoad, ReadStore, ReadExpired, lists, locals, sending
<1>2. /\ rw_count \in [read : Counts, write : Counts] /\ rw_ptr \in [read : Slots, write : Slots]
      /\ Increment(usage.size - 1) = usage.size
  BY Wraps, Zenon DEF Inv, Typed, Queued, QueueTyped
<1>3. SUFFICES /\ Ring' /\ (Wrapping' <=> Wrapping)
               /\ \A op \in Ops, t \in Timers : Asked(op, t)' <=> Asked(op, t)
               /\ pc' # "copy" => ~Pending'
               /\ pc' = "wait" => pc = "read"
  <2>1. Prompt'
    BY <1>1, <1>3, Zenon DEF Prompt
  <2>2. Follows'
    BY <1>1, <1>3, SameLeft, Zenon DEF Follows, Called
  <2> QED BY <2>1, <2>2, Zenon
<1>4. CASE Read /\ rw_count.read > 0
  <2>1. pc = "read" /\ pc' = "copy" /\ UNCHANGED <<rw_ptr, buf, msg>> /\ Pending /\ Pending' /\ rw_count.read = 1
    BY <1>4, OnePending, Zenon DEF Read, Prompt, Pending, locals
  <2>2. rw_count'.read = 0 /\ rw_count'.write = rw_count.write
    BY <1>2, <1>4, <2>1 DEF Read
  <2>3. \A m : InQueue(m)' <=> InQueue(m)
    BY <2>1, Zenon DEF InQueue
  <2>4. Ring'
    BY <1>1, <2>1, <2>2, Zenon DEF Prompt, Ring, NextPlace
  <2> QED BY <2>1, <2>3, <2>4, Zenon DEF Wrapping, Asked
<1>5. CASE (Read /\ ~(rw_count.read > 0)) \/ ReadExpired
  <2>1. /\ pc \in {"read", "expired"} /\ pc' \in {"due", "wait"} /\ UNCHANGED <<queue, msg>>
        /\ pc' = "wait" => pc = "read"
    BY <1>5, Zenon DEF Read, ReadExpired, locals, queue
  <2>2. Ring' /\ (Pending' <=> Pending) /\ \A m : InQueue(m)' <=> InQueue(m)
    BY <1>1, <2>1, QuietStep, Zenon DEF Prompt
  <2>3. ~Pending
    BY <1>5, <2>1, Zenon DEF Prompt, Pending, ReadExpired
  <2> QED BY <2>1, <2>2, <2>3, Zenon DEF Wrapping, Asked
<1>6. CASE ReadCopy
  <2>1. pc = "copy" /\ pc' = "load" /\ rw_count' = rw_count /\ msg' = buf[rw_ptr.read] /\ rw_count.read = 0
    BY <1>6, Zenon DEF ReadCopy, Prompt, Ring
  <2>2. rw_ptr'.read = NextPlace(rw_ptr.read) /\ rw_ptr'.write = rw_ptr.write
    BY <1>2, <1>6 DEF ReadCopy
  <2>3. Pending /\ ~Pending'
    BY <2>1 DEF Pending
  <2>4. Ring'
    BY <1>1, <2>1, <2>2, <2>3, Zenon DEF Prompt, Ring
  <2>5. msg = NoMsg /\ \A m : InQueue(m) <=> msg' = m
    BY <2>1, <2>3, Zenon DEF InQueue, Inv, Chosen, Idle
  <2>6. \A m : m # NoMsg => (InQueue(m)' \/ msg' = m <=> InQueue(m) \/ msg = m)
    BY <2>3, <2>5, Zenon DEF InQueue
  <2>7. (Wrapping' <=> Wrapping) /\ \A op \in Ops, t \in Timers : Asked(op, t)' <=> Asked(op, t)
    BY <2>6, Constants, Zenon DEF Wrapping, Asked
  <2> QED BY <2>1, <2>3, <2>4, <2>7, Zenon
<1>7. CASE ReadLoad \/ ReadStore
  <2>1. ~Pending /\ rw_count.read = 0 /\ msg' = msg
    <3>1. pc \in {"load", "store"} /\ msg' = msg
      BY <1>7, Zenon DEF ReadLoad, ReadStore
    <3>2. ~Pending
      BY <3>1, Zenon DEF Prompt
    <3> QED BY <3>1, <3>2, OnePending, Zenon DEF Prompt, Ring
  <2>2. CASE ReadLoad
    <3>1. pc = "load" /\ pc' = "store" /\ UNCHANGED <<rw_count, rw_ptr, buf>> /\ loaded' = rw_count.write
      BY <2>2, Zenon DEF ReadLoad, queue
    <3>2. ~Pending'
      BY <2>1, <3>1 DEF Pending
    <3>3. Ring'
      BY <1>1, <2>1, <3>1, <3>2, Zenon DEF Prompt, Ring
    <3> QED BY <2>1, <3>1, <3>2, <3>3, Zenon DEF Wrapping, Asked, InQueue
  <2>3. CASE ReadStore
    <3>1. pc = "store" /\ pc' = "cmd" /\ UNCHANGED <<rw_ptr, buf>> /\ loaded = usage.size - 1
      BY <2>3, Zenon DEF ReadStore, Prompt, Ring
    <3>2. rw_count'.read = 0 /\ rw_count'.write = usage.size
      BY <1>2, <2>1, <2>3, <3>1 DEF ReadStore
    <3>3. ~Pending'
      BY <3>1, <3>2 DEF Pending
    <3>4. Ring'
      BY <1>1, <2>1, <3>1, <3>2, <3>3, Zenon DEF Prompt, Ring
    <3> QED BY <2>1, <3>1, <3>3, <3>4, Zenon DEF Wrapping, Asked, InQueue
  <2> QED BY <1>7, <2>2, <2>3, Zenon
<1> QED BY <1>4, <1>5, <1>6, <1>7, Zenon

(* The callback is called exactly when nothing is left of the time.        *)
LEMMA FireOnTime ==
  ASSUME Inv, Prompt, Follows, Fire
  PROVE  wake_swtmr \in Range(timers) /\ wake_swtmr \in Timers /\ left[wake_swtmr] = 0
<1>1. pc = "due" /\ wake_swtmr # ListHead /\ tick >= WakeOfItem(wake_swtmr)
  BY Zenon DEF Fire, IsDue
<1>2. wake_swtmr = FirstItem(timers, ListHead) /\ timers \in Seq(Timers)
  BY <1>1, Zenon DEF Inv, Chosen, Typed
<1>3. wake_swtmr \in Range(timers) /\ wake_swtmr \in Timers
  BY <1>1, <1>2, FirstTimer, Zenon
<1>4. left[wake_swtmr] = wake_time[wake_swtmr] - tick /\ left[wake_swtmr] \in 0 .. LastTick - 1
  BY <1>1, <1>3, NotBehind, Zenon DEF Called, Free
<1>5. tick >= wake_time[wake_swtmr] /\ tick \in 0 .. LastTick /\ wake_time[wake_swtmr] \in 0 .. LastTick
  BY <1>1, <1>3, Zenon DEF WakeOfItem, Inv, Typed
<1> QED BY <1>3, <1>4, <1>5, Constants

LEMMA FirePrompt ==
  ASSUME Inv, Timely, Prompt, Follows, Fire \/ NoneDue
  PROVE  Prompt' /\ Follows'
<1>0. /\ UNCHANGED <<tick, lists, queue, wake_swtmr, msg, sending, usage>> /\ pc = "due"
      /\ pc' \in {"rearm", "head"}
  BY Zenon DEF Fire, NoneDue, locals
<1>4. Ring' /\ (Pending' <=> Pending) /\ \A m : InQueue(m)' <=> InQueue(m)
  BY <1>0, QuietStep, Zenon DEF Prompt
<1>1. /\ UNCHANGED <<tick, lists, queue, wake_swtmr, msg, usage>> /\ pc = "due"
      /\ pc' \in {"rearm", "head"} /\ (Wrapping' <=> Wrapping)
      /\ \A op \in Ops, t \in Timers : Asked(op, t)' <=> Asked(op, t)
  BY <1>0, <1>4, Zenon DEF Wrapping, Asked
<1>2. Prompt'
  BY <1>1, <1>4, Zenon DEF Prompt, lists
<1>3. Follows'
  <2>1. CASE Fire
    <3>1. wake_swtmr \in Range(timers) /\ wake_swtmr \in Timers
      BY <2>1, FireOnTime, Zenon
    <3>2. pc' = "rearm" /\ left' = [left EXCEPT ![wake_swtmr] =
            IF wake_swtmr \in usage.period THEN usage.timeout[wake_swtmr] ELSE Off]
      BY <2>1, Zenon DEF Fire
    <3>3. ASSUME NEW t \in Timers, t # wake_swtmr PROVE LeftOf(t)'
      BY <1>1, <3>2, <3>3, SameLeft, Zenon DEF Follows, Called, lists, Inv, Typed
    <3>4. LeftOf(wake_swtmr)'
      <4>1. status'[wake_swtmr] = "RUNNING"
        BY <1>1, <3>1, Zenon DEF Inv, Listed, lists
      <4>2. usage.timeout[wake_swtmr] \in 0 .. LastTick - 1
        BY <3>1, UseFacts, Zenon DEF Inv, Typed
      <4>3. \A op \in Ops : ~Asked(op, wake_swtmr)'
        BY <1>1, <3>1, NotAsked, Zenon DEF Free
      <4>4. left'[wake_swtmr] = IF wake_swtmr \in usage.period THEN usage.timeout[wake_swtmr] ELSE Off
        BY <3>1, <3>2, Zenon DEF Inv, Typed
      <4> QED BY <1>1, <3>2, <4>1, <4>2, <4>3, <4>4, Zenon DEF LeftOf, Restarted, Called
    <3> QED BY <1>1, <3>3, <3>4, Zenon DEF Follows
  <2>2. CASE NoneDue
    BY <1>1, <2>2, SameLeft, Zenon DEF NoneDue, Follows, Called, lists
  <2> QED BY <2>1, <2>2, Zenon
<1> QED BY <1>2, <1>3, Zenon

(* A timer that was started, by the callback or by a command, is due when  *)
(* left says, and one that was stopped or deleted is never due.            *)
LEMMA StartedLeft ==
  ASSUME Inv, NEW t \in Timers, StartIn(t, Without(timers, t), Without(overflow, t)),
         tick' = tick, usage' = usage, left' = left, ~Wrapping', ~Called(t)',
         \A op \in Ops : ~Asked(op, t)', left[t] = usage.timeout[t]
  PROVE  LeftOf(t)'
<1>1. /\ status'[t] = "RUNNING" /\ wake_time'[t] = WakeOf(t)
      /\ t \in Range(timers') <=> ~Overflows(WakeOf(t))
  BY StartStep, Zenon DEF Inv
<1>2. /\ WakeOf(t) \in 0 .. LastTick
      /\ Overflows(WakeOf(t)) => WakeOf(t) + TickMod - tick = usage.timeout[t]
      /\ ~Overflows(WakeOf(t)) => WakeOf(t) - tick = usage.timeout[t]
  BY WakeTime, Zenon DEF Inv
<1>3. DueAt(t)' = IF Overflows(WakeOf(t)) THEN WakeOf(t) + TickMod ELSE WakeOf(t)
  BY <1>1, Zenon DEF DueAt
<1>4. DueAt(t)' - tick = usage.timeout[t]
  <2>1. tick \in 0 .. LastTick
    BY Zenon DEF Inv, Typed
  <2> QED BY <1>2, <1>3, <2>1, Constants
<1>5. usage.timeout[t] \in 0 .. LastTick - 1 /\ usage.timeout[t] # Off
  BY UseFacts, Zenon DEF Inv, Typed
<1> QED BY <1>1, <1>4, <1>5, Zenon DEF LeftOf

LEMMA RearmPrompt ==
  ASSUME Inv, Prompt, Follows, Rearm
  PROVE  Prompt' /\ Follows'
<1> DEFINE t == wake_swtmr
<1>1. /\ pc = "rearm" /\ pc' \in {"due", "clear"} /\ UNCHANGED <<tick, queue, wait_time, msg, sending, left, usage>>
  BY Zenon DEF Rearm
<1>2. t \in Timers /\ t \in Range(timers) /\ timers # << >> /\ status[t] = "RUNNING"
  <2>1. t = FirstItem(timers, ListHead) /\ t # ListHead /\ timers \in Seq(Timers)
    BY <1>1, Zenon DEF Inv, Chosen, Typed
  <2>2. t \in Timers /\ t \in Range(timers) /\ timers # << >>
    BY <2>1, FirstTimer, Zenon
  <2> QED BY <2>2, Zenon DEF Inv, Listed
<1>3. ~Wrapping /\ ~Pending
  BY <1>1, <1>2, Zenon DEF Prompt, Wrapping
<1>7. Ring' /\ (Pending' <=> Pending) /\ \A m : InQueue(m)' <=> InQueue(m)
  BY <1>1, QuietStep, Zenon DEF Prompt
<1>4. ~Wrapping' /\ \A op \in Ops, u \in Timers : ~Asked(op, u) /\ ~Asked(op, u)'
  <2>1. \A op \in Ops, u \in Timers : ~Asked(op, u)
    BY <1>1, NotAsked, Zenon DEF Free
  <2> QED BY <1>1, <1>3, <1>7, <2>1, Zenon DEF Wrapping, Asked
<1>5. Prompt'
  BY <1>1, <1>3, <1>4, <1>7, Zenon DEF Prompt
<1>6. Restarted(t, t \in usage.period)
  BY <1>1, <1>2, Zenon DEF Follows, LeftOf, Called
<1>8. \A u \in Timers : u = t => LeftOf(u)'
  <2>1. CASE t \in usage.period
    <3>1. StartIn(t, Without(timers, t), Without(overflow, t)) /\ left[t] = usage.timeout[t]
      BY <1>6, <2>1, Zenon DEF Rearm, Restarted
    <3> QED BY <1>1, <1>2, <1>4, <3>1, StartedLeft, Zenon DEF Called
  <2>2. CASE t \notin usage.period
    <3>1. FreeTimer(t) /\ left'[t] = Off
      BY <1>1, <1>6, <2>2, Zenon DEF Rearm, Restarted
    <3>2. status'[t] # "RUNNING"
      BY <1>2, <3>1, FreeDrops, DropStep, Zenon DEF Inv, Typed
    <3> QED BY <1>1, <1>2, <1>4, <3>1, <3>2, Zenon DEF LeftOf, Called
  <2> QED BY <2>1, <2>2, Zenon
<1>9. ASSUME NEW u \in Timers, u # t PROVE LeftOf(u)'
  <2>1. /\ status'[u] = status[u] /\ wake_time'[u] = wake_time[u]
        /\ u \in Range(timers') <=> u \in Range(timers)
    <3>1. CASE t \in usage.period
      BY <1>2, <1>9, <3>1, StartStep, Zenon DEF Rearm, Inv
    <3>2. CASE t \notin usage.period
      <4>1. FreeTimer(t)
        BY <3>2, Zenon DEF Rearm
      <4>2. /\ timers' = Without(timers, t) /\ overflow' = Without(overflow, t) /\ wake_time' = wake_time
            /\ \E s \in Statuses \ {"RUNNING"} : status' = [status EXCEPT ![t] = s]
        BY <1>2, <4>1, FreeDrops, Zenon DEF Inv
      <4> QED BY <1>2, <1>9, <4>2, DropStep, Zenon DEF Inv, Typed
    <3> QED BY <3>1, <3>2, Zenon
  <2> QED BY <1>1, <1>3, <1>4, <1>9, <2>1, SameLeft, Zenon DEF Follows, Called
<1> QED BY <1>5, <1>8, <1>9, Zenon DEF Follows

LEMMA HandlePrompt ==
  ASSUME Inv, Prompt, Follows, Handle
  PROVE  Prompt' /\ Follows'
<1>1. /\ pc = "cmd" /\ pc' = "head" /\ msg' = NoMsg /\ UNCHANGED <<tick, queue, sending, left, usage>>
      /\ ~Pending
  BY Zenon DEF Handle, Prompt
<1>6. Ring' /\ ~Pending' /\ \A m : ~InQueue(m) /\ ~InQueue(m)'
  BY <1>1, QuietStep, Zenon DEF Prompt, InQueue
<1>2. /\ ~Wrapping' /\ \A op \in Ops, t \in Timers : ~Asked(op, t)'
      /\ \A t \in Timers : ~Called(t)' /\ ~Called(t)
  BY <1>1, <1>6, Constants, Zenon DEF Wrapping, Asked, Called
<1>3. Prompt'
  BY <1>1, <1>2, <1>6, Zenon DEF Prompt
<1>7. CASE msg = NoMsg
  <2>1. UNCHANGED lists
    BY <1>7, Constants, Zenon DEF Handle, NoMsg, OverflowMsg
  <2>2. ~Wrapping /\ \A op \in Ops, t \in Timers : ~Asked(op, t)
    BY <1>6, <1>7, Constants, Zenon DEF Wrapping, Asked
  <2> QED BY <1>1, <1>2, <1>3, <2>1, <2>2, SameLeft, Zenon DEF Follows, lists
<1>4. CASE msg = OverflowMsg
  <2>1. timers' = overflow /\ overflow' = timers /\ status' = status /\ wake_time' = wake_time
    BY <1>4, Constants, Zenon DEF Handle, OverflowMsg
  <2>2. Wrapping /\ tick = 0 /\ timers = << >> /\ Range(timers) = {}
    BY <1>4, EmptyItems, Zenon DEF Wrapping, Prompt, Inv, Typed
  <2>3. ASSUME NEW t \in Timers PROVE LeftOf(t)'
    <3>1. \A op \in Ops : ~Asked(op, t)
      BY <1>4, <1>6, Constants, Zenon DEF Asked
    <3>2. status[t] = "RUNNING" => t \in Range(timers')
      BY <2>1, <2>2, Zenon DEF Inv, Listed
    <3>3. status[t] = "RUNNING" => DueAt(t)' = DueAt(t)
      BY <2>1, <2>2, <3>2, Zenon DEF DueAt
    <3>4. LeftOf(t)
      BY Zenon DEF Follows
    <3> QED BY <1>1, <1>2, <2>1, <3>1, <3>3, <3>4, Zenon DEF LeftOf
  <2> QED BY <1>3, <2>3, Zenon DEF Follows
<1>5. CASE msg \notin {NoMsg, OverflowMsg}
  <2> DEFINE t == msg[2]
  <2>1. msg = <<msg[1], t>> /\ msg[1] \in Ops /\ t \in Timers
    BY <1>5, CommandCases, Zenon
  <2>2. Asked(msg[1], t) /\ ~Wrapping /\ \A op \in Ops, u \in Timers : u # t => ~Asked(op, u)
    <3>1. \A op, u : msg = <<op, u>> => u = t
      BY <2>1
    <3> QED BY <1>5, <1>6, <2>1, <3>1, Zenon DEF Asked, Wrapping
  <2>3. LeftOf(t) /\ (status[t] # "UNUSED" => Restarted(t, msg[1] = "start"))
    BY <2>1, <2>2, Zenon DEF Follows, LeftOf
  <2>4. \A u \in Timers : u = t => LeftOf(u)'
    <3>1. CASE status[t] = "UNUSED" /\ UNCHANGED lists
      BY <1>1, <2>3, <3>1, Zenon DEF LeftOf, lists
    <3>2. CASE msg[1] = "start" /\ status[t] # "UNUSED" /\ StartIn(t, Without(timers, t), Without(overflow, t))
      <4>1. left[t] = usage.timeout[t]
        BY <2>3, <3>2, Zenon DEF Restarted
      <4> QED BY <1>1, <1>2, <2>1, <3>2, <4>1, StartedLeft, Zenon
    <3>3. CASE /\ msg[1] = "stop" /\ status[t] # "UNUSED"
               /\ \E s \in Statuses \ {"RUNNING"} : status' = [status EXCEPT ![t] = s]
      <4>1. status'[t] # "RUNNING" /\ left'[t] = Off
        BY <1>1, <2>1, <2>3, <3>3, Zenon DEF Restarted, Inv, Typed
      <4> QED BY <1>2, <2>1, <4>1, Zenon DEF LeftOf
    <3> QED BY <1>5, <3>1, <3>2, <3>3, CommandCases, Zenon
  <2>5. ASSUME NEW u \in Timers, u # t PROVE LeftOf(u)'
    <3>1. /\ status'[u] = status[u] /\ wake_time'[u] = wake_time[u]
          /\ u \in Range(timers') <=> u \in Range(timers)
      <4>1. CASE UNCHANGED lists
        BY <4>1, Zenon DEF lists
      <4>2. CASE StartIn(t, Without(timers, t), Without(overflow, t))
        BY <2>1, <2>5, <4>2, StartStep, Zenon DEF Inv
      <4>3. CASE /\ timers' = Without(timers, t) /\ overflow' = Without(overflow, t)
                 /\ \E s \in Statuses \ {"RUNNING"} : status' = [status EXCEPT ![t] = s]
                 /\ wake_time' = wake_time
        BY <2>1, <2>5, <4>3, DropStep, Zenon DEF Inv, Typed
      <4> QED BY <1>5, <4>1, <4>2, <4>3, CommandCases, Zenon
    <3> QED BY <1>1, <1>2, <2>2, <2>5, <3>1, SameLeft, Zenon DEF Follows
  <2> QED BY <1>3, <2>4, <2>5, Zenon DEF Follows
<1> QED BY <1>4, <1>5, <1>7, Zenon

(* The deletion, in its two steps.                                         *)
LEMMA DeletePrompt ==
  ASSUME Inv, Prompt, Follows, HandleDelete
  PROVE  Prompt' /\ Follows'
<1> DEFINE t == msg[2]
<1>1. /\ pc = "cmd" /\ pc' = "clear" /\ ~Pending /\ status[t] # "UNUSED" /\ FreeTimer(t)
      /\ UNCHANGED <<tick, queue, wake_swtmr, wait_time, msg, sending, left, usage>>
  BY Zenon DEF HandleDelete, Prompt, locals
<1>2. msg \notin {NoMsg, OverflowMsg} /\ msg[1] = "delete"
  <2>1. msg[1] = "delete" /\ NoMsg[1] = "none" /\ OverflowMsg[1] = "overflow"
    BY DEF HandleDelete, NoMsg, OverflowMsg
  <2> QED BY <2>1, Zenon
<1>3. t \in Timers /\ msg = <<"delete", t>> /\ \A op, u : msg = <<op, u>> => op = "delete" /\ u = t
  <2>1. t \in Timers /\ msg = <<"delete", t>>
    BY <1>2, Constants, Zenon DEF Inv, Queued
  <2> QED BY <2>1
<1>4. Ring' /\ ~Pending' /\ \A m : ~InQueue(m) /\ ~InQueue(m)'
  BY <1>1, QuietStep, Zenon DEF Prompt, InQueue
<1>5. /\ ~Wrapping /\ ~Wrapping' /\ \A u \in Timers : ~Called(u)' /\ ~Called(u)
      /\ \A op \in Ops, u \in Timers : Asked(op, u)' <=> Asked(op, u)
  BY <1>1, <1>2, <1>4, Zenon DEF Wrapping, Asked, Called
<1>6. Prompt'
  BY <1>1, <1>4, <1>5, Zenon DEF Prompt
<1>7. left[t] = Off /\ Asked("delete", t)
  <2>1. Asked("delete", t)
    BY <1>3, Zenon DEF Asked
  <2> QED BY <1>1, <1>3, <2>1, Zenon DEF Follows, LeftOf, Restarted, Ops
<1>8. ASSUME NEW u \in Timers PROVE LeftOf(u)'
  <2>1. CASE u = t
    <3>1. left'[u] = Off /\ \A op \in Ops : Asked(op, u)' => op = "delete"
      BY <1>1, <1>3, <1>4, <1>7, <2>1, Zenon DEF Asked
    <3>2. \A op \in Ops : Asked(op, u)' => Restarted(u, op = "start")'
      BY <3>1, Zenon DEF Restarted
    <3>3. Asked("delete", u)' /\ ~Called(u)' /\ "delete" \in Ops
      BY <1>5, <1>7, <2>1, Zenon DEF Ops
    <3> QED BY <3>1, <3>2, <3>3, Zenon DEF LeftOf
  <2>2. CASE u # t
    <3>1. /\ status'[u] = status[u] /\ wake_time'[u] = wake_time[u]
          /\ u \in Range(timers') <=> u \in Range(timers)
      <4>1. /\ timers' = Without(timers, t) /\ overflow' = Without(overflow, t) /\ wake_time' = wake_time
            /\ \E s \in Statuses \ {"RUNNING"} : status' = [status EXCEPT ![t] = s]
        BY <1>1, <1>3, FreeDrops, Zenon DEF Inv
      <4> QED BY <1>3, <2>2, <4>1, DropStep, Zenon DEF Inv, Typed
    <3> QED BY <1>1, <1>5, <3>1, SameLeft, Zenon DEF Follows
  <2> QED BY <2>1, <2>2, Zenon
<1> QED BY <1>6, <1>8, Zenon DEF Follows

LEMMA ClearPrompt ==
  ASSUME Inv, Prompt, Follows, Clear
  PROVE  Prompt' /\ Follows'
<1> DEFINE t == Deleted
<1>1. /\ pc = "clear" /\ pc' \in {"due", "head"} /\ ~Pending /\ msg' = NoMsg
      /\ status' = [status EXCEPT ![t] = "UNUSED"] /\ wake_time' = [wake_time EXCEPT ![t] = 0]
      /\ UNCHANGED <<tick, timers, overflow, queue, sending, left, usage>>
  BY Zenon DEF Clear, Prompt
<1>2. /\ t \in Timers /\ status[t] # "RUNNING" /\ (msg = NoMsg \/ msg = <<"delete", t>>)
  BY <1>1, Zenon DEF Inv, Chosen
<1>3. \A op, u : <<op, u>> = <<"delete", t>> => u = t
  OBVIOUS
<1>4. Ring' /\ ~Pending' /\ \A m : ~InQueue(m) /\ ~InQueue(m)'
  BY <1>1, QuietStep, Zenon DEF Prompt, InQueue
<1>5. /\ ~Wrapping /\ ~Wrapping' /\ \A u \in Timers : ~Called(u)' /\ ~Called(u)
      /\ \A op \in Ops, u \in Timers : ~Asked(op, u)' /\ (u # t => ~Asked(op, u))
  <2>1. OverflowMsg # NoMsg /\ OverflowMsg # <<"delete", t>>
    BY <1>2, Constants, Zenon DEF Ops
  <2> QED BY <1>1, <1>2, <1>3, <1>4, <2>1, Constants, Zenon DEF Wrapping, Asked, Called
<1>6. Prompt'
  BY <1>1, <1>4, <1>5, Zenon DEF Prompt
<1>7. left[t] = Off
  <2>1. LeftOf(t)
    BY <1>2, Zenon DEF Follows
  <2>2. CASE \E op \in Ops : Asked(op, t)
    <3>1. PICK op \in Ops : Asked(op, t)
      BY <2>2, Zenon
    <3>2. msg = <<op, t>> /\ <<op, t>> # NoMsg
      BY <1>2, <1>4, <3>1, Constants, Zenon DEF Asked
    <3>3. op = "delete"
      BY <1>2, <3>2
    <3> QED BY <2>1, <3>1, <3>3, Zenon DEF LeftOf, Restarted
  <2>3. CASE \A op \in Ops : ~Asked(op, t)
    BY <1>2, <1>5, <2>1, <2>3, Zenon DEF LeftOf
  <2> QED BY <2>2, <2>3, Zenon
<1>8. ASSUME NEW u \in Timers PROVE LeftOf(u)'
  <2>1. CASE u = t
    <3>1. status'[t] = "UNUSED" /\ left'[t] = Off
      BY <1>1, <1>2, <1>7, Zenon DEF Inv, Typed
    <3> QED BY <2>1, <3>1, Zenon DEF LeftOf
  <2>2. CASE u # t
    <3>1. status'[u] = status[u] /\ wake_time'[u] = wake_time[u]
      BY <1>1, <2>2, Zenon DEF Inv, Typed
    <3> QED BY <1>1, <1>5, <2>2, <3>1, SameLeft, Zenon DEF Follows
  <2> QED BY <2>1, <2>2, Zenon
<1> QED BY <1>6, <1>8, Zenon DEF Follows

(* A tick comes while the task waits, or looks at a list head: no command  *)
(* is in the queue and every timer of the first list is after the tick.    *)
LEMMA BeforeTick ==
  ASSUME Inv, Prompt, Follows, pc = "wait" \/ Spins
  PROVE  /\ ~Pending /\ msg = NoMsg /\ ~Wrapping
         /\ \A t \in Range(timers) : wake_time[t] > tick
         /\ pc = "wait" /\ timers # << >> => wait_time \in 1 .. LastTick - 1
<1>1. tick \in 0 .. LastTick /\ timers \in Seq(Timers)
  BY Zenon DEF Inv, Typed
<1>2. CASE pc = "wait"
  <2>1. ~Pending /\ msg = NoMsg /\ ~Wrapping
    BY <1>2, NotAsked, Zenon DEF Free
  <2>2. ASSUME timers # << >> PROVE wait_time \in 1 .. LastTick - 1
    <3>1. wait_time = wake_time[Head(timers)] - tick /\ wait_time # 0
      BY <1>2, <2>2, Zenon DEF Prompt, Inv, Queued
    <3>2. Head(timers) \in Range(timers)
      BY <1>1, <2>2, FirstTimer, Zenon
    <3>3. wake_time[Head(timers)] - tick \in 0 .. LastTick - 1
      BY <1>2, <3>2, NotBehind, Zenon DEF Called, Free
    <3> QED BY <3>1, <3>3, Constants
  <2>3. ASSUME NEW t \in Range(timers) PROVE wake_time[t] > tick
    <3>1. timers # << >> /\ Head(timers) \in Timers /\ t \in Timers
      BY <1>1, EmptyItems, FirstTimer, Zenon
    <3>2. Values(wake_time, Timers)
      BY Constants DEF Values, Inv, Typed
    <3>3. wake_time[Head(timers)] <= wake_time[t]
      BY <1>1, <3>1, <3>2, HeadTailProps, Zenon DEF Inv, Listed, InOrder
    <3>4. wait_time = wake_time[Head(timers)] - tick /\ wait_time \in 1 .. LastTick - 1
      BY <1>2, <2>2, <3>1, Zenon DEF Prompt
    <3>5. wake_time[t] \in Nat /\ wake_time[Head(timers)] \in Nat
      BY <3>1, <3>2, Zenon DEF Values
    <3> QED BY <1>1, <3>3, <3>4, <3>5, Constants
  <2> QED BY <2>1, <2>2, <2>3, Zenon
<1>3. CASE pc # "wait"
  <2>1. pc = "due" /\ wake_swtmr = ListHead /\ tick >= LastTick
    BY <1>3, Zenon DEF Spins, IsDue, WakeOfItem
  <2>2. timers = << >> /\ Range(timers) = {}
    BY <1>1, <2>1, FirstTimer, EmptyItems, Constants DEF Inv, Chosen
  <2>3. ~Wrapping
    BY <1>1, <2>1, Constants DEF Prompt
  <2>4. ~Pending /\ msg = NoMsg
    BY <2>1, <2>3, NotAsked, Zenon DEF Prompt, Wrapping, Free
  <2> QED BY <1>3, <2>2, <2>3, <2>4, Zenon
<1> QED BY <1>2, <1>3, Zenon

LEMMA OneLess ==
  ASSUME NEW n \in 1 .. LastTick - 1, NEW k \in 0 .. LastTick
  PROVE  /\ n - 1 \in 0 .. LastTick - 1 /\ n - 1 # Off
         /\ \A d \in Int : n = d - k => n - 1 = d - (k + 1)
         /\ \A d \in 0 .. LastTick : n = (d + TickMod) - LastTick => n - 1 = d - 0
BY Constants

LEMMA TickPrompt ==
  ASSUME Inv, Timely, Prompt, Follows, Tick
  PROVE  Prompt' /\ Follows'
<1>1. pc = "wait" \/ Spins
  BY Zenon DEF Tick, Timely
<1>2. /\ ~Pending /\ msg = NoMsg /\ ~Wrapping
      /\ \A t \in Range(timers) : wake_time[t] > tick
      /\ pc = "wait" /\ timers # << >> => wait_time \in 1 .. LastTick - 1
  BY <1>1, BeforeTick, Zenon
<1>3. /\ tick \in 0 .. LastTick /\ timers \in Seq(Timers) /\ Range(timers) \subseteq Timers
      /\ \A t \in Timers : wake_time[t] \in 0 .. LastTick
  BY EmptyItems, Zenon DEF Inv, Typed
<1>4. tick' = IF tick = LastTick THEN 0 ELSE tick + 1
  <2>1. CASE tick = LastTick
    <3>1. tick + 1 = TickMod /\ TickMod \in TickMod .. 2 * TickMod - 1
      BY <2>1, Constants
    <3> QED BY <2>1, <3>1, Constants, Remainder DEF Tick
  <2>2. CASE tick # LastTick
    <3>1. tick + 1 \in 0 .. TickMod - 1
      BY <1>3, <2>2, Constants
    <3> QED BY <2>2, <3>1, Constants, Remainder DEF Tick
  <2> QED BY <2>1, <2>2, Zenon
<1>5. /\ UNCHANGED <<status, wake_time, timers, overflow, wake_swtmr, msg, sending, usage>>
      /\ left' = [t \in Timers |-> IF left[t] \in 0 .. LastTick THEN left[t] - 1 ELSE left[t]]
  BY Zenon DEF Tick, lists
<1>6. pc \in {"wait", "due"} /\ \A t \in Timers : ~Called(t) /\ \A op \in Ops : ~Asked(op, t)
  BY <1>1, NotAsked, Zenon DEF Spins, Called, Free
(* Nothing is late: what was left was not 0.                               *)
<1>7. ASSUME NEW t \in Timers, left[t] # Off
      PROVE  /\ status[t] = "RUNNING" /\ left[t] = DueAt(t) - tick /\ left[t] \in 1 .. LastTick - 1
             /\ left'[t] = left[t] - 1
  <2>1. LeftOf(t)
    BY Zenon DEF Follows
  <2>2. status[t] = "RUNNING" /\ left[t] = DueAt(t) - tick /\ left[t] \in 0 .. LastTick - 1
    BY <1>6, <1>7, <2>1, Zenon DEF LeftOf
  <2>3. left[t] # 0
    <3>1. CASE t \in Range(timers)
      BY <1>2, <1>3, <2>2, <3>1, Constants DEF DueAt
    <3>2. CASE t \notin Range(timers)
      BY <1>2, <1>3, <2>2, <3>2, Constants DEF DueAt
    <3> QED BY <3>1, <3>2, Zenon
  <2> QED BY <1>5, <2>2, <2>3, Constants
<1>8. ASSUME NEW t \in Timers, left[t] = Off
      PROVE  left'[t] = Off /\ (status[t] # "UNUSED" => status[t] # "RUNNING")
  <2>1. left'[t] = Off
    BY <1>5, <1>8, Constants
  <2>2. LeftOf(t)
    BY Zenon DEF Follows
  <2> QED BY <1>6, <1>8, <2>1, <2>2, Zenon DEF LeftOf
<1>9. CASE tick # LastTick
  <2>1. tick' = tick + 1 /\ tick' # 0 /\ pc = "wait"
    BY <1>1, <1>3, <1>4, <1>9, Constants DEF Spins, IsDue, WakeOfItem
  <2>2. /\ UNCHANGED queue
        /\ pc' = IF wait_time = 1 THEN "expired" ELSE "wait"
        /\ wait_time' = IF wait_time # LastTick THEN wait_time - 1 ELSE wait_time
    BY <2>1, Zenon DEF Tick
  <2>7. Ring' /\ ~Pending' /\ \A m : InQueue(m)' <=> InQueue(m)
    BY <1>2, <1>5, <2>1, <2>2, QuietStep, Zenon DEF Prompt
  <2>3. ~Wrapping' /\ \A t \in Timers : ~Called(t)' /\ \A op \in Ops : ~Asked(op, t)'
    BY <1>2, <1>5, <1>6, <2>2, <2>7, Zenon DEF Wrapping, Called, Asked
  <2>4. wait_time' = IF timers' = << >> THEN LastTick ELSE wake_time'[Head(timers')] - tick'
    <3>1. CASE timers = << >>
      BY <1>5, <2>1, <2>2, <3>1, Zenon DEF Prompt
    <3>2. CASE timers # << >>
      <4>1. wait_time = wake_time[Head(timers)] - tick /\ wait_time \in 1 .. LastTick - 1
            /\ wake_time[Head(timers)] \in 0 .. LastTick
        BY <1>2, <1>3, <2>1, <3>2, FirstTimer, Zenon DEF Prompt
      <4> QED BY <1>3, <1>5, <2>1, <2>2, <3>2, <4>1, Constants, SMTT(20)
    <3> QED BY <3>1, <3>2, Zenon
  <2>5. Prompt'
    BY <2>2, <2>3, <2>4, <2>7, Zenon DEF Prompt
  <2>6. ASSUME NEW t \in Timers PROVE LeftOf(t)'
    <3>1. DueAt(t)' = DueAt(t)
      BY <1>2, <1>5, <2>3, Zenon DEF DueAt
    <3>2. CASE left[t] = Off
      BY <1>5, <1>8, <2>3, <3>2, Zenon DEF LeftOf
    <3>3. CASE left[t] # Off
      <4>1. DueAt(t) \in Int /\ left'[t] = DueAt(t) - (tick + 1) /\ left'[t] \in 0 .. LastTick - 1 /\ left'[t] # Off
        <5>1. DueAt(t) \in Int
          BY <1>3, Constants DEF DueAt
        <5>2. left[t] = DueAt(t) - tick /\ left[t] \in 1 .. LastTick - 1 /\ left'[t] = left[t] - 1
          BY <1>7, <3>3, Zenon
        <5> QED BY <1>3, <5>1, <5>2, OneLess, Zenon
      <4> QED BY <1>5, <1>7, <2>1, <2>3, <3>1, <3>3, <4>1, Zenon DEF LeftOf
    <3> QED BY <3>2, <3>3, Zenon
  <2> QED BY <2>5, <2>6, Zenon DEF Follows
<1>10. CASE tick = LastTick
  <2>1. tick' = 0
    BY <1>4, <1>10, Zenon
  <2>2. timers = << >> /\ Range(timers) = {}
    <3>1. \A t \in Range(timers) : FALSE
      BY <1>2, <1>3, <1>10, Constants
    <3> QED BY <1>3, <3>1, EmptyItems, Zenon
  <2>3. Write(OverflowMsg) /\ pc' = IF AfterWrite = "wait" /\ wait_time = 1 THEN "expired" ELSE AfterWrite
    BY <2>1, Zenon DEF Tick
  <2>8. AfterWrite # "wait"
    <3>1. pc = "wait" => rw_count.write = usage.size
      BY <1>2, Zenon DEF Prompt, Ring
    <3>2. usage.size # 0
      BY UseFacts, Zenon DEF Inv, Typed
    <3> QED BY <1>6, <3>1, <3>2, Zenon DEF AfterWrite, Listens, Awakened
  <2>4. /\ pc' = (IF pc = "wait" THEN "copy" ELSE "due") /\ Ring' /\ Pending'
        /\ \A k : InQueue(k)' <=> k = OverflowMsg
    <3>1. Write(OverflowMsg) /\ pc' = AfterWrite /\ UNCHANGED <<sending, usage>> /\ OverflowMsg \in Messages
      BY <1>5, <2>3, <2>8, Constants, Zenon
    <3>2. Typed /\ QueueTyped /\ Ring /\ ~Pending /\ pc \in {"wait", "due"}
      BY <1>2, <1>6, Zenon DEF Inv, Queued, Prompt
    <3> DEFINE m == OverflowMsg
    <3> HIDE DEF m
    <3>3. m \in Messages /\ Write(m)
      BY <3>1, Zenon DEF m
    <3>4. /\ pc' = (IF pc = "wait" THEN "copy" ELSE "due") /\ Ring' /\ Pending'
          /\ \A k : InQueue(k)' <=> k = m
      BY <3>1, <3>2, <3>3, WriteStep, Zenon
    <3> QED BY <3>4, Zenon DEF m
  <2>5. Wrapping' /\ \A t \in Timers : ~Called(t)' /\ \A op \in Ops : ~Asked(op, t)'
    <3>1. Wrapping' /\ \A t \in Timers : ~Called(t)'
      BY <2>4, Zenon DEF Wrapping, Called
    <3>2. \A op \in Ops, t \in Timers : ~Asked(op, t)'
      <4>1. msg' = NoMsg /\ \A k : InQueue(k)' => k = OverflowMsg
        BY <1>2, <1>5, <2>4, Zenon
      <4>2. \A op \in Ops, t \in Timers : <<op, t>> # NoMsg /\ <<op, t>> # OverflowMsg
        BY Constants, Zenon
      <4> QED BY <4>1, <4>2, Zenon DEF Asked
    <3> QED BY <3>1, <3>2, Zenon
  <2>6. Prompt'
    BY <1>5, <2>1, <2>2, <2>4, Zenon DEF Prompt
  <2>7. ASSUME NEW t \in Timers PROVE LeftOf(t)'
    <3>1. DueAt(t)' = wake_time[t] /\ DueAt(t) = wake_time[t] + TickMod
      BY <1>2, <1>5, <2>2, <2>5, Zenon DEF DueAt
    <3>2. CASE left[t] = Off
      BY <1>5, <1>8, <2>5, <3>2, Zenon DEF LeftOf
    <3>3. CASE left[t] # Off
      <4>1. left'[t] = wake_time[t] - 0 /\ left'[t] \in 0 .. LastTick - 1 /\ left'[t] # Off
        <5>1. left[t] = DueAt(t) - tick /\ left[t] \in 1 .. LastTick - 1 /\ left'[t] = left[t] - 1
          BY <1>7, <3>3, Zenon
        <5>2. left[t] = (wake_time[t] + TickMod) - LastTick
          BY <1>10, <3>1, <5>1, Zenon
        <5> QED BY <1>3, <5>1, <5>2, OneLess, Zenon
      <4> QED BY <1>5, <1>7, <2>1, <2>5, <3>1, <3>3, <4>1, Zenon DEF LeftOf
    <3> QED BY <3>2, <3>3, Zenon
  <2> QED BY <2>6, <2>7, Zenon DEF Follows
<1> QED BY <1>9, <1>10, Zenon

(* Commands and creations come while the task waits.                       *)
LEMMA AppPrompt ==
  ASSUME Inv, Timely, Prompt, Follows, NEW t \in Timers,
         Create(t) \/ \E op \in usage.ops : Command(op, t)
  PROVE  Prompt' /\ Follows'
<1>0. pc = "wait"
  BY Zenon DEF Create, Command, AppRuns, Timely
<1>1. pc = "wait" /\ ~Pending /\ msg = NoMsg /\ ~Wrapping
  BY <1>0, NotAsked, Zenon DEF Free
<1>2. \A u \in Timers : ~Called(u) /\ \A op \in Ops : ~Asked(op, u)
  BY <1>1, NotAsked, Zenon DEF Called, Free
<1>3. CASE Create(t)
  <2>1. /\ status' = [status EXCEPT ![t] = "CREATE"] /\ wake_time' = [wake_time EXCEPT ![t] = 0]
        /\ status[t] = "UNUSED"
        /\ UNCHANGED <<tick, timers, overflow, queue, pc, wake_swtmr, wait_time, msg, sending, left, usage>>
    BY <1>1, <1>3, Zenon DEF Create, locals
  <2>6. Ring' /\ (Pending' <=> Pending) /\ \A m : InQueue(m)' <=> InQueue(m)
    BY <1>1, <2>1, QuietStep, Zenon DEF Prompt
  <2>2. (Wrapping' <=> Wrapping) /\ \A u \in Timers : ~Called(u)' /\ \A op \in Ops : ~Asked(op, u)'
    BY <1>2, <2>1, <2>6, Zenon DEF Wrapping, Called, Asked
  <2>3. timers # << >> => wake_time'[Head(timers)] = wake_time[Head(timers)]
    <3> SUFFICES ASSUME timers # << >> PROVE wake_time'[Head(timers)] = wake_time[Head(timers)]
      BY Zenon
    <3>1. Head(timers) \in Timers /\ Head(timers) \in Range(timers)
      BY FirstTimer, Zenon DEF Inv, Typed
    <3>2. Head(timers) # t
      BY <2>1, <3>1, Zenon DEF Inv, Listed
    <3> QED BY <2>1, <3>1, <3>2, Zenon DEF Inv, Typed
  <2>4. Prompt'
    BY <2>1, <2>2, <2>3, <2>6, Zenon DEF Prompt
  <2>5. ASSUME NEW u \in Timers PROVE LeftOf(u)'
    <3>1. CASE u = t
      <4>1. status'[t] = "CREATE" /\ left'[t] = Off
        BY <2>1, Zenon DEF Inv, Typed, Follows, LeftOf
      <4> QED BY <2>2, <3>1, <4>1, Zenon DEF LeftOf
    <3>2. CASE u # t
      BY <1>2, <2>1, <2>2, <3>2, SameLeft, Zenon DEF Follows, Inv, Typed
    <3> QED BY <3>1, <3>2, Zenon
  <2> QED BY <2>4, <2>5, Zenon DEF Follows
<1>4. CASE \E op \in usage.ops : Command(op, t)
  <2>1. PICK op \in usage.ops : Command(op, t)
    BY <1>4, Zenon
  <2>2. op \in Ops /\ <<op, t>> \in Messages
    BY UseFacts, Constants, Zenon DEF Inv, Typed
  <2>9. Write(<<op, t>>) /\ pc' = AfterWrite /\ UNCHANGED <<sending, usage>>
    BY <2>1, Zenon DEF Command
  <2>10. /\ pc' = "copy" /\ Ring' /\ Pending' /\ rw_count.write # 0
         /\ \A k : InQueue(k)' <=> k = <<op, t>>
    BY <1>1, <2>2, <2>9, WriteStep, Zenon DEF Inv, Queued, Prompt
  <2>3. pc' = "copy" /\ UNCHANGED <<tick, status, wake_time, timers, overflow, msg, usage>>
    BY <2>1, <2>10, Zenon DEF Command, lists, locals
  <2>4. left' = IF status[t] = "UNUSED" THEN left
                ELSE [left EXCEPT ![t] = IF op = "start" THEN usage.timeout[t] ELSE Off]
    BY <2>1, <2>10, Zenon DEF Command
  <2>5. ~Wrapping' /\ Asked(op, t)' /\ \A u \in Timers : ~Called(u)'
    BY <1>1, <2>2, <2>3, <2>10, Constants, Zenon DEF Wrapping, Asked, Called
  <2>6. \A k \in Ops, u \in Timers : Asked(k, u)' => k = op /\ u = t
    BY <1>1, <2>3, <2>10, Constants, Zenon DEF Asked
  <2>7. Prompt'
    BY <2>3, <2>5, <2>10, Zenon DEF Prompt
  <2>8. ASSUME NEW u \in Timers PROVE LeftOf(u)'
    <3>1. CASE u = t /\ status[t] = "UNUSED"
      BY <2>3, <2>4, <3>1, Zenon DEF Follows, LeftOf
    <3>2. CASE u = t /\ status[t] # "UNUSED"
      <4>1. left'[t] = (IF op = "start" THEN usage.timeout[t] ELSE Off)
        BY <2>4, <3>2, Zenon DEF Inv, Typed
      <4>2. usage.timeout[t] \in 0 .. LastTick - 1
        BY UseFacts, Zenon DEF Inv, Typed
      <4>3. \A k \in Ops : Asked(k, t)' => Restarted(t, k = "start")'
        BY <2>3, <2>6, <4>1, Zenon DEF Restarted
      <4> QED BY <2>2, <2>3, <2>5, <3>2, <4>1, <4>2, <4>3, Zenon DEF LeftOf
    <3>3. CASE u # t
      <4>1. left'[u] = left[u] /\ \A k \in Ops : ~Asked(k, u)'
        BY <2>4, <2>6, <3>3, Zenon DEF Inv, Typed
      <4> QED BY <1>1, <1>2, <2>3, <2>5, <4>1, SameLeft, Zenon DEF Follows
    <3> QED BY <3>1, <3>2, <3>3, Zenon
  <2> QED BY <2>7, <2>8, Zenon DEF Follows
<1> QED BY <1>3, <1>4, Zenon

LEMMA NextPrompt == Inv /\ PromptInv /\ [Next]_vars => PromptInv'
<1> SUFFICES ASSUME Inv, PromptInv, [Next]_vars, Timely PROVE Prompt' /\ Follows'
  <2>1. [Next]_vars => usage' = usage
    BY Zenon DEF Next, Choose, Read, ReadCopy, ReadLoad, ReadStore, ReadExpired, Fire, Rearm, NoneDue, Clear,
         Handle, HandleDelete, Tick, Create, Command, Send, Sends, SendCopy, SendCheck, SendWake, SendLoad,
         SendStore, vars
  <2> QED BY <2>1, Zenon DEF PromptInv, Timely
<1>1. Prompt /\ Follows
  BY Zenon DEF PromptInv
<1>2. CASE UNCHANGED vars
  <2>1. /\ UNCHANGED <<rw_count, rw_ptr, buf, at, usage, pc, msg, loaded>>
        /\ UNCHANGED <<tick, status, wake_time, timers, wake_swtmr, wait_time, left>>
    BY <1>2, Zenon DEF vars, lists, queue, locals, sending
  <2>2. (Pending' <=> Pending) /\ \A m : InQueue(m)' <=> InQueue(m)
    BY <2>1, Zenon DEF Pending, InQueue
  <2>3. (Wrapping' <=> Wrapping) /\ \A op \in Ops, t \in Timers : Asked(op, t)' <=> Asked(op, t)
    BY <2>1, <2>2, Zenon DEF Wrapping, Asked
  <2>4. Ring'
    BY <1>1, <2>1, <2>2, Zenon DEF Prompt, Ring, NextPlace
  <2>5. Prompt'
    BY <1>1, <2>1, <2>2, <2>3, <2>4, Zenon DEF Prompt
  <2> QED BY <1>1, <2>1, <2>3, <2>5, SameLeft, Zenon DEF Follows, Called
<1>3. ASSUME NEW s \in Senders PROVE ~Sends(s) /\ \A op, t : ~Send(s, op, t)
  <2>1. at[s] = "app" /\ usage.senders = {}
    BY <1>1, Zenon DEF Prompt, Ring
  <2> QED BY <2>1, Zenon DEF Sends, SendCopy, SendCheck, SendWake, SendLoad, SendStore, Send
<1> QED
  BY <1>1, <1>2, <1>3, ChoosePrompt, ReadPrompt, FirePrompt, RearmPrompt, ClearPrompt, HandlePrompt,
     DeletePrompt, TickPrompt, AppPrompt, Zenon DEF Next

(* Where the timer task is prompt and commands are sent with interrupts    *)
(* disabled no callback that is wanted is left out, for any timers,        *)
(* timeouts, size of the queue and range of the tick ...                   *)
THEOREM NoneLate == Spec => []NeverLate
<1>1. Inv /\ PromptInv => NeverLate
  BY Constants DEF PromptInv, Follows, LeftOf, NeverLate
<1> QED BY <1>1, InitInv, NextInv, NextPrompt, PTL DEF Spec

(* ... and every callback comes exactly when it is wanted: timeout ticks   *)
(* after the start or the callback before it, also across the wrap of the  *)
(* tick and the exchange of the lists, and none after a stop or a delete.  *)
THEOREM CallsOnTime == Spec => OnTime
<1> DEFINE A == (Timely /\ pc = "due" /\ pc' = "rearm") => left[wake_swtmr] = 0
<1>1. Inv /\ PromptInv /\ [Next]_vars => [A]_vars
  <2> SUFFICES ASSUME Inv, PromptInv, Next, Timely, pc = "due", pc' = "rearm"
               PROVE  left[wake_swtmr] = 0
    BY Zenon
  <2>1. ~Tick
    BY AfterFacts, Zenon DEF Tick, Inv, Queued
  <2>2. \A t \in Timers : ~Create(t) /\ \A op : ~Command(op, t) /\ \A s : ~Send(s, op, t)
    BY Zenon DEF Create, Command, Send, AppRuns, Timely
  <2>3. \A s \in Senders : ~Sends(s)
    BY Zenon DEF Sends, SendCopy, SendCheck, SendWake, SendLoad, SendStore, AppRuns, Timely
  <2>4. Fire
    BY <2>1, <2>2, <2>3, Zenon DEF Next, Choose, Read, ReadCopy, ReadLoad, ReadStore, ReadExpired, Rearm,
         NoneDue, Clear, Handle, HandleDelete
  <2> QED BY <2>4, FireOnTime, Zenon DEF PromptInv
<1> QED BY <1>1, InitInv, NextInv, NextPrompt, PTL DEF Spec, OnTime

=============================================================================
