------------------------------- MODULE Swtmr --------------------------------
(***************************************************************************)
(* The software timers of swtmr.c: the timer task with its command queue,  *)
(* the list of timers due before the tick counter wraps and the list of    *)
(* those due after it, which change places when the tick handler's         *)
(* overflow message is handled.  0xFFFFFFFF, the largest tick, is also     *)
(* the wake time of a list head and DOS_WAIT_FOREVER.  A command that is   *)
(* sent with interrupts enabled is taken apart into the steps of           *)
(* _dos_queue_handler, and so is the read of the timer task; one from an   *)
(* interrupt, or with interrupts disabled, is one step.  left follows what *)
(* the commands asked for and is not state of the program.  usage says how *)
(* the timers are used; it is chosen once.                                 *)
(***************************************************************************)
EXTENDS Integers, FiniteSets, TaskList

CONSTANTS Timers, ListHead, TickMod, CountMod, Senders, Usages

LastTick == TickMod - 1
Off == TickMod

UsageType ==
  [timeout : [Timers -> 1 .. LastTick - 1],   \* swtmr_timeout of each timer
   period : SUBSET Timers,               \* those of dos_swtmr_mode_period
   ops : SUBSET {"start", "stop", "delete"},
   size : Nat \ {0},                     \* DOS_SWTMR_QUEUE_SIZE
   senders : SUBSET Senders,   \* the tasks that send with interrupts enabled
   prompt : BOOLEAN]  \* the timer task alone has priority 0 (dos_config.h)
                      \* and interrupts send no commands: nobody runs and no
                      \* tick passes before it waits again

ASSUME SwtmrAssumption ==
  /\ TickMod \in Nat /\ TickMod > 2
  /\ ListHead \notin Timers /\ Usages \subseteq UsageType
  /\ CountMod \in Nat /\ \A u \in Usages : CountMod > u.size

VARIABLES
  tick,          \* dos_tick_count
  status,        \* swtmr_status; "UNUSED" also for a freed timer
  wake_time,     \* swtmr_wake_time
  timers,        \* _dos_swtmr_ptr, as the timers behind the list head
  overflow,      \* _dos_swtmr_overflow_ptr, likewise
  rw_count, rw_ptr, buf,   \* the command queue, as in Queue
  pc,            \* where the timer task is
  wake_swtmr,    \* its local variable: a timer or the list head
  wait_time,     \* the timeout of dos_queue_read, later what is left of it
  msg,           \* the command it has read
  loaded,        \* the register of its increment of queue_rw_count
  at, job, reg,  \* of each sender: where it is, its message, its register
  fault,         \* dos_task_wake got DOS_NULL
  left,          \* ticks until the callback is wanted (-1: it is late), or Off; only
                 \* followed where usage is Timely
  usage

lists == <<status, wake_time, timers, overflow>>
queue == <<rw_count, rw_ptr, buf>>
locals == <<wake_swtmr, wait_time, msg, loaded>>
sending == <<at, job, reg, fault>>
vars == <<tick, lists, queue, pc, locals, sending, left, usage>>

(* NoMsg is also what the places of a new queue hold: all zero.            *)
NoMsg == <<"none", ListHead>>
OverflowMsg == <<"overflow", ListHead>>
Messages == {NoMsg, OverflowMsg} \cup ({"start", "stop", "delete"} \X Timers)

Counts == 0 .. CountMod - 1

(* The timer task is prompt and commands are sent with interrupts disabled *)
(* (else a tick that wraps inside dos_queue_write puts its message behind  *)
(* the command, which is then handled before the lists are exchanged).     *)
Timely == usage.prompt /\ usage.senders = {}

(* dos_swtmr_init, before the tasks run.                                   *)
Init ==
  /\ usage \in Usages
  /\ tick = 0
  /\ status = [t \in Timers |-> "UNUSED"] /\ wake_time = [t \in Timers |-> 0]
  /\ timers = << >> /\ overflow = << >>
  /\ rw_count = [read |-> 0, write |-> usage.size] /\ rw_ptr = [read |-> 0, write |-> 0]
  /\ buf = [i \in 0 .. usage.size - 1 |-> NoMsg]
  /\ pc = "head" /\ wake_swtmr = ListHead /\ wait_time = 0 /\ msg = NoMsg /\ loaded = 0
  /\ at = [s \in Senders |-> "app"] /\ job = [s \in Senders |-> NoMsg]
  /\ reg = [s \in Senders |-> 0] /\ fault = FALSE
  /\ left = [t \in Timers |-> Off]

-----------------------------------------------------------------------------
(* The tests and values of swtmr.c, each after the faults that are tried   *)
(* in its place.                                                           *)
WakeOf(t) == (tick + usage.timeout[t]) % TickMod

NeverOverflows(w) == FALSE
Overflows(w) == w < tick

WakeOfItem(t) == IF t = ListHead THEN LastTick ELSE wake_time[t]

IsDue(t) == tick >= WakeOfItem(t)

NeverRuns(t) == FALSE
IsRunning(t) == status[t] = "RUNNING"

Forgotten(s, t) == s
Without(s, t) == DeleteItem(s, t)

NextPlace(i) == (i + 1) % usage.size
Increment(n) == (n + 1) % CountMod

(* The timer task is on the pend list: it waits, or its wait has expired.  *)
(* dos_task_wake makes it read a message, in the second case give up.      *)
Listens == pc \in {"wait", "expired"}
Awakened == IF pc = "wait" THEN "copy" ELSE "due"

Store(m) ==
  /\ buf' = [buf EXCEPT ![rw_ptr.write] = m]
  /\ rw_ptr' = [rw_ptr EXCEPT !.write = NextPlace(@)]

(* dos_queue_write with timeout 0 as one step: a full queue refuses the    *)
(* message; one that wakes the timer task is not counted.                  *)
Write(m) ==
  IF rw_count.write = 0 THEN UNCHANGED queue
  ELSE /\ Store(m)
       /\ rw_count' = [rw_count EXCEPT !.write = @ - 1,
                                       !.read = IF Listens THEN @ ELSE Increment(@)]
AfterWrite == IF rw_count.write # 0 /\ Listens THEN Awakened ELSE pc

(* _dos_swtmr_stop, from whichever list the timer is on.                   *)
StopLists(t) == /\ timers' = Without(timers, t)
                /\ overflow' = Without(overflow, t)

(* _dos_swtmr_start of a timer that is on no list: p and o are the lists.  *)
StartIn(t, p, o) ==
  LET wake == [wake_time EXCEPT ![t] = WakeOf(t)]
  IN  /\ wake_time' = wake
      /\ IF Overflows(wake[t])
         THEN timers' = p /\ overflow' = InsertItem(o, wake, t)
         ELSE timers' = InsertItem(p, wake, t) /\ overflow' = o
      /\ status' = [status EXCEPT ![t] = "RUNNING"]

(* _dos_swtmr_delete up to dos_mem_free.                                   *)
FreeTimer(t) ==
  /\ IF IsRunning(t) THEN StopLists(t) /\ status' = [status EXCEPT ![t] = "STOP"]
     ELSE UNCHANGED <<timers, overflow, status>>
  /\ UNCHANGED wake_time

-----------------------------------------------------------------------------
(* _dos_swtmr_task: the choice of the timer and the time to wait ...       *)
Choose ==
  /\ pc = "head"
  /\ wake_swtmr' = FirstItem(timers, ListHead)
  /\ wait_time' = IF timers = << >> THEN LastTick
                  ELSE (wake_time[Head(timers)] - tick) % TickMod
  /\ pc' = "read"
  /\ UNCHANGED <<tick, lists, queue, msg, loaded, sending, left, usage>>

(* ... dos_queue_read, which takes a message, returns at once or waits ... *)
Read ==
  /\ pc = "read"
  /\ IF rw_count.read > 0
     THEN rw_count' = [rw_count EXCEPT !.read = @ - 1] /\ pc' = "copy"
     ELSE pc' = (IF wait_time = 0 THEN "due" ELSE "wait") /\ UNCHANGED rw_count
  /\ UNCHANGED <<tick, lists, rw_ptr, buf, locals, sending, left, usage>>

(* ... its copy, of the message taken or of the one that woke the task,    *)
(* and the increment with interrupts enabled (no writer ever waits) ...    *)
ReadCopy ==
  /\ pc = "copy"
  /\ msg' = buf[rw_ptr.read] /\ rw_ptr' = [rw_ptr EXCEPT !.read = NextPlace(@)]
  /\ pc' = "load"
  /\ UNCHANGED <<tick, lists, rw_count, buf, wake_swtmr, wait_time, loaded, sending, left, usage>>

ReadLoad ==
  /\ pc = "load"
  /\ loaded' = rw_count.write
  /\ pc' = "store"
  /\ UNCHANGED <<tick, lists, queue, wake_swtmr, wait_time, msg, sending, left, usage>>

ReadStore ==
  /\ pc = "store"
  /\ rw_count' = [rw_count EXCEPT !.write = Increment(loaded)] /\ loaded' = 0
  /\ pc' = "cmd"
  /\ UNCHANGED <<tick, lists, rw_ptr, buf, wake_swtmr, wait_time, msg, sending, left, usage>>

(* ... its end when the wait has expired ...                               *)
ReadExpired ==
  /\ pc = "expired"
  /\ pc' = "due"
  /\ UNCHANGED <<tick, lists, queue, locals, sending, left, usage>>

(* ... _dos_swtmr_timeout_handle for each timer that is due: the callback  *)
(* (a list head has none and is looked at again) ...                       *)
Fire ==
  /\ pc = "due" /\ IsDue(wake_swtmr) /\ wake_swtmr # ListHead
  /\ pc' = "rearm"
  /\ left' = [left EXCEPT ![wake_swtmr] =
                IF Timely /\ wake_swtmr \in usage.period THEN usage.timeout[wake_swtmr] ELSE Off]
  /\ UNCHANGED <<tick, lists, queue, locals, sending, usage>>

(* ... the stop and the restart, and the next timer, or the deletion ...   *)
Rearm ==
  /\ pc = "rearm"
  /\ IF wake_swtmr \in usage.period
     THEN /\ StartIn(wake_swtmr, Without(timers, wake_swtmr), Without(overflow, wake_swtmr))
          /\ wake_swtmr' = FirstItem(timers', ListHead)
          /\ pc' = "due"
     ELSE FreeTimer(wake_swtmr) /\ pc' = "clear" /\ UNCHANGED wake_swtmr
  /\ UNCHANGED <<tick, queue, wait_time, msg, loaded, sending, left, usage>>

NoneDue ==
  /\ pc = "due" /\ ~IsDue(wake_swtmr)
  /\ pc' = "head" /\ wait_time' = 0
  /\ UNCHANGED <<tick, lists, queue, wake_swtmr, msg, loaded, sending, left, usage>>

(* ... which clears the timer that it has freed ...                        *)
Deleted == IF msg = NoMsg THEN wake_swtmr ELSE msg[2]

Clear ==
  /\ pc = "clear"
  /\ status' = [status EXCEPT ![Deleted] = "UNUSED"] /\ wake_time' = [wake_time EXCEPT ![Deleted] = 0]
  /\ IF msg = NoMsg
     THEN wake_swtmr' = FirstItem(timers, ListHead) /\ pc' = "due" /\ UNCHANGED wait_time
     ELSE wake_swtmr' = ListHead /\ pc' = "head" /\ wait_time' = 0
  /\ msg' = NoMsg
  /\ UNCHANGED <<tick, timers, overflow, queue, loaded, sending, left, usage>>

(* ... and _dos_swtmr_cmd_handle.  The overflow message has no timer: the  *)
(* status read through its null pointer is the odd low half of a vector    *)
(* table entry, hence not UNUSED; a message of zeros is no command.        *)
Handle ==
  /\ pc = "cmd" /\ (msg[1] = "delete" => status[msg[2]] = "UNUSED")
  /\ LET t == msg[2]
     IN  \/ msg = NoMsg /\ UNCHANGED lists
         \/ /\ msg = OverflowMsg
            /\ timers' = overflow /\ overflow' = timers
            /\ UNCHANGED <<status, wake_time>>
         \/ /\ msg \notin {NoMsg, OverflowMsg} /\ status[t] = "UNUSED"
            /\ UNCHANGED lists
         \/ /\ msg[1] = "start" /\ status[t] # "UNUSED"
            /\ StartIn(t, Without(timers, t), Without(overflow, t))
         \/ /\ msg[1] = "stop" /\ status[t] # "UNUSED"
            /\ IF IsRunning(t)
               THEN StopLists(t) /\ status' = [status EXCEPT ![t] = "STOP"]
               ELSE UNCHANGED <<timers, overflow, status>>
            /\ UNCHANGED wake_time
  /\ msg' = NoMsg /\ wake_swtmr' = ListHead /\ wait_time' = 0   \* no longer used
  /\ pc' = "head"
  /\ UNCHANGED <<tick, queue, loaded, sending, left, usage>>

HandleDelete ==
  /\ pc = "cmd" /\ msg[1] = "delete" /\ status[msg[2]] # "UNUSED"
  /\ FreeTimer(msg[2])
  /\ pc' = "clear"
  /\ UNCHANGED <<tick, queue, locals, sending, left, usage>>

(* The task looks at the list head again and again at the last tick.       *)
Spins == pc = "due" /\ wake_swtmr = ListHead /\ IsDue(ListHead)

(* dos_tick_update: the overflow message, then the end of the wait.        *)
Tick ==
  /\ usage.prompt => pc = "wait" \/ Spins
  /\ tick' = (tick + 1) % TickMod
  /\ IF tick' = 0 THEN Write(OverflowMsg) ELSE UNCHANGED queue
  /\ LET p == IF tick' = 0 THEN AfterWrite ELSE pc
     IN  /\ pc' = IF p = "wait" /\ wait_time = 1 THEN "expired" ELSE p
         /\ wait_time' = IF p = "wait" /\ wait_time # LastTick THEN wait_time - 1 ELSE wait_time
  /\ left' = [t \in Timers |-> IF left[t] \in 0 .. LastTick THEN left[t] - 1 ELSE left[t]]
  /\ UNCHANGED <<lists, wake_swtmr, msg, loaded, sending, usage>>

AppRuns == usage.prompt => pc = "wait"

(* dos_swtmr_create, in a block that may be one that is not yet cleared.   *)
Create(t) ==
  /\ AppRuns /\ (status[t] = "UNUSED" \/ (pc = "clear" /\ t = Deleted))
  /\ status' = [status EXCEPT ![t] = "CREATE"] /\ wake_time' = [wake_time EXCEPT ![t] = 0]
  /\ UNCHANGED <<tick, timers, overflow, queue, pc, locals, sending, left, usage>>

(* dos_swtmr_start, dos_swtmr_stop and dos_swtmr_delete in an interrupt or *)
(* with interrupts disabled ...                                            *)
Command(op, t) ==
  /\ AppRuns
  /\ Write(<<op, t>>)
  /\ pc' = AfterWrite
  /\ left' = IF ~Timely \/ rw_count.write = 0 \/ status[t] = "UNUSED" THEN left
             ELSE [left EXCEPT ![t] = IF op = "start" THEN usage.timeout[t] ELSE Off]
  /\ UNCHANGED <<tick, lists, locals, sending, usage>>

(* ... and in a task with interrupts enabled: a place is taken ...         *)
Send(s, op, t) ==
  /\ AppRuns /\ s \in usage.senders /\ at[s] = "app" /\ rw_count.write # 0
  /\ rw_count' = [rw_count EXCEPT !.write = @ - 1]
  /\ job' = [job EXCEPT ![s] = <<op, t>>]
  /\ at' = [at EXCEPT ![s] = "copy"]
  /\ UNCHANGED <<tick, lists, rw_ptr, buf, pc, locals, reg, fault, left, usage>>

(* ... the message is copied ...                                           *)
SendCopy(s) ==
  /\ AppRuns /\ at[s] = "copy"
  /\ Store(job[s])
  /\ job' = [job EXCEPT ![s] = NoMsg]
  /\ at' = [at EXCEPT ![s] = "check"]
  /\ UNCHANGED <<tick, lists, rw_count, pc, locals, reg, fault, left, usage>>

(* ... and the timer task is woken, if it is still there, or the message   *)
(* is counted.                                                             *)
SendCheck(s) ==
  /\ AppRuns /\ at[s] = "check"
  /\ at' = [at EXCEPT ![s] = IF Listens THEN "wake" ELSE "load"]
  /\ UNCHANGED <<tick, lists, queue, pc, locals, job, reg, fault, left, usage>>

SendWake(s) ==
  /\ AppRuns /\ at[s] = "wake"
  /\ IF Listens THEN pc' = Awakened /\ UNCHANGED fault
     ELSE fault' = TRUE /\ UNCHANGED pc
  /\ at' = [at EXCEPT ![s] = "app"]
  /\ UNCHANGED <<tick, lists, queue, locals, job, reg, left, usage>>

SendLoad(s) ==
  /\ AppRuns /\ at[s] = "load"
  /\ reg' = [reg EXCEPT ![s] = rw_count.read]
  /\ at' = [at EXCEPT ![s] = "store"]
  /\ UNCHANGED <<tick, lists, queue, pc, locals, job, fault, left, usage>>

SendStore(s) ==
  /\ AppRuns /\ at[s] = "store"
  /\ rw_count' = [rw_count EXCEPT !.read = Increment(reg[s])] /\ reg' = [reg EXCEPT ![s] = 0]
  /\ at' = [at EXCEPT ![s] = "app"]
  /\ UNCHANGED <<tick, lists, rw_ptr, buf, pc, locals, job, fault, left, usage>>

Sends(s) == SendCopy(s) \/ SendCheck(s) \/ SendWake(s) \/ SendLoad(s) \/ SendStore(s)

(* What follows a dos_task_wake of DOS_NULL is undefined.                  *)
Next ==
  /\ ~fault
  /\ \/ Choose \/ Read \/ ReadCopy \/ ReadLoad \/ ReadStore \/ ReadExpired
     \/ Fire \/ Rearm \/ NoneDue \/ Clear \/ Handle \/ HandleDelete
     \/ Tick
     \/ \E t \in Timers : \/ Create(t)
                          \/ \E op \in usage.ops : Command(op, t) \/ \E s \in Senders : Send(s, op, t)
     \/ \E s \in Senders : Sends(s)

Spec == Init /\ [][Next]_vars

-----------------------------------------------------------------------------
(* Every variable holds a value of its type.                               *)
TypeOK ==
  /\ tick \in 0 .. LastTick
  /\ status \in [Timers -> {"UNUSED", "CREATE", "RUNNING", "STOP"}]
  /\ wake_time \in [Timers -> 0 .. LastTick]
  /\ Range(timers) \cup Range(overflow) \subseteq Timers
  /\ rw_count \in [read : Counts, write : Counts]
  /\ rw_ptr \in [read : DOMAIN buf, write : DOMAIN buf]
  /\ buf \in [0 .. usage.size - 1 -> Messages]
  /\ pc \in {"head", "read", "wait", "copy", "load", "store", "expired", "due", "rearm", "clear", "cmd"}
  /\ wake_swtmr \in Timers \cup {ListHead} /\ wait_time \in 0 .. LastTick
  /\ msg \in Messages /\ loaded \in Counts
  /\ at \in [Senders -> {"app", "copy", "check", "wake", "load", "store"}]
  /\ job \in [Senders -> Messages] /\ reg \in [Senders -> Counts] /\ fault \in BOOLEAN
  /\ left \in [Timers -> -1 .. Off] /\ usage \in Usages

(* The running timers, and only they, are on one of the two lists, once    *)
(* and in order, whatever becomes of the messages; a timer the task waits  *)
(* for is still the first of its list (it is used after the wait).         *)
ListsRight ==
  /\ TypeOK
  /\ IsInjective(timers \o overflow)
  /\ Range(timers \o overflow) = {t \in Timers : status[t] = "RUNNING"}
  /\ Sorted(timers, wake_time) /\ Sorted(overflow, wake_time)
  /\ pc \in {"read", "wait", "expired", "due", "rearm"} =>
       wake_swtmr = FirstItem(timers, ListHead)

(* Where usage is Timely, every callback comes exactly timeout ticks after *)
(* the start or the callback before it, also across the wrap of the tick,  *)
(* and none after a stop or a deletion ...                                 *)
OnTime ==
  [][(Timely /\ pc = "due" /\ pc' = "rearm") => left[wake_swtmr] = 0]_vars

(* ... and no callback that is wanted is left out.                         *)
NeverLate == Timely => \A t \in Timers : left[t] # -1

=============================================================================
