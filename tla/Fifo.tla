-------------------------------- MODULE Fifo --------------------------------
(***************************************************************************)
(* The byte ring of fifo.c: indices that run freely over 32 bits, one      *)
(* mutex for the readers and one for the writers, each side reading the    *)
(* other side's index without its mutex.  Every step between two shared    *)
(* accesses is an action.  Of the mutexes of mutex.c it keeps the owner,   *)
(* the count and who waits: priorities do not matter here.                 *)
(*                                                                         *)
(* DOS_MIN names its second argument twice.  The indices are not volatile, *)
(* so a build may read them once or twice: the parameter once says which.  *)
(***************************************************************************)
EXTENDS Integers, FiniteSets, SequencesExt

CONSTANTS
  Tasks,     \* every task that calls the FIFO
  NoTask,
  Junk,      \* a byte of memory nobody has written
  IdxMod     \* 2^32, where in and out wrap

ASSUME FifoAssumption ==
  NoTask \notin Tasks /\ IdxMod \in Nat \ {0}

VARIABLES
  size, in, out, buffer,
  mutex,     \* mutex_owner and mutex_count of each of the two mutexes
  pc,        \* where each task is
  len,       \* its argument, then the length it copies
  copied     \* the bytes a reader has copied to its own memory

fifo == <<size, in, out, buffer, mutex>>
locals == <<pc, len, copied>>
fifoVars == <<fifo, locals>>

(* _dos_find_last_bit_set halves the field it looks at, from half of the   *)
(* width down to one bit: a size has 16 bits here, and 32 in the code.     *)
Width == 16
HalvesShort == <<8, 4, 2>>
Halves == <<8, 4, 2, 1>>

ShiftUp(f, s) ==
  IF f.x < 2 ^ (Width - s) THEN [x |-> f.x * 2 ^ s, r |-> f.r - s] ELSE f

LastBitSet(x) ==
  IF x = 0 THEN 0 ELSE FoldLeft(ShiftUp, [x |-> x, r |-> Width], Halves).r

IsPower(x) == \E k \in 0 .. Width - 1 : x = 2 ^ k

(* _dos_fifo_align and the size dos_fifo_create gives the FIFO.            *)
Align(x) == 2 ^ (LastBitSet(x - 1) - 1)
FifoSize(x) == IF IsPower(x) THEN x ELSE Align(x)

Unlocked == [owner |-> NoTask, count |-> 0]

FifoInit(request) ==
  /\ size = FifoSize(request)
  /\ in = 0 /\ out = 0
  /\ buffer = [i \in 0 .. size - 1 |-> Junk]
  /\ mutex = [k \in {"read", "write"} |-> Unlocked]
  /\ pc = [t \in Tasks |-> "app"]
  /\ len = [t \in Tasks |-> 0]
  /\ copied = [t \in Tasks |-> << >>]

At(t, p) == pc[t] = p
Goto(t, p) == pc' = [pc EXCEPT ![t] = p]
Less(a, b) == IF a < b THEN a ELSE b

(* The lengths dos_fifo_write and dos_fifo_read settle on, each after a    *)
(* fault that is tried in its place.                                       *)
SpaceOfRing == size - (in % size) + (out % size)
Space == (size - in + out) % IdxMod
FilledOfRing == (in - out) % size
Filled == (in - out) % IdxMod

(* dos_mutex_pend returns DOS_OK at once when the mutex is free or the     *)
(* caller's.                                                               *)
Available(t, k) == mutex[k].owner \in {NoTask, t}

Pend(t, k) ==
  /\ Available(t, k)
  /\ mutex' = [mutex EXCEPT ![k] = [owner |-> t, count |-> @.count + 1]]

(* dos_mutex_post: the last release hands the mutex to a task on the pend  *)
(* list, where one that has timed out still is ("late").  Only writers     *)
(* wait: the readers pass a timeout of zero.                               *)
Waiters(k) == {u \in Tasks : k = "write" /\ pc[u] \in {"wait", "late"}}

Released(k) ==
  IF mutex[k].count > 1 THEN {[mutex[k] EXCEPT !.count = @ - 1]}
  ELSE IF Waiters(k) = {} THEN {Unlocked}
  ELSE {[owner |-> u, count |-> 1] : u \in Waiters(k)}

Post(k) == {[mutex EXCEPT ![k] = m] : m \in Released(k)}

(* dos_fifo_write: the pend, which blocks if it has to ...                 *)
StartWrite(t) ==
  /\ At(t, "write")
  /\ \/ Pend(t, "write") /\ Goto(t, "space")
     \/ ~Available(t, "write") /\ Goto(t, "wait") /\ UNCHANGED mutex
  /\ UNCHANGED <<size, in, out, buffer, len, copied>>

(* ... and returns DOS_OK to a task that was handed the mutex ...          *)
Pended(t) ==
  /\ At(t, "wait") /\ mutex["write"].owner = t
  /\ Goto(t, "space")
  /\ UNCHANGED <<fifo, len, copied>>

(* ... or, after the timeout, DOS_NOK, be it the owner by now or not.      *)
Expire(t) ==
  /\ At(t, "wait") /\ mutex["write"].owner # t
  /\ Goto(t, "late")
  /\ UNCHANGED <<fifo, len, copied>>

GiveUp(t) ==
  /\ At(t, "late")
  /\ Goto(t, "app")
  /\ len' = [len EXCEPT ![t] = 0]
  /\ UNCHANGED <<fifo, copied>>

(* The length is the smaller one of len and most ...                       *)
Measure(t, most, again, next, once) ==
  /\ \/ len[t] < most /\ Goto(t, next) /\ UNCHANGED len
     \/ len[t] >= most /\ once /\ Goto(t, next) /\ len' = [len EXCEPT ![t] = most]
     \/ len[t] >= most /\ ~once /\ Goto(t, again) /\ UNCHANGED len
  /\ UNCHANGED <<fifo, copied>>

(* ... or what most is when it is read again.                              *)
MeasureAgain(t, most, next) ==
  /\ len' = [len EXCEPT ![t] = most]
  /\ Goto(t, next)
  /\ UNCHANGED <<fifo, copied>>

MeasureSpace(t, once) == At(t, "space") /\ Measure(t, Space, "space2", "fill", once)
SpaceAgain(t) == At(t, "space2") /\ MeasureAgain(t, Space, "fill")

(* The two copies from the memory from, up to the end of the buffer and    *)
(* from its start ...                                                      *)
Slots(first, n) == {(first + i) % size : i \in 0 .. n - 1}

(* What lies behind the caller's memory is not its.                        *)
ByteOf(from, i) == IF i \in DOMAIN from THEN from[i] ELSE Junk

Fill(t, from) ==
  /\ At(t, "fill")
  /\ buffer' = [s \in DOMAIN buffer |->
                  IF s \in Slots(in, len[t]) THEN ByteOf(from, 1 + ((s - in) % size)) ELSE buffer[s]]
  /\ Goto(t, "filled")
  /\ UNCHANGED <<size, in, out, mutex, len, copied>>

(* ... and the index, and the post.                                        *)
EndWrite(t) ==
  /\ At(t, "filled")
  /\ in' = (in + len[t]) % IdxMod
  /\ mutex' \in Post("write")
  /\ Goto(t, "app") /\ len' = [len EXCEPT ![t] = 0]
  /\ UNCHANGED <<size, out, buffer, copied>>

(* dos_fifo_read of at most n bytes, with a timeout of zero.               *)
StartRead(t, n) ==
  /\ At(t, "app") /\ Pend(t, "read")
  /\ len' = [len EXCEPT ![t] = n]
  /\ Goto(t, "filled?")
  /\ UNCHANGED <<size, in, out, buffer, copied>>

MeasureFilled(t, once) == At(t, "filled?") /\ Measure(t, Filled, "filled2", "drain", once)
FilledAgain(t) == At(t, "filled2") /\ MeasureAgain(t, Filled, "drain")

Drain(t) ==
  /\ At(t, "drain")
  /\ copied' = [copied EXCEPT ![t] = [i \in 1 .. len[t] |-> buffer[(out + i - 1) % size]]]
  /\ Goto(t, "drained")
  /\ UNCHANGED <<fifo, len>>

AfterRead(t) == IF len[t] > 0 THEN "send" ELSE "app"

EndRead(t) ==
  /\ At(t, "drained")
  /\ out' = (out + len[t]) % IdxMod
  /\ mutex' \in Post("read")
  /\ Goto(t, AfterRead(t)) /\ len' = [len EXCEPT ![t] = 0]
  /\ UNCHANGED <<size, in, buffer, copied>>

(* The bytes between the two indices.                                      *)
Inside == [i \in 1 .. (in - out) % IdxMod |-> buffer[(out + i - 1) % size]]
=============================================================================
