------------------------------- MODULE Salof --------------------------------
(***************************************************************************)
(* The asynchronous log: dos_salof formats a message into one global       *)
(* buffer and writes it to the FIFO; the idle task reads the FIFO and      *)
(* sends what it got.  A message of n characters of task t has the bytes   *)
(* <<t, 1>> to <<t, n>>.                                                   *)
(***************************************************************************)
EXTENDS Fifo

CONSTANTS
  BuffSize,    \* DOS_SALOF_BUFF_SIZE
  ReadSize,    \* sizeof(buff) in the idle task
  Nul,
  Usages

(* The size asked of dos_fifo_create, the tasks that log, the ones that    *)
(* read (the idle task, and others that call dos_fifo_read), the lengths   *)
(* of the messages, whether one call of dos_salof ends before the next one *)
(* begins, and whether the build reads the indices once in DOS_MIN.        *)
UsageType ==
  [request : Nat \ {0}, loggers : SUBSET Tasks, readers : SUBSET Tasks,
   lengths : SUBSET Nat, serial : BOOLEAN, once : BOOLEAN]

ASSUME SalofAssumption ==
  /\ BuffSize \in Nat /\ BuffSize > 1 /\ ReadSize \in Nat \ {0}
  /\ Usages \subseteq UsageType
  /\ \A u \in Usages : u.loggers \cap u.readers = {}

VARIABLES buff, usage

vars == <<fifoVars, buff, usage>>

(* dos_salof_init; buff is a global array.                                 *)
Init ==
  /\ usage \in Usages
  /\ FifoInit(usage.request)
  /\ buff = [i \in 1 .. BuffSize |-> Nul]

(* dos_format_nstr into BuffSize - 1 bytes: the characters that fit, with  *)
(* the terminator after them or over the last one.                         *)
FormatSize == BuffSize - 1

TerminatedEarly(t, n) ==
  [i \in 1 .. BuffSize |->
     IF i = Less(n, FormatSize) THEN Nul
     ELSE IF i <= Less(n, FormatSize) THEN <<t, i>> ELSE buff[i]]

Formatted(t, n) ==
  [i \in 1 .. BuffSize |->
     IF i = Less(n + 1, FormatSize) THEN Nul
     ELSE IF i <= Less(n, FormatSize) THEN <<t, i>> ELSE buff[i]]

(* The length it returns, as dos_salof cuts it.                            *)
Cut(n) == IF n > BuffSize THEN BuffSize - 1 ELSE n

(* dos_salof up to the pend in dos_fifo_write, which ignores an empty      *)
(* message.                                                                *)
Log(t, n) ==
  /\ At(t, "app") /\ t \in usage.loggers
  /\ usage.serial => \A u \in usage.loggers : At(u, "app")
  /\ buff' = Formatted(t, n)
  /\ len' = [len EXCEPT ![t] = Cut(n)]
  /\ Goto(t, IF n = 0 THEN "app" ELSE "write")
  /\ UNCHANGED <<fifo, copied, usage>>

(* dos_salof_out and the memset after it.                                  *)
Send(t) ==
  /\ At(t, "send")
  /\ copied' = [copied EXCEPT ![t] = << >>]
  /\ Goto(t, "app")
  /\ UNCHANGED <<fifo, len, buff, usage>>

Rest == UNCHANGED <<buff, usage>>

Read(t) ==
  StartRead(t, ReadSize) \/ MeasureFilled(t, usage.once) \/ FilledAgain(t)
  \/ Drain(t) \/ EndRead(t)

Write(t) ==
  StartWrite(t) \/ Pended(t) \/ Expire(t) \/ GiveUp(t) \/ MeasureSpace(t, usage.once)
  \/ SpaceAgain(t) \/ Fill(t, buff) \/ EndWrite(t)

Next ==
  \/ \E t \in usage.loggers, n \in usage.lengths : Log(t, n)
  \/ \E t \in usage.loggers : Write(t) /\ Rest
  \/ \E t \in usage.readers : (Read(t) /\ Rest) \/ Send(t)

Spec == Init /\ [][Next]_vars

(* The readers go on: the idle task runs whenever every other task waits.  *)
FairSpec == Spec /\ \A t \in Tasks : WF_vars(t \in usage.readers /\ ((Read(t) /\ Rest) \/ Send(t)))

-----------------------------------------------------------------------------

(* The size dos_fifo_create settles on is the largest power of two that is *)
(* not above the request.                                                  *)
LargestPower == IsPower(size) /\ size <= usage.request /\ usage.request < 2 * size

(* What a reader has from its last read.                                   *)
Got == [t \in Tasks |-> IF pc[t] = "send" THEN copied[t] ELSE << >>]

Ideal == INSTANCE FifoSpec WITH Readers <- Tasks, Most <- ReadSize, q <- Inside, got <- Got

(* The ring is a FIFO of bytes: although each side reads the other's index *)
(* without its mutex, no byte is lost, repeated or overwritten before it   *)
(* is read, across the wrap of the buffer and of the indices, and a reader *)
(* never gets more than its memory holds.  That is Ideal!Spec, in a build  *)
(* that reads the indices once: in another, dos_fifo_read copies past the  *)
(* end of its caller's memory if a writer comes between the two readings.  *)
IsFifo == (usage.once => Ideal!Init) /\ [][usage.once => Ideal!Next]_(Ideal!vars)

(* The message a task is about to publish is the start of what it asked    *)
(* dos_salof to log, when calls of dos_salof do not overlap and the build  *)
(* reads the indices once (or it may be longer than the message).  Only    *)
(* one that reaches the end of the global buffer ends in the terminator.   *)
Untorn ==
  (usage.serial /\ usage.once) =>
    \A t \in usage.loggers : At(t, "filled") =>
      \A i \in 1 .. len[t] :
        buffer[(in + i - 1) % size] = IF i < FormatSize THEN <<t, i>> ELSE Nul

(* What is in the FIFO does not stay there: again and again it is empty or *)
(* a read takes bytes out of it, whichever mutexes are lost to tasks that  *)
(* gave up (premise: reads keep to their memory, as above).                *)
Drains == usage.once => ([]<>(in = out) \/ []<><<out' # out>>_vars)
=============================================================================
