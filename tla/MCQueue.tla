------------------------------ MODULE MCQueue -------------------------------
(* Instances of Queue for TLC.                                             *)
EXTENDS Queue, TLC

CONSTANTS hi, mid, lo

ThreePrio == hi :> 0 @@ mid :> 1 @@ lo :> 2

(* Every task reads and writes a queue of two places; nobody is preempted. *)
TurnsUse == [readers |-> Tasks, writers |-> Tasks, deleters |-> {}, len |-> 2,
             waits |-> {"try", "forever"}, sleeps |-> FALSE, isr |-> {}]
(* Timeouts, sleeps and interrupts preempt the handler anywhere.           *)
AnyUse == [readers |-> {hi, lo}, writers |-> {hi, mid}, deleters |-> {}, len |-> 1,
           waits |-> {"try", "timed", "forever"}, sleeps |-> TRUE, isr |-> {"read", "write"}]
(* The highest task deletes the queue the others use.                      *)
DeleteUse == [readers |-> {mid}, writers |-> {hi, lo}, deleters |-> {hi}, len |-> 1,
              waits |-> {"forever"}, sleeps |-> TRUE, isr |-> {}]

AllUses == {TurnsUse, AnyUse, DeleteUse}
=============================================================================
