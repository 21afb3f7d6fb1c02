------------------------------ MODULE MCMutex -------------------------------
(* Instances of Mutex for TLC.                                             *)
EXTENDS Mutex, TLC

CONSTANTS hi, mid, lo

Three == hi :> 0 @@ mid :> 1 @@ lo :> 2
Shared == hi :> 0 @@ mid :> 1 @@ lo :> 1

(* Two tasks of one priority; everything the calls allow.                  *)
AnyUse == [prio |-> Shared, waits |-> {"try", "timed", "forever"}, sleeps |-> TRUE,
           held |-> 2, depth |-> 1, deleters |-> {}, own |-> TRUE]
(* Three priorities, one mutex at a time, no timeout and no sleep inside.  *)
PlainUse == [prio |-> Three, waits |-> {"try", "forever"}, sleeps |-> FALSE,
             held |-> 1, depth |-> 2, deleters |-> {}, own |-> TRUE]
(* The same, and the highest task deletes a mutex that it holds.           *)
DeleteUse == [prio |-> Three, waits |-> {"try", "forever"}, sleeps |-> FALSE,
              held |-> 1, depth |-> 2, deleters |-> {hi}, own |-> TRUE]
(* The highest task deletes mutexes, whoever holds them.                   *)
SeizeUse == [DeleteUse EXCEPT !.own = FALSE]
(* Another task does, which is preempted in between.                       *)
LowUse == [DeleteUse EXCEPT !.own = FALSE, !.deleters = {mid}, !.depth = 1]
(* Pends nested until the count wraps.                                     *)
DeepUse == [prio |-> Three, waits |-> {"forever"}, sleeps |-> FALSE,
            held |-> 1, depth |-> 3, deleters |-> {}, own |-> TRUE]

(* Timeouts and sleeps with one mutex at a time.                           *)
TimedUse == [prio |-> Three, waits |-> {"timed"}, sleeps |-> TRUE,
             held |-> 1, depth |-> 1, deleters |-> {}, own |-> TRUE]

AllUses == {AnyUse, PlainUse, DeleteUse, SeizeUse, LowUse, DeepUse, TimedUse}
=============================================================================
