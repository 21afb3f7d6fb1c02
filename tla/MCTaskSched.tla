---------------------------- MODULE MCTaskSched -----------------------------
(* Instances of TaskSched for TLC.                                         *)
EXTENDS TaskSchedInv, TLC

CONSTANTS t1, t2, t3, idle

(* Two tasks of one priority and one above them, over the idle task.       *)
MixedPrio == t1 :> 1 @@ t2 :> 1 @@ t3 :> 0 @@ idle :> 2
(* Two tasks of different priorities.                                      *)
TwoPrio == t1 :> 1 @@ t2 :> 0 @@ idle :> 2
(* Time slices: one tick for every task, or two for one of them.           *)
OneSlice == [t \in AllTasks |-> 1]
Slices == [t \in AllTasks |-> IF t = t1 THEN 2 ELSE 1]
=============================================================================
