------------------------------- MODULE MCSem --------------------------------
(* Instances of Sem for TLC.                                               *)
EXTENDS Sem, TLC

CONSTANTS hi, mid, lo

(* Three tasks of different priorities.                                    *)
ThreePrio == hi :> 0 @@ mid :> 1 @@ lo :> 2
(* Two tasks of one priority below a third.                                *)
SharedPrio == hi :> 0 @@ mid :> 1 @@ lo :> 1
=============================================================================
