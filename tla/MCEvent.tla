------------------------------ MODULE MCEvent -------------------------------
(* Instances of Event for TLC.                                             *)
EXTENDS Event, TLC

CONSTANTS hi, mid, lo, f, g

ThreePrio == hi :> 0 @@ mid :> 1 @@ lo :> 2

Ask(w, all, clear) == [want |-> w, all |-> all, clear |-> clear]

(* Two tasks wait, for one flag, for either and for both; two tasks set.   *)
TaskUse ==
  [asks |-> hi :> {Ask({f}, FALSE, TRUE), Ask({f, g}, TRUE, TRUE)}
            @@ mid :> {Ask({f, g}, FALSE, TRUE), Ask({f}, TRUE, FALSE)} @@ lo :> {},
   sets |-> hi :> {{g}} @@ mid :> {} @@ lo :> {{f}, {g}},
   isr |-> {}, waits |-> {"try", "timed", "forever"}, sleeps |-> TRUE, deleters |-> {}]
(* An interrupt sets flags as well.                                        *)
IsrUse ==
  [asks |-> hi :> {Ask({f, g}, FALSE, TRUE), Ask({f, g}, TRUE, TRUE)}
            @@ mid :> {Ask({g}, FALSE, TRUE), Ask({f}, TRUE, FALSE)} @@ lo :> {},
   sets |-> hi :> {} @@ mid :> {} @@ lo :> {{f}},
   isr |-> {{f}, {g}}, waits |-> {"timed", "forever"}, sleeps |-> TRUE, deleters |-> {}]
(* The highest task deletes the event.                                     *)
DeleteUse ==
  [asks |-> hi :> {} @@ mid :> {Ask({f}, FALSE, TRUE)} @@ lo :> {},
   sets |-> hi :> {} @@ mid :> {} @@ lo :> {{f}, {g}},
   isr |-> {}, waits |-> {"forever"}, sleeps |-> TRUE, deleters |-> {hi}]

AllUses == {TaskUse, IsrUse, DeleteUse}
=============================================================================
