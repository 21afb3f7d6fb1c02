------------------------------- MODULE MCLife -------------------------------
(* Instances of the life of tasks for TLC.                                 *)
EXTENDS TaskLife

Use(main, prios, makers, isr, windows, exclusive) ==
  [main |-> main, prios |-> prios, makers |-> makers, isr |-> isr, windows |-> windows,
   exclusive |-> exclusive]

(* Everyone creates and deletes, undisturbed; a supervisor does, with      *)
(* ticks in its deletes and exits, or in every call; a priority that the   *)
(* table takes for another; tasks that delete each other within a call;    *)
(* and priorities that have no ready list.                                 *)
AllUses == {Use(1, {0, 1}, {0, 1}, TRUE, {}, TRUE),
            Use(0, {1}, {0}, FALSE, {"delete", "exit"}, TRUE),
            Use(0, {1}, {0}, FALSE, Calls, TRUE),
            Use(1, {2}, {1}, FALSE, {}, TRUE),
            Use(1, {1}, {1}, FALSE, {}, FALSE),
            Use(1, {1, 4, 5}, {1}, FALSE, {}, TRUE)}
=============================================================================
