------------------------------ MODULE MCSwtmr -------------------------------
(* Instances of Swtmr for TLC.                                             *)
EXTENDS Swtmr, TLC

CONSTANTS s, u, app

Use(ts, tu, size, senders, prompt) ==
  [timeout |-> s :> ts @@ u :> tu, period |-> {u}, ops |-> {"start", "stop", "delete"},
   size |-> size, senders |-> senders, prompt |-> prompt]

(* A prompt timer task; commands that a task sends with interrupts enabled *)
(* to a prompt timer task and to any other; and a timer task that is not   *)
(* prompt, with ticks and commands at any moment.                          *)
AllUses ==
  {Use(1, 2, 2, {}, TRUE), Use(3, 1, 2, {}, TRUE), Use(2, 3, 2, {}, TRUE),
   [Use(2, 3, 2, {app}, TRUE) EXCEPT !.ops = {"start"}], Use(1, 2, 1, {}, FALSE),
   [Use(1, 2, 1, {app}, FALSE) EXCEPT !.ops = {"start", "delete"}]}
=============================================================================
