------------------------------ MODULE MCSalof -------------------------------
(* Instances of the log for TLC.                                           *)
EXTENDS Salof

CONSTANTS t1, t2, idle, r

Use(request, loggers, readers, lengths, serial, once) ==
  [request |-> request, loggers |-> loggers, readers |-> readers,
   lengths |-> lengths, serial |-> serial, once |-> once]

(* Two tasks that log in turn or across each other, with the idle task and *)
(* with a second reader, messages that fit and messages that are cut, a    *)
(* build that reads the indices twice, and the sizes of many FIFOs that    *)
(* nobody uses.                                                            *)
AllUses ==
  {Use(3, {t1, t2}, {idle}, {0, 1, 2}, TRUE, TRUE), Use(5, {t1}, {idle}, {1, 2}, TRUE, TRUE),
   Use(2, {t1, t2}, {idle}, {1, 2}, FALSE, TRUE), Use(6, {t1}, {idle}, {3, 4, 5}, TRUE, TRUE),
   Use(3, {t1}, {idle, r}, {1, 4}, TRUE, TRUE), Use(6, {t1}, {idle}, {1, 2}, TRUE, FALSE)}
    \cup {Use(n, {}, {}, {}, TRUE, TRUE) : n \in 1 .. 300}
=============================================================================
