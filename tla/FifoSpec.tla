------------------------------ MODULE FifoSpec ------------------------------
(***************************************************************************)
(* What a byte FIFO promises: bytes come out once, unchanged and in the    *)
(* order they went in, whoever reads them, there are never more than size  *)
(* of them inside, and a read gives at most what was asked for.            *)
(***************************************************************************)
EXTENDS Naturals, FiniteSetsExt, SequencesExt

CONSTANTS Readers,
          Most   \* what a read asks for

VARIABLES size,
          q,     \* the bytes inside
          got    \* what each reader's last read gave it, until it is used

vars == <<size, q, got>>

Init == size \in Nat \ {0} /\ q = << >> /\ got = [r \in Readers |-> << >>]

Put == Len(q') <= size /\ IsPrefix(q, q') /\ UNCHANGED <<size, got>>

Get(r) ==
  \E n \in 0 .. Min({Len(q), Most}) :
    /\ got' = [got EXCEPT ![r] = SubSeq(q, 1, n)]
    /\ q' = SubSeq(q, n + 1, Len(q))
    /\ UNCHANGED size

Use(r) == got' = [got EXCEPT ![r] = << >>] /\ UNCHANGED <<size, q>>

Next == Put \/ \E r \in Readers : Get(r) \/ Use(r)

Spec == Init /\ [][Next]_vars
=============================================================================
