------------------------------ MODULE SemSpec -------------------------------
(***************************************************************************)
(* What a counting semaphore promises its users: every accepted post adds  *)
(* one token, every pend that returns DOS_OK takes one, and a pend that    *)
(* gives up takes none.  Where waits time out (Lossy), a post may be used  *)
(* up by one of the waiting calls that then gives up; where the semaphore  *)
(* is deleted (Deletable), tokens may go with it.                          *)
(***************************************************************************)
EXTENDS Naturals

CONSTANTS Tasks, Cnt, Lossy, Deletable

VARIABLES waiting,  \* the tasks inside a blocked dos_sem_pend
          avail,    \* tokens nobody has taken
          posted,   \* accepted posts
          taken     \* pends that returned DOS_OK

vars == <<waiting, avail, posted, taken>>

Init == waiting = {} /\ avail = Cnt /\ posted = 0 /\ taken = 0

Give == avail' = avail + 1 /\ posted' = posted + 1 /\ UNCHANGED <<waiting, taken>>

Take(w) ==
  /\ avail > 0 /\ avail' = avail - 1
  /\ taken' = taken + 1
  /\ waiting' = w
  /\ UNCHANGED posted

Change(w) == waiting' = w /\ UNCHANGED <<avail, posted, taken>>

Swallow ==
  /\ Lossy /\ waiting # {}
  /\ posted' = posted + 1
  /\ UNCHANGED <<waiting, avail, taken>>

Discard == Deletable /\ avail' \in 0 .. avail /\ UNCHANGED <<waiting, posted, taken>>

Next ==
  \/ Give \/ Swallow \/ Discard
  \/ Take(waiting)                                    \* without waiting
  \/ \E t \in waiting : \/ Take(waiting \ {t})        \* after a wait
                        \/ Change(waiting \ {t})      \* timed out
  \/ \E t \in Tasks \ waiting : Change(waiting \cup {t})

Spec == Init /\ [][Next]_vars
=============================================================================
