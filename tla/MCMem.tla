------------------------------- MODULE MCMem --------------------------------
(* Instances of the heap with a pool for TLC.                              *)
EXTENDS Memp

(* The size of the pool, as PoolWords.                                     *)
Pool == 10

Use(sizes, shared) == [sizes |-> sizes, shared |-> shared]

(* Sizes that are rounded (with a header of two words), sizes that are     *)
(* not, zero among them, a shared heap and a shared pool.                  *)
AllUses ==
  {Use({1, 4}, {}), Use({1, Pool}, {}), Use({4, Pool}, {}), Use({2, 5}, {}),
   Use({2, Pool}, {}), Use({0}, {}), Use({4}, {"heap"}), Use({Pool}, {"pool"})}
=============================================================================
