-------------------------------- MODULE Memp --------------------------------
(***************************************************************************)
(* The memory pool of memp.c, in a block of the heap (DOS_HEAP_TO_MEMP):   *)
(* a dos_memp, then memp_total_count blocks, each behind a dos_memp_node.  *)
(* None of its calls takes a lock; their accesses to the pool are steps of *)
(* their own, which the tasks of a pool that is shared may interleave.     *)
(***************************************************************************)
EXTENDS MemHeap, Sequences

CONSTANTS
  Tasks,
  MempWords,       \* sizeof(struct dos_memp)
  MempNodeWords,   \* sizeof(struct dos_memp_node)
  memp_size, blk_size

memp_cnt == memp_size \div blk_size
Blocks == 1 .. memp_cnt
PoolWords == MempWords + MempNodeWords * memp_cnt + memp_size

(* The parameters that dos_memp_create accepts; the size that it computes  *)
(* does not overflow.                                                      *)
ASSUME MempAssumption ==
  /\ MempWords \in Nat /\ MempNodeWords \in Nat
  /\ memp_size \in Nat /\ blk_size \in Nat \ {0} /\ memp_size >= blk_size
  /\ PoolWords < WordMod

VARIABLES
  memp,             \* its address, or Null before dos_memp_create
  memp_free,        \* memp_free.next: a block or Null
  memp_free_count,
  next,             \* next of each block's node
  status,           \* whether each block's node says it is used
  mine,             \* the blocks that dos_memp_alloc returned to each task
  pc, node,         \* where each task is in a call, and its local variable
  next_node         \* the other one, of dos_memp_free

poolVars == <<memp, memp_free, memp_free_count, next, status, mine, pc, node, next_node>>
locals == <<pc, node, next_node>>

PoolInit ==
  /\ memp = Null /\ memp_free = Null /\ memp_free_count = 0
  /\ next = [b \in Blocks |-> Null] /\ status = [b \in Blocks |-> FALSE]
  /\ mine = [t \in Tasks |-> {}]
  /\ pc = [t \in Tasks |-> "app"]
  /\ node = [t \in Tasks |-> Null] /\ next_node = [t \in Tasks |-> Null]

(* dos_memp_create: the blocks are linked in the order of their addresses; *)
(* their status is what the memory held.                                   *)
Create ==
  /\ memp = Null /\ PoolWords \in usage.sizes
  /\ \E b \in DOMAIN nodes : Alloc(b, PoolWords) /\ memp' = b + NodeWords
  /\ memp_free' = 1 /\ memp_free_count' = memp_cnt
  /\ next' = [b \in Blocks |-> IF b = memp_cnt THEN Null ELSE b + 1]
  /\ status' \in [Blocks -> BOOLEAN]
  /\ UNCHANGED <<mine, locals>>

(* The tests and values of memp.c, after their faults.                     *)
Popped(b) == b
AfterPop(b) == next[b]

CountAfterFree == (memp_free_count + 1) % WordMod

Starts(t) == memp # Null /\ pc[t] = "app" /\ ("pool" \in usage.shared \/ \A u \in Tasks : pc[u] = "app")

(* dos_memp_alloc: the test, the count, the first block, and its removal.  *)
PoolAlloc(t) ==
  /\ Starts(t)
  /\ memp_free_count > 0 /\ memp_free # Null
  /\ pc' = [pc EXCEPT ![t] = "take"]
  /\ UNCHANGED <<memp, memp_free, memp_free_count, next, status, mine, node, next_node, heapVars>>

Take(t) ==
  /\ pc[t] = "take" /\ memp_free # Null
  /\ memp_free_count' = (memp_free_count - 1) % WordMod
  /\ node' = [node EXCEPT ![t] = memp_free]
  /\ pc' = [pc EXCEPT ![t] = "unlink"]
  /\ UNCHANGED <<memp, memp_free, next, status, mine, next_node, heapVars>>

Unlink(t) ==
  /\ pc[t] = "unlink"
  /\ status' = [status EXCEPT ![node[t]] = TRUE]
  /\ memp_free' = AfterPop(node[t])
  /\ mine' = [mine EXCEPT ![t] = @ \cup {node[t]}]
  /\ pc' = [pc EXCEPT ![t] = "app"] /\ node' = [node EXCEPT ![t] = Null]
  /\ UNCHANGED <<memp, memp_free_count, next, next_node, heapVars>>

(* dos_memp_free: the tests, and the block goes first ...                  *)
PoolFree(t, b) ==
  /\ Starts(t) /\ b \in mine[t]
  /\ status[b] /\ memp_free_count < memp_cnt
  /\ next_node' = [next_node EXCEPT ![t] = memp_free]
  /\ memp_free' = b
  /\ mine' = [mine EXCEPT ![t] = @ \ {b}]
  /\ node' = [node EXCEPT ![t] = b]
  /\ pc' = [pc EXCEPT ![t] = "put"]
  /\ UNCHANGED <<memp, memp_free_count, next, status, heapVars>>

(* ... its link, the count and the status.                                 *)
Put(t) ==
  /\ pc[t] = "put"
  /\ next' = [next EXCEPT ![node[t]] = next_node[t]]
  /\ memp_free_count' = CountAfterFree
  /\ status' = [status EXCEPT ![node[t]] = FALSE]
  /\ pc' = [pc EXCEPT ![t] = "app"]
  /\ node' = [node EXCEPT ![t] = Null] /\ next_node' = [next_node EXCEPT ![t] = Null]
  /\ UNCHANGED <<memp, memp_free, mine, heapVars>>

Init == HeapInit /\ PoolInit

Next ==
  \/ \E b \in DOMAIN nodes, s \in usage.sizes \ {PoolWords} : Alloc(b, s) /\ UNCHANGED poolVars
  \/ \E n \in DOMAIN nodes : n + NodeWords # memp /\ Release(n) /\ UNCHANGED poolVars
  \/ GoBack /\ UNCHANGED poolVars
  \/ GoForward /\ UNCHANGED poolVars
  \/ Merge /\ UNCHANGED poolVars
  \/ Stray /\ UNCHANGED poolVars
  \/ Link /\ UNCHANGED poolVars
  \/ Create
  \/ \E t \in Tasks : \/ PoolAlloc(t) \/ Take(t) \/ Unlink(t) \/ Put(t)
                       \/ \E b \in Blocks : PoolFree(t, b)

vars == <<heapVars, poolVars>>
Spec == Init /\ [][Next]_vars

-----------------------------------------------------------------------------
(* Where block b begins, with its node.                                    *)
BlockAddress(b) == memp + MempWords + (b - 1) * (MempNodeWords + blk_size)

(* The list of the free blocks, from memp_free on.                         *)
IsFreeList(l) ==
  /\ memp_free = IF l = << >> THEN Null ELSE l[1]
  /\ \A i \in DOMAIN l : next[l[i]] = IF i = Len(l) THEN Null ELSE l[i + 1]

(* In an intact heap the blocks of the pool lie inside the heap block it   *)
(* was given; and if calls of the pool do not interleave either, then      *)
(* between them every block is either with one task, marked used, or once  *)
(* on the free list, which memp_free_count counts.                         *)
PoolExact ==
  memp # Null /\ Intact =>
    /\ BlockAddress(memp_cnt) + MempNodeWords + blk_size <= memp + Size(memp - NodeWords)
    /\ ("pool" \notin usage.shared /\ \A t \in Tasks : pc[t] = "app") =>
         \E l \in UNION {[1 .. k -> Blocks] : k \in 0 .. memp_cnt} :
           /\ IsFreeList(l) /\ IsInjective(l) /\ memp_free_count = Len(l)
           /\ \A b \in Blocks \ Range(l) : status[b] /\ \E t \in Tasks : b \in mine[t]
           /\ \A t, u \in Tasks : mine[t] \cap Range(l) = {} /\ (t # u => mine[t] \cap mine[u] = {})
=============================================================================
