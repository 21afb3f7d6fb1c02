------------------------------ MODULE MemHeap -------------------------------
(***************************************************************************)
(* The heap of mem.c in words: a list of nodes, each a header followed by  *)
(* its user memory.  dos_mem_alloc locks the scheduler and is one step;    *)
(* dos_mem_free takes no lock and is taken apart into its loops, between   *)
(* which another task allocates when the heap is shared.  Following        *)
(* mem_node_size to an address where no node is reads and writes arbitrary *)
(* memory: corrupt is set, the call goes on with anything it may find      *)
(* there, and no further call is modelled.                                 *)
(***************************************************************************)
EXTENDS Integers, FiniteSets, Functions

CONSTANTS
  NodeWords,   \* MEM_NODE_SIZE
  HeapWords,   \* the heap behind the dos_mem_heap_info
  WordMod,     \* 2^32, the width of sizes and counts
  Null,
  Usages       \* the ways the heap and the pool are used

(* The sizes that are allocated, as DOS_ALIGN leaves them (the pool's      *)
(* included, if there is one; 0 is allowed, and what a request next to     *)
(* 2^32 bytes becomes), and where calls interleave.                        *)
UsageType == [sizes : SUBSET Nat, shared : SUBSET {"heap", "pool"}]

ASSUME HeapAssumption ==
  /\ NodeWords \in Nat \ {0} /\ HeapWords \in Nat /\ HeapWords > NodeWords
  /\ WordMod \in Nat /\ WordMod > HeapWords
  /\ Null \notin Nat
  /\ Usages \subseteq UsageType

VARIABLES
  nodes,       \* prev, mem_node_size and mem_used of the node at each address
  mem_tail,
  mem_heap_size,
  freeing,     \* where dos_mem_free is: one of the steps below, or "no"
  free_node,   \* its local variable,
  next_free,   \* and its variable node while it merges
  corrupt,
  usage        \* a member of Usages, chosen once

heapVars == <<nodes, mem_tail, mem_heap_size, freeing, free_node, next_free, corrupt, usage>>

Node(prev, size, used) == [prev |-> prev, size |-> size, used |-> used]
Size(n) == nodes[n].size

(* dos_mem_heap_init. *)
HeapInit ==
  /\ usage \in Usages
  /\ nodes = [n \in {0} |-> Node(Null, HeapWords - NodeWords, FALSE)]
  /\ mem_tail = 0 /\ mem_heap_size = HeapWords - NodeWords
  /\ freeing = "no" /\ free_node = Null /\ next_free = Null
  /\ corrupt = FALSE

(* The tests and values of mem.c, each after the faults that are tried in  *)
(* its place.                                                              *)
NextAddress(n) == n + NodeWords + Size(n)

FitsAny(n, s) == ~nodes[n].used
Fits(n, s) == ~nodes[n].used /\ Size(n) > s

Cuts(n, s) == Size(n) - s > NodeWords

MergedSize(n, m) == Size(n) + NodeWords + Size(m)

NeverFree(n) == FALSE
IsFree(n) == ~nodes[n].used

TailAfter(m, n) == IF m = mem_tail THEN n ELSE mem_tail

SizeAfterFree(n) == (mem_heap_size + Size(n)) % WordMod

PrevAfter(n, k) == n

(* _dos_get_next_node. *)
NextNode(n) == IF n = mem_tail THEN Null ELSE NextAddress(n)

(* The scan from the tail finds the smallest block that fits, and of those *)
(* the last.                                                               *)
IsBest(n, s) ==
  /\ n \in DOMAIN nodes /\ Fits(n, s)
  /\ \A k \in DOMAIN nodes :
       Fits(k, s) => Size(n) < Size(k) \/ (Size(n) = Size(k) /\ k <= n)

(* The part of dos_mem_alloc after the scan: the best node is cut in two   *)
(* or used whole, but recorded with the size that was asked for.  Where no *)
(* node follows, the link is written into arbitrary memory.                *)
AllocFrom(b, s) ==
  LET new == b + NodeWords + s
      rest == Node(b, Size(b) - s - NodeWords, FALSE)
      taken == [nodes EXCEPT ![b].used = TRUE, ![b].size = s]
      cut == [n \in DOMAIN nodes \cup {new} |-> IF n = new THEN rest ELSE taken[n]]
      after == new + NodeWords + rest.size
  IN  /\ IF ~Cuts(b, s) THEN nodes' = taken /\ UNCHANGED <<mem_tail, corrupt>>
         ELSE IF b = mem_tail
         THEN nodes' = cut /\ mem_tail' = new /\ UNCHANGED corrupt
         ELSE IF after \in DOMAIN nodes
         THEN nodes' = [cut EXCEPT ![after].prev = new] /\ UNCHANGED <<mem_tail, corrupt>>
         ELSE nodes' = cut /\ corrupt' = TRUE /\ UNCHANGED mem_tail
      /\ mem_heap_size' = (mem_heap_size - s) % WordMod
      /\ UNCHANGED <<freeing, free_node, next_free, usage>>

(* dos_mem_alloc returning block b; without one that fits it returns       *)
(* DOS_NULL.                                                               *)
Alloc(b, s) ==
  /\ (freeing = "no" \/ "heap" \in usage.shared) /\ ~corrupt
  /\ IsBest(b, s)
  /\ AllocFrom(b, s)

(* dos_mem_free: the block is marked free ...                              *)
Release(n) ==
  /\ freeing = "no" /\ ~corrupt /\ nodes[n].used
  /\ nodes' = [nodes EXCEPT ![n].used = FALSE]
  /\ mem_heap_size' = SizeAfterFree(n)
  /\ free_node' = n /\ freeing' = "back"
  /\ UNCHANGED <<mem_tail, next_free, corrupt, usage>>

(* ... joined to the free block before it ...                              *)
GoBack ==
  /\ freeing = "back"
  /\ LET prev == nodes[free_node].prev
     IN  IF prev \in DOMAIN nodes /\ IsFree(prev)
         THEN free_node' = prev /\ UNCHANGED freeing
         ELSE freeing' = "forward" /\ UNCHANGED free_node
  /\ UNCHANGED <<nodes, mem_tail, mem_heap_size, next_free, corrupt, usage>>

(* ... to the free blocks behind it, each found ...                        *)
GoForward ==
  /\ freeing = "forward"
  /\ LET node == NextNode(free_node)
     IN  \/ /\ node = Null \/ (node \in DOMAIN nodes /\ nodes[node].used)
            /\ freeing' = "link" /\ UNCHANGED next_free
         \/ /\ node \in DOMAIN nodes /\ ~nodes[node].used
            /\ freeing' = "merge" /\ next_free' = node
  /\ UNCHANGED <<nodes, mem_tail, mem_heap_size, free_node, corrupt, usage>>

(* ... and then taken in; one that was allocated in between remains its    *)
(* owner's, inside another, and the heap is corrupt.                       *)
Merge ==
  /\ freeing = "merge"
  /\ nodes' = Restrict([nodes EXCEPT ![free_node].size = MergedSize(free_node, next_free)],
                       {n \in DOMAIN nodes : n = next_free => nodes[n].used})
  /\ mem_tail' = TailAfter(next_free, free_node)
  /\ corrupt' = (corrupt \/ nodes[next_free].used)
  /\ freeing' = "forward" /\ next_free' = Null
  /\ UNCHANGED <<mem_heap_size, free_node, usage>>

(* What is found where no node is either ends the search or is taken in,   *)
(* with a size that may be anything ...                                    *)
Stray ==
  /\ freeing = "forward"
  /\ NextNode(free_node) \notin DOMAIN nodes \cup {Null}
  /\ corrupt' = TRUE
  /\ \/ freeing' = "link" /\ UNCHANGED nodes
     \/ /\ \E s \in 0 .. WordMod - 1 : nodes' = [nodes EXCEPT ![free_node].size = s]
        /\ UNCHANGED freeing
  /\ UNCHANGED <<mem_tail, mem_heap_size, free_node, next_free, usage>>

(* ... and the block is made the predecessor of the one that follows.      *)
Link ==
  /\ freeing = "link"
  /\ LET node == NextNode(free_node)
     IN  /\ nodes' = IF node \in DOMAIN nodes THEN [nodes EXCEPT ![node].prev = PrevAfter(free_node, node)]
                                              ELSE nodes
         /\ corrupt' = (corrupt \/ node \notin DOMAIN nodes \cup {Null})
  /\ freeing' = "no" /\ free_node' = Null
  /\ UNCHANGED <<mem_tail, mem_heap_size, next_free, usage>>

-----------------------------------------------------------------------------
(* Every block, with its header, is a multiple of NodeWords + 1 words, so  *)
(* what is left of a block that is cut has room for a node or is nothing;  *)
(* and calls do not interleave.                                            *)
Rounded ==
  "heap" \notin usage.shared /\
  \A s \in usage.sizes \cup {HeapWords - NodeWords} : (s + NodeWords) % (NodeWords + 1) = 0

(* Calls do not interleave, and none has followed mem_node_size to where   *)
(* no node is, which with rounded blocks is not needed.                    *)
Intact == "heap" \notin usage.shared /\ (Rounded \/ ~corrupt)

(* No two nodes overlap, headers included, and none leaves the heap: what  *)
(* dos_mem_alloc returns is the caller's alone, at every step of every     *)
(* other call, for ever with rounded blocks, and with others until         *)
(* dos_mem_free or dos_mem_alloc meets an address without a node.          *)
NoOverlap ==
  Intact =>
  \A n \in DOMAIN nodes :
    /\ NextAddress(n) <= HeapWords
    /\ \A k \in DOMAIN nodes : n < k => NextAddress(n) <= k

(* The words that have been handed out and not given back.                 *)
UsedWords == UNION {n + NodeWords .. NextAddress(n) - 1 : n \in {k \in DOMAIN nodes : nodes[k].used}}

(* With rounded blocks, no address is ever followed to where no node is,   *)
(* and between calls the nodes fill the heap without a gap, linked both    *)
(* ways, two neighbours are never both free (memory that is given back is  *)
(* whole again) and mem_heap_size is what is not in use.                   *)
Tiles ==
  Rounded =>
    /\ ~corrupt
    /\ freeing = "no" =>
         /\ \A n \in DOMAIN nodes \ {mem_tail} :
              LET k == NextAddress(n)
              IN  k \in DOMAIN nodes /\ nodes[k].prev = n /\ (nodes[n].used \/ nodes[k].used)
         /\ NextAddress(mem_tail) = HeapWords
         /\ 0 \in DOMAIN nodes /\ nodes[0].prev = Null
         /\ mem_heap_size = HeapWords - NodeWords - Cardinality(UsedWords)

=============================================================================
