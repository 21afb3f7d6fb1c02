----------------------------- MODULE MemProofs ------------------------------
(***************************************************************************)
(* That dos_mem_alloc hands out no overlapping memory, for every heap,     *)
(* every header size and all the sizes that are asked for (as long as no   *)
(* address without a node is followed, which rounded sizes never do), and  *)
(* that a pool inside a heap block keeps its blocks.  NoOverlap by itself is not       *)
(* inductive: dos_mem_free follows prev and mem_node_size, so the links    *)
(* have to be right too, except for the one that it is about to set.       *)
(* PoolExact is not either: between two steps of a call the free list and  *)
(* its count are one block apart.                                          *)
(***************************************************************************)
EXTENDS Memp, FiniteSetTheorems, TLAPS

NodeType == [prev : Nat \cup {Null}, size : Nat, used : BOOLEAN]

Typed ==
  /\ nodes = [n \in DOMAIN nodes |-> nodes[n]]
  /\ DOMAIN nodes \subseteq Nat
  /\ \A n \in DOMAIN nodes : nodes[n] \in NodeType

Apart ==
  \A n \in DOMAIN nodes :
    /\ n + NodeWords + nodes[n].size <= HeapWords
    /\ \A k \in DOMAIN nodes : n < k => n + NodeWords + nodes[n].size <= k

(* Node k is the first one after address n.                                *)
First(n, k) == n < k /\ \A i \in DOMAIN nodes : i <= n \/ k <= i

LastIsTail == mem_tail \in DOMAIN nodes /\ \A n \in DOMAIN nodes : n <= mem_tail

(* A node's prev is the node before it, or, during a free, has become part *)
(* of free_node, which is the node before it.                              *)
Linked ==
  \A k \in DOMAIN nodes :
    nodes[k].prev # Null =>
      /\ First(nodes[k].prev, k)
      /\ \/ nodes[k].prev \in DOMAIN nodes
         \/ freeing \in {"forward", "merge", "link"} /\ First(free_node, k)

Freeing ==
  /\ freeing \in {"no", "back", "forward", "merge", "link"}
  /\ freeing # "no" => free_node \in DOMAIN nodes
  /\ freeing = "merge" =>
       /\ next_free \in DOMAIN nodes /\ ~nodes[next_free].used
       /\ next_free = free_node + NodeWords + nodes[free_node].size
  /\ freeing = "link" =>
       \/ free_node = mem_tail
       \/ free_node + NodeWords + nodes[free_node].size \in DOMAIN nodes

Inv == Typed /\ Apart /\ (~corrupt => LastIsTail /\ Linked /\ Freeing)

-----------------------------------------------------------------------------
(* dos_mem_heap_init establishes the invariant.                            *)
LEMMA InitInv == HeapInit => Inv
  BY HeapAssumption DEF HeapInit, Inv, Typed, Apart, LastIsTail, Linked, Freeing, First, Node, NodeType

(* dos_mem_alloc marks a block and cuts what is left of it off, as a node  *)
(* of its own.                                                             *)
Cut(b, s, new, end) ==
  /\ b \in Nat /\ new \in Nat /\ end \in Nat /\ b < new /\ new + NodeWords < end
  /\ \A k \in DOMAIN nodes : k \in Nat /\ (k <= b \/ end <= k)
  /\ Typed' /\ DOMAIN nodes' = DOMAIN nodes \cup {new}
  /\ nodes'[b].size = s /\ nodes'[b].used /\ nodes'[b].prev = nodes[b].prev
  /\ nodes'[new].size = end - new - NodeWords /\ ~nodes'[new].used /\ nodes'[new].prev = b
  /\ \A n \in DOMAIN nodes \ {b} : /\ nodes'[n].size = nodes[n].size /\ nodes'[n].used = nodes[n].used
                                   /\ n # end => nodes'[n].prev = nodes[n].prev
  /\ b = mem_tail => mem_tail' = new /\ UNCHANGED corrupt
  /\ b # mem_tail => /\ UNCHANGED mem_tail
                     /\ end \in DOMAIN nodes => nodes'[end].prev = new /\ UNCHANGED corrupt
                     /\ end \notin DOMAIN nodes => corrupt'

LEMMA CutEffect ==
  ASSUME NEW b \in DOMAIN nodes, NEW s \in Nat, Inv, Alloc(b, s), "heap" \notin usage.shared, Cuts(b, s)
  PROVE  Cut(b, s, b + NodeWords + s, b + NodeWords + nodes[b].size)
<1> DEFINE new == b + NodeWords + s
           end == b + NodeWords + nodes[b].size
           rest == Node(b, Size(b) - s - NodeWords, FALSE)
           taken == [nodes EXCEPT ![b].used = TRUE, ![b].size = s]
           cut == [n \in DOMAIN nodes \cup {new} |-> IF n = new THEN rest ELSE taken[n]]
           linked == [cut EXCEPT ![end].prev = new]
<1>1. /\ Typed /\ Apart /\ nodes[b] \in NodeType /\ b \in Nat /\ nodes[b].size \in Nat
      /\ NodeWords \in Nat \ {0}
  BY HeapAssumption, Zenon DEF Inv, Typed, NodeType
<1>2. /\ rest = [prev |-> b, size |-> nodes[b].size - s - NodeWords, used |-> FALSE]
      /\ nodes[b].size - s > NodeWords /\ rest \in NodeType
      /\ rest.size = nodes[b].size - s - NodeWords
  BY <1>1 DEF Cuts, Size, Node, NodeType
<1>3. new \in Nat /\ end \in Nat /\ b < new /\ new + NodeWords < end /\ rest.size = end - new - NodeWords
  <2> DEFINE whole == nodes[b].size
  <2>1. /\ whole \in Nat /\ whole - s > NodeWords /\ end = b + NodeWords + whole
        /\ rest.size = whole - s - NodeWords
    BY <1>1, <1>2, Zenon
  <2> HIDE DEF whole, rest
  <2> QED BY <2>1, <1>1
<1>4. \A k \in DOMAIN nodes : k \in Nat /\ (k <= b \/ end <= k)
  BY <1>1, <1>3 DEF Apart, Typed
<1>5. new \notin DOMAIN nodes /\ new # b /\ end # b /\ end # new
  BY <1>1, <1>3, <1>4
<1>6. new + NodeWords + rest.size = end
  <2> DEFINE size == rest.size
  <2>1. size = end - new - NodeWords
    BY <1>3, Zenon
  <2> HIDE DEF size
  <2>2. new + NodeWords + size = end
    BY <2>1, <1>1, <1>3
  <2> QED BY <2>2, Zenon DEF size
<1>7. \/ nodes' = cut /\ b = mem_tail /\ mem_tail' = new /\ UNCHANGED corrupt
      \/ nodes' = linked /\ end \in DOMAIN nodes /\ b # mem_tail /\ UNCHANGED <<mem_tail, corrupt>>
      \/ nodes' = cut /\ end \notin DOMAIN nodes /\ b # mem_tail /\ UNCHANGED mem_tail /\ corrupt'
  BY <1>6, Zenon DEF Alloc, AllocFrom
<1>8. /\ DOMAIN taken = DOMAIN nodes /\ \A n \in DOMAIN nodes \ {b} : taken[n] = nodes[n]
      /\ taken[b] = [prev |-> nodes[b].prev, size |-> s, used |-> TRUE]
  BY <1>1, Zenon DEF Typed, NodeType
<1>9. taken[b] \in NodeType
  <2>1. nodes[b].prev \in Nat \cup {Null}
    BY <1>1, Zenon DEF NodeType
  <2> DEFINE p == nodes[b].prev
  <2>2. p \in Nat \cup {Null} /\ taken[b] = [prev |-> p, size |-> s, used |-> TRUE]
    BY <2>1, <1>8, Zenon
  <2> HIDE DEF p, taken
  <2> QED BY <2>2 DEF NodeType
<1>10. /\ DOMAIN cut = DOMAIN nodes \cup {new} /\ cut[new] = rest /\ cut[b] = taken[b]
       /\ \A n \in DOMAIN nodes \ {b} : cut[n] = nodes[n]
       /\ cut = [n \in DOMAIN cut |-> cut[n]]
  <2> HIDE DEF rest, taken
  <2> QED BY <1>5, <1>8, Zenon
<1>11. ASSUME end \in DOMAIN nodes
       PROVE  /\ DOMAIN linked = DOMAIN cut /\ linked = [n \in DOMAIN linked |-> linked[n]]
              /\ \A n \in DOMAIN cut \ {end} : linked[n] = cut[n]
              /\ linked[end] = [prev |-> new, size |-> nodes[end].size, used |-> nodes[end].used]
              /\ linked[end] \in NodeType
  <2> HIDE DEF cut, rest, taken
  <2>1. cut[end] = nodes[end] /\ nodes[end] \in NodeType /\ end \in DOMAIN cut
    BY <1>1, <1>5, <1>10, <1>11, Zenon DEF Typed
  <2>2. linked[end] = [prev |-> new, size |-> nodes[end].size, used |-> nodes[end].used]
    BY <2>1, Zenon DEF NodeType
  <2>3. linked[end] \in NodeType
    BY <2>1, <2>2, <1>3, Zenon DEF NodeType
  <2> QED BY <2>1, <2>2, <2>3, Zenon
<1> HIDE DEF rest, taken, cut, linked, new, end
<1>12. \A n \in DOMAIN nodes : nodes[n] \in NodeType
  BY <1>1, Zenon DEF Typed
<1>13. ASSUME nodes' = cut
       PROVE  /\ Typed' /\ DOMAIN nodes' = DOMAIN nodes \cup {new}
              /\ nodes'[b] = taken[b] /\ nodes'[new] = rest
              /\ \A n \in DOMAIN nodes \ {b} : nodes'[n] = nodes[n]
  BY <1>13, <1>2, <1>3, <1>4, <1>9, <1>10, <1>12, Zenon DEF Typed
<1>14. ASSUME nodes' = linked, end \in DOMAIN nodes
       PROVE  /\ Typed' /\ DOMAIN nodes' = DOMAIN nodes \cup {new}
              /\ nodes'[b] = taken[b] /\ nodes'[new] = rest
              /\ \A n \in DOMAIN nodes \ {b, end} : nodes'[n] = nodes[n]
              /\ nodes'[end] = [prev |-> new, size |-> nodes[end].size, used |-> nodes[end].used]
  BY <1>14, <1>2, <1>3, <1>4, <1>5, <1>9, <1>10, <1>11, <1>12, Zenon DEF Typed
<1>15. /\ taken[b].size = s /\ taken[b].used = TRUE /\ taken[b].prev = nodes[b].prev
       /\ rest.prev = b /\ rest.used = FALSE
  BY <1>2, <1>8
<1>16. Cut(b, s, new, end)
  BY <1>1, <1>3, <1>4, <1>5, <1>7, <1>13, <1>14, <1>15 DEF Cut
<1> QED BY <1>16, Zenon DEF new, end

(* dos_mem_alloc keeps it: the block is cut inside its old bounds, or its  *)
(* size becomes less.                                                      *)
LEMMA AllocInv ==
  ASSUME NEW b \in DOMAIN nodes, NEW s \in Nat, Inv, Alloc(b, s), "heap" \notin usage.shared
  PROVE  Inv'
<1>1. /\ Typed /\ Apart /\ LastIsTail /\ Linked /\ ~corrupt /\ freeing = "no"
      /\ nodes[b] \in NodeType /\ b \in Nat /\ NodeWords \in Nat \ {0} /\ nodes[b].size > s
      /\ UNCHANGED <<freeing, free_node>>
  BY HeapAssumption, Zenon DEF Alloc, AllocFrom, IsBest, Fits, Size, Inv, Freeing, Typed
<1>2. \A n \in DOMAIN nodes : n \in Nat /\ nodes[n].size \in Nat /\ nodes[n] \in NodeType
  BY <1>1, Zenon DEF Typed, NodeType
<1>3. CASE ~Cuts(b, s)
  <2> DEFINE taken == [nodes EXCEPT ![b].used = TRUE, ![b].size = s]
  <2>1. nodes' = taken /\ UNCHANGED <<mem_tail, corrupt>>
    BY <1>3, Zenon DEF Alloc, AllocFrom
  <2>2. /\ taken = [n \in DOMAIN nodes |-> taken[n]] /\ DOMAIN taken = DOMAIN nodes
        /\ \A n \in DOMAIN nodes \ {b} : taken[n] = nodes[n]
        /\ taken[b] = [prev |-> nodes[b].prev, size |-> s, used |-> TRUE]
    BY <1>1, Zenon DEF Typed, NodeType
  <2> HIDE DEF taken
  <2>3. taken[b] \in NodeType
    <3> DEFINE p == nodes[b].prev
    <3>1. p \in Nat \cup {Null} /\ taken[b] = [prev |-> p, size |-> s, used |-> TRUE]
      BY <1>1, <2>2, Zenon DEF NodeType
    <3> HIDE DEF p
    <3> QED BY <3>1 DEF NodeType
  <2>4. Typed'
    BY <2>1, <2>2, <2>3, <1>2, Zenon DEF Typed
  <2>5. Apart'
    <3>1. \A n \in DOMAIN nodes : taken[n].size \in Nat /\ taken[n].size <= nodes[n].size
      BY <2>2, <1>1, <1>2
    <3> QED BY <2>1, <2>2, <3>1, <1>1, <1>2, HeapAssumption DEF Apart
  <2>6. LastIsTail' /\ Linked' /\ Freeing'
    BY <2>1, <2>2, <1>1 DEF LastIsTail, Linked, First, Freeing
  <2> QED BY <2>4, <2>5, <2>6, Zenon DEF Inv
<1>4. CASE Cuts(b, s)
  <2> DEFINE new == b + NodeWords + s
             end == b + NodeWords + nodes[b].size
  <2>0. Cut(b, s, new, end)
    BY <1>4, CutEffect, Zenon
  <2>1. /\ new \in Nat /\ end \in Nat /\ b < new /\ new + NodeWords < end
        /\ \A k \in DOMAIN nodes : k <= b \/ end <= k
        /\ Typed' /\ DOMAIN nodes' = DOMAIN nodes \cup {new}
        /\ nodes'[b].size = s /\ nodes'[b].prev = nodes[b].prev
        /\ nodes'[new].size = end - new - NodeWords /\ nodes'[new].prev = b
        /\ \A n \in DOMAIN nodes \ {b} :
             nodes'[n].size = nodes[n].size /\ (n # end => nodes'[n].prev = nodes[n].prev)
    BY <2>0, Zenon DEF Cut
  <2>2. /\ b = mem_tail => mem_tail' = new
        /\ b # mem_tail => UNCHANGED mem_tail
        /\ b # mem_tail /\ ~corrupt' => end \in DOMAIN nodes /\ nodes'[end].prev = new
    BY <2>0, Zenon DEF Cut
  <2>3. \A n \in DOMAIN nodes : /\ n + NodeWords + nodes[n].size <= HeapWords
                                /\ n < b => n + NodeWords + nodes[n].size <= b
                                /\ \A k \in DOMAIN nodes : n < k => n + NodeWords + nodes[n].size <= k
    BY <1>1, Zenon DEF Apart
  <2>4. end <= HeapWords
    BY <2>3, Zenon
  <2> HIDE DEF end
  <2>5. /\ new + NodeWords + nodes'[new].size = end
        /\ b + NodeWords + nodes'[b].size = new
    BY <1>1, <2>1
  <2> HIDE DEF new
  <2>6. Apart'
    <3>1. SUFFICES ASSUME NEW n \in DOMAIN nodes'
                   PROVE  /\ n + NodeWords + nodes'[n].size <= HeapWords
                          /\ \A k \in DOMAIN nodes' : n < k => n + NodeWords + nodes'[n].size <= k
      BY Zenon DEF Apart
    <3>2. \A k \in DOMAIN nodes : k \in Nat /\ (k <= b \/ end <= k)
      BY <2>1, Zenon DEF Inv, Typed
    <3>3. CASE n = b
      BY <3>2, <3>3, <1>1, <2>1, <2>4, <2>5, HeapAssumption
    <3>4. CASE n = new
      BY <3>2, <3>4, <1>1, <2>1, <2>4, <2>5, HeapAssumption
    <3>5. CASE n \in DOMAIN nodes \ {b}
      <4>1. nodes'[n].size = nodes[n].size
        BY <3>5, <2>1, Zenon
      <4> QED BY <3>2, <3>5, <4>1, <1>1, <1>2, <2>1, <2>3, HeapAssumption
    <3> QED BY <3>1, <3>3, <3>4, <3>5, <2>1, Zenon
  <2>7. ASSUME ~corrupt' PROVE LastIsTail' /\ Linked' /\ Freeing'
    <3>1. LastIsTail'
      BY <1>1, <1>2, <2>1, <2>2, <2>7 DEF LastIsTail
    <3>2. \A k \in DOMAIN nodes : nodes[k].prev # Null =>
             /\ nodes[k].prev \in DOMAIN nodes /\ nodes[k].prev < k
             /\ \A i \in DOMAIN nodes : i <= nodes[k].prev \/ k <= i
      BY <1>1, Zenon DEF Linked, First
    <3>3. \A k \in DOMAIN nodes : nodes'[k].prev # Null =>
             /\ nodes'[k].prev \in DOMAIN nodes' /\ nodes'[k].prev < k
             /\ \A i \in DOMAIN nodes' : i <= nodes'[k].prev \/ k <= i
      BY <1>1, <1>2, <2>1, <2>2, <2>7, <3>2 DEF LastIsTail
    <3>4. b < new /\ \A i \in DOMAIN nodes' : i <= b \/ new <= i
      BY <1>1, <1>2, <2>1
    <3>5. Linked'
      BY <2>1, <3>3, <3>4, Zenon DEF Linked, First
    <3> QED BY <1>1, <3>1, <3>5, Zenon DEF Freeing
  <2> QED BY <2>1, <2>6, <2>7, Zenon DEF Inv
<1> QED BY <1>3, <1>4, Zenon

(* The steps of dos_mem_free keep it: first the block is marked ...         *)
LEMMA ReleaseEffect ==
  ASSUME NEW n \in DOMAIN nodes, Inv, Release(n)
  PROVE  /\ Typed' /\ DOMAIN nodes' = DOMAIN nodes
         /\ \A k \in DOMAIN nodes : /\ nodes'[k].size = nodes[k].size /\ nodes'[k].prev = nodes[k].prev
                                    /\ k # n => nodes'[k].used = nodes[k].used
         /\ ~nodes'[n].used
<1>1. Typed /\ nodes[n] \in NodeType /\ nodes' = [nodes EXCEPT ![n].used = FALSE]
  BY Zenon DEF Release, Inv, Typed
<1>2. /\ DOMAIN nodes' = DOMAIN nodes /\ nodes' = [k \in DOMAIN nodes' |-> nodes'[k]]
      /\ \A k \in DOMAIN nodes \ {n} : nodes'[k] = nodes[k]
      /\ nodes'[n] = [prev |-> nodes[n].prev, size |-> nodes[n].size, used |-> FALSE]
  BY <1>1, Zenon DEF Typed, NodeType
<1>3. /\ nodes'[n] \in NodeType /\ nodes'[n].size = nodes[n].size /\ nodes'[n].prev = nodes[n].prev
      /\ nodes'[n].used = FALSE
  BY <1>1, <1>2, Zenon DEF NodeType
<1>4. Typed'
  BY <1>1, <1>2, <1>3, Zenon DEF Typed
<1> QED BY <1>2, <1>3, <1>4, Zenon

LEMMA ReleaseInv ==
  ASSUME NEW n \in DOMAIN nodes, Inv, Release(n)
  PROVE  Inv'
<1>1. /\ Apart /\ LastIsTail /\ Linked /\ freeing = "no"
      /\ free_node' = n /\ freeing' = "back" /\ UNCHANGED <<mem_tail, corrupt>>
  BY Zenon DEF Release, Inv
<1>2. Apart' /\ LastIsTail' /\ Linked' /\ Freeing'
  BY <1>1, ReleaseEffect, Zenon DEF Apart, LastIsTail, Linked, First, Freeing
<1> QED BY <1>2, ReleaseEffect, Zenon DEF Inv

(* ... then the blocks are only looked at ...                              *)
LEMMA SearchInv == ~corrupt /\ Inv /\ (GoBack \/ GoForward) => Inv'
<1> SUFFICES ASSUME ~corrupt, Inv, GoBack \/ GoForward PROVE Inv'
  BY Zenon
<1>1. /\ Typed /\ Apart /\ LastIsTail /\ Linked /\ Freeing /\ ~corrupt
      /\ UNCHANGED <<nodes, mem_tail>>
  BY Zenon DEF GoBack, GoForward, Inv
<1>2. Typed' /\ Apart' /\ LastIsTail'
  BY <1>1, Zenon DEF Typed, Apart, LastIsTail
<1>3. CASE GoBack
  <2>1. Linked' /\ Freeing'
    BY <1>1, <1>3, Zenon DEF GoBack, Linked, First, Freeing
  <2> QED BY <1>2, <2>1, Zenon DEF Inv
<1>4. CASE GoForward
  <2> DEFINE k == free_node + NodeWords + nodes[free_node].size
  <2>0. freeing = "forward" /\ UNCHANGED free_node /\ NextNode(free_node) = (IF free_node = mem_tail THEN Null ELSE k)
    BY <1>4, Zenon DEF GoForward, NextNode, NextAddress, Size
  <2>1. ~corrupt' => Linked' /\ Freeing'
    <3> SUFFICES ASSUME ~corrupt' PROVE Linked' /\ Freeing'
      BY Zenon
    <3> HIDE DEF k
    <3>0. k \in Nat
      BY <1>1, <2>0, HeapAssumption DEF Freeing, Typed, NodeType, k
    <3>1. Null \notin DOMAIN nodes /\ k # Null
      BY <3>0, <1>1, HeapAssumption, Zenon DEF Typed
    <3> DEFINE found == NextNode(free_node)
    <3>5. \/ freeing' = "link" /\ (found = Null \/ found \in DOMAIN nodes)
          \/ freeing' = "merge" /\ next_free' = found /\ found \in DOMAIN nodes /\ ~nodes[found].used
      BY <1>4, Zenon DEF GoForward
    <3> HIDE DEF found
    <3>6. found = (IF free_node = mem_tail THEN Null ELSE k)
      BY <2>0, Zenon DEF found
    <3>2. \/ freeing' = "link" /\ (free_node = mem_tail \/ k \in DOMAIN nodes)
          \/ freeing' = "merge" /\ next_free' = k /\ k \in DOMAIN nodes /\ ~nodes[k].used
      BY <3>1, <3>5, <3>6, Zenon
    <3>3. Linked'
      BY <1>1, <2>0, <3>2, Zenon DEF Linked, First
    <3>4. Freeing'
      BY <1>1, <2>0, <3>2, Zenon DEF Freeing, k
    <3> QED BY <3>3, <3>4, Zenon
  <2> QED BY <1>2, <2>1, Zenon DEF Inv
<1> QED BY <1>3, <1>4, Zenon

(* ... a free block that is taken in leaves its bounds to the one before ...*)
LEMMA MergeEffect ==
  ASSUME ~corrupt, Inv, Merge, NEW f, f = free_node, NEW m, m = next_free
  PROVE  /\ f \in DOMAIN nodes /\ m \in DOMAIN nodes /\ ~nodes[m].used
         /\ f \in Nat /\ m \in Nat /\ f < m /\ m = f + NodeWords + nodes[f].size
         /\ nodes[f].size \in Nat /\ nodes[m].size \in Nat
         /\ Typed' /\ DOMAIN nodes' = DOMAIN nodes \ {m}
         /\ nodes'[f].size = nodes[f].size + NodeWords + nodes[m].size
         /\ \A n \in DOMAIN nodes \ {m} :
              /\ n # f => nodes'[n].size = nodes[n].size
              /\ nodes'[n].used = nodes[n].used /\ nodes'[n].prev = nodes[n].prev
         /\ mem_tail' = (IF m = mem_tail THEN f ELSE mem_tail) /\ ~corrupt'
<1> DEFINE grown == [nodes EXCEPT ![f].size = MergedSize(f, m)]
<1>1. /\ Typed /\ Freeing /\ f \in DOMAIN nodes /\ m \in DOMAIN nodes /\ ~nodes[m].used
      /\ m = f + NodeWords + nodes[f].size
      /\ {nodes[f], nodes[m]} \subseteq NodeType
      /\ nodes' = [n \in DOMAIN nodes \ {m} |-> grown[n]]
      /\ mem_tail' = (IF m = mem_tail THEN f ELSE mem_tail) /\ ~corrupt'
  BY Zenon DEF Merge, Inv, Freeing, Typed, Restrict, TailAfter
<1>2. f \in Nat /\ m \in Nat /\ f < m /\ {nodes[f].size, nodes[m].size} \subseteq Nat
  BY <1>1, HeapAssumption DEF Typed, NodeType
<1>3. /\ DOMAIN nodes' = DOMAIN nodes \ {m} /\ nodes' = [n \in DOMAIN nodes' |-> nodes'[n]]
      /\ \A n \in DOMAIN nodes \ {f, m} : nodes'[n] = nodes[n]
      /\ nodes'[f] = [prev |-> nodes[f].prev, size |-> MergedSize(f, m), used |-> nodes[f].used]
  BY <1>1, <1>2 DEF NodeType
<1>4. MergedSize(f, m) = nodes[f].size + NodeWords + nodes[m].size /\ MergedSize(f, m) \in Nat
  BY <1>1, <1>2, HeapAssumption DEF MergedSize, Size
<1> HIDE DEF grown
<1>5. /\ nodes'[f] \in NodeType /\ nodes'[f].size = MergedSize(f, m) /\ nodes'[f].prev = nodes[f].prev
      /\ nodes'[f].used = nodes[f].used
  BY <1>1, <1>3, <1>4 DEF NodeType
<1>6. Typed'
  BY <1>1, <1>3, <1>5, Zenon DEF Typed
<1> QED BY <1>1, <1>2, <1>3, <1>4, <1>5, <1>6, Zenon

LEMMA MergeInv == ~corrupt /\ Inv /\ Merge => Inv'
<1> SUFFICES ASSUME ~corrupt, Inv, Merge PROVE Inv'
  BY Zenon
<1> DEFINE f == free_node
           m == next_free
<1>1. /\ Typed /\ Apart /\ LastIsTail /\ Linked /\ Freeing
      /\ freeing = "merge" /\ freeing' = "forward" /\ free_node' = f
  BY Zenon DEF Merge, Inv
<1>2. /\ f \in DOMAIN nodes /\ m \in DOMAIN nodes /\ ~nodes[m].used
      /\ f \in Nat /\ m \in Nat /\ f < m /\ m = f + NodeWords + nodes[f].size
      /\ nodes[f].size \in Nat /\ nodes[m].size \in Nat
      /\ Typed' /\ DOMAIN nodes' = DOMAIN nodes \ {m}
      /\ nodes'[f].size = nodes[f].size + NodeWords + nodes[m].size
      /\ mem_tail' = (IF m = mem_tail THEN f ELSE mem_tail) /\ ~corrupt'
  BY MergeEffect
<1>3. \A n \in DOMAIN nodes \ {m} :
        /\ n # f => nodes'[n].size = nodes[n].size
        /\ nodes'[n].used = nodes[n].used /\ nodes'[n].prev = nodes[n].prev
  BY MergeEffect, Zenon
<1> HIDE DEF f, m
<1>4. f + NodeWords + nodes'[f].size = m + NodeWords + nodes[m].size
  BY <1>2, HeapAssumption
<1>7. \A k \in DOMAIN nodes : k \in Nat /\ nodes[k].size \in Nat
  BY <1>1, Zenon DEF Typed, NodeType
<1>8. \A k \in DOMAIN nodes \ {m} : f < k => m < k
  BY <1>1, <1>2, <1>7 DEF Apart
<1>9. Apart'
  <2>1. SUFFICES ASSUME NEW n \in DOMAIN nodes \ {m}
                 PROVE  /\ n + NodeWords + nodes'[n].size <= HeapWords
                        /\ \A k \in DOMAIN nodes \ {m} : n < k => n + NodeWords + nodes'[n].size <= k
    BY <1>2, Zenon DEF Apart
  <2>2. CASE n = f
    <3>1. n + NodeWords + nodes'[n].size = m + NodeWords + nodes[m].size
      BY <2>2, <1>4, Zenon
    <3>2. \A k \in DOMAIN nodes \ {m} : n < k => m < k
      BY <2>2, <1>8, Zenon
    <3> QED BY <3>1, <3>2, <1>1, <1>2, Zenon DEF Apart
  <2>3. CASE n # f
    BY <2>1, <2>3, <1>1, <1>3, Zenon DEF Apart
  <2> QED BY <2>2, <2>3, Zenon
<1>10. LastIsTail'
  BY <1>1, <1>2, <1>3, <1>7, <1>8 DEF LastIsTail
<1>11. Linked'
  <2>1. SUFFICES ASSUME NEW k \in DOMAIN nodes \ {m}, nodes[k].prev # Null
                 PROVE  /\ nodes[k].prev < k /\ \A i \in DOMAIN nodes \ {m} : i <= nodes[k].prev \/ k <= i
                        /\ \/ nodes[k].prev \in DOMAIN nodes \ {m}
                           \/ f < k /\ \A i \in DOMAIN nodes \ {m} : i <= f \/ k <= i
    BY <1>1, <1>2, <1>3, Zenon DEF Linked, First
  <2>2. /\ nodes[k].prev < k /\ \A i \in DOMAIN nodes : i <= nodes[k].prev \/ k <= i
        /\ \/ nodes[k].prev \in DOMAIN nodes
           \/ f < k /\ \A i \in DOMAIN nodes : i <= f \/ k <= i
    BY <1>1, <2>1, Zenon DEF Linked, First, f
  <2>3. CASE nodes[k].prev = m
    BY <1>1, <1>2, <1>7, <1>8, <2>2, <2>3
  <2>4. CASE nodes[k].prev # m
    BY <2>2, <2>4, Zenon
  <2> QED BY <2>3, <2>4, Zenon
<1>12. Freeing'
  BY <1>1, <1>2, <1>3 DEF Freeing
<1> QED BY <1>2, <1>9, <1>10, <1>11, <1>12, Zenon DEF Inv

(* ... and the last step sets the one link that was wrong.                 *)
LEMMA LinkEffect ==
  ASSUME ~corrupt, Inv, Link, NEW k, k = free_node + NodeWords + nodes[free_node].size
  PROVE  /\ free_node \in DOMAIN nodes /\ free_node \in Nat /\ k \in Nat /\ free_node < k
         /\ Typed' /\ DOMAIN nodes' = DOMAIN nodes /\ ~corrupt'
         /\ \A n \in DOMAIN nodes : /\ nodes'[n].size = nodes[n].size /\ nodes'[n].used = nodes[n].used
                                    /\ n # k => nodes'[n].prev = nodes[n].prev
         /\ IF free_node = mem_tail THEN UNCHANGED nodes ELSE k \in DOMAIN nodes /\ nodes'[k].prev = free_node
<1>1. /\ Typed /\ Freeing /\ freeing = "link" /\ free_node \in DOMAIN nodes
      /\ free_node \in Nat /\ k \in Nat /\ free_node < k
  BY HeapAssumption DEF Link, Inv, Freeing, Typed, NodeType
<1>2. CASE free_node = mem_tail
  <2>1. UNCHANGED nodes /\ ~corrupt'
    BY <1>2, <1>1, HeapAssumption, Zenon DEF Link, NextNode, Typed
  <2> QED BY <1>1, <1>2, <2>1, Zenon DEF Typed
<1>3. CASE free_node # mem_tail
  <2>1. k \in DOMAIN nodes /\ nodes[k] \in NodeType
    BY <1>1, <1>3, Zenon DEF Freeing, Typed
  <2>2. nodes' = [nodes EXCEPT ![k].prev = free_node] /\ ~corrupt'
    BY <1>3, <2>1, Zenon DEF Link, NextNode, NextAddress, Size, PrevAfter
  <2>3. /\ DOMAIN nodes' = DOMAIN nodes /\ nodes' = [n \in DOMAIN nodes' |-> nodes'[n]]
        /\ \A n \in DOMAIN nodes \ {k} : nodes'[n] = nodes[n]
        /\ nodes'[k] = [prev |-> free_node, size |-> nodes[k].size, used |-> nodes[k].used]
    BY <1>1, <2>1, <2>2, Zenon DEF Typed, NodeType
  <2>4. /\ nodes'[k] \in NodeType /\ nodes'[k].size = nodes[k].size /\ nodes'[k].prev = free_node
        /\ nodes'[k].used = nodes[k].used
    BY <1>1, <2>1, <2>3 DEF NodeType
  <2>5. Typed'
    BY <1>1, <2>3, <2>4, Zenon DEF Typed
  <2> QED BY <1>1, <1>3, <2>1, <2>2, <2>3, <2>4, <2>5, Zenon
<1> QED BY <1>2, <1>3, Zenon

LEMMA LinkInv == ~corrupt /\ Inv /\ Link => Inv'
<1> SUFFICES ASSUME ~corrupt, Inv, Link PROVE Inv'
  BY Zenon
<1> DEFINE k == free_node + NodeWords + nodes[free_node].size
<1>1. /\ Typed /\ Apart /\ LastIsTail /\ Linked /\ Freeing /\ freeing = "link"
      /\ freeing' = "no" /\ UNCHANGED mem_tail
  BY Zenon DEF Link, Inv
<1>2. /\ free_node \in DOMAIN nodes /\ free_node \in Nat /\ k \in Nat /\ free_node < k
      /\ Typed' /\ DOMAIN nodes' = DOMAIN nodes
      /\ \A n \in DOMAIN nodes : /\ nodes'[n].size = nodes[n].size
                                 /\ n # k => nodes'[n].prev = nodes[n].prev
  BY LinkEffect
<1>3. IF free_node = mem_tail THEN UNCHANGED nodes ELSE k \in DOMAIN nodes /\ nodes'[k].prev = free_node
  BY LinkEffect, Zenon
<1>4. \A n \in DOMAIN nodes : n \in Nat /\ (free_node < n => k <= n)
  BY <1>1, <1>2, Zenon DEF Typed, Apart
<1> HIDE DEF k
<1>5. Apart' /\ LastIsTail' /\ Freeing'
  BY <1>1, <1>2, Zenon DEF Apart, LastIsTail, Freeing
<1>6. Linked'
  <2>1. CASE free_node = mem_tail
    <3>1. UNCHANGED nodes /\ \A n \in DOMAIN nodes : n \in Nat /\ ~(free_node < n)
      BY <2>1, <1>1, <1>2, <1>3 DEF LastIsTail, Typed
    <3> QED BY <3>1, <1>1, Zenon DEF Linked, First
  <2>2. CASE free_node # mem_tail
    BY <2>2, <1>1, <1>2, <1>3, <1>4 DEF Linked, First
  <2> QED BY <2>1, <2>2, Zenon
<1> QED BY <1>2, <1>5, <1>6, Zenon DEF Inv

(* Every step of the heap and the pool is one of these for the heap.       *)
LEMMA HeapStep ==
  ASSUME [Next]_vars
  PROVE  /\ UNCHANGED usage
         /\ corrupt => corrupt'
         /\ \/ UNCHANGED heapVars
            \/ \E b \in DOMAIN nodes, s \in usage.sizes : Alloc(b, s)
            \/ \E n \in DOMAIN nodes : Release(n)
            \/ GoBack \/ GoForward \/ Merge \/ Stray \/ Link
<1>1. CASE UNCHANGED heapVars
  BY <1>1, Zenon DEF heapVars
<1>2. ASSUME NEW b \in DOMAIN nodes, NEW s \in usage.sizes, Alloc(b, s) PROVE UNCHANGED usage /\ ~corrupt
  BY <1>2, Zenon DEF Alloc, AllocFrom
<1>3. CASE Create
  BY <1>2, <1>3, Zenon DEF Create
<1>4. ASSUME NEW n \in DOMAIN nodes, Release(n) PROVE UNCHANGED usage /\ ~corrupt
  BY <1>4, Zenon DEF Release
<1>5. CASE GoBack \/ GoForward \/ Merge \/ Stray \/ Link
  <2>1. UNCHANGED usage
    BY <1>5, Zenon DEF GoBack, GoForward, Merge, Stray, Link
  <2>2. CASE GoBack \/ GoForward
    <3>1. UNCHANGED corrupt
      BY <2>2, Zenon DEF GoBack, GoForward
    <3> QED BY <2>1, <2>2, <3>1, Zenon
  <2>3. CASE Merge
    BY <2>1, <2>3, Zenon DEF Merge
  <2>4. CASE Stray
    BY <2>1, <2>4, Zenon DEF Stray
  <2>5. CASE Link
    <3>1. corrupt => corrupt'
      BY <2>5, Zenon DEF Link
    <3> QED BY <2>1, <2>5, <3>1, Zenon
  <2> QED BY <1>5, <2>2, <2>3, <2>4, <2>5, Zenon
<1>6. ASSUME NEW t \in Tasks, PoolAlloc(t) \/ Take(t) \/ Unlink(t) \/ Put(t) \/ \E b \in Blocks : PoolFree(t, b)
      PROVE  UNCHANGED heapVars
  BY <1>6, Zenon DEF PoolAlloc, Take, Unlink, Put, PoolFree
<1> QED BY <1>1, <1>2, <1>3, <1>4, <1>5, <1>6, Zenon DEF Next, vars

(* The invariant holds, of a heap whose calls do not interleave, until one *)
(* of them meets an address without a node.                                *)
HeapInv == usage \in Usages /\ ("heap" \notin usage.shared /\ ~corrupt => Inv)

LEMMA Invariance == Spec => []HeapInv
<1> DEFINE IInv == usage \in Usages /\ ("heap" \notin usage.shared /\ ~corrupt => Inv)
<1>1. Init => IInv
  BY InitInv, Zenon DEF Init, HeapInit
<1>2. IInv /\ [Next]_vars => IInv'
  <2> SUFFICES ASSUME IInv, [Next]_vars PROVE IInv'
    BY Zenon
  <2>1. usage.sizes \subseteq Nat
    BY HeapAssumption, Zenon DEF UsageType
  <2>2. SUFFICES ASSUME "heap" \notin usage.shared, ~corrupt, ~corrupt', Inv PROVE Inv'
    BY HeapStep, Zenon
  <2>3. CASE UNCHANGED heapVars
    BY <2>2, <2>3 DEF heapVars, Inv, Typed, Apart, LastIsTail, Linked, First, Freeing
  <2>4. ASSUME NEW b \in DOMAIN nodes, NEW s \in usage.sizes, Alloc(b, s) PROVE Inv'
    BY <2>1, <2>2, <2>4, AllocInv, Zenon
  <2>5. ASSUME NEW n \in DOMAIN nodes, Release(n) PROVE Inv'
    BY <2>2, <2>5, ReleaseInv, Zenon
  <2>6. ~Stray
    BY <2>2, Zenon DEF Stray
  <2> QED BY <2>2, <2>3, <2>4, <2>5, <2>6, HeapStep, SearchInv, MergeInv, LinkInv, Zenon
<1> QED BY <1>1, <1>2, PTL DEF Spec, HeapInv

-----------------------------------------------------------------------------
(* The pool: while its heap block is in use nothing else changes it ...    *)
Inside ==
  /\ memp # Null =>
       /\ memp - NodeWords \in DOMAIN nodes /\ memp \in Nat
       /\ nodes[memp - NodeWords].used /\ nodes[memp - NodeWords].size = PoolWords
  /\ freeing # "no" => ~nodes[free_node].used

(* ... since no other block is touched by dos_mem_alloc.                   *)
LEMMA AllocTakes ==
  ASSUME NEW b \in DOMAIN nodes, NEW s \in Nat, Inv, Alloc(b, s), "heap" \notin usage.shared
  PROVE  /\ ~nodes[b].used /\ freeing = "no" /\ freeing' = "no"
         /\ b \in DOMAIN nodes' /\ nodes'[b].used /\ nodes'[b].size = s
         /\ \A n \in DOMAIN nodes \ {b} : /\ n \in DOMAIN nodes' /\ nodes'[n].used = nodes[n].used
                                          /\ nodes'[n].size = nodes[n].size
<1>1. ~nodes[b].used /\ freeing = "no" /\ freeing' = "no"
  BY Zenon DEF Alloc, AllocFrom, IsBest, Fits
<1>2. CASE Cuts(b, s)
  <2>1. Cut(b, s, b + NodeWords + s, b + NodeWords + nodes[b].size)
    BY <1>2, CutEffect, Zenon
  <2> QED BY <1>1, <2>1, Zenon DEF Cut
<1>3. CASE ~Cuts(b, s)
  <2>1. nodes' = [nodes EXCEPT ![b].used = TRUE, ![b].size = s] /\ Typed /\ nodes[b] \in NodeType
    BY <1>3, Zenon DEF Alloc, AllocFrom, Inv, Typed
  <2>2. /\ DOMAIN nodes' = DOMAIN nodes /\ \A n \in DOMAIN nodes \ {b} : nodes'[n] = nodes[n]
        /\ nodes'[b] = [prev |-> nodes[b].prev, size |-> s, used |-> TRUE]
    BY <2>1, Zenon DEF Typed, NodeType
  <2>3. nodes'[b].used /\ nodes'[b].size = s
    BY <2>2
  <2> QED BY <1>1, <2>2, <2>3, Zenon
<1> QED BY <1>2, <1>3, Zenon

LEMMA InsideStep ==
  ASSUME usage \in Usages, "heap" \notin usage.shared, ~corrupt, ~corrupt', Inv, Inside, [Next]_vars
  PROVE  Inside'
<1> DEFINE h == memp - NodeWords
<1>0. /\ NodeWords \in Nat /\ Null \notin Nat /\ PoolWords \in Nat
      /\ \A n \in DOMAIN nodes : n \in Nat
  BY HeapAssumption, MempAssumption DEF Inv, Typed, PoolWords, memp_cnt
<1>1. usage.sizes \subseteq Nat
  BY HeapAssumption, Zenon DEF UsageType
<1>2. CASE UNCHANGED <<heapVars, memp>>
  BY <1>2, Zenon DEF Inside, heapVars
<1>3. ASSUME NEW b \in DOMAIN nodes, NEW s \in usage.sizes, Alloc(b, s), UNCHANGED memp PROVE Inside'
  <2>1. s \in Nat
    BY <1>1, Zenon
  <2>2. /\ ~nodes[b].used /\ freeing' = "no"
        /\ \A n \in DOMAIN nodes \ {b} : /\ n \in DOMAIN nodes' /\ nodes'[n].used = nodes[n].used
                                         /\ nodes'[n].size = nodes[n].size
    BY <2>1, <1>3, AllocTakes, Zenon
  <2>3. memp # Null => b # h
    BY <2>2, Zenon DEF Inside
  <2> QED BY <1>3, <2>2, <2>3, Zenon DEF Inside
<1>4. CASE Create
  <2>1. PICK b \in DOMAIN nodes : Alloc(b, PoolWords) /\ memp' = b + NodeWords
    BY <1>4, Zenon DEF Create
  <2>2. freeing' = "no" /\ b \in DOMAIN nodes' /\ nodes'[b].used /\ nodes'[b].size = PoolWords
    BY <2>1, <1>0, AllocTakes, Zenon
  <2>3. memp' - NodeWords = b /\ memp' \in Nat
    BY <2>1, <1>0
  <2> QED BY <2>2, <2>3, Zenon DEF Inside
<1>5. ASSUME NEW n \in DOMAIN nodes, n + NodeWords # memp, Release(n), UNCHANGED memp PROVE Inside'
  <2>1. /\ free_node' = n /\ DOMAIN nodes' = DOMAIN nodes /\ ~nodes'[n].used
        /\ \A k \in DOMAIN nodes : nodes'[k].size = nodes[k].size /\ (k # n => nodes'[k].used = nodes[k].used)
    BY <1>5, ReleaseEffect, Zenon DEF Release
  <2>2. memp # Null => h # n
    BY <1>0, <1>5 DEF Inside
  <2> QED BY <1>5, <2>1, <2>2, Zenon DEF Inside
<1>6. ASSUME GoBack \/ GoForward, UNCHANGED memp PROVE Inside'
  <2>1. freeing # "no"
    BY <1>6, Zenon DEF GoBack, GoForward
  <2>2. UNCHANGED nodes /\ ~nodes'[free_node'].used
    BY <1>6, <2>1, Zenon DEF GoBack, GoForward, IsFree, Inside
  <2> QED BY <1>6, <2>1, <2>2, Zenon DEF Inside
<1>7. ASSUME Merge, UNCHANGED memp PROVE Inside'
  <2> DEFINE f == free_node
             m == next_free
  <2>1. /\ f \in DOMAIN nodes /\ ~nodes[m].used /\ DOMAIN nodes' = DOMAIN nodes \ {m} /\ f # m
    <3>1. f \in DOMAIN nodes /\ ~nodes[m].used /\ DOMAIN nodes' = DOMAIN nodes \ {m}
      BY <1>7, MergeEffect, Zenon
    <3>2. f < m /\ f \in Nat /\ m \in Nat
      BY <1>7, MergeEffect, Zenon
    <3> QED BY <3>1, <3>2
  <2>2. \A n \in DOMAIN nodes \ {m} : (n # f => nodes'[n].size = nodes[n].size) /\ nodes'[n].used = nodes[n].used
    <3>1. \A n \in DOMAIN nodes \ {m} :
              /\ n # f => nodes'[n].size = nodes[n].size
              /\ nodes'[n].used = nodes[n].used /\ nodes'[n].prev = nodes[n].prev
      BY <1>7, MergeEffect, Zenon
    <3> QED BY <3>1, Zenon
  <2>3. free_node' = f /\ ~nodes[f].used
    BY <1>7, Zenon DEF Merge, Inside
  <2> HIDE DEF f, m
  <2>4. memp # Null => h \in DOMAIN nodes \ {f, m}
    BY <2>1, <2>3, Zenon DEF Inside
  <2> QED BY <1>7, <2>1, <2>2, <2>3, <2>4, Zenon DEF Inside
<1>8. ASSUME Link, UNCHANGED memp PROVE Inside'
  <2>1. /\ DOMAIN nodes' = DOMAIN nodes
        /\ \A n \in DOMAIN nodes : nodes'[n].size = nodes[n].size /\ nodes'[n].used = nodes[n].used
    BY <1>8, LinkEffect, Zenon
  <2>2. freeing' = "no"
    BY <1>8, Zenon DEF Link
  <2> QED BY <1>8, <2>1, <2>2, Zenon DEF Inside
<1>9. ASSUME NEW t \in Tasks, PoolAlloc(t) \/ Take(t) \/ Unlink(t) \/ Put(t) \/ \E b \in Blocks : PoolFree(t, b)
      PROVE  Inside'
  BY <1>2, <1>9, Zenon DEF PoolAlloc, Take, Unlink, Put, PoolFree
<1>10. ~Stray
  BY Zenon DEF Stray
<1> QED BY <1>2, <1>3, <1>4, <1>5, <1>6, <1>7, <1>8, <1>9, <1>10, Zenon DEF Next, vars, poolVars

(* ... and the free list: l[1], ..., l[k], linked in this order, without   *)
(* the block that a call is taking out or putting in.                      *)
Top(l, k) == IF k = 0 THEN Null ELSE l[1]

Listed(l, k) ==
  /\ \A i \in 1 .. k : next[l[i]] = IF i = k THEN Null ELSE l[i + 1]
  /\ \A i, j \in 1 .. k : l[i] = l[j] => i = j

Shares(l, k) ==
  /\ \A b \in Blocks : \/ \E i \in 1 .. k : l[i] = b
                       \/ status[b] /\ \E t \in Tasks : b \in mine[t] \/ (pc[t] = "put" /\ node[t] = b)
  /\ \A t \in Tasks : \A i \in 1 .. k : l[i] \notin mine[t]
  /\ \A t, u \in Tasks : t # u => mine[t] \cap mine[u] = {}

Counts(l, k) ==
  /\ (\A t \in Tasks : pc[t] \in {"app", "take"}) => memp_free = Top(l, k) /\ memp_free_count = k
  /\ \A t \in Tasks : pc[t] = "unlink" =>
       k > 0 /\ memp_free = l[1] /\ node[t] = l[1] /\ memp_free_count = k - 1
  /\ \A t \in Tasks : pc[t] = "put" =>
       /\ memp_free = node[t] /\ next_node[t] = Top(l, k) /\ memp_free_count = k /\ k < memp_cnt
       /\ node[t] \in Blocks /\ \A i \in 1 .. k : l[i] # node[t]
       /\ \A u \in Tasks : node[t] \notin mine[u]

PoolTyped ==
  /\ pc \in [Tasks -> {"app", "take", "unlink", "put"}]
  /\ mine \in [Tasks -> SUBSET Blocks]
  /\ next \in [Blocks -> Blocks \cup {Null}] /\ status \in [Blocks -> BOOLEAN]
  /\ node \in [Tasks -> Blocks \cup {Null}] /\ next_node \in [Tasks -> Blocks \cup {Null}]

FreeList(l, k) == Listed(l, k) /\ Shares(l, k) /\ Counts(l, k)

PoolInv ==
  /\ PoolTyped
  /\ \A t, u \in Tasks : pc[t] # "app" /\ pc[u] # "app" => t = u
  /\ memp = Null => \A t \in Tasks : pc[t] = "app" /\ mine[t] = {}
  /\ memp # Null => \E k \in 0 .. memp_cnt : \E l \in [1 .. k -> Blocks] : FreeList(l, k)

LEMMA PoolSize == memp_cnt \in Nat \ {0} /\ memp_cnt < WordMod /\ Null \notin Blocks /\ WordMod \in Nat \ {0}
                  /\ memp_cnt * blk_size <= memp_size
<1>1. memp_cnt \in Nat /\ memp_cnt * blk_size <= memp_size /\ memp_size < (memp_cnt + 1) * blk_size
  BY MempAssumption DEF memp_cnt
<1> HIDE DEF memp_cnt
<1>2. memp_cnt # 0
  BY <1>1, MempAssumption
<1>3. memp_cnt <= memp_cnt * blk_size
  BY <1>1, MempAssumption
<1>4. MempNodeWords * memp_cnt \in Nat
  BY <1>1, MempAssumption
<1>5. memp_size <= PoolWords /\ PoolWords \in Nat
  BY <1>4, MempAssumption DEF PoolWords
<1> QED BY <1>1, <1>2, <1>3, <1>5, MempAssumption, HeapAssumption DEF Blocks

LEMMA PoolInitInv == PoolInit => PoolInv
<1> SUFFICES ASSUME PoolInit PROVE PoolInv
  BY Zenon
<1>1. PoolTyped
  BY Zenon DEF PoolInit, PoolTyped
<1> QED BY <1>1, Zenon DEF PoolInit, PoolInv

(* dos_memp_create lists all blocks.                                       *)
LEMMA CreateList ==
  ASSUME PoolInv, Create
  PROVE  PoolInv'
<1> DEFINE l == [i \in 1 .. memp_cnt |-> i]
           k == memp_cnt
<1>1. /\ k \in Nat \ {0} /\ k \in 0 .. memp_cnt /\ Null \notin Blocks /\ Blocks = 1 .. k
  BY PoolSize DEF Blocks
<1>2. /\ memp = Null /\ memp_free' = 1 /\ memp_free_count' = memp_cnt
      /\ next' = [b \in Blocks |-> IF b = memp_cnt THEN Null ELSE b + 1]
      /\ status' \in [Blocks -> BOOLEAN] /\ UNCHANGED <<mine, pc, node, next_node>>
  BY Zenon DEF Create, locals
<1>3. PoolTyped' /\ \A t \in Tasks : pc[t] = "app" /\ mine[t] = {}
  <2>1. next' \in [Blocks -> Blocks \cup {Null}]
    BY <1>1, <1>2
  <2> QED BY <2>1, <1>2, Zenon DEF PoolInv, PoolTyped
<1>4. l \in [1 .. k -> Blocks] /\ \A i \in 1 .. k : l[i] = i
  BY <1>1, Zenon
<1> HIDE DEF l, k
<1>5. Listed(l, k)'
  <2>1. \A i \in 1 .. k : next'[l[i]] = IF i = k THEN Null ELSE l[i + 1]
    BY <1>1, <1>2, <1>4 DEF k
  <2> QED BY <2>1, <1>4, Zenon DEF Listed, l, k
<1>6. Shares(l, k)'
  <2>1. \A b \in Blocks : \E i \in 1 .. k : l[i] = b
    BY <1>1, <1>4, Zenon
  <2> QED BY <2>1, <1>2, <1>3, Zenon DEF Shares, l, k
<1>7. Counts(l, k)'
  <2>1. memp_free' = Top(l, k) /\ memp_free_count' = k /\ l' = l /\ k' = k
    BY <1>1, <1>2, <1>4 DEF Top, k, l
  <2> QED BY <2>1, <1>2, <1>3, Zenon DEF Counts, Top
<1>8. \E n \in 0 .. memp_cnt : \E f \in [1 .. n -> Blocks] : FreeList(f, n)'
  <2>1. FreeList(l, k)'
    BY <1>5, <1>6, <1>7, Zenon DEF FreeList
  <2> QED BY <2>1, <1>1, <1>4, Zenon DEF k, l
<1> QED BY <1>2, <1>3, <1>8, Zenon DEF PoolInv

(* dos_memp_alloc: the test and the count leave the list as it is ...      *)
LEMMA TakeList ==
  ASSUME PoolInv, "pool" \notin usage.shared, NEW t \in Tasks, PoolAlloc(t) \/ Take(t), memp # Null
  PROVE  PoolInv'
<1>1. PICK k \in 0 .. memp_cnt : \E l \in [1 .. k -> Blocks] : FreeList(l, k)
  BY Zenon DEF PoolInv
<1>2. PICK l \in [1 .. k -> Blocks] : FreeList(l, k)
  BY <1>1, Zenon
<1>3. /\ memp_cnt \in Nat \ {0} /\ memp_cnt < WordMod /\ Null \notin Blocks /\ WordMod \in Nat \ {0} /\ k \in Nat
      /\ PoolTyped /\ Listed(l, k) /\ Shares(l, k) /\ Counts(l, k)
  BY <1>2, PoolSize DEF PoolInv, FreeList
<1>4. UNCHANGED <<memp, memp_free, next, status, mine, next_node>>
  BY Zenon DEF PoolAlloc, Take
<1>5. \A u \in Tasks : u # t => pc[u] = "app" /\ pc'[u] = "app"
  <2>1. \A u \in Tasks : u # t => pc[u] = "app"
    BY Zenon DEF PoolAlloc, Take, Starts, PoolInv
  <2> QED BY <2>1, <1>3, Zenon DEF PoolAlloc, Take, PoolTyped
<1>6. Listed(l, k)'
  BY <1>3, <1>4, Zenon DEF Listed
<1>7. CASE PoolAlloc(t)
  <2>1. pc[t] = "app" /\ pc'[t] = "take" /\ UNCHANGED <<memp_free_count, node>> /\ PoolTyped'
    BY <1>3, <1>4, <1>7, Zenon DEF PoolAlloc, Starts, PoolTyped
  <2>2. Shares(l, k)'
    BY <2>1, <1>3, <1>4, <1>5, Zenon DEF Shares
  <2>3. Counts(l, k)'
    BY <2>1, <1>3, <1>4, <1>5, Zenon DEF Counts, Top
  <2> QED BY <2>1, <2>2, <2>3, <1>4, <1>5, <1>6, Zenon DEF PoolInv, FreeList
<1>8. CASE Take(t)
  <2>1. /\ pc[t] = "take" /\ pc'[t] = "unlink" /\ memp_free # Null /\ node'[t] = memp_free
        /\ memp_free_count' = (memp_free_count - 1) % WordMod
        /\ \A u \in Tasks : u # t => node'[u] = node[u]
    BY <1>3, <1>8, Zenon DEF Take, PoolTyped
  <2>2. memp_free = Top(l, k) /\ memp_free_count = k
    BY <2>1, <1>3, <1>5, Zenon DEF Counts
  <2>3. k > 0 /\ memp_free = l[1] /\ memp_free_count' = k - 1 /\ l[1] \in Blocks
    BY <2>1, <2>2, <1>3 DEF Top
  <2>4. PoolTyped'
    BY <2>1, <2>3, <1>3, <1>4, <1>8, Zenon DEF Take, PoolTyped
  <2>5. Shares(l, k)'
    BY <2>1, <1>3, <1>4, <1>5, Zenon DEF Shares
  <2>6. Counts(l, k)'
    BY <2>1, <2>3, <1>4, <1>5, Zenon DEF Counts
  <2> QED BY <2>4, <2>5, <2>6, <1>4, <1>5, <1>6, Zenon DEF PoolInv, FreeList
<1> QED BY <1>7, <1>8, Zenon

(* ... and the last step removes the first of it.                          *)
LEMMA UnlinkList ==
  ASSUME PoolInv, NEW t \in Tasks, Unlink(t), memp # Null
  PROVE  PoolInv'
<1>1. PICK k \in 0 .. memp_cnt : \E l \in [1 .. k -> Blocks] : FreeList(l, k)
  BY Zenon DEF PoolInv
<1>2. PICK l \in [1 .. k -> Blocks] : FreeList(l, k)
  BY <1>1, Zenon
<1>3. /\ memp_cnt \in Nat \ {0} /\ Null \notin Blocks /\ k \in Nat
      /\ PoolTyped /\ Listed(l, k) /\ Shares(l, k) /\ Counts(l, k)
  BY <1>2, PoolSize DEF PoolInv, FreeList
<1>4. /\ pc[t] = "unlink" /\ k > 0 /\ node[t] = l[1] /\ memp_free_count = k - 1 /\ l[1] \in Blocks
  BY <1>3 DEF Unlink, Counts
<1> DEFINE b == l[1]
           n == k - 1
           r == [i \in 1 .. n |-> l[i + 1]]
<1>5. /\ pc'[t] = "app" /\ memp_free' = next[b] /\ UNCHANGED <<memp, memp_free_count, next, next_node>>
      /\ status' = [status EXCEPT ![b] = TRUE] /\ mine' = [mine EXCEPT ![t] = @ \cup {b}]
      /\ \A u \in Tasks : pc'[u] = "app"
  <2>1. \A u \in Tasks : u # t => pc[u] = "app"
    BY <1>4, Zenon DEF PoolInv
  <2> QED BY <2>1, <1>3, <1>4, Zenon DEF Unlink, AfterPop, PoolTyped
<1>6. PoolTyped'
  <2>1. status' \in [Blocks -> BOOLEAN] /\ mine' \in [Tasks -> SUBSET Blocks]
    BY <1>3, <1>4, <1>5, Zenon DEF PoolTyped
  <2> QED BY <2>1, <1>3, <1>5 DEF Unlink, PoolTyped
<1>7. /\ n \in 0 .. memp_cnt /\ r \in [1 .. n -> Blocks] /\ \A i \in 1 .. n : r[i] = l[i + 1] /\ i + 1 \in 1 .. k
      /\ \A i \in 1 .. k : i # 1 => i - 1 \in 1 .. n /\ r[i - 1] = l[i]
  BY <1>3, <1>4
<1>8. next[b] = Top(r, n)
  BY <1>3, <1>4, <1>7 DEF Listed, Top
<1>9. b \in Blocks /\ 1 \in 1 .. k /\ l[1] = b /\ k \in Nat /\ n = k - 1
  BY <1>3, <1>4
<1>10. /\ \A i \in 1 .. k : next[l[i]] = IF i = k THEN Null ELSE l[i + 1]
       /\ \A i, j \in 1 .. k : l[i] = l[j] => i = j
  BY <1>3, Zenon DEF Listed
<1> HIDE DEF b, n, r
<1>11. /\ \A i \in 1 .. n : next[r[i]] = IF i = n THEN Null ELSE r[i + 1]
       /\ \A i, j \in 1 .. n : r[i] = r[j] => i = j
  <2>1. ASSUME NEW i \in 1 .. n PROVE next[r[i]] = IF i = n THEN Null ELSE r[i + 1]
    <3>1. i + 1 \in 1 .. k /\ (i + 1 = k <=> i = n) /\ (i # n => i + 1 \in 1 .. n)
      BY <1>7, <1>9
    <3>2. next[l[i + 1]] = IF i + 1 = k THEN Null ELSE l[i + 1 + 1]
      BY <3>1, <1>10, Zenon
    <3> QED BY <3>1, <3>2, <1>7, Zenon
  <2>2. ASSUME NEW i \in 1 .. n, NEW j \in 1 .. n, r[i] = r[j] PROVE i = j
    <3>1. i + 1 = j + 1
      BY <2>2, <1>7, <1>10
    <3> QED BY <3>1, <1>7
  <2> QED BY <2>1, <2>2, Zenon
<1>12. \A i \in 1 .. n : r[i] # b
  <2> SUFFICES ASSUME NEW i \in 1 .. n, r[i] = b PROVE FALSE
    BY Zenon
  <2>1. i + 1 = 1
    BY <1>7, <1>9, <1>10, Zenon
  <2> QED BY <2>1, <1>7
<1>13. \A c \in Blocks : c = b \/ (\E i \in 1 .. n : r[i] = c) \/ (status[c] /\ \E u \in Tasks : c \in mine[u])
  <2> SUFFICES ASSUME NEW c \in Blocks, c # b, ~\E i \in 1 .. n : r[i] = c
               PROVE  status[c] /\ \E u \in Tasks : c \in mine[u]
    BY Zenon
  <2>1. ~\E i \in 1 .. k : l[i] = c
    BY <1>7, <1>9
  <2>2. \A u \in Tasks : pc[u] # "put"
    BY <1>4, Zenon DEF PoolInv
  <2> QED BY <2>1, <2>2, <1>3, Zenon DEF Shares
<1>14. /\ \A u \in Tasks : \A i \in 1 .. n : r[i] \notin mine'[u]
       /\ \A u, v \in Tasks : u # v => mine'[u] \cap mine'[v] = {}
  <2>1. \A u \in Tasks : /\ \A i \in 1 .. n : r[i] \notin mine[u]
                         /\ b \notin mine[u]
    BY <1>3, <1>7, <1>9 DEF Shares
  <2>2. \A u \in Tasks : mine'[u] = IF u = t THEN mine[u] \cup {b} ELSE mine[u]
    BY <1>3, <1>5, Zenon DEF PoolTyped
  <2>3. \A u, v \in Tasks : u # v => mine[u] \cap mine[v] = {}
    BY <1>3, Zenon DEF Shares
  <2> QED BY <2>1, <2>2, <2>3, <1>12, ZenonT(40)
<1>15. \A c \in Blocks : (\E i \in 1 .. n : r[i] = c) \/ (status'[c] /\ \E u \in Tasks : c \in mine'[u])
  BY <1>3, <1>5, <1>9, <1>13 DEF PoolTyped
<1>16. PICK m \in 0 .. memp_cnt : m = n
  BY <1>7, Zenon
<1>17. PICK f \in [1 .. m -> Blocks] : f = r
  BY <1>7, <1>16, Zenon
<1>18. FreeList(f, m)'
  <2>1. Listed(f, m)'
    BY <1>5, <1>11, <1>16, <1>17, Zenon DEF Listed
  <2>2. Shares(f, m)'
    BY <1>14, <1>15, <1>16, <1>17, Zenon DEF Shares
  <2>3. Counts(f, m)'
    BY <1>4, <1>5, <1>8, <1>16, <1>17, Zenon DEF Counts, Top, n
  <2> QED BY <2>1, <2>2, <2>3, Zenon DEF FreeList
<1> QED BY <1>5, <1>6, <1>18, Zenon DEF PoolInv

(* dos_memp_free: the block leaves its task ...                            *)
LEMMA FreeingList ==
  ASSUME PoolInv, "pool" \notin usage.shared, NEW t \in Tasks, NEW b \in Blocks, PoolFree(t, b)
  PROVE  PoolInv'
<1>1. PICK k \in 0 .. memp_cnt : \E l \in [1 .. k -> Blocks] : FreeList(l, k)
  BY Zenon DEF PoolInv, PoolFree, Starts
<1>2. PICK l \in [1 .. k -> Blocks] : FreeList(l, k)
  BY <1>1, Zenon
<1>3. /\ memp_cnt \in Nat \ {0} /\ Null \notin Blocks /\ k \in Nat
      /\ PoolTyped /\ Listed(l, k) /\ Shares(l, k) /\ Counts(l, k)
  BY <1>2, PoolSize DEF PoolInv, FreeList
<1>4. /\ memp # Null /\ UNCHANGED <<memp, memp_free_count, next, status>> /\ memp_free' = b
      /\ b \in mine[t] /\ status[b] /\ memp_free_count < memp_cnt
      /\ \A u \in Tasks : pc[u] = "app"
  BY Zenon DEF PoolFree, Starts
<1>5. memp_free = Top(l, k) /\ memp_free_count = k
  BY <1>3, <1>4, Zenon DEF Counts
<1>6. PoolTyped'
  <2>1. memp_free \in Blocks \cup {Null}
    BY <1>3, <1>5 DEF Top
  <2> QED BY <2>1, <1>3, Zenon DEF PoolFree, PoolTyped
<1>7. /\ \A u \in Tasks : pc'[u] = (IF u = t THEN "put" ELSE "app") /\ mine'[u] = mine[u] \ (IF u = t THEN {b} ELSE {})
      /\ node'[t] = b /\ next_node'[t] = memp_free
  BY <1>3, <1>4, Zenon DEF PoolFree, PoolTyped
<1>8. /\ \A u \in Tasks : \A i \in 1 .. k : l[i] \notin mine[u]
      /\ \A u, v \in Tasks : u # v => mine[u] \cap mine[v] = {}
  BY <1>3, Zenon DEF Shares
<1>9. Listed(l, k)'
  BY <1>3, <1>4, Zenon DEF Listed
<1>10. Shares(l, k)'
  <2>1. ASSUME NEW c \in Blocks, ~\E i \in 1 .. k : l[i] = c
        PROVE  status'[c] /\ \E u \in Tasks : c \in mine'[u] \/ (pc'[u] = "put" /\ node'[u] = c)
    <3>1. status[c] /\ \E u \in Tasks : c \in mine[u]
      BY <2>1, <1>3, <1>4, Zenon DEF Shares
    <3> QED BY <3>1, <1>4, <1>7, Zenon
  <2>2. /\ \A u \in Tasks : \A i \in 1 .. k : l[i] \notin mine'[u]
        /\ \A u, v \in Tasks : u # v => mine'[u] \cap mine'[v] = {}
    BY <1>7, <1>8, Zenon
  <2> QED BY <2>1, <2>2, Zenon DEF Shares
<1>11. Counts(l, k)'
  <2>1. \A u \in Tasks : b \notin mine'[u]
    BY <1>4, <1>7, <1>8, Zenon
  <2>2. \A i \in 1 .. k : l[i] # b
    BY <1>4, <1>8, Zenon
  <2> QED BY <2>1, <2>2, <1>4, <1>5, <1>7, Zenon DEF Counts, Top
<1> QED BY <1>4, <1>6, <1>7, <1>9, <1>10, <1>11, Zenon DEF PoolInv, FreeList

(* ... and becomes the first of the list.                                  *)
LEMMA PutList ==
  ASSUME PoolInv, NEW t \in Tasks, Put(t), memp # Null
  PROVE  PoolInv'
<1>1. PICK k \in 0 .. memp_cnt : \E l \in [1 .. k -> Blocks] : FreeList(l, k)
  BY Zenon DEF PoolInv
<1>2. PICK l \in [1 .. k -> Blocks] : FreeList(l, k)
  BY <1>1, Zenon
<1>3. /\ memp_cnt \in Nat \ {0} /\ memp_cnt < WordMod /\ WordMod \in Nat \ {0} /\ Null \notin Blocks /\ k \in Nat
      /\ PoolTyped /\ Listed(l, k) /\ Shares(l, k) /\ Counts(l, k)
  BY <1>2, PoolSize DEF PoolInv, FreeList
<1> DEFINE b == node[t]
           n == k + 1
           r == [i \in 1 .. n |-> IF i = 1 THEN b ELSE l[i - 1]]
<1>4. /\ pc[t] = "put" /\ memp_free = b /\ next_node[t] = Top(l, k) /\ memp_free_count = k /\ k < memp_cnt
      /\ b \in Blocks /\ (\A i \in 1 .. k : l[i] # b) /\ \A u \in Tasks : b \notin mine[u]
  BY <1>3, Zenon DEF Put, Counts
<1>5. /\ UNCHANGED <<memp, memp_free, mine>> /\ memp_free_count' = (k + 1) % WordMod
      /\ next' = [next EXCEPT ![b] = Top(l, k)] /\ status' = [status EXCEPT ![b] = FALSE]
      /\ \A u \in Tasks : pc'[u] = "app"
  <2>1. \A u \in Tasks : u # t => pc[u] = "app"
    BY <1>4, Zenon DEF PoolInv
  <2> QED BY <2>1, <1>3, <1>4, Zenon DEF Put, CountAfterFree, PoolTyped
<1>6. memp_free_count' = n
  BY <1>3, <1>4, <1>5
<1>7. PoolTyped'
  <2>1. Top(l, k) \in Blocks \cup {Null}
    BY <1>3 DEF Top
  <2> QED BY <2>1, <1>3, <1>4, <1>5 DEF Put, PoolTyped
<1>8. /\ n \in 0 .. memp_cnt /\ r \in [1 .. n -> Blocks] /\ r[1] = b /\ 1 \in 1 .. n
      /\ \A i \in 1 .. n : i # 1 => r[i] = l[i - 1] /\ i - 1 \in 1 .. k
      /\ \A i \in 1 .. k : i + 1 \in 1 .. n /\ r[i + 1] = l[i]
  BY <1>3, <1>4, SMTT(20)
<1>9. /\ \A i \in 1 .. k : next[l[i]] = IF i = k THEN Null ELSE l[i + 1]
      /\ \A i, j \in 1 .. k : l[i] = l[j] => i = j
  BY <1>3, Zenon DEF Listed
<1>10. n = k + 1 /\ k \in Nat /\ \A i \in 1 .. k : l[i] \in Blocks
  BY <1>3, Zenon
<1>11. /\ next'[b] = Top(l, k) /\ \A c \in Blocks : c # b => next'[c] = next[c] /\ status'[c] = status[c]
  BY <1>3, <1>4, <1>5, Zenon DEF PoolTyped
<1> HIDE DEF b, n, r
<1>12. /\ \A i \in 1 .. n : next'[r[i]] = IF i = n THEN Null ELSE r[i + 1]
       /\ \A i, j \in 1 .. n : r[i] = r[j] => i = j
  <2>1. ASSUME NEW i \in 1 .. n PROVE next'[r[i]] = IF i = n THEN Null ELSE r[i + 1]
    <3>1. CASE i = 1
      <4>1. next'[r[i]] = Top(l, k)
        BY <3>1, <1>8, <1>11, Zenon
      <4>2. k # 0 => r[1 + 1] = l[1]
        BY <1>8, <1>10
      <4> QED BY <3>1, <4>1, <4>2, <1>10 DEF Top
    <3>2. CASE i # 1
      <4>1. i - 1 \in 1 .. k /\ r[i] = l[i - 1] /\ (i - 1 = k <=> i = n) /\ i - 1 + 1 = i
        BY <3>2, <1>8, <1>10
      <4>2. next'[r[i]] = next[l[i - 1]]
        BY <4>1, <1>4, <1>10, <1>11, Zenon
      <4>3. next[l[i - 1]] = IF i - 1 = k THEN Null ELSE l[i - 1 + 1]
        BY <4>1, <1>9, Zenon
      <4>4. i # n => r[i + 1] = l[i]
        BY <4>1, <1>8, <1>10
      <4> QED BY <4>1, <4>2, <4>3, <4>4, Zenon
    <3> QED BY <3>1, <3>2, Zenon
  <2>2. ASSUME NEW i \in 1 .. n, NEW j \in 1 .. n, r[i] = r[j] PROVE i = j
    <3>1. CASE i = 1 \/ j = 1
      BY <2>2, <3>1, <1>4, <1>8
    <3>2. CASE i # 1 /\ j # 1
      <4>1. i - 1 = j - 1
        BY <2>2, <3>2, <1>8, <1>9
      <4> QED BY <4>1, <1>10
    <3> QED BY <3>1, <3>2, Zenon
  <2> QED BY <2>1, <2>2, Zenon
<1>13. \A c \in Blocks : (\E i \in 1 .. n : r[i] = c) \/ (status'[c] /\ \E u \in Tasks : c \in mine'[u])
  <2> SUFFICES ASSUME NEW c \in Blocks, ~\E i \in 1 .. n : r[i] = c
               PROVE  status'[c] /\ \E u \in Tasks : c \in mine'[u]
    BY Zenon
  <2>1. c # b /\ ~\E i \in 1 .. k : l[i] = c
    BY <1>8, Zenon
  <2>2. \A u \in Tasks : pc[u] = "put" => node[u] = b
    BY <1>4, Zenon DEF PoolInv, b
  <2> QED BY <2>1, <2>2, <1>3, <1>5, <1>11, SMTT(20) DEF Shares
<1>14. /\ \A u \in Tasks : \A i \in 1 .. n : r[i] \notin mine'[u]
       /\ \A u, v \in Tasks : u # v => mine'[u] \cap mine'[v] = {}
  <2>1. \A u \in Tasks : \A i \in 1 .. k : l[i] \notin mine[u]
    BY <1>3, Zenon DEF Shares
  <2>2. ASSUME NEW u \in Tasks, NEW i \in 1 .. n PROVE r[i] \notin mine'[u]
    BY <2>1, <1>4, <1>5, <1>8, Zenon
  <2>3. \A u, v \in Tasks : u # v => mine'[u] \cap mine'[v] = {}
    BY <1>3, <1>5, Zenon DEF Shares
  <2> QED BY <2>2, <2>3, Zenon
<1>15. PICK m \in 0 .. memp_cnt : m = n
  BY <1>8, Zenon
<1>16. PICK f \in [1 .. m -> Blocks] : f = r
  BY <1>8, <1>15, Zenon
<1>17. FreeList(f, m)'
  <2>1. Listed(f, m)'
    BY <1>12, <1>15, <1>16, Zenon DEF Listed
  <2>2. Shares(f, m)'
    BY <1>13, <1>14, <1>15, <1>16, Zenon DEF Shares
  <2>3. memp_free' = Top(f, m)
    BY <1>4, <1>5, <1>8, <1>10, <1>15, <1>16 DEF Top
  <2>4. Counts(f, m)'
    BY <2>3, <1>5, <1>6, <1>15, Zenon DEF Counts, Top
  <2> QED BY <2>1, <2>2, <2>4, Zenon DEF FreeList
<1> QED BY <1>5, <1>7, <1>17, Zenon DEF PoolInv

LEMMA PoolInvariance == Spec => []("pool" \notin usage.shared => PoolInv)
<1> DEFINE J == "pool" \notin usage.shared => PoolInv
<1>1. Init => J
  BY PoolInitInv, Zenon DEF Init
<1>2. J /\ [Next]_vars => J'
  <2> SUFFICES ASSUME "pool" \notin usage.shared, PoolInv, [Next]_vars PROVE PoolInv'
    BY HeapStep, Zenon
  <2>1. CASE UNCHANGED poolVars
    BY <2>1, SMTT(20) DEF poolVars, PoolInv, PoolTyped, FreeList, Listed, Shares, Counts, Top
  <2>2. CASE Create
    BY <2>2, CreateList, Zenon
  <2>3. ASSUME NEW t \in Tasks, PoolAlloc(t) \/ Take(t) PROVE PoolInv'
    <3>1. memp # Null
      BY <2>3, Zenon DEF PoolAlloc, Take, Starts, PoolInv
    <3> QED BY <2>3, <3>1, TakeList, Zenon
  <2>4. ASSUME NEW t \in Tasks, Unlink(t) PROVE PoolInv'
    <3>1. memp # Null
      BY <2>4, Zenon DEF Unlink, PoolInv
    <3> QED BY <2>4, <3>1, UnlinkList, Zenon
  <2>5. ASSUME NEW t \in Tasks, Put(t) PROVE PoolInv'
    <3>1. memp # Null
      BY <2>5, Zenon DEF Put, PoolInv
    <3> QED BY <2>5, <3>1, PutList, Zenon
  <2>6. ASSUME NEW t \in Tasks, NEW b \in Blocks, PoolFree(t, b) PROVE PoolInv'
    BY <2>6, FreeingList, Zenon
  <2> QED BY <2>1, <2>2, <2>3, <2>4, <2>5, <2>6, Zenon DEF Next, vars
<1> QED BY <1>1, <1>2, PTL DEF Spec

InsideInv == "heap" \notin usage.shared /\ ~corrupt => Inside

LEMMA InsideInvariance == Spec => []InsideInv
<1>1. Init => InsideInv
  BY Zenon DEF Init, HeapInit, PoolInit, Inside, InsideInv
<1>2. HeapInv /\ InsideInv /\ [Next]_vars => InsideInv'
  BY HeapStep, InsideStep, Zenon DEF HeapInv, InsideInv
<1> QED BY <1>1, <1>2, Invariance, PTL DEF Spec

-----------------------------------------------------------------------------
(* That the nodes fill the heap between calls where the sizes asked for    *)
(* are rounded, on top of Inv.  No gap is ever left, neighbours that are   *)
(* both free are joined, and mem_heap_size keeps the account.              *)
(* During a free the links are right but for the one that it is about to   *)
(* set, and all free neighbours are around the block r that was given back.*)
Chained ==
  /\ 0 \in DOMAIN nodes /\ nodes[0].prev = Null
  /\ NextAddress(mem_tail) = HeapWords
  /\ \A n \in DOMAIN nodes \ {mem_tail} : NextAddress(n) \in DOMAIN nodes
  /\ \A n \in DOMAIN nodes : (nodes[n].size + NodeWords) % (NodeWords + 1) = 0

Backward ==
  \A n \in DOMAIN nodes \ {mem_tail} :
    \/ nodes[NextAddress(n)].prev = n
    \/ freeing \in {"forward", "merge", "link"} /\ n = free_node

BothFree(n) == n # mem_tail /\ ~nodes[n].used /\ ~nodes[NextAddress(n)].used

Around(r) ==
  /\ ~nodes[r].used
  /\ r = free_node \/ (free_node # mem_tail /\ r = NextAddress(free_node))
  /\ \A n \in DOMAIN nodes : BothFree(n) => n = r \/ NextAddress(n) = r

Joined ==
  /\ freeing \in {"no", "link"} => \A n \in DOMAIN nodes : ~BothFree(n)
  /\ freeing # "no" => ~nodes[free_node].used
  /\ freeing \in {"forward", "merge"} =>
       \A n \in DOMAIN nodes \ {mem_tail} : NextAddress(n) = free_node => nodes[n].used
  /\ freeing \in {"back", "forward", "merge"} => \E r \in DOMAIN nodes : Around(r)

Accounted == mem_heap_size = HeapWords - NodeWords - Cardinality(UsedWords)

Whole == Chained /\ Backward /\ Joined /\ Accounted

(* Multiples of k leave nothing, and what leaves nothing is a multiple.    *)
LEMMA Multiple ==
  ASSUME NEW k \in Nat \ {0}, NEW z \in Nat
  PROVE  z % k = 0 <=> \E h \in Nat : z = k * h
<1> DEFINE q == z \div k
           r == z % k
<1>1. q \in Nat /\ r \in 0 .. k - 1 /\ z = k * q + r
  OBVIOUS
<1> HIDE DEF q, r
<1>2. ASSUME NEW h \in Nat, z = k * h PROVE r = 0
  <2>1. k * (h - q) = r
    BY <1>1, <1>2
  <2>2. h - q < 1
    <3>1. ASSUME h - q >= 1 PROVE FALSE
      <4>1. k * (h - q) >= k
        BY <1>1, <3>1
      <4> QED BY <4>1, <2>1, <1>1
    <3> QED BY <3>1, <1>1
  <2>3. h - q > -1
    <3>1. ASSUME h - q <= -1 PROVE FALSE
      <4>1. k * (h - q) <= -k
        BY <1>1, <3>1
      <4> QED BY <4>1, <2>1, <1>1
    <3> QED BY <3>1, <1>1
  <2>4. h - q = 0
    BY <2>2, <2>3, <1>1
  <2> QED BY <2>1, <2>4
<1>3. ASSUME r = 0 PROVE \E h \in Nat : z = k * h
  <2>1. z = k * q
    BY <1>1, <1>3
  <2> QED BY <1>1, <2>1, Zenon
<1>4. r = 0 <=> \E h \in Nat : z = k * h
  BY <1>2, <1>3, Zenon
<1> QED BY <1>4, Zenon DEF r

(* Sums and differences of multiples are multiples.                        *)
LEMMA Multiples ==
  ASSUME NEW k \in Nat \ {0}, NEW x \in Nat, NEW y \in Nat, x % k = 0, y % k = 0
  PROVE  /\ (x + y) % k = 0
         /\ x > y => x - y >= k /\ (x - y) % k = 0
<1>1. PICK i \in Nat : x = k * i
  BY Multiple, Zenon
<1>2. PICK j \in Nat : y = k * j
  BY Multiple, Zenon
<1>3. (x + y) % k = 0
  <2>1. x + y = k * (i + j) /\ i + j \in Nat /\ x + y \in Nat
    BY <1>1, <1>2
  <2> QED BY <2>1, Multiple, Zenon
<1>4. ASSUME x > y PROVE x - y >= k /\ (x - y) % k = 0
  <2>1. x - y = k * (i - j)
    BY <1>1, <1>2
  <2>2. i > j
    BY <1>1, <1>2, <1>4
  <2>3. i - j \in Nat /\ i - j >= 1 /\ x - y \in Nat
    BY <2>2, <1>4
  <2>4. x - y >= k
    BY <2>1, <2>3
  <2> QED BY <2>1, <2>3, <2>4, Multiple, Zenon
<1> QED BY <1>3, <1>4, Zenon

(* The number of words of the heap in U and in an interval apart from it.  *)
LEMMA WordCount ==
  ASSUME NEW U, U \subseteq 0 .. HeapWords - 1, NEW i \in Nat, NEW j \in Nat, i <= j, j <= HeapWords,
         \A w \in U : w < i \/ j <= w
  PROVE  /\ Cardinality(U) \in Nat
         /\ Cardinality(U \cup (i .. j - 1)) = Cardinality(U) + (j - i)
         /\ Cardinality(U) + (j - i) <= HeapWords
<1> DEFINE I == i .. j - 1
           H == 0 .. HeapWords - 1
<1>1. /\ HeapWords \in Nat /\ IsFiniteSet(H) /\ Cardinality(H) = HeapWords
      /\ IsFiniteSet(I) /\ Cardinality(I) = j - i
  <2>1. HeapWords \in Nat /\ HeapWords > 0 /\ HeapWords - 1 \in Int /\ j - 1 \in Int
    BY HeapAssumption
  <2>2. IsFiniteSet(H) /\ Cardinality(H) = HeapWords
    BY <2>1, FS_Interval
  <2>3. IsFiniteSet(I) /\ Cardinality(I) = IF i > j - 1 THEN 0 ELSE j - 1 - i + 1
    BY <2>1, FS_Interval
  <2> QED BY <2>1, <2>2, <2>3
<1>2. U \cap I = {} /\ U \cup I \subseteq H
  BY HeapAssumption
<1> HIDE DEF I, H
<1>3. IsFiniteSet(U) /\ Cardinality(U) \in Nat
  BY <1>1, FS_Subset, FS_CardinalityType, Zenon DEF H
<1>4. Cardinality(U \cup I) = Cardinality(U) + (j - i)
  <2>1. Cardinality(U \cup I) = Cardinality(U) + Cardinality(I) - Cardinality(U \cap I)
    BY <1>1, <1>3, FS_Union, Zenon
  <2>2. Cardinality(U \cap I) = 0
    BY <1>2, FS_EmptySet, Zenon
  <2> QED BY <2>1, <2>2, <1>1, <1>3
<1>5. Cardinality(U \cup I) <= HeapWords
  BY <1>1, <1>2, FS_Subset, Zenon
<1> QED BY <1>3, <1>4, <1>5, Zenon DEF I

(* What UsedWords says, word by word.                                      *)
LEMMA UsedWord ==
  ASSUME NEW w
  PROVE  w \in UsedWords <=>
           \E n \in DOMAIN nodes : nodes[n].used /\ w \in n + NodeWords .. NextAddress(n) - 1
<1> DEFINE F(n) == n + NodeWords .. NextAddress(n) - 1
<1>1. UsedWords = UNION {F(n) : n \in {k \in DOMAIN nodes : nodes[k].used}}
  BY Zenon DEF UsedWords
<1> HIDE DEF F
<1>2. w \in UsedWords <=> \E n \in DOMAIN nodes : nodes[n].used /\ w \in F(n)
  BY <1>1, Zenon
<1> QED BY <1>2, Zenon DEF F

(* The same after a step.                                                  *)
LEMMA UsedWordNext ==
  ASSUME NEW w
  PROVE  w \in UsedWords' <=>
           \E n \in DOMAIN nodes' : nodes'[n].used /\ w \in n + NodeWords .. NextAddress(n)' - 1
<1> DEFINE F(n) == n + NodeWords .. NextAddress(n)' - 1
<1>1. UsedWords' = UNION {F(n) : n \in {k \in DOMAIN nodes' : nodes'[k].used}}
  BY Zenon DEF UsedWords
<1> HIDE DEF F
<1>2. w \in UsedWords' <=> \E n \in DOMAIN nodes' : nodes'[n].used /\ w \in F(n)
  BY <1>1, Zenon
<1> QED BY <1>2, Zenon DEF F

(* They are words of the heap, and none of a block that is free.           *)
LEMMA UsedApart ==
  ASSUME Inv, NEW b \in DOMAIN nodes
  PROVE  /\ UsedWords \subseteq 0 .. HeapWords - 1
         /\ ~nodes[b].used => \A w \in UsedWords : w < b \/ b + NodeWords + nodes[b].size <= w
<1>1. \A n \in DOMAIN nodes : n \in Nat /\ nodes[n].size \in Nat
  BY Zenon DEF Inv, Typed, NodeType
<1>2. ASSUME NEW w \in UsedWords
      PROVE  /\ w \in 0 .. HeapWords - 1
             /\ ~nodes[b].used => w < b \/ b + NodeWords + nodes[b].size <= w
  <2>1. PICK n \in DOMAIN nodes : nodes[n].used /\ w \in n + NodeWords .. NextAddress(n) - 1
    BY <1>2, UsedWord, Zenon
  <2>2. /\ n + NodeWords + nodes[n].size <= HeapWords
        /\ n < b => n + NodeWords + nodes[n].size <= b
        /\ b < n => b + NodeWords + nodes[b].size <= n
    BY Zenon DEF Inv, Apart
  <2> QED BY <1>1, <2>1, <2>2, HeapAssumption DEF NextAddress, Size
<1> QED BY <1>2, Zenon

(* dos_mem_alloc never leaves a gap: there is always a node to cut off.    *)
LEMMA AllocCuts ==
  ASSUME NEW b \in DOMAIN nodes, NEW s \in usage.sizes, usage \in Usages, Inv, Rounded, Chained, Alloc(b, s)
  PROVE  /\ s \in Nat /\ Cuts(b, s) /\ ~nodes[b].used /\ nodes[b].size > s /\ freeing = "no"
         /\ (s + NodeWords) % (NodeWords + 1) = 0
         /\ (nodes[b].size - s) % (NodeWords + 1) = 0
<1>1. /\ s \in Nat /\ nodes[b].size \in Nat /\ NodeWords \in Nat /\ ~nodes[b].used /\ nodes[b].size > s
      /\ freeing = "no"
  BY HeapAssumption, Zenon DEF Alloc, IsBest, Fits, Size, Inv, Typed, NodeType, UsageType, Rounded
<1>2. (s + NodeWords) % (NodeWords + 1) = 0 /\ (nodes[b].size + NodeWords) % (NodeWords + 1) = 0
  BY Zenon DEF Rounded, Chained
<1> DEFINE x == nodes[b].size + NodeWords
           y == s + NodeWords
           k == NodeWords + 1
<1>3. x \in Nat /\ y \in Nat /\ k \in Nat \ {0} /\ x > y /\ x - y = nodes[b].size - s
  BY <1>1
<1>4. x % k = 0 /\ y % k = 0
  BY <1>2, Zenon
<1> HIDE DEF x, y, k
<1>5. x - y >= k /\ (x - y) % k = 0
  BY <1>3, <1>4, Multiples, Zenon
<1> QED BY <1>1, <1>2, <1>3, <1>5 DEF Cuts, Size, k

(* dos_mem_alloc keeps the heap whole.                                     *)
LEMMA AllocWhole ==
  ASSUME NEW b \in DOMAIN nodes, NEW s \in usage.sizes, usage \in Usages, Inv, Rounded, ~corrupt, Whole,
         Alloc(b, s)
  PROVE  ~corrupt' /\ Whole'
<1> DEFINE new == b + NodeWords + s
           end == b + NodeWords + nodes[b].size
<1>1. /\ s \in Nat /\ Cuts(b, s) /\ ~nodes[b].used /\ nodes[b].size > s /\ freeing = "no"
      /\ (s + NodeWords) % (NodeWords + 1) = 0 /\ (nodes[b].size - s) % (NodeWords + 1) = 0
  BY AllocCuts, Zenon DEF Whole
<1>2. Cut(b, s, new, end) /\ "heap" \notin usage.shared
  BY <1>1, CutEffect, Zenon DEF Rounded
<1>3. /\ NodeWords \in Nat \ {0} /\ HeapWords \in Nat
      /\ \A n \in DOMAIN nodes : /\ n \in Nat /\ nodes[n].size \in Nat
                                 /\ NextAddress(n) = n + NodeWords + nodes[n].size
                                 /\ NextAddress(n) \in Nat /\ n + NodeWords <= NextAddress(n)
                                 /\ NextAddress(n) <= HeapWords
                                 /\ n < b => NextAddress(n) <= b
  BY HeapAssumption, SMTT(20) DEF Inv, Typed, Apart, NodeType, NextAddress, Size
<1>4. /\ b \in Nat /\ new \in Nat /\ end \in Nat /\ b < new /\ new + NodeWords < end
      /\ \A k \in DOMAIN nodes : k \in Nat /\ (k <= b \/ end <= k)
      /\ DOMAIN nodes' = DOMAIN nodes \cup {new}
      /\ nodes'[b].size = s /\ nodes'[b].used /\ nodes'[b].prev = nodes[b].prev
      /\ nodes'[new].size = end - new - NodeWords /\ ~nodes'[new].used /\ nodes'[new].prev = b
  BY <1>2, Zenon DEF Cut
<1>5. \A n \in DOMAIN nodes \ {b} : /\ nodes'[n].size = nodes[n].size /\ nodes'[n].used = nodes[n].used
                                    /\ n # end => nodes'[n].prev = nodes[n].prev
  BY <1>2, Zenon DEF Cut
<1>6. /\ mem_tail \in DOMAIN nodes
      /\ b = mem_tail => mem_tail' = new /\ end = HeapWords
      /\ b # mem_tail => mem_tail' = mem_tail /\ end \in DOMAIN nodes /\ nodes'[end].prev = new
  <2>1. mem_tail \in DOMAIN nodes
    BY Zenon DEF Inv, LastIsTail
  <2>2. b = mem_tail => end = HeapWords
    BY <1>3, Zenon DEF Whole, Chained
  <2>3. b # mem_tail => end \in DOMAIN nodes
    BY <1>3, Zenon DEF Whole, Chained
  <2> HIDE DEF new, end
  <2> QED BY <2>1, <2>2, <2>3, <1>2, Zenon DEF Cut
<1>7. ~corrupt' /\ freeing' = "no" /\ mem_heap_size' = (mem_heap_size - s) % WordMod
  <2>1. freeing' = "no" /\ mem_heap_size' = (mem_heap_size - s) % WordMod
    BY <1>1, Zenon DEF Alloc, AllocFrom
  <2> HIDE DEF new, end
  <2>2. ~corrupt'
    BY <1>2, <1>6, Zenon DEF Cut
  <2> QED BY <2>1, <2>2, Zenon
<1>8. NextAddress(b)' = new /\ NextAddress(new)' = end
  BY <1>3, <1>4, SMTT(20) DEF NextAddress, Size
<1>9. \A n \in DOMAIN nodes \ {b} : NextAddress(n)' = NextAddress(n) /\ NextAddress(n) # end
  BY <1>3, <1>4, <1>5, SMTT(20) DEF NextAddress, Size
<1>10. new \notin DOMAIN nodes /\ b # new /\ end # b /\ end # new
  BY <1>3, <1>4, SMTT(20)
<1>11. end - new = nodes[b].size - s /\ end = NextAddress(b)
  BY <1>1, <1>3
<1> HIDE DEF new, end
<1>12. Chained'
  <2>1. 0 \in DOMAIN nodes' /\ nodes'[0].prev = Null
    <3>1. 0 # end /\ 0 \in DOMAIN nodes /\ nodes[0].prev = Null
      BY <1>3, <1>4, SMTT(20) DEF Whole, Chained
    <3> QED BY <3>1, <1>4, <1>5, Zenon
  <2>2. NextAddress(mem_tail)' = HeapWords
    <3>1. CASE b = mem_tail
      BY <3>1, <1>6, <1>8, Zenon
    <3>2. CASE b # mem_tail
      <4>1. NextAddress(mem_tail) = HeapWords
        BY Zenon DEF Whole, Chained
      <4> QED BY <3>2, <4>1, <1>6, <1>9, Zenon DEF NextAddress, Size
    <3> QED BY <3>1, <3>2, Zenon
  <2>3. \A n \in DOMAIN nodes' \ {mem_tail'} : NextAddress(n)' \in DOMAIN nodes'
    BY <1>4, <1>6, <1>8, <1>9, SMTT(20) DEF Whole, Chained
  <2>4. ASSUME NEW n \in DOMAIN nodes' PROVE (nodes'[n].size + NodeWords) % (NodeWords + 1) = 0
    <3>1. CASE n = b
      BY <3>1, <1>1, <1>4, Zenon
    <3>2. CASE n = new
      <4>1. nodes'[n].size + NodeWords = nodes[b].size - s
        BY <3>2, <1>3, <1>4, <1>11, SMTT(20)
      <4> QED BY <4>1, <1>1, Zenon
    <3>3. CASE n \in DOMAIN nodes \ {b}
      BY <3>3, <1>5, Zenon DEF Whole, Chained
    <3> QED BY <2>4, <3>1, <3>2, <3>3, <1>4, Zenon
  <2> QED BY <2>1, <2>2, <2>3, <2>4, Zenon DEF Chained
<1>13. Backward'
  <2>1. \A n \in DOMAIN nodes \ {mem_tail} : NextAddress(n) \in DOMAIN nodes /\ nodes[NextAddress(n)].prev = n
    BY <1>1, Zenon DEF Whole, Chained, Backward
  <2>2. ASSUME NEW n \in DOMAIN nodes' \ {mem_tail'} PROVE nodes'[NextAddress(n)'].prev = n
    <3>1. CASE n = b
      BY <3>1, <1>4, <1>8, Zenon
    <3>2. CASE n = new
      BY <2>2, <3>2, <1>6, <1>8, <1>10, Zenon
    <3>3. CASE n \in DOMAIN nodes \ {b}
      <4>1. n # mem_tail
        BY <2>2, <3>3, <1>6, Zenon
      <4>2. /\ NextAddress(n)' = NextAddress(n) /\ NextAddress(n) # end /\ NextAddress(n) \in DOMAIN nodes
            /\ nodes[NextAddress(n)].prev = n
        BY <3>3, <4>1, <2>1, <1>9, Zenon
      <4> QED BY <4>2, <1>4, <1>5
    <3> QED BY <2>2, <3>1, <3>2, <3>3, <1>4, Zenon
  <2> QED BY <2>2, Zenon DEF Backward
<1>14. Joined'
  <2>1. \A n \in DOMAIN nodes : n # mem_tail => nodes[n].used \/ nodes[NextAddress(n)].used
    BY <1>1, Zenon DEF Whole, Joined, BothFree
  <2>2. ASSUME NEW n \in DOMAIN nodes', n # mem_tail' PROVE nodes'[n].used \/ nodes'[NextAddress(n)'].used
    <3>1. CASE n = b
      BY <3>1, <1>4, Zenon
    <3>2. CASE n = new
      BY <2>1, <2>2, <3>2, <1>1, <1>5, <1>6, <1>8, <1>10, <1>11, Zenon
    <3>3. CASE n \in DOMAIN nodes \ {b}
      <4>1. n # mem_tail
        BY <2>2, <3>3, <1>6, Zenon
      <4>2. NextAddress(n) \in DOMAIN nodes
        BY <3>3, <4>1, Zenon DEF Whole, Chained
      <4> QED BY <3>3, <4>1, <4>2, <2>1, <1>4, <1>5, <1>9
    <3> QED BY <2>2, <3>1, <3>2, <3>3, <1>4, Zenon
  <2> QED BY <2>2, <1>7, Zenon DEF Joined, BothFree
<1>15. Accounted'
  <2> DEFINE i == b + NodeWords
             U == UsedWords
  <2>1. UsedWords' = U \cup (i .. new - 1)
    <3>1. ASSUME NEW w PROVE w \in UsedWords' <=> w \in U \/ w \in i .. new - 1
      <4>1. w \in UsedWords' <=> \E n \in DOMAIN nodes' : nodes'[n].used /\ w \in n + NodeWords .. NextAddress(n)' - 1
        BY UsedWordNext, Zenon
      <4>2. w \in U <=> \E n \in DOMAIN nodes : nodes[n].used /\ w \in n + NodeWords .. NextAddress(n) - 1
        BY UsedWord, Zenon
      <4> QED BY <4>1, <4>2, <1>1, <1>4, <1>5, <1>8, <1>9
    <3> QED BY <3>1, Zenon
  <2>2. /\ U \subseteq 0 .. HeapWords - 1 /\ \A w \in U : w < b \/ end <= w
    BY <1>1, UsedApart, Zenon DEF end
  <2> HIDE DEF U
  <2>3. i \in Nat /\ i <= new /\ new <= HeapWords /\ end <= HeapWords /\ new - i = s /\ \A w \in U : w < i \/ new <= w
    BY <2>2, <1>1, <1>3, <1>4, <1>11, SMTT(20) DEF new
  <2> HIDE DEF i
  <2>4. /\ Cardinality(U) \in Nat
        /\ Cardinality(U \cup (i .. new - 1)) = Cardinality(U) + s
    <3>1. /\ Cardinality(U) \in Nat
          /\ Cardinality(U \cup (i .. new - 1)) = Cardinality(U) + (new - i)
      BY <2>2, <2>3, <1>4, WordCount, Zenon
    <3> QED BY <3>1, <2>3, Zenon
  <2>5. Cardinality(U) + (end - b) <= HeapWords
    <3>1. b <= end
      BY <1>3, <1>4
    <3> QED BY <3>1, <2>2, <2>3, <1>4, WordCount, Zenon
  <2>6. mem_heap_size = HeapWords - NodeWords - Cardinality(U)
    BY Zenon DEF Whole, Accounted, U
  <2> DEFINE c == Cardinality(U)
  <2>7. /\ c \in Nat /\ c + (end - b) <= HeapWords /\ mem_heap_size = HeapWords - NodeWords - c
        /\ s < end - b - NodeWords
    BY <2>4, <2>5, <2>6, <1>1, <1>3 DEF end
  <2> HIDE DEF c
  <2>8. mem_heap_size - s \in 0 .. WordMod - 1
    BY <2>7, <1>1, <1>3, <1>4, HeapAssumption, SMTT(20)
  <2>9. mem_heap_size' = mem_heap_size - s
    BY <2>8, <1>7, HeapAssumption
  <2> QED BY <2>1, <2>4, <2>6, <2>7, <2>9, <1>1, <1>3 DEF Accounted, c
<1> QED BY <1>7, <1>12, <1>13, <1>14, <1>15, Zenon DEF Whole

(* Where the nodes begin and end.                                          *)
LEMMA Addresses ==
  ASSUME Inv
  PROVE  /\ NodeWords \in Nat \ {0} /\ HeapWords \in Nat
         /\ \A n \in DOMAIN nodes : /\ n \in Nat /\ nodes[n].size \in Nat
                                    /\ NextAddress(n) = n + NodeWords + nodes[n].size
                                    /\ NextAddress(n) \in Nat /\ n + NodeWords <= NextAddress(n)
                                    /\ NextAddress(n) <= HeapWords
                                    /\ \A k \in DOMAIN nodes : n < k => NextAddress(n) <= k
  BY HeapAssumption DEF Inv, Typed, Apart, NodeType, NextAddress, Size

(* dos_mem_heap_init makes it whole ...                                    *)
LEMMA InitWhole == HeapInit /\ Rounded => Whole
<1> SUFFICES ASSUME HeapInit, Rounded PROVE Whole
  BY Zenon
<1> DEFINE size == HeapWords - NodeWords
<1>1. /\ DOMAIN nodes = {0} /\ nodes[0] = [prev |-> Null, size |-> size, used |-> FALSE]
      /\ mem_tail = 0 /\ mem_heap_size = size /\ freeing = "no" /\ (size + NodeWords) % (NodeWords + 1) = 0
  BY Zenon DEF HeapInit, Node, Rounded
<1>2. nodes[0].prev = Null /\ nodes[0].size = size /\ ~nodes[0].used
  BY <1>1
<1>3. size \in Nat /\ 0 + NodeWords + size = HeapWords
  BY HeapAssumption
<1> HIDE DEF size
<1>4. NextAddress(0) = HeapWords
  BY <1>2, <1>3, Zenon DEF NextAddress, Size
<1>5. Chained /\ Backward /\ Joined
  BY <1>1, <1>2, <1>4, Zenon DEF Chained, Backward, Joined, BothFree
<1>6. UsedWords = {}
  BY <1>1, <1>2, UsedWord, Zenon
<1>7. Cardinality(UsedWords) = 0
  BY <1>6, FS_EmptySet, Zenon
<1>8. Accounted
  BY <1>1, <1>3, <1>7, HeapAssumption DEF Accounted, size
<1> QED BY <1>5, <1>8, Zenon DEF Whole

(* ... and dos_mem_free keeps it whole: the block that is given back may   *)
(* have free neighbours, ...                                               *)
LEMMA ReleaseWhole ==
  ASSUME NEW n \in DOMAIN nodes, Inv, Whole, Release(n)
  PROVE  ~corrupt' /\ Whole'
<1>1. /\ freeing = "no" /\ nodes[n].used /\ free_node' = n /\ freeing' = "back" /\ mem_tail' = mem_tail
      /\ ~corrupt' /\ mem_heap_size' = (mem_heap_size + nodes[n].size) % WordMod
  <2>1. ~corrupt'
    BY Zenon DEF Release
  <2> QED BY <2>1, Zenon DEF Release, SizeAfterFree, Size
<1>2. /\ NodeWords \in Nat \ {0} /\ HeapWords \in Nat
      /\ \A k \in DOMAIN nodes : /\ k \in Nat /\ nodes[k].size \in Nat
                                 /\ NextAddress(k) = k + NodeWords + nodes[k].size
                                 /\ NextAddress(k) \in Nat /\ k + NodeWords <= NextAddress(k)
                                 /\ NextAddress(k) <= HeapWords
                                 /\ \A i \in DOMAIN nodes : k < i => NextAddress(k) <= i
  BY Addresses, Zenon
<1>3. /\ DOMAIN nodes' = DOMAIN nodes /\ ~nodes'[n].used
      /\ \A k \in DOMAIN nodes : /\ nodes'[k].size = nodes[k].size /\ nodes'[k].prev = nodes[k].prev
                                 /\ k # n => nodes'[k].used = nodes[k].used
  BY ReleaseEffect, Zenon
<1>4. \A k \in DOMAIN nodes : NextAddress(k)' = NextAddress(k)
  BY <1>3, Zenon DEF NextAddress, Size
<1>5. mem_tail \in DOMAIN nodes /\ \A k \in DOMAIN nodes \ {mem_tail} : NextAddress(k) \in DOMAIN nodes
  BY <1>1, Zenon DEF Inv, LastIsTail, Whole, Chained, Release
<1>6. Chained'
  <2>1. NextAddress(mem_tail)' = NextAddress(mem_tail)
    BY <1>1, <1>3, <1>5, Zenon DEF NextAddress, Size
  <2> QED BY <2>1, <1>1, <1>3, <1>4, SMTT(20) DEF Whole, Chained
<1>7. Backward'
  BY <1>1, <1>3, <1>4, <1>5 DEF Whole, Backward
<1>8. Joined'
  <2>1. \A k \in DOMAIN nodes : ~BothFree(k)
    BY <1>1, Zenon DEF Whole, Joined
  <2>2. ASSUME NEW k \in DOMAIN nodes, BothFree(k)' PROVE k = n \/ NextAddress(k)' = n
    BY <2>1, <2>2, <1>1, <1>3, <1>4, <1>5, Zenon DEF BothFree
  <2>3. Around(n)'
    BY <2>2, <1>1, <1>3, Zenon DEF Around
  <2> QED BY <2>3, <1>1, <1>3, Zenon DEF Joined
<1>9. Accounted'
  <2> DEFINE i == n + NodeWords
             j == NextAddress(n)
             U == UsedWords'
  <2>1. ASSUME NEW w
        PROVE  /\ w \in UsedWords <=> w \in U \/ w \in i .. j - 1
               /\ w \in U => w \in 0 .. HeapWords - 1 /\ (w < n \/ j <= w)
    <3>1. w \in UsedWords <=> \E k \in DOMAIN nodes : nodes[k].used /\ w \in k + NodeWords .. NextAddress(k) - 1
      BY UsedWord, Zenon
    <3>2. w \in U <=> \E k \in DOMAIN nodes' : nodes'[k].used /\ w \in k + NodeWords .. NextAddress(k)' - 1
      BY UsedWordNext, Zenon
    <3>3. w \in U <=> \E k \in DOMAIN nodes \ {n} : nodes[k].used /\ w \in k + NodeWords .. NextAddress(k) - 1
      BY <3>2, <1>3, <1>4, Zenon
    <3>4. w \in UsedWords <=> w \in U \/ w \in i .. j - 1
      BY <3>1, <3>3, <1>1, Zenon
    <3>5. w \in U => w \in 0 .. HeapWords - 1 /\ (w < n \/ j <= w)
      BY <3>3, <1>2
    <3> QED BY <3>4, <3>5, Zenon
  <2> HIDE DEF U
  <2>2. UsedWords = U \cup (i .. j - 1)
    BY <2>1, Zenon
  <2>3. U \subseteq 0 .. HeapWords - 1 /\ \A w \in U : w < n \/ j <= w
    BY <2>1, Zenon
  <2>4. /\ n \in Nat /\ i \in Nat /\ j \in Nat /\ i <= j /\ n <= j /\ j <= HeapWords /\ j - i = nodes[n].size
        /\ j - n = nodes[n].size + NodeWords /\ nodes[n].size \in Nat
        /\ \A w \in U : w < i \/ j <= w
    <3>1. /\ n \in Nat /\ i \in Nat /\ j \in Nat /\ i <= j /\ n <= j /\ n <= i /\ j <= HeapWords
          /\ j - i = nodes[n].size /\ j - n = nodes[n].size + NodeWords /\ nodes[n].size \in Nat
      BY <1>2
    <3> HIDE DEF i, j
    <3>2. \A w \in U : w < i \/ j <= w
      BY <3>1, <2>3
    <3> QED BY <3>1, <3>2, Zenon
  <2> HIDE DEF i, j
  <2> DEFINE c == Cardinality(U)
             s == nodes[n].size
  <2>5. c \in Nat /\ Cardinality(UsedWords) = c + (j - i)
    BY <2>2, <2>3, <2>4, WordCount, Zenon
  <2>6. c + (j - n) <= HeapWords
    BY <2>3, <2>4, WordCount, Zenon
  <2>7. mem_heap_size = HeapWords - NodeWords - (c + s)
    BY <2>4, <2>5, Zenon DEF Whole, Accounted
  <2>8. c \in Nat /\ s \in Nat /\ c + s + NodeWords <= HeapWords
    BY <2>4, <2>5, <2>6, <1>2, SMTT(20)
  <2>9. mem_heap_size' = (mem_heap_size + s) % WordMod
    BY <1>1, Zenon
  <2> HIDE DEF c, s
  <2>10. mem_heap_size + s = HeapWords - NodeWords - c /\ HeapWords - NodeWords - c \in 0 .. WordMod - 1
    BY <2>7, <2>8, <1>2, HeapAssumption
  <2>11. mem_heap_size' = HeapWords - NodeWords - c
    BY <2>9, <2>10, HeapAssumption
  <2> QED BY <2>11, Zenon DEF Accounted, c, U
<1> QED BY <1>1, <1>6, <1>7, <1>8, <1>9, Zenon DEF Whole

(* ... which the two searches find ...                                     *)
LEMMA BackWhole ==
  ASSUME ~corrupt, Inv, Whole, GoBack
  PROVE  ~corrupt' /\ Whole'
<1> DEFINE f == free_node
           p == nodes[f].prev
<1>1. /\ freeing = "back" /\ UNCHANGED <<nodes, mem_tail, mem_heap_size, corrupt>>
      /\ IF p \in DOMAIN nodes /\ ~nodes[p].used THEN free_node' = p /\ freeing' = "back"
                                                 ELSE free_node' = f /\ freeing' = "forward"
  BY Zenon DEF GoBack, IsFree
<1>2. f \in DOMAIN nodes /\ ~nodes[f].used /\ mem_tail \in DOMAIN nodes /\ \A n \in DOMAIN nodes : n <= mem_tail
  BY <1>1, Zenon DEF Inv, Freeing, Whole, Joined, LastIsTail
<1>3. p # Null => p \in DOMAIN nodes /\ First(p, f)
  BY <1>1, <1>2, Zenon DEF Inv, Linked
<1>4. ~corrupt'
  BY <1>1, Zenon
<1>5. /\ NodeWords \in Nat \ {0} /\ HeapWords \in Nat
      /\ \A n \in DOMAIN nodes : /\ n \in Nat /\ NextAddress(n) \in Nat /\ n + NodeWords <= NextAddress(n)
                                 /\ \A k \in DOMAIN nodes : n < k => NextAddress(n) <= k
  BY Addresses, Zenon
<1> HIDE DEF p
<1>6. Chained' /\ Accounted'
  BY <1>1, Zenon DEF Whole, Chained, Accounted, UsedWords, NextAddress, Size
<1>7. Backward'
  BY <1>1, Zenon DEF Whole, Backward, NextAddress, Size
<1>8. PICK r \in DOMAIN nodes : Around(r)
  BY <1>1, Zenon DEF Whole, Joined
<1>9. \A n \in DOMAIN nodes : BothFree(n)' = BothFree(n) /\ NextAddress(n)' = NextAddress(n)
  BY <1>1, Zenon DEF BothFree, NextAddress, Size
<1>10. Joined'
  <2>1. CASE p \in DOMAIN nodes /\ ~nodes[p].used
    <3>1. /\ p # mem_tail /\ p < f /\ \A i \in DOMAIN nodes : i <= p \/ f <= i
      BY <2>1, <1>2, <1>3, <1>5, HeapAssumption DEF First
    <3>2. NextAddress(p) = f
      <4>1. NextAddress(p) \in DOMAIN nodes
        BY <2>1, <3>1, Zenon DEF Whole, Chained
      <4> QED BY <2>1, <3>1, <4>1, <1>2, <1>5
    <3>3. BothFree(p)
      BY <2>1, <3>1, <3>2, <1>2, Zenon DEF BothFree
    <3>4. r = f
      <4>1. ASSUME f # mem_tail, r = NextAddress(f) PROVE FALSE
        <5>1. p = r \/ f = r
          BY <2>1, <3>2, <3>3, <1>8, Zenon DEF Around
        <5> QED BY <4>1, <5>1, <3>1, <2>1, <1>2, <1>5
      <4> QED BY <4>1, <1>8, Zenon DEF Around
    <3>5. Around(r)'
      <4>0. free_node' = p
        BY <2>1, <1>1, Zenon
      <4>1. /\ ~nodes'[r].used /\ free_node' # mem_tail' /\ r = NextAddress(free_node)'
        BY <4>0, <3>1, <3>2, <3>4, <1>1, <1>2, Zenon DEF NextAddress, Size
      <4>2. \A n \in DOMAIN nodes' : BothFree(n)' => n = r \/ NextAddress(n)' = r
        BY <1>1, <1>8, <1>9, Zenon DEF Around
      <4> QED BY <4>1, <4>2, Zenon DEF Around
    <3> QED BY <2>1, <3>5, <1>1, Zenon DEF Joined
  <2>2. CASE ~(p \in DOMAIN nodes /\ ~nodes[p].used)
    <3>1. ASSUME NEW n \in DOMAIN nodes \ {mem_tail}, NextAddress(n) = f PROVE nodes[n].used
      <4>1. p = n
        BY <3>1, <1>1, Zenon DEF Whole, Backward, p
      <4> QED BY <2>2, <4>1, Zenon
    <3>2. freeing' = "forward" /\ free_node' = f
      BY <2>2, <1>1, Zenon
    <3>3. Around(r)'
      <4>1. /\ ~nodes'[r].used /\ (r = free_node' \/ (free_node' # mem_tail' /\ r = NextAddress(f)'))
        BY <3>2, <1>1, <1>2, <1>8, <1>9, Zenon DEF Around
      <4>2. \A n \in DOMAIN nodes' : BothFree(n)' => n = r \/ NextAddress(n)' = r
        BY <1>1, <1>8, <1>9, Zenon DEF Around
      <4> QED BY <3>2, <4>1, <4>2, <1>1, Zenon DEF Around, NextAddress, Size
    <3> QED BY <3>1, <3>2, <3>3, <1>1, <1>2, <1>9, Zenon DEF Joined
  <2> QED BY <2>1, <2>2, Zenon
<1> QED BY <1>4, <1>6, <1>7, <1>10, Zenon DEF Whole

LEMMA ForwardWhole ==
  ASSUME ~corrupt, Inv, Whole, GoForward
  PROVE  ~corrupt' /\ Whole'
<1> DEFINE f == free_node
           k == NextAddress(f)
<1>1. /\ freeing = "forward" /\ UNCHANGED <<nodes, mem_tail, mem_heap_size, free_node>>
      /\ f \in DOMAIN nodes /\ ~nodes[f].used
  BY Zenon DEF GoForward, Inv, Freeing, Whole, Joined
<1>2. f # mem_tail => k \in DOMAIN nodes
  BY <1>1, Zenon DEF Whole, Chained
<1>3. Null \notin DOMAIN nodes
  BY HeapAssumption, Zenon DEF Inv, Typed
<1>4. /\ corrupt' = corrupt
      /\ \/ freeing' = "link" /\ (f = mem_tail \/ nodes[k].used)
         \/ freeing' = "merge"
  <2> DEFINE found == NextNode(f)
  <2>1. found = IF f = mem_tail THEN Null ELSE k
    BY Zenon DEF NextNode
  <2>2. \/ /\ found = Null \/ (found \in DOMAIN nodes /\ nodes[found].used)
           /\ freeing' = "link" /\ UNCHANGED corrupt
        \/ freeing' = "merge" /\ UNCHANGED corrupt
    BY Zenon DEF GoForward
  <2> HIDE DEF found, k
  <2> QED BY <2>1, <2>2, <1>2, <1>3, Zenon
<1>5. Chained' /\ Accounted'
  BY <1>1, Zenon DEF Whole, Chained, Accounted, UsedWords, NextAddress, Size
<1>6. Backward'
  BY <1>1, <1>4, Zenon DEF Whole, Backward, NextAddress, Size
<1>7. PICK r \in DOMAIN nodes : Around(r)
  BY <1>1, Zenon DEF Whole, Joined
<1>8. \A n \in DOMAIN nodes : BothFree(n)' = BothFree(n) /\ NextAddress(n)' = NextAddress(n)
  BY <1>1, Zenon DEF BothFree, NextAddress, Size
<1>9. Joined'
  <2>0. \A n \in DOMAIN nodes \ {mem_tail} : NextAddress(n) = f => nodes[n].used
    BY <1>1, Zenon DEF Whole, Joined
  <2>1. CASE freeing' = "link" /\ (f = mem_tail \/ nodes[k].used)
    <3>1. r = f
      BY <2>1, <1>7, Zenon DEF Around
    <3>2. \A n \in DOMAIN nodes : ~BothFree(n)
      <4> SUFFICES ASSUME NEW n \in DOMAIN nodes, BothFree(n) PROVE FALSE
        BY Zenon
      <4>1. n = f \/ NextAddress(n) = f
        BY <3>1, <1>7, Zenon DEF Around
      <4> QED BY <4>1, <2>0, <2>1, Zenon DEF BothFree
    <3> QED BY <2>1, <3>2, <1>1, <1>8, Zenon DEF Joined
  <2>2. CASE freeing' = "merge"
    <3>1. Around(r)'
      <4>1. /\ ~nodes'[r].used /\ (r = f \/ (f # mem_tail' /\ r = NextAddress(f)'))
        BY <1>1, <1>7, <1>8, Zenon DEF Around
      <4>2. \A n \in DOMAIN nodes' : BothFree(n)' => n = r \/ NextAddress(n)' = r
        BY <1>1, <1>7, <1>8, Zenon DEF Around
      <4> QED BY <4>1, <4>2, <1>1, Zenon DEF Around, NextAddress, Size
    <3> QED BY <2>0, <2>2, <3>1, <1>1, <1>8, Zenon DEF Joined
  <2> QED BY <2>1, <2>2, <1>4, Zenon
<1> QED BY <1>1, <1>4, <1>5, <1>6, <1>9, Zenon DEF Whole

(* ... and take in ...                                                     *)
LEMMA MergeWhole ==
  ASSUME ~corrupt, Inv, Whole, Merge
  PROVE  ~corrupt' /\ Whole'
<1> DEFINE f == free_node
           m == next_free
<1>1. /\ freeing = "merge" /\ freeing' = "forward" /\ free_node' = f /\ mem_heap_size' = mem_heap_size
      /\ ~nodes[f].used /\ mem_tail \in DOMAIN nodes /\ \A n \in DOMAIN nodes : n <= mem_tail
  BY Zenon DEF Merge, Inv, LastIsTail, Whole, Joined
<1>2. /\ f \in DOMAIN nodes /\ m \in DOMAIN nodes /\ ~nodes[m].used
      /\ f \in Nat /\ m \in Nat /\ f < m /\ m = f + NodeWords + nodes[f].size
      /\ nodes[f].size \in Nat /\ nodes[m].size \in Nat
      /\ DOMAIN nodes' = DOMAIN nodes \ {m}
      /\ nodes'[f].size = nodes[f].size + NodeWords + nodes[m].size
      /\ mem_tail' = (IF m = mem_tail THEN f ELSE mem_tail) /\ ~corrupt'
  BY MergeEffect
<1>3. \A n \in DOMAIN nodes \ {m} :
        /\ n # f => nodes'[n].size = nodes[n].size
        /\ nodes'[n].used = nodes[n].used /\ nodes'[n].prev = nodes[n].prev
  BY MergeEffect, Zenon
<1>4. /\ NodeWords \in Nat \ {0} /\ HeapWords \in Nat
      /\ \A n \in DOMAIN nodes : /\ n \in Nat /\ nodes[n].size \in Nat
                                 /\ NextAddress(n) = n + NodeWords + nodes[n].size
                                 /\ NextAddress(n) \in Nat /\ n + NodeWords <= NextAddress(n)
                                 /\ \A k \in DOMAIN nodes : n < k => NextAddress(n) <= k
  BY Addresses, Zenon
<1>5. NextAddress(f) = m /\ f # mem_tail
  BY <1>1, <1>2, <1>4
<1>6. NextAddress(f)' = NextAddress(m)
  BY <1>1, <1>2, <1>4 DEF NextAddress, Size
<1> HIDE DEF f, m
<1>7. \A n \in DOMAIN nodes \ {f, m} : NextAddress(n)' = NextAddress(n) /\ NextAddress(n) # m
  <2>1. \A n \in DOMAIN nodes \ {f, m} : NextAddress(n)' = NextAddress(n)
    BY <1>3, Zenon DEF NextAddress, Size
  <2>2. \A n \in DOMAIN nodes \ {f, m} : NextAddress(n) # m
    BY <1>2, <1>4, <1>5
  <2> QED BY <2>1, <2>2, Zenon
<1>8. \A n \in DOMAIN nodes \ {m} : n # mem_tail' => n = f \/ n # mem_tail
  BY <1>2, Zenon
<1>9. Chained'
  <2>1. 0 \in DOMAIN nodes' /\ nodes'[0].prev = Null
    BY <1>2, <1>3, SMTT(20) DEF Whole, Chained
  <2>2. NextAddress(mem_tail)' = HeapWords
    <3>0. NextAddress(mem_tail) = HeapWords
      BY Zenon DEF Whole, Chained
    <3>1. CASE m = mem_tail
      <4>1. mem_tail' = f /\ f' = f
        BY <3>1, <1>1, <1>2, Zenon DEF f
      <4>2. NextAddress(mem_tail)' = NextAddress(f)'
        BY <4>1, Zenon DEF NextAddress, Size
      <4> QED BY <3>0, <3>1, <4>2, <1>6, Zenon
    <3>2. CASE m # mem_tail
      <4>1. mem_tail' = mem_tail /\ mem_tail \in DOMAIN nodes \ {f, m}
        BY <3>2, <1>1, <1>2, <1>5, Zenon
      <4> QED BY <3>0, <4>1, <1>3, Zenon DEF NextAddress, Size
    <3> QED BY <3>1, <3>2, Zenon
  <2>3. ASSUME NEW n \in DOMAIN nodes', n # mem_tail' PROVE NextAddress(n)' \in DOMAIN nodes'
    <3>1. CASE n = f
      <4>1. m # mem_tail
        BY <2>3, <3>1, <1>2, Zenon
      <4>2. NextAddress(m) \in DOMAIN nodes \ {m}
        BY <4>1, <1>2, <1>4 DEF Whole, Chained
      <4>3. NextAddress(n)' = NextAddress(m)
        BY <3>1, <1>1, <1>6, Zenon DEF NextAddress, Size, f
      <4> QED BY <4>2, <4>3, <1>2, Zenon
    <3>2. CASE n # f
      <4>1. n \in DOMAIN nodes \ {f, m} /\ n # mem_tail
        BY <2>3, <3>2, <1>2, <1>8, Zenon
      <4> QED BY <4>1, <1>2, <1>7, Zenon DEF Whole, Chained
    <3> QED BY <3>1, <3>2, Zenon
  <2>4. ASSUME NEW n \in DOMAIN nodes' PROVE (nodes'[n].size + NodeWords) % (NodeWords + 1) = 0
    <3>1. CASE n = f
      <4> DEFINE x == nodes[f].size + NodeWords
                 y == nodes[m].size + NodeWords
                 k == NodeWords + 1
      <4>1. x \in Nat /\ y \in Nat /\ k \in Nat \ {0} /\ x % k = 0 /\ y % k = 0
        BY <1>2, <1>4 DEF Whole, Chained
      <4>2. nodes'[n].size + NodeWords = x + y
        BY <3>1, <1>2, <1>4
      <4> HIDE DEF x, y, k
      <4>3. (x + y) % k = 0
        BY <4>1, Multiples, Zenon
      <4> QED BY <4>2, <4>3, Zenon DEF k
    <3>2. CASE n # f
      BY <2>4, <3>2, <1>2, <1>3, Zenon DEF Whole, Chained
    <3> QED BY <3>1, <3>2, Zenon
  <2> QED BY <2>1, <2>2, <2>3, <2>4, Zenon DEF Chained
<1>10. Backward'
  <2>1. ASSUME NEW n \in DOMAIN nodes', n # mem_tail', n # f PROVE nodes'[NextAddress(n)'].prev = n
    <3>1. n \in DOMAIN nodes \ {f, m} /\ n # mem_tail
      BY <2>1, <1>2, <1>8, Zenon
    <3>2. NextAddress(n) \in DOMAIN nodes /\ nodes[NextAddress(n)].prev = n
      BY <3>1, Zenon DEF Whole, Chained, Backward, f
    <3> QED BY <3>1, <3>2, <1>3, <1>7, Zenon
  <2> QED BY <2>1, <1>1, Zenon DEF Backward
<1>11. Joined'
  <2>1. \A n \in DOMAIN nodes \ {mem_tail} : NextAddress(n) = f => nodes[n].used
    BY <1>1, Zenon DEF Whole, Joined, f
  <2>2. PICK r \in {f, m} : Around(r)
    BY <1>1, <1>5, Zenon DEF Whole, Joined, Around, f
  <2>3. ASSUME NEW n \in DOMAIN nodes', n # mem_tail', NextAddress(n)' = f PROVE nodes'[n].used
    <3>1. n # f
      <4>1. NextAddress(m) # f
        BY <1>2, <1>4
      <4> QED BY <2>3, <4>1, <1>1, <1>6, Zenon DEF NextAddress, Size, f
    <3> QED BY <2>1, <2>3, <3>1, <1>2, <1>3, <1>7, <1>8, Zenon
  <2>4. ASSUME NEW n \in DOMAIN nodes', BothFree(n)', n # f PROVE FALSE
    <3>1. n \in DOMAIN nodes \ {f, m} /\ n # mem_tail /\ ~nodes[n].used
      BY <2>4, <1>2, <1>3, <1>8, Zenon DEF BothFree
    <3>2. NextAddress(n) \in DOMAIN nodes /\ NextAddress(n) # m /\ ~nodes[NextAddress(n)].used
      BY <2>4, <3>1, <1>3, <1>7, Zenon DEF BothFree, Whole, Chained
    <3>3. n = r \/ NextAddress(n) = r
      BY <2>2, <3>1, <3>2, Zenon DEF BothFree, Around
    <3> QED BY <2>1, <2>2, <3>1, <3>2, <3>3, Zenon
  <2>5. ~nodes'[f].used /\ f \in DOMAIN nodes'
    BY <1>1, <1>2, <1>3 DEF f
  <2>6. Around(free_node)'
    BY <2>4, <2>5, <1>1, Zenon DEF Around
  <2> QED BY <2>3, <2>5, <2>6, <1>1, Zenon DEF Joined
<1>12. Accounted'
  <2>1. ASSUME NEW w PROVE w \in UsedWords' <=> w \in UsedWords
    <3>1. w \in UsedWords <=> \E k \in DOMAIN nodes : nodes[k].used /\ w \in k + NodeWords .. NextAddress(k) - 1
      BY UsedWord, Zenon
    <3>2. w \in UsedWords' <=> \E k \in DOMAIN nodes' : nodes'[k].used /\ w \in k + NodeWords .. NextAddress(k)' - 1
      BY UsedWordNext, Zenon
    <3>3. ~nodes[f].used
      BY <1>1, Zenon DEF f
    <3> QED BY <3>1, <3>2, <3>3, <1>2, <1>3, <1>7, Zenon
  <2>2. UsedWords' = UsedWords
    BY <2>1, Zenon
  <2> QED BY <2>2, <1>1, Zenon DEF Whole, Accounted
<1> QED BY <1>2, <1>9, <1>10, <1>11, <1>12, Zenon DEF Whole

(* ... before the last link is set.                                        *)
LEMMA LinkWhole ==
  ASSUME ~corrupt, Inv, Whole, Link
  PROVE  ~corrupt' /\ Whole'
<1> DEFINE f == free_node
           k == f + NodeWords + nodes[f].size
<1>1. /\ freeing = "link" /\ freeing' = "no" /\ UNCHANGED <<mem_tail, mem_heap_size>>
      /\ mem_tail \in DOMAIN nodes
  BY Zenon DEF Link, Inv, LastIsTail
<1>2. /\ f \in DOMAIN nodes /\ f \in Nat /\ k \in Nat /\ f < k
      /\ DOMAIN nodes' = DOMAIN nodes /\ ~corrupt'
      /\ \A n \in DOMAIN nodes : /\ nodes'[n].size = nodes[n].size /\ nodes'[n].used = nodes[n].used
                                 /\ n # k => nodes'[n].prev = nodes[n].prev
  BY LinkEffect
<1>3. IF f = mem_tail THEN UNCHANGED nodes ELSE k \in DOMAIN nodes /\ nodes'[k].prev = f
  BY LinkEffect, Zenon
<1>4. /\ NodeWords \in Nat \ {0}
      /\ \A n \in DOMAIN nodes : /\ n \in Nat /\ NextAddress(n) \in Nat /\ n + NodeWords <= NextAddress(n)
                                 /\ \A i \in DOMAIN nodes : n < i => NextAddress(n) <= i
  BY Addresses, Zenon
<1>5. k = NextAddress(f)
  BY Zenon DEF NextAddress, Size
<1> HIDE DEF f, k
<1>6. \A n \in DOMAIN nodes : NextAddress(n)' = NextAddress(n) /\ (n # f => NextAddress(n) # k)
  <2>1. \A n \in DOMAIN nodes : NextAddress(n)' = NextAddress(n)
    BY <1>2, Zenon DEF NextAddress, Size
  <2>2. \A n \in DOMAIN nodes : n # f => NextAddress(n) # k
    BY <1>2, <1>4, <1>5
  <2> QED BY <2>1, <2>2, Zenon
<1>7. Chained'
  <2>1. NextAddress(mem_tail)' = NextAddress(mem_tail)
    BY <1>1, <1>2, Zenon DEF NextAddress, Size
  <2>2. 0 # k
    BY <1>2
  <2> QED BY <2>1, <2>2, <1>1, <1>2, <1>6, Zenon DEF Whole, Chained
<1>8. Backward'
  <2>1. ASSUME NEW n \in DOMAIN nodes \ {mem_tail} PROVE nodes'[NextAddress(n)].prev = n
    <3>1. CASE n = f
      BY <2>1, <3>1, <1>3, <1>5, Zenon
    <3>2. CASE n # f
      <4>1. NextAddress(n) \in DOMAIN nodes /\ nodes[NextAddress(n)].prev = n
        BY <2>1, <3>2, Zenon DEF Whole, Chained, Backward, f
      <4> QED BY <3>2, <4>1, <1>2, <1>6, Zenon
    <3> QED BY <3>1, <3>2, Zenon
  <2> QED BY <2>1, <1>1, <1>2, <1>6 DEF Backward
<1>9. Joined'
  <2>1. \A n \in DOMAIN nodes : ~BothFree(n)
    BY <1>1, Zenon DEF Whole, Joined
  <2>2. \A n \in DOMAIN nodes \ {mem_tail} : NextAddress(n) \in DOMAIN nodes
    BY Zenon DEF Whole, Chained
  <2> QED BY <2>1, <2>2, <1>1, <1>2, <1>6, Zenon DEF BothFree, Joined
<1>10. Accounted'
  <2>1. ASSUME NEW w PROVE w \in UsedWords' <=> w \in UsedWords
    <3>1. w \in UsedWords <=> \E n \in DOMAIN nodes : nodes[n].used /\ w \in n + NodeWords .. NextAddress(n) - 1
      BY UsedWord, Zenon
    <3>2. w \in UsedWords' <=> \E n \in DOMAIN nodes' : nodes'[n].used /\ w \in n + NodeWords .. NextAddress(n)' - 1
      BY UsedWordNext, Zenon
    <3> QED BY <3>1, <3>2, <1>2, <1>6, Zenon
  <2>2. UsedWords' = UsedWords
    BY <2>1, Zenon
  <2> QED BY <2>2, <1>1, Zenon DEF Whole, Accounted
<1> QED BY <1>2, <1>7, <1>8, <1>9, <1>10, Zenon DEF Whole

(* A step that leaves the heap alone, as those of the pool do.             *)
LEMMA SameHeap ==
  ASSUME UNCHANGED heapVars, ~corrupt, Whole
  PROVE  ~corrupt' /\ Whole'
<1>1. /\ nodes' = nodes /\ mem_tail' = mem_tail /\ mem_heap_size' = mem_heap_size
      /\ freeing' = freeing /\ free_node' = free_node /\ corrupt' = corrupt
  BY Zenon DEF heapVars
<1>2. Chained'
  BY <1>1, Zenon DEF Whole, Chained, NextAddress, Size
<1>3. Backward'
  BY <1>1, Zenon DEF Whole, Backward, NextAddress, Size
<1>4. Accounted'
  BY <1>1, Zenon DEF Whole, Accounted, UsedWords, NextAddress, Size
<1>5. Joined'
  BY <1>1, Zenon DEF Whole, Joined, Around, BothFree, NextAddress, Size
<1> QED BY <1>1, <1>2, <1>3, <1>4, <1>5, Zenon DEF Whole

LEMMA Wholeness == Spec => [](Rounded => ~corrupt /\ Whole)
<1> DEFINE J == Rounded => ~corrupt /\ Whole
<1>1. Init => J
  <2>1. HeapInit => ~corrupt
    BY Zenon DEF HeapInit
  <2> QED BY <2>1, InitWhole, Zenon DEF Init
<1>2. HeapInv /\ J /\ [Next]_vars => J'
  <2> SUFFICES ASSUME HeapInv, J, [Next]_vars PROVE J'
    BY Zenon
  <2>1. UNCHANGED usage
    BY HeapStep, Zenon
  <2>2. SUFFICES ASSUME Rounded, Inv, ~corrupt, Whole, usage \in Usages PROVE ~corrupt' /\ Whole'
    BY <2>1, Zenon DEF Rounded, HeapInv
  <2>3. CASE UNCHANGED heapVars
    BY <2>2, <2>3, SameHeap, Zenon
  <2>4. ASSUME NEW b \in DOMAIN nodes, NEW s \in usage.sizes, Alloc(b, s) PROVE ~corrupt' /\ Whole'
    BY <2>2, <2>4, AllocWhole, Zenon
  <2>5. ASSUME NEW n \in DOMAIN nodes, Release(n) PROVE ~corrupt' /\ Whole'
    BY <2>2, <2>5, ReleaseWhole, Zenon
  <2>6. CASE GoBack \/ GoForward \/ Merge \/ Link
    BY <2>2, <2>6, BackWhole, ForwardWhole, MergeWhole, LinkWhole, Zenon
  <2>7. ~Stray
    <3> SUFFICES ASSUME freeing = "forward" PROVE NextNode(free_node) \in DOMAIN nodes \cup {Null}
      BY Zenon DEF Stray
    <3>1. free_node \in DOMAIN nodes
      BY <2>2, Zenon DEF Inv, Freeing
    <3> QED BY <3>1, <2>2, Zenon DEF Whole, Chained, NextNode
  <2> QED BY <2>3, <2>4, <2>5, <2>6, <2>7, HeapStep, Zenon
<1> QED BY <1>1, <1>2, Invariance, PTL DEF Spec

(* With rounded blocks and calls that do not interleave, dos_mem_alloc and *)
(* dos_mem_free never follow a link to where no node is, and between calls *)
(* the nodes fill the heap, linked both ways, no two neighbours are both   *)
(* free and mem_heap_size is what is not in use: memory that is given back *)
(* is whole again, for every heap and all sizes.                           *)
THEOREM FillsHeap == Spec => []Tiles
<1>1. (Rounded => ~corrupt /\ Whole) => Tiles
  <2> SUFFICES ASSUME Rounded, ~corrupt, Whole PROVE Tiles
    BY Zenon DEF Tiles
  <2>1. ASSUME freeing = "no", NEW n \in DOMAIN nodes \ {mem_tail}
        PROVE  /\ NextAddress(n) \in DOMAIN nodes /\ nodes[NextAddress(n)].prev = n
               /\ nodes[n].used \/ nodes[NextAddress(n)].used
    BY <2>1, Zenon DEF Whole, Chained, Backward, Joined, BothFree
  <2>2. Accounted /\ NextAddress(mem_tail) = HeapWords /\ 0 \in DOMAIN nodes /\ nodes[0].prev = Null
    BY Zenon DEF Whole, Chained
  <2> QED BY <2>1, <2>2, Zenon DEF Tiles, Accounted
<1> QED BY <1>1, Wholeness, PTL

(* The memory that dos_mem_alloc returns is the caller's alone, at every   *)
(* step of the heap and pool calls of all others, for every heap whose     *)
(* calls do not interleave: for ever if the sizes asked for are rounded,   *)
(* and otherwise until a call meets an address without a node.             *)
THEOREM NeverOverlaps == Spec => []NoOverlap
<1> DEFINE W == Rounded => ~corrupt /\ Whole
<1>1. HeapInv /\ W => NoOverlap
  BY Zenon DEF HeapInv, Inv, Apart, NoOverlap, Intact, NextAddress, Size
<1> QED BY <1>1, Invariance, Wholeness, PTL

(* A pool whose calls do not interleave, in a heap that is intact, is      *)
(* exact between them: its blocks lie inside the heap block it was given,  *)
(* and every block is either with one task, marked used, or once on the    *)
(* free list, and memp_free_count counts those: for every size of pool and *)
(* of block, and any tasks.                                                *)
THEOREM KeepsPool == Spec => []PoolExact
<1> DEFINE K == "pool" \notin usage.shared => PoolInv
           W == Rounded => ~corrupt /\ Whole
<1>1. HeapInv /\ InsideInv /\ K /\ W => PoolExact
  <2> SUFFICES ASSUME memp # Null, Inv, Inside, K PROVE
                 /\ BlockAddress(memp_cnt) + MempNodeWords + blk_size <= memp + Size(memp - NodeWords)
                 /\ ("pool" \notin usage.shared /\ \A t \in Tasks : pc[t] = "app") =>
                      \E l \in UNION {[1 .. k -> Blocks] : k \in 0 .. memp_cnt} :
                        /\ IsFreeList(l) /\ IsInjective(l) /\ memp_free_count = Len(l)
                        /\ \A b \in Blocks \ Range(l) : status[b] /\ \E t \in Tasks : b \in mine[t]
                        /\ \A t, u \in Tasks : mine[t] \cap Range(l) = {} /\ (t # u => mine[t] \cap mine[u] = {})
    BY Zenon DEF PoolExact, HeapInv, InsideInv, Intact
  <2>1. BlockAddress(memp_cnt) + MempNodeWords + blk_size <= memp + Size(memp - NodeWords)
    <3> DEFINE c == memp_cnt
    <3>1. c \in Nat \ {0} /\ c * blk_size <= memp_size
      BY PoolSize, Zenon
    <3>2. memp \in Nat /\ Size(memp - NodeWords) = MempWords + MempNodeWords * c + memp_size
      BY Zenon DEF Inside, Size, PoolWords
    <3>3. BlockAddress(memp_cnt) = memp + MempWords + (c - 1) * (MempNodeWords + blk_size)
      BY Zenon DEF BlockAddress
    <3> HIDE DEF c
    <3>4. (c - 1) * (MempNodeWords + blk_size) = MempNodeWords * c + c * blk_size - (MempNodeWords + blk_size)
      BY <3>1, MempAssumption
    <3> DEFINE x == MempNodeWords * c
               y == c * blk_size
    <3>5. x \in Nat /\ y \in Nat
      BY <3>1, MempAssumption
    <3> HIDE DEF x, y
    <3>6. BlockAddress(memp_cnt) = memp + MempWords + (x + y - (MempNodeWords + blk_size))
      BY <3>3, <3>4, Zenon DEF x, y
    <3>7. Size(memp - NodeWords) = MempWords + x + memp_size /\ y <= memp_size
      BY <3>1, <3>2, Zenon DEF x, y
    <3> QED BY <3>2, <3>5, <3>6, <3>7, MempAssumption
  <2>2. ASSUME "pool" \notin usage.shared, \A t \in Tasks : pc[t] = "app"
        PROVE  \E l \in UNION {[1 .. k -> Blocks] : k \in 0 .. memp_cnt} :
                 /\ IsFreeList(l) /\ IsInjective(l) /\ memp_free_count = Len(l)
                 /\ \A b \in Blocks \ Range(l) : status[b] /\ \E t \in Tasks : b \in mine[t]
                 /\ \A t, u \in Tasks : mine[t] \cap Range(l) = {} /\ (t # u => mine[t] \cap mine[u] = {})
    <3>1. PICK k \in 0 .. memp_cnt : \E l \in [1 .. k -> Blocks] : FreeList(l, k)
      BY <2>2, Zenon DEF PoolInv
    <3>2. PICK l \in [1 .. k -> Blocks] : FreeList(l, k)
      BY <3>1, Zenon
    <3>3. k \in Nat /\ DOMAIN l = 1 .. k /\ Len(l) = k /\ (l = << >> <=> k = 0)
      BY <3>2, PoolSize
    <3>4. memp_free = Top(l, k) /\ memp_free_count = k
      BY <2>2, <3>2, Zenon DEF FreeList, Counts
    <3>5. IsFreeList(l) /\ IsInjective(l)
      BY <3>2, <3>3, <3>4, Zenon DEF FreeList, Listed, IsFreeList, IsInjective, Top
    <3>6. \A b : b \in Range(l) <=> \E i \in 1 .. k : l[i] = b
      BY <3>3, Zenon DEF Range
    <3>7. \A b \in Blocks \ Range(l) : status[b] /\ \E t \in Tasks : b \in mine[t]
      BY <2>2, <3>2, <3>6, Zenon DEF FreeList, Shares
    <3>8. \A t, u \in Tasks : mine[t] \cap Range(l) = {} /\ (t # u => mine[t] \cap mine[u] = {})
      BY <3>2, <3>6 DEF FreeList, Shares
    <3>9. l \in UNION {[1 .. n -> Blocks] : n \in 0 .. memp_cnt}
      BY <3>1, <3>2, Zenon
    <3> QED BY <3>3, <3>4, <3>5, <3>7, <3>8, <3>9, Zenon
  <2> QED BY <2>1, <2>2, Zenon
<1> QED BY <1>1, Invariance, InsideInvariance, PoolInvariance, Wholeness, PTL
=============================================================================
