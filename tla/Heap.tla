-------------------------------- MODULE Heap --------------------------------
(***************************************************************************)
(* The binary max-heap of heap.c.  The array of node pointers (a sequence   *)
(* here: element 0 of the code is a dummy, so the indices agree) is ordered *)
(* by a comparison of the client's; a node remembers its index, which is    *)
(* how heapify finds it.  An operation changes the array and then moves one *)
(* node down or up, an exchange at a time.                                  *)
(***************************************************************************)
EXTENDS Integers, FiniteSets, SequencesExt

CONSTANTS
  HeapNodes,
  Ranks,       \* what the comparison tells apart
  MaxHeap      \* bound: size of the heap

\* What an operation may return instead of a node: NULL, and an address that is
\* not a node's.
NoNode == "no node"
SlotAddress == "address of element 1"

ASSUME HeapAssumption == /\ Ranks \subseteq Int
                         /\ HeapNodes \intersect {NoNode, SlotAddress} = {}

VARIABLES
  heap,        \* the nodes of the heap
  rank,        \* the client's value of every node
  where,       \* the field i of every node; 0, which is never read, outside
  sift,        \* the loop of down or up that is under way, or Settled
  popped       \* what the last operation of the client returned to it

heapVars == <<heap, rank, where, sift, popped>>

Settled == [way |-> "none", at |-> 0, roots |-> 0]
\* down(at), after which yheap_create2 goes on with the roots before at.
Sinking(at, roots) == [way |-> "down", at |-> at, roots |-> roots]
Rising(at) == [way |-> "up", at |-> at, roots |-> 0]

Parent(i) == i \div 2
RankAt(i) == rank[heap[i]]

\* swap, of two nodes that stay in the heap
SwapIn(s, i, j) == [s EXCEPT ![i] = s[j], ![j] = s[i]]
Exchange(i, j) == /\ heap' = SwapIn(heap, i, j)
                  /\ where' = [where EXCEPT ![heap[i]] = j, ![heap[j]] = i]

\* The child of i that down exchanges it with, or i itself.
Larger(i) ==
  LET l == 2 * i
      r == 2 * i + 1
      m == IF l <= Len(heap) /\ RankAt(i) < RankAt(l) THEN l ELSE i
  IN  IF r <= Len(heap) /\ RankAt(m) < RankAt(r) THEN r ELSE m
\* A defect: the right child is compared with the parent, not with the larger.
LargerOfParent(i) ==
  LET l == 2 * i
      r == 2 * i + 1
  IN  IF r <= Len(heap) /\ RankAt(i) < RankAt(r) THEN r
      ELSE IF l <= Len(heap) /\ RankAt(i) < RankAt(l) THEN l ELSE i
Child(i) == Larger(i)

HeapInit == /\ heap = <<>>
            /\ rank \in [HeapNodes -> Ranks]
            /\ where = [n \in HeapNodes |-> 0]
            /\ sift = Settled
            /\ popped = NoNode

\* down: one turn of its loop, and its end
Sink == /\ sift.way = "down"
        /\ Child(sift.at) # sift.at
        /\ Exchange(sift.at, Child(sift.at))
        /\ sift' = [sift EXCEPT !.at = Child(sift.at)]
        /\ UNCHANGED <<rank, popped>>
Sunk == /\ sift.way = "down"
        /\ Child(sift.at) = sift.at
        /\ sift' = IF sift.roots = 0 THEN Settled
                   ELSE Sinking(sift.roots, sift.roots - 1)
        /\ UNCHANGED <<heap, rank, where, popped>>

\* up: one turn of its loop, and its end
InPlace(i) == Parent(i) > 0 => RankAt(i) <= RankAt(Parent(i))
Rise == /\ sift.way = "up"
        /\ ~InPlace(sift.at)
        /\ Exchange(sift.at, Parent(sift.at))
        /\ sift' = Rising(Parent(sift.at))
        /\ UNCHANGED <<rank, popped>>
Risen == /\ sift.way = "up"
         /\ InPlace(sift.at)
         /\ sift' = Settled
         /\ UNCHANGED <<heap, rank, where, popped>>

\* yheap_create2: bottom-up, from the parent of the last element (the code
\* starts at half the size that counts the dummy).
CreateHeap(arr) ==
  /\ sift = Settled /\ heap = <<>>
  /\ IsInjective(arr)
  /\ heap' = arr
  /\ where' = [n \in HeapNodes |-> IF n \in ToSet(arr)
                THEN CHOOSE i \in DOMAIN arr : arr[i] = n ELSE 0]
  /\ sift' = LET half == (Len(arr) + 1) \div 2 IN Sinking(half, half - 1)
  /\ popped' = NoNode
  /\ UNCHANGED rank

\* yheap_push (without memory it changes nothing)
PushNode(n) == /\ sift = Settled
               /\ Len(heap) < MaxHeap
               /\ where[n] = 0
               /\ heap' = Append(heap, n)
               /\ where' = [where EXCEPT ![n] = Len(heap) + 1]
               /\ sift' = Rising(Len(heap) + 1)
               /\ popped' = NoNode
               /\ UNCHANGED rank

\* A defect: the last node is dropped and the root sinks.
PopOther(s) == Front(s)
\* yheap_pop: the last node takes the place of the root and goes down.
PopLast(s) == Front(SwapIn(s, 1, Len(s)))
PopRoot == /\ sift = Settled
           /\ heap # <<>>
           /\ heap' = PopLast(heap)
           /\ where' = [where EXCEPT ![heap[Len(heap)]] = 1, ![heap[1]] = 0]
           /\ sift' = IF Len(heap) = 1 THEN Settled ELSE Sinking(1, 0)
           /\ popped' = heap[1]
           /\ UNCHANGED rank

\* What yheap_pushpop and yheap_poppush do to a heap that is not empty.  The
\* root that they return is the address of its slot in the array, not the node.
ReplaceRoot(n) == /\ sift = Settled
                  /\ heap # <<>>
                  /\ where[n] = 0
                  /\ heap' = [heap EXCEPT ![1] = n]
                  /\ where' = [where EXCEPT ![heap[1]] = 0, ![n] = 1]
                  /\ sift' = Sinking(1, 0)
                  /\ popped' = SlotAddress
                  /\ UNCHANGED rank

\* yheap_pushpop.  The comparison reads a node at the address of the slot: it has
\* any outcome, and the root may make way to a node that is larger or go back
\* unused though it is the larger one.
PushPop(n) == \/ ReplaceRoot(n)
              \/ /\ sift = Settled
                 /\ where[n] = 0
                 /\ popped' = n
                 /\ UNCHANGED <<heap, rank, where, sift>>

\* yheap_poppush.  Of an empty heap it pushes, and forgets whether that failed.
PopPush(n) == \/ ReplaceRoot(n)
              \/ heap = <<>> /\ PushNode(n)
              \/ /\ sift = Settled /\ heap = <<>> /\ where[n] = 0
                 /\ popped' = NoNode
                 /\ UNCHANGED <<heap, rank, where, sift>>

\* A change of a node's value, and yheap_heapify.
Heapify(n, v) ==
  /\ sift = Settled
  /\ where[n] # 0
  /\ rank' = [rank EXCEPT ![n] = v]
  /\ sift' = IF where[n] # 1 /\ v > RankAt(Parent(where[n]))
             THEN Rising(where[n]) ELSE Sinking(where[n], 0)
  /\ popped' = NoNode
  /\ UNCHANGED <<heap, where>>

\* yheap_reset
ResetHeap == /\ sift = Settled
             /\ heap' = <<>>
             /\ where' = [n \in HeapNodes |-> 0]
             /\ popped' = NoNode
             /\ UNCHANGED <<rank, sift>>

HeapNext ==
  \/ \E k \in 1..MaxHeap : \E arr \in [1..k -> HeapNodes] : CreateHeap(arr)
  \/ \E n \in HeapNodes : PushNode(n) \/ PushPop(n) \/ PopPush(n)
  \/ PopRoot
  \/ \E n \in HeapNodes, v \in Ranks : Heapify(n, v)
  \/ ResetHeap
  \/ Sink \/ Sunk \/ Rise \/ Risen

HeapSpec == HeapInit /\ [][HeapNext]_heapVars

-----------------------------------------------------------------------------

(* Whatever mixture of builds, pushes, pops, replacements and changes of    *)
(* values led to it, the array is a heap when an operation is over: no node *)
(* is larger than its parent; and every node in it knows its index all the  *)
(* time, by which the next heapify starts.                                  *)
HeapOrdered ==
  /\ sift = Settled => \A i \in DOMAIN heap : i > 1 => RankAt(i) <= RankAt(Parent(i))
  /\ \A i \in DOMAIN heap : where[heap[i]] = i
  /\ \A n \in HeapNodes : where[n] # 0 => where[n] \in DOMAIN heap /\ heap[where[n]] = n

(* A step takes at most one node out of the heap, except for a reset: the   *)
(* largest, which is what the client is given; none is lost in the           *)
(* exchanges.  Exempt are the two operations that put another node in its    *)
(* place, which may give the address of its slot instead (heap.c:374, 389).  *)
(* A node that the client is given is not in the heap any more.              *)
RootLeaves ==
  LET lost == ToSet(heap) \ ToSet(heap')
      added == ToSet(heap') \ ToSet(heap)
  IN  /\ lost = {} \/ (heap' = <<>> /\ popped' = NoNode)
         \/ /\ lost = {heap[1]}
            /\ \A m \in ToSet(heap) : rank[m] <= rank[heap[1]]
            /\ popped' = heap[1] \/ (popped' = SlotAddress /\ added # {})
      /\ popped' # popped => popped' \notin ToSet(heap')

(* Every step keeps the order and gives away the largest node only.         *)
IsPriorityQueue == [][HeapOrdered' /\ RootLeaves]_heapVars
=============================================================================
