---------------------------- MODULE MCStructures ----------------------------
(***************************************************************************)
(* The data structures and the small components, which share nothing: a     *)
(* behaviour takes one of Kinds and stays with it.  The modules that are    *)
(* extended have their constants from the configuration.  Readers of a ring *)
(* buffer change nothing that others look at, so that one stands for all.   *)
(***************************************************************************)
EXTENDS Mempool, QueueEvents, SmartPtr, Startup, Dynb, Fd, Tags, List, Graph, Lru, Heap,
        Hash, Region, RingBuf

CONSTANT Kinds

VARIABLES which,
  trie, other, stored, storedOther, clean, torn,             \* Trie
  child, parent, itr,                                        \* Tree
  crc, byte, len, left, rounds, label, calling, fed, rem, cut  \* Crc

trieVars == <<trie, other, stored, storedOther, clean, torn>>
treeVars == <<child, parent, itr>>
crcVars  == <<crc, byte, len, left, rounds, label, calling, fed, rem, cut>>

vars == <<which, hashVars, lruVars, rgnVars, poolVars, heapVars, dynbVars,
          trieVars, treeVars, listVars, graphVars, ptrVars, crcVars, libVars,
          evtVars, fdVars, tagVars, ringVars>>

\* k1 and k2 share a bucket at every size, k3 joins them from one bit down.
MCHashOf == [k \in {"k1", "k2", "k3", "k4"} |->
               CASE k \in {"k1", "k2"} -> 0 [] k = "k3" -> 1 [] k = "k4" -> 3]
MCTexts == {<<"a">>, <<"b", "a">>, <<"a", "b", "b">>}

S == INSTANCE Mempool WITH Dynamic <- FALSE
T == INSTANCE Trie WITH
       Nibbles <- 2, TrieValues <- {1, 2},
       TrieKeys <- {<<0, 0>>, <<0, 1>>, <<0, 0, 1, 0>>, <<0, 0, 1, 1>>}
E == INSTANCE Tree WITH Links <- {"n1", "n2", "n3", "n4"}, Null <- "null"
Y == INSTANCE Crc WITH
       Bytes <- {1, 128, 255}, Lengths <- {1, 15, 16, 17, 48, 50},
       MaxPieces <- 2, IntMax <- 48

Init == /\ which \in Kinds
        /\ HashInit /\ LruInit /\ RgnInit /\ PoolInit /\ HeapInit
        /\ DynbInit /\ T!TrieInit /\ E!TreeInit /\ ListInit /\ GraphInit
        /\ PtrInit /\ Y!CrcInit /\ InitLib /\ EventsInit /\ FdInit
        /\ TagsInit /\ RingInit
        /\ which # "heap" => rank = [x \in HeapNodes |-> 1]
        /\ which \notin {"mempool", "static_mempool"} => fbp[0] = "n1" /\ fbp[1] = "n2"

HashStep ==
  /\ which = "hash" /\ HashNext
  /\ UNCHANGED <<which, lruVars, rgnVars, poolVars, heapVars, dynbVars,
                  trieVars, treeVars, listVars, graphVars, ptrVars, crcVars, libVars,
                  evtVars, fdVars, tagVars, ringVars>>
LruStep ==
  /\ which = "lru" /\ LruNext
  /\ UNCHANGED <<which, hashVars, rgnVars, poolVars, heapVars, dynbVars,
                  trieVars, treeVars, listVars, graphVars, ptrVars, crcVars, libVars,
                  evtVars, fdVars, tagVars, ringVars>>
RegionStep ==
  /\ which = "region" /\ RgnNext
  /\ UNCHANGED <<which, hashVars, lruVars, poolVars, heapVars, dynbVars,
                  trieVars, treeVars, listVars, graphVars, ptrVars, crcVars, libVars,
                  evtVars, fdVars, tagVars, ringVars>>
MempoolStep ==
  /\ \/ which = "mempool" /\ PoolNext
     \/ which = "static_mempool" /\ S!PoolNext
  /\ UNCHANGED <<which, hashVars, lruVars, rgnVars, heapVars, dynbVars,
                  trieVars, treeVars, listVars, graphVars, ptrVars, crcVars, libVars,
                  evtVars, fdVars, tagVars, ringVars>>
HeapStep ==
  /\ which = "heap" /\ HeapNext
  /\ UNCHANGED <<which, hashVars, lruVars, rgnVars, poolVars, dynbVars,
                  trieVars, treeVars, listVars, graphVars, ptrVars, crcVars, libVars,
                  evtVars, fdVars, tagVars, ringVars>>
DynbStep ==
  /\ which = "dynb" /\ DynbNext
  /\ UNCHANGED <<which, hashVars, lruVars, rgnVars, poolVars, heapVars,
                  trieVars, treeVars, listVars, graphVars, ptrVars, crcVars, libVars,
                  evtVars, fdVars, tagVars, ringVars>>
TrieStep ==
  /\ which = "trie" /\ T!TrieNext
  /\ UNCHANGED <<which, hashVars, lruVars, rgnVars, poolVars, heapVars,
                  dynbVars, treeVars, listVars, graphVars, ptrVars, crcVars, libVars,
                  evtVars, fdVars, tagVars, ringVars>>
TreeStep ==
  /\ which = "tree" /\ E!TreeNext
  /\ UNCHANGED <<which, hashVars, lruVars, rgnVars, poolVars, heapVars,
                  dynbVars, trieVars, listVars, graphVars, ptrVars, crcVars, libVars,
                  evtVars, fdVars, tagVars, ringVars>>
ListStep ==
  /\ which = "list" /\ ListNext
  /\ UNCHANGED <<which, hashVars, lruVars, rgnVars, poolVars, heapVars,
                  dynbVars, trieVars, treeVars, graphVars, ptrVars, crcVars, libVars,
                  evtVars, fdVars, tagVars, ringVars>>
GraphStep ==
  /\ which = "graph" /\ GraphNext
  /\ UNCHANGED <<which, hashVars, lruVars, rgnVars, poolVars, heapVars,
                  dynbVars, trieVars, treeVars, listVars, ptrVars, crcVars, libVars,
                  evtVars, fdVars, tagVars, ringVars>>
SmartPtrStep ==
  /\ which = "pointer" /\ PtrNext
  /\ UNCHANGED <<which, hashVars, lruVars, rgnVars, poolVars, heapVars,
                  dynbVars, trieVars, treeVars, listVars, graphVars, crcVars, libVars,
                  evtVars, fdVars, tagVars, ringVars>>
CrcStep ==
  /\ which = "crc" /\ Y!CrcNext
  /\ UNCHANGED <<which, hashVars, lruVars, rgnVars, poolVars, heapVars,
                  dynbVars, trieVars, treeVars, listVars, graphVars, ptrVars, libVars,
                  evtVars, fdVars, tagVars, ringVars>>
StartupStep ==
  /\ which = "startup" /\ NextLib
  /\ UNCHANGED <<which, hashVars, lruVars, rgnVars, poolVars, heapVars,
                  dynbVars, trieVars, treeVars, listVars, graphVars, ptrVars, crcVars,
                  evtVars, fdVars, tagVars, ringVars>>
QueueEventsStep ==
  /\ which = "queue_events" /\ EventsNext
  /\ UNCHANGED <<which, hashVars, lruVars, rgnVars, poolVars, heapVars,
                  dynbVars, trieVars, treeVars, listVars, graphVars, ptrVars, crcVars,
                  libVars, fdVars, tagVars, ringVars>>
FdStep ==
  /\ which = "fd" /\ FdNext
  /\ UNCHANGED <<which, hashVars, lruVars, rgnVars, poolVars, heapVars,
                  dynbVars, trieVars, treeVars, listVars, graphVars, ptrVars, crcVars,
                  libVars, evtVars, tagVars, ringVars>>
TagsStep ==
  /\ which = "tags" /\ TagsNext
  /\ UNCHANGED <<which, hashVars, lruVars, rgnVars, poolVars, heapVars,
                  dynbVars, trieVars, treeVars, listVars, graphVars, ptrVars, crcVars,
                  libVars, evtVars, fdVars, ringVars>>
RingBufStep ==
  /\ which = "ring" /\ RingNext
  /\ UNCHANGED <<which, hashVars, lruVars, rgnVars, poolVars, heapVars,
                  dynbVars, trieVars, treeVars, listVars, graphVars, ptrVars, crcVars,
                  libVars, evtVars, fdVars, tagVars>>

Next == HashStep \/ LruStep \/ RegionStep \/ MempoolStep \/ HeapStep \/ DynbStep
        \/ TrieStep \/ TreeStep \/ ListStep \/ GraphStep \/ SmartPtrStep
        \/ CrcStep \/ StartupStep \/ QueueEventsStep \/ FdStep \/ TagsStep
        \/ RingBufStep

Spec == Init /\ [][Next]_vars

(* The trie is its dictionary, without dead branches, and auto-completion   *)
(* finds the longest common bytes; the links of a tree are the forest they  *)
(* stand for, and iterators visit all of it, in order, even when the client *)
(* removes what it is handed: see Trie.tla and Tree.tla.                    *)
TreesExact == /\ T!TrieIsDictionary /\ T!NoEmptyLeaf /\ T!CompletesToCommon
              /\ E!IsForest /\ E!VisitsAllInOrder
(* The checksum is the remainder of the division: see Crc.tla. *)
CrcIsRemainder == Y!IsRemainder
=============================================================================
