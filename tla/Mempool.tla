------------------------------ MODULE Mempool -------------------------------
(***************************************************************************)
(* The memory pool of mempool.c.  fbp, the array of block pointers, grows   *)
(* (and, in the CONFIG_MEMPOOL_DYNAMIC build, shrinks) by groups of grpsz   *)
(* entries; the entries before fbi are the used blocks, the others the free *)
(* ones; a block remembers its own index, which is how put finds it.  Every *)
(* operation runs under the pool's mutex (YMEMPOOL_mt_safe).                *)
(***************************************************************************)
EXTENDS Integers, FiniteSets, SequencesExt

CONSTANTS
  Blocks,      \* the blocks that memory can hold
  GroupSize,   \* grpsz
  Dynamic      \* is it the CONFIG_MEMPOOL_DYNAMIC build

VARIABLES
  fbp,         \* the block pointers, an array from 0
  nrgrp,       \* the number of groups
  fbi,         \* the index of the first free block
  index,       \* the field i of every allocated block
  held         \* history: the blocks the client holds

PoolAssumption == GroupSize \in Nat \ {0}
ASSUME PoolConstants == PoolAssumption

poolVars == <<fbp, nrgrp, fbi, index, held>>

PoolSize == nrgrp * GroupSize
CDiv(a, b) == IF a < 0 THEN -((-a) \div b) ELSE a \div b   \* C's division
Prefix(f, n) == [i \in 0..n - 1 |-> f[i]]

\* expand: one more group of free blocks.
Expanded(group) ==
  [fbp   |-> [i \in 0..PoolSize + GroupSize - 1 |->
                IF i < PoolSize THEN fbp[i] ELSE group[i - PoolSize + 1]],
   index |-> [b \in DOMAIN index \union ToSet(group) |->
                IF b \in DOMAIN index THEN index[b]
                ELSE PoolSize + (CHOOSE i \in DOMAIN group : group[i] = b) - 1]]

Fresh == {g \in [1..GroupSize -> Blocks \ DOMAIN index] : IsInjective(g)}

PoolInit == \E group \in {g \in [1..GroupSize -> Blocks] : IsInjective(g)} :
              /\ fbp = [i \in 0..GroupSize - 1 |-> group[i + 1]]
              /\ index = [b \in ToSet(group) |->
                            (CHOOSE i \in DOMAIN group : group[i] = b) - 1]
              /\ nrgrp = 1
              /\ fbi = 0
              /\ held = {}

\* ymempool_get; without memory for a group it returns NULL and changes nothing.
GetBlock ==
  \/ /\ fbi < PoolSize
     /\ held' = held \union {fbp[fbi]}
     /\ fbi' = fbi + 1
     /\ UNCHANGED <<fbp, nrgrp, index>>
  \/ /\ fbi >= PoolSize
     /\ \E group \in Fresh :
          /\ fbp' = Expanded(group).fbp
          /\ index' = Expanded(group).index
          /\ nrgrp' = nrgrp + 1
          /\ fbi' = fbi + 1
          /\ held' = held \union {fbp'[fbi]}

\* need_shrink
NeedShrink(i) == CDiv(i * 2, GroupSize) < nrgrp

\* The first group that shrink frees.
FirstFreed(i, margin) == LET from == CDiv(i - 1, GroupSize) + 1 + margin
                         IN  IF from > nrgrp THEN nrgrp ELSE from

\* shrink: the groups from the first that is free on, but for margin of them;
\* the other build does nothing.
Shrink(f, idx, i, margin) ==
  LET groups == IF Dynamic THEN FirstFreed(i, margin) ELSE nrgrp
      kept == Prefix(f, groups * GroupSize)
  IN  /\ nrgrp' = groups
      /\ fbp' = kept
      /\ index' = [b \in {kept[j] : j \in DOMAIN kept} |-> idx[b]]

\* The indices of the two blocks that put swaps.
Swapped(b, last) == [index EXCEPT ![b] = fbi - 1, ![last] = index[b]]
\* A defect: the block that takes the place of the returned one keeps its index.
SwappedHalf(b, last) == [index EXCEPT ![b] = fbi - 1]
NewIndex(b, last) == Swapped(b, last)

\* ymempool_put of a block the client holds: it changes places with the last
\* used block.
PutBlock(b) ==
  LET last == fbp[fbi - 1]
      f == [fbp EXCEPT ![fbi - 1] = b, ![index[b]] = last]
  IN  /\ b \in held
      /\ fbi' = fbi - 1
      /\ held' = held \ {b}
      /\ IF NeedShrink(fbi - 1)
         THEN Shrink(f, NewIndex(b, last), fbi - 1, 1)
         ELSE fbp' = f /\ index' = NewIndex(b, last) /\ UNCHANGED nrgrp

\* ymempool_shrink, in the dynamic build.
ShrinkNow(margin) == /\ Dynamic
                     /\ Shrink(fbp, index, fbi, margin)
                     /\ UNCHANGED <<fbi, held>>

PoolNext == \/ GetBlock
            \/ \E b \in Blocks : PutBlock(b)
            \/ \E margin \in 0..1 : ShrinkNow(margin)

PoolSpec == PoolInit /\ [][PoolNext]_poolVars

-----------------------------------------------------------------------------

(* In any order of gets, puts and shrinks the pool and its clients agree on *)
(* who owns what: the used part of the array holds exactly the blocks the   *)
(* clients hold, no block twice, so that no get gives a held block away and *)
(* no shrink frees one; every block, wherever the swaps of put have carried *)
(* it, knows its own index.                                                 *)
BlocksPartitioned ==
  /\ fbi \in 0..PoolSize
  /\ DOMAIN fbp = 0..PoolSize - 1
  /\ \A i \in DOMAIN fbp : fbp[i] \in DOMAIN index /\ index[fbp[i]] = i
  /\ held = {fbp[i] : i \in 0..fbi - 1}
  /\ Cardinality(held) = fbi
=============================================================================
