-------------------------------- MODULE Lru ---------------------------------
(***************************************************************************)
(* The LRU cache of lru.c: a list of nodes, newest first, and a hash from   *)
(* keys to nodes.  The hash owns the nodes: its value destructor frees a    *)
(* node and its data.  The hash is the dictionary Hash.tla shows it to be.  *)
(***************************************************************************)
EXTENDS Integers, FiniteSets, SequencesExt

CONSTANTS
  CacheKeys,
  DataSizes,     \* what dsize may return for the data of a put
  MaxSize,       \* maxsz
  CacheNodes     \* the nodes that memory can hold

\* Sizes are unsigned.
ASSUME LruAssumption == DataSizes \subseteq Nat /\ MaxSize \in Nat

VARIABLES
  order,         \* head: the linked nodes, newest first
  lruIndex,      \* h: from keys to nodes
  node,          \* the allocated nodes: [key, size]
  lruSize,       \* sz: the size of the cached data
  spoiled        \* history: a put left a node that only the list has

lruVars == <<order, lruIndex, node, lruSize, spoiled>>

SizeOf(n) == node[n].size
SumOf(w) == LET sum[i \in 0..Len(w)] == IF i = 0 THEN 0 ELSE sum[i - 1] + w[i]
            IN  sum[Len(w)]
Total(s) == SumOf([i \in 1..Len(s) |-> SizeOf(s[i])])
Dropped(f, xs) == [x \in DOMAIN f \ xs |-> f[x]]
Entered(f, x, y) == [z \in DOMAIN f \union {x} |-> IF z = x THEN y ELSE f[z]]

LruInit == /\ order = <<>>
           /\ lruIndex = <<>>
           /\ node = <<>>
           /\ lruSize = 0
           /\ spoiled = FALSE

\* A linked node that is freed: the next walk of the list reads freed memory.
Dangling == ToSet(order) \ DOMAIN node

\* Does the new data fit, when only the newest i nodes are left.
Older(i) == SubSeq(order, i + 1, Len(order))
DataFitsWithoutNew(i, size) == lruSize - Total(Older(i)) <= MaxSize   \* a defect
DataFitsStrictly(i, size) == lruSize - Total(Older(i)) + size < MaxSize  \* a defect
DataFits(i, size) == lruSize - Total(Older(i)) + size <= MaxSize

\* ylru_put's walk from the oldest node: how many nodes are left in the list
\* when it stops, and what it does to the others.
Left(size) == CHOOSE i \in 0..Len(order) :
                /\ i = 0 \/ DataFits(i, size)
                /\ \A j \in i + 1..Len(order) : ~DataFits(j, size)

Evict(i) ==
  LET gone == ToSet(Older(i))
  IN  /\ order' = SubSeq(order, 1, i)
      /\ lruIndex' = Dropped(lruIndex, {node[n].key : n \in gone})
      /\ node' = Dropped(node, gone)
      /\ lruSize' = lruSize - Total(Older(i))

\* ylru_put.  A key that is present (the walk did not evict it) makes the hash
\* free its old node, and nobody unlinks that node from the list or takes its
\* size back.  When the hash finds no memory, its -ENOMEM is not the -1 that the
\* code looks for, and the node is linked all the same, its key not set.
PutData(key, size) ==
  /\ size <= MaxSize
  /\ LET i == Left(size)
         gone == ToSet(Older(i))
         rest == Dropped(lruIndex, {node[n].key : n \in gone})
         old == {rest[k] : k \in {key} \intersect DOMAIN rest}
     IN  \E n \in CacheNodes \ DOMAIN node, hashed \in BOOLEAN :
           /\ order' = <<n>> \o SubSeq(order, 1, i)
           /\ lruIndex' = IF hashed THEN Entered(rest, key, n) ELSE rest
           /\ node' = Entered(Dropped(node, gone \union (IF hashed THEN old ELSE {})),
                              n, [key |-> key, size |-> size])
           /\ lruSize' = lruSize - Total(Older(i)) + size
           /\ spoiled' = (~hashed \/ old # {})

\* ylru_put that evicts and then finds no memory for the node.
PutFails(size) == /\ size <= MaxSize
                  /\ Left(size) < Len(order)
                  /\ Evict(Left(size))

\* ylru_get of a key that is present: the data leaves the cache with the call.
\* A miss (the data is created, or 1 is returned) changes nothing.
GetData(key) ==
  /\ key \in DOMAIN lruIndex
  /\ order' = RemoveFirst(order, lruIndex[key])
  /\ lruIndex' = Dropped(lruIndex, {key})
  /\ node' = Dropped(node, {lruIndex[key]})
  /\ lruSize' = lruSize - SizeOf(lruIndex[key])

\* ylru_reset: the hash frees the nodes, the list head is initialised.
ResetCache == /\ order' = <<>>
              /\ lruIndex' = <<>>
              /\ node' = <<>>
              /\ lruSize' = 0

\* A spoiled cache is followed no further: the next walk reads the freed node, or
\* the key that was never set.
LruNext ==
  /\ ~spoiled
  /\ \/ \E k \in CacheKeys, s \in DataSizes : PutData(k, s)
     \/ /\ \/ \E s \in DataSizes : PutFails(s)
           \/ \E k \in CacheKeys : GetData(k)
           \/ ResetCache
        /\ UNCHANGED spoiled

LruSpec == LruInit /\ [][LruNext]_lruVars

-----------------------------------------------------------------------------

(* The list, the hash and the heap tell the same story: every linked node   *)
(* is allocated and is the node the hash has for its key, every allocated   *)
(* node is linked once, and the size the cache reports, and evicts by, is   *)
(* the size of the data it holds, which the maximum is never exceeded by.   *)
CacheExact ==
  /\ Dangling = {}
  /\ IsInjective(order)
  /\ ToSet(order) = DOMAIN node
  /\ \A n \in DOMAIN node : /\ node[n].key \in DOMAIN lruIndex
                            /\ lruIndex[node[n].key] = n
  /\ Cardinality(DOMAIN lruIndex) = Cardinality(DOMAIN node)
  /\ lruSize = Total(order)
  /\ lruSize <= MaxSize

(* What a put throws away is the oldest data, and no more of it than the    *)
(* new data needs: the survivors are the newest in their order, and one     *)
(* more would not have fitted.                                              *)
EvictsTheOldest ==
  LET added == DOMAIN node' \ DOMAIN node
      lost == DOMAIN node \ DOMAIN node'
      put == \E n \in added : order' = <<n>> \o SubSeq(order, 1, Len(order') - 1)
      next == order[Len(order')]   \* the newest node that was thrown away
  IN  added # {} =>
        /\ put
        /\ lost # {} => lruSize' + SizeOf(next) > MaxSize

(* Every step keeps the books and evicts the oldest, but for the two puts    *)
(* that spoil the cache: of a key that is in it still when the old data is   *)
(* evicted, and with a hash that finds no memory, which is returned as       *)
(* success (lru.c:272).                                                      *)
IsLruCache == [][~spoiled' => CacheExact' /\ EvictsTheOldest]_lruVars
=============================================================================
