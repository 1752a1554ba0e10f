-------------------------------- MODULE Hash --------------------------------
(***************************************************************************)
(* The hash of hash.c over the node table of hashl.c, and the sets of set.c *)
(* that are hashes with a dummy value.  A table is an array of buckets; its *)
(* size is a power of two that follows the number of nodes, and a resize    *)
(* that finds no memory is ignored.  A bucket is the set of its nodes: no   *)
(* result depends on their order.  The bucket of a key is the leading bits  *)
(* of its 32-bit hash value (HashBits bits here).                           *)
(***************************************************************************)
EXTENDS Integers, FiniteSets

CONSTANTS
  HashKeys, HashValues,
  HashBits,      \* width of a hash value, and MAX_HBITS: 32 in the code
  MinBits,       \* MIN_HBITS: 4 in the code
  DefaultBits,   \* DEFAULT_HBITS: 8 in the code
  HashOf         \* the hash function

Power[n \in 0..HashBits] == IF n = 0 THEN 1 ELSE 2 * Power[n - 1]

ASSUME HashAssumption ==
  /\ HashBits \in Nat /\ MinBits \in Nat
  /\ DefaultBits \in MinBits..HashBits
  /\ HashOf \in [HashKeys -> 0..Power[HashBits] - 1]
  /\ HashValues # {}

VARIABLES
  table,         \* struct yhash: [bits, sz, map], or Broken
  dict,          \* history: the dictionary the calls amount to
  meet           \* the yset_intersect that is under way, or NoMeet

hashVars == <<table, dict, meet>>

\* A reset that found no memory: no operation is possible any more.
Broken == [bits |-> -1, sz |-> 0, map |-> <<>>]

MapSize(bits) == Power[bits]
Bucket(bits, key) == HashOf[key] \div Power[HashBits - bits]
NewTable(bits) == [bits |-> bits, sz |-> 0,
                   map  |-> [b \in 0..MapSize(bits) - 1 |-> {}]]

\* hash_create_internal
Created == NewTable(MinBits)

\* The nodes that yhashl_foreach visits.
Nodes(t) == UNION {t.map[b] : b \in 0..MapSize(t.bits) - 1}
KeysOf(t) == {n.key : n \in Nodes(t)}

\* A defect: the nodes of the last bucket are left behind.
NodesButLast(t) == UNION {t.map[b] : b \in 0..MapSize(t.bits) - 2}
Moved(t) == Nodes(t)

\* yhashl_hremap: every node moves to its new bucket, or nothing changes because
\* there is no memory.
Clamped(wanted) == IF wanted < MinBits THEN MinBits
                   ELSE IF wanted > HashBits THEN HashBits ELSE wanted
Placing(nodes, bits) == [b \in 0..MapSize(bits) - 1 |->
                           {n \in nodes : Bucket(bits, n.key) = b}]
Remap(t, wanted) ==
  LET bits == Clamped(wanted)
  IN  IF bits = t.bits THEN {t}
      ELSE {t, [bits |-> bits, sz |-> t.sz, map |-> Placing(Moved(t), bits)]}

\* hash_set's growth and yhash_remove2's shrinking; the outcomes are sets
\* because the resize may fail.
Grown(t) == IF t.sz > MapSize(t.bits) * 2 THEN Remap(t, t.bits + 1) ELSE {t}
Shrunk(t) == IF t.sz < MapSize(t.bits) \div 2 THEN Remap(t, t.bits - 1) ELSE {t}

\* yhashl_get: a node with the key in the bucket of the key.
Hits(t, key) == {n \in t.map[Bucket(t.bits, key)] : n.key = key}
Found(t, key) == CHOOSE n \in Hits(t, key) : TRUE

\* yhashl_set: a node of the same key is replaced where it is, a new one joins
\* its bucket.
PutNode(t, key, value) ==
  LET b == Bucket(t.bits, key)
      new == [key |-> key, value |-> value]
  IN  IF Hits(t, key) # {}
      THEN [t EXCEPT !.map[b] = (@ \ {Found(t, key)}) \union {new}]
      ELSE [t EXCEPT !.map[b] = @ \union {new}, !.sz = @ + 1]

\* yhashl_remove and yhashl_node_remove, of a key that is present.
UnlinkNode(t, key) ==
  [t EXCEPT !.map[Bucket(t.bits, key)] = @ \ {Found(t, key)}, !.sz = @ - 1]

\* The dictionary a table stands for.
Contents(t) == [k \in KeysOf(t) |-> (CHOOSE n \in Nodes(t) : n.key = k).value]

-----------------------------------------------------------------------------

\* The value of every element of a set.
Dummy == CHOOSE v \in HashValues : TRUE

NoMeet == [busy |-> FALSE, todo |-> {}, large |-> Created, made |-> Created,
           both |-> {}]

HashInit == /\ table = Created
            /\ dict = <<>>
            /\ meet = NoMeet

\* yhash_set, yhash_set2, yhash_set3: the value replaced, if any, is freed or
\* handed to the caller, and the copy of the key is freed.
SetKey(key, value) ==
  /\ table' \in {PutNode(t, key, value) : t \in Grown(table)}
  /\ dict' = [k \in DOMAIN dict \union {key} |->
                IF k = key THEN value ELSE dict[k]]
  /\ UNCHANGED meet

\* hash_set, without memory for the node or for the copy of the key.
SetFails == /\ table' \in Grown(table)
            /\ UNCHANGED <<dict, meet>>

\* yhash_remove, yhash_remove2; the removal of an absent key does nothing.
RemoveHashed(key) ==
  /\ Hits(table, key) # {}
  /\ table' \in Shrunk(UnlinkNode(table, key))
  /\ dict' = [k \in DOMAIN dict \ {key} |-> dict[k]]
  /\ UNCHANGED meet

\* yhash_reset: the map starts again at the default size, not at the size
\* hash_create_internal gave it.
ResetHash == /\ table' \in {NewTable(DefaultBits), Broken}
             /\ dict' = <<>>
             /\ UNCHANGED meet

\* A set of the given elements, of any size its history may have left it.
SetOf(keys, bits) ==
  [bits |-> bits, sz |-> Cardinality(keys),
   map  |-> Placing({[key |-> k, value |-> Dummy] : k \in keys}, bits)]

\* yset_intersect of this set with another: the elements of the smaller one
\* that the larger one has are added to a new set, which replaces this one.
BeginMeet(keys, bits) ==
  LET other == SetOf(keys, bits)
      first == table.sz < other.sz
  IN  /\ meet' = [busy  |-> TRUE,
                  todo  |-> KeysOf(IF first THEN table ELSE other),
                  large |-> IF first THEN other ELSE table,
                  made  |-> Created,
                  both  |-> DOMAIN dict \intersect keys]
      /\ UNCHANGED <<table, dict>>

MeetAdd(key) ==
  /\ key \in meet.todo
  /\ \E t \in (IF Hits(meet.large, key) # {}
               THEN {PutNode(u, key, Dummy) : u \in Grown(meet.made)}
               ELSE {meet.made}) :
       meet' = [meet EXCEPT !.todo = @ \ {key}, !.made = t]
  /\ UNCHANGED <<table, dict>>

MeetEnds == /\ meet.todo = {}
            /\ table' = meet.made
            /\ dict' = [k \in meet.both |-> Dummy]
            /\ meet' = NoMeet

\* Without memory there is no new set, and this one stays.
MeetFails == /\ meet' = NoMeet
             /\ UNCHANGED <<table, dict>>

HashNext ==
  /\ table # Broken
  /\ \/ /\ ~meet.busy
        /\ \/ \E k \in HashKeys, v \in HashValues : SetKey(k, v)
           \/ SetFails
           \/ \E k \in HashKeys : RemoveHashed(k)
           \/ ResetHash
           \/ \E ks \in SUBSET HashKeys, bits \in MinBits..HashBits :
                IsFiniteSet(ks) /\ BeginMeet(ks, bits)
     \/ /\ meet.busy
        /\ \/ \E k \in HashKeys : MeetAdd(k)
           \/ MeetEnds
           \/ MeetFails

HashSpec == HashInit /\ [][HashNext]_hashVars

-----------------------------------------------------------------------------

(* Whatever the history of sets, removals, resets, intersections and of     *)
(* resizes that found no memory, the table is the dictionary the calls      *)
(* amount to: the walk of yhash_keys meets each key once, with its value,   *)
(* yhash_get finds exactly the keys that were set in the bucket their hash  *)
(* selects, and the counter the resizes are decided by is the number of     *)
(* nodes.                                                                   *)
HashIsDictionary ==
  table # Broken =>
    /\ \A b, c \in DOMAIN table.map : \A m \in table.map[b], n \in table.map[c] :
         m.key = n.key => b = c /\ m = n
    /\ Contents(table) = dict
    /\ \A k \in HashKeys : Hits(table, k) # {} <=> k \in DOMAIN dict
    /\ table.sz = Cardinality(Nodes(table))
=============================================================================
