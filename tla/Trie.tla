-------------------------------- MODULE Trie --------------------------------
(***************************************************************************)
(* The trie of trie.c.  A byte of a key is two nibbles, each an edge; a     *)
(* node is the path that leads to it, the root the empty path; a value sits *)
(* at an even path.                                                         *)
(***************************************************************************)
EXTENDS Integers, FiniteSets, SequencesExt

CONSTANTS
  Nibbles,     \* the values of a nibble: 16 in the code
  TrieKeys,    \* keys: sequences of an even number of nibbles
  TrieValues

VARIABLES
  trie,        \* [nodes, val]: the paths allocated, the values at some
  other,       \* the trie of ytrie_copy
  stored,      \* history: the dictionary the calls on trie amount to
  storedOther, \* history: and those on other
  clean,       \* history: no allocation has failed on a path of either
  torn         \* history: the copy lost something, and yet returned 0

trieVars == <<trie, other, stored, storedOther, clean, torn>>

EmptyTrie == [nodes |-> {}, val |-> <<>>]
PathTo(k, n) == SubSeq(k, 1, n)
Path(k) == {PathTo(k, n) : n \in 1..Len(k)}
Children(t, p) == {q \in t.nodes : Len(q) = Len(p) + 1 /\ IsPrefix(p, q)}
Updated(f, k, v) == [x \in DOMAIN f \union {k} |-> IF x = k THEN v ELSE f[x]]
Removed(f, k) == [x \in DOMAIN f \ {k} |-> f[x]]

TrieInit == /\ trie = EmptyTrie /\ other = EmptyTrie
            /\ stored = <<>> /\ storedOther = <<>>
            /\ clean = TRUE /\ torn = FALSE

\* ytrie_insert: the missing nodes of the path are allocated (get_node), a
\* value that is there is freed.
InsertKey(k, v) ==
  /\ trie' = [nodes |-> trie.nodes \union Path(k), val |-> Updated(trie.val, k, v)]
  /\ stored' = Updated(stored, k, v)
  /\ UNCHANGED <<other, storedOther, clean, torn>>

\* ytrie_insert without memory for node n + 1 of the path: the nodes before it
\* stay, with no value below them.
InsertFails(k, n) ==
  /\ PathTo(k, n + 1) \notin trie.nodes
  /\ trie' = [trie EXCEPT !.nodes = @ \union Path(PathTo(k, n))]
  /\ clean' = FALSE
  /\ UNCHANGED <<other, stored, storedOther, torn>>

\* How much of the path stays when its value is gone: up to the last node that
\* has a value or a child off the path (remove_empty_byte_leaf, climbing).
StaysTo(t, k) ==
  LET stays(n) == \/ n = 0
                  \/ PathTo(k, n) \in DOMAIN t.val
                  \/ Children(t, PathTo(k, n)) \ Path(k) # {}
  IN  CHOOSE n \in 0..Len(k) : stays(n) /\ \A m \in n + 1..Len(k) : ~stays(m)
Kept(t, k) == StaysTo(t, k)

\* ytrie_remove of a key with a value; of another it returns 0.
RemoveKey(k) ==
  LET t == [trie EXCEPT !.val = Removed(@, k)]
  IN  /\ k \in DOMAIN trie.val
      /\ trie' = [t EXCEPT !.nodes =
                    @ \ {PathTo(k, n) : n \in Kept(t, k) + 1..Len(k)}]
      /\ stored' = Removed(stored, k)
      /\ UNCHANGED <<other, storedOther, clean, torn>>

\* ytrie_reset.  (It frees the nodes of the first nibble only: the others, and
\* the values, are leaked.)
ResetTrie == /\ trie' = EmptyTrie
             /\ stored' = <<>>
             /\ UNCHANGED <<other, storedOther, clean, torn>>

\* ytrie_copy into the other trie, and back; ytrie_clone is a copy into a new
\* one.  The copy misses the subtree node_clone has no memory for, at a path of
\* the trie, or the value clonev fails on (at most one of them: a bound); the
\* call returns 0 all the same.
CopyOf(t, lost, unset) ==
  LET nodes == {p \in t.nodes : ~(\E q \in lost : IsPrefix(q, p))}
  IN  [nodes |-> nodes,
       val   |-> [p \in (DOMAIN t.val \intersect nodes) \ unset |-> t.val[p]]]
AtMostOne(S) == {{}} \union {{x} : x \in S}
Copy ==
  \E lost \in AtMostOne(trie.nodes), unset \in AtMostOne(DOMAIN trie.val) :
    /\ lost = {} \/ unset = {}
    /\ other' = CopyOf(trie, lost, unset)
    /\ storedOther' = stored
    /\ clean' = (clean /\ lost \union unset = {})
    /\ torn' = (other'.val # trie.val)
    /\ UNCHANGED <<trie, stored>>
\* The dictionary of a torn copy is what it has.
CopyBack ==
  /\ trie' = CopyOf(other, {}, {})
  /\ stored' = IF torn THEN other.val ELSE storedOther
  /\ UNCHANGED <<other, storedOther, clean, torn>>

\* A torn copy is copied back or replaced before anything else happens: that
\* bounds what there is to remember of it.
TrieNext ==
  \/ /\ ~torn
     /\ \/ \E k \in TrieKeys, v \in TrieValues : InsertKey(k, v)
        \/ \E k \in TrieKeys : \E n \in 0..Len(k) - 1 : InsertFails(k, n)
        \/ \E k \in TrieKeys : RemoveKey(k)
        \/ ResetTrie
  \/ Copy
  \/ CopyBack

-----------------------------------------------------------------------------

\* equal_internal, at all nodes, with what the client's cmp returns for two
\* values: 0 is taken as NOT same.
Equal(t, u, cmp) == /\ t.nodes = u.nodes
                    /\ DOMAIN t.val = DOMAIN u.val
                    /\ \A k \in DOMAIN t.val : cmp[t.val[k], u.val[k]] # 0
\* A cmp as ytrie.h asks for, and one that suits the code.
LikeStrcmp == [v, w \in TrieValues |-> v - w]
IsSame == [v, w \in TrieValues |-> IF v = w THEN 1 ELSE 0]

\* iterate_internal: the keys below a node, in the order of the callbacks.
RECURSIVE Visit(_, _)
Visit(t, p) ==
  LET below == [n \in 1..Nibbles |-> IF Append(p, n - 1) \in t.nodes
                                THEN Visit(t, Append(p, n - 1)) ELSE <<>>]
  IN  (IF p \in DOMAIN t.val THEN <<p>> ELSE <<>>) \o FlattenSeq(below)

\* A defect: a key that ends here and has longer ones below is passed over.
StopsAtFork(t, p, front) == Cardinality(front) > 1
Stops(t, p, front) ==
  Cardinality(front) > 1 \/ (front # {} /\ p \in DOMAIN t.val)

\* ytrie_auto_complete from a node: the path to the node it stops at, cut to
\* whole bytes, and what it returns.
RECURSIVE Complete(_, _)
Complete(t, p) ==
  LET front == Children(t, p)
      f == CHOOSE q \in front : TRUE
      back == Children(t, f)
  IN  IF Stops(t, p, front) THEN [ret |-> "branch", at |-> p]
      ELSE IF front = {} THEN [ret |-> "leaf", at |-> p]
      ELSE IF Cardinality(back) > 1 THEN [ret |-> "branch", at |-> p]
      ELSE Complete(t, CHOOSE q \in back : TRUE)

Less(p, q) == \/ p # q /\ IsPrefix(p, q)
              \/ \E n \in 1..Len(p) : /\ n <= Len(q) /\ p[n] < q[n]
                                      /\ PathTo(p, n - 1) = PathTo(q, n - 1)
Starting(p) == {k \in DOMAIN stored : IsPrefix(p, k)}

(* A trie is its dictionary: after any inserts (those that run out of       *)
(* memory on the way included), removals and copies each key has its value, *)
(* and an iteration visits exactly the keys below its start, once, in the   *)
(* order of their bytes.  A copy that ran out of memory, which ytrie_copy   *)
(* does not report, has none but values of its dictionary.                  *)
TrieIsDictionary ==
  /\ trie.val = stored
  /\ ~torn => other.val = storedOther
  /\ \A k \in DOMAIN other.val : k \in DOMAIN storedOther /\ other.val[k] = storedOther[k]
  /\ \A k \in DOMAIN stored : Path(k) \subseteq trie.nodes
  /\ \A p \in {<<>>} \union {q \in trie.nodes : Len(q) % 2 = 0} :
       LET walk == Visit(trie, p)
       IN  /\ ToSet(walk) = Starting(p)
           /\ \A i \in 1..Len(walk) - 1 : Less(walk[i], walk[i + 1])

(* A removal takes away all the nodes that only the removed key needed: as  *)
(* long as no allocation has failed, every path without a node below it     *)
(* ends in a value, and dictionaries with the same keys have the same       *)
(* nodes.  ytrie_equal tells those apart by their values, by each pair for  *)
(* which cmp returns 0: equal dictionaries are equal tries with a cmp that  *)
(* says whether values are the same, and any two that share a value are     *)
(* different with the cmp that ytrie.h asks for.                            *)
NoEmptyLeaf ==
  clean => /\ \A p \in trie.nodes : Children(trie, p) = {} => p \in DOMAIN trie.val
           /\ DOMAIN stored = DOMAIN storedOther => trie.nodes = other.nodes
           /\ Equal(trie, other, IsSame) <=> stored = storedOther
           /\ Equal(trie, other, LikeStrcmp) <=>
                /\ DOMAIN stored = DOMAIN storedOther
                /\ \A k \in DOMAIN stored : stored[k] # storedOther[k]

(* Auto-completion of a prefix that some key has finds the longest bytes    *)
(* that all its keys share, and tells one candidate from several.           *)
CompletesToCommon ==
  clean => \A p \in trie.nodes \union {<<>>} :
    Len(p) % 2 = 0 /\ Starting(p) # {} =>
      LET c == Complete(trie, p)
      IN  /\ \A k \in Starting(p) : IsPrefix(c.at, k)
          /\ c.ret = "leaf" <=> Cardinality(Starting(p)) = 1
          /\ c.ret = "leaf" => c.at \in Starting(p)
          /\ c.ret = "branch" /\ c.at \notin Starting(p) =>
               \E k, l \in Starting(p) :
                 PathTo(k, Len(c.at) + 2) # PathTo(l, Len(c.at) + 2)
=============================================================================
