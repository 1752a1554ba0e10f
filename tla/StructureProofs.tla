--------------------------- MODULE StructureProofs ---------------------------
(***************************************************************************)
(* Proofs about the data structures, for any size: the reference counts,    *)
(* the growing array, the doubly linked list, the graph, the LRU cache, the *)
(* heap and the hash.  What holds of every number is proved of the least    *)
(* one for which it would not (LeastNumber).                                *)
(***************************************************************************)
EXTENDS SmartPtr, Dynb, List, Graph, Lru, Heap, Hash, FiniteSetTheorems,
        SequenceTheorems, NaturalsInduction, WellFoundedInduction, TLAPS

(* A function that is one to one and onto is a bijection. *)
LEMMA BijectionExists ==
    ASSUME NEW S, NEW T, NEW f \in [S -> T],
           \A t, u \in S : f[t] = f[u] => t = u,
           \A u \in T : \E t \in S : f[t] = u
    PROVE  ExistsBijection(S, T)
BY DEF ExistsBijection, Bijection, Injection, IsInjective, Surjection

(* A set of numbers has a least one. *)
LEMMA LeastNumber ==
    ASSUME NEW T \in SUBSET Nat, T # {}
    PROVE  \E x \in T : \A y \in T : x <= y
<1> DEFINE R == OpToRel(<, Nat)
<1>1. IsWellFoundedOn(R, Nat)
  BY NatLessThanWellFounded
<1>2. \A x, y \in Nat : <<y, x>> \in R <=> y < x
  BY DEF OpToRel
<1> HIDE DEF R
<1>3. PICK x \in T : \A y \in T : ~(<<y, x>> \in R)
  BY <1>1, WFMin
<1>4. \A y \in T : x \in Nat /\ y \in Nat /\ ~(y < x)
  BY <1>2, <1>3
<1> QED BY <1>4

(* What holds of 0, and of the next number when it holds of one, holds up   *)
(* to n.                                                                    *)
LEMMA UpTo ==
    ASSUME NEW n \in Nat, NEW T, 0 \in T,
           \A i \in 0 .. n - 1 : i \in T => i + 1 \in T
    PROVE  0 .. n \subseteq T
<1> DEFINE M == (0 .. n) \ T
<1> SUFFICES ASSUME M # {} PROVE FALSE
  OBVIOUS
<1>1. PICK x \in M : \A y \in M : x <= y
  <2>1. M \in SUBSET Nat
    OBVIOUS
  <2> QED BY <2>1, LeastNumber
<1>2. x # 0 /\ x - 1 \in 0 .. n - 1
  BY <1>1
<1>3. x - 1 \in T
  BY <1>1, <1>2
<1> QED BY <1>1, <1>2, <1>3

(* Taking one element out of a sequence without repetitions. *)
LEMMA RemoveFirstEffect ==
    ASSUME NEW S, NEW s \in Seq(S), NEW k \in 1 .. Len(s),
           \A i, j \in 1 .. Len(s) : s[i] = s[j] => i = j
    PROVE  /\ RemoveFirst(s, s[k]) \in Seq(S)
           /\ Len(RemoveFirst(s, s[k])) = Len(s) - 1
           /\ \A i \in 1 .. Len(s) - 1 :
                 RemoveFirst(s, s[k])[i] = IF i < k THEN s[i] ELSE s[i + 1]
<1> DEFINE a == SubSeq(s, 1, k - 1)
           b == SubSeq(s, k + 1, Len(s))
<1>1. SelectInSeq(s, LAMBDA v : v = s[k]) = k
  <2>1. {i \in 1 .. Len(s) : s[i] = s[k]} = {k}
    OBVIOUS
  <2>2. Min({k}) = k
    BY DEF Min
  <2> QED BY <2>1, <2>2 DEF SelectInSeq
<1>2. RemoveFirst(s, s[k]) = a \o b
  BY <1>1 DEF RemoveFirst, RemoveAt
<1>3. a \in Seq(S) /\ Len(a) = k - 1 /\ \A i \in 1 .. k - 1 : a[i] = s[i]
  BY SubSeqProperties
<1>4. b \in Seq(S) /\ Len(b) = Len(s) - k /\ \A i \in 1 .. Len(s) - k : b[i] = s[k + i]
  BY SubSeqProperties
<1> HIDE DEF a, b
<1>5. a \o b \in Seq(S) /\ Len(a \o b) = Len(s) - 1
  BY <1>3, <1>4
<1>6. \A i \in 1 .. Len(s) - 1 : (a \o b)[i] = IF i < k THEN s[i] ELSE s[i + 1]
  BY <1>3, <1>4
<1> QED BY <1>2, <1>5, <1>6

------------------------------------------------------------------------------
(* The reference counts and the pool of objects. *)
Hands(h) == {x \in Threads \X (1 .. MaxHandles) : x[2] <= h[x[1]]}
References(v) == {o \in DOMAIN v : v[o] = "ref"}
Held == Cardinality(InHand) + Cardinality(InObjects)

PtrTypes ==
    /\ live \in BOOLEAN /\ refcnt \in Int
    /\ handles \in [Threads -> 0 .. MaxHandles]
    /\ putting \in [Threads -> Nat \union {NoPut}]
    /\ clearing \in [Threads -> Objects \union {NoObject}]
    /\ InUse \subseteq Objects /\ value \in [InUse -> {"ref", "null"}]
    /\ pool \in Seq(Objects)

(* An object that is on its way to the pool is in use, holds nothing and   *)
(* is in the hands of one thread.                                          *)
Cleared ==
    /\ \A t \in Threads : clearing[t] # NoObject =>
          clearing[t] \in InUse /\ value[clearing[t]] = "null"
    /\ \A t, u \in Threads : clearing[t] # NoObject /\ clearing[t] = clearing[u] => t = u

PoolOnce ==
    /\ \A i, j \in 1 .. Len(pool) : pool[i] = pool[j] => i = j
    /\ \A i \in 1 .. Len(pool) : pool[i] \notin InUse
    /\ Len(pool) <= Capacity

Counts ==
    /\ IsFiniteSet(InHand) /\ IsFiniteSet(InObjects)
    /\ live => refcnt = Held
    /\ live <=> (Held > 0 \/ \E t \in Threads : putting[t] = 0)
    /\ \A t, u \in Threads : putting[t] = 0 => Held = 0 /\ (putting[u] = 0 => u = t)

PtrInv == PtrTypes /\ Cleared /\ PoolOnce /\ Counts

(* Adding an element to a finite set. *)
LEMMA OneMore ==
    ASSUME NEW A, NEW B, NEW x, x \notin A, B = A \union {x}, IsFiniteSet(A) \/ IsFiniteSet(B)
    PROVE  /\ IsFiniteSet(A) /\ IsFiniteSet(B) /\ Cardinality(A) \in Nat
           /\ Cardinality(B) = Cardinality(A) + 1
<1>1. IsFiniteSet(A)
  BY FS_Subset
<1> QED BY <1>1, FS_AddElement, FS_CardinalityType

(* A thread with one reference more makes one reference more in all. *)
LEMMA OneHandMore ==
    ASSUME PtrAssumption,
           NEW h \in [Threads -> 0 .. MaxHandles], NEW g \in [Threads -> 0 .. MaxHandles],
           NEW t \in Threads, g[t] = h[t] + 1, \A u \in Threads : u # t => g[u] = h[u],
           IsFiniteSet(Hands(h)) \/ IsFiniteSet(Hands(g))
    PROVE  /\ IsFiniteSet(Hands(h)) /\ IsFiniteSet(Hands(g)) /\ Cardinality(Hands(h)) \in Nat
           /\ Cardinality(Hands(g)) = Cardinality(Hands(h)) + 1
<1> DEFINE x == <<t, g[t]>>
           S == Threads \X (1 .. MaxHandles)
<1>1. MaxHandles \in Nat
  BY DEF PtrAssumption
<1>2. h[t] \in Nat /\ g[t] \in 1 .. MaxHandles /\ x \in S /\ x[1] = t /\ x[2] = g[t]
  BY <1>1
<1>3. x \notin Hands(h)
  BY <1>2 DEF Hands
<1>4. \A y \in S : y[1] \in Threads /\ y[2] \in 1 .. MaxHandles /\ y = <<y[1], y[2]>>
  OBVIOUS
<1> HIDE DEF x, S
<1>5. \A y \in S : y[2] <= g[y[1]] <=> (y[2] <= h[y[1]] \/ y = x)
  <2> TAKE y \in S
  <2>1. CASE y[1] # t
    BY <1>2, <1>4, <2>1
  <2>2. CASE y[1] = t
    <3>1. y[2] <= g[t] <=> (y[2] <= h[t] \/ y[2] = g[t])
      BY <1>1, <1>2, <1>4
    <3>2. y[2] = g[t] <=> y = x
      BY <1>2, <1>4, <2>2 DEF x
    <3> QED BY <2>2, <3>1, <3>2
  <2> QED BY <2>1, <2>2
<1>6. Hands(g) = Hands(h) \union {x}
  BY <1>2, <1>5 DEF Hands, S
<1> QED BY <1>3, <1>6, OneMore

(* The references held are counted in threads and in objects. *)
LEMMA HeldIs ==
    ASSUME PtrInv
    PROVE  /\ InHand = Hands(handles) /\ InHand' = Hands(handles')
           /\ InObjects = References(value) /\ InObjects' = References(value')
           /\ Cardinality(InHand) \in Nat /\ Cardinality(InObjects) \in Nat /\ Held \in Nat
BY FS_CardinalityType DEF PtrInv, Counts, InHand, Hands, InObjects, References, InUse, Held

(* Who has a reference holds the block alive. *)
LEMMA HeldLives ==
    ASSUME PtrAssumption, PtrInv
    PROVE  /\ \A t \in Threads : handles[t] > 0 => Held > 0
           /\ \A o \in InObjects : Held > 0
           /\ Held > 0 => live /\ refcnt = Held /\ \A t \in Threads : putting[t] # 0
<1>1. InHand # {} \/ InObjects # {} => Held > 0
  BY HeldIs, FS_EmptySet DEF PtrInv, Counts, Held
<1>2. \A t \in Threads : handles[t] > 0 => <<t, 1>> \in InHand
  <2> TAKE t \in Threads
  <2> HAVE handles[t] > 0
  <2>1. <<t, 1>> \in Threads \X (1 .. MaxHandles) /\ <<t, 1>>[1] = t /\ <<t, 1>>[2] = 1
    BY DEF PtrAssumption
  <2>2. handles[t] \in Int /\ 1 <= handles[t]
    BY DEF PtrInv, PtrTypes, PtrAssumption
  <2> QED BY <2>1, <2>2 DEF InHand
<1>3. Held > 0 => live /\ refcnt = Held /\ \A t \in Threads : putting[t] # 0
  BY DEF PtrInv, Counts
<1> QED BY <1>1, <1>2, <1>3

(* ypmalloc: the creator has the only reference. *)
LEMMA AllocateKeeps ==
    ASSUME PtrAssumption, PtrInv, NEW t \in Threads, Allocate(t)
    PROVE  PtrInv'
<1>1. /\ PtrTypes /\ Cleared /\ PoolOnce /\ Counts /\ handles \in [Threads -> 0 .. MaxHandles]
  BY DEF PtrInv, PtrTypes
<1>2. /\ ~live /\ live' = TRUE /\ refcnt' = 1
      /\ UNCHANGED <<putting, clearing, value, pool>>
  BY DEF Allocate
<1>3. Held = 0 /\ handles[t] = 0 /\ \A u \in Threads : putting[u] # 0
  <2>1. ~(Held > 0) /\ \A u \in Threads : putting[u] # 0
    BY <1>1, <1>2 DEF Counts
  <2>2. ~(handles[t] > 0) /\ handles[t] \in 0 .. MaxHandles /\ MaxHandles \in Nat
    BY <1>1, <2>1, HeldLives DEF PtrAssumption
  <2> QED BY <2>1, <2>2, HeldIs
<1>4. /\ handles' \in [Threads -> 0 .. MaxHandles] /\ handles'[t] = handles[t] + 1
      /\ \A u \in Threads : u # t => handles'[u] = handles[u]
  BY <1>1, <1>3 DEF Allocate, PtrAssumption
<1>5. /\ IsFiniteSet(InHand') /\ Cardinality(InHand') = Cardinality(InHand) + 1
  BY <1>1, <1>4, HeldIs, OneHandMore DEF Counts
<1>6. InObjects' = InObjects
  BY <1>2, HeldIs
<1>7. Held' = 1
  BY <1>3, <1>5, <1>6, HeldIs DEF Held
<1>8. Counts'
  BY <1>1, <1>2, <1>3, <1>5, <1>6, <1>7 DEF Counts
<1> QED BY <1>1, <1>2, <1>4, <1>8 DEF PtrInv, PtrTypes, Cleared, PoolOnce, InUse

(* ypget: a thread that has a reference takes another. *)
LEMMA HandleGetKeeps ==
    ASSUME PtrAssumption, PtrInv, NEW t \in Threads, Get(t)
    PROVE  PtrInv'
<1>1. /\ PtrTypes /\ Cleared /\ PoolOnce /\ Counts /\ handles \in [Threads -> 0 .. MaxHandles]
      /\ MaxHandles \in Nat
  BY DEF PtrInv, PtrTypes, PtrAssumption
<1>2. /\ handles[t] \in 1 .. MaxHandles - 1 /\ refcnt' = refcnt + 1
      /\ UNCHANGED <<live, putting, clearing, value, pool>>
  BY DEF Get
<1>3. live /\ refcnt = Held /\ Held > 0 /\ Held \in Nat /\ \A u \in Threads : putting[u] # 0
  BY <1>2, HeldLives, HeldIs
<1>4. /\ handles' \in [Threads -> 0 .. MaxHandles] /\ handles'[t] = handles[t] + 1
      /\ \A u \in Threads : u # t => handles'[u] = handles[u]
  BY <1>1, <1>2 DEF Get
<1>5. /\ IsFiniteSet(InHand') /\ Cardinality(InHand') = Cardinality(InHand) + 1
  BY <1>1, <1>4, HeldIs, OneHandMore DEF Counts
<1>6. InObjects' = InObjects
  BY <1>2, HeldIs
<1>7. Held' = Held + 1
  BY <1>5, <1>6, HeldIs DEF Held
<1>8. Counts'
  BY <1>1, <1>2, <1>3, <1>5, <1>6, <1>7 DEF Counts
<1>9. refcnt' \in Int
  BY <1>2, <1>3
<1> QED BY <1>1, <1>2, <1>4, <1>8, <1>9 DEF PtrInv, PtrTypes, Cleared, PoolOnce, InUse

(* A reference changes hands. *)
LEMMA GiveKeeps ==
    ASSUME PtrAssumption, PtrInv, NEW t \in Threads, NEW u \in Threads, Give(t, u)
    PROVE  PtrInv'
<1>1. /\ PtrTypes /\ Cleared /\ PoolOnce /\ Counts /\ handles \in [Threads -> 0 .. MaxHandles]
      /\ MaxHandles \in Nat
  BY DEF PtrInv, PtrTypes, PtrAssumption
<1>2. /\ t # u /\ handles[t] > 0 /\ handles[u] < MaxHandles
      /\ handles[t] \in 0 .. MaxHandles /\ handles[u] \in 0 .. MaxHandles
      /\ UNCHANGED <<live, refcnt, putting, clearing, value, pool>>
  BY <1>1 DEF Give
<1> DEFINE fewer == [handles EXCEPT ![t] = @ - 1]
<1>3. /\ fewer \in [Threads -> 0 .. MaxHandles] /\ handles[t] = fewer[t] + 1
      /\ \A x \in Threads : x # t => handles[x] = fewer[x]
  BY <1>1, <1>2
<1>4. /\ handles' \in [Threads -> 0 .. MaxHandles] /\ handles'[u] = fewer[u] + 1
      /\ \A x \in Threads : x # u => handles'[x] = fewer[x]
  BY <1>1, <1>2 DEF Give
<1> HIDE DEF fewer
<1>5. /\ IsFiniteSet(Hands(fewer)) /\ Cardinality(Hands(fewer)) \in Nat
      /\ Cardinality(InHand) = Cardinality(Hands(fewer)) + 1
  BY <1>1, <1>3, HeldIs, OneHandMore DEF Counts
<1>6. IsFiniteSet(InHand') /\ Cardinality(InHand') = Cardinality(Hands(fewer)) + 1
  BY <1>3, <1>4, <1>5, HeldIs, OneHandMore
<1>7. InObjects' = InObjects
  BY <1>2, HeldIs
<1>8. Held' = Held
  BY <1>5, <1>6, <1>7 DEF Held
<1>9. Counts'
  BY <1>1, <1>2, <1>6, <1>7, <1>8 DEF Counts
<1> QED BY <1>1, <1>2, <1>4, <1>9 DEF PtrInv, PtrTypes, Cleared, PoolOnce, InUse

(* The count goes down by one, with the references. *)
LEMMA DecrementKeeps ==
    ASSUME PtrInv, PtrAssumption, NEW t \in Threads, Decrement(t), live' = live,
           Held > 0, Held' = Held - 1, IsFiniteSet(InHand'), IsFiniteSet(InObjects')
    PROVE  Counts' /\ refcnt' \in Int /\ putting' \in [Threads -> Nat \union {NoPut}]
<1>1. live /\ refcnt = Held /\ Held \in Nat /\ \A u \in Threads : putting[u] # 0
  BY HeldLives, HeldIs
<1>2. refcnt' = Held - 1 /\ refcnt' \in Nat /\ Held' \in Nat
  BY <1>1 DEF Decrement
<1>3. /\ putting' \in [Threads -> Nat \union {NoPut}] /\ putting'[t] = Held - 1
      /\ \A u \in Threads : u # t => putting'[u] = putting[u]
  <2>1. putting \in [Threads -> Nat \union {NoPut}]
    BY DEF PtrInv, PtrTypes
  <2>2. putting' = [putting EXCEPT ![t] = Held - 1]
    BY <1>1 DEF Decrement, CountAfter
  <2> QED BY <1>1, <2>1, <2>2
<1>4. \A u \in Threads : putting'[u] = 0 => u = t /\ Held' = 0
  BY <1>1, <1>3
<1>5. Held' > 0 \/ putting'[t] = 0
  <2>1. Held - 1 > 0 \/ Held - 1 = 0
    BY <1>1
  <2> QED BY <1>3, <2>1
<1>6. Counts'
  BY <1>1, <1>2, <1>4, <1>5 DEF Counts
<1> QED BY <1>2, <1>3, <1>6

(* ypput: a thread gives up a reference. *)
LEMMA HandlePutKeeps ==
    ASSUME PtrAssumption, PtrInv, NEW t \in Threads, Put(t)
    PROVE  PtrInv'
<1>1. /\ PtrTypes /\ Cleared /\ PoolOnce /\ Counts /\ handles \in [Threads -> 0 .. MaxHandles]
      /\ MaxHandles \in Nat
  BY DEF PtrInv, PtrTypes, PtrAssumption
<1>2. /\ handles[t] > 0 /\ Decrement(t) /\ UNCHANGED <<live, clearing, value, pool>>
  BY DEF Put
<1>3. Held > 0
  BY <1>2, HeldLives
<1>4. /\ handles' \in [Threads -> 0 .. MaxHandles] /\ handles[t] = handles'[t] + 1
      /\ \A u \in Threads : u # t => handles[u] = handles'[u]
  BY <1>1, <1>2 DEF Put
<1>5. /\ IsFiniteSet(InHand') /\ Cardinality(InHand) = Cardinality(InHand') + 1
      /\ Cardinality(InHand') \in Nat
  BY <1>1, <1>4, HeldIs, OneHandMore DEF Counts
<1>6. InObjects' = InObjects
  BY <1>2, HeldIs
<1>7. Held' = Held - 1
  BY <1>5, <1>6, HeldIs DEF Held
<1>8. Counts' /\ refcnt' \in Int /\ putting' \in [Threads -> Nat \union {NoPut}]
  BY <1>1, <1>2, <1>3, <1>5, <1>6, <1>7, DecrementKeeps DEF Counts
<1> QED BY <1>1, <1>2, <1>4, <1>8 DEF PtrInv, PtrTypes, Cleared, PoolOnce, InUse

(* ... and frees the block if its decrement returned 0. *)
LEMMA PutEndsKeeps ==
    ASSUME PtrAssumption, PtrInv, NEW t \in Threads, PutEnds(t)
    PROVE  PtrInv'
<1>1. /\ PtrTypes /\ Cleared /\ PoolOnce /\ Counts
      /\ putting \in [Threads -> Nat \union {NoPut}] /\ live \in BOOLEAN
  BY DEF PtrInv, PtrTypes
<1>2. /\ putting[t] # NoPut /\ live' = (live /\ putting[t] > 0)
      /\ UNCHANGED <<refcnt, handles, clearing, value, pool>>
  BY DEF PutEnds
<1>3. /\ putting' \in [Threads -> Nat \union {NoPut}] /\ putting'[t] = NoPut
      /\ \A u \in Threads : u # t => putting'[u] = putting[u]
  BY <1>1 DEF PutEnds
<1>4. putting[t] \in Nat /\ NoPut # 0
  BY <1>1, <1>2 DEF NoPut
<1>5. InHand' = InHand /\ InObjects' = InObjects /\ Held' = Held /\ Held \in Nat
  BY <1>2, HeldIs DEF Held
<1>6. Counts'
  <2>1. CASE putting[t] = 0
    <3>1. Held = 0 /\ \A u \in Threads : putting[u] = 0 => u = t
      BY <1>1, <2>1 DEF Counts
    <3>2. live' = FALSE
      <4>1. ~(putting[t] > 0)
        BY <2>1
      <4> QED BY <1>2, <4>1, Zenon
    <3>3. \A u \in Threads : putting'[u] # 0
      BY <1>3, <1>4, <3>1
    <3> QED BY <1>1, <1>5, <3>1, <3>2, <3>3 DEF Counts
  <2>2. CASE putting[t] # 0
    <3>1. live' = live /\ \A u \in Threads : putting'[u] = 0 <=> putting[u] = 0
      BY <1>1, <1>2, <1>3, <1>4, <2>2
    <3> QED BY <1>1, <1>2, <1>5, <3>1 DEF Counts
  <2> QED BY <2>1, <2>2
<1> QED BY <1>1, <1>2, <1>3, <1>6 DEF PtrInv, PtrTypes, Cleared, PoolOnce, InUse

(* yocreate: the reference of the thread becomes the object's. *)
LEMMA CreateKeeps ==
    ASSUME PtrAssumption, PtrInv, NEW t \in Threads, NEW o \in Objects, Create(t, o)
    PROVE  PtrInv'
<1>1. /\ PtrTypes /\ Cleared /\ PoolOnce /\ Counts /\ handles \in [Threads -> 0 .. MaxHandles]
      /\ MaxHandles \in Nat /\ pool \in Seq(Objects) /\ InUse \subseteq Objects
      /\ value \in [InUse -> {"ref", "null"}]
  BY DEF PtrInv, PtrTypes, PtrAssumption
<1>2. /\ handles[t] > 0 /\ PoolGet(o) /\ UNCHANGED <<live, refcnt, putting, clearing>>
  BY DEF Create
<1>3. /\ o \notin InUse /\ pool' \in Seq(Objects) /\ Len(pool') <= Capacity
      /\ \A i, j \in 1 .. Len(pool') : pool'[i] = pool'[j] => i = j
      /\ \A i \in 1 .. Len(pool') : pool'[i] \notin InUse /\ pool'[i] # o
  <2>1. CASE pool # <<>>
    <3>1. o = Head(pool) /\ pool' = Tail(pool) /\ 1 \in 1 .. Len(pool) /\ o = pool[1]
      BY <1>1, <1>2, <2>1, EmptySeq DEF PoolGet
    <3>2. /\ pool' \in Seq(Objects) /\ Len(pool') = Len(pool) - 1
          /\ \A i \in 1 .. Len(pool') : pool'[i] = pool[i + 1] /\ i + 1 \in 1 .. Len(pool) /\ i + 1 # 1
      BY <1>1, <2>1, <3>1, HeadTailProperties
    <3>3. Len(pool') <= Capacity
      BY <1>1, <3>2 DEF PoolOnce, PtrAssumption
    <3>4. \A i, j \in 1 .. Len(pool') : pool'[i] = pool'[j] => i = j
      BY <1>1, <3>2 DEF PoolOnce
    <3> QED BY <1>1, <3>1, <3>2, <3>3, <3>4 DEF PoolOnce
  <2>2. CASE pool = <<>>
    BY <1>1, <1>2, <2>2 DEF PoolGet, PoolOnce
  <2> QED BY <2>1, <2>2
<1>4. /\ InUse' = InUse \union {o} /\ value' \in [InUse' -> {"ref", "null"}]
      /\ value'[o] = "ref" /\ \A x \in InUse : value'[x] = value[x]
  BY <1>1, <1>3 DEF Create, InUse
<1>5. /\ handles' \in [Threads -> 0 .. MaxHandles] /\ handles[t] = handles'[t] + 1
      /\ \A u \in Threads : u # t => handles[u] = handles'[u]
  BY <1>1, <1>2 DEF Create
<1>6. /\ IsFiniteSet(InHand') /\ Cardinality(InHand) = Cardinality(InHand') + 1
      /\ Cardinality(InHand') \in Nat
  BY <1>1, <1>5, HeldIs, OneHandMore DEF Counts
<1>7. o \notin InObjects /\ InObjects' = InObjects \union {o}
  BY <1>3, <1>4 DEF InObjects
<1>8. /\ IsFiniteSet(InObjects') /\ Cardinality(InObjects') = Cardinality(InObjects) + 1
      /\ Cardinality(InObjects) \in Nat
  BY <1>1, <1>7, OneMore DEF Counts
<1>9. Held' = Held
  BY <1>6, <1>8 DEF Held
<1>10. Counts'
  BY <1>1, <1>2, <1>6, <1>8, <1>9 DEF Counts
<1>11. Cleared'
  BY <1>1, <1>2, <1>3, <1>4 DEF Cleared
<1>12. PoolOnce'
  BY <1>3, <1>4 DEF PoolOnce
<1>13. PtrTypes'
  BY <1>1, <1>2, <1>3, <1>4, <1>5 DEF PtrTypes
<1> QED BY <1>10, <1>11, <1>12, <1>13 DEF PtrInv

(* yodestroy: the reference of the object is given up, *)
LEMMA DestroyKeeps ==
    ASSUME PtrAssumption, PtrInv, NEW t \in Threads, NEW o \in Objects, Destroy(t, o)
    PROVE  PtrInv'
<1>1. /\ PtrTypes /\ Cleared /\ PoolOnce /\ Counts /\ InUse \subseteq Objects
      /\ value \in [InUse -> {"ref", "null"}]
      /\ clearing \in [Threads -> Objects \union {NoObject}]
  BY DEF PtrInv, PtrTypes
<1>2. /\ o \in InUse /\ value[o] = "ref" /\ Decrement(t)
      /\ UNCHANGED <<live, handles, pool>>
  BY DEF Destroy
<1>3. /\ InUse' = InUse /\ value' \in [InUse -> {"ref", "null"}]
      /\ value'[o] = "null" /\ \A x \in InUse : x # o => value'[x] = value[x]
  BY <1>1, <1>2 DEF Destroy, InUse
<1>4. /\ clearing' \in [Threads -> Objects \union {NoObject}] /\ clearing'[t] = o
      /\ \A u \in Threads : u # t => clearing'[u] = clearing[u]
  BY <1>1 DEF Destroy
<1>5. o \notin InObjects' /\ InObjects = InObjects' \union {o} /\ o \in InObjects
  BY <1>2, <1>3 DEF InObjects
<1>6. /\ IsFiniteSet(InObjects') /\ Cardinality(InObjects) = Cardinality(InObjects') + 1
      /\ Cardinality(InObjects') \in Nat
  BY <1>1, <1>5, OneMore DEF Counts
<1>7. InHand' = InHand /\ Held > 0
  BY <1>2, <1>5, HeldIs, HeldLives
<1>8. Held' = Held - 1
  BY <1>6, <1>7, HeldIs DEF Held
<1>9. Counts' /\ refcnt' \in Int /\ putting' \in [Threads -> Nat \union {NoPut}]
  BY <1>1, <1>2, <1>6, <1>7, <1>8, DecrementKeeps DEF Counts
<1>10. Cleared'
  <2>1. \A u \in Threads : u # t => clearing'[u] # o \/ clearing'[u] = NoObject
    BY <1>1, <1>2, <1>4 DEF Cleared
  <2>2. o # NoObject
    BY DEF PtrAssumption
  <2>3. \A u \in Threads : clearing'[u] # NoObject =>
           clearing'[u] \in InUse /\ value'[clearing'[u]] = "null"
    BY <1>1, <1>2, <1>3, <1>4, <2>1 DEF Cleared
  <2>4. \A u, x \in Threads : clearing'[u] # NoObject /\ clearing'[u] = clearing'[x] => u = x
    BY <1>1, <1>4, <2>1, <2>2 DEF Cleared
  <2> QED BY <1>3, <2>3, <2>4 DEF Cleared
<1>11. PoolOnce'
  BY <1>1, <1>2, <1>3 DEF PoolOnce
<1>12. PtrTypes'
  BY <1>1, <1>2, <1>3, <1>4, <1>9 DEF PtrTypes
<1> QED BY <1>9, <1>10, <1>11, <1>12 DEF PtrInv

(* ... and the object goes to the pool, or to the heap when that is full. *)
LEMMA RecycleKeeps ==
    ASSUME PtrAssumption, PtrInv, NEW t \in Threads, Recycle(t)
    PROVE  PtrInv'
<1> DEFINE o == clearing[t]
<1>1. /\ PtrTypes /\ Cleared /\ PoolOnce /\ Counts /\ InUse \subseteq Objects
      /\ value \in [InUse -> {"ref", "null"}] /\ pool \in Seq(Objects) /\ Len(pool) \in Nat
      /\ clearing \in [Threads -> Objects \union {NoObject}]
  BY DEF PtrInv, PtrTypes
<1>2. /\ o # NoObject
      /\ pool' = IF HasRoom THEN Append(pool, o) ELSE pool
      /\ UNCHANGED <<live, refcnt, handles, putting>>
  BY DEF Recycle
<1>3. o \in InUse /\ value[o] = "null" /\ o \in Objects
  BY <1>1, <1>2 DEF Cleared
<1>4. /\ InUse' = InUse \ {o} /\ value' \in [InUse' -> {"ref", "null"}]
      /\ \A x \in InUse \ {o} : value'[x] = value[x]
  BY <1>1 DEF Recycle, InUse
<1>5. /\ clearing' \in [Threads -> Objects \union {NoObject}] /\ clearing'[t] = NoObject
      /\ \A u \in Threads : u # t => clearing'[u] = clearing[u] /\ (clearing[u] = o => FALSE)
  BY <1>1, <1>2 DEF Recycle, Cleared
<1>6. InObjects' = InObjects /\ InHand' = InHand
  <2>1. InObjects' = InObjects
    BY <1>3, <1>4 DEF InObjects
  <2> QED BY <1>2, <2>1, HeldIs
<1>7. Held' = Held
  BY <1>6 DEF Held
<1>8. Counts'
  BY <1>1, <1>2, <1>6, <1>7 DEF Counts
<1> HIDE DEF o
<1>9. Cleared'
  <2>1. \A u \in Threads : clearing'[u] # NoObject => u # t /\ clearing'[u] = clearing[u] /\ clearing[u] # o
    BY <1>5
  <2> QED BY <1>1, <1>4, <2>1 DEF Cleared
<1>10. PoolOnce' /\ pool' \in Seq(Objects)
  <2>1. CASE HasRoom
    <3>1. /\ pool' \in Seq(Objects) /\ Len(pool') = Len(pool) + 1
          /\ \A i \in 1 .. Len(pool) : pool'[i] = pool[i]
          /\ pool'[Len(pool) + 1] = o
      BY <1>1, <1>2, <1>3, <2>1, AppendProperties
    <3>2. \A i \in 1 .. Len(pool') : i \in 1 .. Len(pool) \/ i = Len(pool) + 1
      BY <1>1, <3>1
    <3>3. \A i \in 1 .. Len(pool) : pool[i] # o /\ pool[i] \notin InUse
      BY <1>1, <1>3 DEF PoolOnce
    <3>4. \A i, j \in 1 .. Len(pool') : pool'[i] = pool'[j] => i = j
      BY <1>1, <3>1, <3>2, <3>3 DEF PoolOnce
    <3>5. \A i \in 1 .. Len(pool') : pool'[i] \notin InUse'
      BY <1>4, <3>1, <3>2, <3>3
    <3>6. Len(pool') <= Capacity
      BY <1>1, <2>1, <3>1 DEF HasRoom, PtrAssumption
    <3> QED BY <3>1, <3>4, <3>5, <3>6 DEF PoolOnce
  <2>2. CASE ~HasRoom
    BY <1>1, <1>2, <1>4, <2>2 DEF PoolOnce
  <2> QED BY <2>1, <2>2
<1>11. PtrTypes'
  BY <1>1, <1>2, <1>4, <1>5, <1>10 DEF PtrTypes
<1> QED BY <1>8, <1>9, <1>10, <1>11 DEF PtrInv

(* pool_clear frees what is in the pool. *)
LEMMA ClearKeeps ==
    ASSUME PtrAssumption, PtrInv, ClearPool
    PROVE  PtrInv'
<1>1. /\ pool' = <<>> /\ UNCHANGED <<live, refcnt, handles, putting, clearing, value>>
  BY DEF ClearPool
<1>2. InUse' = InUse /\ InHand' = InHand /\ InObjects' = InObjects /\ Held' = Held
  BY <1>1, HeldIs DEF InUse, Held
<1>3. PoolOnce'
  <2>1. Len(pool') = 0 /\ 0 <= Capacity
    BY <1>1 DEF PtrAssumption
  <2> QED BY <2>1 DEF PoolOnce
<1>4. PtrTypes'
  BY <1>1, <1>2 DEF PtrInv, PtrTypes
<1>5. Cleared'
  BY <1>1, <1>2 DEF PtrInv, Cleared
<1>6. Counts'
  BY <1>1, <1>2 DEF PtrInv, Counts
<1> QED BY <1>3, <1>4, <1>5, <1>6 DEF PtrInv

(* No block, no reference, no object. *)
LEMMA PtrBegins ==
    ASSUME PtrAssumption, PtrInit
    PROVE  PtrInv
<1>1. /\ live = FALSE /\ refcnt = 0 /\ handles = [t \in Threads |-> 0]
      /\ putting = [t \in Threads |-> NoPut] /\ clearing = [t \in Threads |-> NoObject]
      /\ value = <<>> /\ pool = <<>> /\ MaxHandles \in Nat /\ Capacity \in Nat
  BY DEF PtrInit, PtrAssumption
<1>2. InUse = {} /\ InObjects = {}
  BY <1>1 DEF InUse, InObjects
<1>3. InHand = {}
  BY <1>1 DEF InHand
<1>4. Held = 0
  BY <1>2, <1>3, FS_EmptySet DEF Held
<1>5. \A t \in Threads : putting[t] # 0
  BY <1>1 DEF NoPut
<1>6. Counts
  BY <1>1, <1>2, <1>3, <1>4, <1>5, FS_EmptySet DEF Counts
<1>7. PoolOnce
  BY <1>1 DEF PoolOnce
<1>8. PtrTypes /\ Cleared
  <2>1. value \in [InUse -> {"ref", "null"}]
    BY <1>1, <1>2
  <2>2. \A t \in Threads : clearing[t] = NoObject
    BY <1>1
  <2>3. handles \in [Threads -> 0 .. MaxHandles] /\ pool \in Seq(Objects)
    BY <1>1
  <2>4. /\ putting \in [Threads -> Nat \union {NoPut}]
        /\ clearing \in [Threads -> Objects \union {NoObject}]
    BY <1>1
  <2>5. live \in BOOLEAN /\ refcnt \in Int /\ InUse \subseteq Objects
    <3>1. refcnt \in Int
      BY <1>1
    <3>2. live \in BOOLEAN /\ InUse \subseteq Objects
      BY <1>1, <1>2, Zenon
    <3> QED BY <3>1, <3>2
  <2>6. PtrTypes
    BY <2>1, <2>3, <2>4, <2>5 DEF PtrTypes
  <2> QED BY <2>2, <2>6 DEF Cleared
<1> QED BY <1>6, <1>7, <1>8 DEF PtrInv

(* What is promised of counts and pool follows from the invariant. *)
LEMMA PtrInvImplies ==
    ASSUME PtrAssumption, PtrInv
    PROVE  LivesWhileHeld /\ ObjectsInOnePlace
<1>1. PtrTypes /\ PoolOnce /\ Counts /\ DOMAIN pool = 1 .. Len(pool)
  BY DEF PtrInv, PtrTypes
<1>2. ObjectsInOnePlace
  BY <1>1 DEF ObjectsInOnePlace, PoolOnce, IsInjective, ToSet
<1> DEFINE frees == {t \in Threads : putting[t] = 0}
<1>3. frees # {} => Held = 0 /\ Cardinality(frees) = 1
  <2> SUFFICES ASSUME frees # {} PROVE Held = 0 /\ Cardinality(frees) = 1
    OBVIOUS
  <2>1. PICK t \in Threads : putting[t] = 0
    OBVIOUS
  <2>2. Held = 0 /\ frees = {t}
    BY <1>1, <2>1 DEF Counts
  <2> QED BY <2>2, FS_Singleton
<1>4. (live => refcnt = Held) /\ (live <=> Held > 0 \/ frees # {})
  BY <1>1 DEF Counts
<1> HIDE DEF frees
<1>5. LivesWhileHeld
  BY <1>3, <1>4, Zenon DEF LivesWhileHeld, Held, frees
<1> QED BY <1>2, <1>5

(* Every step keeps the invariant. *)
LEMMA PtrStep ==
    ASSUME PtrAssumption, PtrInv, [PtrNext]_ptrVars
    PROVE  PtrInv'
<1>1. CASE UNCHANGED ptrVars
  BY <1>1 DEF ptrVars, PtrInv, PtrTypes, Cleared, PoolOnce, Counts, InUse, Held, InHand, InObjects
<1> QED BY <1>1, AllocateKeeps, HandleGetKeeps, GiveKeeps, HandlePutKeeps, PutEndsKeeps, CreateKeeps,
           DestroyKeeps, RecycleKeeps, ClearKeeps DEF PtrNext

(* No access but the check of the guards finds the block freed. *)
LEMMA TouchStep ==
    ASSUME PtrAssumption, PtrInv, TouchesTheLiving, [PtrNext]_ptrVars
    PROVE  TouchesTheLiving'
<1>1. ASSUME NEW t \in Threads, Get(t) PROVE TouchesTheLiving'
  <2>1. handles[t] > 0
    BY <1>1 DEF Get, PtrAssumption
  <2>2. live
    BY <2>1, HeldLives
  <2> QED BY <1>1, <2>2 DEF Get, Access, TouchesTheLiving
<1>2. ASSUME NEW t \in Threads, Put(t) PROVE TouchesTheLiving'
  <2>1. live
    BY <1>2, HeldLives DEF Put
  <2> QED BY <1>2, <2>1 DEF Put, Decrement, Access, TouchesTheLiving
<1>3. ASSUME NEW t \in Threads, NEW o \in Objects, Destroy(t, o) PROVE TouchesTheLiving'
  <2>1. o \in InObjects
    BY <1>3 DEF Destroy, InObjects
  <2>2. live
    BY <2>1, HeldLives
  <2> QED BY <1>3, <2>2 DEF Destroy, Decrement, Access, TouchesTheLiving
<1>4. ASSUME NEW t \in Threads, PutEnds(t) PROVE TouchesTheLiving'
  BY <1>4 DEF PutEnds, Access, TouchesTheLiving
<1>5. ASSUME touched' = touched PROVE TouchesTheLiving'
  BY <1>5 DEF TouchesTheLiving
<1> QED BY <1>1, <1>2, <1>3, <1>4, <1>5
        DEF PtrNext, ptrVars, Allocate, Give, Create, Recycle, ClearPool

(* p.c, gp.c, o.c, pool.c: whatever the threads do with a block and the     *)
(* value objects that refer to it, the block lives exactly as long as a     *)
(* thread or an object refers to it or its last put is about to free it,    *)
(* only one put is, and an object is in use or once in the pool, never      *)
(* both, with the pool within its capacity.  Nothing finds the block freed  *)
(* but the check of its guards after a decrement, in a build that has them. *)
THEOREM ReferencesAreExact == PtrSpec => []ReferencesExact
<1> USE PtrConstants
<1>1. PtrInit => PtrInv /\ TouchesTheLiving
  BY PtrBegins DEF PtrInit, TouchesTheLiving
<1>2. PtrInv /\ TouchesTheLiving /\ [PtrNext]_ptrVars => (PtrInv /\ TouchesTheLiving)'
  BY PtrStep, TouchStep
<1>3. PtrInv /\ TouchesTheLiving => ReferencesExact
  BY PtrInvImplies DEF ReferencesExact
<1> QED BY <1>1, <1>2, <1>3, PTL DEF PtrSpec

-----------------------------------------------------------------------------
(* The growing array. *)
DynbInv == /\ storage \in Seq(Elements) /\ limit \in Nat \ {0}
           /\ KeepsElements

(* Doubling never makes the array smaller, and stops at the memory. *)
LEMMA LimitsGrow ==
    ASSUME DynbInv, DynbAssumption, NEW n \in Nat, NEW l \in Limits(n)
    PROVE  l \in Nat \ {0} /\ limit <= l /\ l <= MaxLimit
<1>1. PICK d \in Doublings : l = Doubled(d) /\ Doubled(d) <= MaxLimit
  BY DEF Limits
<1>2. d \in {1, 2, 4, 8} /\ limit \in Nat \ {0}
  BY DEF Doublings, DynbInv
<1>3. limit * d \in Nat \ {0} /\ limit <= limit * d
  BY <1>2
<1> QED BY <1>1, <1>3 DEF Doubled

(* The array keeps what was appended, and room for it. *)
LEMMA DynbStep ==
    ASSUME DynbAssumption, DynbInv, [DynbNext]_dynbVars
    PROVE  DynbInv'
<1> USE DEF DynbInv, KeepsElements, DynbAssumption
<1>0. Len(storage) \in Nat
  OBVIOUS
<1>1. ASSUME NEW k \in 1..2, NEW els \in [1..k -> Elements], Appends(els)
      PROVE  DynbInv'
  <2>1. els \in Seq(Elements) /\ Len(els) = k
    BY <1>1
  <2>2. PICK l \in Limits(Len(els)) :
             /\ limit' = l
             /\ IF Fits(l, Len(els))
                THEN storage' = Stored(els) /\ appended' = appended \o els
                ELSE UNCHANGED <<storage, appended>>
    BY <1>1 DEF Appends
  <2>3. l \in Nat \ {0} /\ limit <= l /\ l <= MaxLimit
    <3>1. Len(els) \in Nat
      BY <2>1
    <3> QED BY <3>1, LimitsGrow
  <2>4. CASE Fits(l, Len(els))
    <3>1. storage' = storage \o els /\ appended' = storage'
      BY <2>2, <2>4 DEF Stored
    <3>2. storage \o els \in Seq(Elements) /\ Len(storage \o els) = Len(storage) + k
      BY <2>1
    <3>3. Len(storage) + k <= l
      BY <2>1, <2>3, <2>4, <1>0 DEF Fits
    <3> QED BY <2>2, <2>3, <3>1, <3>2, <3>3
  <2>5. CASE ~Fits(l, Len(els))
    BY <2>2, <2>3, <2>5, <1>0
  <2> QED BY <2>4, <2>5
<1>2. CASE Expand
  BY <1>2, <1>0 DEF Expand
<1>3. ASSUME NEW n \in 1..MaxLimit, ShrinkTo(n)
      PROVE  DynbInv'
  <2>1. storage' = SubSeq(storage, 1, Len(storage))
    BY <1>3, <1>0 DEF ShrinkTo
  <2>2. storage' = storage
    BY <2>1, SubSeqFull
  <2> QED BY <1>3, <2>2, <1>0 DEF ShrinkTo
<1>4. CASE ResetDynb
  BY <1>4 DEF ResetDynb
<1>5. CASE UNCHANGED dynbVars
  BY <1>5 DEF dynbVars
<1> QED BY <1>1, <1>2, <1>3, <1>4, <1>5 DEF DynbNext

(* The array keeps, within its limit, exactly the elements that were        *)
(* appended, through every growth that half failed and every shrink         *)
(* (ydynb_appends, ydynb_expand, ydynb_shrink).                             *)
THEOREM ArrayKeepsElements == DynbSpec => []KeepsElements
<1> USE DynbConstants
<1>1. DynbInit => DynbInv
  BY DEF DynbInit, DynbInv, KeepsElements, DynbAssumption
<1>2. DynbInv /\ [DynbNext]_dynbVars => DynbInv'
  BY DynbStep
<1>3. DynbInv => KeepsElements
  BY DEF DynbInv
<1> QED BY <1>1, <1>2, <1>3, PTL DEF DynbSpec

------------------------------------------------------------------------------
(* The list. *)

(* The ring of a list s: the head is before the first and after the last. *)
RingAt(s, i) == IF i \in 1 .. Len(s) THEN s[i] ELSE Anchor
Ringed(nx, pv, s) ==
    \A i \in 0 .. Len(s) : /\ nx[RingAt(s, i)] = RingAt(s, i + 1)
                           /\ pv[RingAt(s, i + 1)] = RingAt(s, i)
Once(s) == s \in Seq(Links) /\ \A i, j \in 1 .. Len(s) : s[i] = s[j] => i = j
Pointers == [Links \union {Anchor} -> Links \union {Anchor}]

(* The i-th item in the direction of an iterator. *)
Toward(s, fwd, i) == IF fwd THEN s[i] ELSE s[Len(s) + 1 - i]

(* The last items of s in that direction. *)
Ahead(s, fwd, todo) ==
    /\ Len(todo) <= Len(s)
    /\ \A j \in 1 .. Len(todo) : todo[j] = Toward(s, fwd, Len(s) - Len(todo) + j)

(* What an iterator has handed out and what is before it make what it is    *)
(* expected to hand out, and perhaps more.                                  *)
Iterates(c, todo) ==
    /\ c \in [fwd : BOOLEAN, lcurr : Links \union {Anchor}, lnext : Links \union {Anchor},
              seen : Seq(Links), expected : Seq(Links)]
    /\ c # NoCursor
    /\ todo \in Seq(Links)
    /\ c.lnext = IF todo = <<>> THEN Anchor ELSE todo[1]
    /\ c.lcurr = Anchor \/ \E i \in 1 .. Len(c.seen) : c.seen[i] = c.lcurr
    /\ \A j \in 1 .. Len(todo), i \in 1 .. Len(c.seen) : todo[j] # c.seen[i]
    /\ \A i \in 1 .. Len(c.expected) :
          /\ i <= Len(c.seen) => c.seen[i] = c.expected[i]
          /\ i > Len(c.seen) => /\ i - Len(c.seen) <= Len(todo)
                                /\ todo[i - Len(c.seen)] = c.expected[i]

(* The inductive invariant of the list: an iterator has a sequence still to *)
(* hand out, which is at the end of the list.                               *)
ListInv ==
    /\ next \in Pointers /\ prev \in Pointers
    /\ Once(items) /\ sz = Len(items)
    /\ Ringed(next, prev, items)
    /\ cursor = NoCursor \/ \E todo : Iterates(cursor, todo) /\ Ahead(items, cursor.fwd, todo)

(* Every place of the ring has a link of its own. *)
LEMMA RingPlaces ==
    ASSUME ListAssumption, NEW s, Once(s)
    PROVE  /\ Len(s) \in Nat /\ RingAt(s, 0) = Anchor /\ RingAt(s, Len(s) + 1) = Anchor
           /\ \A i \in 1 .. Len(s) : RingAt(s, i) = s[i] /\ s[i] \in Links
           /\ \A i : RingAt(s, i) \in Links \union {Anchor}
           /\ \A i, j \in 0 .. Len(s) : RingAt(s, i) = RingAt(s, j) => i = j
           /\ \A i, j \in 1 .. Len(s) + 1 : RingAt(s, i) = RingAt(s, j) => i = j
<1>1. Len(s) \in Nat /\ ~(0 \in 1 .. Len(s)) /\ ~(Len(s) + 1 \in 1 .. Len(s))
  BY DEF Once
<1>2. \A i \in 1 .. Len(s) : s[i] \in Links /\ s[i] # Anchor
  BY DEF Once, ListAssumption
<1>3. \A i \in 0 .. Len(s) : i = 0 \/ i \in 1 .. Len(s)
  BY <1>1
<1>4. \A i \in 1 .. Len(s) + 1 : i = Len(s) + 1 \/ i \in 1 .. Len(s)
  BY <1>1
<1> QED BY <1>1, <1>2, <1>3, <1>4 DEF RingAt, Once

(* t is s with l after the k-th, without the k-th, with l for the k-th. *)
With(s, t, k, l) ==
    /\ k \in 0 .. Len(s) /\ l \in Links /\ \A i \in 1 .. Len(s) : s[i] # l
    /\ t \in Seq(Links) /\ Len(t) = Len(s) + 1
    /\ \A i \in 1 .. k : t[i] = s[i]
    /\ t[k + 1] = l
    /\ \A i \in k + 1 .. Len(s) : t[i + 1] = s[i]
Without(s, t, k) ==
    /\ k \in 1 .. Len(s)
    /\ t \in Seq(Links) /\ Len(t) = Len(s) - 1
    /\ \A i \in 1 .. Len(s) - 1 : t[i] = IF i < k THEN s[i] ELSE s[i + 1]
Exchanged(s, t, k, l) ==
    /\ k \in 1 .. Len(s) /\ l \in Links /\ \A i \in 1 .. Len(s) : s[i] # l
    /\ t \in Seq(Links) /\ Len(t) = Len(s)
    /\ \A i \in 1 .. Len(s) : t[i] = IF i = k THEN l ELSE s[i]

(* ylistl_add between place k and the next. *)
LEMMA LinkKeepsRing ==
    ASSUME ListAssumption, NEW s, Once(s), NEW nx \in Pointers, NEW pv \in Pointers, Ringed(nx, pv, s),
           NEW k, NEW l, NEW t, With(s, t, k, l),
           NEW p, NEW q, p = RingAt(s, k), q = RingAt(s, k + 1)
    PROVE  /\ Once(t)
           /\ Ringed([nx EXCEPT ![p] = l, ![l] = q], [pv EXCEPT ![q] = l, ![l] = p], t)
<1> DEFINE n == Len(s)
           R(i) == RingAt(s, i)
           nx2 == [nx EXCEPT ![R(k)] = l, ![l] = R(k + 1)]
           pv2 == [pv EXCEPT ![R(k + 1)] = l, ![l] = R(k)]
<1> USE DEF With
<1>1. /\ n \in Nat /\ k \in 0 .. n /\ R(0) = Anchor /\ R(n + 1) = Anchor
      /\ \A i \in 1 .. n : R(i) = s[i] /\ s[i] \in Links
      /\ \A i : R(i) \in Links \union {Anchor}
      /\ \A i, j \in 0 .. n : R(i) = R(j) => i = j
      /\ \A i, j \in 1 .. n + 1 : R(i) = R(j) => i = j
  BY RingPlaces
<1>2. \A i : R(i) # l
  BY DEF RingAt, ListAssumption
<1>3. \A i \in 0 .. n : nx[R(i)] = R(i + 1) /\ pv[R(i + 1)] = R(i)
  BY DEF Ringed
<1> HIDE DEF R
<1>4. /\ nx2[R(k)] = l /\ nx2[l] = R(k + 1)
      /\ \A i \in 0 .. n : i # k => nx2[R(i)] = R(i + 1)
      /\ pv2[R(k + 1)] = l /\ pv2[l] = R(k)
      /\ \A i \in 0 .. n : i # k => pv2[R(i + 1)] = R(i)
  <2>1. \A i \in 0 .. n : i + 1 \in 1 .. n + 1 /\ (i # k => i + 1 # k + 1)
    BY <1>1
  <2>2. \A i \in 0 .. n : i # k => R(i) # R(k) /\ R(i + 1) # R(k + 1)
    BY <1>1, <2>1
  <2> HIDE DEF n
  <2> QED BY <1>1, <1>2, <1>3, <2>2 DEF Pointers
<1>5. /\ \A i \in 0 .. k : RingAt(t, i) = R(i)
      /\ RingAt(t, k + 1) = l
      /\ \A i \in k + 1 .. n + 1 : RingAt(t, i + 1) = R(i)
  <2>1. \A i \in 0 .. k : (i = 0 /\ ~(i \in 1 .. n + 1)) \/ (i \in 1 .. n + 1 /\ i \in 1 .. k /\ i \in 1 .. n)
    BY <1>1
  <2>2. k + 1 \in 1 .. n + 1
    BY <1>1
  <2>3. \A i \in k + 1 .. n + 1 : \/ i = n + 1 /\ ~(i + 1 \in 1 .. n + 1)
                                  \/ i + 1 \in 1 .. n + 1 /\ i \in k + 1 .. n /\ i \in 1 .. n
    BY <1>1
  <2> HIDE DEF n
  <2> QED BY <1>1, <2>1, <2>2, <2>3 DEF RingAt, n
<1>6. \A i \in 0 .. n + 1 : /\ nx2[RingAt(t, i)] = RingAt(t, i + 1)
                            /\ pv2[RingAt(t, i + 1)] = RingAt(t, i)
  <2> SUFFICES ASSUME NEW i \in 0 .. n + 1
               PROVE  nx2[RingAt(t, i)] = RingAt(t, i + 1) /\ pv2[RingAt(t, i + 1)] = RingAt(t, i)
    OBVIOUS
  <2> HIDE DEF nx2, pv2, n
  <2>1. CASE i < k
    <3>1. i \in 0 .. k /\ i + 1 \in 0 .. k /\ i \in 0 .. n /\ i # k
      BY <1>1, <2>1
    <3> QED BY <3>1, <1>4, <1>5
  <2>2. CASE i = k
    <3>1. k \in 0 .. k
      BY <1>1
    <3> QED BY <2>2, <3>1, <1>4, <1>5
  <2>3. CASE i = k + 1
    <3>1. k + 1 \in k + 1 .. n + 1
      BY <1>1 DEF n
    <3> QED BY <2>3, <3>1, <1>4, <1>5
  <2>4. CASE i > k + 1
    <3>1. PICK j \in Nat : i = j + 1
      <4>1. i - 1 \in Nat /\ i = (i - 1) + 1
        BY <1>1, <2>4
      <4> QED BY <4>1
    <3>2. j \in k + 1 .. n + 1 /\ j + 1 \in k + 1 .. n + 1 /\ j \in 0 .. n /\ j # k
      BY <1>1, <2>4, <3>1
    <3>3. RingAt(t, i) = R(j) /\ RingAt(t, i + 1) = R(j + 1)
      BY <3>1, <3>2, <1>5
    <3> QED BY <3>2, <3>3, <1>4
  <2> QED BY <1>1, <2>1, <2>2, <2>3, <2>4
<1>7. Once(t)
  <2> DEFINE old(i) == IF i <= k THEN i ELSE i - 1
  <2>1. \A i \in 1 .. n + 1 : i # k + 1 => old(i) \in 1 .. n
    BY <1>1
  <2>2. \A i, j \in 1 .. n + 1 : i # k + 1 /\ j # k + 1 /\ old(i) = old(j) => i = j
    BY <1>1
  <2>3. \A i \in 1 .. n + 1 : i # k + 1 => t[i] = s[old(i)]
    <3> SUFFICES ASSUME NEW i \in 1 .. n + 1, i # k + 1 PROVE t[i] = s[old(i)]
      OBVIOUS
    <3>1. CASE i <= k
      BY <3>1, <1>1
    <3>2. CASE i > k
      <4>1. i - 1 \in k + 1 .. n /\ (i - 1) + 1 = i
        BY <3>2, <1>1
      <4>2. t[(i - 1) + 1] = s[i - 1]
        BY <4>1
      <4> QED BY <3>2, <4>1, <4>2, <1>1
    <3> QED BY <3>1, <3>2, <1>1
  <2> HIDE DEF old
  <2>4. \A i \in 1 .. n + 1 : i # k + 1 => t[i] # l
    BY <2>1, <2>3
  <2>5. \A i, j \in 1 .. n : s[i] = s[j] => i = j
    BY DEF Once
  <2>6. \A i, j \in 1 .. n + 1 : i # k + 1 /\ j # k + 1 /\ t[i] = t[j] => i = j
    BY <2>1, <2>2, <2>3, <2>5
  <2>7. Len(t) = n + 1 /\ t \in Seq(Links)
    OBVIOUS
  <2> HIDE DEF n
  <2> QED BY <2>4, <2>6, <2>7 DEF Once
<1> QED BY <1>6, <1>7 DEF Ringed, R

(* ylistl_remove of the k-th. *)
LEMMA UnlinkKeepsRing ==
    ASSUME ListAssumption, NEW s, Once(s), NEW nx \in Pointers, NEW pv \in Pointers, Ringed(nx, pv, s),
           NEW k, NEW t, Without(s, t, k)
    PROVE  /\ Once(t)
           /\ Ringed([nx EXCEPT ![pv[s[k]]] = nx[s[k]]],
                     [pv EXCEPT ![nx[s[k]]] = pv[s[k]]], t)
<1> DEFINE n == Len(s)
           R(i) == RingAt(s, i)
           l == s[k]
           nx2 == [nx EXCEPT ![pv[l]] = nx[l]]
           pv2 == [pv EXCEPT ![nx[l]] = pv[l]]
<1> USE DEF Without
<1>1. /\ n \in Nat /\ k \in 1 .. n /\ R(0) = Anchor /\ R(n + 1) = Anchor
      /\ \A i \in 1 .. n : R(i) = s[i] /\ s[i] \in Links
      /\ \A i : R(i) \in Links \union {Anchor}
      /\ \A i, j \in 0 .. n : R(i) = R(j) => i = j
      /\ \A i, j \in 1 .. n + 1 : R(i) = R(j) => i = j
  BY RingPlaces
<1>2. \A i \in 0 .. n : nx[R(i)] = R(i + 1) /\ pv[R(i + 1)] = R(i)
  BY DEF Ringed
<1> HIDE DEF R
<1>3. nx[l] = R(k + 1) /\ pv[l] = R(k - 1)
  <2>1. l = R(k) /\ k \in 0 .. n /\ k - 1 \in 0 .. n /\ (k - 1) + 1 = k
    BY <1>1
  <2>2. nx[R(k)] = R(k + 1) /\ pv[R((k - 1) + 1)] = R(k - 1)
    BY <2>1, <1>2
  <2> QED BY <2>1, <2>2
<1>4. /\ nx2[R(k - 1)] = R(k + 1) /\ pv2[R(k + 1)] = R(k - 1)
      /\ \A i \in 0 .. n : i # k - 1 => nx2[R(i)] = R(i + 1)
      /\ \A i \in 0 .. n : i # k => pv2[R(i + 1)] = R(i)
  <2>1. \A i \in 0 .. n : i + 1 \in 1 .. n + 1 /\ (i # k => i + 1 # k + 1)
    BY <1>1
  <2>2. k - 1 \in 0 .. n /\ k + 1 \in 1 .. n + 1
    BY <1>1
  <2>3. \A i \in 0 .. n : (i # k - 1 => R(i) # R(k - 1)) /\ (i # k => R(i + 1) # R(k + 1))
    BY <1>1, <2>1, <2>2
  <2> HIDE DEF n
  <2> QED BY <1>1, <1>2, <1>3, <2>3 DEF Pointers
<1>5. /\ \A i \in 0 .. k - 1 : RingAt(t, i) = R(i)
      /\ \A i \in k .. n : RingAt(t, i) = R(i + 1)
  <2>1. \A i \in 0 .. k - 1 : \/ i = 0 /\ ~(i \in 1 .. n - 1)
                              \/ i \in 1 .. n - 1 /\ i < k /\ i \in 1 .. n
    BY <1>1
  <2>2. \A i \in k .. n : \/ i = n /\ ~(i \in 1 .. n - 1)
                          \/ i \in 1 .. n - 1 /\ ~(i < k) /\ i + 1 \in 1 .. n
    BY <1>1
  <2>3. Len(t) = n - 1 /\ \A i \in 1 .. n - 1 : t[i] = IF i < k THEN s[i] ELSE s[i + 1]
    OBVIOUS
  <2> HIDE DEF n
  <2> QED BY <1>1, <2>1, <2>2, <2>3 DEF RingAt
<1>6. \A i \in 0 .. n - 1 : /\ nx2[RingAt(t, i)] = RingAt(t, i + 1)
                            /\ pv2[RingAt(t, i + 1)] = RingAt(t, i)
  <2> SUFFICES ASSUME NEW i \in 0 .. n - 1
               PROVE  nx2[RingAt(t, i)] = RingAt(t, i + 1) /\ pv2[RingAt(t, i + 1)] = RingAt(t, i)
    OBVIOUS
  <2> HIDE DEF nx2, pv2, n
  <2>1. CASE i < k - 1
    <3>1. i \in 0 .. k - 1 /\ i + 1 \in 0 .. k - 1 /\ i \in 0 .. n /\ i # k - 1 /\ i # k
      BY <1>1, <2>1
    <3> QED BY <3>1, <1>4, <1>5
  <2>2. CASE i = k - 1
    <3>1. k - 1 \in 0 .. k - 1 /\ k \in k .. n /\ (k - 1) + 1 = k
      BY <1>1
    <3> QED BY <2>2, <3>1, <1>4, <1>5
  <2>3. CASE i > k - 1
    <3>1. i \in k .. n /\ i + 1 \in k .. n /\ i + 1 \in 0 .. n /\ i + 1 # k - 1 /\ i + 1 # k
      BY <1>1, <2>3
    <3> QED BY <3>1, <1>4, <1>5
  <2> QED BY <1>1, <2>1, <2>2, <2>3
<1>7. Once(t)
  <2> DEFINE old(i) == IF i < k THEN i ELSE i + 1
  <2>1. \A i \in 1 .. n - 1 : old(i) \in 1 .. n
    BY <1>1
  <2>2. \A i, j \in 1 .. n - 1 : old(i) = old(j) => i = j
    BY <1>1
  <2>3. \A i \in 1 .. n - 1 : t[i] = s[old(i)]
    OBVIOUS
  <2>4. \A i, j \in 1 .. n : s[i] = s[j] => i = j
    BY DEF Once
  <2>5. Len(t) = n - 1 /\ t \in Seq(Links)
    OBVIOUS
  <2> HIDE DEF old, n
  <2> QED BY <2>1, <2>2, <2>3, <2>4, <2>5 DEF Once
<1>8. Len(t) = n - 1
  OBVIOUS
<1> QED BY <1>6, <1>7, <1>8 DEF Ringed

(* ylistl_replace of the k-th. *)
LEMMA ReplaceKeepsRing ==
    ASSUME ListAssumption, NEW s, Once(s), NEW nx \in Pointers, NEW pv \in Pointers, Ringed(nx, pv, s),
           NEW k, NEW l, NEW t, Exchanged(s, t, k, l)
    PROVE  /\ Once(t)
           /\ Ringed([nx EXCEPT ![l] = nx[s[k]], ![pv[s[k]]] = l],
                     [pv EXCEPT ![l] = pv[s[k]], ![nx[s[k]]] = l], t)
<1> DEFINE n == Len(s)
           R(i) == RingAt(s, i)
           nx2 == [nx EXCEPT ![l] = nx[s[k]], ![pv[s[k]]] = l]
           pv2 == [pv EXCEPT ![l] = pv[s[k]], ![nx[s[k]]] = l]
<1> USE DEF Exchanged
<1>1. /\ n \in Nat /\ k \in 1 .. n /\ R(0) = Anchor /\ R(n + 1) = Anchor
      /\ \A i \in 1 .. n : R(i) = s[i] /\ s[i] \in Links
      /\ \A i : R(i) \in Links \union {Anchor}
      /\ \A i, j \in 0 .. n : R(i) = R(j) => i = j
      /\ \A i, j \in 1 .. n + 1 : R(i) = R(j) => i = j
  BY RingPlaces
<1>2. \A i \in 0 .. n : nx[R(i)] = R(i + 1) /\ pv[R(i + 1)] = R(i)
  BY DEF Ringed
<1>3. \A i : R(i) # l
  BY DEF RingAt, ListAssumption
<1> HIDE DEF R
<1>4. nx[s[k]] = R(k + 1) /\ pv[s[k]] = R(k - 1)
  <2>1. s[k] = R(k) /\ k \in 0 .. n /\ k - 1 \in 0 .. n /\ (k - 1) + 1 = k
    BY <1>1
  <2>2. nx[R(k)] = R(k + 1) /\ pv[R((k - 1) + 1)] = R(k - 1)
    BY <2>1, <1>2
  <2> QED BY <2>1, <2>2
<1>5. /\ nx2[l] = R(k + 1) /\ nx2[R(k - 1)] = l /\ pv2[l] = R(k - 1) /\ pv2[R(k + 1)] = l
      /\ \A i \in 0 .. n : i # k - 1 => nx2[R(i)] = R(i + 1)
      /\ \A i \in 0 .. n : i # k => pv2[R(i + 1)] = R(i)
  <2>1. \A i \in 0 .. n : i + 1 \in 1 .. n + 1 /\ (i # k => i + 1 # k + 1)
    BY <1>1
  <2>2. k - 1 \in 0 .. n /\ k + 1 \in 1 .. n + 1
    BY <1>1
  <2>3. \A i \in 0 .. n : (i # k - 1 => R(i) # R(k - 1)) /\ (i # k => R(i + 1) # R(k + 1))
    BY <1>1, <2>1, <2>2
  <2> HIDE DEF n
  <2> QED BY <1>1, <1>2, <1>3, <1>4, <2>3 DEF Pointers
<1>6. \A i \in 0 .. n + 1 : RingAt(t, i) = IF i = k THEN l ELSE R(i)
  <2>1. \A i \in 0 .. n + 1 : (i \in 1 .. n) \/ ((i = 0 \/ i = n + 1) /\ ~(i \in 1 .. n) /\ i # k)
    BY <1>1
  <2>2. Len(t) = n /\ \A i \in 1 .. n : t[i] = IF i = k THEN l ELSE s[i]
    OBVIOUS
  <2> HIDE DEF n
  <2> QED BY <1>1, <2>1, <2>2 DEF RingAt
<1>7. \A i \in 0 .. n : /\ nx2[RingAt(t, i)] = RingAt(t, i + 1)
                        /\ pv2[RingAt(t, i + 1)] = RingAt(t, i)
  <2> SUFFICES ASSUME NEW i \in 0 .. n
               PROVE  nx2[RingAt(t, i)] = RingAt(t, i + 1) /\ pv2[RingAt(t, i + 1)] = RingAt(t, i)
    OBVIOUS
  <2>1. i \in 0 .. n + 1 /\ i + 1 \in 0 .. n + 1 /\ k \in 0 .. n
        /\ (i = k - 1 => i # k /\ i + 1 = k) /\ (i = k => i + 1 # k)
        /\ (i # k - 1 => i + 1 # k) /\ i \in 0 .. n
    BY <1>1
  <2> HIDE DEF nx2, pv2, n
  <2>2. CASE i = k - 1
    BY <2>1, <2>2, <1>5, <1>6
  <2>3. CASE i = k
    BY <2>1, <2>3, <1>5, <1>6
  <2>4. CASE i # k - 1 /\ i # k
    BY <2>1, <2>4, <1>5, <1>6
  <2> QED BY <2>2, <2>3, <2>4
<1>8. Once(t)
  BY DEF Once
<1>9. Len(t) = n
  OBVIOUS
<1> QED BY <1>7, <1>8, <1>9 DEF Ringed

(* An iterator keeps its items when one is added behind it, and may have    *)
(* one more when it is added at the far end.                                *)
LEMMA AddedBehind ==
    ASSUME NEW s \in Seq(Links), NEW t \in Seq(Links), Len(t) = Len(s) + 1, NEW c, NEW todo,
           \A i \in 1 .. Len(s) : Toward(t, c.fwd, i + 1) = Toward(s, c.fwd, i),
           Iterates(c, todo), Ahead(s, c.fwd, todo)
    PROVE  Ahead(t, c.fwd, todo)
<1> DEFINE n == Len(s)
           m == Len(todo)
<1>1. n \in Nat /\ m \in Nat /\ m <= n /\ \A j \in 1 .. m : todo[j] = Toward(s, c.fwd, n - m + j)
  BY DEF Iterates, Ahead
<1> HIDE DEF n, m
<1>2. \A j \in 1 .. m : n - m + j \in 1 .. n /\ (n - m + j) + 1 = n + 1 - m + j
  BY <1>1
<1>3. \A j \in 1 .. m : Toward(t, c.fwd, n + 1 - m + j) = Toward(s, c.fwd, n - m + j)
  <2> TAKE j \in 1 .. m
  <2>1. Toward(t, c.fwd, (n - m + j) + 1) = Toward(s, c.fwd, n - m + j)
    BY <1>2 DEF n
  <2> QED BY <2>1, <1>2
<1>4. m <= n + 1 /\ Len(t) = n + 1
  BY <1>1 DEF n
<1> QED BY <1>1, <1>3, <1>4 DEF Ahead, m

(* An item added at the far end comes last.                                 *)
LEMMA AddedAhead ==
    ASSUME NEW s \in Seq(Links), NEW t \in Seq(Links), Len(t) = Len(s) + 1, NEW c, NEW todo,
           NEW l \in Links,
           \A i \in 1 .. Len(s) : Toward(t, c.fwd, i) = Toward(s, c.fwd, i),
           Toward(t, c.fwd, Len(s) + 1) = l,
           \A i \in 1 .. Len(c.seen) : c.seen[i] # l,
           Iterates(c, todo), Ahead(s, c.fwd, todo)
    PROVE  \E u : Iterates(c, u) /\ Ahead(t, c.fwd, u)
<1> DEFINE n == Len(s)
           m == Len(todo)
           u == Append(todo, l)
<1>1. /\ n \in Nat /\ m \in Nat /\ m <= n /\ todo \in Seq(Links)
      /\ \A j \in 1 .. m : todo[j] = Toward(s, c.fwd, n - m + j)
  BY DEF Iterates, Ahead
<1>2. CASE todo = <<>>
  <2>1. m = 0 /\ 1 .. 0 = {} /\ 0 <= n + 1
    BY <1>1, <1>2
  <2>2. Ahead(t, c.fwd, todo)
    BY <2>1, <1>1 DEF Ahead
  <2> QED BY <2>2
<1>3. CASE todo # <<>>
  <2>1. /\ u \in Seq(Links) /\ Len(u) = m + 1 /\ u[m + 1] = l /\ u # <<>> /\ m # 0 /\ 1 \in 1 .. m
        /\ \A j \in 1 .. m : u[j] = todo[j]
    BY <1>1, <1>3
  <2> HIDE DEF u, m, n
  <2>2. \A j \in 1 .. m : n - m + j \in 1 .. n /\ (n + 1) - (m + 1) + j = n - m + j
    BY <1>1
  <2>3. \A j \in 1 .. m : u[j] = Toward(t, c.fwd, (n + 1) - (m + 1) + j)
    BY <2>1, <2>2, <1>1 DEF n
  <2>4. u[m + 1] = Toward(t, c.fwd, (n + 1) - (m + 1) + (m + 1))
    <3>1. (n + 1) - (m + 1) + (m + 1) = n + 1
      BY <1>1
    <3> QED BY <3>1, <2>1 DEF n
  <2>5. Ahead(t, c.fwd, u)
    <3>1. \A j \in 1 .. m + 1 : j = m + 1 \/ j \in 1 .. m
      BY <1>1
    <3>2. m + 1 <= n + 1 /\ Len(t) = n + 1
      BY <1>1 DEF n
    <3>3. \A j \in 1 .. m + 1 : u[j] = Toward(t, c.fwd, (n + 1) - (m + 1) + j)
      BY <2>3, <2>4, <3>1
    <3>4. Len(u) = m + 1
      BY <2>1
    <3> QED BY <3>2, <3>3, <3>4 DEF Ahead
  <2>6. Iterates(c, u)
    <3>1. /\ c \in [fwd : BOOLEAN, lcurr : Links \union {Anchor}, lnext : Links \union {Anchor},
                    seen : Seq(Links), expected : Seq(Links)]
          /\ c # NoCursor
          /\ c.lnext = todo[1]
          /\ c.lcurr = Anchor \/ \E i \in 1 .. Len(c.seen) : c.seen[i] = c.lcurr
      BY <1>3 DEF Iterates
    <3>2. c.lnext = IF u = <<>> THEN Anchor ELSE u[1]
      BY <3>1, <2>1
    <3>3. \A j \in 1 .. m + 1, i \in 1 .. Len(c.seen) : u[j] # c.seen[i]
      <4>1. \A j \in 1 .. m + 1 : j = m + 1 \/ j \in 1 .. m
        BY <1>1
      <4>2. \A j \in 1 .. m, i \in 1 .. Len(c.seen) : todo[j] # c.seen[i]
        BY DEF Iterates, m
      <4> QED BY <4>1, <4>2, <2>1
    <3>4. ASSUME NEW i \in 1 .. Len(c.expected), i > Len(c.seen)
          PROVE  i - Len(c.seen) <= m + 1 /\ u[i - Len(c.seen)] = c.expected[i]
      <4>1. i - Len(c.seen) <= m /\ todo[i - Len(c.seen)] = c.expected[i]
        BY <3>4 DEF Iterates, m
      <4>2. i - Len(c.seen) \in 1 .. m /\ i - Len(c.seen) <= m + 1
        <5>1. Len(c.seen) \in Nat
          BY <3>1
        <5>2. i \in Nat /\ i > Len(c.seen)
          BY <3>4, <3>1
        <5>3. i - Len(c.seen) <= m
          BY <4>1
        <5>4. \A h, g \in Nat : h > g /\ h - g <= m => h - g \in 1 .. m /\ h - g <= m + 1
          BY <1>1
        <5> QED BY <5>1, <5>2, <5>3, <5>4
      <4> QED BY <4>1, <4>2, <2>1
    <3>5. \A i \in 1 .. Len(c.expected) : i <= Len(c.seen) => c.seen[i] = c.expected[i]
      BY DEF Iterates
    <3> QED BY <3>1, <3>2, <3>3, <3>4, <3>5, <2>1 DEF Iterates
  <2> QED BY <2>5, <2>6
<1> QED BY <1>2, <1>3

(* A new item was not handed out. *)
LEMMA NewIsUnseen ==
    ASSUME NEW l, New(l), NEW todo, Iterates(cursor, todo)
    PROVE  \A i \in 1 .. Len(cursor.seen) : cursor.seen[i] # l
<1> DEFINE e == cursor.expected
           d == cursor.seen
<1>1. e \in Seq(Links) /\ d \in Seq(Links) /\ l \notin ToSet(e \o d)
  BY DEF Iterates, New
<1> HIDE DEF e, d
<1>2. \A i \in 1 .. Len(d) : Len(e) + i \in DOMAIN (e \o d) /\ (e \o d)[Len(e) + i] = d[i]
  BY <1>1
<1>3. \A i \in 1 .. Len(d) : d[i] # l
  BY <1>1, <1>2 DEF ToSet
<1> QED BY <1>3 DEF d

(* An item may come at either end, in either direction of the iterator. *)
LEMMA AddFirstKeeps ==
    ASSUME ListAssumption, ListInv, NEW l \in Links, AddFirst(l)
    PROVE  ListInv'
<1> DEFINE s == items
           t == <<l>> \o items
           n == Len(items)
<1>1. /\ New(l) /\ Link(Anchor, next[Anchor], l) /\ items' = t /\ sz' = sz + 1 /\ cursor' = cursor
  BY DEF AddFirst
<1>2. /\ next \in Pointers /\ prev \in Pointers /\ Once(s) /\ sz = n /\ Ringed(next, prev, s)
      /\ n \in Nat /\ s \in Seq(Links)
  BY DEF ListInv, Once
<1>3. /\ t \in Seq(Links) /\ Len(t) = n + 1 /\ t[1] = l
      /\ \A i \in 1 .. n : t[i + 1] = s[i]
  BY <1>2
<1>4. \A i \in 1 .. n : s[i] # l
  BY <1>1, <1>2 DEF New, InList, ToSet
<1>5. next[Anchor] = RingAt(s, 0 + 1) /\ RingAt(s, 0) = Anchor /\ 0 \in 0 .. n
  BY <1>2, RingPlaces DEF Ringed
<1> HIDE DEF t
<1>6. /\ Once(t)
      /\ Ringed([next EXCEPT ![Anchor] = l, ![l] = next[Anchor]],
                [prev EXCEPT ![next[Anchor]] = l, ![l] = Anchor], t)
  <2>1. With(s, t, 0, l)
    BY <1>2, <1>3, <1>4, <1>5 DEF With
  <2> QED BY <2>1, <1>2, <1>5, LinkKeepsRing
<1>7. Ringed(next', prev', t)
  BY <1>1, <1>6 DEF Link
<1>8. next' \in Pointers /\ prev' \in Pointers
  BY <1>1, <1>2 DEF Link, Pointers
<1>9. cursor = NoCursor \/ \E todo : Iterates(cursor, todo) /\ Ahead(t, cursor.fwd, todo)
  <2> SUFFICES ASSUME cursor # NoCursor
               PROVE  \E todo : Iterates(cursor, todo) /\ Ahead(t, cursor.fwd, todo)
    OBVIOUS
  <2>1. PICK todo : Iterates(cursor, todo) /\ Ahead(s, cursor.fwd, todo)
    BY DEF ListInv
  <2>2. cursor.fwd \in BOOLEAN
    BY <2>1 DEF Iterates
  <2>3. CASE cursor.fwd = TRUE
    <3>1. \A i \in 1 .. n : Toward(t, cursor.fwd, i + 1) = Toward(s, cursor.fwd, i)
      BY <2>3, <1>3 DEF Toward
    <3> QED BY <3>1, <2>1, <1>2, <1>3, AddedBehind
  <2>4. CASE cursor.fwd = FALSE
    <3>1. ASSUME NEW i \in 1 .. n
          PROVE  Toward(t, cursor.fwd, i) = Toward(s, cursor.fwd, i)
      <4>1. n + 1 - i \in 1 .. n /\ n + 1 + 1 - i = (n + 1 - i) + 1
        BY <1>2
      <4>2. t[(n + 1 - i) + 1] = s[n + 1 - i]
        BY <4>1, <1>3
      <4> QED BY <4>1, <4>2, <2>4, <1>3 DEF Toward
    <3>2. Toward(t, cursor.fwd, n + 1) = l
      <4>1. n + 1 + 1 - (n + 1) = 1
        BY <1>2
      <4> QED BY <4>1, <2>4, <1>3 DEF Toward
    <3>3. \A i \in 1 .. Len(cursor.seen) : cursor.seen[i] # l
      BY <1>1, <2>1, NewIsUnseen
    <3> QED BY <3>1, <3>2, <3>3, <2>1, <1>2, <1>3, AddedAhead
  <2> QED BY <2>2, <2>3, <2>4
<1>10. sz' = Len(t)
  BY <1>1, <1>2, <1>3
<1>11. cursor' = NoCursor \/ \E todo : Iterates(cursor', todo) /\ Ahead(t, cursor'.fwd, todo)
  BY <1>1, <1>9
<1> QED BY <1>1, <1>6, <1>7, <1>8, <1>10, <1>11 DEF ListInv

(* The same at the other end.                                               *)
LEMMA AddLastKeeps ==
    ASSUME ListAssumption, ListInv, NEW l \in Links, AddLast(l)
    PROVE  ListInv'
<1> DEFINE s == items
           t == Append(items, l)
           n == Len(items)
<1>1. /\ New(l) /\ Link(prev[Anchor], Anchor, l) /\ items' = t /\ sz' = sz + 1 /\ cursor' = cursor
  BY DEF AddLast
<1>2. /\ next \in Pointers /\ prev \in Pointers /\ Once(s) /\ sz = n /\ Ringed(next, prev, s)
      /\ n \in Nat /\ s \in Seq(Links)
  BY DEF ListInv, Once
<1>3. /\ t \in Seq(Links) /\ Len(t) = n + 1 /\ t[n + 1] = l
      /\ \A i \in 1 .. n : t[i] = s[i]
  BY <1>2
<1>4. \A i \in 1 .. n : s[i] # l
  BY <1>1, <1>2 DEF New, InList, ToSet
<1>5. prev[Anchor] = RingAt(s, n) /\ RingAt(s, n + 1) = Anchor /\ n \in 0 .. n
  BY <1>2, RingPlaces DEF Ringed
<1> HIDE DEF t
<1>6. /\ Once(t)
      /\ Ringed([next EXCEPT ![prev[Anchor]] = l, ![l] = Anchor],
                [prev EXCEPT ![Anchor] = l, ![l] = prev[Anchor]], t)
  <2>1. n + 1 .. n = {}
    BY <1>2
  <2>2. With(s, t, n, l)
    BY <2>1, <1>2, <1>3, <1>4, <1>5 DEF With
  <2> QED BY <2>2, <1>2, <1>5, LinkKeepsRing
<1>7. Ringed(next', prev', t)
  BY <1>1, <1>6 DEF Link
<1>8. next' \in Pointers /\ prev' \in Pointers
  BY <1>1, <1>2 DEF Link, Pointers
<1>9. cursor = NoCursor \/ \E todo : Iterates(cursor, todo) /\ Ahead(t, cursor.fwd, todo)
  <2> SUFFICES ASSUME cursor # NoCursor
               PROVE  \E todo : Iterates(cursor, todo) /\ Ahead(t, cursor.fwd, todo)
    OBVIOUS
  <2>1. PICK todo : Iterates(cursor, todo) /\ Ahead(s, cursor.fwd, todo)
    BY DEF ListInv
  <2>2. cursor.fwd \in BOOLEAN
    BY <2>1 DEF Iterates
  <2>3. CASE cursor.fwd = FALSE
    <3>1. ASSUME NEW i \in 1 .. n
          PROVE  Toward(t, cursor.fwd, i + 1) = Toward(s, cursor.fwd, i)
      <4>1. n + 1 - i \in 1 .. n /\ n + 1 + 1 - (i + 1) = n + 1 - i
        BY <1>2
      <4> QED BY <4>1, <2>3, <1>3 DEF Toward
    <3> QED BY <3>1, <2>1, <1>2, <1>3, AddedBehind
  <2>4. CASE cursor.fwd = TRUE
    <3>1. \A i \in 1 .. n : Toward(t, cursor.fwd, i) = Toward(s, cursor.fwd, i)
      BY <2>4, <1>3 DEF Toward
    <3>2. Toward(t, cursor.fwd, n + 1) = l
      BY <2>4, <1>3 DEF Toward
    <3>3. \A i \in 1 .. Len(cursor.seen) : cursor.seen[i] # l
      BY <1>1, <2>1, NewIsUnseen
    <3> QED BY <3>1, <3>2, <3>3, <2>1, <1>2, <1>3, AddedAhead
  <2> QED BY <2>2, <2>3, <2>4
<1>10. sz' = Len(t)
  BY <1>1, <1>2, <1>3
<1>11. cursor' = NoCursor \/ \E todo : Iterates(cursor', todo) /\ Ahead(t, cursor'.fwd, todo)
  BY <1>1, <1>9
<1> QED BY <1>1, <1>6, <1>7, <1>8, <1>10, <1>11 DEF ListInv

(* An item taken out where it is. *)
LEMMA UnlinkKeeps ==
    ASSUME ListAssumption, ListInv, NEW k \in 1 .. Len(items), Unlink(items[k]),
           items' = RemoveFirst(items, items[k]), sz' = sz - 1
    PROVE  /\ next' \in Pointers /\ prev' \in Pointers
           /\ Once(items') /\ sz' = Len(items')
           /\ Ringed(next', prev', items')
           /\ Without(items, items', k)
<1> DEFINE t == RemoveFirst(items, items[k])
<1>1. /\ next \in Pointers /\ prev \in Pointers /\ Once(items) /\ sz = Len(items)
      /\ Ringed(next, prev, items) /\ items \in Seq(Links)
      /\ \A i, j \in 1 .. Len(items) : items[i] = items[j] => i = j
  BY DEF ListInv, Once
<1>2. Without(items, t, k)
  BY <1>1, RemoveFirstEffect DEF Without
<1> HIDE DEF t
<1>3. Once(t) /\ Ringed([next EXCEPT ![prev[items[k]]] = next[items[k]]],
                        [prev EXCEPT ![next[items[k]]] = prev[items[k]]], t)
  BY <1>1, <1>2, UnlinkKeepsRing
<1>4. items[k] \in Links
  BY <1>1
<1>5. /\ next' = [next EXCEPT ![prev[items[k]]] = next[items[k]]]
      /\ prev' = [prev EXCEPT ![next[items[k]]] = prev[items[k]]]
  BY DEF Unlink
<1>6. next' \in Pointers /\ prev' \in Pointers
  BY <1>1, <1>4, <1>5 DEF Pointers
<1>7. Len(t) = Len(items) - 1
  BY <1>2 DEF Without
<1>8. items' = t
  BY DEF t
<1> QED BY <1>1, <1>2, <1>3, <1>5, <1>6, <1>7, <1>8

(* ylist_remove_first, ylist_remove_last and ylistl_remove2. *)
LEMMA RemoveItemKeeps ==
    ASSUME ListAssumption, ListInv, NEW l, RemoveItem(l),
           l = next[Anchor] \/ l = prev[Anchor] \/ InList(l)
    PROVE  ListInv'
<1> DEFINE n == Len(items)
<1>1. /\ Once(items) /\ sz = n /\ Ringed(next, prev, items) /\ n \in Nat /\ items \in Seq(Links)
      /\ sz > 0 /\ cursor = NoCursor /\ cursor' = cursor
      /\ Unlink(l) /\ items' = RemoveFirst(items, l) /\ sz' = sz - 1
  BY DEF ListInv, Once, RemoveItem
<1>2. /\ RingAt(items, 0) = Anchor /\ RingAt(items, n + 1) = Anchor
      /\ \A i \in 1 .. n : RingAt(items, i) = items[i]
      /\ next[RingAt(items, 0)] = RingAt(items, 0 + 1)
      /\ prev[RingAt(items, n + 1)] = RingAt(items, n)
  BY <1>1, RingPlaces DEF Ringed
<1>3. 1 \in 1 .. n /\ n \in 1 .. n
  BY <1>1
<1>4. next[Anchor] = items[1] /\ prev[Anchor] = items[n]
  BY <1>2, <1>3
<1>5. InList(l) => \E i \in 1 .. n : items[i] = l
  BY <1>1 DEF InList, ToSet
<1>6. PICK k \in 1 .. n : items[k] = l
  BY <1>3, <1>4, <1>5
<1>7. /\ next' \in Pointers /\ prev' \in Pointers
      /\ Once(items') /\ sz' = Len(items')
      /\ Ringed(next', prev', items')
  BY <1>1, <1>6, UnlinkKeeps
<1> QED BY <1>1, <1>7 DEF ListInv

(* ylist_remove_current: what the iterator handed out is behind what it     *)
(* still has to hand out.                                                   *)
LEMMA RemoveCurrentKeeps ==
    ASSUME ListAssumption, ListInv, RemoveCurrent
    PROVE  ListInv'
<1> DEFINE n == Len(items)
           l == cursor.lcurr
<1>1. /\ cursor # NoCursor /\ cursor' = cursor /\ InList(l)
      /\ Unlink(l) /\ items' = RemoveFirst(items, l) /\ sz' = sz - 1
  BY DEF RemoveCurrent
<1>2. items \in Seq(Links) /\ n \in Nat
  BY DEF ListInv, Once
<1>3. PICK k \in 1 .. n : items[k] = l
  BY <1>1, <1>2 DEF InList, ToSet
<1>4. /\ next' \in Pointers /\ prev' \in Pointers
      /\ Once(items') /\ sz' = Len(items')
      /\ Ringed(next', prev', items') /\ Without(items, items', k)
  BY <1>1, <1>3, UnlinkKeeps
<1>5. PICK todo : Iterates(cursor, todo) /\ Ahead(items, cursor.fwd, todo)
  BY <1>1 DEF ListInv
<1> DEFINE m == Len(todo)
<1>6. /\ m \in Nat /\ m <= n
      /\ \A j \in 1 .. m : todo[j] = Toward(items, cursor.fwd, n - m + j)
      /\ cursor.fwd \in BOOLEAN
  BY <1>5 DEF Iterates, Ahead
<1>7. \A j \in 1 .. m : todo[j] # items[k]
  <2>1. l # Anchor
    BY <1>2, <1>3 DEF ListAssumption
  <2>2. PICK i \in 1 .. Len(cursor.seen) : cursor.seen[i] = l
    BY <1>5, <2>1 DEF Iterates
  <2> QED BY <1>3, <1>5, <2>2 DEF Iterates
<1>8. /\ Len(items') = n - 1
      /\ \A i \in 1 .. n - 1 : items'[i] = IF i < k THEN items[i] ELSE items[i + 1]
  BY <1>4 DEF Without
<1> HIDE DEF n, m, l
<1>9. ASSUME cursor.fwd = TRUE PROVE Ahead(items', cursor.fwd, todo)
  <2>1. \A j \in 1 .. m : todo[j] = items[n - m + j] /\ n - m + j # k
    BY <1>6, <1>7, <1>9 DEF Toward
  <2>2. k <= n - m
    <3> SUFFICES ASSUME k > n - m PROVE FALSE
      BY <1>2, <1>6
    <3>1. k - (n - m) \in 1 .. m /\ n - m + (k - (n - m)) = k
      BY <1>2, <1>6
    <3> QED BY <2>1, <3>1
  <2>3. m <= n - 1
    BY <2>2, <1>2, <1>6
  <2>4. \A j \in 1 .. m : /\ n - 1 - m + j \in 1 .. n - 1 /\ ~(n - 1 - m + j < k)
                          /\ (n - 1 - m + j) + 1 = n - m + j
    BY <2>2, <2>3, <1>2, <1>6
  <2>5. \A j \in 1 .. m : todo[j] = items'[n - 1 - m + j]
    BY <2>1, <2>4, <1>8
  <2>6. \A j \in 1 .. m : todo[j] = Toward(items', cursor.fwd, n - 1 - m + j)
    BY <2>5, <1>9 DEF Toward
  <2> QED BY <2>3, <2>6, <1>8 DEF Ahead, m
<1>10. ASSUME cursor.fwd = FALSE PROVE Ahead(items', cursor.fwd, todo)
  <2>1. \A j \in 1 .. m : n + 1 - (n - m + j) = m + 1 - j
    BY <1>2, <1>6
  <2>2. \A j \in 1 .. m : todo[j] = items[m + 1 - j] /\ m + 1 - j # k
    BY <2>1, <1>6, <1>7, <1>10 DEF Toward, n
  <2>3. k > m
    <3> SUFFICES ASSUME k <= m PROVE FALSE
      BY <1>2, <1>6
    <3>1. m + 1 - k \in 1 .. m /\ m + 1 - (m + 1 - k) = k
      BY <1>2, <1>6
    <3> QED BY <2>2, <3>1
  <2>4. m <= n - 1
    BY <2>3, <1>2, <1>6
  <2>5. \A j \in 1 .. m : /\ m + 1 - j \in 1 .. n - 1 /\ m + 1 - j < k
                          /\ n - 1 + 1 - (n - 1 - m + j) = m + 1 - j
    BY <2>3, <2>4, <1>2, <1>6
  <2>6. \A j \in 1 .. m : todo[j] = items'[m + 1 - j]
    BY <2>2, <2>5, <1>8
  <2>7. \A j \in 1 .. m : todo[j] = Toward(items', cursor.fwd, n - 1 - m + j)
    BY <2>5, <2>6, <1>8, <1>10 DEF Toward
  <2> QED BY <2>4, <2>7, <1>8 DEF Ahead, m
<1>11. Ahead(items', cursor.fwd, todo)
  BY <1>6, <1>9, <1>10
<1>12. Iterates(cursor', todo) /\ Ahead(items', cursor'.fwd, todo)
  BY <1>1, <1>5, <1>11
<1> QED BY <1>4, <1>12 DEF ListInv

(* ylistl_replace *)
LEMMA ReplaceKeeps ==
    ASSUME ListAssumption, ListInv, NEW old \in Links, NEW new \in Links, Replace(old, new)
    PROVE  ListInv'
<1> DEFINE n == Len(items)
           t == [i \in DOMAIN items |-> IF items[i] = old THEN new ELSE items[i]]
<1>1. /\ Once(items) /\ sz = n /\ Ringed(next, prev, items) /\ n \in Nat /\ items \in Seq(Links)
      /\ next \in Pointers /\ prev \in Pointers
      /\ \A i, j \in 1 .. n : items[i] = items[j] => i = j
  BY DEF ListInv, Once
<1>2. /\ cursor = NoCursor /\ cursor' = cursor /\ sz' = sz
      /\ InList(old) /\ ~InList(new)
      /\ next' = [next EXCEPT ![new] = next[old], ![prev[old]] = new]
      /\ prev' = [prev EXCEPT ![new] = prev[old], ![next[old]] = new]
      /\ items' = t
  BY DEF Replace
<1>3. PICK k \in 1 .. n : items[k] = old
  BY <1>1, <1>2 DEF InList, ToSet
<1>4. \A i \in 1 .. n : items[i] # new
  BY <1>1, <1>2 DEF InList, ToSet
<1>5. Exchanged(items, t, k, new)
  <2>1. t = [i \in 1 .. n |-> IF items[i] = old THEN new ELSE items[i]]
    BY <1>1
  <2>2. t \in Seq(Links) /\ Len(t) = n
    BY <2>1, <1>1
  <2>3. \A i \in 1 .. n : t[i] = IF i = k THEN new ELSE items[i]
    BY <2>1, <1>1, <1>3
  <2> HIDE DEF t
  <2> QED BY <2>2, <2>3, <1>4 DEF Exchanged
<1> HIDE DEF t
<1>6. Once(t) /\ Ringed(next', prev', t)
  BY <1>1, <1>2, <1>3, <1>5, ReplaceKeepsRing
<1>7. next' \in Pointers /\ prev' \in Pointers
  BY <1>1, <1>2 DEF Pointers
<1>8. Len(t) = n
  BY <1>5 DEF Exchanged
<1> QED BY <1>1, <1>2, <1>6, <1>7, <1>8 DEF ListInv

(* ylisti_create: everything is still ahead. *)
LEMMA CreateCursorKeeps ==
    ASSUME ListAssumption, ListInv, NEW fwd \in BOOLEAN, CreateCursor(fwd)
    PROVE  ListInv'
<1> DEFINE n == Len(items)
           todo == IF fwd THEN items ELSE Reverse(items)
           first == IF fwd THEN next[Anchor] ELSE prev[Anchor]
           c == [fwd |-> fwd, lcurr |-> Anchor, lnext |-> first, seen |-> <<>>, expected |-> todo]
<1>1. /\ Once(items) /\ sz = n /\ Ringed(next, prev, items) /\ n \in Nat /\ items \in Seq(Links)
      /\ next \in Pointers /\ prev \in Pointers
  BY DEF ListInv, Once
<1>2. cursor' = c /\ next' = next /\ prev' = prev /\ sz' = sz /\ items' = items
  BY DEF CreateCursor
<1>3. /\ todo \in Seq(Links) /\ Len(todo) = n
      /\ \A j \in 1 .. n : todo[j] = Toward(items, fwd, j)
  <2>1. CASE fwd = TRUE
    BY <2>1, <1>1 DEF Toward
  <2>2. CASE fwd = FALSE
    <3>1. todo = [i \in 1 .. n |-> items[(n - i) + 1]]
      BY <2>2 DEF Reverse
    <3>2. \A i \in 1 .. n : (n - i) + 1 \in 1 .. n /\ (n - i) + 1 = n + 1 - i
      BY <1>1
    <3>3. todo \in Seq(Links) /\ Len(todo) = n
      BY <3>1, <3>2, <1>1
    <3>4. \A j \in 1 .. n : todo[j] = items[n + 1 - j]
      BY <3>1, <3>2
    <3> QED BY <3>3, <3>4, <2>2 DEF Toward
  <2> QED BY <2>1, <2>2
<1>4. first = IF n = 0 THEN Anchor ELSE Toward(items, fwd, 1)
  <2>1. /\ RingAt(items, 0) = Anchor /\ RingAt(items, n + 1) = Anchor
        /\ \A i \in 1 .. n : RingAt(items, i) = items[i]
        /\ next[RingAt(items, 0)] = RingAt(items, 0 + 1)
        /\ prev[RingAt(items, n + 1)] = RingAt(items, n)
    BY <1>1, RingPlaces DEF Ringed
  <2>2. next[Anchor] = RingAt(items, 1) /\ prev[Anchor] = RingAt(items, n)
    BY <2>1
  <2>3. CASE n = 0
    BY <2>1, <2>2, <2>3
  <2>4. CASE n # 0
    <3>1. 1 \in 1 .. n /\ n \in 1 .. n /\ n + 1 - 1 = n
      BY <2>4, <1>1
    <3>2. next[Anchor] = items[1] /\ prev[Anchor] = items[n]
      BY <3>1, <2>1, <2>2
    <3> QED BY <3>1, <3>2, <2>4 DEF Toward
  <2> QED BY <2>3, <2>4
<1>5. first \in Links \union {Anchor}
  BY <1>1 DEF Pointers
<1> HIDE DEF todo, first
<1>6. /\ c \in [fwd : BOOLEAN, lcurr : Links \union {Anchor}, lnext : Links \union {Anchor},
                seen : Seq(Links), expected : Seq(Links)]
      /\ c # NoCursor
  <2>1. <<>> \in Seq(Links)
    OBVIOUS
  <2>2. c \in [fwd : BOOLEAN, lcurr : Links \union {Anchor}, lnext : Links \union {Anchor},
               seen : Seq(Links), expected : Seq(Links)]
    BY <1>3, <1>5, <2>1
  <2>3. "fwd" \in DOMAIN c /\ "fwd" \notin DOMAIN NoCursor
    BY DEF NoCursor
  <2> QED BY <2>2, <2>3
<1>7. first = IF todo = <<>> THEN Anchor ELSE todo[1]
  <2>1. n # 0 => 1 \in 1 .. n
    BY <1>1
  <2>2. todo = <<>> <=> n = 0
    BY <1>1, <1>3
  <2> QED BY <2>1, <2>2, <1>3, <1>4
<1>8. Iterates(c, todo)
  <2>1. Len(<<>>) = 0 /\ 1 .. 0 = {} /\ c.seen = <<>> /\ c.lcurr = Anchor /\ c.lnext = first
        /\ c.expected = todo
    OBVIOUS
  <2>2. ASSUME NEW i \in 1 .. Len(c.expected)
        PROVE  /\ i <= Len(c.seen) => c.seen[i] = c.expected[i]
               /\ i > Len(c.seen) => /\ i - Len(c.seen) <= Len(todo)
                                     /\ todo[i - Len(c.seen)] = c.expected[i]
    <3>1. i \in 1 .. n /\ i - 0 = i /\ ~(i <= 0) /\ i <= n
      BY <1>1, <1>3
    <3> QED BY <3>1, <2>1, <1>3
  <2> HIDE DEF c
  <2> QED BY <2>1, <2>2, <1>3, <1>6, <1>7 DEF Iterates
<1>9. Ahead(items, fwd, todo)
  <2>1. \A j \in 1 .. n : n - n + j = j
    BY <1>1
  <2>2. \A j \in 1 .. n : todo[j] = Toward(items, fwd, n - n + j)
    BY <2>1, <1>3
  <2>3. n <= n
    BY <1>1
  <2> QED BY <2>2, <2>3, <1>3 DEF Ahead
<1>10. Ahead(items, c.fwd, todo)
  BY <1>9
<1> HIDE DEF c
<1> QED BY <1>1, <1>2, <1>8, <1>10 DEF ListInv

(* inext_forward, inext_backward: the neighbour of the link handed out is   *)
(* the one to hand out next.                                                *)
LEMMA StepKeeps ==
    ASSUME ListAssumption, ListInv, Step
    PROVE  ListInv'
<1> DEFINE n == Len(items)
           l == cursor.lnext
           c == [cursor EXCEPT !.lcurr = l, !.lnext = Neighbour(l), !.seen = Append(@, l)]
<1>1. /\ cursor # NoCursor /\ l # Anchor /\ cursor' = c
      /\ next' = next /\ prev' = prev /\ sz' = sz /\ items' = items
  BY DEF Step
<1>2. /\ Once(items) /\ Ringed(next, prev, items) /\ n \in Nat /\ items \in Seq(Links)
      /\ next \in Pointers /\ prev \in Pointers
      /\ \A i, j \in 1 .. n : items[i] = items[j] => i = j
  BY DEF ListInv, Once
<1>3. PICK todo : Iterates(cursor, todo) /\ Ahead(items, cursor.fwd, todo)
  BY <1>1 DEF ListInv
<1> DEFINE m == Len(todo)
           d == Len(cursor.seen)
           later == Tail(todo)
<1>4. /\ m \in Nat /\ m <= n /\ todo \in Seq(Links) /\ todo # <<>> /\ l = todo[1]
      /\ \A j \in 1 .. m : todo[j] = Toward(items, cursor.fwd, n - m + j)
      /\ cursor.fwd \in BOOLEAN /\ cursor.seen \in Seq(Links) /\ cursor.expected \in Seq(Links)
      /\ cursor.lnext \in Links \union {Anchor} /\ d \in Nat
  BY <1>1, <1>3 DEF Iterates, Ahead
<1>5. /\ m # 0 /\ 1 \in 1 .. m /\ l \in Links
      /\ later \in Seq(Links) /\ Len(later) = m - 1
      /\ \A j \in 1 .. m - 1 : later[j] = todo[j + 1]
      /\ m = 1 => later = <<>>
      /\ m # 1 => later # <<>> /\ 1 \in 1 .. m - 1 /\ 2 \in 1 .. m
  <2>1. /\ m # 0 /\ later \in Seq(Links) /\ Len(later) = m - 1
        /\ \A j \in 1 .. m - 1 : later[j] = todo[j + 1]
    BY <1>4
  <2>2. m = 1 => later = <<>>
    <3>1. m = 1 => Len(later) = 0
      BY <2>1
    <3> QED BY <3>1, <2>1, EmptySeq
  <2> HIDE DEF later
  <2>3. m # 1 => m - 1 # 0 /\ 1 \in 1 .. m - 1 /\ 2 \in 1 .. m
    BY <1>4, <2>1
  <2>4. m # 1 => later # <<>>
    BY <2>1, <2>3
  <2>5. 1 \in 1 .. m /\ l \in Links
    BY <1>4, <2>1
  <2> QED BY <2>1, <2>2, <2>3, <2>4, <2>5
<1> DEFINE at(j) == IF cursor.fwd THEN n - m + j ELSE m + 1 - j
<1>6. \A j \in 1 .. m : at(j) \in 1 .. n /\ todo[j] = items[at(j)]
  <2>1. \A j \in 1 .. m : n - m + j \in 1 .. n /\ m + 1 - j \in 1 .. n
                          /\ n + 1 - (n - m + j) = m + 1 - j
    BY <1>2, <1>4
  <2> HIDE DEF m
  <2> QED BY <2>1, <1>4 DEF Toward
<1>7. \A i, j \in 1 .. m : todo[i] = todo[j] => i = j
  <2>1. \A i, j \in 1 .. m : at(i) = at(j) => i = j
    BY <1>2, <1>4
  <2> HIDE DEF at, n, m
  <2> QED BY <2>1, <1>2, <1>6
<1>8. Neighbour(l) = IF later = <<>> THEN Anchor ELSE later[1]
  <2>1. /\ RingAt(items, 0) = Anchor /\ RingAt(items, n + 1) = Anchor
        /\ \A i \in 1 .. n : RingAt(items, i) = items[i]
        /\ \A i \in 0 .. n : next[RingAt(items, i)] = RingAt(items, i + 1)
        /\ \A i \in 0 .. n : prev[RingAt(items, i + 1)] = RingAt(items, i)
    BY <1>2, RingPlaces DEF Ringed
  <2>2. l = items[at(1)] /\ at(1) \in 1 .. n
    BY <1>4, <1>5, <1>6
  <2>3. m # 1 => later[1] = items[at(2)] /\ at(2) \in 1 .. n
    <3>1. 1 + 1 = 2
      OBVIOUS
    <3> QED BY <3>1, <1>5, <1>6
  <2>4. CASE cursor.fwd = TRUE
    <3>1. /\ at(1) \in 0 .. n
          /\ m = 1 => at(1) + 1 = n + 1
          /\ m # 1 => at(1) + 1 = at(2)
      BY <1>2, <1>4, <2>2, <2>4
    <3>2. next[l] = RingAt(items, at(1) + 1)
      BY <2>1, <2>2, <3>1
    <3> HIDE DEF at, later
    <3> QED BY <1>5, <2>1, <2>3, <2>4, <3>1, <3>2 DEF Neighbour
  <2>5. CASE cursor.fwd = FALSE
    <3>1. /\ at(1) - 1 \in 0 .. n /\ (at(1) - 1) + 1 = at(1) /\ (m = 1 => at(1) - 1 = 0)
          /\ m # 1 => at(1) - 1 = at(2)
      BY <1>2, <1>4, <2>2, <2>5
    <3>2. prev[l] = RingAt(items, at(1) - 1)
      <4>1. prev[RingAt(items, (at(1) - 1) + 1)] = RingAt(items, at(1) - 1)
        BY <2>1, <3>1
      <4> QED BY <4>1, <2>1, <2>2, <3>1
    <3> HIDE DEF at, later
    <3> QED BY <1>5, <2>1, <2>3, <2>5, <3>1, <3>2 DEF Neighbour
  <2> QED BY <1>4, <2>4, <2>5
<1> HIDE DEF at
<1>9. Neighbour(l) \in Links \union {Anchor}
  BY <1>5, <1>8
<1> DEFINE seen2 == Append(cursor.seen, l)
<1>10. /\ seen2 \in Seq(Links) /\ Len(seen2) = d + 1 /\ seen2[d + 1] = l
       /\ \A i \in 1 .. d : seen2[i] = cursor.seen[i]
       /\ d + 1 \in 1 .. d + 1
  BY <1>4, <1>5
<1> HIDE DEF seen2
<1>11. /\ c \in [fwd : BOOLEAN, lcurr : Links \union {Anchor}, lnext : Links \union {Anchor},
                 seen : Seq(Links), expected : Seq(Links)]
       /\ c.fwd = cursor.fwd /\ c.lcurr = l /\ c.lnext = Neighbour(l)
       /\ c.seen = seen2 /\ c.expected = cursor.expected
       /\ "fwd" \in DOMAIN c
  <2>1. cursor \in [fwd : BOOLEAN, lcurr : Links \union {Anchor}, lnext : Links \union {Anchor},
                    seen : Seq(Links), expected : Seq(Links)]
    BY <1>3 DEF Iterates
  <2> QED BY <2>1, <1>5, <1>9, <1>10 DEF seen2
<1>12. c # NoCursor
  <2>1. "fwd" \notin DOMAIN NoCursor
    BY DEF NoCursor
  <2> QED BY <2>1, <1>11
<1> HIDE DEF c, d, m, later
<1>13. \A j \in 1 .. m - 1, i \in 1 .. d + 1 : later[j] # seen2[i]
  <2>1. \A j \in 1 .. m, i \in 1 .. d : todo[j] # cursor.seen[i]
    BY <1>3 DEF Iterates, m, d
  <2>2. \A i \in 1 .. d + 1 : i = d + 1 \/ i \in 1 .. d
    BY <1>4
  <2>3. \A j \in 1 .. m - 1 : j + 1 \in 1 .. m /\ j + 1 # 1
    BY <1>4
  <2>4. \A j \in 1 .. m - 1 : later[j] = todo[j + 1] /\ todo[j + 1] # todo[1] /\ j + 1 \in 1 .. m
    BY <2>3, <1>5, <1>7
  <2>5. \A j \in 1 .. m - 1 : later[j] # seen2[d + 1]
    BY <2>4, <1>4, <1>10
  <2>6. \A j \in 1 .. m - 1, i \in 1 .. d : later[j] # seen2[i]
    BY <2>1, <2>4, <1>10
  <2> QED BY <2>2, <2>5, <2>6
<1>14. ASSUME NEW i \in 1 .. Len(cursor.expected)
       PROVE  /\ i <= d + 1 => seen2[i] = cursor.expected[i]
              /\ i > d + 1 => /\ i - (d + 1) <= m - 1
                              /\ later[i - (d + 1)] = cursor.expected[i]
  <2>1. /\ i <= d => cursor.seen[i] = cursor.expected[i]
        /\ i > d => /\ i - d <= m
                    /\ todo[i - d] = cursor.expected[i]
    BY <1>3 DEF Iterates, m, d
  <2>2. i \in Nat /\ i >= 1
    BY <1>4
  <2>3. CASE i <= d
    <3>1. i \in 1 .. d /\ i <= d + 1 /\ ~(i > d + 1)
      BY <2>2, <2>3, <1>4
    <3> QED BY <3>1, <2>1, <2>3, <1>10
  <2>4. CASE i = d + 1
    <3>1. i > d /\ i - d = 1 /\ ~(i > d + 1)
      BY <2>2, <2>4, <1>4
    <3> QED BY <3>1, <2>1, <2>4, <1>4, <1>10
  <2>5. CASE i > d + 1
    <3>1. i > d /\ ~(i <= d + 1)
      BY <2>2, <2>5, <1>4
    <3>2. i - (d + 1) <= m - 1 /\ i - (d + 1) \in 1 .. m - 1 /\ (i - (d + 1)) + 1 = i - d
      BY <3>1, <2>1, <2>2, <2>5, <1>4
    <3> QED BY <3>1, <3>2, <2>1, <1>5
  <2> QED BY <2>2, <2>3, <2>4, <2>5, <1>4
<1>15. Iterates(c, later)
  <2>1. Len(later) = m - 1 /\ Len(c.seen) = d + 1
    BY <1>5, <1>10, <1>11
  <2>2. c.lnext = IF later = <<>> THEN Anchor ELSE later[1]
    BY <1>8, <1>11
  <2>3. \E i \in 1 .. Len(c.seen) : c.seen[i] = c.lcurr
    BY <2>1, <1>10, <1>11
  <2>4. \A j \in 1 .. Len(later), i \in 1 .. Len(c.seen) : later[j] # c.seen[i]
    BY <2>1, <1>11, <1>13
  <2>5. \A i \in 1 .. Len(c.expected) :
          /\ i <= Len(c.seen) => c.seen[i] = c.expected[i]
          /\ i > Len(c.seen) => /\ i - Len(c.seen) <= Len(later)
                                /\ later[i - Len(c.seen)] = c.expected[i]
    BY <2>1, <1>11, <1>14
  <2> QED BY <2>2, <2>3, <2>4, <2>5, <1>5, <1>11, <1>12 DEF Iterates
<1>16. Ahead(items, c.fwd, later)
  <2>1. \A j \in 1 .. m - 1 : j + 1 \in 1 .. m /\ n - (m - 1) + j = n - m + (j + 1)
    BY <1>2, <1>4
  <2>2. \A j \in 1 .. m - 1 : later[j] = Toward(items, cursor.fwd, n - (m - 1) + j)
    <3> TAKE j \in 1 .. m - 1
    <3>1. later[j] = todo[j + 1]
      BY <1>5
    <3>2. todo[j + 1] = Toward(items, cursor.fwd, n - m + (j + 1))
      BY <2>1, <1>4
    <3> QED BY <3>1, <3>2, <2>1
  <2>3. m - 1 <= n
    BY <1>4, <1>2
  <2> QED BY <2>2, <2>3, <1>5, <1>11 DEF Ahead
<1> QED BY <1>1, <1>2, <1>15, <1>16 DEF ListInv

(* The pointers are those of the list at every step of ylistl.h. *)
LEMMA ListStepKeeps ==
    ASSUME ListAssumption, ~Resets, ListInv, ListNext
    PROVE  ListInv'
<1>1. CASE \E l \in Links : AddFirst(l) \/ AddLast(l)
  BY <1>1, AddFirstKeeps, AddLastKeeps
<1>2. CASE RemoveItem(next[Anchor])
  BY <1>2, RemoveItemKeeps
<1>3. CASE RemoveItem(prev[Anchor])
  BY <1>3, RemoveItemKeeps
<1>4. CASE \E l \in Links : InList(l) /\ RemoveItem(l)
  BY <1>4, RemoveItemKeeps
<1>5. CASE \E old, new \in Links : Replace(old, new)
  BY <1>5, ReplaceKeeps
<1>6. CASE \E fwd \in BOOLEAN : CreateCursor(fwd)
  BY <1>6, CreateCursorKeeps
<1>7. CASE Step
  BY <1>7, StepKeeps
<1>8. CASE RemoveCurrent
  BY <1>8, RemoveCurrentKeeps
<1>9. CASE DestroyCursor
  BY <1>9 DEF DestroyCursor, ListInv
<1>10. CASE ResetList
  <2>1. items = <<>> /\ items' = <<>> /\ next' = next /\ prev' = prev /\ sz' = 0
        /\ cursor = NoCursor /\ cursor' = cursor
    BY <1>10 DEF ResetList
  <2>2. Len(items) = 0 /\ items' = items
    BY <2>1
  <2> QED BY <2>1, <2>2 DEF ListInv
<1> QED BY <1>1, <1>2, <1>3, <1>4, <1>5, <1>6, <1>7, <1>8, <1>9, <1>10 DEF ListNext

(* What the invariant says of the ring and of an iteration. *)
LEMMA ListInvIsExact ==
    ASSUME ListAssumption, ListInv
    PROVE  ListExact
<1> DEFINE n == Len(items)
<1>1. /\ Once(items) /\ sz = n /\ Ringed(next, prev, items) /\ n \in Nat /\ items \in Seq(Links)
  BY DEF ListInv, Once
<1>2. PointersAreTheList
  <2> DEFINE S == Links \union {Anchor}
             ring == <<Anchor>> \o items \o <<Anchor>>
  <2>1. items \in Seq(S) /\ <<Anchor>> \in Seq(S)
    <3>1. \A i \in 1 .. n : items[i] \in S
      BY <1>1
    <3> QED BY <3>1, <1>1
  <2>2. Len(ring) = n + 2 /\ \A i \in 1 .. n + 2 :
           ring[i] = IF i = 1 \/ i = n + 2 THEN Anchor ELSE items[i - 1]
    <3> DEFINE h == <<Anchor>> \o items
    <3>1. h \in Seq(S) /\ Len(h) = n + 1
          /\ \A i \in 1 .. n + 1 : h[i] = IF i = 1 THEN Anchor ELSE items[i - 1]
      BY <2>1, <1>1
    <3> HIDE DEF h
    <3>2. Len(h \o <<Anchor>>) = n + 2
          /\ \A i \in 1 .. n + 2 : (h \o <<Anchor>>)[i] = IF i = n + 2 THEN Anchor ELSE h[i]
      BY <2>1, <3>1, <1>1
    <3>3. ring = h \o <<Anchor>>
      BY DEF h
    <3>4. \A i \in 1 .. n + 2 : i = n + 2 \/ i \in 1 .. n + 1
      BY <1>1
    <3>5. n + 2 # 1
      BY <1>1
    <3> HIDE DEF ring
    <3> QED BY <3>1, <3>2, <3>3, <3>4, <3>5
  <2> HIDE DEF ring
  <2>3. \A i \in 1 .. n + 2 : ring[i] = RingAt(items, i - 1)
    <3> TAKE i \in 1 .. n + 2
    <3>1. CASE i = 1 \/ i = n + 2
      <4>1. ~(i - 1 \in 1 .. n)
        BY <3>1, <1>1
      <4> QED BY <4>1, <3>1, <2>2 DEF RingAt
    <3>2. CASE i # 1 /\ i # n + 2
      <4>1. i - 1 \in 1 .. n
        BY <3>2, <1>1
      <4> QED BY <4>1, <3>2, <2>2 DEF RingAt
    <3> QED BY <3>1, <3>2
  <2>4. ASSUME NEW i \in 1 .. Len(ring) - 1
        PROVE  next[ring[i]] = ring[i + 1] /\ prev[ring[i + 1]] = ring[i]
    <3>1. i \in 1 .. n + 2 /\ i + 1 \in 1 .. n + 2 /\ i - 1 \in 0 .. n /\ (i - 1) + 1 = i
          /\ (i + 1) - 1 = i
      BY <2>2, <1>1
    <3>2. ring[i] = RingAt(items, i - 1) /\ ring[i + 1] = RingAt(items, i)
      <4>1. ring[i + 1] = RingAt(items, (i + 1) - 1)
        BY <2>3, <3>1
      <4> QED BY <4>1, <2>3, <3>1
    <3>3. /\ next[RingAt(items, i - 1)] = RingAt(items, (i - 1) + 1)
          /\ prev[RingAt(items, (i - 1) + 1)] = RingAt(items, i - 1)
      BY <1>1, <3>1 DEF Ringed
    <3> QED BY <3>1, <3>2, <3>3
  <2> QED BY <2>4, <1>1 DEF PointersAreTheList, ring
<1>3. CursorVisitsAll
  <2> SUFFICES ASSUME cursor # NoCursor
               PROVE  /\ IsPrefix(cursor.seen, cursor.expected) \/ IsPrefix(cursor.expected, cursor.seen)
                      /\ cursor.lnext = Anchor => IsPrefix(cursor.expected, cursor.seen)
    BY DEF CursorVisitsAll
  <2>1. PICK todo : Iterates(cursor, todo)
    BY DEF ListInv
  <2> DEFINE e == cursor.expected
             d == cursor.seen
  <2>2. /\ e \in Seq(Links) /\ d \in Seq(Links) /\ Len(e) \in Nat /\ Len(d) \in Nat
        /\ todo \in Seq(Links)
        /\ cursor.lnext = IF todo = <<>> THEN Anchor ELSE todo[1]
        /\ \A i \in 1 .. Len(e) :
              /\ i <= Len(d) => d[i] = e[i]
              /\ i > Len(d) => i - Len(d) <= Len(todo)
    BY <2>1 DEF Iterates
  <2> HIDE DEF e, d
  <2>3. Len(e) <= Len(d) => IsPrefix(e, d)
    BY <2>2 DEF IsPrefix
  <2>4. Len(d) <= Len(e) => IsPrefix(d, e)
    BY <2>2 DEF IsPrefix
  <2>5. ASSUME cursor.lnext = Anchor PROVE Len(e) <= Len(d)
    <3>1. todo = <<>>
      BY <2>2, <2>5 DEF ListAssumption
    <3> SUFFICES ASSUME Len(e) > Len(d) PROVE FALSE
      BY <2>2
    <3>2. Len(e) \in 1 .. Len(e) /\ Len(e) - Len(d) > 0
      BY <2>2
    <3>3. Len(e) - Len(d) <= Len(todo)
      BY <2>2, <3>2
    <3>4. Len(todo) = 0
      BY <3>1
    <3> QED BY <2>2, <3>2, <3>3, <3>4
  <2>6. Len(e) <= Len(d) \/ Len(d) <= Len(e)
    BY <2>2
  <2> QED BY <2>3, <2>4, <2>5, <2>6 DEF e, d
<1> QED BY <1>2, <1>3 DEF ListExact

(* The empty list. *)
LEMMA ListInitKeeps ==
    ASSUME ListAssumption, ListInit
    PROVE  ListInv
<1>1. /\ next = Self /\ prev = Self /\ sz = 0 /\ items = <<>> /\ cursor = NoCursor
  BY DEF ListInit
<1>2. Self \in Pointers /\ Self[Anchor] = Anchor
  BY DEF Self, Pointers
<1>3. /\ Len(<<>>) = 0 /\ <<>> \in Seq(Links) /\ 1 .. 0 = {}
      /\ \A i \in 0 .. 0 : i = 0
  OBVIOUS
<1>4. Once(items)
  BY <1>1, <1>3 DEF Once
<1>5. Ringed(next, prev, items)
  <2>1. RingAt(items, 0) = Anchor /\ RingAt(items, 0 + 1) = Anchor
    BY <1>1 DEF RingAt
  <2> QED BY <2>1, <1>1, <1>2, <1>3 DEF Ringed
<1> QED BY <1>1, <1>2, <1>3, <1>4, <1>5 DEF ListInv

(* While no list with items is reset, the pointers of the head and of the   *)
(* links are the list that was built, both ways, and an iterator hands out  *)
(* every item once though each is removed as it comes (ylistl_add,          *)
(* ylistl_remove, inext_forward, ylist_remove_current).  The hypothesis is  *)
(* the client's: ylist_reset leaves the head pointing at what it freed.     *)
THEOREM ListIsExact ==
    ASSUME ~Resets
    PROVE  ListSpec => []ListExact
<1>1. ListInit => ListInv
  BY ListInitKeeps, ListConstants
<1>2. ListInv /\ [ListNext]_listVars => ListInv'
  <2>1. ASSUME ListInv, ListNext PROVE ListInv'
    BY <2>1, ListStepKeeps, ListConstants
  <2>2. ASSUME ListInv, UNCHANGED listVars PROVE ListInv'
    BY <2>2 DEF ListInv, listVars
  <2> QED BY <2>1, <2>2
<1>3. ListInv => ListExact
  BY ListInvIsExact, ListConstants
<1> QED BY <1>1, <1>2, <1>3, PTL DEF ListSpec

------------------------------------------------------------------------------
(* The graph. *)
(* The two lists of edges agree. *)
EdgesAgree ==
    /\ inE \in [Vertices -> Seq(Vertices)]
    /\ outE \in [Vertices -> SUBSET Vertices]
    /\ \A v \in Vertices : \A i, j \in 1 .. Len(inE[v]) : inE[v][i] = inE[v][j] => i = j
    /\ \A u, v \in Vertices : v \in outE[u] <=> \E i \in 1 .. Len(inE[v]) : inE[v][i] = u

(* The vertices the search has left behind. *)
Done(vs, vis) == vis \ ToSet(vs)

(* The history is a way back from the base, through each vertex once; only  *)
(* the base may come a second time.                                         *)
WayBack(base, vs, vis) ==
    /\ base \in Vertices /\ vs \in Seq(Vertices) /\ vs # <<>> /\ vs[1] = base
    /\ vis \subseteq Before(base) /\ IsFiniteSet(vis)
    /\ \A i \in 2 .. Len(vs) : vs[i] \in vis
    /\ \A i, j \in 1 .. Len(vs) : i < j => vs[j] \in Before(vs[i])
    /\ \A i, j \in 1 .. Len(vs) : i < j /\ vs[i] = vs[j] => i = 1
    /\ Len(vs) >= 2 => vs[2] \in Predecessors(base)

(* Every edge on the stack was pushed for a place of the history, those of  *)
(* later places above.                                                      *)
EdgesOf(vs, es, own) ==
    /\ es \in Seq([vf : Vertices, vt : Vertices])
    /\ own \in [1 .. Len(es) -> 1 .. Len(vs)]
    /\ \A k \in 1 .. Len(es) : es[k].vt = vs[own[k]] /\ es[k].vf \in Predecessors(es[k].vt)
    /\ \A k, l \in 1 .. Len(es) : k < l => own[k] <= own[l]

(* No predecessor of the history is forgotten. *)
Pursued(vs, es, vis, own) ==
    \A i \in 1 .. Len(vs) : \A u \in Predecessors(vs[i]) :
        \/ \E k \in 1 .. Len(es) : own[k] = i /\ es[k].vf = u
        \/ i < Len(vs) /\ u = vs[i + 1]
        \/ u \in Done(vs, vis)

(* When the base has come again, the edge that closes its cycle is still to *)
(* be looked at.                                                            *)
BaseAgain(base, vs, es, vis, own) ==
    base \in vis => \E m \in 2 .. Len(vs), k \in 1 .. Len(es) :
                        vs[m] = base /\ own[k] = m /\ es[k].vf = vs[2]

(* What is left behind is closed and, by the ranks, without a cycle. *)
LeftBehind(vs, vis, rk) ==
    /\ rk \in [Vertices -> Nat]
    /\ \E b \in Nat : \A d \in Done(vs, vis) : rk[d] < b
    /\ \A d \in Done(vs, vis) : \A u \in Predecessors(d) : u \in Done(vs, vis) /\ rk[u] < rk[d]

(* The search under way, own and rk being its places and ranks.             *)
SearchAt(base, vs, es, vis, own, rk) ==
    /\ WayBack(base, vs, vis) /\ EdgesOf(vs, es, own) /\ Pursued(vs, es, vis, own)
    /\ BaseAgain(base, vs, es, vis, own) /\ LeftBehind(vs, vis, rk)

(* The same of the variables: every vertex that was met has been counted.   *)
SearchInv ==
    /\ dfs \in [base : Vertices, vs : Seq(Vertices),
                es : Seq([vf : Vertices, vt : Vertices]), visited : SUBSET Vertices,
                nv : Nat, r : {"searching"}]
    /\ dfs.nv = Cardinality(dfs.visited) + 1
    /\ \E own, rk : SearchAt(dfs.base, dfs.vs, dfs.es, dfs.visited, own, rk)

(* The edges agree, and a search under way is right so far.                 *)
GraphInv == /\ EdgesAgree
            /\ \/ dfs = NoSearch
               \/ SearchInv
               \/ dfs.r \in {"cyclic", "acyclic"} /\ SearchIsExact

------------------------------------------------------------------------------
(* What Before(v) contains is closed under predecessors, and it is the      *)
(* least such set.                                                          *)
LEMMA BeforeIsClosed ==
    ASSUME NEW v
    PROVE  /\ Before(v) \subseteq Vertices
           /\ Predecessors(v) \subseteq Before(v)
           /\ \A u \in Before(v) : Predecessors(u) \subseteq Before(v)
BY DEF Before, Predecessors

(* It is in every set that is closed in this way.                           *)
LEMMA BeforeIsLeast ==
    ASSUME NEW v, NEW S \in SUBSET Vertices, Predecessors(v) \subseteq S,
           \A w \in S : Predecessors(w) \subseteq S
    PROVE  Before(v) \subseteq S
BY DEF Before

(* A set with ranks that fall from each vertex to its predecessors, which   *)
(* are in it, is on no cycle.                                               *)
LEMMA RanksForbidCycles ==
    ASSUME NEW D \in SUBSET Vertices, NEW rk \in [Vertices -> Nat],
           \A d \in D : \A u \in Predecessors(d) : u \in D /\ rk[u] < rk[d],
           NEW v \in D
    PROVE  v \notin Before(v)
<1> DEFINE S == {w \in D : rk[w] < rk[v]}
<1>1. S \in SUBSET Vertices /\ Predecessors(v) \subseteq S
  OBVIOUS
<1>2. ASSUME NEW w \in S, NEW u \in Predecessors(w)
      PROVE  u \in S
  <2>1. u \in D /\ rk[u] < rk[w] /\ rk[w] < rk[v]
    OBVIOUS
  <2>2. rk[u] \in Nat /\ rk[w] \in Nat /\ rk[v] \in Nat
    BY <2>1
  <2> QED BY <2>1, <2>2
<1>3. Before(v) \subseteq S
  BY <1>1, <1>2, BeforeIsLeast
<1>4. v \notin S
  OBVIOUS
<1> QED BY <1>3, <1>4

(* History pops down to the place the edge was pushed for. *)
LEMMA HistoryIsOwn ==
    ASSUME NEW base, NEW vs, NEW es, NEW vis, NEW own, NEW rk,
           SearchAt(base, vs, es, vis, own, rk), es # <<>>
    PROVE  History(vs, es[Len(es)]) = SubSeq(vs, 1, own[Len(es)])
<1> DEFINE k == Len(es)
           at == {i \in DOMAIN vs : vs[i] = es[k].vt}
<1>1. k \in 1 .. Len(es) /\ Len(es) \in Nat /\ Len(vs) \in Nat /\ DOMAIN vs = 1 .. Len(vs)
  BY DEF SearchAt, EdgesOf, WayBack
<1>2. own[k] \in 1 .. Len(vs) /\ vs[own[k]] = es[k].vt
  BY <1>1 DEF SearchAt, EdgesOf
<1>3. own[k] \in at
  BY <1>1, <1>2
<1>4. ASSUME NEW j \in at, j > own[k]
      PROVE  FALSE
  <2>1. j \in 1 .. Len(vs) /\ own[k] < j /\ vs[own[k]] = vs[j]
    BY <1>1, <1>2, <1>4
  <2>2. own[k] = 1
    BY <2>1, <1>2 DEF SearchAt, WayBack
  <2>3. base \in vis
    <3>1. vs[j] = base
      BY <2>1, <2>2 DEF SearchAt, WayBack
    <3>2. j \in 2 .. Len(vs)
      BY <2>1, <2>2
    <3> QED BY <3>1, <3>2 DEF SearchAt, WayBack
  <2>4. PICK m \in 2 .. Len(vs) : \E l \in 1 .. Len(es) : own[l] = m
    BY <2>3 DEF SearchAt, BaseAgain
  <2>5. PICK l \in 1 .. Len(es) : own[l] = m
    BY <2>4
  <2>6. own[l] <= own[k]
    <3>1. l < k \/ l = k
      BY <1>1
    <3>2. CASE l < k
      BY <3>2, <1>1 DEF SearchAt, EdgesOf
    <3>3. CASE l = k
      BY <3>3, <2>5, <2>2, <1>1, <1>2
    <3> QED BY <3>1, <3>2, <3>3
  <2> QED BY <2>2, <2>4, <2>5, <2>6
<1>5. \A j \in at : j <= own[k]
  BY <1>1, <1>2, <1>4
<1>6. \A i \in at : (\A j \in at : j <= i) => i = own[k]
  BY <1>1, <1>2, <1>3, <1>5
<1>7. (CHOOSE i \in at : \A j \in at : j <= i) = own[k]
  BY <1>3, <1>5, <1>6, Zenon
<1> QED BY <1>3, <1>7, Zenon DEF History

(* Ranks for a stretch of the history that was followed to its end: above   *)
(* those given before, and falling along the stretch.                       *)
Followed(D, rk, vs, i, n) ==
    /\ D \in SUBSET Vertices /\ rk \in [Vertices -> Nat]
    /\ \E b \in Nat : \A d \in D : rk[d] < b
    /\ \A d \in D : \A u \in Predecessors(d) : u \in D /\ rk[u] < rk[d]
    /\ i \in Nat /\ n \in Nat
    /\ \A j \in i + 1 .. n : vs[j] \in Vertices \ D
    /\ \A j, h \in i + 1 .. n : vs[j] = vs[h] => j = h
    /\ \A j \in i + 1 .. n : \A u \in Predecessors(vs[j]) : (j < n /\ u = vs[j + 1]) \/ u \in D

(* The vertices of D have such ranks.                                       *)
Ranked(D) ==
    \E rk \in [Vertices -> Nat] :
        /\ \E b \in Nat : \A d \in D : rk[d] < b
        /\ \A d \in D : \A u \in Predecessors(d) : u \in D /\ rk[u] < rk[d]

(* The stretch of the history joins those that have ranks.                  *)
LEMMA RanksGrow ==
    ASSUME NEW D, NEW rk, NEW vs, NEW n, NEW i, Followed(D, rk, vs, i, n)
    PROVE  Ranked(D \union {vs[j] : j \in i + 1 .. n})
<1> USE DEF Followed
<1> DEFINE D2 == D \union {vs[j] : j \in i + 1 .. n}
<1>1. PICK b \in Nat : \A d \in D : rk[d] < b
  OBVIOUS
<1> DEFINE gone == {vs[j] : j \in i + 1 .. n}
<1>2. PICK place \in [gone -> i + 1 .. n] : \A j \in i + 1 .. n : place[vs[j]] = j
  <2> DEFINE f == [v \in gone |-> CHOOSE j \in i + 1 .. n : vs[j] = v]
  <2>1. \A j \in i + 1 .. n : f[vs[j]] \in i + 1 .. n /\ vs[f[vs[j]]] = vs[j]
    OBVIOUS
  <2>2. \A j \in i + 1 .. n : f[vs[j]] = j
    BY <2>1
  <2>3. f \in [gone -> i + 1 .. n]
    BY <2>1
  <2> HIDE DEF f
  <2> QED BY <2>2, <2>3
<1> DEFINE rk2 == [v \in Vertices |-> IF v \in gone THEN b + (n - place[v]) ELSE rk[v]]
<1>3. /\ \A j \in i + 1 .. n : vs[j] \in Vertices /\ rk2[vs[j]] = b + (n - j)
      /\ \A d \in D : d \in Vertices /\ rk2[d] = rk[d] /\ rk[d] \in Nat
      /\ rk2 \in [Vertices -> Nat]
  <2>1. ASSUME NEW v \in gone PROVE b + (n - place[v]) \in Nat
    <3>1. place[v] \in i + 1 .. n
      BY <1>2
    <3> QED BY <1>1, <3>1
  <2>2. rk2 \in [Vertices -> Nat]
    BY <2>1
  <2>3. \A j \in i + 1 .. n : vs[j] \in Vertices /\ vs[j] \in gone
    OBVIOUS
  <2>4. \A d \in D : d \in Vertices /\ d \notin gone
    OBVIOUS
  <2> QED BY <2>2, <2>3, <2>4, <1>2
<1> HIDE DEF rk2
<1>4. \A d \in D2 : rk2[d] < b + n
  <2>1. \A j \in i + 1 .. n : b + (n - j) < b + n
    BY <1>1
  <2>2. \A d \in D : rk[d] < b + n
    BY <1>1, <1>3
  <2> QED BY <2>1, <2>2, <1>3
<1>5. ASSUME NEW d \in D, NEW u \in Predecessors(d)
      PROVE  u \in D2 /\ rk2[u] < rk2[d]
  BY <1>3
<1>6. ASSUME NEW j \in i + 1 .. n, NEW u \in Predecessors(vs[j])
      PROVE  u \in D2 /\ rk2[u] < rk2[vs[j]]
  <2>1. CASE j < n /\ u = vs[j + 1]
    <3>1. j + 1 \in i + 1 .. n /\ b + (n - (j + 1)) < b + (n - j)
      BY <1>1, <2>1
    <3> QED BY <2>1, <3>1, <1>3
  <2>2. CASE u \in D
    <3>1. rk[u] \in Nat /\ rk[u] < b /\ rk2[u] = rk[u]
      BY <2>2, <1>1, <1>3
    <3>2. b <= b + (n - j) /\ b + (n - j) \in Nat
      BY <1>1
    <3> QED BY <2>2, <3>1, <3>2, <1>1, <1>3
  <2> QED BY <2>1, <2>2
<1>7. b + n \in Nat
  BY <1>1
<1> QED BY <1>3, <1>4, <1>5, <1>6, <1>7 DEF Ranked

(* Going back to the place of the last edge: what is left of the history is *)
(* done, its ranks above all those given before.                            *)
LEMMA GoingBack ==
    ASSUME NEW base, NEW vs, NEW es, NEW vis, NEW own, NEW rk,
           SearchAt(base, vs, es, vis, own, rk), es # <<>>, vis \subseteq Vertices
    PROVE  \E rk2 : SearchAt(base, SubSeq(vs, 1, own[Len(es)]), es, vis, own, rk2)
<1> DEFINE k == Len(es)
           n == Len(vs)
           i == own[k]
           ws == SubSeq(vs, 1, i)
<1>1. k \in 1 .. Len(es) /\ n \in Nat /\ i \in 1 .. n /\ vs \in Seq(Vertices)
  BY DEF SearchAt, EdgesOf, WayBack
<1>2. ws \in Seq(Vertices) /\ Len(ws) = i /\ \A j \in 1 .. i : ws[j] = vs[j]
  BY <1>1, SubSeqProperties
<1>3. \A l \in 1 .. Len(es) : own[l] \in 1 .. i
  <2> SUFFICES ASSUME NEW l \in 1 .. Len(es) PROVE own[l] \in 1 .. i
    OBVIOUS
  <2>1. own[l] \in 1 .. n
    BY DEF SearchAt, EdgesOf
  <2>2. l < k \/ l = k
    BY <1>1
  <2>3. own[l] <= i
    BY <1>1, <2>1, <2>2 DEF SearchAt, EdgesOf
  <2> QED BY <1>1, <2>1, <2>3
<1>4. ToSet(vs) = {vs[j] : j \in 1 .. n} /\ ToSet(ws) = {vs[j] : j \in 1 .. i}
  <2>1. DOMAIN vs = 1 .. n /\ DOMAIN ws = 1 .. i
    BY <1>1, <1>2
  <2> HIDE DEF ws, i, n
  <2>2. {ws[j] : j \in 1 .. i} = {vs[j] : j \in 1 .. i}
    BY <1>2
  <2> QED BY <2>1, <2>2 DEF ToSet
\* A vertex that leaves the history does not stay in it.
<1>5. ASSUME NEW j \in i + 1 .. n
      PROVE  vs[j] \in vis /\ vs[j] \notin ToSet(ws)
  <2>1. j \in 2 .. n /\ vs[j] \in vis
    BY <1>1, <1>5 DEF SearchAt, WayBack
  <2>2. ASSUME NEW h \in 1 .. i, vs[h] = vs[j]
        PROVE  FALSE
    <3>1. h < j /\ h \in 1 .. n /\ j \in 1 .. n
      BY <1>1, <1>5, <2>1
    <3>2. h = 1
      BY <3>1, <2>2 DEF SearchAt, WayBack
    <3>3. base \in vis
      BY <2>1, <2>2, <3>2 DEF SearchAt, WayBack
    <3>4. PICK m \in 2 .. n : vs[m] = base /\ \E l \in 1 .. Len(es) : own[l] = m
      BY <3>3 DEF SearchAt, BaseAgain
    <3>5. m \in 1 .. i
      BY <3>4, <1>3
    <3>6. m < j /\ vs[m] = vs[j] /\ m # 1 /\ m \in 1 .. n
      BY <3>4, <3>5, <1>1, <1>5, <2>2, <3>2 DEF SearchAt, WayBack
    <3> QED BY <3>1, <3>6 DEF SearchAt, WayBack
  <2> QED BY <2>1, <2>2, <1>4
<1>6. Done(ws, vis) = Done(vs, vis) \union {vs[j] : j \in i + 1 .. n}
  <2>1. \A j \in 1 .. n : j \in 1 .. i \/ j \in i + 1 .. n
    BY <1>1
  <2>2. \A j \in 1 .. i : j \in 1 .. n
    BY <1>1
  <2> QED BY <1>4, <1>5, <2>1, <2>2 DEF Done
\* What left the history was followed to its end.
<1>7. ASSUME NEW j \in i + 1 .. n, NEW u \in Predecessors(vs[j])
      PROVE  (j < n /\ u = vs[j + 1]) \/ u \in Done(vs, vis)
  <2>1. j \in 1 .. n /\ ~(j \in 1 .. i)
    BY <1>1, <1>7
  <2>2. \A l \in 1 .. Len(es) : own[l] # j
    BY <1>3, <2>1
  <2> QED BY <2>1, <2>2 DEF SearchAt, Pursued
<1>8. \A j, h \in i + 1 .. n : vs[j] = vs[h] => j = h
  <2>1. \A j, h \in i + 1 .. n : j < h => vs[j] # vs[h]
    <3> SUFFICES ASSUME NEW j \in i + 1 .. n, NEW h \in i + 1 .. n, j < h, vs[j] = vs[h] PROVE FALSE
      OBVIOUS
    <3>1. j \in 1 .. n /\ h \in 1 .. n /\ j # 1
      BY <1>1
    <3> QED BY <3>1 DEF SearchAt, WayBack
  <2>2. \A j, h \in i + 1 .. n : j < h \/ h < j \/ j = h
    BY <1>1
  <2> QED BY <2>1, <2>2
<1>9. \A j \in i + 1 .. n : vs[j] \in Vertices \ Done(vs, vis)
  <2>1. \A j \in i + 1 .. n : j \in 1 .. n
    BY <1>1
  <2> QED BY <1>1, <1>4, <2>1 DEF Done
<1> HIDE DEF ws, i, n
<1>10. PICK rk2 \in [Vertices -> Nat] :
         /\ \E b \in Nat : \A d \in Done(ws, vis) : rk2[d] < b
         /\ \A d \in Done(ws, vis) : \A u \in Predecessors(d) : u \in Done(ws, vis) /\ rk2[u] < rk2[d]
  <2>1. Done(vs, vis) \subseteq Vertices /\ i \in Nat
    BY <1>1 DEF Done
  <2>2. LeftBehind(vs, vis, rk)
    BY DEF SearchAt
  <2>3. /\ rk \in [Vertices -> Nat]
        /\ \E b \in Nat : \A d \in Done(vs, vis) : rk[d] < b
        /\ \A d \in Done(vs, vis) : \A u \in Predecessors(d) : u \in Done(vs, vis) /\ rk[u] < rk[d]
    BY <2>2 DEF LeftBehind
  <2>4. n \in Nat /\ Done(vs, vis) \in SUBSET Vertices
    BY <1>1, <2>1
  <2>5. Followed(Done(vs, vis), rk, vs, i, n)
    BY <1>7, <1>8, <1>9, <2>1, <2>3, <2>4 DEF Followed
  <2>6. Ranked(Done(ws, vis))
    BY <2>5, <1>6, RanksGrow
  <2> QED BY <2>6 DEF Ranked
<1>12. LeftBehind(ws, vis, rk2)
  BY <1>10 DEF LeftBehind
<1> USE DEF ws, i, n
<1>13. WayBack(base, ws, vis)
  <2>1. \A j \in 1 .. i : j \in 1 .. n
    BY <1>1
  <2>2. \A j \in 2 .. i : j \in 1 .. i /\ j \in 2 .. n
    BY <1>1
  <2>3. ws # <<>> /\ ws[1] = base /\ 1 \in 1 .. i
    BY <1>1, <1>2 DEF SearchAt, WayBack
  <2>4. Len(ws) >= 2 => ws[2] \in Predecessors(base)
    BY <1>1, <1>2 DEF SearchAt, WayBack
  <2> HIDE DEF ws
  <2> QED BY <1>2, <2>1, <2>2, <2>3, <2>4 DEF SearchAt, WayBack
<1>14. EdgesOf(ws, es, own)
  BY <1>2, <1>3 DEF SearchAt, EdgesOf
<1>15. Pursued(ws, es, vis, own)
  <2> SUFFICES ASSUME NEW j \in 1 .. i, NEW u \in Predecessors(vs[j])
               PROVE  \/ \E l \in 1 .. Len(es) : own[l] = j /\ es[l].vf = u
                      \/ j < i /\ u = vs[j + 1]
                      \/ u \in Done(ws, vis)
    <3>1. \A j \in 1 .. i : j < i => j + 1 \in 1 .. i
      BY <1>1
    <3> HIDE DEF ws
    <3> QED BY <1>2, <3>1 DEF Pursued
  <2>1. j \in 1 .. n
    BY <1>1
  <2>2. \/ \E l \in 1 .. Len(es) : own[l] = j /\ es[l].vf = u
        \/ j < n /\ u = vs[j + 1]
        \/ u \in Done(vs, vis)
    BY <2>1 DEF SearchAt, Pursued
  <2>3. j < n => j < i \/ j + 1 \in i + 1 .. n
    BY <1>1
  <2> QED BY <2>2, <2>3, <1>6
<1>16. BaseAgain(base, ws, es, vis, own)
  <2> SUFFICES ASSUME base \in vis
               PROVE  \E m \in 2 .. i, l \in 1 .. Len(es) :
                         vs[m] = base /\ own[l] = m /\ es[l].vf = vs[2]
    <3>1. \A m \in 2 .. i : m \in 1 .. i /\ 2 \in 1 .. i
      BY <1>1
    <3> HIDE DEF ws
    <3> QED BY <1>2, <3>1 DEF BaseAgain
  <2>1. PICK m \in 2 .. n, l \in 1 .. Len(es) : vs[m] = base /\ own[l] = m /\ es[l].vf = vs[2]
    BY DEF SearchAt, BaseAgain
  <2>2. m \in 2 .. i
    BY <2>1, <1>1, <1>3
  <2> QED BY <2>1, <2>2
<1> QED BY <1>12, <1>13, <1>14, <1>15, <1>16 DEF SearchAt

(* All but the last of a sequence. *)
LEMMA FrontOf ==
    ASSUME NEW S, NEW s \in Seq(S), s # <<>>
    PROVE  /\ Front(s) \in Seq(S) /\ Len(Front(s)) = Len(s) - 1
           /\ \A l \in 1 .. Len(s) - 1 : Front(s)[l] = s[l]
<1>1. PICK k \in Nat : k = Len(s) /\ k # 0
  OBVIOUS
<1> QED BY <1>1 DEF Front

(* An edge from a vertex left behind needs no look. *)
LEMMA EdgeToDone ==
    ASSUME NEW base, NEW vs, NEW es, NEW vis, NEW own, NEW rk,
           SearchAt(base, vs, es, vis, own, rk), es # <<>>,
           own[Len(es)] = Len(vs), es[Len(es)].vf \in Done(vs, vis)
    PROVE  \E own2 : SearchAt(base, vs, Front(es), vis, own2, rk)
<1> DEFINE k == Len(es)
           fs == Front(es)
           own2 == [l \in 1 .. k - 1 |-> own[l]]
<1>1. /\ k \in 1 .. k /\ k \in Nat \ {0} /\ Len(vs) \in Nat
      /\ \A l \in 1 .. k - 1 : l \in 1 .. k
      /\ \A l \in 1 .. k : l = k \/ l \in 1 .. k - 1
  BY DEF SearchAt, EdgesOf, WayBack
<1>2. fs \in Seq([vf : Vertices, vt : Vertices]) /\ Len(fs) = k - 1
      /\ \A l \in 1 .. k - 1 : fs[l] = es[l]
  <2>1. es \in Seq([vf : Vertices, vt : Vertices])
    BY DEF SearchAt, EdgesOf
  <2>2. es # <<>>
    OBVIOUS
  <2> QED BY <2>1, <2>2, FrontOf
<1> HIDE DEF fs, k
<1>3. EdgesOf(vs, fs, own2)
  BY <1>1, <1>2 DEF SearchAt, EdgesOf, k
<1>4. Pursued(vs, fs, vis, own2)
  <2> SUFFICES ASSUME NEW i \in 1 .. Len(vs), NEW u \in Predecessors(vs[i])
               PROVE  \/ \E l \in 1 .. k - 1 : own2[l] = i /\ fs[l].vf = u
                      \/ i < Len(vs) /\ u = vs[i + 1]
                      \/ u \in Done(vs, vis)
    BY <1>2 DEF Pursued
  <2>1. \/ \E l \in 1 .. k : own[l] = i /\ es[l].vf = u
        \/ i < Len(vs) /\ u = vs[i + 1]
        \/ u \in Done(vs, vis)
    BY DEF SearchAt, Pursued, k
  <2>2. own[k] = Len(vs) /\ es[k].vf \in Done(vs, vis)
    BY DEF k
  <2>3. \A l \in 1 .. k - 1 : own2[l] = own[l]
    OBVIOUS
  <2> HIDE DEF own2
  <2>4. ASSUME NEW l \in 1 .. k, own[l] = i, es[l].vf = u
        PROVE  u \in Done(vs, vis) \/ \E m \in 1 .. k - 1 : own2[m] = i /\ fs[m].vf = u
    <3>1. CASE l = k
      BY <3>1, <2>2, <2>4
    <3>2. CASE l \in 1 .. k - 1
      BY <3>2, <2>3, <2>4, <1>2
    <3> QED BY <3>1, <3>2, <1>1
  <2> QED BY <2>1, <2>4
<1>5. BaseAgain(base, vs, fs, vis, own2)
  <2> SUFFICES ASSUME base \in vis
               PROVE  \E m \in 2 .. Len(vs), l \in 1 .. k - 1 :
                         vs[m] = base /\ own2[l] = m /\ fs[l].vf = vs[2]
    BY <1>2 DEF BaseAgain
  <2>1. PICK m \in 2 .. Len(vs), l \in 1 .. k : vs[m] = base /\ own[l] = m /\ es[l].vf = vs[2]
    BY DEF SearchAt, BaseAgain, k
  <2>2. 2 \in 1 .. Len(vs)
    BY <1>1, <2>1
  <2>3. l # k
    BY <2>1, <2>2 DEF Done, ToSet, SearchAt, WayBack, k
  <2> QED BY <2>1, <2>3, <1>1, <1>2
<1>6. WayBack(base, vs, vis) /\ LeftBehind(vs, vis, rk)
  BY DEF SearchAt
<1> HIDE DEF own2
<1>7. SearchAt(base, vs, fs, vis, own2, rk)
  BY <1>3, <1>4, <1>5, <1>6 DEF SearchAt
<1> QED BY <1>7 DEF fs

(* An edge from a vertex that is new puts it on the history, and its own    *)
(* incoming edges on the stack.                                             *)
LEMMA EdgeToNew ==
    ASSUME EdgesAgree, NEW base, NEW vs, NEW es, NEW vis, NEW own, NEW rk,
           SearchAt(base, vs, es, vis, own, rk), es # <<>>, vis \subseteq Vertices,
           own[Len(es)] = Len(vs), es[Len(es)].vf \notin vis
    PROVE  \E own2 : SearchAt(base, Append(vs, es[Len(es)].vf),
                              Front(es) \o InEdges(es[Len(es)].vf),
                              vis \union {es[Len(es)].vf}, own2, rk)
<1> DEFINE k == Len(es)
           n == Len(vs)
           v == es[k].vf
           fs == Front(es)
           gs == InEdges(v)
           ws == Append(vs, v)
           hs == fs \o gs
           seen == vis \union {v}
           q == Len(gs)
           own2 == [l \in 1 .. k - 1 + q |-> IF l \in 1 .. k - 1 THEN own[l] ELSE n + 1]
<1>1. /\ k \in 1 .. k /\ k \in Nat \ {0} /\ n \in Nat \ {0}
      /\ \A l \in 1 .. k - 1 : l \in 1 .. k
      /\ \A l \in 1 .. k : l = k \/ l \in 1 .. k - 1
  BY DEF SearchAt, EdgesOf, WayBack
<1>2. fs \in Seq([vf : Vertices, vt : Vertices]) /\ Len(fs) = k - 1
      /\ \A l \in 1 .. k - 1 : fs[l] = es[l]
  <2>1. es \in Seq([vf : Vertices, vt : Vertices])
    BY DEF SearchAt, EdgesOf
  <2>2. es # <<>>
    OBVIOUS
  <2> QED BY <2>1, <2>2, FrontOf
<1>3. v \in Vertices /\ v \in Predecessors(vs[n])
  <2>1. es[k].vt = vs[own[k]] /\ es[k].vf \in Predecessors(es[k].vt)
    BY <1>1 DEF SearchAt, EdgesOf
  <2>2. es[k].vt = vs[n]
    BY <2>1
  <2> QED BY <2>1, <2>2 DEF Predecessors
<1>4. /\ gs \in Seq([vf : Vertices, vt : Vertices]) /\ q = Len(inE[v])
      /\ \A j \in 1 .. q : gs[j].vt = v /\ gs[j].vf = inE[v][j] /\ gs[j].vf \in Predecessors(v)
      /\ \A u \in Predecessors(v) : \E j \in 1 .. q : gs[j].vf = u
  <2>1. inE[v] \in Seq(Vertices)
    BY <1>3 DEF EdgesAgree
  <2>2. gs = [j \in 1 .. Len(inE[v]) |-> [vf |-> inE[v][j], vt |-> v]]
    BY <2>1 DEF InEdges, Edge
  <2>3. gs \in Seq([vf : Vertices, vt : Vertices]) /\ q = Len(inE[v])
    BY <2>1, <2>2, <1>3
  <2>4. \A j \in 1 .. q : gs[j].vt = v /\ gs[j].vf = inE[v][j] /\ inE[v][j] \in Vertices
    BY <2>1, <2>2, <2>3
  <2>5. \A u \in Vertices : u \in Predecessors(v) <=> \E j \in 1 .. q : inE[v][j] = u
    <3>1. \A u \in Vertices : v \in outE[u] <=> \E i \in 1 .. Len(inE[v]) : inE[v][i] = u
      BY <1>3 DEF EdgesAgree
    <3> HIDE DEF v, q
    <3> QED BY <3>1, <2>3 DEF Predecessors
  <2>6. Predecessors(v) \subseteq Vertices
    BY DEF Predecessors
  <2> QED BY <2>3, <2>4, <2>5, <2>6
<1>5. q \in Nat
  BY <1>4
<1> HIDE DEF fs, gs, k, v, q
<1>6. /\ hs \in Seq([vf : Vertices, vt : Vertices]) /\ Len(hs) = k - 1 + q
      /\ \A l \in 1 .. k - 1 : hs[l] = es[l]
      /\ \A j \in 1 .. q : hs[k - 1 + j] = gs[j]
  <2>1. Len(gs) = q /\ Len(fs) = k - 1
    BY <1>2 DEF q
  <2>2. hs \in Seq([vf : Vertices, vt : Vertices]) /\ Len(hs) = Len(fs) + Len(gs)
    BY <1>2, <1>4, ConcatProperties
  <2>3. \A l \in 1 .. k - 1 : hs[l] = fs[l]
    BY <1>2, <1>4, <2>1, <1>1, <1>5
  <2>4. \A j \in 1 .. q : hs[k - 1 + j] = gs[j]
    BY <1>2, <1>4, <2>1, <1>1, <1>5
  <2> QED BY <1>2, <2>1, <2>2, <2>3, <2>4
<1>7. /\ ws \in Seq(Vertices) /\ Len(ws) = n + 1 /\ ws[n + 1] = v
      /\ \A i \in 1 .. n : ws[i] = vs[i]
  BY <1>3 DEF SearchAt, WayBack
<1>8. /\ \A i \in 1 .. n : i \in 1 .. n + 1
      /\ \A i \in 1 .. n + 1 : i = n + 1 \/ i \in 1 .. n
      /\ 1 \in 1 .. n /\ n \in 1 .. n /\ n + 1 \in 1 .. n + 1 /\ ~(n + 1 \in 1 .. n)
  BY <1>1
<1>9. /\ \A l \in 1 .. k - 1 + q : l \in 1 .. k - 1 \/ \E j \in 1 .. q : l = k - 1 + j
      /\ \A j \in 1 .. q : k - 1 + j \in 1 .. k - 1 + q /\ ~(k - 1 + j \in 1 .. k - 1)
      /\ \A l \in 1 .. k - 1 : l \in 1 .. k - 1 + q
  <2>1. \A l \in 1 .. k - 1 + q : ~(l \in 1 .. k - 1) => l - (k - 1) \in 1 .. q /\ l = k - 1 + (l - (k - 1))
    BY <1>1, <1>5
  <2>2. \A j \in 1 .. q : k - 1 + j \in 1 .. k - 1 + q /\ ~(k - 1 + j \in 1 .. k - 1)
    BY <1>1, <1>5
  <2>3. \A l \in 1 .. k - 1 : l \in 1 .. k - 1 + q
    BY <1>1, <1>5
  <2> QED BY <2>1, <2>2, <2>3
<1> HIDE DEF ws, hs, n
<1>10. /\ \A l \in 1 .. k - 1 : own2[l] = own[l]
       /\ \A j \in 1 .. q : own2[k - 1 + j] = n + 1
       /\ own2 \in [1 .. k - 1 + q -> 1 .. n + 1]
  <2>1. \A l \in 1 .. k : own[l] \in 1 .. n
    BY DEF SearchAt, EdgesOf, k, n
  <2>2. \A l \in 1 .. k - 1 : own[l] \in 1 .. n + 1
    BY <2>1, <1>1, <1>8
  <2> QED BY <2>2, <1>8, <1>9
<1> HIDE DEF own2
<1>11. Done(ws, seen) = Done(vs, vis)
  <2>1. ToSet(ws) = ToSet(vs) \union {v}
    <3>1. DOMAIN ws = 1 .. n + 1 /\ DOMAIN vs = 1 .. n
      BY <1>7 DEF SearchAt, WayBack, n
    <3>2. \A u : u \in ToSet(ws) <=> \E i \in 1 .. n + 1 : ws[i] = u
      BY <3>1 DEF ToSet
    <3>3. \A u : u \in ToSet(vs) <=> \E i \in 1 .. n : vs[i] = u
      BY <3>1 DEF ToSet
    <3> QED BY <3>2, <3>3, <1>7, <1>8
  <2>2. v \notin vis
    BY DEF v, k
  <2> QED BY <2>1, <2>2 DEF Done
<1>12. WayBack(base, ws, seen)
  <2>1. base \in Vertices /\ ws # <<>> /\ ws[1] = base
    BY <1>1, <1>7, <1>8 DEF SearchAt, WayBack
  <2>2. \A i \in 1 .. n : v \in Before(vs[i])
    <3> SUFFICES ASSUME NEW i \in 1 .. n PROVE v \in Before(vs[i])
      OBVIOUS
    <3>1. CASE i = n
      BY <3>1, <1>3, BeforeIsClosed
    <3>2. CASE i # n
      <4>1. i < n
        BY <1>1, <3>2
      <4>2. vs[n] \in Before(vs[i])
        BY <4>1, <1>8 DEF SearchAt, WayBack, n
      <4> QED BY <4>2, <1>3, BeforeIsClosed
    <3> QED BY <3>1, <3>2
  <2>3. seen \subseteq Before(base) /\ IsFiniteSet(seen)
    <3>1. v \in Before(base)
      BY <2>2, <1>8 DEF SearchAt, WayBack
    <3>2. IsFiniteSet(vis) /\ vis \subseteq Before(base)
      BY DEF SearchAt, WayBack
    <3> QED BY <3>1, <3>2, FS_AddElement
  <2>4. \A i \in 2 .. n + 1 : ws[i] \in seen
    <3>1. \A i \in 2 .. n + 1 : i = n + 1 \/ (i \in 2 .. n /\ i \in 1 .. n)
      BY <1>1
    <3> QED BY <3>1, <1>7 DEF SearchAt, WayBack, n
  <2>5. \A i, j \in 1 .. n + 1 : i < j => i \in 1 .. n /\ (j \in 1 .. n \/ j = n + 1)
    BY <1>1
  <2>6. \A i, j \in 1 .. n + 1 : i < j => ws[j] \in Before(ws[i])
    BY <2>2, <2>5, <1>7 DEF SearchAt, WayBack, n
  <2>7. \A i, j \in 1 .. n + 1 : i < j /\ ws[i] = ws[j] => i = 1
    <3> SUFFICES ASSUME NEW i \in 1 .. n + 1, NEW j \in 1 .. n + 1, i < j, ws[i] = ws[j]
                 PROVE  i = 1
      OBVIOUS
    <3>1. CASE j \in 1 .. n
      BY <3>1, <2>5, <1>7 DEF SearchAt, WayBack, n
    <3>2. CASE j = n + 1
      <4>1. i \in 1 .. n /\ vs[i] = v
        BY <3>2, <2>5, <1>7
      <4>2. vs[i] \notin vis
        BY <4>1 DEF v, k
      <4>3. i \in 2 .. n \/ i = 1
        BY <4>1, <1>1
      <4> QED BY <4>2, <4>3 DEF SearchAt, WayBack, n
    <3> QED BY <3>1, <3>2, <1>8
  <2>8. ws[2] \in Predecessors(base)
    <3>1. CASE n = 1
      BY <3>1, <1>3, <1>7 DEF SearchAt, WayBack
    <3>2. CASE n # 1
      <4>1. n >= 2 /\ 2 \in 1 .. n
        BY <3>2, <1>1
      <4> QED BY <4>1, <1>7 DEF SearchAt, WayBack, n
    <3> QED BY <3>1, <3>2
  <2> HIDE DEF seen
  <2> QED BY <1>7, <2>1, <2>3, <2>4, <2>6, <2>7, <2>8 DEF WayBack
<1>13. EdgesOf(ws, hs, own2)
  <2>1. \A l \in 1 .. k - 1 : hs[l].vt = ws[own2[l]] /\ hs[l].vf \in Predecessors(hs[l].vt)
    <3>1. \A l \in 1 .. k : own[l] \in 1 .. n /\ es[l].vt = vs[own[l]] /\ es[l].vf \in Predecessors(es[l].vt)
      BY DEF SearchAt, EdgesOf, k, n
    <3> SUFFICES ASSUME NEW l \in 1 .. k - 1
                 PROVE  hs[l].vt = ws[own2[l]] /\ hs[l].vf \in Predecessors(hs[l].vt)
      OBVIOUS
    <3>2. l \in 1 .. k /\ hs[l] = es[l] /\ own2[l] = own[l]
      BY <1>1, <1>6, <1>10
    <3>3. own[l] \in 1 .. n /\ ws[own[l]] = vs[own[l]]
      BY <3>1, <3>2, <1>7
    <3> QED BY <3>1, <3>2, <3>3
  <2>2. \A j \in 1 .. q : /\ hs[k - 1 + j].vt = ws[own2[k - 1 + j]]
                          /\ hs[k - 1 + j].vf \in Predecessors(hs[k - 1 + j].vt)
    <3> SUFFICES ASSUME NEW j \in 1 .. q
                 PROVE  /\ hs[k - 1 + j].vt = ws[own2[k - 1 + j]]
                        /\ hs[k - 1 + j].vf \in Predecessors(hs[k - 1 + j].vt)
      OBVIOUS
    <3>1. hs[k - 1 + j] = gs[j] /\ own2[k - 1 + j] = n + 1
      BY <1>6, <1>10
    <3>2. gs[j].vt = v /\ gs[j].vf \in Predecessors(v) /\ ws[n + 1] = v
      BY <1>4, <1>7
    <3> QED BY <3>1, <3>2, Zenon
  <2>3. \A l \in 1 .. k - 1 + q : hs[l].vt = ws[own2[l]] /\ hs[l].vf \in Predecessors(hs[l].vt)
    BY <2>1, <2>2, <1>9
  <2>4. \A l, m \in 1 .. k - 1 + q : l < m => own2[l] <= own2[m]
    <3> SUFFICES ASSUME NEW l \in 1 .. k - 1 + q, NEW m \in 1 .. k - 1 + q, l < m
                 PROVE  own2[l] <= own2[m]
      OBVIOUS
    <3>1. CASE m \in 1 .. k - 1
      <4>1. l \in 1 .. k - 1
        BY <3>1, <1>1, <1>5
      <4> QED BY <4>1, <3>1, <1>1, <1>10 DEF SearchAt, EdgesOf, k
    <3>2. CASE ~(m \in 1 .. k - 1)
      <4>1. own2[m] = n + 1 /\ own2[l] \in 1 .. n + 1
        BY <3>2, <1>9, <1>10
      <4> QED BY <4>1, <1>1
    <3> QED BY <3>1, <3>2
  <2> QED BY <1>6, <1>7, <1>10, <2>3, <2>4 DEF EdgesOf
<1>14. Pursued(ws, hs, seen, own2)
  <2> SUFFICES ASSUME NEW i \in 1 .. n + 1, NEW u \in Predecessors(ws[i])
               PROVE  \/ \E l \in 1 .. k - 1 + q : own2[l] = i /\ hs[l].vf = u
                      \/ i < n + 1 /\ u = ws[i + 1]
                      \/ u \in Done(vs, vis)
    BY <1>6, <1>7, <1>11 DEF Pursued
  <2>1. CASE i = n + 1
    <3>1. PICK j \in 1 .. q : gs[j].vf = u
      BY <2>1, <1>4, <1>7
    <3> QED BY <2>1, <3>1, <1>6, <1>9, <1>10
  <2>2. CASE i \in 1 .. n
    <3>1. \/ \E l \in 1 .. k : own[l] = i /\ es[l].vf = u
          \/ i < n /\ u = vs[i + 1]
          \/ u \in Done(vs, vis)
      BY <2>2, <1>7 DEF SearchAt, Pursued, k, n
    <3>2. ASSUME NEW l \in 1 .. k, own[l] = i, es[l].vf = u
          PROVE  \/ \E m \in 1 .. k - 1 + q : own2[m] = i /\ hs[m].vf = u
                 \/ i < n + 1 /\ u = ws[i + 1]
      <4>1. CASE l \in 1 .. k - 1
        BY <4>1, <3>2, <1>6, <1>9, <1>10
      <4>2. CASE l = k
        <5>1. i = n /\ u = v
          BY <4>2, <3>2 DEF k, n, v
        <5> QED BY <5>1, <1>1, <1>7
      <4> QED BY <4>1, <4>2, <1>1
    <3>3. i < n => i + 1 \in 1 .. n /\ i < n + 1
      BY <2>2, <1>1
    <3> QED BY <3>1, <3>2, <3>3, <1>7
  <2> QED BY <2>1, <2>2, <1>8
<1>15. BaseAgain(base, ws, hs, seen, own2)
  <2> SUFFICES ASSUME base \in seen
               PROVE  \E m \in 2 .. n + 1, l \in 1 .. k - 1 + q :
                         ws[m] = base /\ own2[l] = m /\ hs[l].vf = ws[2]
    BY <1>6, <1>7 DEF BaseAgain
  <2>1. CASE base \in vis
    <3>1. PICK m \in 2 .. n, l \in 1 .. k : vs[m] = base /\ own[l] = m /\ es[l].vf = vs[2]
      BY <2>1 DEF SearchAt, BaseAgain, k, n
    <3>2. 2 \in 1 .. n /\ 2 \in 2 .. n /\ m \in 2 .. n + 1 /\ m \in 1 .. n
      BY <1>1, <3>1
    <3>3. l # k
      <4>1. vs[2] \in vis
        BY <3>2 DEF SearchAt, WayBack, n
      <4> QED BY <4>1, <3>1 DEF k
    <3>4. l \in 1 .. k - 1
      BY <3>3, <1>1
    <3> QED BY <3>1, <3>2, <3>4, <1>6, <1>7, <1>9, <1>10
  <2>2. CASE base = v
    <3>1. ws[2] \in Predecessors(base) /\ n + 1 \in 2 .. n + 1
      BY <1>1, <1>7, <1>12 DEF WayBack
    <3>2. PICK j \in 1 .. q : gs[j].vf = ws[2]
      BY <3>1, <2>2, <1>4
    <3> QED BY <2>2, <3>1, <3>2, <1>6, <1>7, <1>9, <1>10
  <2> QED BY <2>1, <2>2
<1>16. LeftBehind(ws, seen, rk)
  BY <1>11 DEF SearchAt, LeftBehind
<1> HIDE DEF seen
<1>17. SearchAt(base, ws, hs, seen, own2, rk)
  BY <1>12, <1>13, <1>14, <1>15, <1>16 DEF SearchAt
<1> QED BY <1>17 DEF ws, hs, fs, gs, seen, v, k

(* The search changes no edge. *)
LEMMA SameEdges ==
    ASSUME UNCHANGED outE
    PROVE  /\ \A x : Before(x)' = Before(x) /\ Predecessors(x)' = Predecessors(x)
           /\ \A b, vs, es, vis, o, r : SearchAt(b, vs, es, vis, o, r) => SearchAt(b, vs, es, vis, o, r)'
<1>1. \A x : Predecessors(x)' = Predecessors(x)
  BY DEF Predecessors
<1>2. \A x : Before(x)' = Before(x)
  BY <1>1 DEF Before
<1>3. \A b, vs, es, vis, o, r : SearchAt(b, vs, es, vis, o, r) => SearchAt(b, vs, es, vis, o, r)'
  <2> TAKE b, vs, es, vis, o, r
  <2>1. WayBack(b, vs, vis) => WayBack(b, vs, vis)'
    BY <1>1, <1>2 DEF WayBack
  <2>2. EdgesOf(vs, es, o) => EdgesOf(vs, es, o)'
    BY <1>1 DEF EdgesOf
  <2>3. Pursued(vs, es, vis, o) => Pursued(vs, es, vis, o)'
    BY <1>1 DEF Pursued, Done
  <2>4. BaseAgain(b, vs, es, vis, o) => BaseAgain(b, vs, es, vis, o)'
    BY DEF BaseAgain
  <2>5. LeftBehind(vs, vis, r) => LeftBehind(vs, vis, r)'
    BY <1>1 DEF LeftBehind, Done
  <2> QED BY <2>1, <2>2, <2>3, <2>4, <2>5 DEF SearchAt
<1> QED BY <1>1, <1>2, <1>3

(* A state of the search that satisfies the invariant, field by field. *)
LEMMA SearchGoesOn ==
    ASSUME UNCHANGED <<inE, outE>>, EdgesAgree,
           NEW b \in Vertices, NEW vs \in Seq(Vertices),
           NEW es \in Seq([vf : Vertices, vt : Vertices]), NEW vis \in SUBSET Vertices,
           NEW n \in Nat, n = Cardinality(vis) + 1,
           dfs' = [base |-> b, vs |-> vs, es |-> es, visited |-> vis, nv |-> n, r |-> "searching"],
           \E o, r : SearchAt(b, vs, es, vis, o, r)
    PROVE  GraphInv'
<1>1. EdgesAgree'
  BY DEF EdgesAgree
<1>2. \E o, r : SearchAt(b, vs, es, vis, o, r)'
  BY SameEdges
<1>3. /\ dfs'.base = b /\ dfs'.vs = vs /\ dfs'.es = es /\ dfs'.visited = vis /\ dfs'.nv = n
      /\ dfs' \in [base : Vertices, vs : Seq(Vertices),
                   es : Seq([vf : Vertices, vt : Vertices]), visited : SUBSET Vertices,
                   nv : Nat, r : {"searching"}]
  OBVIOUS
<1>4. \E o, r : SearchAt(dfs.base, dfs.vs, dfs.es, dfs.visited, o, r)'
  <2>1. PICK o, r : SearchAt(b, vs, es, vis, o, r)'
    BY <1>2
  <2>2. SearchAt(dfs.base, dfs.vs, dfs.es, dfs.visited, o, r)'
    BY <2>1, <1>3, Zenon
  <2> QED BY <2>2
<1> QED BY <1>1, <1>3, <1>4 DEF GraphInv, SearchInv

(* Looking at an edge goes on with the search, or has found a cycle. *)
LEMMA VisitKeeps ==
    ASSUME GraphInv, VisitEdge
    PROVE  GraphInv'
<1> DEFINE base == dfs.base
           es == dfs.es
           vis == dfs.visited
           e == Last(es)
           v == e.vf
           ws == History(dfs.vs, e)
<1>1. SearchInv /\ EdgesAgree /\ es # <<>> /\ UNCHANGED <<inE, outE>>
  BY DEF VisitEdge, Searching, GraphInv, NoSearch
<1>2. dfs' = IF v \in vis
             THEN [dfs EXCEPT !.vs = ws, !.es = Front(@), !.r = Revisit(v, ws)]
             ELSE [dfs EXCEPT !.vs = Append(ws, v), !.es = Front(@) \o InEdges(v),
                              !.visited = @ \union {v}, !.nv = @ + 1]
  BY DEF VisitEdge
<1>3. /\ dfs \in [base : Vertices, vs : Seq(Vertices),
                  es : Seq([vf : Vertices, vt : Vertices]), visited : SUBSET Vertices,
                  nv : Nat, r : {"searching"}]
      /\ dfs.nv = Cardinality(vis) + 1
  BY <1>1 DEF SearchInv
<1>4. PICK own, rk0 : SearchAt(base, dfs.vs, es, vis, own, rk0)
  BY <1>1 DEF SearchInv
<1>5. e = es[Len(es)]
  BY DEF Last
<1>6. ws = SubSeq(dfs.vs, 1, own[Len(es)])
  BY <1>1, <1>4, <1>5, HistoryIsOwn
<1>7. PICK rk : SearchAt(base, ws, es, vis, own, rk)
  <2>1. vis \subseteq Vertices
    BY <1>3
  <2> QED BY <2>1, <1>1, <1>4, <1>6, GoingBack
<1>8. Len(ws) = own[Len(es)] /\ ws \in Seq(Vertices) /\ Len(es) \in 1 .. Len(es)
  <2>1. own[Len(es)] \in 1 .. Len(dfs.vs) /\ dfs.vs \in Seq(Vertices) /\ Len(es) \in 1 .. Len(es)
    BY <1>1, <1>3, <1>4 DEF SearchAt, EdgesOf
  <2> QED BY <2>1, <1>6, <1>7, SubSeqProperties DEF SearchAt, WayBack
<1>9. EdgesAgree'
  BY <1>1 DEF EdgesAgree
<1>10. CASE v \in vis /\ v \in ToSet(ws)
  <2>1. dfs'.r = "cyclic" /\ dfs'.base = base
    BY <1>2, <1>3, <1>10 DEF Revisit
  <2>2. PICK j \in 1 .. Len(ws) : ws[j] = v
    BY <1>8, <1>10 DEF ToSet
  <2>3. v \in Before(v)
    <3>1. /\ own[Len(es)] \in 1 .. Len(ws) /\ v \in Predecessors(ws[own[Len(es)]])
      BY <1>5, <1>7, <1>8 DEF SearchAt, EdgesOf
    <3>2. v \in Predecessors(ws[Len(ws)]) /\ Len(ws) \in Nat
      BY <3>1, <1>8
    <3>3. CASE j = Len(ws)
      BY <3>2, <3>3, <2>2, BeforeIsClosed
    <3>4. CASE j # Len(ws)
      <4>1. j < Len(ws) /\ Len(ws) \in 1 .. Len(ws)
        BY <3>2, <3>4
      <4>2. ws[Len(ws)] \in Before(ws[j])
        BY <4>1, <1>7 DEF SearchAt, WayBack
      <4> QED BY <4>2, <3>2, <2>2, BeforeIsClosed
    <3> QED BY <3>3, <3>4
  <2>4. v \in {base} \union Before(base)
    BY <1>7, <1>10 DEF SearchAt, WayBack
  <2>5. \A x : Before(x)' = Before(x)
    BY <1>1, SameEdges
  <2>6. SearchIsExact'
    <3>1. \E u \in {base} \union Before(base) : u \in Before(u)
      BY <2>3, <2>4
    <3> HIDE DEF base
    <3> QED BY <3>1, <2>1, <2>5 DEF SearchIsExact
  <2> QED BY <1>9, <2>1, <2>6 DEF GraphInv
<1>11. CASE v \in vis /\ v \notin ToSet(ws)
  <2>1. dfs' = [dfs EXCEPT !.vs = ws, !.es = Front(@), !.r = "searching"]
    BY <1>2, <1>11 DEF Revisit
  <2>2. v \in Done(ws, vis)
    BY <1>11 DEF Done
  <2>3. \E own2 : SearchAt(base, ws, Front(es), vis, own2, rk)
    BY <2>2, <1>1, <1>5, <1>7, <1>8, EdgeToDone
  <2>4. Front(es) \in Seq([vf : Vertices, vt : Vertices])
    BY <1>1, <1>3, FrontOf
  <2>5. dfs' = [base |-> base, vs |-> ws, es |-> Front(es), visited |-> vis, nv |-> dfs.nv,
                r |-> "searching"]
    BY <2>1, <1>3
  <2> HIDE DEF base, es, vis, ws
  <2> QED BY <2>3, <2>4, <2>5, <1>1, <1>3, <1>8, SearchGoesOn DEF base, vis
<1>12. CASE v \notin vis
  <2>1. dfs' = [base |-> base, vs |-> Append(ws, v), es |-> Front(es) \o InEdges(v),
                visited |-> vis \union {v}, nv |-> dfs.nv + 1, r |-> "searching"]
    BY <1>2, <1>3, <1>12
  <2>2. \E own2 : SearchAt(base, Append(ws, v), Front(es) \o InEdges(v), vis \union {v}, own2, rk)
    BY <1>1, <1>3, <1>5, <1>7, <1>8, <1>12, EdgeToNew
  <2>3. PICK own2 : SearchAt(base, Append(ws, v), Front(es) \o InEdges(v), vis \union {v}, own2, rk)
    BY <2>2
  <2>4. /\ Append(ws, v) \in Seq(Vertices)
        /\ Front(es) \o InEdges(v) \in Seq([vf : Vertices, vt : Vertices])
    BY <2>3 DEF SearchAt, WayBack, EdgesOf
  <2>5. v \in Vertices
    <3>1. es \in Seq([vf : Vertices, vt : Vertices])
      BY <1>3
    <3>2. es[Len(es)] \in [vf : Vertices, vt : Vertices]
      <4> HIDE DEF es
      <4> QED BY <3>1, <1>8, ElementOfSeq
    <3> QED BY <3>2, <1>5
  <2>6. Cardinality(vis \union {v}) = Cardinality(vis) + 1 /\ Cardinality(vis) \in Nat
    BY <1>7, <1>12, FS_AddElement, FS_CardinalityType DEF SearchAt, WayBack
  <2> HIDE DEF base, es, vis, ws, v
  <2>7. dfs.nv + 1 \in Nat /\ dfs.nv + 1 = Cardinality(vis \union {v}) + 1
        /\ base \in Vertices /\ vis \union {v} \in SUBSET Vertices
    BY <1>3, <2>5, <2>6 DEF base, vis
  <2> QED BY <2>1, <2>3, <2>4, <2>7, <1>1, SearchGoesOn
<1> QED BY <1>10, <1>11, <1>12

(* Without edges left there is no cycle, and all there is was counted. *)
LEMMA NoCycleIsRight ==
    ASSUME GraphInv, NoCycle
    PROVE  GraphInv'
<1> DEFINE base == dfs.base
           vs == dfs.vs
           vis == dfs.visited
           all == vis \union {base}
<1>1. /\ SearchInv /\ dfs.es = <<>> /\ UNCHANGED <<inE, outE>>
      /\ dfs' = [dfs EXCEPT !.r = "acyclic"]
  BY DEF NoCycle, Searching, GraphInv, NoSearch
<1>2. PICK own, rk0 : SearchAt(base, vs, <<>>, vis, own, rk0)
  BY <1>1 DEF SearchInv
<1>3. base \notin vis
  <2>1. 1 .. Len(<<>>) = {}
    OBVIOUS
  <2> QED BY <2>1, <1>2 DEF SearchAt, BaseAgain
<1> DEFINE n == Len(vs)
<1>4. n \in Nat \ {0} /\ vs \in Seq(Vertices) /\ vs[1] = base /\ DOMAIN vs = 1 .. n
  BY <1>2 DEF SearchAt, WayBack
<1>5. Done(vs, vis) \union ToSet(vs) = all
  <2>1. \A i \in 1 .. n : i = 1 \/ i \in 2 .. n
    BY <1>4
  <2>2. \A i \in 1 .. n : vs[i] \in all
    BY <1>2, <1>4, <2>1 DEF SearchAt, WayBack
  <2>3. base \in ToSet(vs)
    BY <1>4 DEF ToSet
  <2> QED BY <1>4, <2>2, <2>3 DEF Done, ToSet
<1>6. ASSUME NEW i \in 1 .. n, NEW u \in Predecessors(vs[i])
      PROVE  (i < n /\ u = vs[i + 1]) \/ u \in Done(vs, vis)
  <2>1. 1 .. Len(<<>>) = {}
    OBVIOUS
  <2> QED BY <2>1, <1>2 DEF SearchAt, Pursued
<1>7. \A d \in all : Predecessors(d) \subseteq all
  <2>1. \A d \in Done(vs, vis) : Predecessors(d) \subseteq all
    BY <1>2, <1>5 DEF SearchAt, LeftBehind
  <2>2. \A i \in 1 .. n : i < n => i + 1 \in 1 .. n
    BY <1>4
  <2>3. \A i \in 1 .. n : vs[i] \in ToSet(vs)
    BY <1>4 DEF ToSet
  <2>4. \A i \in 1 .. n : Predecessors(vs[i]) \subseteq all
    BY <1>5, <1>6, <2>2, <2>3
  <2> QED BY <2>1, <2>4, <1>4, <1>5 DEF ToSet
<1>8. all \subseteq Vertices /\ base \in Vertices /\ vis \subseteq Before(base) /\ IsFiniteSet(vis)
  BY <1>2, BeforeIsClosed DEF SearchAt, WayBack
<1>9. {base} \union Before(base) = all
  <2>1. Before(base) \subseteq all
    BY <1>7, <1>8, BeforeIsLeast
  <2> QED BY <2>1, <1>8
<1>10. ASSUME NEW v \in all
       PROVE  v \notin Before(v)
  <2>1. \A j, h \in 1 .. n : vs[j] = vs[h] => j = h
    <3>1. ASSUME NEW j \in 1 .. n, NEW h \in 1 .. n, j < h
          PROVE  vs[j] # vs[h]
      <4>1. h \in 2 .. n /\ vs[h] \in vis
        BY <1>2, <1>4, <3>1 DEF SearchAt, WayBack
      <4>2. vs[j] = vs[h] => j = 1
        BY <1>2, <3>1 DEF SearchAt, WayBack
      <4> QED BY <4>1, <4>2, <1>3, <1>4
    <3>2. \A j, h \in 1 .. n : j < h \/ h < j \/ j = h
      BY <1>4
    <3> QED BY <3>1, <3>2
  <2>2. \A j \in 1 .. n : vs[j] \in Vertices \ Done(vs, vis)
    BY <1>4 DEF Done, ToSet
  <2>3. all = Done(vs, vis) \union {vs[j] : j \in 0 + 1 .. n}
    BY <1>4, <1>5 DEF ToSet
  <2>4. Done(vs, vis) \subseteq Vertices
    BY <1>8 DEF Done
  <2>5. LeftBehind(vs, vis, rk0)
    BY <1>2 DEF SearchAt
  <2>6. n \in Nat /\ 0 \in Nat /\ 0 + 1 = 1
    BY <1>4
  <2> HIDE DEF n, all
  <2>7. PICK rk \in [Vertices -> Nat] :
          \A d \in all : \A u \in Predecessors(d) : u \in all /\ rk[u] < rk[d]
    <3>1. /\ rk0 \in [Vertices -> Nat]
          /\ \E b \in Nat : \A d \in Done(vs, vis) : rk0[d] < b
          /\ \A d \in Done(vs, vis) : \A u \in Predecessors(d) : u \in Done(vs, vis) /\ rk0[u] < rk0[d]
      BY <2>5 DEF LeftBehind
    <3>2. /\ \A j, h \in 0 + 1 .. n : vs[j] = vs[h] => j = h
          /\ \A j \in 0 + 1 .. n : vs[j] \in Vertices \ Done(vs, vis)
          /\ \A j \in 0 + 1 .. n : \A u \in Predecessors(vs[j]) :
                (j < n /\ u = vs[j + 1]) \/ u \in Done(vs, vis)
      BY <1>6, <2>1, <2>2, <2>6
    <3>3. Done(vs, vis) \in SUBSET Vertices /\ n \in Nat /\ 0 \in Nat
      BY <2>4, <2>6
    <3>4. Followed(Done(vs, vis), rk0, vs, 0, n)
      BY <3>1, <3>2, <3>3 DEF Followed
    <3>5. Ranked(all)
      BY <3>4, <2>3, RanksGrow
    <3> QED BY <3>5 DEF Ranked
  <2> QED BY <2>7, <1>8, <1>10, RanksForbidCycles
<1>11. dfs'.r = "acyclic" /\ dfs'.base = base /\ dfs'.nv = Cardinality(all)
  <2>1. Cardinality(all) = Cardinality(vis) + 1
    BY <1>3, <1>8, FS_AddElement
  <2>2. dfs'.r = "acyclic" /\ dfs'.base = base /\ dfs'.nv = dfs.nv /\ dfs.nv = Cardinality(vis) + 1
    BY <1>1 DEF SearchInv
  <2> QED BY <2>1, <2>2
<1>12. SearchIsExact'
  <2>1. \A x : Before(x)' = Before(x)
    BY <1>1, SameEdges
  <2>2. ~\E u \in {base} \union Before(base) : u \in Before(u)
    BY <1>9, <1>10
  <2>3. dfs'.nv = Cardinality({base} \union Before(base))
    BY <1>9, <1>11
  <2> HIDE DEF base
  <2> QED BY <2>1, <2>2, <2>3, <1>11 DEF SearchIsExact
<1>13. EdgesAgree'
  BY <1>1 DEF EdgesAgree, GraphInv
<1> QED BY <1>11, <1>12, <1>13 DEF GraphInv

(* A search begins with the base and its incoming edges. *)
LEMMA SearchBegins ==
    ASSUME GraphInv, NEW b \in Vertices, Search(b)
    PROVE  GraphInv'
<1> DEFINE es == InEdges(b)
           own == [k \in 1 .. Len(es) |-> 1]
           rk == [v \in Vertices |-> 0]
<1>1. /\ EdgesAgree /\ UNCHANGED <<inE, outE>>
      /\ dfs' = [base |-> b, vs |-> <<b>>, es |-> es, visited |-> {}, nv |-> 1, r |-> "searching"]
  BY DEF Search, GraphInv
<1>2. inE[b] \in Seq(Vertices)
  BY <1>1 DEF EdgesAgree
<1>3. es = [j \in 1 .. Len(inE[b]) |-> [vf |-> inE[b][j], vt |-> b]]
  BY <1>2 DEF InEdges, Edge
<1>4. es \in Seq([vf : Vertices, vt : Vertices]) /\ Len(es) = Len(inE[b])
  BY <1>2, <1>3
<1>5. \A j \in 1 .. Len(es) : es[j].vt = b /\ es[j].vf = inE[b][j] /\ inE[b][j] \in Vertices
  BY <1>2, <1>3, <1>4
<1>6. \A u \in Vertices : u \in Predecessors(b) <=> \E j \in 1 .. Len(es) : es[j].vf = u
  <2>1. \A u \in Vertices : b \in outE[u] <=> \E i \in 1 .. Len(inE[b]) : inE[b][i] = u
    BY <1>1 DEF EdgesAgree
  <2> HIDE DEF es
  <2> QED BY <2>1, <1>4, <1>5 DEF Predecessors
<1>7. <<b>> \in Seq(Vertices) /\ Len(<<b>>) = 1 /\ <<b>>[1] = b /\ <<b>> # <<>> /\ 1 .. 1 = {1} /\ 2 .. 1 = {}
  OBVIOUS
<1>8. Done(<<b>>, {}) = {}
  BY DEF Done
<1> HIDE DEF es
<1>9. WayBack(b, <<b>>, {})
  BY <1>7, FS_EmptySet DEF WayBack
<1>10. EdgesOf(<<b>>, es, own)
  <2>1. own \in [1 .. Len(es) -> 1 .. Len(<<b>>)] /\ \A k \in 1 .. Len(es) : own[k] = 1
    BY <1>7
  <2> HIDE DEF own
  <2> QED BY <2>1, <1>4, <1>5, <1>6, <1>7 DEF EdgesOf
<1>11. Pursued(<<b>>, es, {}, own)
  BY <1>5, <1>6, <1>7 DEF Pursued, Predecessors
<1>12. BaseAgain(b, <<b>>, es, {}, own)
  BY DEF BaseAgain
<1>13. LeftBehind(<<b>>, {}, rk)
  BY <1>8 DEF LeftBehind
<1> HIDE DEF own, rk
<1>14. \E o, r : SearchAt(b, <<b>>, es, {}, o, r)
  BY <1>9, <1>10, <1>11, <1>12, <1>13 DEF SearchAt
<1>15. 1 \in Nat /\ 1 = Cardinality({}) + 1
  BY FS_EmptySet
<1> QED BY <1>1, <1>4, <1>7, <1>14, <1>15, SearchGoesOn

(* ygraph_add_edge: the edge is added to both lists.                        *)
LEMMA AddEdgeKeeps ==
    ASSUME GraphInv, NEW from \in Vertices, NEW to \in Vertices, AddEdge(from, to)
    PROVE  GraphInv'
<1>1. /\ dfs' = NoSearch /\ to \notin outE[from] /\ EdgesAgree
      /\ outE' = [outE EXCEPT ![from] = @ \union {to}]
      /\ inE' = [inE EXCEPT ![to] = Append(@, from)]
  BY DEF AddEdge, HasEdge, GraphInv
<1> DEFINE n == Len(inE[to])
<1>2. /\ inE[to] \in Seq(Vertices) /\ n \in Nat
      /\ \A i \in 1 .. n : inE[to][i] # from
  BY <1>1 DEF EdgesAgree
<1>3. /\ inE' \in [Vertices -> Seq(Vertices)] /\ outE' \in [Vertices -> SUBSET Vertices]
      /\ \A v \in Vertices \ {to} : inE'[v] = inE[v]
      /\ \A u \in Vertices \ {from} : outE'[u] = outE[u]
      /\ outE'[from] = outE[from] \union {to}
      /\ inE'[to] = Append(inE[to], from)
  BY <1>1 DEF EdgesAgree
<1>4. /\ Len(inE'[to]) = n + 1 /\ inE'[to][n + 1] = from
      /\ \A i \in 1 .. n : inE'[to][i] = inE[to][i]
  BY <1>2, <1>3
<1>5. /\ \A i \in 1 .. n + 1 : i = n + 1 \/ i \in 1 .. n
      /\ \A i \in 1 .. n : i \in 1 .. n + 1
      /\ n + 1 \in 1 .. n + 1
  BY <1>2
<1>6. /\ \A i, j \in 1 .. n : inE[to][i] = inE[to][j] => i = j
      /\ \A u \in Vertices : to \in outE[u] <=> \E i \in 1 .. n : inE[to][i] = u
  BY <1>1 DEF EdgesAgree
<1> HIDE DEF n
<1>7. \A i, j \in 1 .. Len(inE'[to]) : inE'[to][i] = inE'[to][j] => i = j
  BY <1>2, <1>4, <1>5, <1>6
<1>8. \A u \in Vertices : to \in outE'[u] <=> \E i \in 1 .. Len(inE'[to]) : inE'[to][i] = u
  <2>1. \A u \in Vertices : to \in outE'[u] <=> to \in outE[u] \/ u = from
    BY <1>3
  <2>2. \A u : (\E i \in 1 .. Len(inE'[to]) : inE'[to][i] = u)
               <=> u = from \/ \E i \in 1 .. n : inE[to][i] = u
    BY <1>4, <1>5
  <2> QED BY <2>1, <2>2, <1>6
<1>9. EdgesAgree'
  <2>1. \A v \in Vertices : \A i, j \in 1 .. Len(inE'[v]) : inE'[v][i] = inE'[v][j] => i = j
    BY <1>1, <1>3, <1>7 DEF EdgesAgree
  <2>2. \A u, v \in Vertices : v \in outE'[u] <=> \E i \in 1 .. Len(inE'[v]) : inE'[v][i] = u
    <3> SUFFICES ASSUME NEW u \in Vertices, NEW v \in Vertices, v # to
                 PROVE  v \in outE'[u] <=> \E i \in 1 .. Len(inE'[v]) : inE'[v][i] = u
      BY <1>8
    <3>1. v \in outE'[u] <=> v \in outE[u]
      BY <1>3
    <3> QED BY <3>1, <1>1, <1>3 DEF EdgesAgree
  <2> QED BY <1>3, <2>1, <2>2 DEF EdgesAgree
<1> QED BY <1>1, <1>9 DEF GraphInv

(* Taking the source u out of the incoming edges of v, where it is once at  *)
(* most.                                                                    *)
LEMMA EdgeTakenOut ==
    ASSUME EdgesAgree, NEW u \in Vertices, NEW v \in Vertices
    PROVE  /\ RemoveFirst(inE[v], u) \in Seq(Vertices)
           /\ \A i, j \in 1 .. Len(RemoveFirst(inE[v], u)) :
                 RemoveFirst(inE[v], u)[i] = RemoveFirst(inE[v], u)[j] => i = j
           /\ \A w \in Vertices :
                 (\E i \in 1 .. Len(RemoveFirst(inE[v], u)) : RemoveFirst(inE[v], u)[i] = w)
                 <=> w # u /\ v \in outE[w]
<1> DEFINE s == inE[v]
           t == RemoveFirst(s, u)
           n == Len(s)
<1>1. /\ s \in Seq(Vertices) /\ n \in Nat
      /\ \A i, j \in 1 .. n : s[i] = s[j] => i = j
      /\ \A w \in Vertices : v \in outE[w] <=> \E i \in 1 .. n : s[i] = w
  BY DEF EdgesAgree
<1> HIDE DEF s
<1>2. CASE \A i \in 1 .. n : s[i] # u
  <2>1. t = s
    <3>1. ~\E i \in 1 .. Len(s) : s[i] = u
      BY <1>2
    <3> QED BY <3>1 DEF RemoveFirst
  <2>2. \A w \in Vertices : (\E i \in 1 .. n : s[i] = w) <=> w # u /\ v \in outE[w]
    BY <1>1, <1>2
  <2> QED BY <2>1, <2>2, <1>1 DEF s
<1>3. CASE \E i \in 1 .. n : s[i] = u
  <2>1. PICK k \in 1 .. n : s[k] = u
    BY <1>3
  <2>2. /\ t \in Seq(Vertices) /\ Len(t) = n - 1
        /\ \A i \in 1 .. n - 1 : t[i] = IF i < k THEN s[i] ELSE s[i + 1]
    BY <1>1, <2>1, RemoveFirstEffect
  <2> DEFINE old(i) == IF i < k THEN i ELSE i + 1
  <2> HIDE DEF n, t
  <2>3. /\ \A i \in 1 .. n - 1 : old(i) \in 1 .. n /\ old(i) # k
        /\ \A i, j \in 1 .. n - 1 : old(i) = old(j) => i = j
    BY <1>1
  <2>4. ASSUME NEW j \in 1 .. n, j # k
        PROVE  \E i \in 1 .. n - 1 : old(i) = j
    <3>1. CASE j < k
      <4>1. j \in 1 .. n - 1 /\ old(j) = j
        BY <1>1, <3>1
      <4> QED BY <4>1
    <3>2. CASE ~(j < k)
      <4>1. j - 1 \in 1 .. n - 1 /\ old(j - 1) = j
        BY <1>1, <2>4, <3>2
      <4> QED BY <4>1
    <3> QED BY <3>1, <3>2
  <2>5. \A i \in 1 .. n - 1 : t[i] = s[old(i)]
    BY <2>2
  <2> HIDE DEF old
  <2>6. \A i, j \in 1 .. n - 1 : t[i] = t[j] => i = j
    BY <2>3, <2>5, <1>1
  <2>7. \A w \in Vertices : (\E i \in 1 .. n - 1 : t[i] = w) <=> w # u /\ \E j \in 1 .. n : s[j] = w
    <3> TAKE w \in Vertices
    <3>1. ASSUME NEW i \in 1 .. n - 1, t[i] = w
          PROVE  w # u /\ \E j \in 1 .. n : s[j] = w
      <4>1. old(i) \in 1 .. n /\ old(i) # k /\ s[old(i)] = w
        BY <3>1, <2>3, <2>5
      <4>2. s[old(i)] # s[k]
        BY <4>1, <1>1
      <4> QED BY <4>1, <4>2, <2>1
    <3>2. ASSUME w # u, NEW j \in 1 .. n, s[j] = w
          PROVE  \E i \in 1 .. n - 1 : t[i] = w
      <4>1. j # k
        BY <3>2, <2>1
      <4>2. PICK i \in 1 .. n - 1 : old(i) = j
        BY <4>1, <2>4
      <4> QED BY <4>2, <3>2, <2>5
    <3> QED BY <3>1, <3>2
  <2> QED BY <2>2, <2>6, <2>7, <1>1 DEF t, s
<1> QED BY <1>2, <1>3

(* ygraph_remove_edge: it leaves both.                                      *)
LEMMA RemoveEdgeKeeps ==
    ASSUME GraphInv, NEW from \in Vertices, NEW to \in Vertices, RemoveEdge(from, to)
    PROVE  GraphInv'
<1>1. /\ dfs' = NoSearch /\ EdgesAgree
      /\ outE' = [outE EXCEPT ![from] = @ \ {to}]
      /\ inE' = [inE EXCEPT ![to] = RemoveFirst(@, from)]
  BY DEF RemoveEdge, GraphInv
<1> DEFINE t == RemoveFirst(inE[to], from)
<1>2. /\ t \in Seq(Vertices)
      /\ \A i, j \in 1 .. Len(t) : t[i] = t[j] => i = j
      /\ \A w \in Vertices : (\E i \in 1 .. Len(t) : t[i] = w) <=> w # from /\ to \in outE[w]
  BY <1>1, EdgeTakenOut
<1> HIDE DEF t
<1>3. /\ inE' \in [Vertices -> Seq(Vertices)] /\ outE' \in [Vertices -> SUBSET Vertices]
      /\ \A v \in Vertices \ {to} : inE'[v] = inE[v]
      /\ \A u \in Vertices \ {from} : outE'[u] = outE[u]
      /\ outE'[from] = outE[from] \ {to}
      /\ inE'[to] = t
  BY <1>1, <1>2 DEF EdgesAgree, t
<1>4. \A v \in Vertices : \A i, j \in 1 .. Len(inE'[v]) : inE'[v][i] = inE'[v][j] => i = j
  BY <1>1, <1>2, <1>3 DEF EdgesAgree
<1>5. \A u, v \in Vertices : v \in outE'[u] <=> \E i \in 1 .. Len(inE'[v]) : inE'[v][i] = u
  <2> TAKE u, v \in Vertices
  <2>1. CASE v = to
    <3>1. v \in outE'[u] <=> u # from /\ to \in outE[u]
      BY <2>1, <1>3
    <3> QED BY <3>1, <2>1, <1>2, <1>3
  <2>2. CASE v # to
    <3>1. v \in outE'[u] <=> v \in outE[u]
      BY <2>2, <1>3
    <3> QED BY <3>1, <2>2, <1>1, <1>3 DEF EdgesAgree
  <2> QED BY <2>1, <2>2
<1> QED BY <1>1, <1>3, <1>4, <1>5 DEF GraphInv, EdgesAgree

(* ygraph_remove_vertex: so do all the edges of the vertex.                 *)
LEMMA RemoveVertexKeeps ==
    ASSUME GraphInv, NEW x \in Vertices, RemoveVertex(x)
    PROVE  GraphInv'
<1>1. /\ dfs' = NoSearch /\ EdgesAgree
      /\ outE' = [u \in Vertices |-> IF u = x THEN {} ELSE outE[u] \ {x}]
      /\ inE' = [u \in Vertices |-> IF u = x THEN <<>> ELSE RemoveFirst(inE[u], x)]
  BY DEF RemoveVertex, GraphInv
<1>2. /\ inE' \in [Vertices -> Seq(Vertices)] /\ outE' \in [Vertices -> SUBSET Vertices]
      /\ inE'[x] = <<>> /\ outE'[x] = {}
      /\ \A v \in Vertices \ {x} : inE'[v] = RemoveFirst(inE[v], x) /\ outE'[v] = outE[v] \ {x}
  BY <1>1, EdgeTakenOut DEF EdgesAgree
<1>3. \A v \in Vertices : \A i, j \in 1 .. Len(inE'[v]) : inE'[v][i] = inE'[v][j] => i = j
  <2> TAKE v \in Vertices
  <2>1. CASE v = x
    BY <2>1, <1>2
  <2>2. CASE v # x
    BY <2>2, <1>1, <1>2, EdgeTakenOut
  <2> QED BY <2>1, <2>2
<1>4. \A u, v \in Vertices : v \in outE'[u] <=> \E i \in 1 .. Len(inE'[v]) : inE'[v][i] = u
  <2> TAKE u, v \in Vertices
  <2>1. CASE v = x
    <3>1. 1 .. Len(inE'[v]) = {} /\ v \notin outE'[u]
      BY <2>1, <1>2
    <3> QED BY <3>1
  <2>2. CASE v # x
    <3>1. v \in outE'[u] <=> u # x /\ v \in outE[u]
      BY <2>2, <1>2
    <3>2. (\E i \in 1 .. Len(inE'[v]) : inE'[v][i] = u) <=> u # x /\ v \in outE[u]
      BY <2>2, <1>1, <1>2, EdgeTakenOut
    <3> QED BY <3>1, <3>2
  <2> QED BY <2>1, <2>2
<1> QED BY <1>1, <1>2, <1>3, <1>4 DEF GraphInv, EdgesAgree

(* Every step keeps the invariant. *)
LEMMA GraphStep ==
    ASSUME GraphInv, [GraphNext]_graphVars
    PROVE  GraphInv'
<1>1. CASE UNCHANGED graphVars
  <2>1. UNCHANGED <<inE, outE, dfs>>
    BY <1>1 DEF graphVars
  <2>2. EdgesAgree'
    BY <2>1 DEF GraphInv, EdgesAgree
  <2>3. CASE dfs = NoSearch
    BY <2>1, <2>2, <2>3 DEF GraphInv, NoSearch
  <2>4. CASE SearchInv
    <3>1. /\ dfs \in [base : Vertices, vs : Seq(Vertices),
                    es : Seq([vf : Vertices, vt : Vertices]), visited : SUBSET Vertices,
                    nv : Nat, r : {"searching"}]
          /\ dfs.nv = Cardinality(dfs.visited) + 1
          /\ \E o, r : SearchAt(dfs.base, dfs.vs, dfs.es, dfs.visited, o, r)
      BY <2>4 DEF SearchInv
    <3>2. dfs' = [base |-> dfs.base, vs |-> dfs.vs, es |-> dfs.es, visited |-> dfs.visited,
                  nv |-> dfs.nv, r |-> "searching"]
      BY <3>1, <2>1
    <3> QED BY <3>1, <3>2, <2>1, SearchGoesOn DEF GraphInv
  <2>5. CASE dfs.r \in {"cyclic", "acyclic"} /\ SearchIsExact
    <3>1. SearchIsExact'
      BY <2>1, <2>5 DEF SearchIsExact, Before, Predecessors
    <3> QED BY <3>1, <2>1, <2>2, <2>5 DEF GraphInv
  <2> QED BY <2>3, <2>4, <2>5 DEF GraphInv
<1>2. CASE SearchFails \/ Answered
  <2>1. dfs' = NoSearch /\ UNCHANGED <<inE, outE>>
    BY <1>2 DEF SearchFails, Answered
  <2>2. EdgesAgree'
    BY <2>1 DEF GraphInv, EdgesAgree
  <2> QED BY <2>1, <2>2 DEF GraphInv
<1> QED BY <1>1, <1>2, AddEdgeKeeps, RemoveEdgeKeeps, RemoveVertexKeeps, SearchBegins, VisitKeeps,
           NoCycleIsRight DEF GraphNext

(* Lists that agree have each edge once, and the answer is right. *)
LEMMA GraphInvImplies ==
    ASSUME GraphInv
    PROVE  GraphExact
<1>1. EdgesAtBothEnds
  <2> SUFFICES ASSUME NEW u \in Vertices, NEW v \in Vertices
               PROVE  Cardinality({i \in DOMAIN inE[v] : inE[v][i] = u})
                        = (IF v \in outE[u] THEN 1 ELSE 0)
    BY DEF EdgesAtBothEnds
  <2> DEFINE P == {i \in DOMAIN inE[v] : inE[v][i] = u}
  <2>1. /\ DOMAIN inE[v] = 1 .. Len(inE[v])
        /\ \A i, j \in 1 .. Len(inE[v]) : inE[v][i] = inE[v][j] => i = j
        /\ v \in outE[u] <=> \E i \in 1 .. Len(inE[v]) : inE[v][i] = u
    BY DEF GraphInv, EdgesAgree
  <2>2. CASE v \in outE[u]
    <3>1. PICK i \in 1 .. Len(inE[v]) : inE[v][i] = u
      BY <2>1, <2>2
    <3>2. P = {i}
      BY <3>1, <2>1
    <3> QED BY <3>2, <2>2, FS_Singleton
  <2>3. CASE v \notin outE[u]
    <3>1. P = {}
      BY <2>1, <2>3
    <3> QED BY <3>1, <2>3, FS_EmptySet
  <2> QED BY <2>2, <2>3
<1>2. SearchIsExact
  BY DEF GraphInv, SearchInv, SearchIsExact, NoSearch
<1> QED BY <1>1, <1>2 DEF GraphExact

(* graph.c: the two lists of every vertex agree whatever edges and vertices *)
(* come and go, and ygraph_has_cycle answers right, for any graph: that     *)
(* there is a cycle exactly when one leads to the base, and without one the *)
(* number of vertices from which the base can be reached.                   *)
THEOREM SearchAnswersRight == GraphSpec => []GraphExact
<1>1. GraphInit => GraphInv
  <2> SUFFICES ASSUME GraphInit PROVE GraphInv
    OBVIOUS
  <2>1. \A v \in Vertices : inE[v] = <<>> /\ 1 .. Len(inE[v]) = {} /\ outE[v] = {}
    BY DEF GraphInit
  <2>2. inE \in [Vertices -> Seq(Vertices)] /\ outE \in [Vertices -> SUBSET Vertices] /\ dfs = NoSearch
    BY DEF GraphInit
  <2> QED BY <2>1, <2>2 DEF GraphInv, EdgesAgree
<1>2. GraphInv /\ [GraphNext]_graphVars => GraphInv'
  BY GraphStep
<1>3. GraphInv => GraphExact
  BY GraphInvImplies
<1> QED BY <1>1, <1>2, <1>3, PTL DEF GraphSpec

------------------------------------------------------------------------------
(* The LRU cache. *)
(* g has the sums of the first numbers of w. *)
Sums(g, w) == /\ g \in [0 .. Len(w) -> Int]
              /\ g[0] = 0
              /\ \A i \in 1 .. Len(w) : g[i] = g[i - 1] + w[i]

(* Such a function exists. *)
LEMMA SumsExist ==
    ASSUME NEW w \in Seq(Int)
    PROVE  \E g : Sums(g, w)
<1> DEFINE Part(g, n) == /\ g \in [0 .. n -> Int] /\ g[0] = 0
                         /\ \A i \in 1 .. n : g[i] = g[i - 1] + w[i]
           T == {n \in 0 .. Len(w) : \E g : Part(g, n)}
<1>1. Len(w) \in Nat /\ \A i \in 1 .. Len(w) : w[i] \in Int
  BY ElementOfSeq
<1>2. 0 \in T
  <2>1. Part([i \in 0 .. 0 |-> 0], 0)
    OBVIOUS
  <2> HIDE DEF Part
  <2> QED BY <1>1, <2>1
<1>3. ASSUME NEW n \in 0 .. Len(w) - 1, n \in T
      PROVE  n + 1 \in T
  <2>1. PICK g : Part(g, n)
    BY <1>3
  <2> DEFINE h == [i \in 0 .. n + 1 |-> IF i = n + 1 THEN g[n] + w[n + 1] ELSE g[i]]
  <2>2. n \in Nat /\ n + 1 \in 1 .. Len(w) /\ w[n + 1] \in Int /\ g[n] \in Int
    BY <1>1, <2>1
  <2>3. h \in [0 .. n + 1 -> Int] /\ h[0] = 0
    BY <2>1, <2>2
  <2>4. ASSUME NEW i \in 1 .. n + 1
        PROVE  h[i] = h[i - 1] + w[i]
    <3>1. CASE i = n + 1
      <4>1. i - 1 = n /\ i - 1 \in 0 .. n + 1 /\ i - 1 # n + 1
        BY <2>2, <3>1
      <4> QED BY <2>2, <3>1, <4>1
    <3>2. CASE i # n + 1
      <4>1. i \in 1 .. n /\ i - 1 \in 0 .. n + 1 /\ i - 1 # n + 1
        BY <2>2, <3>2
      <4> QED BY <2>1, <3>2, <4>1
    <3> QED BY <3>1, <3>2
  <2>5. Part(h, n + 1)
    BY <2>3, <2>4
  <2> HIDE DEF Part
  <2> QED BY <1>1, <2>2, <2>5
<1>4. 0 .. Len(w) \subseteq T
  BY <1>1, <1>2, <1>3, UpTo
<1>5. \E g : Part(g, Len(w))
  <2>1. Len(w) \in T
    <3> HIDE DEF T
    <3> QED BY <1>1, <1>4
  <2> HIDE DEF Part
  <2> QED BY <2>1
<1> QED BY <1>5 DEF Sums

(* There is no other. *)
LEMMA SumsUnique ==
    ASSUME NEW w \in Seq(Int), NEW g, NEW h, Sums(g, w), Sums(h, w)
    PROVE  g[Len(w)] = h[Len(w)]
<1> DEFINE T == {n \in 0 .. Len(w) : g[n] = h[n]}
<1>1. Len(w) \in Nat
  OBVIOUS
<1>2. 0 \in T
  BY <1>1 DEF Sums
<1>3. \A i \in 0 .. Len(w) - 1 : i \in T => i + 1 \in T
  BY <1>1 DEF Sums
<1>4. 0 .. Len(w) \subseteq T
  BY <1>1, <1>2, <1>3, UpTo
<1> QED BY <1>1, <1>4

(* The total is what any such function says. *)
LEMMA SumIs ==
    ASSUME NEW w \in Seq(Int), NEW g, Sums(g, w)
    PROVE  SumOf(w) = g[Len(w)]
<1> DEFINE Next(f) == [i \in 0 .. Len(w) |-> IF i = 0 THEN 0 ELSE f[i - 1] + w[i]]
           sum == CHOOSE f : f = Next(f)
<1>1. Len(w) \in Nat /\ \A i \in 1 .. Len(w) : w[i] \in Int
  BY ElementOfSeq
<1>2. g = Next(g)
  <2>1. \A i \in 0 .. Len(w) : g[i] = Next(g)[i]
    BY <1>1 DEF Sums
  <2> QED BY <2>1 DEF Sums
<1>3. sum = Next(sum)
  <2> HIDE DEF Next
  <2> QED BY <1>2
<1>4. SumOf(w) = sum[Len(w)]
  BY DEF SumOf
<1> HIDE DEF sum
<1>5. sum[0] = 0 /\ \A i \in 1 .. Len(w) : sum[i] = sum[i - 1] + w[i]
  BY <1>1, <1>3
<1> DEFINE T == {n \in 0 .. Len(w) : g[n] = sum[n]}
<1>6. 0 \in T
  BY <1>1, <1>5 DEF Sums
<1>7. \A i \in 0 .. Len(w) - 1 : i \in T => i + 1 \in T
  BY <1>1, <1>5 DEF Sums
<1>8. 0 .. Len(w) \subseteq T
  BY <1>1, <1>6, <1>7, UpTo
<1> QED BY <1>1, <1>4, <1>8

(* The total of a part and of the rest. *)
LEMMA SumParts ==
    ASSUME NEW w \in Seq(Int), NEW n \in 0 .. Len(w)
    PROVE  /\ SumOf(w) \in Int
           /\ SumOf(w) = SumOf(SubSeq(w, 1, n)) + SumOf(SubSeq(w, n + 1, Len(w)))
           /\ SumOf(SubSeq(w, n + 1, Len(w))) \in Int
<1> DEFINE a == SubSeq(w, 1, n)
           b == SubSeq(w, n + 1, Len(w))
<1>1. PICK g : Sums(g, w)
  BY SumsExist
<1>2. Len(w) \in Nat /\ n \in Nat /\ n <= Len(w)
  OBVIOUS
<1>3. a \in Seq(Int) /\ Len(a) = n /\ \A i \in 1 .. n : a[i] = w[i]
  BY <1>2, SubSeqProperties
<1>4. b \in Seq(Int) /\ Len(b) = Len(w) - n /\ \A i \in 1 .. Len(w) - n : b[i] = w[n + i]
  BY <1>2, SubSeqProperties
<1> HIDE DEF a, b
<1> DEFINE ga == [i \in 0 .. n |-> g[i]]
           gb == [i \in 0 .. Len(w) - n |-> g[n + i] - g[n]]
<1>0. \A i \in 0 .. Len(w) : g[i] \in Int
  BY <1>1 DEF Sums
<1>5. Sums(ga, a)
  <2>1. ga \in [0 .. n -> Int] /\ ga[0] = 0
    BY <1>0, <1>1, <1>2 DEF Sums
  <2>2. ASSUME NEW i \in 1 .. n
        PROVE  ga[i] = ga[i - 1] + a[i]
    <3>1. i \in 1 .. Len(w) /\ i \in 0 .. n /\ i - 1 \in 0 .. n
      BY <1>2
    <3> QED BY <1>1, <1>3, <3>1 DEF Sums
  <2> HIDE DEF ga
  <2> QED BY <1>3, <2>1, <2>2 DEF Sums
<1>6. Sums(gb, b)
  <2>1. \A i \in 0 .. Len(w) : g[i] \in Int
    BY <1>1 DEF Sums
  <2>2. \A i \in 0 .. Len(w) - n : n + i \in 0 .. Len(w)
    BY <1>2
  <2>5. g[n] \in Int /\ \A i \in 0 .. Len(w) - n : g[n + i] - g[n] \in Int
    BY <1>2, <2>1, <2>2
  <2>6. gb[0] = 0
    <3>1. gb[0] = g[n + 0] - g[n] /\ n + 0 = n
      BY <1>2
    <3> QED BY <2>5, <3>1
  <2>3. gb \in [0 .. Len(b) -> Int] /\ gb[0] = 0
    BY <1>4, <2>5, <2>6
  <2>4. ASSUME NEW i \in 1 .. Len(b)
        PROVE  gb[i] = gb[i - 1] + b[i]
    <3>1. i \in 0 .. Len(w) - n /\ i - 1 \in 0 .. Len(w) - n /\ n + i \in 1 .. Len(w)
      BY <1>2, <1>4
    <3>2. g[n + i] = g[(n + i) - 1] + w[n + i] /\ (n + i) - 1 = n + (i - 1)
      BY <1>1, <1>2, <3>1 DEF Sums
    <3>3. gb[i] = g[n + i] - g[n] /\ gb[i - 1] = g[n + (i - 1)] - g[n] /\ b[i] = w[n + i]
      BY <1>4, <3>1
    <3>4. g[n] \in Int /\ g[n + i] \in Int /\ g[n + (i - 1)] \in Int /\ w[n + i] \in Int
      BY <1>2, <2>1, <2>2, <3>1, ElementOfSeq
    <3>5. g[n + i] = g[n + (i - 1)] + w[n + i]
      BY <3>2
    <3> HIDE DEF gb
    <3> QED BY <3>3, <3>4, <3>5
  <2> QED BY <2>3, <2>4 DEF Sums
<1>7. SumOf(w) = g[Len(w)] /\ SumOf(a) = ga[n] /\ SumOf(b) = gb[Len(w) - n]
  BY <1>1, <1>3, <1>4, <1>5, <1>6, SumIs
<1>8. g[n] \in Int /\ g[Len(w)] \in Int
  BY <1>1, <1>2 DEF Sums
<1>9. ga[n] = g[n] /\ gb[Len(w) - n] = g[Len(w)] - g[n]
  BY <1>2
<1> QED BY <1>7, <1>8, <1>9 DEF a, b

(* Nothing adds up to nothing. *)
LEMMA EmptySum == SumOf(<< >>) = 0
<1> DEFINE w == << >>
           g == [i \in 0 .. 0 |-> 0]
<1>1. w \in Seq(Int) /\ Len(w) = 0
  OBVIOUS
<1>2. Sums(g, w)
  BY <1>1 DEF Sums
<1>3. SumOf(w) = g[Len(w)]
  BY <1>1, <1>2, SumIs
<1> QED BY <1>1, <1>3

(* A number more at the beginning. *)
LEMMA SumLonger ==
    ASSUME NEW w \in Seq(Int), NEW v \in Seq(Int),
           Len(v) = Len(w) + 1, \A i \in 1 .. Len(w) : v[i + 1] = w[i]
    PROVE  SumOf(v) = v[1] + SumOf(w)
<1> DEFINE x == v[1]
<1>0. x \in Int
  <2>1. 1 \in 1 .. Len(v)
    OBVIOUS
  <2> QED BY <2>1, ElementOfSeq
<1> HIDE DEF x
<1>1. PICK g : Sums(g, w)
  BY SumsExist
<1>2. Len(w) \in Nat
  OBVIOUS
<1> DEFINE h == [i \in 0 .. Len(w) + 1 |-> IF i = 0 THEN 0 ELSE x + g[i - 1]]
<1>3. \A i \in 0 .. Len(w) : g[i] \in Int
  BY <1>1 DEF Sums
<1>4. h \in [0 .. Len(v) -> Int] /\ h[0] = 0
  <2>1. \A i \in 0 .. Len(w) + 1 : i # 0 => i - 1 \in 0 .. Len(w)
    BY <1>2
  <2>3. ASSUME NEW i \in 0 .. Len(w) + 1
        PROVE  (IF i = 0 THEN 0 ELSE x + g[i - 1]) \in Int
    <3>1. i # 0 => g[i - 1] \in Int
      BY <1>3, <2>1
    <3> QED BY <1>0, <3>1
  <2>2. h \in [0 .. Len(w) + 1 -> Int]
    BY <2>3
  <2> QED BY <1>2, <2>2
<1>5. ASSUME NEW i \in 1 .. Len(v)
      PROVE  h[i] = h[i - 1] + v[i]
  <2>1. CASE i = 1
    <3>1. h[1] = x + g[0] /\ h[0] = 0
      BY <1>2
    <3> QED BY <1>0, <1>1, <2>1, <3>1 DEF Sums, x
  <2>2. CASE i # 1
    <3>1. i - 1 \in 1 .. Len(w) /\ i \in 0 .. Len(w) + 1 /\ i - 1 \in 0 .. Len(w) + 1
          /\ i # 0 /\ i - 1 # 0 /\ (i - 1) + 1 = i
      BY <1>2, <2>2
    <3>2. h[i] = x + g[i - 1] /\ h[i - 1] = x + g[(i - 1) - 1] /\ v[i] = w[i - 1]
      BY <3>1
    <3>3. g[i - 1] = g[(i - 1) - 1] + w[i - 1]
      BY <1>1, <3>1 DEF Sums
    <3>4. g[(i - 1) - 1] \in Int /\ w[i - 1] \in Int
      BY <1>2, <1>3, <3>1, ElementOfSeq
    <3> QED BY <1>0, <3>2, <3>3, <3>4
  <2> QED BY <2>1, <2>2
<1>6. Sums(h, v)
  BY <1>4, <1>5 DEF Sums
<1>7. SumOf(w) = g[Len(w)] /\ SumOf(v) = h[Len(w) + 1]
  BY <1>1, <1>6, SumIs
<1> QED BY <1>2, <1>7 DEF x

(* A number less in the middle. *)
LEMMA SumShorter ==
    ASSUME NEW w \in Seq(Int), NEW k \in 1 .. Len(w), NEW v \in Seq(Int),
           Len(v) = Len(w) - 1,
           \A i \in 1 .. Len(w) - 1 : v[i] = IF i < k THEN w[i] ELSE w[i + 1]
    PROVE  SumOf(v) = SumOf(w) - w[k]
<1>1. PICK g : Sums(g, w)
  BY SumsExist
<1>2. Len(w) \in Nat /\ k \in Nat /\ w[k] \in Int
  BY ElementOfSeq
<1> DEFINE h == [i \in 0 .. Len(w) - 1 |-> IF i < k THEN g[i] ELSE g[i + 1] - w[k]]
<1>3. \A i \in 0 .. Len(w) : g[i] \in Int
  BY <1>1 DEF Sums
<1>4. h \in [0 .. Len(v) -> Int] /\ h[0] = 0
  <2>1. \A i \in 0 .. Len(w) - 1 : i \in 0 .. Len(w) /\ i + 1 \in 0 .. Len(w)
    BY <1>2
  <2>4. \A i \in 0 .. Len(w) - 1 : (IF i < k THEN g[i] ELSE g[i + 1] - w[k]) \in Int
    BY <1>2, <1>3, <2>1
  <2>2. h \in [0 .. Len(w) - 1 -> Int]
    BY <2>4
  <2>3. h[0] = 0
    BY <1>1, <1>2 DEF Sums
  <2> QED BY <2>2, <2>3
<1>5. ASSUME NEW i \in 1 .. Len(v)
      PROVE  h[i] = h[i - 1] + v[i]
  <2>1. i \in 0 .. Len(w) - 1 /\ i - 1 \in 0 .. Len(w) - 1 /\ i \in 1 .. Len(w)
        /\ i + 1 \in 1 .. Len(w) /\ (i - 1) + 1 = i /\ (i + 1) - 1 = i
    BY <1>2
  <2>2. g[i] = g[i - 1] + w[i] /\ g[i + 1] = g[i] + w[i + 1]
    BY <1>1, <2>1 DEF Sums
  <2>3. /\ g[i] \in Int /\ g[i - 1] \in Int /\ w[i] \in Int
        /\ g[i + 1] \in Int /\ w[i + 1] \in Int
    <3>1. i \in 0 .. Len(w) /\ i - 1 \in 0 .. Len(w) /\ i + 1 \in 0 .. Len(w)
      BY <1>2, <2>1
    <3>2. w[i] \in Int /\ w[i + 1] \in Int
      BY <2>1, ElementOfSeq
    <3> QED BY <1>3, <3>1, <3>2
  <2>4. v[i] = IF i < k THEN w[i] ELSE w[i + 1]
    BY <1>2, <2>1
  <2>5. /\ h[i] = IF i < k THEN g[i] ELSE g[i + 1] - w[k]
        /\ h[i - 1] = IF i - 1 < k THEN g[i - 1] ELSE g[i] - w[k]
    BY <2>1
  <2> HIDE DEF h
  <2>6. i \in Int /\ k \in Int
    BY <1>2, <2>1
  <2>10. /\ g[i + 1] - w[i] = g[i - 1] + w[i + 1]
         /\ \A x \in Int : g[i + 1] - x = (g[i] - x) + w[i + 1]
    <3> DEFINE a == g[i - 1]
               b == g[i]
               c == g[i + 1]
               d == w[i]
               e == w[i + 1]
    <3>1. /\ b = a + d /\ c = b + e
          /\ a \in Int /\ b \in Int /\ c \in Int /\ d \in Int /\ e \in Int
      BY <2>2, <2>3
    <3> HIDE DEF a, b, c, d, e
    <3>2. c - d = a + e
      BY <3>1
    <3>3. ASSUME NEW x \in Int PROVE c - x = (b - x) + e
      BY <3>1
    <3> QED BY <3>2, <3>3 DEF a, b, c, d, e
  <2>7. CASE i < k
    BY <2>2, <2>3, <2>4, <2>5, <2>6, <2>7
  <2>8. CASE i = k
    <3>1. i - 1 < k /\ ~(i < k)
      BY <2>6, <2>8
    <3>2. h[i] = g[i + 1] - w[k] /\ h[i - 1] = g[i - 1] /\ v[i] = w[i + 1] /\ w[k] = w[i]
      BY <2>4, <2>5, <2>8, <3>1
    <3>3. g[i + 1] - w[i] = g[i - 1] + w[i + 1]
      BY <2>10
    <3> HIDE DEF h
    <3> QED BY <3>2, <3>3
  <2>9. CASE i > k
    <3>1. ~(i - 1 < k) /\ ~(i < k)
      BY <2>6, <2>9
    <3>2. h[i] = g[i + 1] - w[k] /\ h[i - 1] = g[i] - w[k] /\ v[i] = w[i + 1]
      BY <2>4, <2>5, <3>1
    <3>3. g[i + 1] - w[k] = (g[i] - w[k]) + w[i + 1]
      BY <1>2, <2>10
    <3> HIDE DEF h
    <3> QED BY <3>2, <3>3
  <2> QED BY <2>6, <2>7, <2>8, <2>9
<1>6. Sums(h, v)
  BY <1>4, <1>5 DEF Sums
<1>7. SumOf(w) = g[Len(w)] /\ SumOf(v) = h[Len(w) - 1]
  BY <1>1, <1>6, SumIs
<1>8. h[Len(w) - 1] = g[Len(w)] - w[k]
  <2>1. Len(w) - 1 \in 0 .. Len(w) - 1 /\ (Len(w) - 1) + 1 = Len(w)
    BY <1>2
  <2>2. CASE Len(w) - 1 < k
    <3>1. k = Len(w) /\ h[Len(w) - 1] = g[Len(w) - 1]
      BY <1>2, <2>1, <2>2
    <3>2. g[Len(w)] = g[Len(w) - 1] + w[Len(w)]
      BY <1>1, <1>2, <3>1 DEF Sums
    <3>3. g[Len(w) - 1] \in Int
      BY <1>3, <2>1, <1>2
    <3> HIDE DEF h
    <3> QED BY <1>2, <3>1, <3>2, <3>3
  <2>3. CASE ~(Len(w) - 1 < k)
    BY <2>1, <2>3
  <2> QED BY <2>2, <2>3
<1> QED BY <1>7, <1>8

------------------------------------------------------------------------------
(* The cache. *)
(* A list, an index and nodes that agree: the linked nodes are the allocated *)
(* ones, and each is the node of its key.                                    *)
CacheLinked(ord, ix, nd) ==
    /\ ord \in Seq(CacheNodes)
    /\ \A i, j \in 1 .. Len(ord) : ord[i] = ord[j] => i = j
    /\ \A i \in 1 .. Len(ord) : ord[i] \in DOMAIN nd
    /\ \A n \in DOMAIN nd : /\ \E i \in 1 .. Len(ord) : ord[i] = n
                            /\ nd[n].size \in Nat
                            /\ nd[n].key \in DOMAIN ix
                            /\ ix[nd[n].key] = n
    /\ \A k \in DOMAIN ix : ix[k] \in DOMAIN nd /\ nd[ix[k]].key = k

(* The sizes of the nodes of a list. *)
Sizes(nd, s) == [i \in 1 .. Len(s) |-> nd[s[i]].size]

(* The inductive invariant of the cache. *)
LruInv == /\ CacheLinked(order, lruIndex, node)
          /\ lruSize = SumOf(Sizes(node, order))
          /\ lruSize <= MaxSize

(* The sizes are numbers. *)
LEMMA SizesType ==
    ASSUME NEW ord, NEW ix, NEW nd, CacheLinked(ord, ix, nd)
    PROVE  /\ Sizes(nd, ord) \in Seq(Int) /\ Len(Sizes(nd, ord)) = Len(ord)
           /\ \A i \in 1 .. Len(ord) : Sizes(nd, ord)[i] \in Nat
<1>1. Len(ord) \in Nat
  BY DEF CacheLinked
<1>2. \A i \in 1 .. Len(ord) : nd[ord[i]].size \in Nat
  BY DEF CacheLinked
<1> QED BY <1>1, <1>2 DEF Sizes

(* The older nodes, and what they hold. *)
LEMMA OlderEffect ==
    ASSUME LruInv, NEW i \in 0 .. Len(order)
    PROVE  /\ Older(i) \in Seq(CacheNodes) /\ Len(Older(i)) = Len(order) - i
           /\ \A j \in 1 .. Len(order) - i : Older(i)[j] = order[i + j]
           /\ Total(Older(i)) = SumOf(SubSeq(Sizes(node, order), i + 1, Len(order)))
           /\ Total(Older(i)) \in Int /\ lruSize \in Int
           /\ lruSize - Total(Older(i)) = SumOf(SubSeq(Sizes(node, order), 1, i))
<1> DEFINE w == Sizes(node, order)
           u == SubSeq(w, i + 1, Len(order))
           o == Older(i)
<1>1. order \in Seq(CacheNodes) /\ Len(order) \in Nat /\ i \in Nat /\ i <= Len(order)
  BY DEF LruInv, CacheLinked
<1>2. w \in Seq(Int) /\ Len(w) = Len(order)
  BY SizesType DEF LruInv
<1>3. o \in Seq(CacheNodes) /\ Len(o) = Len(order) - i
      /\ \A j \in 1 .. Len(order) - i : o[j] = order[i + j]
  BY <1>1, SubSeqProperties DEF Older
<1>4. u \in Seq(Int) /\ Len(u) = Len(order) - i
      /\ \A j \in 1 .. Len(order) - i : u[j] = w[i + j]
  BY <1>1, <1>2, SubSeqProperties
<1>5. \A j \in 1 .. Len(order) - i : i + j \in 1 .. Len(order)
  BY <1>1
<1>6. \A j \in 1 .. Len(order) - i : u[j] = node[o[j]].size
  BY <1>3, <1>4, <1>5 DEF Sizes
<1> HIDE DEF u, o, w
<1>7. u = [j \in 1 .. Len(o) |-> node[o[j]].size]
  BY <1>1, <1>3, <1>4, <1>6
<1>8. Total(o) = SumOf(u)
  BY <1>7 DEF Total, SizeOf
<1>9. SumOf(w) \in Int /\ SumOf(u) \in Int /\ SumOf(w) = SumOf(SubSeq(w, 1, i)) + SumOf(u)
  BY <1>1, <1>2, SumParts DEF u
<1>10. SumOf(SubSeq(w, 1, i)) \in Int
  <2> DEFINE a == SubSeq(w, 1, i)
  <2>1. a \in Seq(Int)
    BY <1>1, <1>2, SubSeqProperties
  <2>2. 0 \in 0 .. Len(a)
    BY <2>1
  <2> HIDE DEF a
  <2>3. SumOf(a) \in Int
    BY <2>1, <2>2, SumParts
  <2> QED BY <2>3 DEF a
<1>11. lruSize = SumOf(w)
  BY DEF LruInv, w
<1> QED BY <1>3, <1>8, <1>9, <1>10, <1>11 DEF u, o, w

(* The walk of a put stops where the new data fits, and goes no further.     *)
LEMMA LeftEffect ==
    ASSUME LruInv, LruAssumption, NEW size \in Nat, size <= MaxSize
    PROVE  /\ Left(size) \in 0 .. Len(order)
           /\ DataFits(Left(size), size)
           /\ \A j \in Left(size) + 1 .. Len(order) : ~DataFits(j, size)
<1> DEFINE Stops(i) == /\ i = 0 \/ DataFits(i, size)
                       /\ \A j \in i + 1 .. Len(order) : ~DataFits(j, size)
           n == Len(order)
           T == {n - i : i \in {j \in 0 .. n : j = 0 \/ DataFits(j, size)}}
<1>1. n \in Nat
  BY DEF LruInv, CacheLinked
<1>2. PICK x \in T : \A y \in T : x <= y
  <2>1. T \in SUBSET Nat /\ n - 0 \in T
    BY <1>1
  <2> HIDE DEF T
  <2> QED BY <2>1, LeastNumber
<1>3. PICK i \in 0 .. n : x = n - i /\ (i = 0 \/ DataFits(i, size))
  BY <1>2
<1>4. \A j \in i + 1 .. n : ~DataFits(j, size)
  <2> SUFFICES ASSUME NEW j \in i + 1 .. n, DataFits(j, size) PROVE FALSE
    OBVIOUS
  <2>1. j \in 0 .. n /\ n - j \in T
    BY <1>1
  <2>2. n - i <= n - j
    BY <1>2, <1>3, <2>1
  <2> QED BY <1>1, <2>2
<1>5. \E k \in 0 .. Len(order) : Stops(k)
  BY <1>3, <1>4
<1>6. Left(size) \in 0 .. Len(order) /\ Stops(Left(size))
  <2>1. Left(size) = CHOOSE k \in 0 .. Len(order) : Stops(k)
    BY DEF Left
  <2> HIDE DEF Stops
  <2> QED BY <1>5, <2>1
<1>7. DataFits(0, size)
  <2> DEFINE w == Sizes(node, order)
  <2>1. 0 \in 0 .. Len(order) /\ w \in Seq(Int)
    BY <1>1, SizesType DEF LruInv
  <2>2. lruSize - Total(Older(0)) = SumOf(SubSeq(w, 1, 0)) /\ lruSize \in Int /\ Total(Older(0)) \in Int
    BY <2>1, OlderEffect
  <2> HIDE DEF w
  <2>3. SubSeq(w, 1, 0) = << >>
    BY <2>1
  <2>4. SumOf(<< >>) = 0
    BY EmptySum
  <2>5. lruSize - Total(Older(0)) = 0
    BY <2>2, <2>3, <2>4
  <2>6. lruSize - Total(Older(0)) + size = size
    BY <2>5
  <2> QED BY <2>6 DEF DataFits
<1> QED BY <1>6, <1>7

(* An eviction leaves the newest i nodes, their data and the rest of the       *)
(* index.                                                                    *)
LEMMA EvictLinked ==
    ASSUME LruInv, NEW i \in 0 .. Len(order), NEW ord, NEW ix, NEW nd,
           ord = SubSeq(order, 1, i),
           ix = Dropped(lruIndex, {node[n].key : n \in ToSet(Older(i))}),
           nd = Dropped(node, ToSet(Older(i)))
    PROVE  /\ CacheLinked(ord, ix, nd)
           /\ Sizes(nd, ord) = SubSeq(Sizes(node, order), 1, i)
           /\ DOMAIN nd \subseteq DOMAIN node /\ DOMAIN ix \subseteq DOMAIN lruIndex
<1>1. /\ order \in Seq(CacheNodes) /\ Len(order) \in Nat /\ i \in Nat /\ i <= Len(order)
      /\ \A j \in 1 .. i : j \in 1 .. Len(order)
  BY DEF LruInv, CacheLinked
<1>2. ord \in Seq(CacheNodes) /\ Len(ord) = i /\ \A j \in 1 .. i : ord[j] = order[j]
  BY <1>1, SubSeqProperties
<1>3. \A j \in 1 .. Len(order) : \A k \in 1 .. Len(order) : order[j] = order[k] => j = k
  BY DEF LruInv, CacheLinked
<1>4. \A n : n \in ToSet(Older(i)) <=> \E j \in i + 1 .. Len(order) : order[j] = n
  <2>1. ToSet(Older(i)) = {Older(i)[j] : j \in 1 .. Len(order) - i}
    BY <1>1, OlderEffect DEF ToSet
  <2>2. \A j \in 1 .. Len(order) - i : Older(i)[j] = order[i + j]
    BY OlderEffect
  <2>3. \A j \in 1 .. Len(order) - i : i + j \in i + 1 .. Len(order)
    BY <1>1
  <2>4. \A j \in i + 1 .. Len(order) : j - i \in 1 .. Len(order) - i /\ i + (j - i) = j
    BY <1>1
  <2>5. ASSUME NEW j \in i + 1 .. Len(order)
        PROVE  order[j] \in ToSet(Older(i))
    <3>1. j - i \in 1 .. Len(order) - i /\ Older(i)[j - i] = order[j]
      BY <2>2, <2>4
    <3> QED BY <2>1, <3>1
  <2>6. ASSUME NEW n \in ToSet(Older(i))
        PROVE  \E j \in i + 1 .. Len(order) : order[j] = n
    <3>1. PICK j \in 1 .. Len(order) - i : n = Older(i)[j]
      BY <2>1
    <3> QED BY <2>2, <2>3, <3>1
  <2> QED BY <2>5, <2>6
<1>5. \A j \in 1 .. i : order[j] \in DOMAIN node /\ order[j] \notin ToSet(Older(i))
  <2>1. \A j \in 1 .. i : order[j] \in DOMAIN node
    BY <1>1 DEF LruInv, CacheLinked
  <2>2. \A j \in 1 .. i, k \in i + 1 .. Len(order) : j # k /\ k \in 1 .. Len(order)
    BY <1>1
  <2> QED BY <1>1, <1>3, <1>4, <2>1, <2>2
<1>6. \A n \in DOMAIN node : n \notin ToSet(Older(i)) => \E j \in 1 .. i : order[j] = n
  <2>1. ASSUME NEW n \in DOMAIN node, n \notin ToSet(Older(i))
        PROVE  \E j \in 1 .. i : order[j] = n
    <3>1. PICK j \in 1 .. Len(order) : order[j] = n
      BY DEF LruInv, CacheLinked
    <3>2. j \notin i + 1 .. Len(order)
      BY <1>4, <2>1, <3>1
    <3> QED BY <1>1, <3>1, <3>2
  <2> QED BY <2>1
<1>7. /\ DOMAIN nd = DOMAIN node \ ToSet(Older(i))
      /\ \A n \in DOMAIN nd : nd[n] = node[n]
  BY DEF Dropped
<1>8. /\ DOMAIN ix = DOMAIN lruIndex \ {node[n].key : n \in ToSet(Older(i))}
      /\ \A k \in DOMAIN ix : ix[k] = lruIndex[k]
  BY DEF Dropped
<1>9. \A n \in DOMAIN node : /\ node[n].size \in Nat /\ node[n].key \in DOMAIN lruIndex
                             /\ lruIndex[node[n].key] = n
  BY DEF LruInv, CacheLinked
<1>10. \A k \in DOMAIN lruIndex : lruIndex[k] \in DOMAIN node /\ node[lruIndex[k]].key = k
  BY DEF LruInv, CacheLinked
<1>11. \A n \in ToSet(Older(i)) : n \in DOMAIN node
  <2>1. \A j \in i + 1 .. Len(order) : j \in 1 .. Len(order)
    BY <1>1
  <2>2. \A j \in 1 .. Len(order) : order[j] \in DOMAIN node
    BY DEF LruInv, CacheLinked
  <2> QED BY <1>4, <2>1, <2>2
<1>12. \A n \in DOMAIN nd : nd[n].key \in DOMAIN ix /\ ix[nd[n].key] = n /\ nd[n].size \in Nat
  BY <1>7, <1>8, <1>9, <1>11
<1>13. \A k \in DOMAIN ix : ix[k] \in DOMAIN nd /\ nd[ix[k]].key = k
  BY <1>7, <1>8, <1>9, <1>10
<1>14. \A n \in DOMAIN nd : \E j \in 1 .. i : ord[j] = n
  BY <1>2, <1>6, <1>7
<1>15. \A j \in 1 .. i : ord[j] \in DOMAIN nd
  BY <1>2, <1>5, <1>7
<1>16. \A j, k \in 1 .. i : ord[j] = ord[k] => j = k
  BY <1>1, <1>2, <1>3
<1>17. CacheLinked(ord, ix, nd)
  BY <1>2, <1>12, <1>13, <1>14, <1>15, <1>16 DEF CacheLinked
<1>18. Sizes(nd, ord) = SubSeq(Sizes(node, order), 1, i)
  <2> DEFINE w == Sizes(node, order)
             a == SubSeq(w, 1, i)
  <2>1. w \in Seq(Int) /\ Len(w) = Len(order)
    BY SizesType DEF LruInv
  <2>2. \A j \in 1 .. i : w[j] = node[order[j]].size
    BY <1>1 DEF Sizes
  <2>3. a \in Seq(Int) /\ Len(a) = i /\ \A j \in 1 .. i : a[j] = w[j]
    BY <1>1, <2>1, SubSeqProperties
  <2> HIDE DEF a, w
  <2>4. \A j \in 1 .. i : nd[ord[j]].size = a[j]
    BY <1>2, <1>7, <1>15, <2>2, <2>3
  <2>5. a = [j \in 1 .. i |-> nd[ord[j]].size]
    BY <1>1, <2>3, <2>4
  <2> QED BY <1>2, <2>5 DEF Sizes, a, w
<1> QED BY <1>7, <1>8, <1>17, <1>18

(* A node, a key and a size that the cache can take in.                      *)
Addable(ord, ix, nd, n, key, size) ==
    /\ CacheLinked(ord, ix, nd)
    /\ n \in CacheNodes \ DOMAIN nd /\ key \notin DOMAIN ix /\ size \in Nat

(* A node more, of a key that the index does not have.                       *)
LEMMA PutLinked ==
    ASSUME NEW ord, NEW ix, NEW nd, NEW n, NEW key, NEW size,
           Addable(ord, ix, nd, n, key, size)
    PROVE  LET nd2 == Entered(nd, n, [key |-> key, size |-> size])
           IN  /\ CacheLinked(<<n>> \o ord, Entered(ix, key, n), nd2)
               /\ SumOf(Sizes(nd2, <<n>> \o ord)) = size + SumOf(Sizes(nd, ord))
<1> DEFINE ord2 == <<n>> \o ord
           ix2 == Entered(ix, key, n)
           nd2 == Entered(nd, n, [key |-> key, size |-> size])
<1>0. CacheLinked(ord, ix, nd) /\ n \in CacheNodes \ DOMAIN nd /\ key \notin DOMAIN ix /\ size \in Nat
  BY DEF Addable
<1>1. ord \in Seq(CacheNodes) /\ Len(ord) \in Nat
  BY <1>0 DEF CacheLinked
<1>2. /\ ord2 \in Seq(CacheNodes) /\ Len(ord2) = Len(ord) + 1 /\ ord2[1] = n
      /\ \A i \in 1 .. Len(ord) : ord2[i + 1] = ord[i]
  BY <1>0, <1>1
<1> HIDE DEF ord2, ix2, nd2
<1>3. \A i \in 1 .. Len(ord2) : i = 1 \/ (i - 1 \in 1 .. Len(ord) /\ ord2[i] = ord[i - 1])
  <2>1. \A i \in 1 .. Len(ord2) : i = 1 \/ (i - 1 \in 1 .. Len(ord) /\ (i - 1) + 1 = i)
    BY <1>0, <1>1, <1>2
  <2> QED BY <1>0, <1>2, <2>1
<1>4. /\ DOMAIN nd2 = DOMAIN nd \union {n} /\ n \notin DOMAIN nd
      /\ nd2[n].key = key /\ nd2[n].size = size
      /\ \A m \in DOMAIN nd : nd2[m] = nd[m]
  BY <1>0 DEF Entered, nd2
<1>5. /\ DOMAIN ix2 = DOMAIN ix \union {key} /\ ix2[key] = n
      /\ \A k \in DOMAIN ix : ix2[k] = ix[k]
  BY <1>0 DEF Entered, ix2
<1>6. /\ \A m \in DOMAIN nd : nd[m].size \in Nat /\ nd[m].key \in DOMAIN ix /\ ix[nd[m].key] = m
      /\ \A k \in DOMAIN ix : ix[k] \in DOMAIN nd /\ nd[ix[k]].key = k
      /\ \A i \in 1 .. Len(ord) : ord[i] \in DOMAIN nd
  BY <1>0 DEF CacheLinked
<1>7. \A i, j \in 1 .. Len(ord2) : ord2[i] = ord2[j] => i = j
  <2> SUFFICES ASSUME NEW i \in 1 .. Len(ord2), NEW j \in 1 .. Len(ord2), ord2[i] = ord2[j]
               PROVE  i = j
    OBVIOUS
  <2>1. \A k \in 1 .. Len(ord2) : k = 1 <=> ord2[k] = n
    <3>1. \A k \in 1 .. Len(ord2) : k # 1 => ord2[k] \in DOMAIN nd
      BY <1>0, <1>3, <1>6
    <3> QED BY <1>0, <1>2, <1>4, <3>1
  <2>3. \A k, l \in 1 .. Len(ord) : ord[k] = ord[l] => k = l
    BY <1>0 DEF CacheLinked
  <2>2. i # 1 /\ j # 1 => i - 1 = j - 1
    <3> SUFFICES ASSUME i # 1, j # 1 PROVE i - 1 = j - 1
      OBVIOUS
    <3>1. /\ i - 1 \in 1 .. Len(ord) /\ j - 1 \in 1 .. Len(ord)
          /\ ord[i - 1] = ord[j - 1]
      BY <1>0, <1>3
    <3> QED BY <1>0, <2>3, <3>1
  <2> QED BY <1>0, <1>1, <1>2, <2>1, <2>2
<1>8. \A i \in 1 .. Len(ord2) : ord2[i] \in DOMAIN nd2
  BY <1>0, <1>2, <1>3, <1>4, <1>6
<1>9. \A m \in DOMAIN nd2 : \E i \in 1 .. Len(ord2) : ord2[i] = m
  <2> SUFFICES ASSUME NEW m \in DOMAIN nd2 PROVE \E i \in 1 .. Len(ord2) : ord2[i] = m
    OBVIOUS
  <2>1. CASE m = n
    <3>1. 1 \in 1 .. Len(ord2)
      BY <1>0, <1>1, <1>2
    <3> QED BY <1>0, <1>2, <2>1, <3>1
  <2>2. CASE m # n
    <3>1. PICK i \in 1 .. Len(ord) : ord[i] = m
      BY <1>0, <1>4, <2>2 DEF CacheLinked
    <3>2. i + 1 \in 1 .. Len(ord2)
      BY <1>0, <1>1, <1>2
    <3> QED BY <1>0, <1>2, <3>1, <3>2
  <2> QED BY <1>0, <2>1, <2>2
<1>10. \A m \in DOMAIN nd2 : nd2[m].size \in Nat /\ nd2[m].key \in DOMAIN ix2 /\ ix2[nd2[m].key] = m
  BY <1>0, <1>4, <1>5, <1>6
<1>11. \A k \in DOMAIN ix2 : ix2[k] \in DOMAIN nd2 /\ nd2[ix2[k]].key = k
  BY <1>0, <1>4, <1>5, <1>6
<1>12. CacheLinked(ord2, ix2, nd2)
  BY <1>0, <1>2, <1>7, <1>8, <1>9, <1>10, <1>11 DEF CacheLinked
<1>13. SumOf(Sizes(nd2, ord2)) = size + SumOf(Sizes(nd, ord))
  <2> DEFINE w == Sizes(nd, ord)
             v == Sizes(nd2, ord2)
  <2>1. w \in Seq(Int) /\ Len(w) = Len(ord) /\ v \in Seq(Int) /\ Len(v) = Len(ord) + 1
    BY <1>0, <1>2, <1>12, SizesType
  <2>2. v[1] = size
    <3>1. 1 \in 1 .. Len(ord2)
      BY <1>0, <1>1, <1>2
    <3> QED BY <1>0, <1>2, <1>4, <3>1 DEF Sizes
  <2>3. ASSUME NEW i \in 1 .. Len(w)
        PROVE  v[i + 1] = w[i]
    <3>1. i \in 1 .. Len(ord) /\ i + 1 \in 1 .. Len(ord2)
      BY <1>0, <1>1, <1>2, <2>1
    <3>2. v[i + 1] = nd2[ord2[i + 1]].size /\ w[i] = nd[ord[i]].size
      BY <1>0, <3>1 DEF Sizes
    <3>3. ord[i] \in DOMAIN nd /\ ord2[i + 1] = ord[i]
      BY <1>0, <1>2, <1>6, <3>1
    <3>4. nd2[ord2[i + 1]] = nd[ord[i]]
      BY <1>0, <1>4, <3>3
    <3> HIDE DEF v, w
    <3> QED BY <1>0, <3>2, <3>4
  <2> HIDE DEF v, w
  <2>4. SumOf(v) = size + SumOf(w)
    BY <1>0, <2>1, <2>2, <2>3, SumLonger
  <2> QED BY <1>0, <2>4 DEF v, w
<1> QED BY <1>0, <1>12, <1>13 DEF ord2, ix2, nd2

(* A node less.                                                              *)
LEMMA GetLinked ==
    ASSUME NEW ord, NEW ix, NEW nd, CacheLinked(ord, ix, nd), NEW key \in DOMAIN ix,
           NEW ord2, NEW ix2, NEW nd2,
           ord2 = RemoveFirst(ord, ix[key]), ix2 = Dropped(ix, {key}),
           nd2 = Dropped(nd, {ix[key]})
    PROVE  /\ CacheLinked(ord2, ix2, nd2)
           /\ SumOf(Sizes(nd2, ord2)) = SumOf(Sizes(nd, ord)) - nd[ix[key]].size
<1>1. ord \in Seq(CacheNodes) /\ Len(ord) \in Nat
  BY DEF CacheLinked
<1>2. ix[key] \in DOMAIN nd /\ nd[ix[key]].key = key
  BY DEF CacheLinked
<1>3. PICK k \in 1 .. Len(ord) : ord[k] = ix[key]
  BY <1>2 DEF CacheLinked
<1>4. \A i, j \in 1 .. Len(ord) : ord[i] = ord[j] => i = j
  BY DEF CacheLinked
<1>5. /\ ord2 \in Seq(CacheNodes) /\ Len(ord2) = Len(ord) - 1
      /\ \A i \in 1 .. Len(ord) - 1 : ord2[i] = IF i < k THEN ord[i] ELSE ord[i + 1]
  BY <1>1, <1>3, <1>4, RemoveFirstEffect
<1> DEFINE old(i) == IF i < k THEN i ELSE i + 1
<1>6. \A i \in 1 .. Len(ord2) : old(i) \in 1 .. Len(ord) /\ old(i) # k /\ ord2[i] = ord[old(i)]
  BY <1>1, <1>5
<1>7. \A i, j \in 1 .. Len(ord2) : old(i) = old(j) => i = j
  BY <1>1, <1>5
<1>8. \A j \in 1 .. Len(ord) : j # k => \E i \in 1 .. Len(ord2) : old(i) = j
  <2> SUFFICES ASSUME NEW j \in 1 .. Len(ord), j # k
               PROVE  \E i \in 1 .. Len(ord2) : old(i) = j
    OBVIOUS
  <2>1. CASE j < k
    <3>1. j \in 1 .. Len(ord2) /\ old(j) = j
      BY <1>1, <1>5, <2>1
    <3> QED BY <3>1
  <2>2. CASE ~(j < k)
    <3>1. j - 1 \in 1 .. Len(ord2) /\ old(j - 1) = j
      BY <1>1, <1>5, <2>2
    <3> QED BY <3>1
  <2> QED BY <2>1, <2>2
<1> HIDE DEF old
<1>9. /\ DOMAIN nd2 = DOMAIN nd \ {ix[key]} /\ \A m \in DOMAIN nd2 : nd2[m] = nd[m]
      /\ DOMAIN ix2 = DOMAIN ix \ {key} /\ \A l \in DOMAIN ix2 : ix2[l] = ix[l]
  BY DEF Dropped
<1>10. /\ \A m \in DOMAIN nd : nd[m].size \in Nat /\ nd[m].key \in DOMAIN ix /\ ix[nd[m].key] = m
       /\ \A l \in DOMAIN ix : ix[l] \in DOMAIN nd /\ nd[ix[l]].key = l
       /\ \A i \in 1 .. Len(ord) : ord[i] \in DOMAIN nd
  BY DEF CacheLinked
<1>11. \A i, j \in 1 .. Len(ord2) : ord2[i] = ord2[j] => i = j
  BY <1>4, <1>6, <1>7
<1>12. \A i \in 1 .. Len(ord2) : ord2[i] \in DOMAIN nd2
  BY <1>3, <1>4, <1>6, <1>9, <1>10
<1>13. \A m \in DOMAIN nd2 : \E i \in 1 .. Len(ord2) : ord2[i] = m
  <2> SUFFICES ASSUME NEW m \in DOMAIN nd2 PROVE \E i \in 1 .. Len(ord2) : ord2[i] = m
    OBVIOUS
  <2>1. PICK j \in 1 .. Len(ord) : ord[j] = m
    BY <1>9 DEF CacheLinked
  <2>2. j # k
    BY <1>3, <1>9, <2>1
  <2> QED BY <1>6, <1>8, <2>1, <2>2
<1>14. \A m \in DOMAIN nd2 : nd2[m].size \in Nat /\ nd2[m].key \in DOMAIN ix2 /\ ix2[nd2[m].key] = m
  <2> SUFFICES ASSUME NEW m \in DOMAIN nd2
               PROVE  nd2[m].size \in Nat /\ nd2[m].key \in DOMAIN ix2 /\ ix2[nd2[m].key] = m
    OBVIOUS
  <2>1. m \in DOMAIN nd /\ m # ix[key] /\ nd2[m] = nd[m]
    BY <1>9
  <2>2. nd[m].size \in Nat /\ nd[m].key \in DOMAIN ix /\ ix[nd[m].key] = m
    BY <1>10, <2>1
  <2>3. nd[m].key # key
    BY <2>1, <2>2
  <2>4. nd[m].key \in DOMAIN ix2 /\ ix2[nd[m].key] = ix[nd[m].key]
    BY <1>9, <2>2, <2>3
  <2> QED BY <2>1, <2>2, <2>4
<1>15. \A l \in DOMAIN ix2 : ix2[l] \in DOMAIN nd2 /\ nd2[ix2[l]].key = l
  <2> SUFFICES ASSUME NEW l \in DOMAIN ix2 PROVE ix2[l] \in DOMAIN nd2 /\ nd2[ix2[l]].key = l
    OBVIOUS
  <2>1. l \in DOMAIN ix /\ l # key /\ ix2[l] = ix[l]
    BY <1>9
  <2>2. ix[l] \in DOMAIN nd /\ nd[ix[l]].key = l
    BY <1>10, <2>1
  <2>3. ix[l] # ix[key]
    BY <1>2, <2>1, <2>2
  <2>4. ix[l] \in DOMAIN nd2 /\ nd2[ix[l]] = nd[ix[l]]
    BY <1>9, <2>2, <2>3
  <2> QED BY <2>1, <2>2, <2>4
<1>16. CacheLinked(ord2, ix2, nd2)
  BY <1>5, <1>11, <1>12, <1>13, <1>14, <1>15 DEF CacheLinked
<1>17. SumOf(Sizes(nd2, ord2)) = SumOf(Sizes(nd, ord)) - nd[ix[key]].size
  <2> DEFINE w == Sizes(nd, ord)
             v == Sizes(nd2, ord2)
  <2>1. w \in Seq(Int) /\ Len(w) = Len(ord) /\ v \in Seq(Int) /\ Len(v) = Len(ord) - 1
    BY <1>5, <1>16, SizesType
  <2>2. w[k] = nd[ix[key]].size
    BY <1>3 DEF Sizes
  <2>3. ASSUME NEW i \in 1 .. Len(w) - 1
        PROVE  v[i] = IF i < k THEN w[i] ELSE w[i + 1]
    <3>1. i \in 1 .. Len(ord2)
      BY <1>5, <2>1
    <3>2. v[i] = nd2[ord2[i]].size /\ ord2[i] \in DOMAIN nd2 /\ ord2[i] = ord[old(i)]
      BY <1>6, <1>12, <3>1 DEF Sizes
    <3>3. v[i] = w[old(i)]
      BY <1>6, <1>9, <3>1, <3>2 DEF Sizes
    <3> QED BY <3>3 DEF old
  <2> HIDE DEF v, w
  <2>4. SumOf(v) = SumOf(w) - w[k]
    BY <1>3, <2>1, <2>3, SumShorter
  <2> QED BY <2>2, <2>4 DEF v, w
<1> QED BY <1>16, <1>17

(* The list, the index and the nodes agree, and the sizes add up.            *)
LEMMA CacheFollows ==
    ASSUME LruInv
    PROVE  CacheExact
<1>1. /\ order \in Seq(CacheNodes) /\ Len(order) \in Nat
      /\ \A i, j \in 1 .. Len(order) : order[i] = order[j] => i = j
      /\ \A i \in 1 .. Len(order) : order[i] \in DOMAIN node
      /\ \A n \in DOMAIN node : \E i \in 1 .. Len(order) : order[i] = n
  BY DEF LruInv, CacheLinked
<1>2. DOMAIN order = 1 .. Len(order) /\ ToSet(order) = {order[i] : i \in 1 .. Len(order)}
  BY <1>1 DEF ToSet
<1>3. ToSet(order) = DOMAIN node
  <2>1. \A x : x \in ToSet(order) <=> \E i \in 1 .. Len(order) : order[i] = x
    BY <1>2
  <2>2. \A x : x \in DOMAIN node <=> \E i \in 1 .. Len(order) : order[i] = x
    BY <1>1
  <2> QED BY <2>1, <2>2
<1>4. Dangling = {} /\ IsInjective(order)
  BY <1>1, <1>2, <1>3 DEF Dangling, IsInjective
<1>5. /\ \A n \in DOMAIN node : node[n].key \in DOMAIN lruIndex /\ lruIndex[node[n].key] = n
      /\ \A k \in DOMAIN lruIndex : lruIndex[k] \in DOMAIN node /\ node[lruIndex[k]].key = k
  BY DEF LruInv, CacheLinked
<1>6. IsFiniteSet(DOMAIN node)
  <2>1. IsFiniteSet(1 .. Len(order))
    BY <1>1, FS_Interval
  <2> DEFINE f == [i \in 1 .. Len(order) |-> order[i]]
  <2>2. f \in Surjection(1 .. Len(order), DOMAIN node)
    BY <1>1 DEF Surjection
  <2> QED BY <2>1, <2>2, FS_Surjection
<1>7. Cardinality(DOMAIN lruIndex) = Cardinality(DOMAIN node)
  <2> DEFINE f == [n \in DOMAIN node |-> node[n].key]
  <2>1. f \in [DOMAIN node -> DOMAIN lruIndex]
    BY <1>5
  <2>2. \A m, n \in DOMAIN node : f[m] = f[n] => m = n
    BY <1>5
  <2>3. \A k \in DOMAIN lruIndex : \E n \in DOMAIN node : f[n] = k
    BY <1>5
  <2> HIDE DEF f
  <2>4. ExistsBijection(DOMAIN node, DOMAIN lruIndex)
    BY <2>1, <2>2, <2>3, BijectionExists
  <2> QED BY <1>6, <2>4, FS_Bijection
<1>8. lruSize = Total(order) /\ lruSize <= MaxSize
  BY DEF LruInv, Sizes, Total, SizeOf
<1> QED BY <1>3, <1>4, <1>5, <1>7, <1>8 DEF CacheExact

(* lru_create *)
LEMMA LruInitInv ==
    ASSUME LruInit, LruAssumption
    PROVE  LruInv
<1>1. order = << >> /\ lruIndex = << >> /\ node = << >> /\ lruSize = 0
  BY DEF LruInit
<1>2. CacheLinked(order, lruIndex, node)
  BY <1>1 DEF CacheLinked
<1>3. Sizes(node, order) = << >>
  BY <1>1 DEF Sizes
<1> QED BY <1>1, <1>2, <1>3, EmptySum DEF LruInv, LruAssumption

(* ylru_put *)
LEMMA PutDataKeeps ==
    ASSUME LruInv, LruAssumption, ~spoiled',
           NEW key \in CacheKeys, NEW size \in DataSizes, PutData(key, size)
    PROVE  LruInv'
<1> DEFINE i == Left(size)
           gone == ToSet(Older(i))
           restOf == Dropped(lruIndex, {node[n].key : n \in gone})
           ord == SubSeq(order, 1, i)
           nd == Dropped(node, gone)
           old == {restOf[k] : k \in {key} \intersect DOMAIN restOf}
<1>1. size \in Nat /\ size <= MaxSize
  BY DEF PutData, LruAssumption
<1>2. i \in 0 .. Len(order) /\ DataFits(i, size)
  BY <1>1, LeftEffect
<1> HIDE DEF i
<1>3. /\ CacheLinked(ord, restOf, nd) /\ Sizes(nd, ord) = SubSeq(Sizes(node, order), 1, i)
      /\ DOMAIN nd \subseteq DOMAIN node /\ DOMAIN restOf \subseteq DOMAIN lruIndex
  BY <1>2, EvictLinked
<1>4. PICK n \in CacheNodes \ DOMAIN node :
           /\ order' = <<n>> \o ord
           /\ lruIndex' = Entered(restOf, key, n)
           /\ node' = Entered(Dropped(node, gone \union old), n, [key |-> key, size |-> size])
           /\ lruSize' = lruSize - Total(Older(i)) + size
           /\ old = {}
  <2>1. PICK n \in CacheNodes \ DOMAIN node, hashed \in BOOLEAN :
             /\ order' = <<n>> \o ord
             /\ lruIndex' = IF hashed THEN Entered(restOf, key, n) ELSE restOf
             /\ node' = Entered(Dropped(node, gone \union (IF hashed THEN old ELSE {})),
                                n, [key |-> key, size |-> size])
             /\ lruSize' = lruSize - Total(Older(i)) + size
             /\ spoiled' = (~hashed \/ old # {})
    BY DEF PutData, i
  <2> HIDE DEF old, restOf, ord, gone
  <2>2. hashed /\ old = {}
    BY <2>1
  <2> QED BY <2>1, <2>2
<1>5. {key} \intersect DOMAIN restOf = {}
  BY <1>4
<1>6. node' = Entered(nd, n, [key |-> key, size |-> size])
  BY <1>4
<1>7. n \in CacheNodes \ DOMAIN nd /\ key \notin DOMAIN restOf
  BY <1>3, <1>5
<1> HIDE DEF nd, restOf, ord, gone, old
<1>8. /\ CacheLinked(order', lruIndex', node')
      /\ SumOf(Sizes(node', order')) = size + SumOf(Sizes(nd, ord))
  <2> DEFINE nd2 == Entered(nd, n, [key |-> key, size |-> size])
  <2>0. Addable(ord, restOf, nd, n, key, size)
    BY <1>1, <1>3, <1>7 DEF Addable
  <2>1. /\ CacheLinked(<<n>> \o ord, Entered(restOf, key, n), nd2)
        /\ SumOf(Sizes(nd2, <<n>> \o ord)) = size + SumOf(Sizes(nd, ord))
    BY <2>0, PutLinked
  <2> QED BY <1>4, <1>6, <2>1
<1>9. lruSize - Total(Older(i)) = SumOf(Sizes(nd, ord)) /\ lruSize - Total(Older(i)) \in Int
  BY <1>2, <1>3, OlderEffect
<1>10. lruSize' = SumOf(Sizes(node', order')) /\ lruSize' <= MaxSize
  BY <1>1, <1>2, <1>4, <1>8, <1>9 DEF DataFits
<1> QED BY <1>8, <1>10 DEF LruInv

(* ylru_put that evicts and has no memory then.                              *)
LEMMA PutFailsKeeps ==
    ASSUME LruInv, LruAssumption, NEW size \in DataSizes, PutFails(size)
    PROVE  LruInv'
<1> DEFINE i == Left(size)
           gone == ToSet(Older(i))
<1>1. size \in Nat /\ size <= MaxSize
  BY DEF PutFails, LruAssumption
<1>2. i \in 0 .. Len(order) /\ DataFits(i, size)
  BY <1>1, LeftEffect
<1>3. /\ order' = SubSeq(order, 1, i)
      /\ lruIndex' = Dropped(lruIndex, {node[n].key : n \in gone})
      /\ node' = Dropped(node, gone)
      /\ lruSize' = lruSize - Total(Older(i))
  BY DEF PutFails, Evict
<1> HIDE DEF i
<1>4. /\ CacheLinked(order', lruIndex', node')
      /\ Sizes(node', order') = SubSeq(Sizes(node, order), 1, i)
  BY <1>2, <1>3, EvictLinked
<1>5. lruSize' = SumOf(Sizes(node', order')) /\ lruSize - Total(Older(i)) \in Int
  <2>1. /\ lruSize - Total(Older(i)) = SumOf(SubSeq(Sizes(node, order), 1, i))
        /\ lruSize - Total(Older(i)) \in Int
    BY <1>2, OlderEffect
  <2> QED BY <1>3, <1>4, <2>1
<1>6. lruSize' <= MaxSize
  BY <1>1, <1>2, <1>3, <1>5, LruAssumption DEF DataFits, LruAssumption
<1> QED BY <1>4, <1>5, <1>6 DEF LruInv

(* ylru_get *)
LEMMA GetDataKeeps ==
    ASSUME LruInv, LruAssumption, NEW key \in CacheKeys, GetData(key)
    PROVE  LruInv'
<1>1. /\ key \in DOMAIN lruIndex
      /\ order' = RemoveFirst(order, lruIndex[key])
      /\ lruIndex' = Dropped(lruIndex, {key})
      /\ node' = Dropped(node, {lruIndex[key]})
      /\ lruSize' = lruSize - node[lruIndex[key]].size
  BY DEF GetData, SizeOf
<1>2. CacheLinked(order, lruIndex, node)
  BY DEF LruInv
<1>3. /\ CacheLinked(order', lruIndex', node')
      /\ SumOf(Sizes(node', order')) = SumOf(Sizes(node, order)) - node[lruIndex[key]].size
  BY <1>1, <1>2, GetLinked
<1>4. lruSize' = SumOf(Sizes(node', order'))
  BY <1>1, <1>3 DEF LruInv
<1>5. node[lruIndex[key]].size \in Nat
  BY <1>1 DEF LruInv, CacheLinked
<1>6. lruSize \in Int
  <2>1. 0 \in 0 .. Len(order)
    BY DEF LruInv, CacheLinked
  <2> QED BY <2>1, OlderEffect
<1>7. lruSize' <= MaxSize
  BY <1>1, <1>5, <1>6, LruAssumption DEF LruInv, LruAssumption
<1> QED BY <1>3, <1>4, <1>7 DEF LruInv

(* Every step keeps the invariant. *)
LEMMA LruStep ==
    ASSUME ~spoiled => LruInv, ~spoiled', [LruNext]_lruVars
    PROVE  ~spoiled /\ LruInv'
<1>0. ~spoiled /\ LruInv
  BY DEF LruNext, lruVars
<1> USE <1>0
<1>1. CASE UNCHANGED lruVars
  BY <1>1 DEF lruVars, LruInv
<1>2. ASSUME NEW key \in CacheKeys, NEW size \in DataSizes, PutData(key, size)
      PROVE  LruInv'
  BY <1>2, PutDataKeeps, LruAssumption
<1>3. ASSUME NEW size \in DataSizes, PutFails(size)
      PROVE  LruInv'
  BY <1>3, PutFailsKeeps, LruAssumption
<1>4. ASSUME NEW key \in CacheKeys, GetData(key)
      PROVE  LruInv'
  BY <1>4, GetDataKeeps, LruAssumption
<1>5. CASE ResetCache
  <2>1. LruInit'
    BY <1>5 DEF ResetCache, LruInit
  <2>2. order' = << >> /\ lruIndex' = << >> /\ node' = << >> /\ lruSize' = 0
    BY <1>5 DEF ResetCache
  <2>3. CacheLinked(order', lruIndex', node')
    BY <2>2 DEF CacheLinked
  <2>4. Sizes(node', order') = << >>
    BY <2>2 DEF Sizes
  <2> QED BY <2>2, <2>3, <2>4, EmptySum, LruAssumption DEF LruInv, LruAssumption
<1> QED BY <1>1, <1>2, <1>3, <1>4, <1>5 DEF LruNext

(* The cache is a list, an index and nodes that agree, whose sizes add up to *)
(* what it reports and do not exceed the maximum, until one of the two puts  *)
(* of lru.c:272 spoils it: for any number of keys, nodes and sizes.          *)
THEOREM CacheStaysExact ==
    LruSpec => [](~spoiled => CacheExact)
<1> DEFINE Inv == ~spoiled => LruInv
<1>1. LruInit => Inv
  BY LruInitInv, LruAssumption
<1>2. Inv /\ [LruNext]_lruVars => Inv'
  BY LruStep
<1>3. Inv => (~spoiled => CacheExact)
  BY CacheFollows
<1> QED BY <1>1, <1>2, <1>3, PTL DEF LruSpec

(* The oldest of the nodes that are left counts too. *)
LEMMA OneMoreEvicted ==
    ASSUME LruInv, NEW i \in 0 .. Len(order) - 1
    PROVE  /\ Total(Older(i)) = SizeOf(order[i + 1]) + Total(Older(i + 1))
           /\ Total(Older(i)) \in Int /\ Total(Older(i + 1)) \in Int
           /\ lruSize \in Int /\ SizeOf(order[i + 1]) \in Nat
<1> DEFINE w == Sizes(node, order)
           u == SubSeq(w, i + 1, Len(order))
           v == SubSeq(w, (i + 1) + 1, Len(order))
<1>1. /\ Len(order) \in Nat /\ i \in 0 .. Len(order) /\ i + 1 \in 0 .. Len(order)
      /\ i + 1 \in 1 .. Len(order)
  BY DEF LruInv, CacheLinked
<1>2. w \in Seq(Int) /\ Len(w) = Len(order) /\ w[i + 1] = SizeOf(order[i + 1]) /\ w[i + 1] \in Nat
  <2>1. w \in Seq(Int) /\ Len(w) = Len(order) /\ w[i + 1] \in Nat
    BY <1>1, SizesType DEF LruInv
  <2> QED BY <1>1, <2>1 DEF Sizes, SizeOf
<1>3. u \in Seq(Int) /\ Len(u) = Len(order) - i /\ \A j \in 1 .. Len(order) - i : u[j] = w[i + j]
  BY <1>1, <1>2, SubSeqProperties
<1>4. /\ v \in Seq(Int) /\ Len(v) = Len(order) - (i + 1)
      /\ \A j \in 1 .. Len(order) - (i + 1) : v[j] = w[(i + 1) + j]
  BY <1>1, <1>2, SubSeqProperties
<1>5. Total(Older(i)) = SumOf(u) /\ Total(Older(i)) \in Int /\ lruSize \in Int
  BY <1>1, OlderEffect
<1>6. Total(Older(i + 1)) = SumOf(v) /\ Total(Older(i + 1)) \in Int
  BY <1>1, OlderEffect
<1> HIDE DEF u, v, w
<1>7. u[1] = w[i + 1]
  BY <1>1, <1>3
<1>8. \A j \in 1 .. Len(v) : u[j + 1] = v[j]
  <2> SUFFICES ASSUME NEW j \in 1 .. Len(v) PROVE u[j + 1] = v[j]
    OBVIOUS
  <2>1. j + 1 \in 1 .. Len(order) - i /\ i + (j + 1) = (i + 1) + j
    BY <1>1, <1>4
  <2> QED BY <1>3, <1>4, <2>1
<1>9. Len(u) = Len(v) + 1
  BY <1>1, <1>3, <1>4
<1>10. SumOf(u) = w[i + 1] + SumOf(v)
  BY <1>2, <1>3, <1>4, <1>7, <1>8, <1>9, SumLonger
<1> QED BY <1>2, <1>5, <1>6, <1>10

(* What a put throws away is the oldest, and no more than it needs. *)
LEMMA EvictsStep ==
    ASSUME LruInv, LruAssumption, ~spoiled', [LruNext]_lruVars
    PROVE  EvictsTheOldest
<1>1. CASE UNCHANGED lruVars
  <2>1. DOMAIN node' \ DOMAIN node = {}
    BY <1>1 DEF lruVars
  <2> QED BY <2>1 DEF EvictsTheOldest
<1>2. ASSUME NEW key \in CacheKeys, NEW size \in DataSizes, PutData(key, size)
      PROVE  EvictsTheOldest
  <2> DEFINE i == Left(size)
             gone == ToSet(Older(i))
             restOf == Dropped(lruIndex, {node[n].key : n \in gone})
             old == {restOf[k] : k \in {key} \intersect DOMAIN restOf}
  <2>1. size \in Nat /\ size <= MaxSize
    BY <1>2 DEF PutData, LruAssumption
  <2>2. i \in 0 .. Len(order) /\ \A j \in i + 1 .. Len(order) : ~DataFits(j, size)
    BY <2>1, LeftEffect
  <2>3. PICK n \in CacheNodes \ DOMAIN node :
             /\ order' = <<n>> \o SubSeq(order, 1, i)
             /\ node' = Entered(Dropped(node, gone \union old), n, [key |-> key, size |-> size])
             /\ lruSize' = lruSize - Total(Older(i)) + size
             /\ old = {}
    <3>1. PICK n \in CacheNodes \ DOMAIN node, hashed \in BOOLEAN :
               /\ order' = <<n>> \o SubSeq(order, 1, i)
               /\ node' = Entered(Dropped(node, gone \union (IF hashed THEN old ELSE {})),
                                  n, [key |-> key, size |-> size])
               /\ lruSize' = lruSize - Total(Older(i)) + size
               /\ spoiled' = (~hashed \/ old # {})
      BY <1>2 DEF PutData
    <3> HIDE DEF old, restOf, gone, i
    <3>2. hashed /\ old = {}
      BY <3>1
    <3> QED BY <3>1, <3>2
  <2>4. old = {}
    BY <2>3
  <2> HIDE DEF i, old, restOf
  <2>5. DOMAIN node' = (DOMAIN node \ gone) \union {n}
    BY <2>3, <2>4 DEF Entered, Dropped
  <2>6. order \in Seq(CacheNodes) /\ Len(order) \in Nat
    BY DEF LruInv, CacheLinked
  <2>7. SubSeq(order, 1, i) \in Seq(CacheNodes) /\ Len(SubSeq(order, 1, i)) = i
    BY <2>2, <2>6, SubSeqProperties
  <2>8. Len(order') = i + 1 /\ Len(order') - 1 = i
    <3> DEFINE k == SubSeq(order, 1, i)
    <3>1. k \in Seq(CacheNodes) /\ Len(k) = i /\ order' = <<n>> \o k /\ i \in Nat
      BY <2>2, <2>3, <2>7
    <3> HIDE DEF k
    <3> QED BY <3>1
  <2>9. n \in DOMAIN node' \ DOMAIN node
        /\ order' = <<n>> \o SubSeq(order, 1, Len(order') - 1)
    BY <2>3, <2>5, <2>8
  <2>10. ASSUME DOMAIN node \ DOMAIN node' # {}
         PROVE  lruSize' + SizeOf(order[Len(order')]) > MaxSize
    <3>1. ToSet(Older(i)) # {}
      BY <2>5, <2>10
    <3>2. Len(Older(i)) # 0
      <4>1. Older(i) \in Seq(CacheNodes)
        BY <2>2, OlderEffect
      <4> QED BY <3>1, <4>1 DEF ToSet
    <3>3. i \in 0 .. Len(order) - 1 /\ i + 1 \in i + 1 .. Len(order)
      BY <2>2, <2>6, <3>2, OlderEffect
    <3>4. ~DataFits(i + 1, size)
      BY <2>2, <3>3
    <3>5. /\ Total(Older(i)) = SizeOf(order[i + 1]) + Total(Older(i + 1))
          /\ Total(Older(i)) \in Int /\ Total(Older(i + 1)) \in Int
          /\ lruSize \in Int /\ SizeOf(order[i + 1]) \in Nat
      BY <3>3, OneMoreEvicted
    <3>6. ~(lruSize - Total(Older(i + 1)) + size <= MaxSize)
      BY <3>4 DEF DataFits
    <3>7. MaxSize \in Nat
      BY LruAssumption DEF LruAssumption
    <3> DEFINE a == Total(Older(i))
               b == Total(Older(i + 1))
               c == SizeOf(order[i + 1])
    <3>8. a = c + b /\ a \in Int /\ b \in Int /\ c \in Int /\ lruSize' = lruSize - a + size
      BY <2>3, <3>5
    <3>9. ~(lruSize - b + size <= MaxSize)
      BY <3>6
    <3> HIDE DEF a, b, c
    <3>10. lruSize' + c > MaxSize
      BY <2>1, <3>5, <3>7, <3>8, <3>9
    <3> QED BY <2>8, <3>10 DEF c
  <2> QED BY <2>9, <2>10 DEF EvictsTheOldest
<1>3. ASSUME NEW size \in DataSizes, PutFails(size)
      PROVE  EvictsTheOldest
  <2>1. DOMAIN node' \ DOMAIN node = {}
    BY <1>3 DEF PutFails, Evict, Dropped
  <2> QED BY <2>1 DEF EvictsTheOldest
<1>4. ASSUME NEW key \in CacheKeys, GetData(key)
      PROVE  EvictsTheOldest
  <2>1. DOMAIN node' \ DOMAIN node = {}
    BY <1>4 DEF GetData, Dropped
  <2> QED BY <2>1 DEF EvictsTheOldest
<1>5. CASE ResetCache
  <2>1. DOMAIN node' \ DOMAIN node = {}
    BY <1>5 DEF ResetCache
  <2> QED BY <2>1 DEF EvictsTheOldest
<1> QED BY <1>1, <1>2, <1>3, <1>4, <1>5 DEF LruNext

(* Every put evicts the oldest data only, and no more of it than it needs;  *)
(* one node less thrown away would not have been enough.                    *)
THEOREM CacheIsLru ==
    LruSpec => IsLruCache
<1> DEFINE Inv == ~spoiled => LruInv
<1>1. LruInit => Inv
  BY LruInitInv, LruAssumption
<1>2. Inv /\ [LruNext]_lruVars => Inv'
  BY LruStep
<1>3. Inv => (~spoiled => CacheExact)
  BY CacheFollows, LruAssumption
<1>4. Inv /\ [LruNext]_lruVars => [~spoiled' => EvictsTheOldest]_lruVars
  BY LruStep, EvictsStep, LruAssumption
<1> QED BY <1>1, <1>2, <1>3, <1>4, PTL DEF LruSpec, IsLruCache

------------------------------------------------------------------------------
(* The heap. *)
(* The parent of an index, and its children.                                *)
LEMMA Halves ==
    ASSUME NEW i \in Nat
    PROVE  /\ Parent(i) \in Nat /\ (i > 0 => Parent(i) < i) /\ (i > 1 => Parent(i) > 0)
           /\ \A j \in Nat : Parent(j) = i <=> j = 2 * i \/ j = 2 * i + 1
BY DEF Parent

(* The parent of an index other than the root is an index before it.        *)
LEMMA ParentBefore ==
    ASSUME NEW n \in Nat, NEW j \in 2 .. n
    PROVE  j \in 1 .. n /\ Parent(j) \in 1 .. n /\ Parent(j) < j
<1>1. j \in Nat /\ j \in 1 .. n /\ j > 1 /\ j <= n
  OBVIOUS
<1>2. Parent(j) \in Nat /\ Parent(j) > 0 /\ Parent(j) < j
  BY <1>1, Halves
<1> QED BY <1>1, <1>2

(* The ranks along the array. *)
Along(h, rk) == [i \in 1 .. Len(h) |-> rk[h[i]]]

(* v is in order at the first n indices.                                    *)
Ordered(v, n) == \A j \in 2 .. n : v[j] <= v[Parent(j)]

(* down is at i and the roots up to k are still to come: the others are in  *)
(* order but for i, whose children do not exceed its parent.                *)
OrderedBelow(v, n, i, k) ==
    /\ i \in 1 .. n /\ k \in 0 .. i - 1
    /\ \A j \in 2 .. n : Parent(j) > k /\ Parent(j) # i => v[j] <= v[Parent(j)]
    /\ Parent(i) > k => \A j \in 2 .. n : Parent(j) = i => v[j] <= v[Parent(i)]

(* up is at i: all but i are in order, and its children do not exceed its    *)
(* parent.                                                                  *)
OrderedAbove(v, n, i) ==
    /\ i \in 1 .. n
    /\ \A j \in 2 .. n : j # i => v[j] <= v[Parent(j)]
    /\ Parent(i) > 0 => \A j \in 2 .. n : Parent(j) = i => v[j] <= v[Parent(i)]

(* u is v with two elements exchanged.                                      *)
SwappedAt(u, v, n, i, c) ==
    /\ u \in [1 .. n -> Int] /\ v \in [1 .. n -> Int]
    /\ i \in 1 .. n /\ c \in 1 .. n
    /\ u[i] = v[c] /\ u[c] = v[i] /\ \A j \in 1 .. n : j # i /\ j # c => u[j] = v[j]

(* One turn of down: the larger child comes up. *)
LEMMA SinkStep ==
    ASSUME NEW n \in Nat, NEW i, NEW k, NEW c, NEW u, NEW v,
           OrderedBelow(v, n, i, k), SwappedAt(u, v, n, i, c),
           Parent(c) = i, v[i] < v[c],
           \A j \in 2 .. n : Parent(j) = i => v[j] <= v[c]
    PROVE  OrderedBelow(u, n, c, k)
<1>1. i \in 1 .. n /\ c \in 1 .. n /\ k \in 0 .. i - 1 /\ i < c /\ i \in Nat /\ c \in Nat /\ k \in Nat
  <2>1. i \in 1 .. n /\ c \in 1 .. n /\ k \in 0 .. i - 1 /\ i \in Nat /\ c \in Nat /\ k \in Nat
    BY DEF OrderedBelow, SwappedAt
  <2> QED BY <2>1, Halves
<1>2. \A j \in 1 .. n : v[j] \in Int
  BY DEF SwappedAt
<1>3. u[i] = v[c] /\ u[c] = v[i] /\ \A j \in 1 .. n : j # i /\ j # c => u[j] = v[j]
  BY DEF SwappedAt
<1>4. ASSUME NEW j \in 2 .. n, Parent(j) > k, Parent(j) # c
      PROVE  u[j] <= u[Parent(j)]
  <2>1. j \in 1 .. n /\ Parent(j) \in 1 .. n /\ Parent(j) # j
    BY ParentBefore
  <2>2. CASE j = c
    <3>1. u[j] = v[i] /\ u[Parent(j)] = v[c]
      BY <1>3, <2>2
    <3> QED BY <1>1, <1>2, <3>1
  <2>3. CASE j # c /\ Parent(j) = i
    <3>1. u[j] = v[j] /\ u[Parent(j)] = v[c]
      BY <1>3, <2>1, <2>3
    <3> QED BY <2>3, <3>1
  <2>4. CASE j = i
    <3>1. u[j] = v[c] /\ u[Parent(j)] = v[Parent(i)]
      BY <1>3, <1>4, <2>1, <2>4
    <3>2. v[c] <= v[Parent(i)]
      <4>1. c \in 2 .. n
        BY <1>1
      <4> QED BY <1>4, <2>4, <4>1 DEF OrderedBelow
    <3> QED BY <2>4, <3>1, <3>2
  <2>5. CASE j # c /\ j # i /\ Parent(j) # i
    <3>1. u[j] = v[j] /\ u[Parent(j)] = v[Parent(j)]
      BY <1>3, <1>4, <2>1, <2>5
    <3> QED BY <1>4, <2>5, <3>1 DEF OrderedBelow
  <2> QED BY <2>2, <2>3, <2>4, <2>5
<1>5. ASSUME NEW j \in 2 .. n, Parent(j) = c
      PROVE  u[j] <= u[Parent(c)]
  <2>1. j \in 1 .. n /\ j # c /\ j # i /\ c > k
    BY <1>1, <1>5, Halves
  <2>2. u[j] = v[j] /\ u[Parent(c)] = v[c]
    BY <1>3, <2>1
  <2>3. v[j] <= v[c]
    BY <1>1, <1>5, <2>1 DEF OrderedBelow
  <2> QED BY <2>2, <2>3
<1>6. k \in 0 .. c - 1
  BY <1>1
<1> QED BY <1>1, <1>4, <1>5, <1>6 DEF OrderedBelow

(* The end of down: the next root, if there is one, is in its place. *)
LEMMA SinkEnd ==
    ASSUME NEW n \in Nat, NEW i, NEW k, NEW v, v \in [1 .. n -> Int],
           OrderedBelow(v, n, i, k),
           \A j \in 2 .. n : Parent(j) = i => v[j] <= v[i]
    PROVE  IF k = 0 THEN Ordered(v, n) ELSE OrderedBelow(v, n, k, k - 1)
<1>1. i \in 1 .. n /\ k \in 0 .. i - 1 /\ i \in Nat /\ k \in Nat
  BY DEF OrderedBelow
<1>2. \A j \in 2 .. n : Parent(j) > k => v[j] <= v[Parent(j)]
  BY DEF OrderedBelow
<1>3. CASE k = 0
  <2>1. \A j \in 2 .. n : Parent(j) > 0
    BY Halves
  <2> QED BY <1>2, <1>3, <2>1 DEF Ordered
<1>4. CASE k # 0
  <2>1. k \in 1 .. n /\ k - 1 \in 0 .. k - 1 /\ ~(Parent(k) > k - 1)
    BY <1>1, <1>4, Halves
  <2>2. \A j \in 2 .. n : Parent(j) > k - 1 /\ Parent(j) # k => Parent(j) > k
    BY <1>1, Halves
  <2> QED BY <1>2, <1>4, <2>1, <2>2 DEF OrderedBelow
<1> QED BY <1>3, <1>4

(* One turn of up. *)
LEMMA RiseStep ==
    ASSUME NEW n \in Nat, NEW i, NEW p, NEW u, NEW v,
           OrderedAbove(v, n, i), SwappedAt(u, v, n, i, p),
           p = Parent(i), v[p] < v[i]
    PROVE  OrderedAbove(u, n, p)
<1>1. i \in 1 .. n /\ p \in 1 .. n /\ p < i /\ i \in Nat /\ p \in Nat /\ i \in 2 .. n
  <2>1. i \in 1 .. n /\ p \in 1 .. n /\ i \in Nat /\ p \in Nat
    BY DEF OrderedAbove, SwappedAt
  <2>2. p < i
    BY <2>1, Halves
  <2> QED BY <2>1, <2>2
<1>2. \A j \in 1 .. n : v[j] \in Int
  BY DEF SwappedAt
<1>3. u[i] = v[p] /\ u[p] = v[i] /\ \A j \in 1 .. n : j # i /\ j # p => u[j] = v[j]
  BY DEF SwappedAt
<1>4. \A j \in 2 .. n : j # i => v[j] <= v[Parent(j)]
  BY DEF OrderedAbove
<1>5. \A j \in 2 .. n : j \in 1 .. n /\ Parent(j) \in 1 .. n /\ Parent(j) # j
  BY ParentBefore
<1>6. ASSUME NEW j \in 2 .. n, j # p
      PROVE  u[j] <= u[Parent(j)]
  <2>1. CASE j = i
    <3>1. u[j] = v[p] /\ u[Parent(j)] = v[i]
      BY <1>3, <2>1
    <3> QED BY <1>1, <1>2, <3>1
  <2>2. CASE j # i /\ Parent(j) = p
    <3>1. u[j] = v[j] /\ u[Parent(j)] = v[i] /\ v[j] <= v[p]
      BY <1>3, <1>4, <1>5, <1>6, <2>2
    <3>2. v[j] \in Int /\ v[p] \in Int /\ v[i] \in Int
      BY <1>1, <1>2, <1>5
    <3> QED BY <3>1, <3>2
  <2>3. CASE j # i /\ Parent(j) = i
    <3>1. u[j] = v[j] /\ u[Parent(j)] = v[p]
      BY <1>3, <1>5, <1>6, <2>3
    <3>2. v[j] <= v[p]
      BY <1>1, <2>3 DEF OrderedAbove
    <3> QED BY <3>1, <3>2
  <2>4. CASE j # i /\ Parent(j) # p /\ Parent(j) # i
    <3>1. u[j] = v[j] /\ u[Parent(j)] = v[Parent(j)]
      BY <1>3, <1>5, <1>6, <2>4
    <3> QED BY <1>4, <2>4, <3>1
  <2> QED BY <2>1, <2>2, <2>3, <2>4
<1>7. ASSUME Parent(p) > 0, NEW j \in 2 .. n, Parent(j) = p
      PROVE  u[j] <= u[Parent(p)]
  <2>1. p \in 2 .. n /\ p # i /\ Parent(p) \in 1 .. n /\ Parent(p) < p
    BY <1>1, <1>7, Halves
  <2>2. v[p] <= v[Parent(p)] /\ u[Parent(p)] = v[Parent(p)]
    BY <1>1, <1>3, <1>4, <2>1
  <2>3. v[p] \in Int /\ v[Parent(p)] \in Int /\ v[j] \in Int
    BY <1>1, <1>2, <1>5, <2>1
  <2>4. CASE j = i
    BY <1>3, <2>2, <2>4
  <2>5. CASE j # i
    <3>1. u[j] = v[j] /\ v[j] <= v[p]
      BY <1>3, <1>4, <1>5, <1>7, <2>5
    <3> QED BY <2>2, <2>3, <3>1
  <2> QED BY <2>4, <2>5
<1> QED BY <1>1, <1>6, <1>7 DEF OrderedAbove

(* The end of up. *)
LEMMA RiseEnd ==
    ASSUME NEW n \in Nat, NEW i, NEW v, OrderedAbove(v, n, i),
           Parent(i) > 0 => v[i] <= v[Parent(i)]
    PROVE  Ordered(v, n)
<1>1. i \in 1 .. n
  BY DEF OrderedAbove
<1>2. i \in 2 .. n => Parent(i) > 0
  BY <1>1, Halves
<1> QED BY <1>2 DEF OrderedAbove, Ordered

(* In an array that is in order, the root is the largest. *)
LEMMA RootIsLargest ==
    ASSUME NEW n \in Nat, NEW v \in [1 .. n -> Int], Ordered(v, n), NEW i \in 1 .. n
    PROVE  v[i] <= v[1]
<1> DEFINE T == {j \in 1 .. n : ~(v[j] <= v[1])}
<1> SUFFICES ASSUME T # {} PROVE FALSE
  OBVIOUS
<1>1. PICK j \in T : \A l \in T : j <= l
  <2>1. T \in SUBSET Nat
    OBVIOUS
  <2> QED BY <2>1, LeastNumber
<1>2. v[1] \in Int /\ 1 \in 1 .. n
  BY <1>1
<1>3. j \in 2 .. n
  BY <1>1, <1>2
<1>4. Parent(j) \in 1 .. n /\ Parent(j) < j
  BY <1>3, ParentBefore
<1>5. v[Parent(j)] <= v[1]
  BY <1>1, <1>4
<1>6. v[j] <= v[Parent(j)]
  BY <1>3 DEF Ordered
<1>7. v[j] \in Int /\ v[Parent(j)] \in Int
  BY <1>1, <1>4
<1> QED BY <1>1, <1>2, <1>5, <1>6, <1>7

(* What down compares with: the index itself, when no child is larger, or    *)
(* the largest child.                                                       *)
LEMMA LargerEffect ==
    ASSUME NEW n \in Nat, n = Len(heap), NEW i \in 1 .. n,
           \A j \in 1 .. n : RankAt(j) \in Int
    PROVE  LET c == Child(i)
           IN  /\ c = i => \A j \in 2 .. n : Parent(j) = i => RankAt(j) <= RankAt(i)
               /\ c # i => /\ c \in 1 .. n /\ Parent(c) = i /\ RankAt(i) < RankAt(c)
                          /\ \A j \in 2 .. n : Parent(j) = i => RankAt(j) <= RankAt(c)
<1> DEFINE l == 2 * i
           r == 2 * i + 1
           m == IF l <= n /\ RankAt(i) < RankAt(l) THEN l ELSE i
<1>1. Child(i) = IF r <= n /\ RankAt(m) < RankAt(r) THEN r ELSE m
  BY DEF Child, Larger
<1>2. /\ l \in Nat /\ r \in Nat /\ i < l /\ l < r /\ 1 < l
      /\ Parent(l) = i /\ Parent(r) = i
      /\ \A j \in 2 .. n : Parent(j) = i => j = l \/ j = r
  BY Halves
<1>3. RankAt(i) \in Int /\ (l <= n => RankAt(l) \in Int) /\ (r <= n => RankAt(r) \in Int)
  BY <1>2
<1> DEFINE a == RankAt(i)
           b == RankAt(l)
           c == RankAt(r)
<1> HIDE DEF l, r
<1>4. ASSUME NEW j \in 2 .. n, Parent(j) = i
      PROVE  RankAt(j) = (IF j = l THEN b ELSE c) /\ (j = l => l <= n) /\ (j = r => r <= n)
             /\ (j = l \/ j = r)
  BY <1>2, <1>4
<1>5. m = (IF l <= n /\ a < b THEN l ELSE i) /\ RankAt(m) = IF l <= n /\ a < b THEN b ELSE a
  OBVIOUS
<1>6. Child(i) = IF r <= n /\ RankAt(m) < c THEN r ELSE m
  BY <1>1
<1>7. a \in Int /\ (l <= n => b \in Int) /\ (r <= n => c \in Int)
  BY <1>3
<1> HIDE DEF a, b, c, m
<1>8. CASE r <= n /\ RankAt(m) < c
  <2>1. Child(i) = r /\ r # i /\ r \in 1 .. n /\ Parent(r) = i
    BY <1>2, <1>6, <1>8
  <2>2. l <= n /\ a < c /\ b <= c
    BY <1>2, <1>5, <1>7, <1>8
  <2>3. RankAt(r) = c /\ RankAt(i) = a
    BY DEF a, c
  <2>4. \A j \in 2 .. n : Parent(j) = i => RankAt(j) <= c
    BY <1>4, <1>7, <1>8, <2>2
  <2> QED BY <2>1, <2>2, <2>3, <2>4
<1>9. CASE ~(r <= n /\ RankAt(m) < c)
  <2>1. Child(i) = m
    BY <1>6, <1>9
  <2>2. CASE l <= n /\ a < b
    <3>1. m = l /\ RankAt(m) = b /\ l # i /\ l \in 1 .. n /\ Parent(l) = i
      BY <1>2, <1>5, <2>2
    <3>2. r <= n => c <= b
      BY <1>7, <1>9, <2>2, <3>1
    <3>3. \A j \in 2 .. n : Parent(j) = i => RankAt(j) <= b
      BY <1>4, <1>7, <2>2, <3>2
    <3>4. RankAt(l) = b /\ RankAt(i) = a
      BY DEF a, b
    <3> QED BY <2>1, <2>2, <3>1, <3>3, <3>4
  <2>3. CASE ~(l <= n /\ a < b)
    <3>1. m = i /\ RankAt(m) = a
      BY <1>5, <2>3
    <3>2. (r <= n => c <= a) /\ (l <= n => b <= a)
      BY <1>7, <1>9, <2>3, <3>1
    <3>3. \A j \in 2 .. n : Parent(j) = i => RankAt(j) <= a
      BY <1>4, <1>7, <3>2
    <3>4. RankAt(i) = a
      BY DEF a
    <3> QED BY <2>1, <3>1, <3>3, <3>4
  <2> QED BY <2>2, <2>3
<1> QED BY <1>8, <1>9

(* The array and the indices of its nodes. *)
Placed(h, w) ==
    /\ h \in Seq(HeapNodes) /\ w \in [HeapNodes -> Nat]
    /\ \A i \in 1 .. Len(h) : w[h[i]] = i
    /\ \A n \in HeapNodes : w[n] # 0 => w[n] \in 1 .. Len(h) /\ h[w[n]] = n

(* What the loops of down and up have still to put in order.                *)
SiftInv(h, rk, s) ==
    \/ s = Settled /\ Ordered(Along(h, rk), Len(h))
    \/ \E i, k \in Nat : s = Sinking(i, k) /\ OrderedBelow(Along(h, rk), Len(h), i, k)
    \/ \E i \in Nat : s = Rising(i) /\ OrderedAbove(Along(h, rk), Len(h), i)

HeapInv == /\ Placed(heap, where)
           /\ rank \in [HeapNodes -> Ranks]
           /\ SiftInv(heap, rank, sift)

(* The ranks along an array of nodes are integers. *)
LEMMA AlongType ==
    ASSUME HeapAssumption, NEW h \in Seq(HeapNodes), NEW rk \in [HeapNodes -> Ranks]
    PROVE  /\ Len(h) \in Nat /\ DOMAIN h = 1 .. Len(h)
           /\ Along(h, rk) \in [1 .. Len(h) -> Int]
           /\ \A i \in 1 .. Len(h) : h[i] \in HeapNodes /\ Along(h, rk)[i] = rk[h[i]]
<1>1. Len(h) \in Nat /\ DOMAIN h = 1 .. Len(h) /\ \A i \in 1 .. Len(h) : h[i] \in HeapNodes
  OBVIOUS
<1>2. \A i \in 1 .. Len(h) : rk[h[i]] \in Int
  BY <1>1 DEF HeapAssumption
<1> QED BY <1>1, <1>2 DEF Along

(* swap: the nodes stay in the heap and know their new indices. *)
LEMMA ExchangeEffect ==
    ASSUME HeapAssumption, Placed(heap, where), rank \in [HeapNodes -> Ranks],
           NEW i \in 1 .. Len(heap), NEW c \in 1 .. Len(heap), i # c, Exchange(i, c)
    PROVE  /\ Placed(heap', where') /\ Len(heap') = Len(heap) /\ ToSet(heap') = ToSet(heap)
           /\ SwappedAt(Along(heap', rank), Along(heap, rank), Len(heap), i, c)
<1> DEFINE n == Len(heap)
<1>1. heap \in Seq(HeapNodes) /\ n \in Nat /\ DOMAIN heap = 1 .. n
      /\ \A j \in 1 .. n : heap[j] \in HeapNodes
  BY DEF Placed
<1>2. heap' = [heap EXCEPT ![i] = heap[c], ![c] = heap[i]]
  BY DEF Exchange, SwapIn
<1>3. /\ heap' \in Seq(HeapNodes) /\ Len(heap') = n /\ DOMAIN heap' = 1 .. n
      /\ heap'[i] = heap[c] /\ heap'[c] = heap[i]
      /\ \A j \in 1 .. n : j # i /\ j # c => heap'[j] = heap[j]
  <2>1. heap \in [1 .. n -> HeapNodes]
    BY <1>1
  <2>2. heap' \in [1 .. n -> HeapNodes]
    BY <1>1, <1>2, <2>1
  <2>3. heap' \in Seq(HeapNodes) /\ Len(heap') = n
    BY <1>1, <2>2, SeqDef
  <2> QED BY <1>2, <2>1, <2>2, <2>3
<1>4. \A j \in 1 .. n : where[heap[j]] = j
  BY DEF Placed
<1>5. heap[i] # heap[c]
  BY <1>4
<1>6. /\ where' \in [HeapNodes -> Nat]
      /\ where'[heap[i]] = c /\ where'[heap[c]] = i
      /\ \A m \in HeapNodes : m # heap[i] /\ m # heap[c] => where'[m] = where[m]
  <2>1. where' = [where EXCEPT ![heap[i]] = c, ![heap[c]] = i] /\ where \in [HeapNodes -> Nat]
    BY DEF Exchange, Placed
  <2>2. i \in Nat /\ c \in Nat
    BY <1>1
  <2> QED BY <1>1, <1>5, <2>1, <2>2
<1>7. \A j \in 1 .. n : where'[heap'[j]] = j
  <2>1. ASSUME NEW j \in 1 .. n, j # i, j # c
        PROVE  where'[heap'[j]] = j
    <3>1. heap'[j] = heap[j] /\ heap[j] # heap[i] /\ heap[j] # heap[c]
      BY <1>3, <1>4, <2>1
    <3> QED BY <1>1, <1>4, <1>6, <3>1
  <2> QED BY <1>3, <1>6, <2>1
<1>8. ASSUME NEW m \in HeapNodes, where'[m] # 0
      PROVE  where'[m] \in 1 .. n /\ heap'[where'[m]] = m
  <2>1. CASE m = heap[i] \/ m = heap[c]
    BY <1>3, <1>6, <2>1
  <2>2. CASE m # heap[i] /\ m # heap[c]
    <3>1. where'[m] = where[m] /\ where[m] \in 1 .. n /\ heap[where[m]] = m
      BY <1>6, <1>8, <2>2 DEF Placed
    <3>2. where[m] # i /\ where[m] # c
      BY <2>2, <3>1
    <3> QED BY <1>3, <3>1, <3>2
  <2> QED BY <2>1, <2>2
<1>9. ToSet(heap') = ToSet(heap)
  BY <1>1, <1>3 DEF ToSet
<1>10. /\ Along(heap, rank) \in [1 .. n -> Int] /\ Along(heap', rank) \in [1 .. n -> Int]
       /\ \A j \in 1 .. n : Along(heap, rank)[j] = rank[heap[j]] /\ Along(heap', rank)[j] = rank[heap'[j]]
  BY <1>1, <1>3, AlongType
<1>11. SwappedAt(Along(heap', rank), Along(heap, rank), n, i, c)
  BY <1>3, <1>10 DEF SwappedAt
<1>12. Placed(heap', where')
  BY <1>3, <1>6, <1>7, <1>8 DEF Placed
<1> QED BY <1>3, <1>9, <1>11, <1>12

(* The beginning. *)
LEMMA HeapInitInv ==
    HeapInit => HeapInv
<1> SUFFICES ASSUME HeapInit PROVE HeapInv
  OBVIOUS
<1>1. heap = <<>> /\ heap \in Seq(HeapNodes) /\ Len(heap) = 0
  BY DEF HeapInit
<1>2. Placed(heap, where)
  BY <1>1 DEF HeapInit, Placed
<1>3. SiftInv(heap, rank, sift)
  BY <1>1 DEF HeapInit, SiftInv, Ordered
<1> QED BY <1>2, <1>3 DEF HeapInit, HeapInv

(* A loop that is under way says where. *)
LEMMA Ways ==
    ASSUME NEW h, NEW rk, SiftInv(h, rk, sift)
    PROVE  /\ sift.way = "down" => /\ sift.at \in Nat /\ sift.roots \in Nat
                                   /\ sift = Sinking(sift.at, sift.roots)
                                   /\ OrderedBelow(Along(h, rk), Len(h), sift.at, sift.roots)
           /\ sift.way = "up" => /\ sift.at \in Nat /\ sift = Rising(sift.at)
                                 /\ OrderedAbove(Along(h, rk), Len(h), sift.at)
           /\ sift = Settled => Ordered(Along(h, rk), Len(h))
<1>1. CASE sift = Settled
  BY <1>1 DEF Settled, SiftInv, Sinking, Rising
<1>2. ASSUME NEW i \in Nat, NEW k \in Nat, sift = Sinking(i, k), OrderedBelow(Along(h, rk), Len(h), i, k)
      PROVE  sift # Settled /\ sift.way = "down" /\ sift.at = i /\ sift.roots = k
  BY <1>2 DEF Settled, Sinking
<1>3. ASSUME NEW i \in Nat, sift = Rising(i), OrderedAbove(Along(h, rk), Len(h), i)
      PROVE  sift # Settled /\ sift.way = "up" /\ sift.at = i
  BY <1>3 DEF Settled, Rising
<1> QED BY <1>1, <1>2, <1>3 DEF SiftInv

(* A turn of down. *)
LEMMA SinkKeeps ==
    ASSUME HeapAssumption, HeapInv, Sink
    PROVE  HeapInv' /\ ToSet(heap') = ToSet(heap)
<1> DEFINE i == sift.at
           k == sift.roots
           c == Child(i)
           n == Len(heap)
<1>1. i \in Nat /\ k \in Nat /\ sift = Sinking(i, k) /\ OrderedBelow(Along(heap, rank), n, i, k)
  BY Ways DEF HeapInv, Sink
<1>2. heap \in Seq(HeapNodes) /\ rank \in [HeapNodes -> Ranks] /\ Placed(heap, where)
  BY DEF HeapInv, Placed
<1>3. n \in Nat /\ \A j \in 1 .. n : Along(heap, rank)[j] = RankAt(j) /\ RankAt(j) \in Int
  BY <1>2, AlongType DEF RankAt
<1>4. i \in 1 .. n /\ c # i /\ Exchange(i, c)
  BY <1>1 DEF Sink, OrderedBelow
<1>5. /\ c \in 1 .. n /\ Parent(c) = i /\ RankAt(i) < RankAt(c)
      /\ \A j \in 2 .. n : Parent(j) = i => RankAt(j) <= RankAt(c)
  BY <1>3, <1>4, LargerEffect
<1> DEFINE v == Along(heap, rank)
           u == Along(heap', rank)
<1> HIDE DEF v, u, c
<1>6. /\ Placed(heap', where') /\ Len(heap') = n /\ ToSet(heap') = ToSet(heap)
      /\ SwappedAt(u, v, n, i, c)
  BY <1>2, <1>4, <1>5, ExchangeEffect DEF u, v
<1>7. OrderedBelow(u, n, c, k)
  <2>1. v[i] < v[c] /\ \A j \in 2 .. n : Parent(j) = i => v[j] <= v[c]
    BY <1>3, <1>4, <1>5 DEF v
  <2>2. OrderedBelow(v, n, i, k)
    BY <1>1 DEF v
  <2> QED BY <1>3, <1>5, <1>6, <2>1, <2>2, SinkStep
<1>8. rank' = rank /\ sift' = Sinking(c, k) /\ c \in Nat
  BY <1>1, <1>5 DEF Sink, Sinking, c
<1>9. SiftInv(heap', rank', sift')
  BY <1>1, <1>6, <1>7, <1>8 DEF SiftInv, u
<1> QED BY <1>2, <1>6, <1>8, <1>9 DEF HeapInv

(* The end of down. *)
LEMMA SunkKeeps ==
    ASSUME HeapAssumption, HeapInv, Sunk
    PROVE  HeapInv'
<1> DEFINE i == sift.at
           k == sift.roots
           n == Len(heap)
           v == Along(heap, rank)
<1>1. i \in Nat /\ k \in Nat /\ sift = Sinking(i, k) /\ OrderedBelow(v, n, i, k)
  BY Ways DEF HeapInv, Sunk
<1>2. heap \in Seq(HeapNodes) /\ rank \in [HeapNodes -> Ranks] /\ Placed(heap, where)
  BY DEF HeapInv, Placed
<1>3. n \in Nat /\ v \in [1 .. n -> Int] /\ \A j \in 1 .. n : v[j] = RankAt(j) /\ RankAt(j) \in Int
  BY <1>2, AlongType DEF RankAt
<1>4. i \in 1 .. n /\ Child(i) = i
  BY <1>1 DEF Sunk, OrderedBelow
<1>5. \A j \in 2 .. n : Parent(j) = i => RankAt(j) <= RankAt(i)
  BY <1>3, <1>4, LargerEffect
<1> HIDE DEF v
<1>6. \A j \in 2 .. n : Parent(j) = i => v[j] <= v[i]
  BY <1>3, <1>4, <1>5
<1>7. IF k = 0 THEN Ordered(v, n) ELSE OrderedBelow(v, n, k, k - 1)
  BY <1>1, <1>3, <1>6, SinkEnd
<1>8. heap' = heap /\ rank' = rank /\ where' = where
      /\ sift' = IF k = 0 THEN Settled ELSE Sinking(k, k - 1)
  BY DEF Sunk
<1>9. SiftInv(heap', rank', sift')
  <2>1. k # 0 => k - 1 \in Nat
    BY <1>1
  <2> QED BY <1>1, <1>7, <1>8, <2>1 DEF SiftInv, v
<1> QED BY <1>2, <1>8, <1>9 DEF HeapInv

(* A turn of up. *)
LEMMA RiseKeeps ==
    ASSUME HeapAssumption, HeapInv, Rise
    PROVE  HeapInv' /\ ToSet(heap') = ToSet(heap)
<1> DEFINE i == sift.at
           p == Parent(i)
           n == Len(heap)
<1>1. i \in Nat /\ sift = Rising(i) /\ OrderedAbove(Along(heap, rank), n, i)
  BY Ways DEF HeapInv, Rise
<1>2. heap \in Seq(HeapNodes) /\ rank \in [HeapNodes -> Ranks] /\ Placed(heap, where)
  BY DEF HeapInv, Placed
<1>3. n \in Nat /\ \A j \in 1 .. n : Along(heap, rank)[j] = RankAt(j) /\ RankAt(j) \in Int
  BY <1>2, AlongType DEF RankAt
<1>4. i \in 1 .. n /\ p > 0 /\ ~(RankAt(i) <= RankAt(p)) /\ Exchange(i, p)
  BY <1>1 DEF Rise, InPlace, OrderedAbove
<1>5. p \in 1 .. n /\ p # i
  BY <1>1, <1>3, <1>4, Halves
<1>6. RankAt(p) < RankAt(i)
  BY <1>3, <1>4, <1>5
<1> DEFINE v == Along(heap, rank)
           u == Along(heap', rank)
<1> HIDE DEF v, u
<1>7. /\ Placed(heap', where') /\ Len(heap') = n /\ ToSet(heap') = ToSet(heap)
      /\ SwappedAt(u, v, n, i, p)
  BY <1>2, <1>4, <1>5, ExchangeEffect DEF u, v
<1>8. OrderedAbove(u, n, p)
  <2>1. v[p] < v[i] /\ OrderedAbove(v, n, i)
    BY <1>1, <1>3, <1>4, <1>5, <1>6 DEF v
  <2> QED BY <1>3, <1>7, <2>1, RiseStep
<1>9. rank' = rank /\ sift' = Rising(p) /\ p \in Nat
  BY <1>1, <1>5 DEF Rise
<1>10. SiftInv(heap', rank', sift')
  BY <1>7, <1>8, <1>9 DEF SiftInv, u
<1> QED BY <1>2, <1>7, <1>9, <1>10 DEF HeapInv

(* The end of up. *)
LEMMA RisenKeeps ==
    ASSUME HeapAssumption, HeapInv, Risen
    PROVE  HeapInv'
<1> DEFINE i == sift.at
           p == Parent(i)
           n == Len(heap)
           v == Along(heap, rank)
<1>1. i \in Nat /\ OrderedAbove(v, n, i)
  BY Ways DEF HeapInv, Risen
<1>2. heap \in Seq(HeapNodes) /\ rank \in [HeapNodes -> Ranks] /\ Placed(heap, where)
  BY DEF HeapInv, Placed
<1>3. n \in Nat /\ v \in [1 .. n -> Int] /\ \A j \in 1 .. n : v[j] = RankAt(j)
  BY <1>2, AlongType DEF RankAt
<1>4. i \in 1 .. n /\ (p > 0 => RankAt(i) <= RankAt(p))
  BY <1>1 DEF Risen, InPlace, OrderedAbove
<1>5. p > 0 => p \in 1 .. n
  BY <1>1, <1>3, <1>4, Halves
<1> HIDE DEF v
<1>6. p > 0 => v[i] <= v[p]
  BY <1>3, <1>4, <1>5
<1>7. Ordered(v, n)
  BY <1>1, <1>3, <1>6, RiseEnd
<1>8. heap' = heap /\ rank' = rank /\ where' = where /\ sift' = Settled
  BY DEF Risen
<1>9. SiftInv(heap', rank', sift')
  BY <1>7, <1>8 DEF SiftInv, v
<1> QED BY <1>2, <1>8, <1>9 DEF HeapInv

(* A heap that is not empty has a root. *)
LEMMA HasRoot ==
    ASSUME NEW h \in Seq(HeapNodes), h # <<>>
    PROVE  Len(h) \in Nat \ {0} /\ 1 \in 1 .. Len(h) /\ Len(h) \in 1 .. Len(h)
BY EmptySeq

(* yheap_create2 goes down from the parents of the last level. *)
LEMMA CreateHeapKeeps ==
    ASSUME HeapAssumption, HeapInv, NEW m \in Nat \ {0}, NEW arr \in [1 .. m -> HeapNodes],
           CreateHeap(arr)
    PROVE  HeapInv'
<1> DEFINE half == (m + 1) \div 2
<1>1. arr \in Seq(HeapNodes) /\ Len(arr) = m /\ DOMAIN arr = 1 .. m
  BY SeqDef
<1>2. /\ heap' = arr /\ rank' = rank /\ rank \in [HeapNodes -> Ranks]
      /\ sift' = Sinking(half, half - 1)
      /\ where' = [n \in HeapNodes |-> IF n \in ToSet(arr)
                      THEN CHOOSE i \in DOMAIN arr : arr[i] = n ELSE 0]
  BY <1>1 DEF CreateHeap, HeapInv
<1>3. \A i, j \in 1 .. m : arr[i] = arr[j] => i = j
  BY <1>1 DEF CreateHeap, IsInjective
<1>4. \A i \in 1 .. m : arr[i] \in HeapNodes /\ arr[i] \in ToSet(arr)
  BY <1>1 DEF ToSet
<1>5. ASSUME NEW n \in HeapNodes, n \in ToSet(arr)
      PROVE  where'[n] \in 1 .. m /\ arr[where'[n]] = n
  <2>1. \E i \in 1 .. m : arr[i] = n
    BY <1>1, <1>5 DEF ToSet
  <2>2. where'[n] = CHOOSE i \in 1 .. m : arr[i] = n
    BY <1>1, <1>2, <1>5
  <2> QED BY <2>1, <2>2
<1>6. \A n \in HeapNodes : n \notin ToSet(arr) => where'[n] = 0
  BY <1>2
<1>7. where' \in [HeapNodes -> Nat]
  <2>1. \A n \in HeapNodes : where'[n] \in Nat
    BY <1>5, <1>6
  <2>2. DOMAIN where' = HeapNodes /\ where' = [n \in HeapNodes |-> where'[n]]
    BY <1>2
  <2> QED BY <2>1, <2>2
<1>8. Placed(arr, where')
  <2>1. \A i \in 1 .. m : where'[arr[i]] = i
    BY <1>3, <1>4, <1>5
  <2>2. \A n \in HeapNodes : where'[n] # 0 => where'[n] \in 1 .. m /\ arr[where'[n]] = n
    BY <1>5, <1>6
  <2> QED BY <1>1, <1>7, <2>1, <2>2 DEF Placed
<1>9. half \in 1 .. m /\ half - 1 \in Nat /\ half - 1 \in 0 .. half - 1 /\ half \in Nat
      /\ m <= 2 * half
  OBVIOUS
<1>10. OrderedBelow(Along(arr, rank), m, half, half - 1)
  <2>1. \A j \in 2 .. m : Parent(j) <= half
    <3>1. \A j \in 2 .. m : 2 * Parent(j) <= j /\ Parent(j) \in Nat
      BY DEF Parent
    <3> QED BY <1>9, <3>1
  <2>2. \A j \in 2 .. m : ~(Parent(j) > half - 1 /\ Parent(j) # half)
    <3>1. \A j \in 2 .. m : Parent(j) \in Nat
      BY Halves
    <3> QED BY <1>9, <2>1, <3>1
  <2>3. ~(Parent(half) > half - 1)
    <3>1. Parent(half) \in Nat /\ Parent(half) < half
      BY <1>9, Halves
    <3> QED BY <1>9, <3>1
  <2> QED BY <1>9, <2>2, <2>3 DEF OrderedBelow
<1>11. SiftInv(heap', rank', sift')
  BY <1>1, <1>2, <1>9, <1>10 DEF SiftInv
<1> QED BY <1>2, <1>8, <1>11 DEF HeapInv

(* yheap_push. *)
LEMMA PushNodeKeeps ==
    ASSUME HeapAssumption, HeapInv, NEW x \in HeapNodes, PushNode(x)
    PROVE  HeapInv' /\ ToSet(heap) \subseteq ToSet(heap')
<1> DEFINE n == Len(heap)
<1>1. heap \in Seq(HeapNodes) /\ n \in Nat /\ DOMAIN heap = 1 .. n /\ rank \in [HeapNodes -> Ranks]
      /\ \A j \in 1 .. n : heap[j] \in HeapNodes
  BY DEF HeapInv, Placed
<1>2. heap' = Append(heap, x) /\ rank' = rank /\ sift' = Rising(n + 1)
      /\ where' = [where EXCEPT ![x] = n + 1] /\ where[x] = 0
  BY DEF PushNode
<1>3. /\ heap' \in Seq(HeapNodes) /\ Len(heap') = n + 1 /\ heap'[n + 1] = x
      /\ \A j \in 1 .. n : heap'[j] = heap[j]
  BY <1>1, <1>2
<1>4. where \in [HeapNodes -> Nat] /\ \A j \in 1 .. n : where[heap[j]] = j
  BY DEF HeapInv, Placed
<1>5. \A m \in HeapNodes : where[m] # 0 => where[m] \in 1 .. n /\ heap[where[m]] = m
  BY DEF HeapInv, Placed
<1>6. where' \in [HeapNodes -> Nat] /\ where'[x] = n + 1
      /\ \A m \in HeapNodes : m # x => where'[m] = where[m]
  BY <1>1, <1>2, <1>4
<1>7. \A j \in 1 .. n + 1 : where'[heap'[j]] = j
  <2>1. \A j \in 1 .. n : where'[heap'[j]] = j
    BY <1>1, <1>2, <1>3, <1>4, <1>6
  <2> QED BY <1>1, <1>3, <1>6, <2>1
<1>8. \A m \in HeapNodes : where'[m] # 0 => where'[m] \in 1 .. n + 1 /\ heap'[where'[m]] = m
  <2>1. ASSUME NEW m \in HeapNodes, m # x, where'[m] # 0
        PROVE  where'[m] \in 1 .. n + 1 /\ heap'[where'[m]] = m
    <3>1. where'[m] = where[m] /\ where[m] \in 1 .. n /\ heap[where[m]] = m
      BY <1>5, <1>6, <2>1
    <3> QED BY <1>1, <1>3, <3>1
  <2> QED BY <1>1, <1>3, <1>6, <2>1
<1>9. Placed(heap', where')
  BY <1>3, <1>6, <1>7, <1>8 DEF Placed
<1> DEFINE v == Along(heap, rank)
           u == Along(heap', rank)
<1>10. /\ u \in [1 .. n + 1 -> Int] /\ v \in [1 .. n -> Int]
       /\ \A j \in 1 .. n : u[j] = v[j]
  <2>1. u \in [1 .. n + 1 -> Int] /\ v \in [1 .. n -> Int]
    BY <1>1, <1>3, AlongType
  <2>2. \A j \in 1 .. n : u[j] = rank[heap'[j]] /\ v[j] = rank[heap[j]]
    BY <1>1, <1>3 DEF Along
  <2> QED BY <1>3, <2>1, <2>2
<1>11. Ordered(v, n)
  BY Ways DEF HeapInv, PushNode
<1> HIDE DEF v, u
<1>12. OrderedAbove(u, n + 1, n + 1)
  <2>1. \A j \in 2 .. n + 1 : Parent(j) \in Nat /\ Parent(j) > 0 /\ Parent(j) < j
    BY <1>1, Halves
  <2>2. \A j \in 2 .. n + 1 : j # n + 1 => u[j] <= u[Parent(j)]
    <3>1. ASSUME NEW j \in 2 .. n + 1, j # n + 1 PROVE u[j] <= u[Parent(j)]
      <4>1. j \in 2 .. n /\ Parent(j) \in 1 .. n /\ j \in 1 .. n
        BY <1>1, <2>1, <3>1
      <4> QED BY <1>10, <1>11, <4>1 DEF Ordered
    <3> QED BY <3>1
  <2>3. \A j \in 2 .. n + 1 : Parent(j) # n + 1
    BY <1>1, <2>1
  <2> QED BY <1>1, <2>2, <2>3 DEF OrderedAbove
<1>13. SiftInv(heap', rank', sift')
  BY <1>1, <1>2, <1>3, <1>12 DEF SiftInv, u
<1>14. ToSet(heap) \subseteq ToSet(heap')
  BY <1>1, <1>3 DEF ToSet
<1> QED BY <1>1, <1>2, <1>9, <1>13, <1>14 DEF HeapInv

(* An array in order whose root has another value, or that is one shorter. *)
LEMMA RootChanged ==
    ASSUME NEW n \in Nat, NEW m \in 1 .. n, NEW v, NEW u,
           Ordered(v, n), \A j \in 2 .. m : u[j] = v[j]
    PROVE  OrderedBelow(u, m, 1, 0)
<1>1. \A j \in 2 .. m : Parent(j) \in Nat /\ Parent(j) > 0 /\ Parent(j) < j
  BY Halves
<1>2. Parent(1) = 0
  BY DEF Parent
<1>3. ASSUME NEW j \in 2 .. m, Parent(j) # 1 PROVE u[j] <= u[Parent(j)]
  <2>1. j \in 2 .. n /\ Parent(j) \in 2 .. m
    BY <1>1, <1>3
  <2> QED BY <2>1 DEF Ordered
<1> QED BY <1>2, <1>3 DEF OrderedBelow

(* yheap_pop. *)
LEMMA PopRootKeeps ==
    ASSUME HeapAssumption, HeapInv, PopRoot
    PROVE  /\ HeapInv' /\ ToSet(heap) \ ToSet(heap') \subseteq {heap[1]}
           /\ heap[1] \notin ToSet(heap')
<1> DEFINE n == Len(heap)
<1>1. heap \in Seq(HeapNodes) /\ n \in Nat /\ DOMAIN heap = 1 .. n /\ rank \in [HeapNodes -> Ranks]
      /\ \A j \in 1 .. n : heap[j] \in HeapNodes
  BY DEF HeapInv, Placed
<1>2. n \in Nat \ {0} /\ 1 \in 1 .. n /\ n \in 1 .. n
  BY <1>1, HasRoot DEF PopRoot
<1>3. heap' = PopLast(heap) /\ rank' = rank
      /\ sift' = (IF n = 1 THEN Settled ELSE Sinking(1, 0))
      /\ where' = [where EXCEPT ![heap[n]] = 1, ![heap[1]] = 0]
  BY DEF PopRoot
<1>4. /\ heap' \in Seq(HeapNodes) /\ Len(heap') = n - 1 /\ DOMAIN heap' = 1 .. n - 1
      /\ \A j \in 1 .. n - 1 : heap'[j] = IF j = 1 THEN heap[n] ELSE heap[j]
  <2> DEFINE s == [heap EXCEPT ![1] = heap[n], ![n] = heap[1]]
  <2>1. heap \in [1 .. n -> HeapNodes] /\ heap[1] \in HeapNodes /\ heap[n] \in HeapNodes
    BY <1>1, <1>2
  <2>2. s \in [1 .. n -> HeapNodes]
    BY <2>1
  <2>3. s \in Seq(HeapNodes) /\ Len(s) = n
    BY <1>1, <2>2, SeqDef
  <2>4. \A j \in 1 .. n - 1 : s[j] = IF j = 1 THEN heap[n] ELSE heap[j]
    BY <1>2, <2>1
  <2>5. heap' = SubSeq(s, 1, n - 1)
    BY <1>3, <2>3 DEF PopLast, SwapIn, Front
  <2> HIDE DEF s
  <2>6. heap' \in Seq(HeapNodes) /\ Len(heap') = n - 1
        /\ \A j \in 1 .. n - 1 : heap'[j] = s[j]
    BY <1>2, <2>3, <2>5
  <2> QED BY <1>2, <2>4, <2>6
<1>5. where \in [HeapNodes -> Nat] /\ \A j \in 1 .. n : where[heap[j]] = j
  BY DEF HeapInv, Placed
<1>6. \A m \in HeapNodes : where[m] # 0 => where[m] \in 1 .. n /\ heap[where[m]] = m
  BY DEF HeapInv, Placed
<1>7. /\ where' \in [HeapNodes -> Nat] /\ where'[heap[1]] = 0
      /\ (n # 1 => where'[heap[n]] = 1)
      /\ \A m \in HeapNodes : m # heap[1] /\ m # heap[n] => where'[m] = where[m]
  <2>1. n # 1 => heap[n] # heap[1]
    BY <1>2, <1>5
  <2> QED BY <1>1, <1>2, <1>3, <1>5, <2>1
<1>8. \A j \in 1 .. n - 1 : where'[heap'[j]] = j
  <2>1. ASSUME NEW j \in 1 .. n - 1, j # 1 PROVE where'[heap'[j]] = j
    <3>1. heap'[j] = heap[j] /\ j \in 1 .. n /\ j # n
      BY <1>2, <1>4, <2>1
    <3>2. heap[j] # heap[1] /\ heap[j] # heap[n]
      BY <1>2, <1>5, <2>1, <3>1
    <3> QED BY <1>1, <1>5, <1>7, <3>1, <3>2
  <2>2. n # 1 => where'[heap[n]] = 1
    BY <1>7
  <2> QED BY <1>2, <1>4, <2>1, <2>2
<1>9. ASSUME NEW m \in HeapNodes, where'[m] # 0
      PROVE  where'[m] \in 1 .. n - 1 /\ heap'[where'[m]] = m
  <2>1. m # heap[1]
    BY <1>7, <1>9
  <2>2. CASE m = heap[n]
    <3>1. n # 1
      BY <2>1, <2>2
    <3>2. where'[m] = 1 /\ 1 \in 1 .. n - 1
      BY <1>2, <1>7, <2>2, <3>1
    <3> QED BY <1>4, <2>2, <3>2
  <2>3. CASE m # heap[n]
    <3>1. where'[m] = where[m] /\ where[m] \in 1 .. n /\ heap[where[m]] = m
      BY <1>6, <1>7, <1>9, <2>1, <2>3
    <3>2. where[m] # 1 /\ where[m] # n
      BY <2>1, <2>3, <3>1
    <3>3. where[m] \in 1 .. n - 1
      BY <1>2, <3>1, <3>2
    <3> QED BY <1>4, <3>1, <3>2, <3>3
  <2> QED BY <2>2, <2>3
<1>10. Placed(heap', where')
  BY <1>4, <1>7, <1>8, <1>9 DEF Placed
<1>11. SiftInv(heap', rank', sift')
  <2> DEFINE v == Along(heap, rank)
             u == Along(heap', rank)
  <2>1. Ordered(v, n)
    BY Ways DEF HeapInv, PopRoot
  <2>2. \A j \in 2 .. n - 1 : u[j] = v[j]
    BY <1>2, <1>4 DEF Along
  <2>3. CASE n = 1
    BY <1>3, <1>4, <2>3 DEF SiftInv, Ordered
  <2>4. CASE n # 1
    <3> HIDE DEF u, v
    <3>1. n - 1 \in 1 .. n
      <4>1. \A l \in Nat \ {0} : l # 1 => l - 1 \in 1 .. l
        OBVIOUS
      <4> QED BY <1>2, <2>4, <4>1
    <3>2. OrderedBelow(u, n - 1, 1, 0)
      BY <1>2, <2>1, <2>2, <3>1, RootChanged
    <3> QED BY <1>3, <1>4, <2>4, <3>2 DEF SiftInv, u
  <2> QED BY <2>3, <2>4
<1>12. ToSet(heap) \ ToSet(heap') \subseteq {heap[1]}
  <2>1. ASSUME NEW j \in 1 .. n, j # 1 PROVE heap[j] \in ToSet(heap')
    <3>1. CASE j = n
      <4>1. heap'[1] = heap[j] /\ 1 \in DOMAIN heap'
        BY <1>2, <1>4, <2>1, <3>1
      <4> QED BY <4>1 DEF ToSet
    <3>2. CASE j # n
      <4>1. heap'[j] = heap[j] /\ j \in DOMAIN heap'
        BY <1>2, <1>4, <2>1, <3>2
      <4> QED BY <4>1 DEF ToSet
    <3> QED BY <3>1, <3>2
  <2> QED BY <1>1, <2>1 DEF ToSet
<1>13. heap[1] \notin ToSet(heap')
  BY <1>4, <1>7, <1>8 DEF ToSet
<1> QED BY <1>1, <1>3, <1>10, <1>11, <1>12, <1>13 DEF HeapInv

(* The nodes of the array are nodes, each of which knows its index. *)
LEMMA HeapMembers ==
    ASSUME NEW h, NEW w, Placed(h, w)
    PROVE  ToSet(h) \subseteq HeapNodes /\ \A m \in ToSet(h) : w[m] # 0
<1>1. /\ h \in Seq(HeapNodes) /\ DOMAIN h = 1 .. Len(h)
      /\ \A i \in 1 .. Len(h) : h[i] \in HeapNodes /\ w[h[i]] = i
  BY DEF Placed
<1> QED BY <1>1 DEF ToSet

(* The part that yheap_pushpop and yheap_poppush share. *)
LEMMA ReplaceRootKeeps ==
    ASSUME HeapAssumption, HeapInv, NEW x \in HeapNodes, ReplaceRoot(x)
    PROVE  /\ HeapInv' /\ ToSet(heap) \ ToSet(heap') \subseteq {heap[1]}
           /\ ToSet(heap') \ ToSet(heap) # {}
<1> DEFINE n == Len(heap)
<1>1. heap \in Seq(HeapNodes) /\ n \in Nat /\ DOMAIN heap = 1 .. n /\ rank \in [HeapNodes -> Ranks]
      /\ \A j \in 1 .. n : heap[j] \in HeapNodes
  BY DEF HeapInv, Placed
<1>2. n \in Nat \ {0} /\ 1 \in 1 .. n
  BY <1>1, HasRoot DEF ReplaceRoot
<1>3. heap' = [heap EXCEPT ![1] = x] /\ rank' = rank /\ sift' = Sinking(1, 0)
      /\ where' = [where EXCEPT ![heap[1]] = 0, ![x] = 1] /\ where[x] = 0
  BY DEF ReplaceRoot
<1>4. /\ heap' \in Seq(HeapNodes) /\ Len(heap') = n /\ DOMAIN heap' = 1 .. n
      /\ heap'[1] = x /\ \A j \in 1 .. n : j # 1 => heap'[j] = heap[j]
  <2>1. heap \in [1 .. n -> HeapNodes]
    BY <1>1
  <2>2. heap' \in [1 .. n -> HeapNodes]
    BY <1>3, <2>1
  <2> QED BY <1>1, <1>2, <1>3, <2>1, <2>2, SeqDef
<1>5. where \in [HeapNodes -> Nat] /\ \A j \in 1 .. n : where[heap[j]] = j
  BY DEF HeapInv, Placed
<1>6. \A m \in HeapNodes : where[m] # 0 => where[m] \in 1 .. n /\ heap[where[m]] = m
  BY DEF HeapInv, Placed
<1>7. x # heap[1]
  BY <1>2, <1>3, <1>5
<1>8. /\ where' \in [HeapNodes -> Nat] /\ where'[heap[1]] = 0 /\ where'[x] = 1
      /\ \A m \in HeapNodes : m # heap[1] /\ m # x => where'[m] = where[m]
  BY <1>1, <1>2, <1>3, <1>5, <1>7
<1>9. \A j \in 1 .. n : where'[heap'[j]] = j
  <2>1. ASSUME NEW j \in 1 .. n, j # 1 PROVE where'[heap'[j]] = j
    <3>1. heap'[j] = heap[j] /\ heap[j] # heap[1] /\ heap[j] # x
      BY <1>2, <1>3, <1>4, <1>5, <2>1
    <3> QED BY <1>1, <1>5, <1>8, <3>1
  <2> QED BY <1>4, <1>8, <2>1
<1>10. ASSUME NEW m \in HeapNodes, where'[m] # 0
       PROVE  where'[m] \in 1 .. n /\ heap'[where'[m]] = m
  <2>1. m # heap[1]
    BY <1>8, <1>10
  <2>2. CASE m = x
    BY <1>2, <1>4, <1>8, <2>2
  <2>3. CASE m # x
    <3>1. where'[m] = where[m] /\ where[m] \in 1 .. n /\ heap[where[m]] = m
      BY <1>6, <1>8, <1>10, <2>1, <2>3
    <3>2. where[m] # 1
      BY <2>1, <3>1
    <3> QED BY <1>4, <3>1, <3>2
  <2> QED BY <2>2, <2>3
<1>11. Placed(heap', where')
  BY <1>4, <1>8, <1>9, <1>10 DEF Placed
<1>12. SiftInv(heap', rank', sift')
  <2> DEFINE v == Along(heap, rank)
             u == Along(heap', rank)
  <2>1. Ordered(v, n)
    BY Ways DEF HeapInv, ReplaceRoot
  <2>2. \A j \in 2 .. n : u[j] = v[j]
    BY <1>2, <1>4 DEF Along
  <2> HIDE DEF u, v
  <2>3. n \in Nat /\ n \in 1 .. n /\ 1 \in Nat /\ 0 \in Nat
    BY <1>2
  <2>4. OrderedBelow(u, n, 1, 0)
    BY <2>1, <2>2, <2>3, RootChanged
  <2> QED BY <1>3, <1>4, <2>3, <2>4 DEF SiftInv, u
<1>13. ToSet(heap) \ ToSet(heap') \subseteq {heap[1]}
  BY <1>1, <1>4 DEF ToSet
<1>14. x \in ToSet(heap') /\ x \notin ToSet(heap)
  <2>1. x \in ToSet(heap')
    BY <1>2, <1>4 DEF ToSet
  <2>2. x \notin ToSet(heap)
    BY <1>1, <1>3, HeapMembers DEF HeapInv
  <2> QED BY <2>1, <2>2
<1> QED BY <1>1, <1>3, <1>11, <1>12, <1>13, <1>14 DEF HeapInv

(* An array in order but for one element that has another value.            *)
LEMMA ValueChanged ==
    ASSUME NEW n \in Nat, NEW i \in 1 .. n, NEW v, NEW u,
           v \in [1 .. n -> Int], u \in [1 .. n -> Int],
           Ordered(v, n), \A j \in 1 .. n : j # i => u[j] = v[j]
    PROVE  IF i # 1 /\ u[i] > v[Parent(i)] THEN OrderedAbove(u, n, i) ELSE OrderedBelow(u, n, i, 0)
<1>1. \A j \in 2 .. n : j \in 1 .. n /\ Parent(j) \in 1 .. n /\ Parent(j) < j /\ v[j] <= v[Parent(j)]
  <2>1. \A j \in 2 .. n : j \in 1 .. n /\ Parent(j) \in 1 .. n /\ Parent(j) < j
    BY ParentBefore
  <2>2. \A j \in 2 .. n : v[j] <= v[Parent(j)]
    BY DEF Ordered
  <2> QED BY <2>1, <2>2
<1>2. \A j \in 1 .. n : v[j] \in Int /\ u[j] \in Int
  OBVIOUS
<1>3. i # 1 => i \in 2 .. n /\ u[Parent(i)] = v[Parent(i)] /\ Parent(i) \in 1 .. n
  BY <1>1
<1>4. ASSUME Parent(i) > 0 PROVE i # 1
  BY <1>4 DEF Parent
<1>5. ASSUME NEW j \in 2 .. n, Parent(j) = i, i # 1
      PROVE  u[j] <= u[Parent(i)]
  <2>1. u[j] = v[j] /\ v[j] <= v[i] /\ v[i] <= v[Parent(i)]
    BY <1>1, <1>3, <1>5
  <2>2. v[j] \in Int /\ v[i] \in Int /\ v[Parent(i)] \in Int
    BY <1>1, <1>2, <1>3, <1>5
  <2> QED BY <1>3, <1>5, <2>1, <2>2
<1>6. ASSUME NEW j \in 2 .. n, j # i, Parent(j) # i
      PROVE  u[j] <= u[Parent(j)]
  BY <1>1, <1>6
<1>7. CASE i # 1 /\ u[i] > v[Parent(i)]
  <2>1. ASSUME NEW j \in 2 .. n, Parent(j) = i
        PROVE  u[j] <= u[i]
    <3>1. u[j] <= u[Parent(i)] /\ u[Parent(i)] = v[Parent(i)]
      BY <1>3, <1>5, <1>7, <2>1
    <3>2. u[j] \in Int /\ u[i] \in Int /\ v[Parent(i)] \in Int
      BY <1>1, <1>2, <1>3, <1>7, <2>1
    <3> QED BY <1>7, <3>1, <3>2
  <2> QED BY <1>5, <1>6, <1>7, <2>1 DEF OrderedAbove
<1>8. CASE ~(i # 1 /\ u[i] > v[Parent(i)])
  <2>1. i # 1 => u[i] <= u[Parent(i)]
    <3>1. i # 1 => u[i] \in Int /\ v[Parent(i)] \in Int
      BY <1>2, <1>3
    <3> QED BY <1>3, <1>8, <3>1
  <2>2. \A j \in 2 .. n : Parent(j) > 0 /\ Parent(j) # i => u[j] <= u[Parent(j)]
    BY <1>6, <2>1
  <2>3. Parent(i) > 0 => \A j \in 2 .. n : Parent(j) = i => u[j] <= u[Parent(i)]
    BY <1>4, <1>5
  <2>4. 0 \in 0 .. i - 1
    OBVIOUS
  <2> QED BY <1>8, <2>2, <2>3, <2>4 DEF OrderedBelow
<1> QED BY <1>7, <1>8

(* yheap_heapify, after the client has changed a value. *)
LEMMA HeapifyKeeps ==
    ASSUME HeapAssumption, HeapInv, NEW x \in HeapNodes, NEW r \in Ranks, Heapify(x, r)
    PROVE  HeapInv'
<1> DEFINE n == Len(heap)
           i == where[x]
           v == Along(heap, rank)
           u == Along(heap, rank')
<1>1. heap \in Seq(HeapNodes) /\ n \in Nat /\ rank \in [HeapNodes -> Ranks] /\ Placed(heap, where)
      /\ \A j \in 1 .. n : heap[j] \in HeapNodes
  BY DEF HeapInv, Placed
<1>2. rank' = [rank EXCEPT ![x] = r] /\ heap' = heap /\ where' = where
      /\ sift' = IF i # 1 /\ r > RankAt(Parent(i)) THEN Rising(i) ELSE Sinking(i, 0)
  BY DEF Heapify
<1>3. i \in 1 .. n /\ i \in Nat /\ heap[i] = x
  BY DEF Heapify, HeapInv, Placed
<1>4. rank' \in [HeapNodes -> Ranks]
  BY <1>1, <1>2
<1>5. v \in [1 .. n -> Int] /\ u \in [1 .. n -> Int]
      /\ \A j \in 1 .. n : v[j] = rank[heap[j]] /\ u[j] = rank'[heap[j]]
  BY <1>1, <1>4, AlongType
<1>6. \A j \in 1 .. n : j # i => u[j] = v[j]
  <2>1. ASSUME NEW j \in 1 .. n, j # i PROVE u[j] = v[j]
    <3>1. heap[j] # x
      BY <2>1 DEF HeapInv, Placed
    <3> QED BY <1>1, <1>2, <1>5, <3>1
  <2> QED BY <2>1
<1>7. u[i] = r
  BY <1>1, <1>2, <1>3, <1>5
<1>8. i # 1 => RankAt(Parent(i)) = v[Parent(i)]
  <2>1. i # 1 => Parent(i) \in 1 .. n
    BY <1>1, <1>3, Halves
  <2> QED BY <1>5, <2>1 DEF RankAt
<1>9. Ordered(v, n)
  BY Ways DEF HeapInv, Heapify
<1> HIDE DEF u, v
<1>10. IF i # 1 /\ u[i] > v[Parent(i)] THEN OrderedAbove(u, n, i) ELSE OrderedBelow(u, n, i, 0)
  BY <1>1, <1>3, <1>5, <1>6, <1>9, ValueChanged
<1>11. SiftInv(heap', rank', sift')
  <2>1. CASE i # 1 /\ r > RankAt(Parent(i))
    <3>1. OrderedAbove(u, n, i) /\ sift' = Rising(i)
      BY <1>2, <1>7, <1>8, <1>10, <2>1
    <3> QED BY <1>2, <1>3, <3>1 DEF SiftInv, u
  <2>2. CASE ~(i # 1 /\ r > RankAt(Parent(i)))
    <3>1. OrderedBelow(u, n, i, 0) /\ sift' = Sinking(i, 0)
      BY <1>2, <1>7, <1>8, <1>10, <2>2
    <3> QED BY <1>2, <1>3, <3>1 DEF SiftInv, u
  <2> QED BY <2>1, <2>2
<1> QED BY <1>1, <1>2, <1>4, <1>11 DEF HeapInv

(* yheap_reset. *)
LEMMA ResetHeapKeeps ==
    ASSUME HeapInv, ResetHeap
    PROVE  HeapInv'
<1>1. heap' = <<>> /\ heap' \in Seq(HeapNodes) /\ Len(heap') = 0 /\ rank' = rank /\ sift' = Settled
      /\ where' = [n \in HeapNodes |-> 0]
  BY DEF ResetHeap
<1>2. Placed(heap', where')
  BY <1>1 DEF Placed
<1>3. SiftInv(heap', rank', sift')
  BY <1>1 DEF SiftInv, Ordered
<1> QED BY <1>1, <1>2, <1>3 DEF HeapInv

(* The root of a heap at rest is the largest. *)
LEMMA RootLargest ==
    ASSUME HeapAssumption, HeapInv, sift = Settled
    PROVE  \A m \in ToSet(heap) : rank[m] <= rank[heap[1]]
<1> DEFINE n == Len(heap)
           v == Along(heap, rank)
<1>1. heap \in Seq(HeapNodes) /\ n \in Nat /\ DOMAIN heap = 1 .. n /\ rank \in [HeapNodes -> Ranks]
  BY DEF HeapInv, Placed
<1>2. v \in [1 .. n -> Int] /\ \A i \in 1 .. n : v[i] = rank[heap[i]]
  BY <1>1, AlongType
<1>3. Ordered(v, n)
  BY Ways DEF HeapInv
<1> HIDE DEF v
<1>4. \A i \in 1 .. n : v[i] <= v[1]
  BY <1>1, <1>2, <1>3, RootIsLargest
<1>5. \A i \in 1 .. n : 1 \in 1 .. n /\ rank[heap[i]] <= rank[heap[1]]
  BY <1>1, <1>2, <1>4
<1> QED BY <1>1, <1>5 DEF ToSet

(* A step that takes no node out, and returns none or what was returned. *)
LEMMA NoneLeaves ==
    ASSUME HeapAssumption, HeapInv', ToSet(heap) \subseteq ToSet(heap'),
           popped' \in {NoNode, popped}
    PROVE  RootLeaves
<1>1. ToSet(heap') \subseteq HeapNodes
  BY HeapMembers DEF HeapInv
<1>2. NoNode \notin ToSet(heap')
  BY <1>1 DEF HeapAssumption
<1> QED BY <1>2 DEF RootLeaves

(* Every step keeps the invariant, and only the root leaves. *)
LEMMA HeapStepKeeps ==
    ASSUME HeapAssumption, HeapInv, HeapNext
    PROVE  HeapInv' /\ RootLeaves
<1> DEFINE Lost == ToSet(heap) \ ToSet(heap')
<1>1. ASSUME NEW k \in 1 .. MaxHeap, NEW arr \in [1 .. k -> HeapNodes], CreateHeap(arr)
      PROVE  HeapInv' /\ RootLeaves
  <2>1. k \in Nat \ {0}
    OBVIOUS
  <2>2. HeapInv'
    BY <1>1, <2>1, CreateHeapKeeps
  <2>3. ToSet(heap) \subseteq ToSet(heap') /\ popped' = NoNode
    BY <1>1 DEF CreateHeap, ToSet
  <2> QED BY <2>2, <2>3, NoneLeaves
<1>2. ASSUME NEW n \in HeapNodes, PushNode(n)
      PROVE  HeapInv' /\ RootLeaves
  <2>1. popped' = NoNode
    BY <1>2 DEF PushNode
  <2> QED BY <1>2, <2>1, PushNodeKeeps, NoneLeaves
<1>3. ASSUME NEW n \in HeapNodes, ReplaceRoot(n)
      PROVE  HeapInv' /\ RootLeaves
  <2>1. HeapInv' /\ Lost \subseteq {heap[1]} /\ ToSet(heap') \ ToSet(heap) # {}
    BY <1>3, ReplaceRootKeeps
  <2>2. (\A m \in ToSet(heap) : rank[m] <= rank[heap[1]]) /\ popped' = SlotAddress
    BY <1>3, RootLargest DEF ReplaceRoot
  <2>3. SlotAddress \notin ToSet(heap')
    BY <2>1, HeapMembers DEF HeapInv, HeapAssumption
  <2> QED BY <2>1, <2>2, <2>3 DEF RootLeaves
<1>4. ASSUME PopRoot PROVE HeapInv' /\ RootLeaves
  <2>1. HeapInv' /\ Lost \subseteq {heap[1]} /\ heap[1] \notin ToSet(heap')
    BY <1>4, PopRootKeeps
  <2>2. (\A m \in ToSet(heap) : rank[m] <= rank[heap[1]]) /\ popped' = heap[1]
    BY <1>4, RootLargest DEF PopRoot
  <2> QED BY <2>1, <2>2 DEF RootLeaves
<1>5. ASSUME NEW n \in HeapNodes, NEW v \in Ranks, Heapify(n, v)
      PROVE  HeapInv' /\ RootLeaves
  <2>1. heap' = heap /\ popped' = NoNode
    BY <1>5 DEF Heapify
  <2> QED BY <1>5, <2>1, HeapifyKeeps, NoneLeaves
<1>6. ASSUME ResetHeap PROVE HeapInv' /\ RootLeaves
  <2>1. HeapInv'
    BY <1>6, ResetHeapKeeps
  <2>2. heap' = <<>> /\ popped' = NoNode
    BY <1>6 DEF ResetHeap
  <2>3. NoNode \notin ToSet(heap')
    BY <2>2 DEF ToSet
  <2> QED BY <2>1, <2>2, <2>3 DEF RootLeaves
<1>7. ASSUME Sink PROVE HeapInv' /\ RootLeaves
  <2>1. popped' = popped
    BY <1>7 DEF Sink
  <2> QED BY <1>7, <2>1, SinkKeeps, NoneLeaves
<1>8. ASSUME Sunk PROVE HeapInv' /\ RootLeaves
  <2>1. heap' = heap /\ popped' = popped
    BY <1>8 DEF Sunk
  <2> QED BY <1>8, <2>1, SunkKeeps, NoneLeaves
<1>9. ASSUME Rise PROVE HeapInv' /\ RootLeaves
  <2>1. popped' = popped
    BY <1>9 DEF Rise
  <2> QED BY <1>9, <2>1, RiseKeeps, NoneLeaves
<1>10. ASSUME Risen PROVE HeapInv' /\ RootLeaves
  <2>1. heap' = heap /\ popped' = popped
    BY <1>10 DEF Risen
  <2> QED BY <1>10, <2>1, RisenKeeps, NoneLeaves
<1>11. ASSUME NEW n \in HeapNodes, PushPop(n), ~ReplaceRoot(n)
       PROVE  HeapInv' /\ RootLeaves
  <2>1. where[n] = 0 /\ popped' = n /\ UNCHANGED <<heap, rank, where, sift>>
    BY <1>11 DEF PushPop
  <2>2. HeapInv'
    BY <2>1 DEF HeapInv
  <2>3. n \notin ToSet(heap')
    BY <2>1, HeapMembers DEF HeapInv
  <2> QED BY <2>1, <2>2, <2>3 DEF RootLeaves
<1>12. ASSUME NEW n \in HeapNodes, PopPush(n), ~ReplaceRoot(n), ~PushNode(n)
       PROVE  HeapInv' /\ RootLeaves
  <2>1. popped' = NoNode /\ UNCHANGED <<heap, rank, where, sift>>
    BY <1>12 DEF PopPush
  <2>2. HeapInv'
    BY <2>1 DEF HeapInv
  <2> QED BY <2>1, <2>2, NoneLeaves
<1> QED BY <1>1, <1>2, <1>3, <1>4, <1>5, <1>6, <1>7, <1>8, <1>9, <1>10, <1>11, <1>12
        DEF HeapNext

(* The invariant gives the order. *)
LEMMA HeapFollows ==
    ASSUME HeapAssumption, HeapInv
    PROVE  HeapOrdered
<1> DEFINE n == Len(heap)
           v == Along(heap, rank)
<1>1. heap \in Seq(HeapNodes) /\ n \in Nat /\ DOMAIN heap = 1 .. n /\ rank \in [HeapNodes -> Ranks]
  BY DEF HeapInv, Placed
<1>2. \A i \in 1 .. n : v[i] = RankAt(i)
  BY <1>1, AlongType DEF RankAt
<1>3. sift = Settled => Ordered(v, n)
  BY Ways DEF HeapInv
<1> HIDE DEF v
<1>4. ASSUME sift = Settled, NEW i \in 1 .. n, i > 1
      PROVE  RankAt(i) <= RankAt(Parent(i))
  <2>1. i \in 2 .. n /\ Parent(i) \in 1 .. n
    BY <1>1, <1>4, ParentBefore
  <2> QED BY <1>2, <1>3, <1>4, <2>1 DEF Ordered
<1>5. /\ \A i \in 1 .. n : where[heap[i]] = i
      /\ \A m \in HeapNodes : where[m] # 0 => where[m] \in 1 .. n /\ heap[where[m]] = m
  BY DEF HeapInv, Placed
<1> QED BY <1>1, <1>4, <1>5 DEF HeapOrdered

(* Whatever operations led to it, the array is a heap between operations,   *)
(* and every node knows its index.                                          *)
THEOREM HeapStaysOrdered ==
    ASSUME HeapAssumption
    PROVE  HeapSpec => []HeapOrdered
<1>1. HeapInit => HeapInv
  BY HeapInitInv
<1>2. HeapInv /\ [HeapNext]_heapVars => HeapInv'
  <2>1. HeapInv /\ UNCHANGED heapVars => HeapInv'
    BY DEF HeapInv, heapVars
  <2> QED BY <2>1, HeapStepKeeps
<1>3. HeapInv => HeapOrdered
  BY HeapFollows
<1> QED BY <1>1, <1>2, <1>3, PTL DEF HeapSpec

(* What leaves the heap is its largest node, and nothing else leaves it.    *)
THEOREM HeapIsPriorityQueue ==
    ASSUME HeapAssumption
    PROVE  HeapSpec => IsPriorityQueue
<1>1. HeapInit => HeapInv
  BY HeapInitInv
<1>2. HeapInv /\ [HeapNext]_heapVars => HeapInv'
  <2>1. HeapInv /\ UNCHANGED heapVars => HeapInv'
    BY DEF HeapInv, heapVars
  <2> QED BY <2>1, HeapStepKeeps
<1>3. HeapInv => HeapOrdered
  BY HeapFollows
<1>4. HeapInv /\ [HeapNext]_heapVars => [RootLeaves]_heapVars
  BY HeapStepKeeps
<1> QED BY <1>1, <1>2, <1>3, <1>4, PTL DEF HeapSpec, IsPriorityQueue

------------------------------------------------------------------------------
(* The hash. *)
(* The powers of two up to n. *)
Powers(g, n) == /\ g \in [0 .. n -> Nat] /\ g[0] = 1
                /\ \A i \in 1 .. n : g[i] = 2 * g[i - 1]

(* There are such. *)
LEMMA PowersExist ==
    ASSUME NEW m \in Nat
    PROVE  \E g : Powers(g, m)
<1> DEFINE T == {n \in 0 .. m : \E g : Powers(g, n)}
<1>1. 0 \in T
  <2>1. Powers([i \in 0 .. 0 |-> 1], 0)
    BY DEF Powers
  <2> QED BY <2>1
<1>2. ASSUME NEW n \in 0 .. m - 1, n \in T
      PROVE  n + 1 \in T
  <2>1. PICK g : Powers(g, n)
    BY <1>2
  <2> DEFINE h == [i \in 0 .. n + 1 |-> IF i = n + 1 THEN 2 * g[n] ELSE g[i]]
  <2>2. n \in Nat /\ n + 1 \in 0 .. m /\ g[n] \in Nat
    BY <2>1 DEF Powers
  <2>3. h \in [0 .. n + 1 -> Nat] /\ h[0] = 1
    BY <2>1, <2>2 DEF Powers
  <2>4. ASSUME NEW i \in 1 .. n + 1
        PROVE  h[i] = 2 * h[i - 1]
    <3>1. CASE i = n + 1
      <4>1. i - 1 = n /\ i - 1 \in 0 .. n + 1 /\ i - 1 # n + 1
        BY <2>2, <3>1
      <4> QED BY <2>2, <3>1, <4>1
    <3>2. CASE i # n + 1
      <4>1. i \in 1 .. n /\ i - 1 \in 0 .. n + 1 /\ i - 1 # n + 1
        BY <2>2, <3>2
      <4> QED BY <2>1, <3>2, <4>1 DEF Powers
    <3> QED BY <3>1, <3>2
  <2> HIDE DEF h
  <2>5. Powers(h, n + 1)
    BY <2>3, <2>4 DEF Powers
  <2> QED BY <2>2, <2>5
<1>3. 0 .. m \subseteq T
  BY <1>1, <1>2, UpTo
<1> QED BY <1>3

(* Power is what its definition says. *)
LEMMA PowerIs ==
    Powers(Power, HashBits)
<1> DEFINE Next(f) == [n \in 0 .. HashBits |-> IF n = 0 THEN 1 ELSE 2 * f[n - 1]]
<1>1. HashBits \in Nat
  BY HashAssumption DEF HashAssumption
<1>2. PICK g : Powers(g, HashBits)
  BY <1>1, PowersExist
<1>3. g = Next(g)
  <2>1. \A n \in 0 .. HashBits : g[n] = Next(g)[n]
    BY <1>1, <1>2 DEF Powers
  <2> QED BY <1>2, <2>1 DEF Powers
<1>4. Power = CHOOSE f : f = Next(f)
  BY DEF Power
<1>5. Power = Next(Power)
  <2> HIDE DEF Next
  <2> QED BY <1>3, <1>4
<1>6. /\ DOMAIN Power = 0 .. HashBits /\ Power[0] = 1
      /\ \A n \in 1 .. HashBits : Power[n] = 2 * Power[n - 1]
  <2>1. DOMAIN Power = 0 .. HashBits
    BY <1>5
  <2>2. \A n \in 0 .. HashBits : Power[n] = IF n = 0 THEN 1 ELSE 2 * Power[n - 1]
    BY <1>5
  <2>3. 0 \in 0 .. HashBits /\ \A n \in 1 .. HashBits : n \in 0 .. HashBits /\ n # 0
    BY <1>1
  <2> QED BY <2>1, <2>2, <2>3
<1> DEFINE T == {n \in 0 .. HashBits : Power[n] \in Nat}
<1>7. 0 \in T
  BY <1>1, <1>6
<1>8. \A i \in 0 .. HashBits - 1 : i \in T => i + 1 \in T
  <2>1. ASSUME NEW i \in 0 .. HashBits - 1, i \in T PROVE i + 1 \in T
    <3>1. i + 1 \in 1 .. HashBits /\ i + 1 - 1 = i /\ i + 1 \in 0 .. HashBits
      BY <1>1
    <3>2. Power[i + 1] = 2 * Power[i] /\ Power[i] \in Nat
      BY <1>6, <2>1, <3>1
    <3> QED BY <3>1, <3>2
  <2> QED BY <2>1
<1>9. 0 .. HashBits \subseteq T
  BY <1>1, <1>7, <1>8, UpTo
<1>10. Power \in [0 .. HashBits -> Nat]
  <2>1. Power = [n \in 0 .. HashBits |-> Power[n]]
    BY <1>5
  <2> QED BY <1>9, <2>1
<1> QED BY <1>6, <1>10 DEF Powers

(* Powers of two are not 0, and those of n and of what n lacks of the whole  *)
(* multiply to that of the whole.                                           *)
LEMMA PowerProduct ==
    ASSUME NEW n \in 0 .. HashBits
    PROVE  /\ Power[n] \in Nat \ {0} /\ Power[HashBits - n] \in Nat \ {0}
           /\ Power[n] * Power[HashBits - n] = Power[HashBits]
<1>1. HashBits \in Nat
  BY HashAssumption DEF HashAssumption
<1>2. \A i \in 0 .. HashBits : Power[i] \in Nat
  BY PowerIs DEF Powers
<1>3. Power[0] = 1 /\ \A i \in 1 .. HashBits : Power[i] = 2 * Power[i - 1]
  BY PowerIs DEF Powers
<1>4. \A i \in 0 .. HashBits : Power[i] # 0
  <2> DEFINE T == {i \in 0 .. HashBits : Power[i] # 0}
  <2>1. 0 \in T
    BY <1>1, <1>3
  <2>2. ASSUME NEW i \in 0 .. HashBits - 1, i \in T PROVE i + 1 \in T
    <3>1. i + 1 \in 1 .. HashBits /\ i + 1 - 1 = i /\ i + 1 \in 0 .. HashBits /\ i \in 0 .. HashBits
      BY <1>1
    <3>2. Power[i + 1] = 2 * Power[i] /\ Power[i] \in Nat /\ Power[i] # 0
      BY <1>2, <1>3, <2>2, <3>1
    <3> QED BY <3>1, <3>2
  <2>3. 0 .. HashBits \subseteq T
    BY <1>1, <2>1, <2>2, UpTo
  <2> QED BY <2>3
<1> DEFINE U == {i \in 0 .. HashBits : Power[i] * Power[HashBits - i] = Power[HashBits]}
<1>5. 0 \in U
  BY <1>1, <1>2, <1>3
<1>6. ASSUME NEW i \in 0 .. HashBits - 1, i \in U PROVE i + 1 \in U
  <2> DEFINE k == HashBits - (i + 1)
  <2>1. /\ i + 1 \in 1 .. HashBits /\ i + 1 - 1 = i /\ i + 1 \in 0 .. HashBits /\ i \in 0 .. HashBits
        /\ k \in 0 .. HashBits /\ HashBits - i = k + 1 /\ k + 1 \in 1 .. HashBits /\ k + 1 - 1 = k
    BY <1>1
  <2> HIDE DEF k
  <2>2. Power[i + 1] = 2 * Power[i] /\ Power[k + 1] = 2 * Power[k]
    BY <1>3, <2>1
  <2>3. Power[i] * Power[k + 1] = Power[HashBits] /\ Power[i] \in Nat /\ Power[k] \in Nat
    BY <1>2, <1>6, <2>1
  <2>4. \A a, b \in Nat : (2 * a) * b = a * (2 * b)
    OBVIOUS
  <2>5. Power[i + 1] * Power[k] = Power[HashBits]
    BY <2>2, <2>3, <2>4
  <2> QED BY <2>1, <2>5 DEF k
<1>7. 0 .. HashBits \subseteq U
  BY <1>1, <1>5, <1>6, UpTo
<1>8. HashBits - n \in 0 .. HashBits
  BY <1>1
<1> QED BY <1>2, <1>4, <1>7, <1>8

(* A quotient is below p when the dividend is below p * q. *)
LEMMA QuotientBelow ==
    ASSUME NEW h \in Nat, NEW p \in Nat, NEW q \in Nat \ {0}, h < p * q
    PROVE  h \div q \in Nat /\ h \div q < p
<1>1. h \div q \in Nat /\ (h \div q) * q <= h
  OBVIOUS
<1> DEFINE d == h \div q
<1> HIDE DEF d
<1>2. d \in Nat /\ d * q < p * q
  <2>1. p * q \in Nat /\ d * q \in Nat
    BY <1>1 DEF d
  <2> QED BY <1>1, <2>1 DEF d
<1>3. ASSUME p <= d PROVE FALSE
  <2>1. d - p \in Nat /\ (d - p) * q \in Nat
    BY <1>2, <1>3
  <2>2. d * q = p * q + (d - p) * q
    BY <1>2, <2>1
  <2>3. p * q \in Nat
    OBVIOUS
  <2> QED BY <1>2, <2>1, <2>2, <2>3
<1>4. d < p
  BY <1>2, <1>3
<1> QED BY <1>2, <1>4 DEF d

(* The bucket of a key is one of the map, whatever its size. *)
LEMMA BucketType ==
    ASSUME NEW bits \in MinBits .. HashBits, NEW key \in HashKeys
    PROVE  MapSize(bits) \in Nat \ {0} /\ Bucket(bits, key) \in 0 .. MapSize(bits) - 1
<1>1. bits \in 0 .. HashBits /\ HashOf[key] \in 0 .. Power[HashBits] - 1 /\ HashBits \in Nat
  BY HashAssumption DEF HashAssumption
<1>2. /\ Power[bits] \in Nat \ {0} /\ Power[HashBits - bits] \in Nat \ {0}
      /\ Power[bits] * Power[HashBits - bits] = Power[HashBits]
  BY <1>1, PowerProduct
<1>3. Power[HashBits] \in Nat
  BY <1>1, PowerIs DEF Powers
<1>4. HashOf[key] \in Nat /\ HashOf[key] < Power[bits] * Power[HashBits - bits]
  BY <1>1, <1>2, <1>3
<1>5. HashOf[key] \div Power[HashBits - bits] \in Nat
      /\ HashOf[key] \div Power[HashBits - bits] < Power[bits]
  BY <1>2, <1>4, QuotientBelow
<1> QED BY <1>2, <1>5 DEF MapSize, Bucket

(* The nodes of a dictionary, and the table that holds it.                  *)
Pairs(d) == {[key |-> k, value |-> d[k]] : k \in DOMAIN d}
TableOf(bits, d) == [bits |-> bits, sz |-> Cardinality(DOMAIN d), map |-> Placing(Pairs(d), bits)]

(* t is the table of the finite dictionary d, of some size.                 *)
Holds(t, d) == /\ IsFiniteSet(DOMAIN d) /\ DOMAIN d \subseteq HashKeys
               /\ \E bits \in MinBits .. HashBits : t = TableOf(bits, d)

(* A dictionary with one more key, and with one less.                       *)
PlusKey(d, k, v) == [x \in DOMAIN d \union {k} |-> IF x = k THEN v ELSE d[x]]
LessKey(d, k) == [x \in DOMAIN d \ {k} |-> d[x]]

(* The walk over a table meets the nodes of its dictionary. *)
LEMMA TableNodes ==
    ASSUME NEW bits \in MinBits .. HashBits, NEW d, DOMAIN d \subseteq HashKeys
    PROVE  /\ DOMAIN TableOf(bits, d).map = 0 .. MapSize(bits) - 1
           /\ Nodes(TableOf(bits, d)) = Pairs(d) /\ KeysOf(TableOf(bits, d)) = DOMAIN d
<1> DEFINE t == TableOf(bits, d)
<1>1. t.bits = bits /\ t.map = Placing(Pairs(d), bits)
  BY DEF TableOf
<1>2. DOMAIN t.map = 0 .. MapSize(bits) - 1
  BY <1>1 DEF Placing
<1>3. \A b \in 0 .. MapSize(bits) - 1 : t.map[b] = {n \in Pairs(d) : Bucket(bits, n.key) = b}
  BY <1>1 DEF Placing
<1>4. \A n \in Pairs(d) : n.key \in HashKeys /\ n.key \in DOMAIN d
  BY DEF Pairs
<1>5. Nodes(t) = UNION {t.map[b] : b \in 0 .. MapSize(bits) - 1}
  BY <1>1 DEF Nodes
<1> HIDE DEF t
<1>6. ASSUME NEW n \in Pairs(d) PROVE n \in Nodes(t)
  <2>1. Bucket(bits, n.key) \in 0 .. MapSize(bits) - 1
    BY <1>4, BucketType
  <2>2. n \in t.map[Bucket(bits, n.key)]
    BY <1>3, <2>1
  <2> QED BY <1>5, <2>1, <2>2
<1>7. Nodes(t) \subseteq Pairs(d)
  BY <1>3, <1>5
<1>8. Nodes(t) = Pairs(d)
  BY <1>6, <1>7
<1>9. KeysOf(t) = DOMAIN d
  <2>1. ASSUME NEW k \in DOMAIN d PROVE \E n \in Pairs(d) : n.key = k
    <3>1. [key |-> k, value |-> d[k]] \in Pairs(d) /\ [key |-> k, value |-> d[k]].key = k
      BY DEF Pairs
    <3> QED BY <3>1
  <2> QED BY <1>4, <1>8, <2>1 DEF KeysOf
<1> QED BY <1>2, <1>8, <1>9 DEF t

(* A resize, made or not, leaves a table of the same dictionary. *)
LEMMA RemapEffect ==
    ASSUME NEW bits \in MinBits .. HashBits, NEW d, DOMAIN d \subseteq HashKeys, NEW w \in Int,
           NEW u \in Remap(TableOf(bits, d), w)
    PROVE  \E other \in MinBits .. HashBits : u = TableOf(other, d)
<1> DEFINE t == TableOf(bits, d)
           c == Clamped(w)
<1>1. c \in MinBits .. HashBits
  BY HashAssumption DEF HashAssumption, Clamped
<1>2. t.bits = bits /\ t.sz = Cardinality(DOMAIN d)
  BY DEF TableOf
<1>3. Nodes(t) = Pairs(d)
  BY TableNodes
<1>4. Remap(t, w) = IF c = bits THEN {t} ELSE {t, [bits |-> c, sz |-> t.sz, map |-> Placing(Pairs(d), c)]}
  BY <1>2, <1>3 DEF Remap, Moved
<1>5. u = t \/ u = [bits |-> c, sz |-> t.sz, map |-> Placing(Pairs(d), c)]
  BY <1>4
<1>6. u = TableOf(bits, d) \/ u = TableOf(c, d)
  BY <1>2, <1>5 DEF TableOf
<1> QED BY <1>1, <1>6

(* So do growth and shrinking. *)
LEMMA ResizeKeeps ==
    ASSUME NEW t, NEW d, Holds(t, d), NEW u \in Grown(t) \union Shrunk(t)
    PROVE  Holds(u, d)
<1>1. PICK bits \in MinBits .. HashBits : t = TableOf(bits, d)
  BY DEF Holds
<1>2. t.bits = bits /\ bits + 1 \in Int /\ bits - 1 \in Int
  <2>1. t.bits = bits
    BY <1>1 DEF TableOf
  <2> QED BY <2>1, HashAssumption DEF HashAssumption
<1>3. u = t \/ u \in Remap(t, bits + 1) \/ u \in Remap(t, bits - 1)
  BY <1>2 DEF Grown, Shrunk
<1>4. \E other \in MinBits .. HashBits : u = TableOf(other, d)
  <2>1. DOMAIN d \subseteq HashKeys
    BY DEF Holds
  <2>2. CASE u = t
    BY <1>1, <2>2
  <2>3. CASE u \in Remap(t, bits + 1)
    BY <1>1, <1>2, <2>1, <2>3, RemapEffect
  <2>4. CASE u \in Remap(t, bits - 1)
    BY <1>1, <1>2, <2>1, <2>4, RemapEffect
  <2> QED BY <1>3, <2>2, <2>3, <2>4
<1> QED BY <1>4 DEF Holds

(* yhashl_get finds the node of the key, if it is in the dictionary. *)
LEMMA HitsEffect ==
    ASSUME NEW bits \in MinBits .. HashBits, NEW d, DOMAIN d \subseteq HashKeys, NEW k \in HashKeys
    PROVE  /\ Hits(TableOf(bits, d), k) = IF k \in DOMAIN d THEN {[key |-> k, value |-> d[k]]} ELSE {}
           /\ k \in DOMAIN d => Found(TableOf(bits, d), k) = [key |-> k, value |-> d[k]]
<1> DEFINE t == TableOf(bits, d)
           b == Bucket(bits, k)
<1>1. t.bits = bits /\ t.map = Placing(Pairs(d), bits)
  BY DEF TableOf
<1>2. b \in 0 .. MapSize(bits) - 1
  BY BucketType
<1>3. t.map[b] = {n \in Pairs(d) : Bucket(bits, n.key) = b}
  BY <1>1, <1>2 DEF Placing
<1>4. Hits(t, k) = {n \in t.map[b] : n.key = k}
  BY <1>1 DEF Hits
<1>5. Hits(t, k) = {n \in Pairs(d) : n.key = k}
  BY <1>3, <1>4
<1>6. Hits(t, k) = IF k \in DOMAIN d THEN {[key |-> k, value |-> d[k]]} ELSE {}
  BY <1>5 DEF Pairs
<1> HIDE DEF t
<1>7. k \in DOMAIN d => Found(t, k) = [key |-> k, value |-> d[k]]
  BY <1>6 DEF Found
<1> QED BY <1>6, <1>7 DEF t

(* yhashl_set makes it the table of the dictionary with the key. *)
LEMMA PutNodeEffect ==
    ASSUME NEW t, NEW d, Holds(t, d), NEW k \in HashKeys, NEW v
    PROVE  Holds(PutNode(t, k, v), PlusKey(d, k, v))
<1> DEFINE e == PlusKey(d, k, v)
           u == PutNode(t, k, v)
           new == [key |-> k, value |-> v]
<1>1. PICK bits \in MinBits .. HashBits : t = TableOf(bits, d)
  BY DEF Holds
<1>2. DOMAIN d \subseteq HashKeys /\ IsFiniteSet(DOMAIN d)
  BY DEF Holds
<1>3. DOMAIN e = DOMAIN d \union {k} /\ e[k] = v /\ \A x \in DOMAIN d : x # k => e[x] = d[x]
  BY DEF PlusKey
<1>4. IsFiniteSet(DOMAIN e) /\ DOMAIN e \subseteq HashKeys
      /\ Cardinality(DOMAIN e) = IF k \in DOMAIN d THEN Cardinality(DOMAIN d) ELSE Cardinality(DOMAIN d) + 1
  BY <1>2, <1>3, FS_AddElement
<1> DEFINE b == Bucket(bits, k)
<1>5. b \in 0 .. MapSize(bits) - 1
  BY BucketType
<1>6. t.map = Placing(Pairs(d), bits) /\ t.bits = bits /\ t.sz = Cardinality(DOMAIN d)
  BY <1>1 DEF TableOf
<1>7. DOMAIN t.map = 0 .. MapSize(bits) - 1
      /\ \A c \in 0 .. MapSize(bits) - 1 : t.map[c] = {n \in Pairs(d) : Bucket(bits, n.key) = c}
  BY <1>6 DEF Placing
<1>8. /\ Hits(t, k) = IF k \in DOMAIN d THEN {[key |-> k, value |-> d[k]]} ELSE {}
      /\ k \in DOMAIN d => Found(t, k) = [key |-> k, value |-> d[k]]
  BY <1>1, <1>2, HitsEffect
<1> DEFINE old == IF k \in DOMAIN d THEN {[key |-> k, value |-> d[k]]} ELSE {}
<1>9. Pairs(e) = (Pairs(d) \ old) \union {new}
  <2>1. \A x \in DOMAIN d : x # k => [key |-> x, value |-> e[x]] = [key |-> x, value |-> d[x]]
    BY <1>3
  <2>2. \A x \in DOMAIN e : [key |-> x, value |-> e[x]] \in (Pairs(d) \ old) \union {new}
    <3>1. ASSUME NEW x \in DOMAIN e, x # k
          PROVE  [key |-> x, value |-> e[x]] \in Pairs(d) \ old
      <4>1. x \in DOMAIN d /\ [key |-> x, value |-> e[x]] = [key |-> x, value |-> d[x]]
        BY <1>3, <3>1
      <4>2. [key |-> x, value |-> d[x]] \in Pairs(d)
        BY <4>1 DEF Pairs
      <4>3. [key |-> x, value |-> d[x]].key = x /\ \A n \in old : n.key = k
        OBVIOUS
      <4> QED BY <3>1, <4>1, <4>2, <4>3
    <3>2. [key |-> k, value |-> e[k]] = new
      BY <1>3
    <3> QED BY <3>1, <3>2
  <2>3. Pairs(e) \subseteq (Pairs(d) \ old) \union {new}
    BY <2>2 DEF Pairs
  <2>4. ASSUME NEW n \in Pairs(d), n \notin old PROVE n \in Pairs(e)
    <3>1. PICK x \in DOMAIN d : n = [key |-> x, value |-> d[x]]
      BY DEF Pairs
    <3>2. x # k
      BY <2>4, <3>1
    <3> QED BY <1>3, <2>1, <3>1, <3>2 DEF Pairs
  <2>5. new \in Pairs(e)
    BY <1>3 DEF Pairs
  <2> QED BY <2>3, <2>4, <2>5
<1>10. \A n \in old \union {new} : n.key = k
  OBVIOUS
<1> HIDE DEF old, new, e
<1> DEFINE map == [t.map EXCEPT ![b] = (t.map[b] \ old) \union {new}]
<1>11. map = Placing(Pairs(e), bits)
  <2>1. DOMAIN map = 0 .. MapSize(bits) - 1 /\ DOMAIN Placing(Pairs(e), bits) = 0 .. MapSize(bits) - 1
        /\ \A c \in 0 .. MapSize(bits) - 1 : Placing(Pairs(e), bits)[c] = {n \in Pairs(e) : Bucket(bits, n.key) = c}
    BY <1>7 DEF Placing
  <2>2. ASSUME NEW c \in 0 .. MapSize(bits) - 1
        PROVE  map[c] = {n \in Pairs(e) : Bucket(bits, n.key) = c}
    <3>1. t.map[c] = {n \in Pairs(d) : Bucket(bits, n.key) = c}
      BY <1>7
    <3>2. CASE c = b
      <4>1. map[c] = (t.map[c] \ old) \union {new}
        BY <1>5, <1>7, <3>2
      <4> QED BY <1>9, <1>10, <3>1, <3>2, <4>1
    <3>3. CASE c # b
      <4>1. map[c] = t.map[c]
        BY <1>5, <1>7, <3>3
      <4>2. \A n \in old \union {new} : Bucket(bits, n.key) # c
        BY <1>10, <3>3
      <4> QED BY <1>9, <3>1, <4>1, <4>2
    <3> QED BY <3>2, <3>3
  <2> HIDE DEF map
  <2>3. \A c \in 0 .. MapSize(bits) - 1 : map[c] = Placing(Pairs(e), bits)[c]
    BY <2>1, <2>2
  <2>4. map = [c \in 0 .. MapSize(bits) - 1 |-> map[c]]
    BY <2>1 DEF map
  <2>5. Placing(Pairs(e), bits) = [c \in 0 .. MapSize(bits) - 1 |-> Placing(Pairs(e), bits)[c]]
    BY DEF Placing
  <2> QED BY <2>3, <2>4, <2>5
<1>12. u = [bits |-> bits, sz |-> Cardinality(DOMAIN e), map |-> map]
  <2>1. t = [bits |-> bits, sz |-> Cardinality(DOMAIN d), map |-> t.map]
    BY <1>1, <1>6 DEF TableOf
  <2>2. CASE k \in DOMAIN d
    <3>1. Hits(t, k) # {} /\ {Found(t, k)} = old
      BY <1>8, <2>2 DEF old
    <3>2. u = [t EXCEPT !.map = map]
      <4>1. u = [t EXCEPT !.map[b] = (@ \ {Found(t, k)}) \union {new}]
        BY <1>6, <3>1 DEF PutNode, new
      <4> QED BY <2>1, <3>1, <4>1
    <3> QED BY <1>4, <2>1, <2>2, <3>2
  <2>3. CASE k \notin DOMAIN d
    <3>1. Hits(t, k) = {} /\ old = {}
      BY <1>8, <2>3 DEF old
    <3>2. u = [t EXCEPT !.map[b] = @ \union {new}, !.sz = @ + 1]
      BY <1>6, <3>1 DEF PutNode, new
    <3>3. (t.map[b] \ old) \union {new} = t.map[b] \union {new}
      BY <3>1
    <3> QED BY <1>4, <1>6, <2>1, <2>3, <3>2, <3>3
  <2> QED BY <2>2, <2>3
<1>13. u = TableOf(bits, e)
  BY <1>11, <1>12 DEF TableOf
<1> QED BY <1>4, <1>13 DEF Holds, e

(* yhashl_remove makes it the table of the dictionary without the key. *)
LEMMA UnlinkNodeEffect ==
    ASSUME NEW t, NEW d, Holds(t, d), NEW k \in HashKeys, Hits(t, k) # {}
    PROVE  Holds(UnlinkNode(t, k), LessKey(d, k))
<1> DEFINE e == LessKey(d, k)
           u == UnlinkNode(t, k)
           old == [key |-> k, value |-> d[k]]
           b == Bucket(t.bits, k)
<1>1. PICK bits \in MinBits .. HashBits : t = TableOf(bits, d)
  BY DEF Holds
<1>2. DOMAIN d \subseteq HashKeys /\ IsFiniteSet(DOMAIN d)
  BY DEF Holds
<1>3. k \in DOMAIN d /\ Found(t, k) = old
  BY <1>1, <1>2, HitsEffect
<1>4. DOMAIN e = DOMAIN d \ {k} /\ \A x \in DOMAIN d : x # k => e[x] = d[x]
  BY DEF LessKey
<1>5. IsFiniteSet(DOMAIN e) /\ DOMAIN e \subseteq HashKeys
      /\ Cardinality(DOMAIN e) = Cardinality(DOMAIN d) - 1
  BY <1>2, <1>3, <1>4, FS_RemoveElement
<1>6. t.map = Placing(Pairs(d), bits) /\ t.bits = bits /\ t.sz = Cardinality(DOMAIN d)
  BY <1>1 DEF TableOf
<1>7. b \in 0 .. MapSize(bits) - 1
  BY <1>6, BucketType
<1>8. DOMAIN t.map = 0 .. MapSize(bits) - 1
      /\ \A c \in 0 .. MapSize(bits) - 1 : t.map[c] = {n \in Pairs(d) : Bucket(bits, n.key) = c}
  BY <1>6 DEF Placing
<1>9. Pairs(e) = Pairs(d) \ {old}
  <2>1. ASSUME NEW x \in DOMAIN d, x # k
        PROVE  [key |-> x, value |-> e[x]] \in Pairs(d) \ {old}
    <3>1. [key |-> x, value |-> e[x]] = [key |-> x, value |-> d[x]]
      BY <1>4, <2>1
    <3>2. [key |-> x, value |-> d[x]] \in Pairs(d)
      BY DEF Pairs
    <3>3. [key |-> x, value |-> d[x]].key = x /\ old.key = k
      OBVIOUS
    <3> QED BY <2>1, <3>1, <3>2, <3>3
  <2>2. Pairs(e) \subseteq Pairs(d) \ {old}
    BY <1>4, <2>1 DEF Pairs
  <2>3. ASSUME NEW n \in Pairs(d), n # old PROVE n \in Pairs(e)
    <3>1. PICK x \in DOMAIN d : n = [key |-> x, value |-> d[x]]
      BY DEF Pairs
    <3>2. x # k
      BY <2>3, <3>1
    <3> QED BY <1>4, <3>1, <3>2 DEF Pairs
  <2> QED BY <2>2, <2>3
<1>10. old.key = k
  OBVIOUS
<1> HIDE DEF old, e
<1> DEFINE map == [t.map EXCEPT ![b] = t.map[b] \ {old}]
<1>11. map = Placing(Pairs(e), bits)
  <2>1. DOMAIN map = 0 .. MapSize(bits) - 1
        /\ \A c \in 0 .. MapSize(bits) - 1 : Placing(Pairs(e), bits)[c] = {n \in Pairs(e) : Bucket(bits, n.key) = c}
    BY <1>8 DEF Placing
  <2>2. ASSUME NEW c \in 0 .. MapSize(bits) - 1
        PROVE  map[c] = {n \in Pairs(e) : Bucket(bits, n.key) = c}
    <3>1. t.map[c] = {n \in Pairs(d) : Bucket(bits, n.key) = c}
      BY <1>8
    <3>2. CASE c = b
      <4>1. map[c] = t.map[c] \ {old}
        BY <1>7, <1>8, <3>2
      <4> QED BY <1>9, <3>1, <4>1
    <3>3. CASE c # b
      <4>1. map[c] = t.map[c]
        BY <1>7, <1>8, <3>3
      <4>2. Bucket(bits, old.key) # c
        BY <1>6, <1>10, <3>3
      <4> QED BY <1>9, <3>1, <4>1, <4>2
    <3> QED BY <3>2, <3>3
  <2> HIDE DEF map
  <2>3. \A c \in 0 .. MapSize(bits) - 1 : map[c] = Placing(Pairs(e), bits)[c]
    BY <2>1, <2>2
  <2>4. map = [c \in 0 .. MapSize(bits) - 1 |-> map[c]]
    BY <2>1 DEF map
  <2>5. Placing(Pairs(e), bits) = [c \in 0 .. MapSize(bits) - 1 |-> Placing(Pairs(e), bits)[c]]
    BY DEF Placing
  <2> QED BY <2>3, <2>4, <2>5
<1>12. u = [bits |-> bits, sz |-> Cardinality(DOMAIN e), map |-> map]
  <2>1. t = [bits |-> bits, sz |-> Cardinality(DOMAIN d), map |-> t.map]
    BY <1>1, <1>6 DEF TableOf
  <2>2. u = [t EXCEPT !.map[b] = @ \ {old}, !.sz = @ - 1]
    BY <1>3 DEF UnlinkNode
  <2> QED BY <1>5, <1>6, <2>1, <2>2
<1>13. u = TableOf(bits, e)
  BY <1>11, <1>12 DEF TableOf
<1> QED BY <1>5, <1>13 DEF Holds, e

(* A new table holds no key. *)
LEMMA NewTableKeeps ==
    ASSUME NEW bits \in MinBits .. HashBits, NEW d, DOMAIN d = {}
    PROVE  Holds(NewTable(bits), d)
<1>1. Pairs(d) = {} /\ IsFiniteSet(DOMAIN d) /\ Cardinality(DOMAIN d) = 0
  BY FS_EmptySet DEF Pairs
<1>2. Placing(Pairs(d), bits) = [b \in 0 .. MapSize(bits) - 1 |-> {}]
  BY <1>1 DEF Placing
<1>3. NewTable(bits) = TableOf(bits, d)
  BY <1>1, <1>2 DEF NewTable, TableOf
<1> QED BY <1>1, <1>3 DEF Holds

(* hash_create_internal makes one. *)
LEMMA CreatedKeeps ==
    ASSUME NEW d, DOMAIN d = {}
    PROVE  Holds(Created, d)
<1>1. MinBits \in MinBits .. HashBits
  BY HashAssumption DEF HashAssumption
<1> QED BY <1>1, NewTableKeeps DEF Created

(* A finite set of elements in any size of table. *)
LEMMA SetOfKeeps ==
    ASSUME NEW keys \in SUBSET HashKeys, IsFiniteSet(keys), NEW bits \in MinBits .. HashBits
    PROVE  Holds(SetOf(keys, bits), [k \in keys |-> Dummy])
<1> DEFINE d == [k \in keys |-> Dummy]
<1>1. DOMAIN d = keys /\ Pairs(d) = {[key |-> k, value |-> Dummy] : k \in keys}
  BY DEF Pairs
<1> HIDE DEF d
<1>2. SetOf(keys, bits) = TableOf(bits, d)
  BY <1>1 DEF SetOf, TableOf
<1>3. Holds(SetOf(keys, bits), d)
  BY <1>1, <1>2 DEF Holds
<1> QED BY <1>3 DEF d

(* The intersection under way: the larger set decides of every element that *)
(* is still to come as it should, and the new one has all that came.        *)
Meeting(m) ==
    /\ m = [busy |-> TRUE, todo |-> m.todo, large |-> m.large, made |-> m.made, both |-> m.both]
    /\ m.todo \subseteq HashKeys
    /\ \E d : Holds(m.large, d) /\ \A k \in m.todo : k \in DOMAIN d <=> k \in m.both
    /\ Holds(m.made, [k \in m.both \ m.todo |-> Dummy])

HashInv == /\ table # Broken => Holds(table, dict)
           /\ dict = [k \in DOMAIN dict |-> dict[k]]
           /\ meet.busy => Meeting(meet)

(* Nothing is there in the beginning. *)
LEMMA HashInitInv ==
    HashInit => HashInv
<1> SUFFICES ASSUME HashInit PROVE HashInv
  OBVIOUS
<1>1. DOMAIN dict = {} /\ table = Created
  BY DEF HashInit
<1>2. ~meet.busy
  BY DEF HashInit, NoMeet
<1>3. dict = [k \in DOMAIN dict |-> dict[k]]
  BY DEF HashInit
<1> QED BY <1>1, <1>2, <1>3, CreatedKeeps DEF HashInv

(* hash_set. *)
LEMMA SetKeyKeeps ==
    ASSUME HashInv, table # Broken, ~meet.busy, NEW k \in HashKeys, NEW v, SetKey(k, v)
    PROVE  HashInv'
<1>1. PICK t \in Grown(table) : table' = PutNode(t, k, v)
  BY DEF SetKey
<1>2. Holds(t, dict)
  BY <1>1, ResizeKeeps DEF HashInv
<1>3. dict' = PlusKey(dict, k, v) /\ meet' = meet
  BY DEF SetKey, PlusKey
<1>5. dict' = [x \in DOMAIN dict' |-> dict'[x]]
  BY <1>3 DEF PlusKey
<1>4. Holds(table', dict')
  BY <1>1, <1>2, <1>3, PutNodeEffect
<1> QED BY <1>3, <1>4, <1>5 DEF HashInv

(* yhash_remove2. *)
LEMMA RemoveHashedKeeps ==
    ASSUME HashInv, table # Broken, ~meet.busy, NEW k \in HashKeys, RemoveHashed(k)
    PROVE  HashInv'
<1>1. Hits(table, k) # {} /\ table' \in Shrunk(UnlinkNode(table, k))
      /\ dict' = LessKey(dict, k) /\ meet' = meet
  BY DEF RemoveHashed, LessKey
<1>2. Holds(UnlinkNode(table, k), dict')
  BY <1>1, UnlinkNodeEffect DEF HashInv
<1>3. Holds(table', dict')
  BY <1>1, <1>2, ResizeKeeps
<1>4. dict' = [x \in DOMAIN dict' |-> dict'[x]]
  BY <1>1 DEF LessKey
<1> QED BY <1>1, <1>3, <1>4 DEF HashInv

(* yset_intersect begins. *)
LEMMA BeginMeetKeeps ==
    ASSUME HashInv, table # Broken, NEW keys \in SUBSET HashKeys, IsFiniteSet(keys),
           NEW bits \in MinBits .. HashBits, BeginMeet(keys, bits)
    PROVE  HashInv'
<1> DEFINE other == SetOf(keys, bits)
           first == table.sz < other.sz
           d == [k \in keys |-> Dummy]
<1>1. Holds(table, dict) /\ Holds(other, d) /\ DOMAIN d = keys
  BY SetOfKeeps DEF HashInv
<1>2. meet' = [busy  |-> TRUE,
               todo  |-> KeysOf(IF first THEN table ELSE other),
               large |-> IF first THEN other ELSE table,
               made  |-> Created,
               both  |-> DOMAIN dict \intersect keys]
      /\ table' = table /\ dict' = dict
  BY DEF BeginMeet
<1> HIDE DEF other, first, d
<1>3. KeysOf(table) = DOMAIN dict /\ KeysOf(other) = keys
  BY <1>1, TableNodes DEF Holds
<1>4. DOMAIN dict \subseteq HashKeys
  BY <1>1 DEF Holds
<1>5. /\ meet'.both \ meet'.todo = {} /\ meet'.made = Created /\ meet'.todo \subseteq HashKeys
      /\ \E e : Holds(meet'.large, e) /\ \A k \in meet'.todo : k \in DOMAIN e <=> k \in meet'.both
  <2>1. CASE first
    <3>1. meet'.todo = DOMAIN dict /\ meet'.large = other /\ meet'.both = DOMAIN dict \intersect keys
          /\ meet'.made = Created
      BY <1>2, <1>3, <2>1
    <3> QED BY <1>1, <1>4, <3>1
  <2>2. CASE ~first
    <3>1. meet'.todo = keys /\ meet'.large = table /\ meet'.both = DOMAIN dict \intersect keys
          /\ meet'.made = Created
      BY <1>2, <1>3, <2>2
    <3> QED BY <1>1, <1>4, <3>1
  <2> QED BY <2>1, <2>2
<1>6. Holds(meet'.made, [k \in meet'.both \ meet'.todo |-> Dummy])
  <2>1. DOMAIN [k \in meet'.both \ meet'.todo |-> Dummy] = {}
    BY <1>5
  <2> QED BY <1>5, <2>1, CreatedKeeps
<1>7. Meeting(meet')
  <2>1. meet' = [busy |-> TRUE, todo |-> meet'.todo, large |-> meet'.large, made |-> meet'.made,
                 both |-> meet'.both]
    BY <1>2
  <2> QED BY <1>5, <1>6, <2>1 DEF Meeting
<1> QED BY <1>1, <1>2, <1>7 DEF HashInv

(* yset_intersect tries one element. *)
LEMMA MeetAddKeeps ==
    ASSUME HashInv, meet.busy, NEW key \in HashKeys, MeetAdd(key)
    PROVE  HashInv'
<1> DEFINE d == [k \in meet.both \ meet.todo |-> Dummy]
           e == [k \in meet.both \ (meet.todo \ {key}) |-> Dummy]
<1>1. PICK t \in (IF Hits(meet.large, key) # {}
                 THEN {PutNode(u, key, Dummy) : u \in Grown(meet.made)}
                 ELSE {meet.made}) : meet' = [meet EXCEPT !.todo = @ \ {key}, !.made = t]
  BY DEF MeetAdd
<1>2. key \in meet.todo /\ table' = table /\ dict' = dict
  BY DEF MeetAdd
<1>3. Meeting(meet)
  BY DEF HashInv
<1>4. PICK l : Holds(meet.large, l) /\ \A k \in meet.todo : k \in DOMAIN l <=> k \in meet.both
  BY <1>3 DEF Meeting
<1>5. meet.todo \subseteq HashKeys /\ Holds(meet.made, d)
  BY <1>3 DEF Meeting
<1>6. Hits(meet.large, key) # {} <=> key \in meet.both
  <2>1. PICK bits \in MinBits .. HashBits : meet.large = TableOf(bits, l)
    BY <1>4 DEF Holds
  <2>2. DOMAIN l \subseteq HashKeys
    BY <1>4 DEF Holds
  <2>3. Hits(meet.large, key) # {} <=> key \in DOMAIN l
    BY <2>1, <2>2, HitsEffect
  <2> QED BY <1>2, <1>4, <2>3
<1>7. Holds(t, e)
  <2>1. CASE key \in meet.both
    <3>1. PICK u \in Grown(meet.made) : t = PutNode(u, key, Dummy)
      BY <1>1, <1>6, <2>1
    <3>2. Holds(u, d)
      BY <1>5, <3>1, ResizeKeeps
    <3>3. PlusKey(d, key, Dummy) = e
      <4>1. meet.both \ (meet.todo \ {key}) = (meet.both \ meet.todo) \union {key}
        BY <1>2, <2>1
      <4>2. DOMAIN d = meet.both \ meet.todo /\ \A x \in DOMAIN d : d[x] = Dummy
        OBVIOUS
      <4>3. PlusKey(d, key, Dummy) = [x \in DOMAIN d \union {key} |-> Dummy]
        <5> HIDE DEF d
        <5> QED BY <4>2 DEF PlusKey
      <4> QED BY <4>1, <4>2, <4>3
    <3> HIDE DEF d, e
    <3> QED BY <3>1, <3>2, <3>3, PutNodeEffect
  <2>2. CASE key \notin meet.both
    <3>1. t = meet.made
      BY <1>1, <1>6, <2>2
    <3>2. meet.both \ (meet.todo \ {key}) = meet.both \ meet.todo
      BY <2>2
    <3>3. d = e
      BY <3>2
    <3> HIDE DEF d, e
    <3> QED BY <1>5, <3>1, <3>3
  <2> QED BY <2>1, <2>2
<1>8. Meeting(meet')
  <2>1. meet = [busy |-> TRUE, todo |-> meet.todo, large |-> meet.large, made |-> meet.made,
                both |-> meet.both]
    BY <1>3 DEF Meeting
  <2>2. meet' = [busy |-> TRUE, todo |-> meet.todo \ {key}, large |-> meet.large, made |-> t,
                 both |-> meet.both]
    BY <1>1, <2>1
  <2>3. /\ meet'.todo = meet.todo \ {key} /\ meet'.large = meet.large /\ meet'.made = t
        /\ meet'.both = meet.both
    BY <2>2
  <2> HIDE DEF e
  <2>4. Holds(meet'.made, [k \in meet'.both \ meet'.todo |-> Dummy])
    BY <1>7, <2>3 DEF e
  <2> QED BY <1>4, <1>5, <2>2, <2>3, <2>4 DEF Meeting
<1> QED BY <1>2, <1>8 DEF HashInv

(* It hands over the set it has made, or nothing. *)
LEMMA MeetEndKeeps ==
    ASSUME HashInv, meet.busy, MeetEnds \/ MeetFails
    PROVE  HashInv'
<1>1. Meeting(meet)
  BY DEF HashInv
<1>2. ~meet'.busy
  BY DEF MeetEnds, MeetFails, NoMeet
<1>3. CASE MeetEnds
  <2>1. table' = meet.made /\ meet.todo = {} /\ dict' = [k \in meet.both |-> Dummy]
    BY <1>3 DEF MeetEnds
  <2>2. meet.both \ meet.todo = meet.both
    BY <2>1
  <2>3. Holds(table', dict')
    BY <1>1, <2>1, <2>2 DEF Meeting
  <2>4. dict' = [x \in DOMAIN dict' |-> dict'[x]]
    BY <2>1
  <2> QED BY <1>2, <2>3, <2>4 DEF HashInv
<1>4. CASE MeetFails
  BY <1>2, <1>4 DEF MeetFails, HashInv
<1> QED BY <1>3, <1>4

(* Every step keeps the invariant. *)
LEMMA HashStepKeeps ==
    ASSUME HashInv, [HashNext]_hashVars
    PROVE  HashInv'
<1>1. ASSUME table # Broken, ~meet.busy, NEW k \in HashKeys, NEW v \in HashValues, SetKey(k, v)
      PROVE  HashInv'
  BY <1>1, SetKeyKeeps
<1>2. ASSUME table # Broken, ~meet.busy, SetFails
      PROVE  HashInv'
  <2>1. Holds(table', dict') /\ meet' = meet /\ dict' = dict
    BY <1>2, ResizeKeeps DEF SetFails, HashInv
  <2> QED BY <2>1 DEF HashInv
<1>3. ASSUME table # Broken, ~meet.busy, NEW k \in HashKeys, RemoveHashed(k)
      PROVE  HashInv'
  BY <1>3, RemoveHashedKeeps
<1>4. ASSUME table # Broken, ~meet.busy, ResetHash
      PROVE  HashInv'
  <2>1. DefaultBits \in MinBits .. HashBits
    BY HashAssumption DEF HashAssumption
  <2>2. DOMAIN dict' = {} /\ meet' = meet /\ (table' = NewTable(DefaultBits) \/ table' = Broken)
    BY <1>4 DEF ResetHash
  <2>3. table' # Broken => Holds(table', dict')
    BY <2>1, <2>2, NewTableKeeps
  <2>4. dict' = [x \in DOMAIN dict' |-> dict'[x]]
    BY <1>4 DEF ResetHash
  <2> QED BY <2>2, <2>3, <2>4 DEF HashInv
<1>5. ASSUME table # Broken, ~meet.busy, NEW ks \in SUBSET HashKeys, NEW bits \in MinBits .. HashBits,
             IsFiniteSet(ks), BeginMeet(ks, bits)
      PROVE  HashInv'
  BY <1>5, BeginMeetKeeps
<1>6. ASSUME meet.busy, NEW k \in HashKeys, MeetAdd(k)
      PROVE  HashInv'
  BY <1>6, MeetAddKeeps
<1>7. ASSUME meet.busy, MeetEnds \/ MeetFails
      PROVE  HashInv'
  BY <1>7, MeetEndKeeps
<1>8. CASE UNCHANGED hashVars
  BY <1>8 DEF HashInv, hashVars
<1> QED BY <1>1, <1>2, <1>3, <1>4, <1>5, <1>6, <1>7, <1>8 DEF HashNext

(* A table that keeps a dictionary is one. *)
LEMMA HashFollows ==
    ASSUME HashInv
    PROVE  HashIsDictionary
<1> SUFFICES ASSUME table # Broken PROVE HashIsDictionary
  BY DEF HashIsDictionary
<1>1. Holds(table, dict)
  BY DEF HashInv
<1>2. PICK bits \in MinBits .. HashBits : table = TableOf(bits, dict)
  BY <1>1 DEF Holds
<1>3. DOMAIN dict \subseteq HashKeys /\ IsFiniteSet(DOMAIN dict)
  BY <1>1 DEF Holds
<1>4. /\ DOMAIN table.map = 0 .. MapSize(bits) - 1
      /\ Nodes(table) = Pairs(dict) /\ KeysOf(table) = DOMAIN dict
  BY <1>2, <1>3, TableNodes
<1>5. \A b \in DOMAIN table.map : table.map[b] = {n \in Pairs(dict) : Bucket(bits, n.key) = b}
  BY <1>2, <1>4 DEF TableOf, Placing
<1>6. \A m, n \in Pairs(dict) : m.key = n.key => m = n
  BY DEF Pairs
<1>7. \A b, c \in DOMAIN table.map : \A m \in table.map[b], n \in table.map[c] :
        m.key = n.key => b = c /\ m = n
  BY <1>5, <1>6
<1>8. Contents(table) = dict
  <2>1. ASSUME NEW k \in DOMAIN dict
        PROVE  (CHOOSE n \in Nodes(table) : n.key = k).value = dict[k]
    <3>1. [key |-> k, value |-> dict[k]] \in Pairs(dict) /\ [key |-> k, value |-> dict[k]].key = k
      BY DEF Pairs
    <3>2. (CHOOSE n \in Pairs(dict) : n.key = k) = [key |-> k, value |-> dict[k]]
      BY <1>6, <3>1
    <3>3. [key |-> k, value |-> dict[k]].value = dict[k]
      OBVIOUS
    <3> QED BY <1>4, <3>2, <3>3
  <2>2. Contents(table) = [k \in DOMAIN dict |-> dict[k]]
    BY <1>4, <2>1 DEF Contents
  <2> QED BY <2>2 DEF HashInv
<1>9. \A k \in HashKeys : Hits(table, k) # {} <=> k \in DOMAIN dict
  BY <1>2, <1>3, HitsEffect
<1>10. table.sz = Cardinality(Nodes(table))
  <2>1. table.sz = Cardinality(DOMAIN dict)
    BY <1>2 DEF TableOf
  <2> DEFINE f == [k \in DOMAIN dict |-> [key |-> k, value |-> dict[k]]]
  <2>2. f \in [DOMAIN dict -> Pairs(dict)]
    BY DEF Pairs
  <2>3. \A x, y \in DOMAIN dict : f[x] = f[y] => x = y
    OBVIOUS
  <2>4. \A n \in Pairs(dict) : \E x \in DOMAIN dict : f[x] = n
    BY DEF Pairs
  <2>5. ExistsBijection(DOMAIN dict, Pairs(dict))
    <3> HIDE DEF f
    <3> QED BY <2>2, <2>3, <2>4, BijectionExists
  <2>6. Cardinality(DOMAIN dict) = Cardinality(Pairs(dict))
    BY <1>3, <2>5, FS_Bijection
  <2> QED BY <1>4, <2>1, <2>6
<1> QED BY <1>7, <1>8, <1>9, <1>10 DEF HashIsDictionary

(* Whatever is set, removed, reset and intersected, and whichever resizes    *)
(* find memory, the hash is the dictionary that its calls amount to.        *)
THEOREM HashStaysDictionary ==
    HashSpec => []HashIsDictionary
<1>1. HashInit => HashInv
  BY HashInitInv
<1>2. HashInv /\ [HashNext]_hashVars => HashInv'
  BY HashStepKeeps
<1>3. HashInv => HashIsDictionary
  BY HashFollows
<1> QED BY <1>1, <1>2, <1>3, PTL DEF HashSpec

==============================================================================
