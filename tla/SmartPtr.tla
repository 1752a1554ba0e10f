------------------------------ MODULE SmartPtr ------------------------------
(***************************************************************************)
(* Reference counted memory (p.c, and gp.c the same way), and the value     *)
(* objects of o.c with their pool (pool.c): threads share a block, wrap     *)
(* references to it in value objects that put them when they are destroyed, *)
(* and hand both to each other.                                             *)
(***************************************************************************)
EXTENDS Integers, FiniteSets, SequencesExt

CONSTANTS
  Threads,
  Objects,      \* the value objects that memory can hold
  Capacity,     \* capacity of the pool
  MaxHandles,   \* bound: references a thread holds
  Guarded       \* CONFIG_DEBUG of p.c: a block has magic guards, which are checked

VARIABLES
  live,         \* is the block allocated
  refcnt,       \* its reference count
  handles,      \* history: the references each thread holds
  putting,      \* threads in ypput: the count the decrement returned, or NoPut
  clearing,     \* threads in yodestroy: the object, or NoObject
  value,        \* o0 of the objects in use: "ref" or "null"
  pool,         \* the links of the pool
  late,         \* history: threads in ypput whose block has been freed by another
  touched       \* history: the accesses that found the block freed

ptrVars == <<live, refcnt, handles, putting, clearing, value, pool, late, touched>>

NoPut == -2
NoObject == "none"
PtrAssumption == MaxHandles \in Nat \ {0} /\ Capacity \in Nat /\ NoObject \notin Objects
ASSUME PtrConstants == PtrAssumption

InUse == DOMAIN value

PtrInit == /\ live = FALSE /\ refcnt = 0
           /\ handles = [t \in Threads |-> 0]
           /\ putting = [t \in Threads |-> NoPut]
           /\ clearing = [t \in Threads |-> NoObject]
           /\ value = <<>>
           /\ pool = <<>>
           /\ late = {} /\ touched = {}

Access(how, freed) == touched' = touched \union (IF freed THEN {how} ELSE {})

Free(t) == putting[t] = NoPut /\ clearing[t] = NoObject

\* ypmalloc, ygpinit: the count is 0 until the creator's get.
Allocate(t) == /\ Free(t) /\ ~live
               /\ live' = TRUE
               /\ refcnt' = 1
               /\ handles' = [handles EXCEPT ![t] = 1]
               /\ UNCHANGED <<putting, clearing, value, pool, late, touched>>

\* ypget, ygpget, by a thread that holds a reference
Get(t) == /\ Free(t)
          /\ handles[t] \in 1..MaxHandles - 1
          /\ refcnt' = refcnt + 1
          /\ Access("get", ~live)
          /\ handles' = [handles EXCEPT ![t] = @ + 1]
          /\ UNCHANGED <<live, putting, clearing, value, pool, late>>

\* The client hands a reference to another thread.
Give(t, u) == /\ t # u
              /\ Free(t)
              /\ handles[t] > 0 /\ handles[u] < MaxHandles
              /\ handles' = [handles EXCEPT ![t] = @ - 1, ![u] = @ + 1]
              /\ UNCHANGED <<live, refcnt, putting, clearing, value, pool, late, touched>>

\* __atomic_add_fetch returns the new count. (The defect is __atomic_fetch_add.)
CountBefore == refcnt
CountAfter == refcnt - 1

Decrement(t) == /\ refcnt' = refcnt - 1
                /\ Access("put", ~live)
                /\ putting' = [putting EXCEPT ![t] = CountAfter]

\* ypput, ygpput: the decrement...
Put(t) == /\ Free(t)
          /\ handles[t] > 0
          /\ handles' = [handles EXCEPT ![t] = @ - 1]
          /\ Decrement(t)
          /\ UNCHANGED <<live, clearing, value, pool, late>>

\* ... the check of the guards, whatever the count is, and ypfree, or ygpdestroy,
\* by the thread that got a count of 0.  A check that finds the guards of a freed
\* block overwritten ends the process; here it finds them as they were.
PutEnds(t) == /\ putting[t] # NoPut
              /\ Access("guard", Guarded /\ t \in late)
              /\ live' = (live /\ putting[t] > 0)
              /\ late' = (IF putting[t] > 0 THEN late
                          ELSE {u \in Threads : putting[u] # NoPut}) \ {t}
              /\ putting' = [putting EXCEPT ![t] = NoPut]
              /\ UNCHANGED <<refcnt, handles, clearing, value, pool>>

-----------------------------------------------------------------------------

\* ypool_get: the first link; without one the object is allocated, or the
\* creation fails and the thread keeps its reference.
PoolGet(o) == IF pool # <<>> THEN o = Head(pool) /\ pool' = Tail(pool)
              ELSE o \notin InUse /\ UNCHANGED pool

\* yocreate0 .. yocreate4: the thread's reference becomes the object's.
Create(t, o) == /\ Free(t)
                /\ handles[t] > 0
                /\ PoolGet(o)
                /\ value' = [x \in InUse \union {o} |-> IF x = o THEN "ref" ELSE value[x]]
                /\ handles' = [handles EXCEPT ![t] = @ - 1]
                /\ UNCHANGED <<live, refcnt, putting, clearing, late, touched>>

\* yodestroy: oclear calls ofree0, a ypput, and resets the fields...
Destroy(t, o) == /\ Free(t)
                 /\ o \in InUse /\ value[o] = "ref"
                 /\ Decrement(t)
                 /\ value' = [value EXCEPT ![o] = "null"]
                 /\ clearing' = [clearing EXCEPT ![t] = o]
                 /\ UNCHANGED <<live, handles, pool, late>>

HasRoom == Len(pool) < Capacity

\* ... then the object goes to the pool, or is freed when the pool is full.
Recycle(t) == /\ clearing[t] # NoObject /\ putting[t] = NoPut
              /\ pool' = IF HasRoom THEN Append(pool, clearing[t]) ELSE pool
              /\ value' = [x \in InUse \ {clearing[t]} |-> value[x]]
              /\ clearing' = [clearing EXCEPT ![t] = NoObject]
              /\ UNCHANGED <<live, refcnt, handles, putting, late, touched>>

\* mexit: pool_clear, ypool_destroy.
ClearPool == /\ pool # <<>>
             /\ \A t \in Threads : Free(t)
             /\ pool' = <<>>
             /\ UNCHANGED <<live, refcnt, handles, putting, clearing, value, late, touched>>

PtrNext == \/ \E t \in Threads : Allocate(t) \/ Get(t) \/ Put(t) \/ PutEnds(t) \/ Recycle(t)
           \/ \E t, u \in Threads : Give(t, u)
           \/ \E t \in Threads, o \in Objects : Create(t, o) \/ Destroy(t, o)
           \/ ClearPool

PtrSpec == PtrInit /\ [][PtrNext]_ptrVars

-----------------------------------------------------------------------------

\* The references in the hands of threads, those of a thread numbered.
InHand == {h \in Threads \X (1..MaxHandles) : h[2] <= handles[h[1]]}
InObjects == {o \in InUse : value[o] = "ref"}

(* The block lives exactly as long as a reference to it is in the hands of  *)
(* a thread or in a value object, or its last put is about to free it; one  *)
(* put only does, and the count is the number of references.                *)
LivesWhileHeld ==
  LET held  == Cardinality(InHand) + Cardinality(InObjects)
      frees == {t \in Threads : putting[t] = 0}
  IN  /\ live => refcnt = held
      /\ live <=> held > 0 \/ frees # {}
      /\ frees # {} => held = 0 /\ Cardinality(frees) = 1

(* An object is in use or once in the pool, never both, and the pool never  *)
(* holds more than its capacity.                                            *)
ObjectsInOnePlace == /\ IsInjective(pool)
                     /\ ToSet(pool) \intersect InUse = {}
                     /\ Len(pool) <= Capacity

(* No get and no decrement finds the block freed, though other threads put  *)
(* their references meanwhile.  Exempt is the check of the guards            *)
(* after the decrement, which a build that has them makes of a block that    *)
(* another put may have freed (p.c:187).                                     *)
TouchesTheLiving == touched \subseteq IF Guarded THEN {"guard"} ELSE {}

(* References are exact: all of the above, since a value object is one of  *)
(* the owners that the count counts, and recycling must not lose or double  *)
(* it.                                                                      *)
ReferencesExact == LivesWhileHeld /\ ObjectsInOnePlace /\ TouchesTheLiving
=============================================================================
