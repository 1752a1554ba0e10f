-------------------------------- MODULE Dynb --------------------------------
(***************************************************************************)
(* The growing array of dynb.c.  Its storage holds limit elements, the      *)
(* first sz of which are in use; growing and shrinking reallocate it, which *)
(* may fail.  What the storage holds past the elements in use is not        *)
(* modelled.                                                                *)
(***************************************************************************)
EXTENDS Integers, SequencesExt

CONSTANTS
  Elements,
  FirstLimit,  \* the limit it is created with
  MaxLimit     \* bound: the memory there is

VARIABLES
  storage,     \* the elements in use; b->sz is its length
  limit,       \* b->limit
  appended     \* history: the elements appended since the last reset

DynbAssumption == FirstLimit \in Nat \ {0} /\ MaxLimit \in Nat /\ FirstLimit <= MaxLimit
ASSUME DynbConstants == DynbAssumption

dynbVars == <<storage, limit, appended>>

DynbInit == storage = <<>> /\ limit = FirstLimit /\ appended = <<>>

\* The limits that doubling, until there is room for n more, passes through,
\* and the one it ends with, if memory lasts.
Doublings == {1, 2, 4, 8}
Doubled(d) == limit * d
\* A defect: room for one element too many.
FitsAlmost(l, n) == n <= l - Len(storage) + 1
Fits(l, n) == n <= l - Len(storage)
Limits(n) == {Doubled(d) : d \in {e \in Doublings :
                 /\ Doubled(e) <= MaxLimit
                 /\ \A c \in Doublings : c < e => ~Fits(Doubled(c), n)}}

\* ydynb_appends: ydynb_expand2, then the elements are copied; if a realloc
\* fails on the way the limit keeps the doublings made.
Stored(els) == storage \o els
Appends(els) ==
  \E l \in Limits(Len(els)) :
    /\ limit' = l
    /\ IF Fits(l, Len(els))
       THEN storage' = Stored(els) /\ appended' = appended \o els
       ELSE UNCHANGED <<storage, appended>>

\* ydynb_expand
Expand == /\ limit * 2 <= MaxLimit
          /\ limit' = limit * 2
          /\ UNCHANGED <<storage, appended>>

\* ydynb_shrink.  To a size of 0 it is not called here: realloc to no bytes
\* frees the storage and the code takes its NULL for a failure.
ShrinkTo(n) == /\ n > 0
               /\ n < limit
               /\ Len(storage) <= n
               /\ limit' = n
               /\ storage' = SubSeq(storage, 1, IF n < Len(storage) THEN n ELSE Len(storage))
               /\ UNCHANGED appended

\* ydynb_reset
ResetDynb == /\ storage' = <<>>
             /\ appended' = <<>>
             /\ UNCHANGED limit

DynbNext == \/ \E k \in 1..2 : \E els \in [1..k -> Elements] : Appends(els)
            \/ Expand
            \/ \E n \in 1..MaxLimit : ShrinkTo(n)
            \/ ResetDynb

DynbSpec == DynbInit /\ [][DynbNext]_dynbVars

(* The array keeps, within its limit, exactly the elements that were        *)
(* successfully appended, through every growth that half failed and every   *)
(* shrink.                                                                  *)
KeepsElements == storage = appended /\ Len(storage) <= limit /\ limit <= MaxLimit
=============================================================================
