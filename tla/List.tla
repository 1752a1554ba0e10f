-------------------------------- MODULE List --------------------------------
(***************************************************************************)
(* The circular doubly linked lists of ylistl.h, at the level of their two  *)
(* pointers, and the list objects and iterators of list.c over them.        *)
(***************************************************************************)
EXTENDS Integers, FiniteSets, SequencesExt

CONSTANTS
  Links,        \* the links (struct ylist_node) that memory can hold
  Anchor,       \* l->head
  MaxItems,     \* ylist: max
  Resets        \* does the client call ylist_reset for a list with items

VARIABLES
  next, prev,   \* the pointers of the head and of the links
  sz,           \* ylist: sz
  items,        \* history: the links the calls amount to, in order
  cursor        \* the iterator: [fwd, lcurr, lnext, seen, expected]

listVars == <<next, prev, sz, items, cursor>>

ListAssumption == Anchor \notin Links
ASSUME ListConstants == ListAssumption

NoCursor == [lcurr |-> "none"]
Self == [l \in Links \union {Anchor} |-> l]

ListInit == /\ next = Self /\ prev = Self
            /\ sz = 0
            /\ items = <<>>
            /\ cursor = NoCursor

\* ylistl_add, between p and n.
Link(p, n, l) == /\ next' = [next EXCEPT ![p] = l, ![l] = n]
                 /\ prev' = [prev EXCEPT ![n] = l, ![l] = p]

\* A defect: the next link goes on pointing back at the one removed.
UnlinkForward(l) == next' = [next EXCEPT ![prev[l]] = next[l]] /\ UNCHANGED prev
\* ylistl_remove; the link's own pointers stay.
Unlink(l) == /\ next' = [next EXCEPT ![prev[l]] = next[l]]
             /\ prev' = [prev EXCEPT ![next[l]] = prev[l]]

\* ylist_has
InList(l) == l \in ToSet(items)

\* A new item; the iterator may still hold a link it removed.
New(l) == ~InList(l) /\ (cursor # NoCursor => l \notin ToSet(cursor.expected \o cursor.seen))

\* ylist_add_first, ylist_add_last; a full list returns -EPERM.
AddFirst(l) == /\ sz < MaxItems
               /\ New(l)
               /\ Link(Anchor, next[Anchor], l)
               /\ items' = <<l>> \o items
               /\ sz' = sz + 1
               /\ UNCHANGED <<cursor>>
AddLast(l) == /\ sz < MaxItems
              /\ New(l)
              /\ Link(prev[Anchor], Anchor, l)
              /\ items' = Append(items, l)
              /\ sz' = sz + 1
              /\ UNCHANGED <<cursor>>

\* ylist_remove_first, ylist_remove_last, ylistl_remove2: outside an iteration.
RemoveItem(l) == /\ sz > 0
                 /\ cursor = NoCursor
                 /\ Unlink(l)
                 /\ items' = RemoveFirst(items, l)
                 /\ sz' = sz - 1
                 /\ UNCHANGED <<cursor>>

\* ylistl_replace
Replace(old, new) ==
  /\ cursor = NoCursor
  /\ InList(old) /\ ~InList(new)
  /\ next' = [next EXCEPT ![new] = next[old], ![prev[old]] = new]
  /\ prev' = [prev EXCEPT ![new] = prev[old], ![next[old]] = new]
  /\ items' = [i \in DOMAIN items |-> IF items[i] = old THEN new ELSE items[i]]
  /\ UNCHANGED <<sz, cursor>>

\* ylisti_create
CreateCursor(fwd) ==
  /\ cursor = NoCursor
  /\ cursor' = [fwd |-> fwd, lcurr |-> Anchor,
                lnext |-> IF fwd THEN next[Anchor] ELSE prev[Anchor],
                seen |-> <<>>, expected |-> IF fwd THEN items ELSE Reverse(items)]
  /\ UNCHANGED <<next, prev, sz, items>>

\* inext_forward, inext_backward: lnext goes on to the neighbour of the link
\* handed out, which may then be removed.
Neighbour(l) == IF cursor.fwd THEN next[l] ELSE prev[l]
Step == LET l == cursor.lnext
        IN  /\ cursor # NoCursor
            /\ l # Anchor
            /\ cursor' = [cursor EXCEPT !.lcurr = l, !.lnext = Neighbour(l),
                                        !.seen = Append(@, l)]
            /\ UNCHANGED <<next, prev, sz, items>>

\* ylist_remove_current, once for a link the iterator has handed out.
RemoveCurrent ==
  LET l == cursor.lcurr
  IN  /\ cursor # NoCursor
      /\ InList(l)
      /\ Unlink(l)
      /\ items' = RemoveFirst(items, l)
      /\ sz' = sz - 1
      /\ UNCHANGED <<cursor>>

\* ylisti_destroy
DestroyCursor == /\ cursor # NoCursor
                 /\ cursor' = NoCursor
                 /\ UNCHANGED <<next, prev, sz, items>>

\* ylist_reset: the nodes are freed and the size is 0, but the head keeps its
\* pointers.
ResetList == /\ ~Resets => items = <<>>
             /\ cursor = NoCursor
             /\ sz' = 0
             /\ items' = <<>>
             /\ UNCHANGED <<next, prev, cursor>>

ListNext ==
  \/ \E l \in Links : AddFirst(l) \/ AddLast(l)
  \/ RemoveItem(next[Anchor])
  \/ RemoveItem(prev[Anchor])
  \/ \E l \in Links : InList(l) /\ RemoveItem(l)
  \/ \E old, new \in Links : Replace(old, new)
  \/ \E fwd \in BOOLEAN : CreateCursor(fwd)
  \/ Step
  \/ RemoveCurrent
  \/ DestroyCursor
  \/ ResetList

ListSpec == ListInit /\ [][ListNext]_listVars

-----------------------------------------------------------------------------

(* In both directions the pointers lead from the head through exactly the   *)
(* links that were added and not removed, in their order, and back to the   *)
(* head; the size is their number.                                          *)
PointersAreTheList ==
  LET ring == <<Anchor>> \o items \o <<Anchor>>
  IN  /\ \A i \in 1..Len(ring) - 1 : /\ next[ring[i]] = ring[i + 1]
                                     /\ prev[ring[i + 1]] = ring[i]
      /\ sz = Len(items)

(* An iteration hands out what was in the list when it began, in its        *)
(* direction, even when every item handed out is removed; items added at    *)
(* the far end while it runs may follow.                                    *)
CursorVisitsAll ==
  cursor # NoCursor =>
    /\ IsPrefix(cursor.seen, cursor.expected) \/ IsPrefix(cursor.expected, cursor.seen)
    /\ cursor.lnext = Anchor => IsPrefix(cursor.expected, cursor.seen)

(* The list and its iterations: both of the above.                          *)
ListExact == PointersAreTheList /\ CursorVisitsAll
=============================================================================
