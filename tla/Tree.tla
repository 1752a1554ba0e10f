-------------------------------- MODULE Tree --------------------------------
(***************************************************************************)
(* The tree links of ytreel.h and the iterators of treel.c.  The children   *)
(* of a link are an ylistl list, a sequence here.  An iterator prefetches   *)
(* the link it will move to, which is what makes it safe for the client to  *)
(* remove the current link (with its subtree) between two steps.            *)
(***************************************************************************)
EXTENDS Integers, FiniteSets, SequencesExt

CONSTANTS
  Links,
  Null           \* no link

VARIABLES
  child,         \* the list of children of each link
  parent,
  itr            \* the iterator: [type, top, lc, ln, nerr, list], and as its
                 \* history the links handed out and those to be

treeVars == <<child, parent, itr>>

Types == {"pre", "r2lpre", "level", "post", "r2lpost"}
NoItr == [type |-> "none"]
Index(s, x) == CHOOSE i \in DOMAIN s : s[i] = x

RECURSIVE Below(_, _)
Below(kids, lk) == {lk} \union UNION {Below(kids, c) : c \in ToSet(kids[lk])}

\* What may be linked under lk: a root that lk is not below.
Linkable(lk, lnew) == parent[lnew] = Null /\ lk \notin Below(child, lnew)

TreeInit == /\ child = [lk \in Links |-> <<>>]
            /\ parent = [lk \in Links |-> Null]
            /\ itr = NoItr

\* ytreel_add_first_child (after 0 children), ytreel_add_last_child (after all
\* of them), ytreel_add_next and ytreel_add_prev of a child of lk.
AddChild(lk, lnew, after) ==
  /\ itr = NoItr
  /\ Linkable(lk, lnew)
  /\ child' = [child EXCEPT ![lk] = InsertAt(@, after + 1, lnew)]
  /\ parent' = [parent EXCEPT ![lnew] = lk]
  /\ UNCHANGED itr

Unlinked(lk) == [child EXCEPT ![parent[lk]] = Remove(@, lk)]

\* ytreel_remove; during an iteration, of the current link.
RemoveLink(lk) ==
  /\ parent[lk] # Null
  /\ itr # NoItr => itr.lc = lk
  /\ child' = Unlinked(lk)
  /\ parent' = [parent EXCEPT ![lk] = Null]
  /\ UNCHANGED itr

\* ytreel_replace.  It leaves the old link's parent and list pointers as they
\* were; that the client initialises the old link before it touches it again is
\* assumed.
ReplaceLink(lold, lnew) ==
  /\ itr = NoItr
  /\ parent[lold] # Null
  /\ Linkable(parent[lold], lnew)
  /\ child' = [child EXCEPT ![parent[lold]] = [@ EXCEPT ![Index(@, lold)] = lnew]]
  /\ parent' = [parent EXCEPT ![lnew] = parent[lold], ![lold] = Null]
  /\ UNCHANGED itr

-----------------------------------------------------------------------------

\* The orders, defined from the shape of the tree.
Way(s, l2r) == IF l2r THEN s ELSE Reverse(s)
RECURSIVE PreOrder(_, _, _), PostOrder(_, _, _), Levels(_, _)
PreOrder(kids, lk, l2r) ==
  LET ks == Way(kids[lk], l2r)
  IN  <<lk>> \o FlattenSeq([i \in DOMAIN ks |-> PreOrder(kids, ks[i], l2r)])
PostOrder(kids, lk, l2r) ==
  LET ks == Way(kids[lk], l2r)
  IN  FlattenSeq([i \in DOMAIN ks |-> PostOrder(kids, ks[i], l2r)]) \o <<lk>>
Levels(kids, level) ==
  IF level = <<>> THEN <<>>
  ELSE level \o Levels(kids, FlattenSeq([i \in DOMAIN level |-> kids[level[i]]]))
OrderOf(type, top) == CASE type = "pre" -> PreOrder(child, top, TRUE)
                        [] type = "r2lpre" -> PreOrder(child, top, FALSE)
                        [] type = "level" -> Levels(child, <<top>>)
                        [] type = "post" -> PostOrder(child, top, TRUE)
                        [] type = "r2lpost" -> PostOrder(child, top, FALSE)

\* l2rpostot_init and the descent of postot_next
RECURSIVE Deepest(_, _)
Deepest(lk, l2r) ==
  IF child[lk] = <<>> THEN lk ELSE Deepest(Head(Way(child[lk], l2r)), l2r)

\* preot_init, levelot_init, l2rpostot_init, r2lpostot_init
FirstLink(type, top) == CASE type = "post" -> Deepest(top, TRUE)
                          [] type = "r2lpost" -> Deepest(top, FALSE)
                          [] OTHER -> top

\* ytreeli_create
Create(type, top) ==
  /\ itr = NoItr
  /\ itr' = [type |-> type, top |-> top, lc |-> Null, list |-> <<>>,
             ln |-> FirstLink(type, top), nerr |-> "0", seen |-> <<>>,
             expected |-> OrderOf(type, top)]
  /\ UNCHANGED <<child, parent>>

\* A defect: the children are pushed in list order, and come out reversed.
PushedForward(list, lk, l2r) == Way(child[lk], ~l2r) \o list
\* The list of the links to come: a stack, or for "level" a queue.
Pushed(list, lk, l2r) == Way(child[lk], l2r) \o list
Queued(list, lk) == list \o child[lk]

\* postot_next: the link after lk, going up when it has no next sibling.
Sibling(lk, l2r) == LET s == Way(child[parent[lk]], l2r)
                        i == Index(s, lk)
                    IN  IF i = Len(s) THEN Null ELSE s[i + 1]
AfterPost(top, lk, l2r) ==
  IF lk = top THEN Null
  ELSE IF Sibling(lk, l2r) # Null THEN Deepest(Sibling(lk, l2r), l2r)
  ELSE parent[lk]

\* ytreeli_next: preot_next, levelot_next, postot_next.
Moved(list, ln) == [itr EXCEPT !.lc = itr.ln, !.seen = Append(@, itr.ln),
                               !.list = list, !.ln = ln,
                               !.nerr = IF ln = Null THEN "ENOENT" ELSE "0"]
NextLink ==
  /\ itr # NoItr
  /\ itr.nerr = "0"
  /\ LET list == CASE itr.type = "pre" -> Pushed(itr.list, itr.ln, TRUE)
                   [] itr.type = "r2lpre" -> Pushed(itr.list, itr.ln, FALSE)
                   [] itr.type = "level" -> Queued(itr.list, itr.ln)
                   [] OTHER -> <<>>
     IN  itr' = CASE itr.type = "post" ->
                       Moved(<<>>, AfterPost(itr.top, itr.ln, TRUE))
                  [] itr.type = "r2lpost" ->
                       Moved(<<>>, AfterPost(itr.top, itr.ln, FALSE))
                  [] list = <<>> -> Moved(<<>>, Null)
                  [] OTHER -> Moved(Tail(list), Head(list))
  /\ UNCHANGED <<child, parent>>

\* ytreeli_next of preot_next or levelot_next without memory to push a child:
\* the call hands out its link and returns 0, and the error waits for the next
\* call.  What was pushed by then is not looked at again.
NextFails ==
  /\ itr # NoItr
  /\ itr.type \in {"pre", "r2lpre", "level"}
  /\ itr.nerr = "0"
  /\ child[itr.ln] # <<>>
  /\ itr' = [Moved(itr.list, Null) EXCEPT !.nerr = "ENOMEM"]
  /\ UNCHANGED <<child, parent>>

\* ytreeli_destroy
DestroyItr == /\ itr # NoItr
              /\ itr' = NoItr
              /\ UNCHANGED <<child, parent>>

TreeNext ==
  \/ \E lk, lnew \in Links : \E after \in 0..Len(child[lk]) :
       AddChild(lk, lnew, after)
  \/ \E lk \in Links : RemoveLink(lk)
  \/ \E lold, lnew \in Links : lold # lnew /\ ReplaceLink(lold, lnew)
  \/ \E type \in Types, top \in Links : Create(type, top)
  \/ NextLink \/ NextFails \/ DestroyItr

-----------------------------------------------------------------------------

(* The links always form a forest: a link is in the list of its parent,     *)
(* once, in no other list, and is never below itself.                       *)
IsForest ==
  \A lk, p \in Links :
    /\ lk \in ToSet(child[p]) <=> parent[lk] = p
    /\ IsInjective(child[p])
    /\ p \in ToSet(child[lk]) => lk \notin Below(child, p)

(* An iteration of any type visits exactly the links that were below its    *)
(* top when it started, each once and in the order of its type, even if the *)
(* client takes every link it is handed out of the tree (the removal safety *)
(* ytreel.h promises); one that runs out of memory has visited the first of *)
(* them, and does not say that it reached the end.                          *)
VisitsAllInOrder ==
  itr # NoItr => /\ IsPrefix(itr.seen, itr.expected)
                 /\ itr.nerr = "ENOENT" => itr.seen = itr.expected
                 /\ itr.nerr = "0" <=> itr.ln # Null
=============================================================================
