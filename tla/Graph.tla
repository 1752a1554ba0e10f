------------------------------- MODULE Graph -------------------------------
(***************************************************************************)
(* The directed graph of graph.c and ygraph.h: the edge lists of its        *)
(* vertices, and the search for a cycle with its two stacks, an action for  *)
(* every edge popped. The task dependency manager verifies with it.         *)
(***************************************************************************)
EXTENDS Integers, FiniteSets, SequencesExt

CONSTANTS
  Vertices,
  MaxIn        \* bound: incoming edges of a vertex

VARIABLES
  inE,         \* ie: the sources of the incoming edges of each vertex, in order
  outE,        \* oe: the destinations of its outgoing edges
  dfs          \* ygraph_has_cycle: [base, vs, es, visited, nv, r], or NoSearch

graphVars == <<inE, outE, dfs>>

NoSearch == [r |-> "idle"]
Searching == dfs.r = "searching"
Edge(from, to) == [vf |-> from, vt |-> to]
InEdges(v) == [i \in DOMAIN inE[v] |-> Edge(inE[v][i], v)]

GraphInit == /\ inE = [v \in Vertices |-> <<>>]
             /\ outE = [v \in Vertices |-> {}]
             /\ dfs = NoSearch

\* ygraph_find_edge looks in the list of the source.
HasEdge(from, to) == to \in outE[from]

\* ygraph_add_edge; -EEXIST
AddEdge(from, to) == /\ dfs = NoSearch
                     /\ ~HasEdge(from, to)
                     /\ Len(inE[to]) < MaxIn
                     /\ outE' = [outE EXCEPT ![from] = @ \union {to}]
                     /\ inE' = [inE EXCEPT ![to] = Append(@, from)]
                     /\ UNCHANGED dfs

\* ygraph_remove_edge; -ENOENT
RemoveEdge(from, to) == /\ dfs = NoSearch
                        /\ HasEdge(from, to)
                        /\ outE' = [outE EXCEPT ![from] = @ \ {to}]
                        /\ inE' = [inE EXCEPT ![to] = RemoveFirst(@, from)]
                        /\ UNCHANGED dfs

\* ygraph_remove_vertex: edge_remove unlinks every edge at both of its ends.
RemoveVertex(v) ==
  /\ dfs = NoSearch
  /\ outE' = [u \in Vertices |-> IF u = v THEN {}
                                  ELSE outE[u] \ {v}]
  /\ inE' = [u \in Vertices |-> IF u = v THEN <<>>
                                 ELSE RemoveFirst(inE[u], v)]
  /\ UNCHANGED dfs

-----------------------------------------------------------------------------

\* ygraph_has_cycle: the base is counted and put on the stack, but it is not
\* marked as visited.
Search(base) ==
  /\ dfs = NoSearch
  /\ dfs' = [base |-> base, vs |-> <<base>>, es |-> InEdges(base),
             visited |-> {}, nv |-> 1, r |-> "searching"]
  /\ UNCHANGED <<inE, outE>>

\* A defect: the history is not adjusted.
HistoryKept(vs, e) == vs
\* The visiting history: the stack popped down to the target of the edge.
History(vs, e) ==
  LET at == {i \in DOMAIN vs : vs[i] = e.vt}
  IN  SubSeq(vs, 1, IF at = {} THEN 0 ELSE CHOOSE i \in at : \A j \in at : j <= i)

\* A visited source is a cycle when it is in the history, and skipped otherwise.
Revisit(v, vs) == IF v \in ToSet(vs) THEN "cyclic" ELSE "searching"

VisitEdge ==
  LET e  == Last(dfs.es)
      v  == e.vf
      vs == History(dfs.vs, e)
  IN  /\ Searching
      /\ dfs.es # <<>>
      /\ dfs' = IF v \in dfs.visited
                THEN [dfs EXCEPT !.vs = vs, !.es = Front(@), !.r = Revisit(v, vs)]
                ELSE [dfs EXCEPT !.vs = Append(vs, v),
                                 !.es = Front(@) \o InEdges(v),
                                 !.visited = @ \union {v},
                                 !.nv = @ + 1]
      /\ UNCHANGED <<inE, outE>>

\* The stack of edges is empty; *n_visited is written only here.
NoCycle == /\ Searching
           /\ dfs.es = <<>>
           /\ dfs' = [dfs EXCEPT !.r = "acyclic"]
           /\ UNCHANGED <<inE, outE>>

\* A push, or the mark, finds no memory: -ENOMEM.
SearchFails == /\ Searching
               /\ dfs' = NoSearch
               /\ UNCHANGED <<inE, outE>>

\* The caller uses the result.
Answered == /\ dfs.r \in {"cyclic", "acyclic"}
            /\ dfs' = NoSearch
            /\ UNCHANGED <<inE, outE>>

GraphNext == \/ \E from, to \in Vertices : AddEdge(from, to) \/ RemoveEdge(from, to)
             \/ \E v \in Vertices : RemoveVertex(v) \/ Search(v)
             \/ VisitEdge \/ NoCycle \/ SearchFails \/ Answered

GraphSpec == GraphInit /\ [][GraphNext]_graphVars

-----------------------------------------------------------------------------

Predecessors(v) == {u \in Vertices : v \in outE[u]}

\* The vertices from which v can be reached in one step or more: the least set
\* with the predecessors of v and of its own members.
Before(v) ==
  {u \in Vertices : \A S \in SUBSET Vertices :
     Predecessors(v) \subseteq S /\ (\A w \in S : Predecessors(w) \subseteq S) => u \in S}

(* Every edge is in the list of its source and, once, in the list of its    *)
(* destination, whatever edges and vertices were removed.                   *)
EdgesAtBothEnds ==
  \A u, v \in Vertices :
    Cardinality({i \in DOMAIN inE[v] : inE[v][i] = u}) = (IF v \in outE[u] THEN 1 ELSE 0)

(* The search answers that there is a cycle exactly when some vertex from   *)
(* which the base can be reached, or the base, is on a cycle; without one,  *)
(* the number of visited vertices is the number of those vertices, which    *)
(* the task dependency manager compares with all its tasks.                 *)
SearchIsExact ==
  LET region == {dfs.base} \union Before(dfs.base)
      cyclic == \E v \in region : v \in Before(v)
  IN  /\ dfs.r = "cyclic" => cyclic
      /\ dfs.r = "acyclic" => ~cyclic /\ dfs.nv = Cardinality(region)

(* What ygraph_has_cycle answers, it answers from lists that agree.         *)
GraphExact == EdgesAtBothEnds /\ SearchIsExact
=============================================================================
