------------------------------ MODULE Workflow -------------------------------
(***************************************************************************)
(* What the user of a dependency manager gets: tasks are run in an order   *)
(* that respects the dependencies the user gave, and the manager is done,  *)
(* or cancelled, when every task is over, once.  ytaskdepman.h says more:  *)
(* that a dependency that makes a cycle is refused when it is added.  It   *)
(* is not, and Edit takes it; only Begin refuses the graph.                *)
(***************************************************************************)
EXTENDS Graphs

CONSTANT Tasks

VARIABLES
    phase,      \* state of the manager
    plan,       \* graph of the dependencies: an edge <<prerequisite, target>>
    released,   \* tasks that were given to the task manager or are over
    over        \* tasks that have ended

wfVars == <<phase, plan, released, over>>

Init ==
    /\ phase = "READY"
    /\ plan = EmptyGraph
    /\ released = {}
    /\ over = {}

(* The user changes the graph before the start. *)
Edit ==
    /\ phase = "READY"
    /\ plan'.node \subseteq Tasks
    /\ IsDirectedGraph(plan')
    /\ UNCHANGED <<phase, released, over>>

(* Whichever tasks one takes, one of them waits for none of the others nor *)
(* for itself.                                                             *)
Acyclic(graph) ==
    \A S \in (SUBSET graph.node) \ {{}} :
        \E t \in S : Predecessors(graph, t) \intersect S = {}

(* Only a graph without cycles and with one last task can be started. *)
Begin ==
    /\ phase = "READY"
    /\ Acyclic(plan)
    /\ \E last \in plan.node : Leaves(plan) = {last}
    /\ phase' = "STARTED"
    /\ UNCHANGED <<plan, released, over>>

(* Tasks are released when all their prerequisites are over. *)
Release ==
    /\ phase \in {"STARTED", "CANCELLING"}
    /\ released \subseteq released' /\ released' \subseteq plan.node
    /\ \A t \in released' \ released : Predecessors(plan, t) \subseteq over
    /\ UNCHANGED <<phase, plan, over>>

Cancel ==
    /\ phase \in {"READY", "STARTED"}
    /\ phase' = IF plan.node = {} THEN "CANCELLED" ELSE "CANCELLING"
    /\ UNCHANGED <<plan, released, over>>

(* A released task ends; after a cancel any task does. *)
End ==
    /\ \E t \in plan.node \ over :
          /\ t \in released \/ phase = "CANCELLING"
          /\ over' = over \union {t}
          /\ released' = released \union {t}
    /\ UNCHANGED <<phase, plan>>

Finish ==
    /\ over = plan.node
    /\ \/ phase = "STARTED" /\ phase' = "DONE"
       \/ phase = "CANCELLING" /\ phase' = "CANCELLED"
    /\ UNCHANGED <<plan, released, over>>

Next == Edit \/ Begin \/ Release \/ Cancel \/ End \/ Finish

Spec == Init /\ [][Next]_wfVars

==============================================================================
