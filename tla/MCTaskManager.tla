---------------------------- MODULE MCTaskManager ----------------------------
(* Instance of TaskManager for TLC: two ordinary tasks and an urgent one. *)
EXTENDS TaskManager, TLC

CONSTANTS t1, t2, t3, c1, c2

MCTasks == {t1, t2, t3}
MCClients == {c1, c2}
MCPriority == (t1 :> 0) @@ (t2 :> 0) @@ (t3 :> 1)

(* Two tasks, the second one more urgent. *)
MCPriority2 == (t1 :> 0) @@ (t2 :> 1)

(* Safety tells neither the clients nor the two ordinary tasks apart. *)
MCSymmetry == Permutations(MCClients) \union Permutations({t1, t2})

==============================================================================
