----------------------------- MODULE TaskDepMan ------------------------------
(***************************************************************************)
(* taskdepman.c: a graph of tasks that are put into a task manager as      *)
(* their prerequisites end.  One user thread builds the graph and starts   *)
(* it, one may cancel it, and the Handler thread (the looper of mh) is     *)
(* told of the ends.  The task manager is that of TaskManager, reduced to  *)
(* its waiting and running sets; a task's end is one step.                 *)
(*                                                                         *)
(* A section under state_lock or graph_lock is one step; what is done      *)
(* without them is a step per access.  The calls that change the graph     *)
(* look at the state under state_lock and change the graph later without   *)
(* a lock: a cancel may come between.                                      *)
(***************************************************************************)
EXTENDS Integers, Graphs

CONSTANTS
    NTasks,     \* number of tasks; a task's name says when it is added
    Slots, None,
    MaxDeps,    \* bound on the edges of the graph
    MaxStale,   \* bound on the edges removed with their prerequisite
    MaxLate     \* bound on the tasks added before a cancel within an edit

Tasks == 1 .. NTasks

ASSUME TaskDepManAssumption ==
    /\ NTasks \in Nat
    /\ Slots \in Nat \ {0}
    /\ None \notin Tasks
    /\ MaxDeps \in Nat /\ MaxStale \in Nat /\ MaxLate \in Nat

VARIABLES
    fate,       \* "alive" or why the process ended, see Fates
    state,      \* enum tdm_state
    order,      \* the vertex list of the graph
    edges,      \* its edges <<prerequisite, target>>
    count,      \* ttg.count
    unhandled,  \* unhandled_task_cnt
    tstate,     \* state of each task
    waiting, running,   \* queues of the task manager
    mail,       \* messages for the Handler
    hand,       \* what the Handler is doing, with which task
    editor,     \* the call that changes the graph, past its look at the state
    starter,    \* position in ytaskdepman_start: step, cursor, saved next
    canceller,  \* position in ytaskdepman_cancel
    gone,       \* ytaskdepman_destroy has freed the manager
    given,      \* history: how many tasks were added
    plan,       \* history: the graph the user gave
    stale,      \* history: edges removed with their prerequisite, still counted
    overtaken   \* history: the graph was cancelled in the middle of an edit

vars == <<fate, state, order, edges, count, unhandled, tstate, waiting, running, mail,
          hand, editor, starter, canceller, gone, given, plan, stale, overtaken>>
graphVars == <<order, edges, count, unhandled>>
threadVars == <<hand, editor, starter, canceller>>
taskVars == <<tstate, waiting, running, mail>>
built == <<given, plan, stale>>
history == <<built, overtaken>>

(* "refused": the task manager refused a cancelled task (fatali0, fatal2). *)
(* "overrun": ytaskdepman_start came to a task that had been released      *)
(* before it, or freed.  "asserted": the assertion of ytaskdepman_cancel.  *)
(* "died": the die() of on_task_finished.  "wild": other use of freed      *)
(* memory or of NULL.                                                      *)
Fates == {"alive", "refused", "overrun", "asserted", "died", "wild"}

Vertices == ToSet(order)
Msg(type, t) == [type |-> type, task |-> t]
Idle == [at |-> "idle", cur |-> None, nxt |-> None]
Rest == [at |-> "idle", task |-> None]
Edit(call, t, p) == [call |-> call, task |-> t, prereq |-> p]
NoEdit == Edit("none", None, None)
Over == {t \in Tasks : tstate[t] \in {"OVER", "TERMINATED"}}
Released == waiting \union running \union Over
Without(t) == {e \in edges : t \notin {e[1], e[2]}}
Targets(t) == {u \in Vertices : <<t, u>> \in edges}
Prerequisites(t) == {u \in Vertices : <<u, t>> \in edges}

(* The edges that are counted and not there, once t is removed. *)
StaleWithout(t) == {e \in stale : e[2] # t} \union {<<t, u>> : u \in Targets(t) \ {t}}

(* The vertex after v in the list, None at its end. *)
After(v) ==
    LET later == {i \in 2 .. Len(order) : order[i - 1] = v}
    IN  IF later = {} THEN None ELSE order[CHOOSE i \in later : TRUE]

Init ==
    /\ fate = "alive"
    /\ state = "READY"
    /\ order = <<>> /\ edges = {}
    /\ count = [t \in Tasks |-> 0]
    /\ unhandled = 0
    /\ tstate = [t \in Tasks |-> "READY"]
    /\ waiting = {} /\ running = {}
    /\ mail = <<>>
    /\ hand = Rest /\ editor = NoEdit /\ starter = Idle /\ canceller = "idle"
    /\ gone = FALSE
    /\ given = 0 /\ plan = EmptyGraph /\ stale = {} /\ overtaken = FALSE

------------------------------------------------------------------------------
Call == fate = "alive" /\ ~gone

(* The user builds the graph, in one thread, before the start.  Each call  *)
(* looks at the state, under state_lock, and goes on only if it is READY;  *)
(* the calls that the graph refuses are left out.  A task that was removed *)
(* is not added again.                                                     *)
Enter ==
    /\ Call
    /\ state = "READY"
    /\ starter = Idle /\ editor = NoEdit
    /\ \E t \in Tasks, p \in Tasks \union {None} :
          \/ t = given + 1 /\ p = None /\ editor' = Edit("add_task", t, p)
          \/ t \in Vertices /\ p = None /\ editor' = Edit("remove_task", t, p)
             /\ Cardinality(StaleWithout(t)) <= MaxStale
          \/ {p, t} \subseteq Vertices /\ <<p, t>> \notin edges
             /\ Cardinality(edges) < MaxDeps /\ editor' = Edit("add_dependency", t, p)
          \/ <<p, t>> \in edges /\ editor' = Edit("remove_dependency", t, p)
    /\ UNCHANGED <<fate, state, graphVars, taskVars, hand, starter, canceller, gone, history>>

(* Then it changes the graph, whatever has become of the state. *)
Inside(call, t, p) == Call /\ editor = Edit(call, t, p)

Built ==
    /\ editor' = NoEdit
    /\ UNCHANGED <<fate, state, taskVars, hand, starter, canceller, gone, overtaken>>

AddTask(t) ==
    /\ Inside("add_task", t, None)
    /\ t = given + 1
    /\ given' = t
    /\ order' = Append(order, t)
    /\ count' = [count EXCEPT ![t] = 0]
    /\ unhandled' = unhandled + 1
    /\ plan' = [plan EXCEPT !.node = @ \union {t}]
    /\ UNCHANGED <<edges, stale>>
    /\ Built

(* The vertex goes with its edges; the targets are not told, so that they  *)
(* go on counting the removed prerequisite.                                *)
RemoveTask(t) ==
    /\ Inside("remove_task", t, None)
    /\ t \in Vertices
    /\ order' = RemoveFirst(order, t)
    /\ edges' = Without(t)
    /\ unhandled' = unhandled - 1
    /\ plan' = [node |-> plan.node \ {t}, edge |-> Without(t)]
    /\ stale' = StaleWithout(t)
    /\ UNCHANGED <<count, given>>
    /\ Built

(* An edge that makes a cycle is accepted. *)
AddDependency(p, t) ==
    /\ Inside("add_dependency", t, p)
    /\ {p, t} \subseteq Vertices /\ <<p, t>> \notin edges
    /\ edges' = edges \union {<<p, t>>}
    /\ count' = [count EXCEPT ![t] = @ + 1]
    /\ plan' = [plan EXCEPT !.edge = edges']
    /\ UNCHANGED <<order, unhandled, given, stale>>
    /\ Built

RemoveDependency(p, t) ==
    /\ Inside("remove_dependency", t, p)
    /\ <<p, t>> \in edges
    /\ edges' = edges \ {<<p, t>>}
    /\ count' = [count EXCEPT ![t] = @ - 1]
    /\ plan' = [plan EXCEPT !.edge = edges']
    /\ UNCHANGED <<order, unhandled, given, stale>>
    /\ Built

(* After a cancel the vertex may have been retired and freed. *)
EditFreed ==
    /\ Call
    /\ editor.call \in {"remove_task", "add_dependency", "remove_dependency"}
    /\ ~({editor.task, editor.prereq} \ {None} \subseteq Vertices)
    /\ fate' = "wild"
    /\ UNCHANGED <<state, graphVars, taskVars, threadVars, gone, history>>

EditorStep ==
    \/ \E t \in Tasks : AddTask(t) \/ RemoveTask(t)
    \/ \E p, t \in Tasks : AddDependency(p, t) \/ RemoveDependency(p, t)
    \/ EditFreed

------------------------------------------------------------------------------
(* A defect: only the number of tasks that lead to the root is checked. *)
VerdictAcyclic ==
    LET roots == {v \in Vertices : Targets(v) = {}}
    IN  IF Vertices = {} THEN "EMPTY"
        ELSE IF roots = {} THEN "NO_ROOT"
        ELSE IF Cardinality(roots) > 1 THEN "MULTI_ROOT"
        ELSE "OK"

(* Those that v waits for, directly or through others: the least set that  *)
(* has the prerequisites of v and those of its members.                    *)
Behind(v) ==
    {u \in Vertices : \A S \in SUBSET Vertices :
        Prerequisites(v) \subseteq S /\ (\A w \in S : Prerequisites(w) \subseteq S)
        => u \in S}

(* ytaskdepman_verify: the only task without targets is the root, and what *)
(* is reached from it backwards must be without a cycle and be all there   *)
(* is.  Without a root its tag is read through a NULL vertex.              *)
Verdict ==
    LET roots == {v \in Vertices : Targets(v) = {}}
        root  == CHOOSE v \in roots : TRUE
    IN  IF Vertices = {} THEN "EMPTY"
        ELSE IF roots = {} THEN "NO_ROOT"
        ELSE IF Cardinality(roots) > 1 THEN "MULTI_ROOT"
        ELSE IF \E v \in Behind(root) : v \in Behind(v) THEN "CIRCULAR_DEP"
        ELSE IF Behind(root) \union {root} # Vertices THEN "ISOLATED_TASK"
        ELSE "OK"

(* ytaskdepman_start: verify without a lock ... *)
Start ==
    /\ Call
    /\ starter = Idle /\ editor = NoEdit /\ state = "READY"
    /\ \/ Verdict = "OK" /\ starter' = [Idle EXCEPT !.at = "set"] /\ UNCHANGED fate
       \/ Verdict = "NO_ROOT" /\ fate' = "wild" /\ UNCHANGED starter
    /\ UNCHANGED <<state, graphVars, taskVars, hand, editor, canceller, gone, history>>

(* ... change the state under state_lock ... *)
StartSet ==
    /\ Call
    /\ starter.at = "set"
    /\ IF state = "READY"
       THEN state' = "STARTED" /\ starter' = [Idle EXCEPT !.at = "first"]
       ELSE starter' = Idle /\ UNCHANGED state
    /\ UNCHANGED <<fate, graphVars, taskVars, hand, editor, canceller, gone, history>>

Freed(v) == v # None /\ v \notin Vertices

(* ... and walk the vertices without graph_lock, the next one saved before *)
(* the present one is looked at.                                           *)
StartNext ==
    /\ Call
    /\ starter.at \in {"first", "next"}
    /\ LET cur == IF starter.at = "next" THEN starter.nxt
                  ELSE IF order = <<>> THEN None ELSE Head(order)
       IN  /\ starter' = IF cur = None THEN Idle
                         ELSE [at |-> "visit", cur |-> cur, nxt |-> After(cur)]
           /\ fate' = IF Freed(cur) THEN "overrun" ELSE fate
    /\ UNCHANGED <<state, graphVars, taskVars, hand, editor, canceller, gone, history>>

(* inject_task: the task manager refuses a task that is not READY or was   *)
(* given to it before, and fatali0 ends the process.                       *)
Inject(ts, refusal) ==
    IF \A t \in ts : tstate[t] = "READY" /\ t \notin waiting \union running
    THEN waiting' = waiting \union ts /\ UNCHANGED fate
    ELSE fate' = refusal /\ UNCHANGED waiting

StartVisit ==
    /\ Call
    /\ starter.at = "visit"
    /\ starter' = [starter EXCEPT !.at = "next"]
    /\ IF Freed(starter.cur) THEN fate' = "overrun" /\ UNCHANGED waiting
       ELSE Inject(IF Prerequisites(starter.cur) = {} THEN {starter.cur} ELSE {},
                   IF starter.cur \in Released THEN "overrun" ELSE "refused")
    /\ UNCHANGED <<state, graphVars, tstate, running, mail, hand, editor, canceller, gone,
                   history>>

------------------------------------------------------------------------------
(* ytaskdepman_cancel: under state_lock ... *)
Cancel ==
    /\ Call
    /\ canceller = "idle"
    /\ state \in {"READY", "STARTED"}
    /\ IF state = "READY" /\ unhandled = 0
       THEN state' = "CANCELLED" /\ UNCHANGED canceller
       ELSE state' = "CANCELLING" /\ canceller' = "tasks"
    /\ overtaken' = (overtaken \/ editor # NoEdit)
    /\ editor # NoEdit => given <= MaxLate
    /\ UNCHANGED <<fate, graphVars, taskVars, hand, editor, starter, gone, built>>

(* ... then, under graph_lock, every task that is still in the graph; the  *)
(* task manager is not told.  A build with assertions expects that none of *)
(* them has been started, one without goes on.                             *)
CancelTasks ==
    /\ Call
    /\ canceller = "tasks"
    /\ canceller' = "idle"
    /\ fate' \in {"alive"} \union
          (IF \E t \in Vertices : tstate[t] # "READY" THEN {"asserted"} ELSE {})
    /\ tstate' = [t \in Tasks |-> IF t \in Vertices /\ tstate[t] \in {"READY", "STARTED"}
                                  THEN "CANCELLING" ELSE tstate[t]]
    /\ UNCHANGED <<state, graphVars, waiting, running, mail, hand, editor, starter, gone,
                   history>>

(* ytaskdepman_destroy, when no other call is under way: waits for the     *)
(* task manager to be empty and frees both.                                *)
Destroy ==
    /\ Call
    /\ editor = NoEdit /\ starter = Idle /\ canceller = "idle"
    /\ state \in {"CANCELLED", "DONE"}
    /\ waiting \union running = {}
    /\ gone' = TRUE
    /\ UNCHANGED <<fate, state, graphVars, taskVars, threadVars, history>>

------------------------------------------------------------------------------
(* The task manager gives a free slot to a waiting task and starts it;     *)
(* one that is no longer READY refuses, and fatal2 ends the process.       *)
Dispatch(t) ==
    /\ fate = "alive"
    /\ t \in waiting
    /\ Cardinality(running) < Slots
    /\ waiting' = waiting \ {t}
    /\ running' = running \union {t}
    /\ IF tstate[t] = "READY"
       THEN tstate' = [tstate EXCEPT ![t] = "STARTED"] /\ UNCHANGED fate
       ELSE fate' = "refused" /\ UNCHANGED tstate
    /\ UNCHANGED <<state, graphVars, mail, threadVars, gone, history>>

(* A task ends and its listeners are told: the dependency manager if the   *)
(* task is in its graph, the task manager if it is in a slot.              *)
TaskEnds(t) ==
    /\ fate = "alive"
    /\ tstate[t] \in {"STARTED", "CANCELLING"}
    /\ tstate' = [tstate EXCEPT ![t] = "OVER"]
    /\ mail' = mail \o (IF t \in Vertices THEN <<Msg("end", t)>> ELSE <<>>)
                    \o (IF t \in running THEN <<Msg("slot", t)>> ELSE <<>>)
    /\ UNCHANGED <<fate, state, graphVars, waiting, running, threadVars, gone, history>>

TaskTerminates(t) ==
    /\ fate = "alive"
    /\ tstate[t] = "OVER"
    /\ tstate' = [tstate EXCEPT ![t] = "TERMINATED"]
    /\ UNCHANGED <<fate, state, graphVars, waiting, running, mail, threadVars, gone, history>>

------------------------------------------------------------------------------
Receives(type) == fate = "alive" /\ hand = Rest /\ mail # <<>> /\ Head(mail).type = type

(* A defect: the manager is done when one task is left. *)
LastTaskEarly == unhandled = 2

LastTask == unhandled = 1

(* destroy_handled_task: the vertex goes, and a message to the Handler     *)
(* itself will destroy the task.                                           *)
Retire(t, inbox) ==
    /\ order' = RemoveFirst(order, t)
    /\ edges' = Without(t)
    /\ mail' = Append(inbox, Msg("destroy", t))

(* on_task_finished under state_lock.  The last task is retired there and  *)
(* on_done is called; of another, the state read here decides what to do.  *)
Finished ==
    /\ Receives("end")
    /\ LET t == Head(mail).task
       IN  /\ fate' = IF t \notin Vertices THEN "wild"
                      ELSE IF state \notin {"STARTED", "CANCELLING"} THEN "died"
                      ELSE fate
           /\ unhandled' = unhandled - (IF fate' = "alive" THEN 1 ELSE 0)
           /\ IF fate' # "alive" THEN UNCHANGED <<order, edges, state, hand, mail>>
              ELSE IF LastTask
              THEN /\ Retire(t, Tail(mail))
                   /\ state' = IF state = "CANCELLING" THEN "CANCELLED" ELSE "DONE"
                   /\ UNCHANGED hand
              ELSE /\ hand' = [at |-> IF state = "STARTED" THEN "release" ELSE "retire",
                               task |-> t]
                   /\ mail' = Tail(mail)
                   /\ UNCHANGED <<order, edges, state>>
    /\ UNCHANGED <<count, tstate, waiting, running, editor, starter, canceller, gone, history>>

(* A defect: one prerequisite is not waited for. *)
AllEndedButOne(n) == n = 1

AllEnded(n) == n = 0

(* Under graph_lock: each target has one prerequisite less to wait for and *)
(* is injected when that was the last.                                     *)
Release ==
    /\ fate = "alive"
    /\ hand.at = "release"
    /\ count' = [t \in Tasks |-> IF t \in Targets(hand.task) THEN count[t] - 1 ELSE count[t]]
    /\ Inject({t \in Targets(hand.task) : AllEnded(count'[t])}, "refused")
    /\ hand' = [hand EXCEPT !.at = "retire"]
    /\ UNCHANGED <<state, order, edges, unhandled, tstate, running, mail, editor, starter,
                   canceller, gone, history>>

(* A task that was removed meanwhile has no vertex any more. *)
RetireHandled ==
    /\ fate = "alive"
    /\ hand.at = "retire"
    /\ IF hand.task \in Vertices
       THEN Retire(hand.task, mail) /\ UNCHANGED fate
       ELSE fate' = "wild" /\ UNCHANGED <<order, edges, mail>>
    /\ hand' = Rest
    /\ UNCHANGED <<state, count, unhandled, tstate, waiting, running, editor, starter,
                   canceller, gone, history>>

(* destroy_handled_task_: tries again until the task is TERMINATED. *)
DestroyHandled ==
    /\ Receives("destroy")
    /\ mail' = IF tstate[Head(mail).task] = "TERMINATED" THEN Tail(mail)
               ELSE Append(Tail(mail), Head(mail))
    /\ UNCHANGED <<fate, state, graphVars, tstate, waiting, running, threadVars, gone,
                   history>>

(* The task manager's own listener: the slot is free ... *)
FreeSlot ==
    /\ Receives("slot")
    /\ mail' = Tail(mail)
    /\ running' = running \ {Head(mail).task}
    /\ hand' = [at |-> "balance", task |-> Head(mail).task]
    /\ UNCHANGED <<fate, state, graphVars, tstate, waiting, editor, starter, canceller, gone,
                   history>>

(* ... and the queues are looked at again, of a manager that the user may  *)
(* have destroyed as soon as it was empty.                                 *)
BalanceAgain ==
    /\ fate = "alive"
    /\ hand.at = "balance"
    /\ fate' = IF gone THEN "wild" ELSE fate
    /\ hand' = Rest
    /\ UNCHANGED <<state, graphVars, taskVars, editor, starter, canceller, gone, history>>

------------------------------------------------------------------------------
HandlerStep ==
    Finished \/ Release \/ RetireHandled \/ DestroyHandled \/ FreeSlot \/ BalanceAgain
StarterStep == StartSet \/ StartNext \/ StartVisit
TaskStep(t) == Dispatch(t) \/ TaskEnds(t) \/ TaskTerminates(t)

Next ==
    \/ \E t \in Tasks : TaskStep(t)
    \/ Enter \/ EditorStep
    \/ Start \/ StarterStep
    \/ Cancel \/ CancelTasks \/ Destroy
    \/ HandlerStep

(* Threads inside a call, the Handler's looper, the task manager and the   *)
(* tasks' threads are scheduled; nobody has to call.                       *)
Spec ==
    /\ Init /\ [][Next]_vars
    /\ WF_vars(EditorStep) /\ WF_vars(StarterStep)
    /\ WF_vars(CancelTasks) /\ WF_vars(HandlerStep)
    /\ \A t \in Tasks : WF_vars(Dispatch(t)) /\ WF_vars(TaskEnds(t) \/ TaskTerminates(t))

------------------------------------------------------------------------------
Mailed(type, t) == \E i \in 1 .. Len(mail) : mail[i] = Msg(type, t)
Unheard == {t \in Vertices : hand.task # t \/ hand.at = "balance"}

TypeOK ==
    /\ fate \in Fates
    /\ state \in {"READY", "STARTED", "CANCELLING", "CANCELLED", "DONE"}
    /\ order \in Seq(Tasks) /\ edges \subseteq Vertices \X Vertices
    /\ count \in [Tasks -> Nat] /\ unhandled \in Nat
    /\ tstate \in [Tasks -> {"READY", "STARTED", "CANCELLING", "OVER", "TERMINATED"}]
    /\ waiting \subseteq Tasks /\ running \subseteq Tasks
    /\ mail \in Seq([type : {"end", "slot", "destroy"}, task : Tasks])

(* The counters say what they stand for, whatever thread is where: as many *)
(* ends are still to be handled as there are vertices not in the Handler's *)
(* hands, and a task counts the prerequisites that it still waits for (and *)
(* those that were removed from under it).                                 *)
CountsExact ==
    /\ fate = "alive" => unhandled = Cardinality(Unheard)
    /\ fate = "alive" /\ state \in {"READY", "STARTED"} => \A t \in Vertices :
          count[t] = Cardinality({u \in Prerequisites(t) :
                                     ~(hand.task = u /\ hand.at = "retire")})
                     + Cardinality({e \in stale : e[2] = t})

(* The end of a task reaches the Handler while the task has its vertex and *)
(* the manager is in a state that expects it: the die() is never reached.  *)
EndFindsVertex ==
    \A t \in Tasks : Mailed("end", t) =>
        /\ t \in Vertices
        /\ state \in {"STARTED", "CANCELLING"}
        /\ ~Mailed("destroy", t)

(* What may end the process: the task manager refuses a task, and the      *)
(* assertion of ytaskdepman_cancel fails, only after a cancel; memory that *)
(* was freed is used only after a destroy, or by the walk of a start that  *)
(* was overrun, and NULL only before the start; no edit uses any.          *)
FateExplained ==
    /\ fate \in {"refused", "asserted"} => state \in {"CANCELLING", "CANCELLED"}
    /\ fate = "overrun" => state # "READY"
    /\ fate = "wild" => editor = NoEdit /\ (state = "READY" \/ gone)
    /\ fate # "died"

(* All of it as one invariant, of a manager that was not cancelled in the  *)
(* middle of an edit.                                                      *)
Books == TypeOK /\ (overtaken \/ (CountsExact /\ EndFindsVertex /\ FateExplained))

WF == INSTANCE Workflow WITH phase <- state, released <- Released, over <- Over

(* Tasks run in an order that respects the dependencies, only a graph that *)
(* can be completed is started, and the manager becomes DONE or CANCELLED  *)
(* once, when every task is over (taskdepman.c:209), unless a cancel came  *)
(* in the middle of an edit.                                               *)
ImplementsWorkflow == WF!Init /\ [][overtaken' \/ WF!Next]_(WF!wfVars)

(* A started graph ends, if no prerequisite was removed from under a task, *)
(* unless a cancel makes the task manager refuse a task or an assertion    *)
(* fail, or the looper overruns the walk of ytaskdepman_start.             *)
StartedEnds ==
    (state = "STARTED" /\ stale = {}) ~>
        \/ state \in {"DONE", "CANCELLED"}
        \/ state = "CANCELLING" /\ fate \in {"refused", "asserted"}
        \/ fate = "overrun"

(* What the comment of ytaskdepman_start, "start all leaf tasks", comes    *)
(* to: a graph that verified and that nobody cancels runs without ending   *)
(* the process.                                                            *)
StartSurvives == state = "STARTED" => fate = "alive"

(* ... with nothing said of removed tasks: the callback of ytaskdepman.h   *)
(* that is "executed after tasks are all done".                            *)
AllStartedEnd ==
    (state = "STARTED") ~> (state \in {"DONE", "CANCELLED"} \/ fate # "alive")

==============================================================================
