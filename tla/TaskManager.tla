----------------------------- MODULE TaskManager -----------------------------
(***************************************************************************)
(* taskmanager.c with the reference counts and the listener of task.c: a   *)
(* queue of waiting tasks per priority, a queue of the tasks in a slot,    *)
(* and the threads that move tasks between them.                           *)
(*                                                                         *)
(* A section under q_lock is one step.  What the code does after releasing *)
(* it (starting or cancelling the task, dropping a reference, balancing    *)
(* the queues) is a step of its own: Clients call the manager, Owner is    *)
(* the thread of the manager's message handler.  The life of a task        *)
(* between start and end is that of Threadex, in fewer steps.              *)
(***************************************************************************)
EXTENDS Naturals, SequencesExt

CONSTANTS
    Tasks,
    Clients,        \* threads that call the manager
    Owner,          \* the looper thread of the manager's handler
    NPri,           \* YTHREADEX_NUM_PRIORITY; the greatest is the most urgent
    Priority,       \* [Tasks -> priority]
    Slots,          \* tasks that may run at a time
    Heard,          \* tasks whose queue events a listener on the manager's own handler hears
    Debug,          \* CONFIG_DEBUG: yassert is compiled in
    None            \* no task

Pri == 0 .. NPri - 1

ASSUME TaskManagerAssumption ==
    /\ IsFiniteSet(Tasks)
    /\ IsFiniteSet(Clients)
    /\ Owner \notin Clients
    /\ NPri \in Nat \ {0}
    /\ Priority \in [Tasks -> Pri]
    /\ Slots \in Nat \ {0}
    /\ Heard \in SUBSET Tasks
    /\ Debug \in BOOLEAN
    /\ None \notin Tasks

VARIABLES
    gone,       \* the manager is destroyed
    fate,       \* what became of the process
    ready,      \* waiting tasks of each priority
    run,        \* tasks in a slot
    tag,        \* the task carries the manager's tag (struct ttg)
    listening,  \* the manager's listener is attached to the task
    refs,       \* reference count of each task
    lost,       \* history: tasks that were cancelled while they waited
    created,    \* the creator has not destroyed the task
    tstate,     \* threadex state of each task
    started,    \* the task's thread was started
    told,       \* the listeners were told that the task ended
    mail,       \* messages for the Owner
    seen,       \* the queue sizes that the last queue event carried
    pc,         \* position of each thread
    job         \* the task it works on

vars == <<gone, fate, ready, run, tag, listening, refs, lost, created, tstate, started,
          told, mail, seen, pc, job>>
taskVars == <<created, tstate, started, told>>

Threads == Clients \union {Owner}
Terminated == {"TERMINATED", "TERMINATED_CANCELLED"}

(* The ready queue. *)
Waiting == {t \in Tasks : \E i \in Pri : \E k \in 1 .. Len(ready[i]) : ready[i][k] = t}
ReadyEnq(t) == ready' = [ready EXCEPT ![Priority[t]] = Append(@, t)]
ReadyRemove(t) == ready' = [ready EXCEPT ![Priority[t]] = RemoveFirst(@, t)]
(* The oldest task of the most urgent priority that has one. *)
ReadyDeq(t) ==
    \E i \in Pri :
        /\ ready[i] # <<>>
        /\ \A j \in Pri : j > i => ready[j] = <<>>
        /\ t = Head(ready[i])
        /\ ready' = [ready EXCEPT ![i] = Tail(@)]

(* The run queue. *)
Running == Cardinality(run)
RunContains(t) == t \in run
RunEnq(t) == run' = run \union {t}
RunRemove(t) == run' = run \ {t}

Size == Running + Cardinality(Waiting)

(* create_ttg and destroy_ttg *)
Tagged(t) == tag' = [tag EXCEPT ![t] = TRUE]
Untagged(t) == tag' = [tag EXCEPT ![t] = FALSE]

(* Messages for the Owner: the end of a task, the release of a reference,  *)
(* and the queue events that point to a task: it was added, moved or taken *)
(* off the ready queue, or it has left the manager.                        *)
Finished(t) == [type |-> "finished", task |-> t]
PutLater(t) == [type |-> "put", task |-> t]
Event(t) == [type |-> "event", task |-> t]
Left(t) == [type |-> "left", task |-> t]
Messages == [type : {"finished", "put", "event", "left"}, task : Tasks]

Goto(th, pos, t) == pc' = [pc EXCEPT ![th] = pos] /\ job' = [job EXCEPT ![th] = t]

(* Every queue event carries the sizes at the time of the event, and the   *)
(* task, without a reference to it.                                        *)
Notify(m) ==
    /\ seen' = [ready |-> Cardinality(Waiting'), run |-> Cardinality(run')]
    /\ mail' = IF m.task \in Heard THEN Append(mail, m) ELSE mail

------------------------------------------------------------------------------
Init ==
    /\ gone = FALSE
    /\ fate = "alive"
    /\ ready = [i \in Pri |-> <<>>]
    /\ run = {}
    /\ tag = [t \in Tasks |-> FALSE]
    /\ listening = [t \in Tasks |-> FALSE]
    /\ refs = [t \in Tasks |-> 1]
    /\ lost = {}
    /\ created = [t \in Tasks |-> TRUE]
    /\ tstate = [t \in Tasks |-> "READY"]
    /\ started = [t \in Tasks |-> FALSE]
    /\ told = [t \in Tasks |-> FALSE]
    /\ mail = <<>>
    /\ seen = [ready |-> 0, run |-> 0]
    /\ pc = [th \in Threads |-> "idle"]
    /\ job = [th \in Threads |-> None]

(* A thread of a process that lives takes its next step at pos. *)
Alive == fate = "alive"
At(th, pos) == Alive /\ pc[th] = pos

(* Nobody calls a manager that is destroyed or that a client destroys. *)
Call(c) == ~gone /\ At(c, "idle") /\ \A d \in Clients : pc[d] # "destroy"

(* ytaskmanager_add_task: refused for a task that is or was in a manager   *)
(* or is not READY.  The caller is the only one who adds this task.        *)
AddTask(c, t) ==
    /\ Call(c)
    /\ created[t]
    /\ ~tag[t]
    /\ tstate[t] = "READY"
    /\ Tagged(t)
    /\ ReadyEnq(t)
    /\ refs' = [refs EXCEPT ![t] = @ + 1]
    /\ Goto(c, "balance", None)
    /\ UNCHANGED <<gone, fate, run, listening, lost, taskVars>>
    /\ Notify(Event(t))

(* A defect: one task more than there are slots. *)
BalanceOneMore(th) ==
    /\ At(th, "balance")
    /\ ~gone
    /\ Running <= Slots
    /\ \E t \in Waiting :
          /\ ReadyDeq(t)
          /\ RunEnq(t)
          /\ listening' = [listening EXCEPT ![t] = TRUE]
          /\ Goto(th, "start", t)
          /\ Notify(Event(t))
    /\ UNCHANGED <<gone, fate, tag, refs, lost, taskVars>>

(* balance_taskq under q_lock: the oldest task of the most urgent priority *)
(* gets a free slot; the manager listens to it from now on.                *)
Balance(th) ==
    /\ At(th, "balance")
    /\ ~gone
    /\ Running < Slots
    /\ \E t \in Waiting :
          /\ ReadyDeq(t)
          /\ RunEnq(t)
          /\ listening' = [listening EXCEPT ![t] = TRUE]
          /\ Goto(th, "start", t)
          /\ Notify(Event(t))
    /\ UNCHANGED <<gone, fate, tag, refs, lost, taskVars>>

(* Nothing waits or no slot is free. *)
BalanceNothing(th) ==
    /\ At(th, "balance")
    /\ ~gone
    /\ Waiting = {} \/ Running >= Slots
    /\ Goto(th, "idle", None)
    /\ UNCHANGED <<gone, fate, ready, run, tag, listening, refs, lost, taskVars, mail, seen>>

(* After q_lock is released the task is started; a task that is no longer  *)
(* READY refuses, and fatal2 ends the process.                             *)
Start(th) ==
    /\ At(th, "start")
    /\ IF tstate[job[th]] = "READY"
       THEN /\ tstate' = [tstate EXCEPT ![job[th]] = "STARTED"]
            /\ started' = [started EXCEPT ![job[th]] = TRUE]
            /\ UNCHANGED fate
       ELSE fate' = "unstarted" /\ UNCHANGED <<tstate, started>>
    /\ Goto(th, "idle", None)
    /\ UNCHANGED <<gone, ready, run, tag, listening, refs, lost, created, told, mail, seen>>

(* A defect: no event tells that the task has left the queue. *)
CancelReadySilent(c, t) ==
    /\ Call(c)
    /\ created[t]
    /\ t \in Waiting
    /\ ReadyRemove(t)
    /\ lost' = lost \union {t}
    /\ Goto(c, "cancel", t)
    /\ UNCHANGED <<gone, fate, run, tag, listening, refs, taskVars, mail, seen>>

(* ytaskmanager_cancel_task under q_lock, of a waiting task: it leaves the *)
(* queue, but keeps the manager's tag and reference.                       *)
CancelReady(c, t) ==
    /\ Call(c)
    /\ created[t]
    /\ t \in Waiting
    /\ ReadyRemove(t)
    /\ lost' = lost \union {t}
    /\ Goto(c, "cancel", t)
    /\ UNCHANGED <<gone, fate, run, tag, listening, refs, taskVars>>
    /\ Notify(Event(t))

(* ... and of a task in a slot, which stays there. *)
CancelRun(c, t) ==
    /\ Call(c)
    /\ created[t]
    /\ RunContains(t)
    /\ Goto(c, "cancel", t)
    /\ UNCHANGED <<gone, fate, ready, run, tag, listening, refs, lost, taskVars, mail, seen>>

(* ... and of a task that has left the manager: the query asserts its tag  *)
(* (verify_ttg), and without assertions the call is refused.  A task that  *)
(* was cancelled while it waited still has the tag, and is refused.        *)
CancelGone(c, t) ==
    /\ Debug
    /\ Call(c)
    /\ created[t]
    /\ told[t]
    /\ ~tag[t]
    /\ fate' = "asserted"
    /\ UNCHANGED <<gone, ready, run, tag, listening, refs, lost, taskVars, mail, seen, pc, job>>

Cancelled(ts) ==
    [t \in Tasks |-> IF t \in ts /\ tstate[t] \in {"READY", "STARTED"}
                     THEN "CANCELLING" ELSE tstate[t]]

(* ytask_cancel after q_lock is released; its result is ignored. *)
Cancel(c) ==
    /\ At(c, "cancel")
    /\ tstate' = Cancelled({job[c]})
    /\ Goto(c, "idle", None)
    /\ UNCHANGED <<gone, fate, ready, run, tag, listening, refs, lost, created, started,
                   told, mail, seen>>

(* ytaskmanager_cancel_all under q_lock.  The loop over each ready queue   *)
(* (ylistl_foreach_safe) starts at the head and ends before its first      *)
(* iteration; only the tasks in a slot are cancelled.                      *)
CancelAll(c) ==
    /\ Call(c)
    /\ tstate' = Cancelled(run)
    /\ UNCHANGED <<gone, fate, ready, run, tag, listening, refs, lost, created, started,
                   told, mail, seen, pc, job>>

------------------------------------------------------------------------------
(* The task's own thread ends (thread_main_cleanup) ... *)
RunEnds(t) ==
    /\ Alive
    /\ started[t]
    /\ tstate[t] \in {"STARTED", "CANCELLING"}
    /\ tstate' = [tstate EXCEPT ![t] = IF @ = "STARTED" THEN "DONE" ELSE "CANCELLED"]
    /\ UNCHANGED <<gone, fate, ready, run, tag, listening, refs, lost, created, started,
                   told, mail, seen, pc, job>>

(* ... or the task's owner gives up a task that was never started. *)
GiveUp(t) ==
    /\ Alive
    /\ ~started[t]
    /\ tstate[t] = "CANCELLING"
    /\ tstate' = [tstate EXCEPT ![t] = "CANCELLED"]
    /\ UNCHANGED <<gone, fate, ready, run, tag, listening, refs, lost, created, started,
                   told, mail, seen, pc, job>>

(* on_done and on_cancelled of task.c, in the thread of the task's owner:  *)
(* a message for the listener and one that drops the reference taken for   *)
(* it.                                                                     *)
Tell(t) ==
    /\ Alive
    /\ tstate[t] \in {"DONE", "CANCELLED"}
    /\ ~told[t]
    /\ told' = [told EXCEPT ![t] = TRUE]
    /\ IF listening[t]
       THEN /\ mail' = mail \o <<Finished(t), PutLater(t)>>
            /\ refs' = [refs EXCEPT ![t] = @ + 1]
       ELSE UNCHANGED <<mail, refs>>
    /\ UNCHANGED <<gone, fate, ready, run, tag, listening, lost, created, tstate, started,
                   seen, pc, job>>

(* The task's owner writes the final state when the listeners are told. *)
Terminate(t) ==
    /\ Alive
    /\ told[t]
    /\ tstate[t] \in {"DONE", "CANCELLED"}
    /\ tstate' = [tstate EXCEPT ![t] =
                      IF @ = "DONE" THEN "TERMINATED" ELSE "TERMINATED_CANCELLED"]
    /\ UNCHANGED <<gone, fate, ready, run, tag, listening, refs, lost, created, started,
                   told, mail, seen, pc, job>>

(* ytask_destroy by the creator, who does not destroy a task that a call   *)
(* of his still cancels.                                                   *)
DestroyTask(t) ==
    /\ Alive
    /\ created[t]
    /\ tstate[t] \in Terminated
    /\ \A c \in Clients : pc[c] = "cancel" => job[c] # t
    /\ created' = [created EXCEPT ![t] = FALSE]
    /\ refs' = [refs EXCEPT ![t] = @ - 1]
    /\ UNCHANGED <<gone, fate, ready, run, tag, listening, lost, tstate, started, told,
                   mail, seen, pc, job>>

------------------------------------------------------------------------------
(* The Owner handles the end of a task: task_event_on_finished takes the   *)
(* listener off the task ...                                               *)
TakeFinished ==
    /\ At(Owner, "idle")
    /\ mail # <<>>
    /\ Head(mail).type = "finished"
    /\ mail' = Tail(mail)
    /\ listening' = [listening EXCEPT ![Head(mail).task] = FALSE]
    /\ Goto(Owner, "remove", Head(mail).task)
    /\ UNCHANGED <<gone, fate, ready, run, tag, refs, lost, taskVars, seen>>

(* A defect: the manager keeps its reference. *)
RemoveAndKeep ==
    /\ At(Owner, "remove")
    /\ RunRemove(job[Owner])
    /\ Untagged(job[Owner])
    /\ Goto(Owner, "balance", None)
    /\ UNCHANGED <<gone, fate, ready, listening, refs, lost, taskVars>>
    /\ Notify(Left(job[Owner]))

(* ... frees the slot and the tag under q_lock ... *)
RemoveFromRunq ==
    /\ At(Owner, "remove")
    /\ RunRemove(job[Owner])
    /\ Untagged(job[Owner])
    /\ Goto(Owner, "put", job[Owner])
    /\ UNCHANGED <<gone, fate, ready, listening, refs, lost, taskVars>>
    /\ Notify(Left(job[Owner]))

(* A defect: the free slot is not offered to a waiting task. *)
PutOnly ==
    /\ At(Owner, "put")
    /\ refs' = [refs EXCEPT ![job[Owner]] = @ - 1]
    /\ Goto(Owner, "idle", None)
    /\ UNCHANGED <<gone, fate, ready, run, tag, listening, lost, taskVars, mail, seen>>

(* ... drops the manager's reference and balances the queues. *)
Put ==
    /\ At(Owner, "put")
    /\ refs' = [refs EXCEPT ![job[Owner]] = @ - 1]
    /\ Goto(Owner, "balance", None)
    /\ UNCHANGED <<gone, fate, ready, run, tag, listening, lost, taskVars, mail, seen>>

(* task_put_runnable *)
TakePut ==
    /\ At(Owner, "idle")
    /\ mail # <<>>
    /\ Head(mail).type = "put"
    /\ mail' = Tail(mail)
    /\ refs' = [refs EXCEPT ![Head(mail).task] = @ - 1]
    /\ UNCHANGED <<gone, fate, ready, run, tag, listening, lost, taskVars, seen, pc, job>>

(* notify_qevent_to_listener: the user's function gets the task. *)
TakeEvent ==
    /\ At(Owner, "idle")
    /\ mail # <<>>
    /\ Head(mail).type \in {"event", "left"}
    /\ mail' = Tail(mail)
    /\ UNCHANGED <<gone, fate, ready, run, tag, listening, refs, lost, taskVars, seen, pc, job>>

(* ytaskmanager_destroy is refused while a task is in a queue.  The caller *)
(* answers for the other clients, not for the Owner, which may be anywhere. *)
CheckSize(c) ==
    /\ Call(c)
    /\ Size = 0
    /\ \A d \in Clients : pc[d] = "idle"
    /\ Goto(c, "destroy", None)
    /\ UNCHANGED <<gone, fate, ready, run, tag, listening, refs, lost, taskVars, mail, seen>>

(* Then nothing is looked at again: each lock is taken and given back once *)
(* and destroyed, and the manager is freed.                                *)
Destroy(c) ==
    /\ At(c, "destroy")
    /\ gone' = TRUE
    /\ Goto(c, "idle", None)
    /\ UNCHANGED <<fate, ready, run, tag, listening, refs, lost, taskVars, mail, seen>>

(* balance_taskq of a manager that was freed since the slot was. *)
UseFreed(th) ==
    /\ At(th, "balance")
    /\ gone
    /\ fate' = "wild"
    /\ UNCHANGED <<gone, ready, run, tag, listening, refs, lost, taskVars, mail, seen, pc, job>>

------------------------------------------------------------------------------
(* Steps inside a call that has begun. *)
Inside(th) == Balance(th) \/ BalanceNothing(th) \/ Start(th) \/ UseFreed(th)

OwnerStep == TakeFinished \/ RemoveFromRunq \/ Put \/ TakePut \/ TakeEvent

TaskStep(t) == RunEnds(t) \/ GiveUp(t) \/ Tell(t) \/ Terminate(t)

Next ==
    \/ \E c \in Clients, t \in Tasks :
          AddTask(c, t) \/ CancelReady(c, t) \/ CancelRun(c, t) \/ CancelGone(c, t)
    \/ \E c \in Clients : Cancel(c) \/ CancelAll(c) \/ CheckSize(c) \/ Destroy(c)
    \/ \E th \in Threads : Inside(th)
    \/ \E t \in Tasks : TaskStep(t) \/ DestroyTask(t)
    \/ OwnerStep

Spec == Init /\ [][Next]_vars

(* Threads inside the manager, the Owner's looper, the tasks' threads and  *)
(* the loopers of their owners are scheduled; nobody has to call.          *)
FairSpec ==
    /\ Spec
    /\ \A th \in Threads : WF_vars(Inside(th))
    /\ \A c \in Clients : WF_vars(Cancel(c))
    /\ WF_vars(OwnerStep)
    /\ \A t \in Tasks : WF_vars(TaskStep(t))

------------------------------------------------------------------------------
TypeOK ==
    /\ gone \in BOOLEAN
    /\ fate \in {"alive", "unstarted", "asserted", "wild"}
    /\ ready \in [Pri -> Seq(Tasks)]
    /\ run \in SUBSET Tasks
    /\ tag \in [Tasks -> BOOLEAN]
    /\ listening \in [Tasks -> BOOLEAN]
    /\ refs \in [Tasks -> Nat]
    /\ lost \in SUBSET Tasks
    /\ created \in [Tasks -> BOOLEAN]
    /\ tstate \in [Tasks -> {"READY", "STARTED", "CANCELLING", "CANCELLED", "DONE"}
                            \union Terminated]
    /\ started \in [Tasks -> BOOLEAN]
    /\ told \in [Tasks -> BOOLEAN]
    /\ mail \in Seq(Messages)
    /\ seen \in [ready : Nat, run : Nat]
    /\ pc \in [Threads -> {"idle", "balance", "start", "cancel", "remove", "put", "destroy"}]
    /\ job \in [Threads -> Tasks \union {None}]

Count(b) == IF b THEN 1 ELSE 0
Mailed(m) == \E k \in 1 .. Len(mail) : mail[k] = m

(* The reference count is exactly the creator's reference, the manager's,  *)
(* held while the task is in a queue and until the step after its removal, *)
(* that of the message that tells the manager of the end, and the manager's *)
(* reference to a task that was cancelled while it waited, which nobody    *)
(* drops.                                                                  *)
RefsExact ==
    \A t \in Tasks :
        refs[t] = Count(created[t])
                  + Count(t \in Waiting \union run \/ (pc[Owner] = "put" /\ job[Owner] = t))
                  + Count(Mailed(PutLater(t)))
                  + Count(t \in lost)

(* A freed task is in no queue, no message and no call under way, except   *)
(* for the start that a cancel has overtaken (see StartAccepted) and the   *)
(* queue event that it has left, which takes no reference.                 *)
FreedIsUnreferenced ==
    \A t \in Tasks : refs[t] = 0 =>
        /\ t \notin Waiting \union run
        /\ \A th \in Threads : job[th] = t => pc[th] = "start"
        /\ \A k \in 1 .. Len(mail) : mail[k].task = t => mail[k].type = "left"

(* No more user functions run at a time than there are slots, although     *)
(* threads start and end outside q_lock.                                   *)
SlotsRespected ==
    Cardinality({t \in Tasks : started[t] /\ tstate[t] \in {"STARTED", "CANCELLING"}}) <= Slots

(* What balance_taskq, task_event_on_finished and remove_task_from_runq    *)
(* assert: a waiting task is READY and has its tag; when the end of a task *)
(* reaches the Owner, the task is in a slot, has its tag and its listener, *)
(* which the message points to.                                            *)
EndFindsTask ==
    /\ \A t \in Waiting : tag[t] /\ tstate[t] = "READY"
    /\ \A t \in Tasks : Mailed(Finished(t)) => t \in run /\ tag[t] /\ listening[t]

(* Nobody forgets a free slot: as many waiting tasks as have a free slot   *)
(* are matched by threads on their way to balance_taskq.                   *)
WorkConserving ==
    LET coming == Cardinality({th \in Threads : pc[th] \in {"balance", "put"}})
    IN  coming >= Cardinality(Waiting) \/ coming + Cardinality(run) >= Slots

(* Queue events are posted in the order of the changes they report: the    *)
(* last one always carries the present sizes.                              *)
LastEventIsCurrent == seen = [ready |-> Cardinality(Waiting), run |-> Cardinality(run)]

(* A manager that is destroyed has no task, nobody is inside but the Owner *)
(* on its way out, and no message still to come leads there; only that     *)
(* Owner ever uses it (see NobodyUsesFreed).                               *)
DestroyedIsUnused ==
    /\ gone => /\ run = {} /\ Waiting = {}
               /\ \A c \in Clients : pc[c] = "idle"
               /\ pc[Owner] \in {"idle", "put", "balance"}
               /\ \A t \in Tasks : ~Mailed(Finished(t)) /\ ~listening[t]
    /\ fate = "wild" => gone /\ pc[Owner] = "balance"

(* The books of the tasks: types, references, and what the end of a task   *)
(* and the destruction of the manager take for granted.                    *)
TasksAccounted ==
    TypeOK /\ RefsExact /\ FreedIsUnreferenced /\ EndFindsTask /\ DestroyedIsUnused

(* Slots are neither exceeded nor left empty. *)
SlotsUsedWell == SlotsRespected /\ WorkConserving

(* A task that waits is eventually started or cancelled. *)
Served == \A t \in Tasks : (t \in Waiting) ~> (tstate[t] # "READY" \/ fate = "unstarted")

------------------------------------------------------------------------------
(* What fatal2 in balance_taskq takes for granted: the task that got a     *)
(* slot can be started.                                                    *)
StartAccepted == fate # "unstarted"

(* What the comment on ytaskmanager_destroy takes for granted: whoever     *)
(* waits until the lock is free waits for everybody who will use it.       *)
NobodyUsesFreed == fate # "wild"

==============================================================================
