------------------------------ MODULE Threadex -------------------------------
(***************************************************************************)
(* threadex.c: one background thread object, the threads that call it, the *)
(* thread it creates and the message handler that owns it.                 *)
(*                                                                         *)
(* Callbacks are never run by the thread that causes them: they are posted *)
(* to the owner's message queue (all with the same priority, so the queue  *)
(* is a FIFO) and run there one at a time.  The state is written under a   *)
(* mutex by callers and by the background thread, but read without it and  *)
(* written without it by the owner.                                        *)
(***************************************************************************)
EXTENDS Naturals, Sequences, FiniteSets

CONSTANTS
    Callers,        \* threads that call start, start_sync, cancel, join, destroy
    Free,           \* value of the mutex when nobody holds it
    MaxProgress,    \* bound on the progress a run publishes
    QuietDestroy    \* TRUE: destroy is called while no other call is under way

ASSUME ThreadexAssumption ==
    /\ Free \notin Callers
    /\ MaxProgress \in Nat
    /\ QuietDestroy \in BOOLEAN

VARIABLES
    alive,      \* the object exists
    state,      \* enum ythreadex_state
    lock,       \* holder of the state mutex: a caller or Free
    begun,      \* a start is under way or has succeeded (for the contract)
    thread,     \* the handle that pthread_create stores
    mq,         \* messages in the owner's queue
    cpc,        \* position of each caller
    wpc,        \* position of the background thread
    posted,     \* progress published so far
    opc,        \* what the owner still has to do for the message it handles
    cbs,        \* lifecycle callbacks the listener has heard, in order
    nprog       \* progress callbacks the listener has heard

vars == <<alive, state, lock, begun, thread, mq, cpc, wpc, posted, opc, cbs, nprog>>

States == {"READY", "STARTED", "CANCELLING", "CANCELLED", "DONE",
           "TERMINATED", "TERMINATED_CANCELLED"}
Terminated == {"TERMINATED", "TERMINATED_CANCELLED"}

(* started tells an on_cancelling message whether the thread was started. *)
Messages == {"started", "progress", "cancelling_ready", "cancelling_started",
             "cancelled", "done"}

Post(m) == mq' = Append(mq, m)

Goto(c, pos) == cpc' = [cpc EXCEPT ![c] = pos]

------------------------------------------------------------------------------
Init ==
    /\ alive = TRUE
    /\ state = "READY"
    /\ lock = Free
    /\ begun = FALSE
    /\ thread = FALSE
    /\ mq = <<>>
    /\ cpc = [c \in Callers |-> "idle"]
    /\ wpc = "none"
    /\ posted = 0
    /\ opc = "idle"
    /\ cbs = <<>>
    /\ nprog = 0

(* ythreadex_start: takes the mutex and claims the thread.  A start in any *)
(* other state returns -EPERM and changes nothing.                         *)
StartLock(c) ==
    /\ alive
    /\ cpc[c] = "idle"
    /\ lock = Free
    /\ state = "READY"
    /\ lock' = c
    /\ state' = "STARTED"
    /\ begun' = TRUE
    /\ Goto(c, "create")
    /\ UNCHANGED <<alive, thread, mq, wpc, posted, opc, cbs, nprog>>

(* A defect: the mutex is released before on_started is posted. *)
CreateUnlocked(c) ==
    /\ cpc[c] = "create"
    /\ wpc' = "main"
    /\ thread' = TRUE
    /\ lock' = Free
    /\ Goto(c, "post")
    /\ UNCHANGED <<alive, state, begun, mq, posted, opc, cbs, nprog>>

(* pthread_create succeeds: the new thread runs at once, while the caller  *)
(* still holds the mutex and has not posted on_started.                    *)
CreateThread(c) ==
    /\ cpc[c] = "create"
    /\ wpc' = "main"
    /\ thread' = TRUE
    /\ Goto(c, "post")
    /\ UNCHANGED <<alive, state, lock, begun, mq, posted, opc, cbs, nprog>>

(* pthread_create fails: back to READY. *)
CreateFails(c) ==
    /\ cpc[c] = "create"
    /\ state' = "READY"
    /\ begun' = FALSE
    /\ lock' = Free
    /\ Goto(c, "idle")
    /\ UNCHANGED <<alive, thread, mq, wpc, posted, opc, cbs, nprog>>

PostStarted(c) ==
    /\ cpc[c] = "post"
    /\ Post("started")
    /\ Goto(c, "unlock")
    /\ UNCHANGED <<alive, state, lock, begun, thread, wpc, posted, opc, cbs, nprog>>

Unlock(c) ==
    /\ cpc[c] = "unlock"
    /\ lock' = Free
    /\ Goto(c, "idle")
    /\ UNCHANGED <<alive, state, begun, thread, mq, wpc, posted, opc, cbs, nprog>>

(* ythreadex_start_sync: the same without a new thread; the caller runs    *)
(* thread_main itself after it has released the mutex.                     *)
StartSync(c) ==
    /\ alive
    /\ cpc[c] = "idle"
    /\ lock = Free
    /\ state = "READY"
    /\ lock' = c
    /\ state' = "STARTED"
    /\ begun' = TRUE
    /\ Post("started")
    /\ Goto(c, "unlock_sync")
    /\ UNCHANGED <<alive, thread, wpc, posted, opc, cbs, nprog>>

RunSync(c) ==
    /\ cpc[c] = "unlock_sync"
    /\ lock' = Free
    /\ wpc' = "main"
    /\ Goto(c, "sync")
    /\ UNCHANGED <<alive, state, begun, thread, mq, posted, opc, cbs, nprog>>

SyncReturns(c) ==
    /\ cpc[c] = "sync"
    /\ wpc = "end"
    /\ Goto(c, "idle")
    /\ UNCHANGED <<alive, state, lock, begun, thread, mq, wpc, posted, opc, cbs, nprog>>

(* ythreadex_cancel: changes the state and posts on_cancelling under the   *)
(* mutex.  In any state but READY and STARTED it returns -EPERM.           *)
CancelLock(c) ==
    /\ alive
    /\ cpc[c] = "idle"
    /\ lock = Free
    /\ \/ state = "READY" /\ Post("cancelling_ready")
       \/ state = "STARTED" /\ Post("cancelling_started")
    /\ state' = "CANCELLING"
    /\ lock' = c
    /\ Goto(c, "unlock")
    /\ UNCHANGED <<alive, begun, thread, wpc, posted, opc, cbs, nprog>>

(* ythreadex_join: refused in READY and without a thread handle; one       *)
(* caller joins, as POSIX demands.                                         *)
Join(c) ==
    /\ alive
    /\ cpc[c] = "idle"
    /\ state # "READY"
    /\ thread
    /\ \A d \in Callers : cpc[d] \notin {"join", "joined"}
    /\ Goto(c, "join")
    /\ UNCHANGED <<alive, state, lock, begun, thread, mq, wpc, posted, opc, cbs, nprog>>

JoinReturns(c) ==
    /\ cpc[c] = "join"
    /\ wpc = "end"
    /\ Goto(c, "joined")
    /\ thread' = FALSE      \* the handle may not be joined again
    /\ UNCHANGED <<alive, state, lock, begun, mq, wpc, posted, opc, cbs, nprog>>

Joined(c) ==
    /\ cpc[c] = "joined"
    /\ Goto(c, "idle")
    /\ UNCHANGED <<alive, state, lock, begun, thread, mq, wpc, posted, opc, cbs, nprog>>

(* ythreadex_destroy: refused unless the state is terminated. *)
Destroy(c) ==
    /\ alive
    /\ cpc[c] = "idle"
    /\ QuietDestroy => \A d \in Callers : cpc[d] = "idle"
    /\ state \in Terminated
    /\ alive' = FALSE
    /\ UNCHANGED <<state, lock, begun, thread, mq, cpc, wpc, posted, opc, cbs, nprog>>

(* ythreadex_create of the next object. *)
Create(c) ==
    /\ ~alive
    /\ cpc[c] = "idle"
    /\ lock = Free
    /\ alive' = TRUE
    /\ state' = "READY"
    /\ begun' = FALSE
    /\ thread' = FALSE
    /\ wpc' = "none"
    /\ posted' = 0
    /\ cbs' = <<>>
    /\ nprog' = 0
    /\ UNCHANGED <<lock, mq, cpc, opc>>

------------------------------------------------------------------------------
(* thread_main: reads the state without the mutex and runs the user's      *)
(* function, unless the thread has been cancelled already.                 *)
Main ==
    /\ wpc = "main"
    /\ wpc' = IF state = "STARTED" THEN "run" ELSE "cleanup"
    /\ UNCHANGED <<alive, state, lock, begun, thread, mq, cpc, posted, opc, cbs, nprog>>

(* ythreadex_publish_progress(_init), called by the user's function: the   *)
(* state is checked without the mutex ...                                  *)
PublishCheck ==
    /\ wpc = "run"
    /\ state = "STARTED"
    /\ posted < MaxProgress
    /\ wpc' = "publish"
    /\ UNCHANGED <<alive, state, lock, begun, thread, mq, cpc, posted, opc, cbs, nprog>>

(* A defect: the progress is posted twice. *)
PublishTwice ==
    /\ wpc = "publish"
    /\ mq' = mq \o <<"progress", "progress">>
    /\ posted' = posted + 1
    /\ wpc' = "run"
    /\ UNCHANGED <<alive, state, lock, begun, thread, cpc, opc, cbs, nprog>>

(* ... and the progress is posted later. *)
PublishPost ==
    /\ wpc = "publish"
    /\ Post("progress")
    /\ posted' = posted + 1
    /\ wpc' = "run"
    /\ UNCHANGED <<alive, state, lock, begun, thread, cpc, opc, cbs, nprog>>

RunReturns ==
    /\ wpc = "run"
    /\ wpc' = "cleanup"
    /\ UNCHANGED <<alive, state, lock, begun, thread, mq, cpc, posted, opc, cbs, nprog>>

(* thread_main_cleanup: decides under the mutex ... *)
Cleanup ==
    /\ wpc = "cleanup"
    /\ lock = Free
    /\ \/ state = "CANCELLING" /\ state' = "CANCELLED" /\ wpc' = "post_cancelled"
       \/ state # "CANCELLING" /\ state' = "DONE" /\ wpc' = "post_done"
    /\ UNCHANGED <<alive, lock, begun, thread, mq, cpc, posted, opc, cbs, nprog>>

(* A defect: the outcome overtakes the progress in the queue. *)
CleanupPostUrgent ==
    /\ \/ wpc = "post_cancelled" /\ mq' = <<"cancelled">> \o mq
       \/ wpc = "post_done" /\ mq' = <<"done">> \o mq
    /\ wpc' = "end"
    /\ UNCHANGED <<alive, state, lock, begun, thread, cpc, posted, opc, cbs, nprog>>

(* ... and posts the outcome after releasing it. *)
CleanupPost ==
    /\ \/ wpc = "post_cancelled" /\ Post("cancelled")
       \/ wpc = "post_done" /\ Post("done")
    /\ wpc' = "end"
    /\ UNCHANGED <<alive, state, lock, begun, thread, cpc, posted, opc, cbs, nprog>>

------------------------------------------------------------------------------
Hear(cb) == cbs' = Append(cbs, cb)

(* on_started, on_progress(_init) and on_cancelling of a started thread    *)
(* call the listener and are done.                                         *)
OnStarted ==
    /\ opc = "idle"
    /\ mq # <<>>
    /\ Head(mq) = "started"
    /\ mq' = Tail(mq)
    /\ Hear("started")
    /\ UNCHANGED <<alive, state, lock, begun, thread, cpc, wpc, posted, opc, nprog>>

OnProgress ==
    /\ opc = "idle"
    /\ mq # <<>>
    /\ Head(mq) = "progress"
    /\ mq' = Tail(mq)
    /\ nprog' = nprog + 1
    /\ UNCHANGED <<alive, state, lock, begun, thread, cpc, wpc, posted, opc, cbs>>

(* A defect: the owner finishes no cancelled thread. *)
OnCancellingNone ==
    /\ opc = "idle"
    /\ mq # <<>>
    /\ Head(mq) \in {"cancelling_ready", "cancelling_started"}
    /\ mq' = Tail(mq)
    /\ Hear("cancelling")
    /\ UNCHANGED <<alive, state, lock, begun, thread, cpc, wpc, posted, opc, nprog>>

OnCancelling ==
    /\ opc = "idle"
    /\ mq # <<>>
    /\ Head(mq) \in {"cancelling_ready", "cancelling_started"}
    /\ mq' = Tail(mq)
    /\ Hear("cancelling")
    /\ opc' = IF Head(mq) = "cancelling_ready" THEN "cancelling" ELSE "idle"
    /\ UNCHANGED <<alive, state, lock, begun, thread, cpc, wpc, posted, nprog>>

(* on_cancelling of a thread that was never started: nobody else will ever *)
(* finish it, so the owner does, without the mutex.                        *)
FinishCancelling ==
    /\ opc = "cancelling"
    /\ state' = "CANCELLED"
    /\ Post("cancelled")
    /\ opc' = "idle"
    /\ UNCHANGED <<alive, lock, begun, thread, cpc, wpc, posted, cbs, nprog>>

(* A defect: the final state is written before the listener is called. *)
OnEndEarly ==
    /\ opc = "idle"
    /\ mq # <<>>
    /\ Head(mq) \in {"cancelled", "done"}
    /\ mq' = Tail(mq)
    /\ Hear(Head(mq))
    /\ opc' = Head(mq)
    /\ state' = IF Head(mq) = "done" THEN "TERMINATED" ELSE "TERMINATED_CANCELLED"
    /\ UNCHANGED <<alive, lock, begun, thread, cpc, wpc, posted, nprog>>

(* on_done and on_cancelled call the listener first ... *)
OnEnd ==
    /\ opc = "idle"
    /\ mq # <<>>
    /\ Head(mq) \in {"cancelled", "done"}
    /\ mq' = Tail(mq)
    /\ Hear(Head(mq))
    /\ opc' = Head(mq)
    /\ UNCHANGED <<alive, state, lock, begun, thread, cpc, wpc, posted, nprog>>

(* ... and write the final state after it returns, without the mutex. *)
FinishEnd ==
    /\ opc \in {"cancelled", "done"}
    /\ state' = IF opc = "done" THEN "TERMINATED" ELSE "TERMINATED_CANCELLED"
    /\ opc' = "idle"
    /\ UNCHANGED <<alive, lock, begun, thread, mq, cpc, wpc, posted, cbs, nprog>>

------------------------------------------------------------------------------
(* Steps that finish a call a caller has begun. *)
CallProgress(c) ==
    \/ CreateThread(c) \/ CreateFails(c) \/ PostStarted(c) \/ Unlock(c)
    \/ RunSync(c) \/ SyncReturns(c)
    \/ JoinReturns(c) \/ Joined(c)

Caller(c) ==
    \/ StartLock(c) \/ StartSync(c) \/ CancelLock(c) \/ Join(c)
    \/ CallProgress(c)
    \/ Destroy(c) \/ Create(c)

Worker == Main \/ PublishCheck \/ PublishPost \/ RunReturns \/ Cleanup \/ CleanupPost

Owner == OnStarted \/ OnProgress \/ OnCancelling \/ FinishCancelling \/ OnEnd \/ FinishEnd

Next == (\E c \in Callers : Caller(c)) \/ Worker \/ Owner

Spec == Init /\ [][Next]_vars

(* A thread inside a call, the background thread (whose user function      *)
(* returns) and the owner's looper are scheduled; nobody has to call.      *)
FairSpec ==
    /\ Spec
    /\ \A c \in Callers : WF_vars(CallProgress(c))
    /\ WF_vars(Worker)
    /\ WF_vars(Owner)

------------------------------------------------------------------------------
TypeOK ==
    /\ alive \in BOOLEAN
    /\ state \in States
    /\ lock \in Callers \union {Free}
    /\ begun \in BOOLEAN
    /\ thread \in BOOLEAN
    /\ mq \in Seq(Messages)
    /\ cpc \in [Callers -> {"idle", "create", "post", "unlock", "unlock_sync",
                            "sync", "join", "joined"}]
    /\ wpc \in {"none", "main", "run", "publish", "cleanup", "post_cancelled",
                "post_done", "end"}
    /\ posted \in 0 .. MaxProgress
    /\ opc \in {"idle", "cancelling", "cancelled", "done"}
    /\ cbs \in Seq({"started", "cancelling", "cancelled", "done"})
    /\ nprog \in 0 .. MaxProgress

(* The states that thread_main and thread_main_cleanup assert: whatever    *)
(* the callers and the owner do, a running background thread only ever     *)
(* finds STARTED or CANCELLING.                                            *)
AssertedStates ==
    wpc \in {"main", "run", "publish", "cleanup"} => state \in {"STARTED", "CANCELLING"}

(* The result and the error code may be read in DONE, CANCELLED and the    *)
(* terminated states: the user's function that writes them is over, and so *)
(* it is when the listener gets them as arguments.                         *)
ResultStable ==
    (\/ state \in {"DONE", "CANCELLED"} \union Terminated
     \/ opc \in {"cancelled", "done"})
       => wpc \in {"none", "post_cancelled", "post_done", "end"}

(* A threadex that may be destroyed, or is, is referred to by no message   *)
(* of the owner's queue, no handler and no step of the background thread.  *)
NoDanglingReference ==
    (~alive \/ state \in Terminated) => mq = <<>> /\ opc = "idle" /\ wpc \in {"none", "end"}

(* When join returns, the outcome is decided and its callback is on the    *)
(* way or over.                                                            *)
JoinSeesOutcome ==
    (\E c \in Callers : cpc[c] = "joined")
       => /\ state \in {"DONE", "CANCELLED"} \union Terminated
          /\ \E m \in {"cancelled", "done"} :
                \/ \E k \in 1 .. Len(mq) : mq[k] = m
                \/ \E k \in 1 .. Len(cbs) : cbs[k] = m

(* What the code relies on between its threads without a lock: the states  *)
(* it asserts, a stable result, no use after the destruction, and what a   *)
(* join promises.                                                          *)
ThreadsAgree ==
    /\ TypeOK
    /\ AssertedStates
    /\ ResultStable
    /\ NoDanglingReference
    /\ JoinSeesOutcome

(* Every progress that was published is heard exactly once: it is heard or *)
(* still in the owner's queue, whatever becomes of the thread meanwhile.   *)
ProgressAt == {k \in 1 .. Len(mq) : mq[k] = "progress"}

ProgressExact == posted = nprog + Cardinality(ProgressAt)

(* The documented state diagram and the three documented sequences of      *)
(* callbacks, across all threads.                                          *)
Contract == INSTANCE ThreadexLifecycle WITH
                state <- IF alive THEN state ELSE "NONE"

ImplementsLifecycle == Contract!Spec

(* The listener hears no progress after it has heard the end, although     *)
(* progress is checked and posted without the mutex.                       *)
ProgressBeforeEnd ==
    [][nprog' = nprog + 1 =>
          \A k \in 1 .. Len(cbs) : cbs[k] \notin {"cancelled", "done"}]_vars

(* A thread that runs, and a cancel that was accepted, always end: the     *)
(* final callback is delivered and the object may be destroyed.            *)
AlwaysEnds ==
    /\ (wpc = "main") ~> (state \in Terminated)
    /\ (state = "CANCELLING") ~> (state = "TERMINATED_CANCELLED")

(* What destroy_state_lock demands: pthread_mutex_destroy must not find    *)
(* the mutex held.                                                         *)
DestroyFindsLockFree == [][alive /\ ~alive' => lock = Free]_vars

==============================================================================
