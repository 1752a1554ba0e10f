------------------------------ MODULE MsgLooper ------------------------------
(***************************************************************************)
(* msglooper.c with the handlers of msghandler.c: a looper thread and the  *)
(* thread that starts it, the threads that stop it, and the handlers whose *)
(* event fds it watches.                                                   *)
(*                                                                         *)
(* The state of the looper is an atomic that the looper and the stopping   *)
(* threads write; the control eventfd only wakes the looper up.  epoll is  *)
(* level triggered: epoll_wait returns every watched fd that is readable.  *)
(* The messages of a handler are the tokens of its eventfd (see MsgQueue). *)
(***************************************************************************)
EXTENDS Integers, FiniteSets

CONSTANTS
    Handlers,       \* handlers, with one fd and one event data each
    Stoppers,       \* threads that call ymsglooper_stop
    Ctl,            \* the control fd of the looper
    MaxPosts        \* bound on the messages posted

ASSUME MsgLooperAssumption ==
    /\ Ctl \notin Handlers
    /\ MaxPosts \in Nat

VARIABLES
    start,      \* position of the starting thread
    result,     \* looper_thread_share.result: 0, 1 or -1 (error)
    state,      \* enum ymsglooper_state, "NONE" before it is created
    lpc,        \* position of the looper thread
    batch,      \* fds of the current epoll_wait whose callback is due
    tokens,     \* counters of the eventfds
    watched,    \* fds registered with epoll
    evds,       \* handlers whose event data exists
    alive,      \* handlers that exist
    posts,      \* messages posted so far
    spc,        \* position of each stopping thread
    failed,     \* a write to the control fd has failed
    gone        \* the looper is destroyed

vars == <<start, result, state, lpc, batch, tokens, watched, evds, alive, posts, spc, failed, gone>>
startVars == <<start, result>>
handlerVars == <<watched, evds, alive>>

Fds == Handlers \union {Ctl}
Readable == {f \in watched : tokens[f] > 0}

(* Callers got the looper from ymsglooper_start_looper_thread. *)
Usable == start = "done" /\ ~gone

Goto(s, pos) == spc' = [spc EXCEPT ![s] = pos]

------------------------------------------------------------------------------
Init ==
    /\ start = "init"
    /\ result = 0
    /\ state = "NONE"
    /\ lpc = "none"
    /\ batch = {}
    /\ tokens = [f \in Fds |-> 0]
    /\ watched = {}
    /\ evds = {}
    /\ alive = {}
    /\ posts = 0
    /\ spc = [s \in Stoppers |-> "idle"]
    /\ failed = FALSE
    /\ gone = FALSE

(* ymsglooper_start_looper_thread: creates the thread ... *)
StartThread ==
    /\ start = "init"
    /\ start' = "lock"
    /\ lpc' = "create"
    /\ UNCHANGED <<result, state, batch, tokens, handlerVars, posts, spc, failed, gone>>

(* ... and waits for its report, unless it is there already. *)
StartWait ==
    /\ start = "lock"
    /\ start' = IF result = 0 THEN "wait" ELSE "awake"
    /\ UNCHANGED <<result, state, lpc, batch, tokens, handlerVars, posts, spc, failed, gone>>

(* pthread_cond_wait may return without a broadcast; the code waits once.  *)
StartSpurious ==
    /\ start = "wait"
    /\ start' = "awake"
    /\ UNCHANGED <<result, state, lpc, batch, tokens, handlerVars, posts, spc, failed, gone>>

StartReturn ==
    /\ start = "awake"
    /\ start' = IF result = 1 THEN "done" ELSE "failed"
    /\ UNCHANGED <<result, state, lpc, batch, tokens, handlerVars, posts, spc, failed, gone>>

(* looper_thread: ymsglooper_create ... *)
LooperCreate ==
    /\ lpc = "create"
    /\ state' = "READY"
    /\ watched' = {Ctl}
    /\ lpc' = "report"
    /\ UNCHANGED <<startVars, batch, tokens, evds, alive, posts, spc, failed, gone>>

LooperCreateFails ==
    /\ lpc = "create"
    /\ lpc' = "report"
    /\ UNCHANGED <<startVars, state, batch, tokens, handlerVars, posts, spc, failed, gone>>

(* ... reports to the starting thread under its mutex and wakes it up.     *)
LooperReport ==
    /\ lpc = "report"
    /\ result' = IF state = "NONE" THEN -1 ELSE 1
    /\ start' = IF start = "wait" THEN "awake" ELSE start
    /\ lpc' = IF state = "NONE" THEN "over" ELSE "enter"
    /\ UNCHANGED <<state, batch, tokens, handlerVars, posts, spc, failed, gone>>

(* ymsglooper_loop: compare and exchange READY by LOOP; a looper that was  *)
(* stopped before does not loop at all.                                    *)
Enter ==
    /\ lpc = "enter"
    /\ IF state = "READY"
       THEN state' = "LOOP" /\ lpc' = "wait"
       ELSE lpc' = "leave" /\ UNCHANGED state
    /\ UNCHANGED <<startVars, batch, tokens, handlerVars, posts, spc, failed, gone>>

(* epoll_wait blocks until a watched fd is readable. *)
Wait ==
    /\ lpc = "wait"
    /\ Readable # {}
    /\ batch' = Readable
    /\ lpc' = "batch"
    /\ UNCHANGED <<startVars, state, tokens, handlerVars, posts, spc, failed, gone>>

(* The callback of one event: looper_control empties the control eventfd,  *)
(* on_msgq_event takes one token and handles one message.  Both reads      *)
(* block on an eventfd without tokens.                                     *)
Callback(f) ==
    /\ lpc = "batch"
    /\ f \in batch
    /\ tokens[f] > 0
    /\ tokens' = [tokens EXCEPT ![f] = IF f = Ctl THEN 0 ELSE @ - 1]
    /\ batch' = batch \ {f}
    /\ UNCHANGED <<startVars, state, lpc, handlerVars, posts, spc, failed, gone>>

(* After the whole batch, one look at the state. *)
Check ==
    /\ lpc = "batch"
    /\ batch = {}
    /\ lpc' = IF state = "STOPPING" THEN "leave" ELSE "wait"
    /\ UNCHANGED <<startVars, state, batch, tokens, handlerVars, posts, spc, failed, gone>>

Leave ==
    /\ lpc = "leave"
    /\ state' = "TERMINATED"
    /\ lpc' = "over"
    /\ UNCHANGED <<startVars, batch, tokens, handlerVars, posts, spc, failed, gone>>

------------------------------------------------------------------------------
(* A defect: a running looper is not woken up. *)
StopReadyOnly(s) ==
    /\ Usable
    /\ spc[s] = "idle"
    /\ state' = "STOPPING"
    /\ Goto(s, CASE state = "READY" -> "write"
                 [] state \in {"LOOP", "STOPPING"} -> "idle"
                 [] state = "TERMINATED" -> "restore")
    /\ UNCHANGED <<startVars, lpc, batch, tokens, handlerVars, posts, failed, gone>>

(* ymsglooper_stop: exchanges the state by STOPPING whatever it was; the   *)
(* old state tells what is left to do.                                     *)
Stop(s) ==
    /\ Usable
    /\ spc[s] = "idle"
    /\ state' = "STOPPING"
    /\ Goto(s, CASE state \in {"READY", "LOOP"} -> "write"
                 [] state = "STOPPING" -> "idle"
                 [] state = "TERMINATED" -> "restore")
    /\ UNCHANGED <<startVars, lpc, batch, tokens, handlerVars, posts, failed, gone>>

StopWrite(s) ==
    /\ spc[s] = "write"
    /\ tokens' = [tokens EXCEPT ![Ctl] = @ + 1]
    /\ Goto(s, "idle")
    /\ UNCHANGED <<startVars, state, lpc, batch, handlerVars, posts, failed, gone>>

(* The write fails: the looper is declared to be looping, whatever it has  *)
(* done in the meantime.                                                   *)
StopWriteFails(s) ==
    /\ spc[s] = "write"
    /\ state' = "LOOP"
    /\ failed' = TRUE
    /\ Goto(s, "idle")
    /\ UNCHANGED <<startVars, lpc, batch, tokens, handlerVars, posts, gone>>

(* A defect: the state is not put back. *)
StopNoRestore(s) ==
    /\ spc[s] = "restore"
    /\ Goto(s, "idle")
    /\ UNCHANGED <<startVars, state, lpc, batch, tokens, handlerVars, posts, failed, gone>>

StopRestore(s) ==
    /\ spc[s] = "restore"
    /\ state' = "TERMINATED"
    /\ Goto(s, "idle")
    /\ UNCHANGED <<startVars, lpc, batch, tokens, handlerVars, posts, failed, gone>>

------------------------------------------------------------------------------
(* A defect: a handler whose fd epoll does not watch. *)
CreateHandlerUnwatched(h) ==
    /\ Usable
    /\ h \notin alive \union evds
    /\ alive' = alive \union {h}
    /\ evds' = evds \union {h}
    /\ UNCHANGED <<startVars, state, lpc, batch, tokens, watched, posts, spc, failed, gone>>

(* ymsghandler_create: the queue's eventfd is added to the looper. *)
CreateHandler(h) ==
    /\ Usable
    /\ h \notin alive \union evds
    /\ alive' = alive \union {h}
    /\ watched' = watched \union {h}
    /\ evds' = evds \union {h}
    /\ UNCHANGED <<startVars, state, lpc, batch, tokens, posts, spc, failed, gone>>

(* A message is posted: one token, see MsgQueue. *)
Post(h) ==
    /\ h \in alive
    /\ posts < MaxPosts
    /\ posts' = posts + 1
    /\ tokens' = [tokens EXCEPT ![h] = @ + 1]
    /\ UNCHANGED <<startVars, state, lpc, batch, handlerVars, spc, failed, gone>>

(* ymsglooper_del_fd: frees the event data.  It does not take the fd out   *)
(* of epoll: the caller has closed it, and does not delete an fd of which  *)
(* an event is due.                                                        *)
DelFd(h) ==
    /\ Usable
    /\ h \in evds
    /\ h \notin batch
    /\ evds' = evds \ {h}
    /\ watched' = watched \ {h}
    /\ UNCHANGED <<startVars, state, lpc, batch, tokens, alive, posts, spc, failed, gone>>

(* A defect: the state of the looper is not looked at. *)
DestroyHandlerAnyTime(h) ==
    /\ ~gone
    /\ h \in alive
    /\ alive' = alive \ {h}
    /\ watched' = watched \ {h}
    /\ tokens' = [tokens EXCEPT ![h] = 0]
    /\ UNCHANGED <<startVars, state, lpc, batch, evds, posts, spc, failed, gone>>

(* ymsghandler_destroy: refused unless the looper is TERMINATED; closes    *)
(* the fd and drops the messages, but the event data stays.                *)
DestroyHandler(h) ==
    /\ ~gone
    /\ h \in alive
    /\ state = "TERMINATED"
    /\ alive' = alive \ {h}
    /\ watched' = watched \ {h}
    /\ tokens' = [tokens EXCEPT ![h] = 0]
    /\ UNCHANGED <<startVars, state, lpc, batch, evds, posts, spc, failed, gone>>

(* ymsglooper_destroy: refused unless TERMINATED; called after the         *)
(* handlers are destroyed and no stop is under way.                        *)
Destroy ==
    /\ Usable
    /\ alive = {}
    /\ \A s \in Stoppers : spc[s] = "idle"
    /\ state = "TERMINATED"
    /\ evds' = {}
    /\ gone' = TRUE
    /\ UNCHANGED <<startVars, state, lpc, batch, tokens, watched, alive, posts, spc, failed>>

------------------------------------------------------------------------------
Starter == StartThread \/ StartWait \/ StartReturn

Looper ==
    \/ LooperCreate \/ LooperCreateFails \/ LooperReport
    \/ Enter \/ Wait \/ Check \/ Leave
    \/ \E f \in Fds : Callback(f)

StopGoesOn(s) == StopWrite(s) \/ StopWriteFails(s) \/ StopRestore(s)

Next ==
    \/ Starter \/ StartSpurious
    \/ Looper
    \/ \E s \in Stoppers : Stop(s) \/ StopGoesOn(s)
    \/ \E h \in Handlers : CreateHandler(h) \/ Post(h) \/ DelFd(h) \/ DestroyHandler(h)
    \/ Destroy

Spec == Init /\ [][Next]_vars

(* The threads are scheduled, and user callbacks return; nobody has to     *)
(* call, and no wait has to end by itself.                                 *)
FairSpec ==
    /\ Spec
    /\ WF_vars(Starter)
    /\ WF_vars(Looper)
    /\ \A s \in Stoppers : WF_vars(StopGoesOn(s))

------------------------------------------------------------------------------
TypeOK ==
    /\ start \in {"init", "lock", "wait", "awake", "done", "failed"}
    /\ result \in {-1, 0, 1}
    /\ state \in {"NONE", "READY", "LOOP", "STOPPING", "TERMINATED"}
    /\ lpc \in {"none", "create", "report", "enter", "wait", "batch", "leave", "over"}
    /\ batch \in SUBSET Fds
    /\ tokens \in [Fds -> Nat]
    /\ watched \in SUBSET Fds
    /\ evds \in SUBSET Handlers
    /\ alive \in SUBSET Handlers
    /\ posts \in 0 .. MaxPosts
    /\ spc \in [Stoppers -> {"idle", "write", "restore"}]
    /\ failed \in BOOLEAN
    /\ gone \in BOOLEAN

(* Whoever sees TERMINATED may free the handlers and the looper: the       *)
(* looper thread has left its loop and calls nobody, although stopping     *)
(* threads write the state too.                                            *)
TerminatedIsOver == state = "TERMINATED" => lpc = "over"

(* A callback that is due finds a token in its eventfd: the looper never   *)
(* blocks in a read, where no stop would reach it.                         *)
CallbackNeverBlocks == \A f \in batch : tokens[f] > 0

(* No callback that is due belongs to a destroyed handler. *)
CallbackFindsHandler == lpc # "over" => batch \ {Ctl} \subseteq alive

(* Every callback that is due may be made: the two above. *)
CallbackIsSafe == TypeOK /\ CallbackNeverBlocks /\ CallbackFindsHandler

(* A looper told to stop does not sleep on: the wake-up is in the control  *)
(* eventfd or about to be written.                                         *)
StopWakesLooper ==
    lpc = "wait" /\ state = "STOPPING" =>
        tokens[Ctl] > 0 \/ \E s \in Stoppers : spc[s] = "write"

(* When the looper is over and no stop is under way, destroy is accepted:  *)
(* a late stop leaves no other state behind, unless its write failed.      *)
OverIsTerminated ==
    (~failed /\ lpc = "over" /\ state # "NONE" /\ \A s \in Stoppers : spc[s] = "idle")
        => state = "TERMINATED"

(* TERMINATED is reached, and means what its readers take it for, whatever *)
(* stopping threads write over it.                                         *)
StopIsSafe == TerminatedIsOver /\ StopWakesLooper /\ OverIsTerminated

(* Every stop ends the loop, unless its write fails. *)
StopEnds == (state = "STOPPING") ~> (state = "TERMINATED" \/ failed)

(* The starting thread gets its answer, whether the looper reports before  *)
(* or after it waits.                                                      *)
StarterReturns == (start = "lock") ~> (start \in {"done", "failed"})

(* Nobody waits for the looper for ever: the two above. *)
StartsAndStops == StopEnds /\ StarterReturns

(* The messages to a handler are handled unless the looper ends, whatever  *)
(* stops fail in the meantime.                                             *)
PostedIsHandled ==
    \A h \in Handlers :
        (h \in evds /\ tokens[h] > 0) ~> (tokens[h] = 0 \/ h \notin evds \/ lpc = "over")

==============================================================================
