----------------------------- MODULE TaskEvents ------------------------------
(***************************************************************************)
(* task.c on top of threadex.c: the event listeners of one task.           *)
(*                                                                         *)
(* The background thread posts events to the task's owner; the owner's     *)
(* looper walks the listeners under elh_lock and posts, to the handler of  *)
(* each, the event and a message that drops the reference taken for it.    *)
(* Every listener has a looper of its own here.  DONE stands for both ends *)
(* of a task, and the object behind ygp is freed when refs is 0.           *)
(***************************************************************************)
EXTENDS Integers, FiniteSets, SequencesExt

CONSTANTS
    Listeners,      \* handles of struct ytask_event_listener_handle
    MaxProg         \* prog.max, the last progress of a run

ASSUME TaskEventsAssumption == IsFiniteSet(Listeners) /\ MaxProg \in Nat \ {0}

VARIABLES
    state,      \* state of the threadex part
    prog,       \* prog.prog; -1 while prog.max is 0
    ownq,       \* events for the owner
    list,       \* listener handles in the list elhhd
    freed,      \* handles that were freed
    adding,     \* handles between the two parts of add_event_listener2
    mail,       \* messages for each listener's handler
    refs,       \* gp.refcnt
    created,    \* the creator has not destroyed the task
    heard,      \* history: callbacks of each listener
    told,       \* history: events the owner has passed on
    joined,     \* history: how many of them before the listener was listed
    leaked,     \* history: references that nobody will drop
    hasty       \* history: handles removed before they heard of the end

vars == <<state, prog, ownq, list, freed, adding, mail, refs, created,
          heard, told, joined, leaked, hasty>>
progVars == <<state, prog, ownq>>
listVars == <<list, freed, adding>>
refVars == <<refs, created, leaked>>

Event(type, n) == [type |-> type, val |-> n]
Put == Event("put", 0)
Catch == Event("catch_up", 0)     \* notify_current_progress_to_new_listener

Init ==
    /\ state = "READY" /\ prog = -1 /\ ownq = <<>>
    /\ list = <<>> /\ freed = {} /\ adding = {}
    /\ mail = [l \in Listeners |-> <<>>]
    /\ refs = 1 /\ created = TRUE
    /\ heard = [l \in Listeners |-> <<>>]
    /\ told = <<>>
    /\ joined = [l \in Listeners |-> 0]
    /\ leaked = 0
    /\ hasty = {}

------------------------------------------------------------------------------
(* The background thread: a change of state or of the progress, and the    *)
(* event posted for it.                                                    *)
Say(from, to, p, ev) ==
    /\ state = from /\ state' = to
    /\ prog' = p
    /\ ownq' = Append(ownq, ev)
    /\ UNCHANGED <<listVars, mail, refVars, heard, told, joined, hasty>>

Start == created /\ Say("READY", "STARTED", prog, Event("started", 0))

PublishInit == prog = -1 /\ Say("STARTED", "STARTED", 0, Event("progress_init", MaxProg))

(* Equal progress is refused, greater progress is cut to prog.max.  (The   *)
(* interval never refuses: it compares microseconds with milliseconds.)    *)
Publish ==
    \E p \in 1 .. MaxProg :
        /\ prog # -1 /\ p > prog
        /\ Say("STARTED", "STARTED", p, Event("progress", p))

Ends == Say("STARTED", "DONE", prog, Event("done", 0))

(* A defect: no reference goes with an event. *)
TakenNone == 0

(* A defect: one reference too many is taken. *)
TakenOneMore == Len(list) + 1

Taken == Len(list)

(* A defect: a listener hears only when the call that added it is over. *)
HearersAdded == ToSet(list) \ adding

Hearers == ToSet(list)

(* The owner's looper: listener_stmt. *)
PassOn ==
    /\ ownq # <<>>
    /\ ownq' = Tail(ownq)
    /\ told' = Append(told, Head(ownq))
    /\ mail' = [l \in Listeners |-> IF l \in Hearers
                                    THEN mail[l] \o <<Head(ownq), Put>> ELSE mail[l]]
    /\ refs' = refs + Taken
    /\ UNCHANGED <<state, prog, listVars, created, leaked, heard, joined, hasty>>

(* It sets the final state when the listeners were told of the end. *)
Terminate ==
    /\ state = "DONE" /\ Event("done", 0) \in ToSet(told)
    /\ state' = "TERMINATED"
    /\ UNCHANGED <<prog, ownq, listVars, mail, refVars, heard, told, joined, hasty>>

------------------------------------------------------------------------------
(* ytask_add_event_listener2 by someone who holds the task: into the list  *)
(* under elh_lock ...                                                      *)
AddList(l) ==
    /\ created
    /\ l \notin ToSet(list) \union freed
    /\ list' = Append(list, l)
    /\ adding' = adding \union {l}
    /\ joined' = [joined EXCEPT ![l] = Len(told)]
    /\ UNCHANGED <<progVars, freed, mail, refVars, heard, told, hasty>>

(* ... then, without a lock, a message with the present progress if the    *)
(* task is running and the caller wants it.                                *)
AddCatchUp(l) ==
    /\ l \in adding
    /\ adding' = adding \ {l}
    /\ \/ UNCHANGED <<mail, refs>>
       \/ /\ prog # -1 /\ state = "STARTED"
          /\ mail' = [mail EXCEPT ![l] = Append(@, Catch)]
          /\ refs' = refs + 1
    /\ UNCHANGED <<progVars, list, freed, created, leaked, heard, told, joined, hasty>>

(* Dropping the last reference frees the task with its listeners. *)
Drop ==
    /\ refs' = refs - 1
    /\ IF refs = 1 THEN freed' = freed \union ToSet(list) /\ list' = <<>>
       ELSE UNCHANGED <<list, freed>>

(* task_put_runnable *)
HearPut(l) ==
    /\ mail[l] # <<>> /\ Head(mail[l]) = Put
    /\ mail' = [mail EXCEPT ![l] = Tail(@)]
    /\ Drop
    /\ UNCHANGED <<progVars, adding, created, leaked, heard, told, joined, hasty>>

(* on_..._runnable: the listener's callback. *)
HearEvent(l) ==
    /\ mail[l] # <<>> /\ Head(mail[l]) \notin {Put, Catch}
    /\ mail' = [mail EXCEPT ![l] = Tail(@)]
    /\ heard' = [heard EXCEPT ![l] = Append(@, Head(mail[l]))]
    /\ UNCHANGED <<progVars, listVars, refVars, told, joined, hasty>>

Running == state = "STARTED"

(* notify_current_progress_to_new_listener: a task that is no longer       *)
(* running is left without dropping the reference.                         *)
HearCatchUp(l) ==
    /\ mail[l] # <<>> /\ Head(mail[l]) = Catch
    /\ mail' = [mail EXCEPT ![l] = Tail(@)]
    /\ IF Running THEN Drop /\ UNCHANGED leaked
       ELSE leaked' = leaked + 1 /\ UNCHANGED <<refs, list, freed>>
    /\ UNCHANGED <<progVars, adding, created, heard, told, joined, hasty>>

(* ytask_remove_event_listener: unlinked, then freed. *)
Unlist(l) ==
    /\ list' = RemoveFirst(list, l)
    /\ freed' = freed \union {l}
    /\ UNCHANGED <<progVars, adding, mail, refVars, heard, told, joined>>

(* A listener that removes itself in its last callback, before the message *)
(* that drops its reference (task_event_on_finished of taskmanager.c).     *)
RemoveAtEnd(l) ==
    /\ l \in ToSet(list) \ adding
    /\ mail[l] # <<>> /\ Head(mail[l]) = Put
    /\ heard[l] # <<>> /\ Last(heard[l]).type = "done"
    /\ Unlist(l)
    /\ UNCHANGED hasty

(* ... and one that is removed while its events may be on their way. *)
RemoveEarly(l) ==
    /\ created
    /\ l \in ToSet(list) \ adding
    /\ Unlist(l)
    /\ hasty' = hasty \union {l}

(* ytask_destroy: refused before the task is terminated; called when the   *)
(* caller's own calls have returned.                                       *)
Destroy ==
    /\ created /\ adding = {}
    /\ state = "TERMINATED"
    /\ created' = FALSE
    /\ Drop
    /\ UNCHANGED <<progVars, adding, mail, leaked, heard, told, joined, hasty>>

------------------------------------------------------------------------------
Hear(l) == HearPut(l) \/ HearEvent(l) \/ HearCatchUp(l)

Next ==
    \/ Start \/ PublishInit \/ Publish \/ Ends \/ PassOn \/ Terminate \/ Destroy
    \/ \E l \in Listeners :
          AddList(l) \/ AddCatchUp(l) \/ Hear(l) \/ RemoveAtEnd(l) \/ RemoveEarly(l)

(* The loopers of the owner and of the listeners are scheduled. *)
Spec ==
    /\ Init /\ [][Next]_vars
    /\ WF_vars(PassOn)
    /\ \A l \in Listeners : WF_vars(Hear(l))

------------------------------------------------------------------------------
TypeOK ==
    /\ state \in {"READY", "STARTED", "DONE", "TERMINATED"}
    /\ prog \in -1 .. MaxProg
    /\ list \in Seq(Listeners) /\ freed \subseteq Listeners
    /\ refs \in Nat /\ leaked \in Nat /\ created \in BOOLEAN

Messages == {Put, Catch}          \* what carries no event, but a reference

(* The places in the mailboxes of the messages that will drop a reference. *)
Owing ==
    UNION {{<<l, i>> : i \in {i \in 1 .. Len(mail[l]) : mail[l][i] \in Messages}} :
              l \in Listeners}

(* Every reference has one owner: the creator, a message that will drop    *)
(* it, or nobody, when the catch-up came too late.  A freed task has no    *)
(* message left that leads to it.                                          *)
RefsAccounted ==
    /\ refs = (IF created THEN 1 ELSE 0) + Cardinality(Owing) + leaked
    /\ refs = 0 => ownq = <<>> /\ list = <<>> /\ \A l \in Listeners : mail[l] = <<>>

(* No callback is run of a freed handle, unless it was removed before its  *)
(* listener heard of the end: an event that is still to come holds a       *)
(* reference of the task, and with it the handle.                          *)
HandleAlive ==
    \A l \in freed \ hasty : \A i \in 1 .. Len(mail[l]) :
        mail[l][i] = Put \/ (mail[l][i] = Catch /\ ~Running)

(* The three above: nothing is used after it was freed. *)
Lifetime == TypeOK /\ RefsAccounted /\ HandleAlive

(* The events passed on since l was listed that l has still to hear of.    *)
Due(l) == (joined[l] + Len(heard[l]) + 1) .. Len(told)

(* The events in the mail of l are the due ones, in their order: at says   *)
(* where each of them lies.                                                *)
OnItsWay(l) ==
    \E at \in [Due(l) -> 1 .. Len(mail[l])] :
        /\ \A n \in Due(l) : mail[l][at[n]] = told[n]
        /\ \A n, k \in Due(l) : n < k => at[n] < at[k]
        /\ \A i \in 1 .. Len(mail[l]) :
              mail[l][i] \notin Messages => \E n \in Due(l) : at[n] = i

(* What a listener has heard and has still to hear are all the events that *)
(* the owner passed on since it was listed, in their order, none twice.    *)
HearsAll ==
    \A l \in ToSet(list) :
        /\ joined[l] + Len(heard[l]) <= Len(told)
        /\ heard[l] = SubSeq(told, joined[l] + 1, joined[l] + Len(heard[l]))
        /\ OnItsWay(l)

(* A task that its creator has destroyed is freed, but for the references  *)
(* that late catch-ups keep for ever.                                      *)
FreedInTheEnd == ~created ~> (refs = leaked)

==============================================================================
