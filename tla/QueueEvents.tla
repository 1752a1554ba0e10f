------------------------------ MODULE QueueEvents ------------------------------
(***************************************************************************)
(* The listeners of the queue events of taskmanager.c.  A thread that holds *)
(* q_lock walks the list and posts a copy of each listener to its handler;  *)
(* listeners come and go under elh_lock, which the walk does not take, so   *)
(* the walk is taken apart here.                                            *)
(***************************************************************************)
EXTENDS Naturals, SequencesExt

CONSTANTS
  Handles,       \* struct ytaskmanager_qevent_listener_handle
  MaxEvents      \* bound on the changes of the queues

VARIABLES
  elhs,          \* elhhd: the linked handles
  freed,         \* handles that were freed
  destroyed,
  walk,          \* elh of the walk, or NoWalk
  events,        \* changes of the queues so far: an event is its number
  mailed,        \* events posted to the handler of each listener
  heard,         \* events each listener was called with
  wild,          \* the walk has used a freed handle
  joined,        \* history: the events that were over when it was linked
  raced          \* history: the handle under the walk was removed

evtVars == <<elhs, freed, destroyed, walk, events, mailed, heard, wild, joined, raced>>

NoWalk == "none"
EventsAssumption == NoWalk \notin Handles
ASSUME EventsConstants == EventsAssumption

Linked == ToSet(elhs)
Next1(h) == LET i == CHOOSE k \in DOMAIN elhs : elhs[k] = h
            IN  IF i = Len(elhs) THEN NoWalk ELSE elhs[i + 1]

EventsInit ==
  /\ elhs = <<>> /\ freed = {} /\ destroyed = FALSE /\ walk = NoWalk /\ events = 0
  /\ mailed = [h \in Handles |-> <<>>] /\ heard = [h \in Handles |-> <<>>]
  /\ joined = [h \in Handles |-> 0]
  /\ wild = FALSE /\ raced = FALSE

\* notify_qevent_locked begins: a task was added, moved or removed.
Change ==
  /\ walk = NoWalk /\ events < MaxEvents /\ ~destroyed
  /\ events' = events + 1
  /\ walk' = IF elhs = <<>> THEN NoWalk ELSE Head(elhs)
  /\ UNCHANGED <<elhs, freed, destroyed, mailed, heard, wild, joined, raced>>

\* A defect: the event goes to the listener that comes next.
PostToNext ==
  /\ walk \in Linked
  /\ mailed' = [mailed EXCEPT ![IF Next1(walk) = NoWalk THEN walk ELSE Next1(walk)] =
                  Append(@, events)]
  /\ walk' = Next1(walk)
  /\ UNCHANGED <<elhs, freed, destroyed, events, heard, wild, joined, raced>>
\* An iteration: a copy of the listener is posted, then the walk moves on.
PostEvent ==
  /\ walk \in Linked
  /\ mailed' = [mailed EXCEPT ![walk] = Append(@, events)]
  /\ walk' = Next1(walk)
  /\ UNCHANGED <<elhs, freed, destroyed, events, heard, wild, joined, raced>>

\* ... or the handle was freed, and what the walk reads is anything.
PostFreed ==
  /\ walk \in freed
  /\ wild' = TRUE
  /\ UNCHANGED <<elhs, freed, destroyed, walk, events, mailed, heard, joined, raced>>

\* ytaskmanager_add_qevent_listener2
AddListener(h) ==
  /\ ~destroyed /\ h \notin Linked \union freed
  /\ elhs' = Append(elhs, h)
  /\ joined' = [joined EXCEPT ![h] = IF walk = NoWalk THEN events ELSE events - 1]
  /\ UNCHANGED <<freed, destroyed, walk, events, mailed, heard, wild, raced>>

\* ytaskmanager_remove_qevent_listener, which refuses a handle that is not in
\* the list.
RemoveListener(h) ==
  /\ h \in Linked
  /\ elhs' = RemoveFirst(elhs, h)
  /\ freed' = freed \union {h}
  /\ raced' = (raced \/ walk = h)
  /\ UNCHANGED <<destroyed, walk, events, mailed, heard, wild, joined>>

\* notify_qevent_to_listener, in the thread of the listener's handler, with
\* the copy: the handle may be gone.
HearEvent(h) ==
  /\ mailed[h] # <<>>
  /\ mailed' = [mailed EXCEPT ![h] = Tail(@)]
  /\ heard' = [heard EXCEPT ![h] = Append(@, Head(mailed[h]))]
  /\ UNCHANGED <<elhs, freed, destroyed, walk, events, wild, joined, raced>>

\* The loop of ytaskmanager_destroy, which is called with nobody inside; the
\* messages posted are still on their way.
FreeListeners ==
  /\ walk = NoWalk /\ ~destroyed
  /\ destroyed' = TRUE
  /\ freed' = freed \union Linked
  /\ elhs' = <<>>
  /\ UNCHANGED <<walk, events, mailed, heard, wild, joined, raced>>

EventsNext ==
  /\ ~wild
  /\ \/ Change \/ PostEvent \/ PostFreed \/ FreeListeners
     \/ \E h \in Handles : AddListener(h) \/ RemoveListener(h) \/ HearEvent(h)

EventsSpec == EventsInit /\ [][EventsNext]_evtVars

-----------------------------------------------------------------------------

(* A linked listener has been sent every event since it was linked, each    *)
(* once and in the order of the changes, up to the one the walk is busy     *)
(* with, also when others come and go while it walks; one that was removed  *)
(* hears no event that came later, and nothing is read from a freed handle  *)
(* unless it was removed under the walk itself.                             *)
EventsReachListeners ==
  /\ wild => raced
  /\ \A h \in Handles :
       LET sent == heard[h] \o mailed[h]
       IN  /\ \A i \in DOMAIN sent : sent[i] = joined[h] + i
           /\ h \in Linked /\ walk # h =>
                joined[h] + Len(sent) \in
                  (IF walk = NoWalk THEN {events} ELSE {events - 1, events})
           /\ h \in Linked /\ walk = h => joined[h] + Len(sent) = events - 1
=============================================================================
