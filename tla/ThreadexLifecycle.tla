-------------------------- MODULE ThreadexLifecycle --------------------------
(***************************************************************************)
(* The contract of a background thread object as ythreadex.h draws it: the *)
(* state diagram and the three sequences of callbacks a listener may see.  *)
(* "NONE" is the state of a threadex that does not exist.                  *)
(***************************************************************************)
EXTENDS Sequences

VARIABLES
    state,      \* state of the diagram
    begun,      \* the thread was started (start that did not fail)
    cbs         \* lifecycle callbacks the listener has heard, in order

vars == <<state, begun, cbs>>

States == {"READY", "STARTED", "CANCELLING", "CANCELLED", "DONE",
           "TERMINATED", "TERMINATED_CANCELLED"}

(* The three complete sequences of callbacks. *)
CancelledEarly == <<"cancelling", "cancelled">>
CancelledLate == <<"started", "cancelling", "cancelled">>
Completed == <<"started", "done">>

Init ==
    /\ state = "READY"
    /\ begun = FALSE
    /\ cbs = <<>>

Start ==
    /\ state = "READY"
    /\ state' = "STARTED"
    /\ begun' = TRUE
    /\ UNCHANGED cbs

(* The system refused to create the thread. *)
StartFails ==
    /\ state = "STARTED"
    /\ cbs = <<>>
    /\ state' = "READY"
    /\ begun' = FALSE
    /\ UNCHANGED cbs

Cancel ==
    /\ state \in {"READY", "STARTED"}
    /\ state' = "CANCELLING"
    /\ UNCHANGED <<begun, cbs>>

(* A thread that was cancelled before it was started is CANCELLED once the *)
(* listener knows; a started one whenever it stops.                        *)
BecomeCancelled ==
    /\ state = "CANCELLING"
    /\ begun \/ cbs = <<"cancelling">>
    /\ state' = "CANCELLED"
    /\ UNCHANGED <<begun, cbs>>

BecomeDone ==
    /\ state = "STARTED"
    /\ state' = "DONE"
    /\ UNCHANGED <<begun, cbs>>

HearStarted ==
    /\ begun
    /\ cbs = <<>>
    /\ cbs' = <<"started">>
    /\ UNCHANGED <<state, begun>>

HearCancelling ==
    /\ state \in {"CANCELLING", "CANCELLED"}
    /\ cbs = IF begun THEN <<"started">> ELSE <<>>
    /\ cbs' = Append(cbs, "cancelling")
    /\ UNCHANGED <<state, begun>>

HearCancelled ==
    /\ state = "CANCELLED"
    /\ cbs \in {<<"cancelling">>, <<"started", "cancelling">>}
    /\ cbs' = Append(cbs, "cancelled")
    /\ UNCHANGED <<state, begun>>

HearDone ==
    /\ state = "DONE"
    /\ cbs = <<"started">>
    /\ cbs' = Append(cbs, "done")
    /\ UNCHANGED <<state, begun>>

(* The object is finished when the listener has heard everything. *)
Terminate ==
    /\ state = "DONE"
    /\ cbs = Completed
    /\ state' = "TERMINATED"
    /\ UNCHANGED <<begun, cbs>>

TerminateCancelled ==
    /\ state = "CANCELLED"
    /\ cbs = IF begun THEN CancelledLate ELSE CancelledEarly
    /\ state' = "TERMINATED_CANCELLED"
    /\ UNCHANGED <<begun, cbs>>

Destroy ==
    /\ state \in {"TERMINATED", "TERMINATED_CANCELLED"}
    /\ state' = "NONE"
    /\ UNCHANGED <<begun, cbs>>

Create ==
    /\ state = "NONE"
    /\ state' = "READY"
    /\ begun' = FALSE
    /\ cbs' = <<>>

Next ==
    \/ Start \/ StartFails \/ Cancel
    \/ BecomeCancelled \/ BecomeDone
    \/ HearStarted \/ HearCancelling \/ HearCancelled \/ HearDone
    \/ Terminate \/ TerminateCancelled
    \/ Destroy \/ Create

Spec == Init /\ [][Next]_vars

==============================================================================
