------------------------------- MODULE Mailbox -------------------------------
(***************************************************************************)
(* What a message queue of the library promises to the threads that share  *)
(* it, without saying how.  A message is accepted under a priority; a      *)
(* receiver first claims one message, without knowing which, and is then   *)
(* given the oldest message of the most urgent non-empty priority.  A      *)
(* claim is granted only while there is an unclaimed message, so a         *)
(* receiver holding a claim is never turned away.  Closing the mailbox     *)
(* drops what it holds; nobody may hold a claim at that time.              *)
(*                                                                         *)
(* MsgQueue implements this module: the claim is the successful read of    *)
(* the eventfd, the delivery is the dequeue under the lock.                *)
(***************************************************************************)
EXTENDS Naturals, Sequences, FiniteSets

CONSTANTS
    Msgs,       \* message objects
    Receivers,  \* threads that take messages
    NPri,       \* number of priorities; 0 is the most urgent
    Capacity    \* most messages the mailbox accepts

VARIABLES
    box,        \* [Pri -> Seq(Msgs)], the accepted messages in order
    claimed,    \* receivers entitled to one message each
    given       \* [Receivers -> SUBSET Msgs], the message being handled

vars == <<box, claimed, given>>

Pri == 0 .. NPri - 1

(* The messages in the mailbox. *)
Inside == {m \in Msgs : \E i \in Pri : \E k \in 1 .. Len(box[i]) : box[i][k] = m}

Init ==
    /\ box = [i \in Pri |-> <<>>]
    /\ claimed = {}
    /\ given = [r \in Receivers |-> {}]

(* A message that is nowhere in the mailbox enters it. *)
Accept(m, i) ==
    /\ Cardinality(Inside) < Capacity
    /\ m \notin Inside
    /\ \A r \in Receivers : m \notin given[r]
    /\ box' = [box EXCEPT ![i] = Append(@, m)]
    /\ UNCHANGED <<claimed, given>>

(* A receiver is promised a message, one per message that is inside. *)
Claim(r) ==
    /\ r \notin claimed
    /\ given[r] = {}
    /\ Cardinality(claimed) < Cardinality(Inside)
    /\ claimed' = claimed \union {r}
    /\ UNCHANGED <<box, given>>

(* The promise is kept with the oldest of the most urgent messages. *)
Deliver(r, i) ==
    /\ r \in claimed
    /\ box[i] # <<>>
    /\ \A j \in Pri : j < i => box[j] = <<>>
    /\ box' = [box EXCEPT ![i] = Tail(@)]
    /\ given' = [given EXCEPT ![r] = {Head(box[i])}]
    /\ claimed' = claimed \ {r}

(* The receiver is done with its message. *)
Finish(r) ==
    /\ given[r] # {}
    /\ given' = [given EXCEPT ![r] = {}]
    /\ UNCHANGED <<box, claimed>>

(* The mailbox is closed with nobody inside a receive. *)
Close ==
    /\ claimed = {}
    /\ \A r \in Receivers : given[r] = {}
    /\ box' = [i \in Pri |-> <<>>]
    /\ UNCHANGED <<claimed, given>>

Next ==
    \/ \E m \in Msgs, i \in Pri : Accept(m, i)
    \/ \E r \in Receivers : Claim(r) \/ Finish(r)
    \/ \E r \in Receivers, i \in Pri : Deliver(r, i)
    \/ Close

Spec == Init /\ [][Next]_vars

==============================================================================
