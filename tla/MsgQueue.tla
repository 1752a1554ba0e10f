------------------------------ MODULE MsgQueue -------------------------------
(***************************************************************************)
(* The message queue of msgq.c with the message objects of msg.c/pool.c    *)
(* that travel through it, used by sender threads and by receiver threads  *)
(* (a msghandler's looper thread is such a receiver: on_msgq_event).       *)
(*                                                                         *)
(* The queue is a list per priority with a size, guarded by one mutex, and *)
(* an eventfd in semaphore mode that is written and read OUTSIDE the       *)
(* mutex.  A critical section is one step; the write that follows an       *)
(* enqueue and the read that precedes a dequeue are steps of their own.    *)
(***************************************************************************)
EXTENDS Naturals, Sequences, FiniteSets

CONSTANTS
    Msgs,       \* message objects the allocator can hand out
    Senders,    \* threads that post
    Receivers,  \* threads that dequeue and handle
    NPri,       \* YMSG_PRI_NR; priority 0 is the most urgent
    Capacity,   \* capacity given to ymsgq_create
    PoolCap     \* capacity of the pool of message objects

ASSUME MsgQueueAssumption ==
    /\ IsFiniteSet(Msgs)
    /\ IsFiniteSet(Senders)
    /\ IsFiniteSet(Receivers)
    /\ NPri \in Nat \ {0}
    /\ Capacity \in Nat \ {0}
    /\ PoolCap \in Nat

VARIABLES
    open,       \* the queue exists (between ymsgq_create and ymsgq_destroy)
    q,          \* the list of each priority
    sz,         \* number of messages, as the code counts them
    evfd,       \* the eventfd counter
    loc,        \* where each message object is
    spc,        \* position of each sender in its post
    shold,      \* the message (a singleton or empty set) a sender owns
    rpc,        \* position of each receiver
    rhold       \* the message a receiver is handling

vars == <<open, q, sz, evfd, loc, spc, shold, rpc, rhold>>

Pri == 0 .. NPri - 1

In(l) == {m \in Msgs : loc[m] = l}

(* ymsg_create takes an object of the pool and allocates one only when the *)
(* pool is empty.                                                          *)
Creatable == IF In("pool") # {} THEN In("pool") ELSE In("heap")

(* ymsg_destroy gives the objects back to the pool while it has room and   *)
(* frees the rest; kept is the part that the pool keeps.                   *)
Released(ms, kept) ==
    [m \in Msgs |-> IF m \in kept THEN "pool" ELSE IF m \in ms THEN "heap" ELSE loc[m]]

Kept(ms, kept) ==
    /\ kept \subseteq ms
    /\ Cardinality(In("pool")) + Cardinality(kept) <= PoolCap
    /\ \/ kept = ms
       \/ Cardinality(In("pool")) + Cardinality(kept) = PoolCap

Release(ms) == \E kept \in SUBSET ms : Kept(ms, kept) /\ loc' = Released(ms, kept)

------------------------------------------------------------------------------
Init ==
    /\ open = TRUE
    /\ q = [i \in Pri |-> <<>>]
    /\ sz = 0
    /\ evfd = 0
    /\ loc = [m \in Msgs |-> "heap"]
    /\ spc = [s \in Senders |-> "idle"]
    /\ shold = [s \in Senders |-> {}]
    /\ rpc = [r \in Receivers |-> "idle"]
    /\ rhold = [r \in Receivers |-> {}]

(* The sender gets a message object and fills it in. *)
Create(s, m) ==
    /\ open
    /\ spc[s] = "idle"
    /\ m \in Creatable
    /\ loc' = [loc EXCEPT ![m] = "held"]
    /\ shold' = [shold EXCEPT ![s] = {m}]
    /\ spc' = [spc EXCEPT ![s] = "made"]
    /\ UNCHANGED <<open, q, sz, evfd, rpc, rhold>>

(* A defect: the eventfd is written although the message was refused. *)
EnFullWakes(s) ==
    /\ spc[s] = "made"
    /\ sz >= Capacity
    /\ evfd' = evfd + 1
    /\ spc' = [spc EXCEPT ![s] = "full"]
    /\ UNCHANGED <<open, q, sz, loc, shold, rpc, rhold>>

(* Under the mutex: the queue is full, ymsgq_en returns -EAGAIN and the    *)
(* caller still owns the message.                                          *)
EnFull(s) ==
    /\ spc[s] = "made"
    /\ sz >= Capacity
    /\ spc' = [spc EXCEPT ![s] = "full"]
    /\ UNCHANGED <<open, q, sz, evfd, loc, shold, rpc, rhold>>

(* Under the mutex: the message joins the list of its priority. *)
En(s, i) ==
    /\ spc[s] \in {"made", "full"}
    /\ sz < Capacity
    /\ \E m \in shold[s] :
          /\ q' = [q EXCEPT ![i] = Append(@, m)]
          /\ loc' = [loc EXCEPT ![m] = "queued"]
    /\ sz' = sz + 1
    /\ shold' = [shold EXCEPT ![s] = {}]
    /\ spc' = [spc EXCEPT ![s] = "write"]
    /\ UNCHANGED <<open, evfd, rpc, rhold>>

(* A defect: tokens coalesce, as in an eventfd used as a plain flag. *)
WriteFlag(s) ==
    /\ spc[s] = "write"
    /\ evfd' = 1
    /\ spc' = [spc EXCEPT ![s] = "idle"]
    /\ UNCHANGED <<open, q, sz, loc, shold, rpc, rhold>>

(* After the mutex is released: one more token in the eventfd. *)
Write(s) ==
    /\ spc[s] = "write"
    /\ evfd' = evfd + 1
    /\ spc' = [spc EXCEPT ![s] = "idle"]
    /\ UNCHANGED <<open, q, sz, loc, shold, rpc, rhold>>

(* A sender that was refused may give the message up. *)
Discard(s) ==
    /\ spc[s] = "full"
    /\ Release(shold[s])
    /\ shold' = [shold EXCEPT ![s] = {}]
    /\ spc' = [spc EXCEPT ![s] = "idle"]
    /\ UNCHANGED <<open, q, sz, evfd, rpc, rhold>>

(* The blocking read of the eventfd takes one token. *)
Read(r) ==
    /\ open
    /\ rpc[r] = "idle"
    /\ evfd > 0
    /\ evfd' = evfd - 1
    /\ rpc' = [rpc EXCEPT ![r] = "take"]
    /\ UNCHANGED <<open, q, sz, loc, spc, shold, rhold>>

(* A defect: the lists are scanned from the least urgent one. *)
TakeLast(r) ==
    /\ rpc[r] = "take"
    /\ \E i \in Pri :
          /\ q[i] # <<>>
          /\ \A j \in Pri : j > i => q[j] = <<>>
          /\ q' = [q EXCEPT ![i] = Tail(@)]
          /\ sz' = sz - 1
          /\ loc' = [loc EXCEPT ![Head(q[i])] = "taken"]
          /\ rhold' = [rhold EXCEPT ![r] = {Head(q[i])}]
          /\ rpc' = [rpc EXCEPT ![r] = "handle"]
    /\ UNCHANGED <<open, evfd, spc, shold>>

(* Under the mutex: the first message of the first non-empty list.  With  *)
(* every list empty ymsgq_de returns NULL and the receiver has nothing.    *)
Take(r) ==
    /\ rpc[r] = "take"
    /\ IF \A i \in Pri : q[i] = <<>>
       THEN /\ rpc' = [rpc EXCEPT ![r] = "idle"]
            /\ UNCHANGED <<q, sz, loc, rhold>>
       ELSE \E i \in Pri :
               /\ q[i] # <<>>
               /\ \A j \in Pri : j < i => q[j] = <<>>
               /\ q' = [q EXCEPT ![i] = Tail(@)]
               /\ sz' = sz - 1
               /\ loc' = [loc EXCEPT ![Head(q[i])] = "taken"]
               /\ rhold' = [rhold EXCEPT ![r] = {Head(q[i])}]
               /\ rpc' = [rpc EXCEPT ![r] = "handle"]
    /\ UNCHANGED <<open, evfd, spc, shold>>

(* A defect: the handled message is forgotten instead of destroyed. *)
HandleLeaks(r) ==
    /\ rpc[r] = "handle"
    /\ rhold' = [rhold EXCEPT ![r] = {}]
    /\ rpc' = [rpc EXCEPT ![r] = "idle"]
    /\ UNCHANGED <<open, q, sz, evfd, loc, spc, shold>>

(* The message is handled and destroyed. *)
Handle(r) ==
    /\ rpc[r] = "handle"
    /\ Release(rhold[r])
    /\ rhold' = [rhold EXCEPT ![r] = {}]
    /\ rpc' = [rpc EXCEPT ![r] = "idle"]
    /\ UNCHANGED <<open, q, sz, evfd, spc, shold>>

(* ymsgq_destroy, called when no thread is inside the queue: the messages  *)
(* left in it are destroyed and the eventfd goes with its tokens.          *)
Destroy ==
    /\ open
    /\ \A s \in Senders : spc[s] = "idle"
    /\ \A r \in Receivers : rpc[r] = "idle"
    /\ Release(In("queued"))
    /\ open' = FALSE
    /\ q' = [i \in Pri |-> <<>>]
    /\ sz' = 0
    /\ evfd' = 0
    /\ UNCHANGED <<spc, shold, rpc, rhold>>

(* ymsgq_create of a new queue. *)
Recreate ==
    /\ ~open
    /\ open' = TRUE
    /\ q' = [i \in Pri |-> <<>>]
    /\ sz' = 0
    /\ evfd' = 0
    /\ UNCHANGED <<loc, spc, shold, rpc, rhold>>

SenderStep(s) ==
    \/ \E m \in Msgs : Create(s, m)
    \/ EnFull(s)
    \/ \E i \in Pri : En(s, i)
    \/ Write(s)
    \/ Discard(s)

ReceiverStep(r) ==
    \/ Read(r)
    \/ Take(r)
    \/ Handle(r)

Next ==
    \/ \E s \in Senders : SenderStep(s)
    \/ \E r \in Receivers : ReceiverStep(r)
    \/ Destroy
    \/ Recreate

Spec == Init /\ [][Next]_vars

(* A thread inside a call of the library is eventually scheduled, and a    *)
(* receiver loops forever; nothing makes a sender start a post.            *)
FairSpec ==
    /\ Spec
    /\ \A s \in Senders : WF_vars(Write(s))
    /\ \A r \in Receivers : WF_vars(ReceiverStep(r))

------------------------------------------------------------------------------
TypeOK ==
    /\ open \in BOOLEAN
    /\ q \in [Pri -> Seq(Msgs)]
    /\ sz \in Nat
    /\ evfd \in Nat
    /\ loc \in [Msgs -> {"heap", "pool", "held", "queued", "taken"}]
    /\ spc \in [Senders -> {"idle", "made", "full", "write"}]
    /\ shold \in [Senders -> SUBSET Msgs]
    /\ rpc \in [Receivers -> {"idle", "take", "handle"}]
    /\ rhold \in [Receivers -> SUBSET Msgs]

SendersAt(pos) == {s \in Senders : spc[s] = pos}
ReceiversAt(pos) == {r \in Receivers : rpc[r] = pos}

(* A message object is in one place only: linked once into one list, or    *)
(* owned by one thread, never two of these; an object linked twice would   *)
(* corrupt the lists that msgq.c and pool.c thread through the object.     *)
OnePlace ==
    /\ \A i \in Pri : \A k \in 1 .. Len(q[i]) : loc[q[i][k]] = "queued"
    /\ \A i, j \in Pri : \A k \in 1 .. Len(q[i]), l \in 1 .. Len(q[j]) :
          q[i][k] = q[j][l] => i = j /\ k = l
    /\ \A s \in Senders : \A m \in shold[s] : loc[m] = "held"
    /\ \A r \in Receivers : \A m \in rhold[r] : loc[m] = "taken"
    /\ \A s, t \in Senders : s # t => shold[s] \cap shold[t] = {}
    /\ \A r, t \in Receivers : r # t => rhold[r] \cap rhold[t] = {}

(* No message object is lost: what is not in the heap, in the pool or in   *)
(* the queue is owned by a thread that will queue or destroy it.           *)
NoneLost ==
    /\ \A m \in In("queued") : \E i \in Pri : \E k \in 1 .. Len(q[i]) : q[i][k] = m
    /\ \A m \in In("held") : \E s \in Senders : m \in shold[s]
    /\ \A m \in In("taken") : \E r \in Receivers : m \in rhold[r]

(* The size the code keeps is the number of queued messages and respects   *)
(* the capacity, although the check and the tokens are apart.              *)
SizeExact == sz = Cardinality(In("queued")) /\ sz <= Capacity

(* The books of the message objects: the four above. *)
ObjectsConserved == TypeOK /\ OnePlace /\ NoneLost /\ SizeExact

(* Every queued message is covered by exactly one token: one in the        *)
(* eventfd, one about to be written by its sender, or one already read by  *)
(* a receiver on its way to the lists.                                     *)
TokenAccounting ==
    sz = evfd + Cardinality(SendersAt("write")) + Cardinality(ReceiversAt("take"))

(* ymsgq_de never reaches its NULL return: a receiver that got past the    *)
(* blocking read finds a message, however the receivers overtake each      *)
(* other between the read and the mutex.                                   *)
DequeueFindsMessage == \A r \in ReceiversAt("take") : \E i \in Pri : q[i] # <<>>

(* No wake-up is lost and none is superfluous: the two above. *)
WakeUpsExact == TokenAccounting /\ DequeueFindsMessage

(* The queue keeps the promise of the abstract mailbox: claims are granted *)
(* only for messages nobody else has claimed, messages leave in order of   *)
(* priority and, within one, of acceptance.                                *)
MB == INSTANCE Mailbox WITH
        box <- q,
        claimed <- ReceiversAt("take"),
        given <- rhold

ImplementsMailbox == MB!Spec

(* No message is forgotten.  One of the most urgent priority is not         *)
(* overtaken for ever: the wake-up that belongs to it is never lost and it  *)
(* is eventually taken, or destroyed with the queue.  And once the senders  *)
(* stop for good, the receivers empty the queue: no message of any priority *)
(* waits without a token.                                                   *)
UrgentIsTaken ==
    \A m \in Msgs :
        (\E k \in 1 .. Len(q[0]) : q[0][k] = m) ~> (loc[m] # "queued")
Drained == <>[](\A s \in Senders : spc[s] = "idle") => <>[](sz = 0)
NoneIsForgotten == UrgentIsTaken /\ Drained
==============================================================================
