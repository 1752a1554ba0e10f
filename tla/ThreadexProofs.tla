--------------------------- MODULE ThreadexProofs ---------------------------
(***************************************************************************)
(* Proofs about Threadex: the inductive invariant that relates the state   *)
(* of a background thread object to the messages still in its owner's      *)
(* queue, to the callbacks its listener has heard and to the positions of  *)
(* the threads that call it; and the refinement of the documented life     *)
(* cycle.                                                                  *)
(***************************************************************************)
EXTENDS Threadex, FiniteSetTheorems, FunctionTheorems, TLAPS

(* A message of this kind is in the owner's queue. *)
Pending(m) == \E k \in 1 .. Len(mq) : mq[k] = m

(* What may be queued behind what: one on_started, then one on_cancelling, *)
(* then one final message; progress anywhere before the final message.     *)
MayFollow(a, b) ==
    \/ a = "progress"
    \/ a = "started" /\ b \in {"progress", "cancelling_started", "cancelled", "done"}
    \/ a = "cancelling_started" /\ b \in {"progress", "cancelled"}

Ordered ==
    \A i, j \in 1 .. Len(mq) : i < j => MayFollow(mq[i], mq[j])

Early == {"main", "run", "publish", "cleanup"}

(* The mutex is held by the caller inside a critical section. *)
Mutex ==
    \A c \in Callers :
        cpc[c] \in {"create", "post", "unlock", "unlock_sync"} <=> lock = c

Claimed == \E c \in Callers : cpc[c] \in {"create", "post", "unlock_sync"}

Fresh == wpc = "none" /\ mq = <<>> /\ opc = "idle" /\ cbs = <<>>

EndPending == Pending("cancelled") \/ Pending("done")

(* on_started of a started thread is in the queue or has been heard. *)
StartKnown ==
    \/ Pending("started") /\ cbs = <<>>
    \/ ~Pending("started") /\ cbs = <<"started">>

(* The same of on_cancelling of a started thread. *)
CancelKnown ==
    \/ Pending("cancelling_started") /\ StartKnown
    \/ /\ ~Pending("cancelling_started")
       /\ ~Pending("started")
       /\ cbs = <<"started", "cancelling">>

(* While a start is inside its critical section nobody else moves the      *)
(* state, and the thread it may have created cannot end.                   *)
Starting ==
    \A c \in Callers :
        /\ cpc[c] = "create" => state = "STARTED" /\ Fresh
        /\ cpc[c] = "post" => /\ state = "STARTED"
                              /\ wpc \in Early
                              /\ ~Pending("started")
                              /\ cbs = <<>>
        /\ cpc[c] = "unlock_sync" => state = "STARTED" /\ wpc = "none" /\ StartKnown

(* What each state says of the background thread, of the queue and of the  *)
(* callbacks.                                                              *)
OfReady == state = "READY" => Fresh /\ ~begun

OfStarted ==
    state = "STARTED" =>
        /\ begun
        /\ opc = "idle"
        /\ ~EndPending /\ ~Pending("cancelling_ready") /\ ~Pending("cancelling_started")
        /\ ~Claimed => wpc \in Early /\ StartKnown

OfCancelling ==
    state = "CANCELLING" =>
        \/ /\ begun
           /\ wpc \in Early
           /\ opc = "idle"
           /\ ~EndPending /\ ~Pending("cancelling_ready")
           /\ CancelKnown
        \/ /\ ~begun
           /\ wpc = "none"
           /\ \/ mq = <<"cancelling_ready">> /\ opc = "idle" /\ cbs = <<>>
              \/ mq = <<>> /\ opc = "cancelling" /\ cbs = <<"cancelling">>

OfCancelled ==
    state = "CANCELLED" =>
        \/ /\ begun
           /\ ~Pending("done") /\ ~Pending("cancelling_ready")
           /\ \/ wpc = "post_cancelled" /\ opc = "idle" /\ ~EndPending /\ CancelKnown
              \/ wpc = "end" /\ opc = "idle" /\ Pending("cancelled") /\ CancelKnown
              \/ /\ wpc = "end" /\ opc = "cancelled" /\ mq = <<>>
                 /\ cbs = <<"started", "cancelling", "cancelled">>
        \/ /\ ~begun
           /\ wpc = "none"
           /\ \/ mq = <<"cancelled">> /\ opc = "idle" /\ cbs = <<"cancelling">>
              \/ mq = <<>> /\ opc = "cancelled" /\ cbs = <<"cancelling", "cancelled">>

OfDone ==
    state = "DONE" =>
        /\ begun
        /\ ~Pending("cancelled")
        /\ ~Pending("cancelling_ready") /\ ~Pending("cancelling_started")
        /\ \/ wpc = "post_done" /\ opc = "idle" /\ ~EndPending /\ StartKnown
           \/ wpc = "end" /\ opc = "idle" /\ Pending("done") /\ StartKnown
           \/ wpc = "end" /\ opc = "done" /\ mq = <<>> /\ cbs = <<"started", "done">>

OfTerminated ==
    state = "TERMINATED" =>
        /\ begun
        /\ wpc = "end" /\ mq = <<>> /\ opc = "idle"
        /\ cbs = <<"started", "done">>

OfTerminatedCancelled ==
    state = "TERMINATED_CANCELLED" =>
        /\ mq = <<>> /\ opc = "idle"
        /\ \/ begun /\ wpc = "end" /\ cbs = <<"started", "cancelling", "cancelled">>
           \/ ~begun /\ wpc = "none" /\ cbs = <<"cancelling", "cancelled">>

Phases ==
    /\ OfReady /\ OfStarted /\ OfCancelling /\ OfCancelled /\ OfDone
    /\ OfTerminated /\ OfTerminatedCancelled

Dead == ~alive => state \in Terminated

(* With a quiet destroy, a caller that has joined keeps the object. *)
Joining ==
    QuietDestroy =>
        /\ ~alive => \A c \in Callers : cpc[c] = "idle"
        /\ \A c \in Callers : cpc[c] = "joined" => wpc = "end"

(* The progress being published still fits into what is published. *)
Room == wpc = "publish" => posted < MaxProgress

Core == TypeOK /\ Mutex /\ Ordered /\ Starting /\ Phases /\ Dead /\ Joining

IInv == Core /\ Room /\ ProgressExact

------------------------------------------------------------------------------
(* The messages of the queue are messages. *)
LEMMA PendingTyped ==
    ASSUME TypeOK, NEW n, Pending(n)
    PROVE  n \in Messages /\ mq # <<>>
  BY DEF TypeOK, Pending

(* Nothing is pending in an empty queue. *)
LEMMA NothingPending ==
    ASSUME mq = <<>>, NEW n
    PROVE  ~Pending(n)
  BY DEF Pending

(* A queue of one message holds that message and no other. *)
LEMMA OnePending ==
    ASSUME NEW m, mq = <<m>>, NEW n
    PROVE  Pending(n) <=> n = m
  BY DEF Pending

(* Post adds one pending message and keeps the order when the message may  *)
(* follow everything that is pending.                                      *)
LEMMA PostEffect ==
    ASSUME TypeOK, Ordered, NEW m \in Messages, Post(m),
           \A n : Pending(n) => MayFollow(n, m)
    PROVE  /\ mq' \in Seq(Messages)
           /\ mq' # <<>>
           /\ mq = <<>> => mq' = <<m>>
           /\ Ordered'
           /\ \A n : Pending(n)' <=> Pending(n) \/ n = m
<1>1. mq \in Seq(Messages) /\ mq' = Append(mq, m)
  BY DEF TypeOK, Post
<1>2. /\ mq' \in Seq(Messages)
      /\ Len(mq') = Len(mq) + 1
      /\ mq'[Len(mq) + 1] = m
      /\ \A k \in 1 .. Len(mq) : mq'[k] = mq[k]
  BY <1>1
<1>3. Len(mq) \in Nat
  BY <1>1
<1>4. Ordered'
  <2>1. ASSUME NEW i \in 1 .. Len(mq'), NEW j \in 1 .. Len(mq'), i < j
        PROVE  MayFollow(mq'[i], mq'[j])
    <3>1. i \in 1 .. Len(mq) /\ mq'[i] = mq[i]
      BY <1>2, <1>3, <2>1
    <3>2. CASE j = Len(mq) + 1
      <4>1. mq'[j] = m
        BY <1>2, <3>2
      <4>2. Pending(mq[i])
        BY <3>1 DEF Pending
      <4> QED BY <3>1, <4>1, <4>2
    <3>3. CASE j # Len(mq) + 1
      <4>1. j \in 1 .. Len(mq) /\ mq'[j] = mq[j]
        BY <1>2, <1>3, <3>3
      <4> QED BY <2>1, <3>1, <4>1 DEF Ordered
    <3> QED BY <3>2, <3>3
  <2> QED BY <2>1 DEF Ordered, MayFollow
<1>5. ASSUME NEW n PROVE Pending(n)' <=> Pending(n) \/ n = m
  <2>1. ASSUME NEW k \in 1 .. Len(mq'), mq'[k] = n PROVE Pending(n) \/ n = m
    BY <1>2, <1>3, <2>1 DEF Pending
  <2>2. ASSUME Pending(n) PROVE \E k \in 1 .. Len(mq') : mq'[k] = n
    BY <1>2, <1>3, <2>2 DEF Pending
  <2>3. Len(mq) + 1 \in 1 .. Len(mq')
    BY <1>2, <1>3
  <2>4. n = m => \E k \in 1 .. Len(mq') : mq'[k] = n
    BY <1>2, <2>3
  <2> QED BY <2>1, <2>2, <2>4 DEF Pending
<1>6. mq = <<>> => mq' = <<m>>
  BY <1>1
<1> QED BY <1>2, <1>3, <1>4, <1>5, <1>6

(* Taking the first message leaves only messages that may follow it. *)
LEMMA TakeEffect ==
    ASSUME TypeOK, Ordered, mq # <<>>, mq' = Tail(mq)
    PROVE  /\ mq' \in Seq(Messages)
           /\ Ordered'
           /\ Pending(Head(mq))
           /\ \A n : Pending(n)' => Pending(n) /\ MayFollow(Head(mq), n)
           /\ \A n : Pending(n) => Pending(n)' \/ n = Head(mq)
           /\ mq' # <<>> => \E n \in Messages : Pending(n)'
<1>1. mq \in Seq(Messages) /\ Len(mq) \in Nat /\ Len(mq) > 0 /\ Head(mq) = mq[1]
  BY DEF TypeOK
<1>2. /\ mq' \in Seq(Messages)
      /\ Len(mq') = Len(mq) - 1
      /\ \A k \in 1 .. Len(mq') : mq'[k] = mq[k + 1]
  BY <1>1
<1>3. Ordered'
  BY <1>1, <1>2 DEF Ordered, MayFollow
<1>4. Pending(Head(mq))
  BY <1>1 DEF Pending
<1>5. ASSUME NEW n, Pending(n)' PROVE Pending(n) /\ MayFollow(Head(mq), n)
  <2>1. PICK k \in 1 .. Len(mq') : mq'[k] = n
    BY <1>5 DEF Pending
  <2>2. k + 1 \in 1 .. Len(mq) /\ mq[k + 1] = n /\ 1 \in 1 .. Len(mq) /\ 1 < k + 1
    BY <1>1, <1>2, <2>1
  <2> QED BY <1>1, <2>2 DEF Pending, Ordered
<1>6. ASSUME NEW n, Pending(n) PROVE Pending(n)' \/ n = Head(mq)
  <2>1. PICK k \in 1 .. Len(mq) : mq[k] = n
    BY <1>6 DEF Pending
  <2>2. CASE k = 1
    BY <1>1, <2>1, <2>2
  <2>3. CASE k # 1
    <3>1. k - 1 \in 1 .. Len(mq') /\ mq'[k - 1] = n
      BY <1>1, <1>2, <2>1, <2>3
    <3> QED BY <3>1 DEF Pending
  <2> QED BY <2>2, <2>3
<1>7. ASSUME mq' # <<>> PROVE \E n \in Messages : Pending(n)'
  <2>1. 1 \in 1 .. Len(mq') /\ mq'[1] \in Messages
    BY <1>2, <1>7
  <2> QED BY <2>1 DEF Pending
<1> QED BY <1>2, <1>3, <1>4, <1>5, <1>6, <1>7

(* Sequences of the same length and elements are equal. *)
LEMMA SameSequence ==
    ASSUME NEW S, NEW s \in Seq(S), NEW t \in Seq(S), Len(s) = Len(t),
           \A i \in 1 .. Len(s) : s[i] = t[i]
    PROVE  s = t
<1>1. s = [i \in 1 .. Len(s) |-> s[i]] /\ t = [i \in 1 .. Len(t) |-> t[i]]
  OBVIOUS
<1> QED BY <1>1

(* The callbacks heard, one longer. *)
LEMMA AppendToOne ==
    ASSUME NEW S, NEW a \in S, NEW b \in S
    PROVE  Append(<<a>>, b) = <<a, b>>
<1> DEFINE s == Append(<<a>>, b)
<1> DEFINE t == <<a, b>>
<1>1. /\ s \in Seq(S) /\ t \in Seq(S) /\ Len(s) = 2 /\ Len(t) = 2
      /\ s[1] = a /\ s[2] = b /\ t[1] = a /\ t[2] = b
  OBVIOUS
<1> HIDE DEF s, t
<1>2. s = t
  BY <1>1, SameSequence
<1> QED BY <1>2 DEF s, t

(* The same of three callbacks. *)
LEMMA AppendToTwo ==
    ASSUME NEW S, NEW a \in S, NEW b \in S, NEW c \in S
    PROVE  Append(<<a, b>>, c) = <<a, b, c>>
<1> DEFINE s == Append(<<a, b>>, c)
<1> DEFINE t == <<a, b, c>>
<1>1. /\ s \in Seq(S) /\ t \in Seq(S) /\ Len(s) = 3 /\ Len(t) = 3
      /\ s[1] = a /\ s[2] = b /\ s[3] = c /\ t[1] = a /\ t[2] = b /\ t[3] = c
  OBVIOUS
<1> HIDE DEF s, t
<1>2. s = t
  BY <1>1, SameSequence
<1> QED BY <1>2 DEF s, t

(* The sequences of callbacks that arise. *)
LEMMA Hearing ==
    /\ Append(<<"started">>, "cancelling") = <<"started", "cancelling">>
    /\ Append(<<"started">>, "done") = <<"started", "done">>
    /\ Append(<<"cancelling">>, "cancelled") = <<"cancelling", "cancelled">>
    /\ Append(<<"started", "cancelling">>, "cancelled") = <<"started", "cancelling", "cancelled">>
<1> DEFINE S == {"started", "cancelling", "cancelled", "done"}
<1>1. "started" \in S /\ "cancelling" \in S /\ "cancelled" \in S /\ "done" \in S
  OBVIOUS
<1> HIDE DEF S
<1> QED BY <1>1, AppendToOne, AppendToTwo

(* A step that leaves the queue alone leaves what is pending in it.  *)
LEMMA SameQueue ==
    ASSUME mq' = mq
    PROVE  /\ Ordered => Ordered'
           /\ \A n : Pending(n)' <=> Pending(n)
  BY DEF Ordered, MayFollow, Pending

(* A set of places of a queue is finite. *)
LEMMA FinitePlaces ==
    ASSUME NEW n \in Nat, NEW S \in SUBSET (1 .. n)
    PROVE  IsFiniteSet(S) /\ Cardinality(S) \in Nat
<1>1. IsFiniteSet(1 .. n)
  BY FS_Interval
<1>2. IsFiniteSet(S)
  BY <1>1, FS_Subset
<1> QED BY <1>2, FS_CardinalityType

(* The progress in the queue is finite. *)
LEMMA ProgressCounted ==
    ASSUME mq \in Seq(Messages)
    PROVE  IsFiniteSet(ProgressAt) /\ Cardinality(ProgressAt) \in Nat
<1>1. Len(mq) \in Nat /\ ProgressAt \in SUBSET (1 .. Len(mq))
  BY DEF ProgressAt
<1> QED BY ONLY <1>1, FinitePlaces

(* Posting counts progress, and only progress. *)
LEMMA PostCount ==
    ASSUME mq \in Seq(Messages), NEW m \in Messages, Post(m)
    PROVE  Cardinality(ProgressAt)' = IF m = "progress" THEN Cardinality(ProgressAt) + 1
                                                        ELSE Cardinality(ProgressAt)
<1>1. /\ Len(mq) \in Nat
      /\ Len(mq') = Len(mq) + 1
      /\ mq'[Len(mq) + 1] = m
      /\ \A k \in 1 .. Len(mq) : mq'[k] = mq[k]
  BY DEF Post
<1>2. CASE m = "progress"
  <2>1. ProgressAt' = ProgressAt \union {Len(mq) + 1}
    BY <1>1, <1>2 DEF ProgressAt
  <2>2. Len(mq) + 1 \notin ProgressAt
    BY <1>1 DEF ProgressAt
  <2> QED BY <1>2, <2>1, <2>2, ProgressCounted, FS_AddElement
<1>3. CASE m # "progress"
  <2>1. ProgressAt' = ProgressAt
    BY <1>1, <1>3 DEF ProgressAt
  <2> QED BY <1>3, <2>1
<1> QED BY <1>2, <1>3

(* A set of places shifted by one has as many elements. *)
LEMMA ShiftCount ==
    ASSUME NEW S \in SUBSET Nat, NEW T \in SUBSET Nat, IsFiniteSet(S),
           \A k \in S : k + 1 \in T,
           \A k \in T : k > 0 /\ k - 1 \in S
    PROVE  Cardinality(T) = Cardinality(S)
<1> DEFINE f == [k \in S |-> k + 1]
<1>1. f \in Bijection(S, T)
  <2>1. f \in [S -> T]
    OBVIOUS
  <2>2. \A a, b \in S : f[a] = f[b] => a = b
    OBVIOUS
  <2>3. \A t \in T : \E a \in S : f[a] = t
    <3>1. ASSUME NEW t \in T PROVE t - 1 \in S /\ f[t - 1] = t
      OBVIOUS
    <3> QED BY <3>1
  <2> HIDE DEF f
  <2> QED BY <2>1, <2>2, <2>3, Fun_IsBij
<1> QED BY <1>1, FS_Bijection DEF ExistsBijection

(* Taking the first message counts it off if it is progress. *)
LEMMA TakeCount ==
    ASSUME mq \in Seq(Messages), mq # <<>>, mq' = Tail(mq)
    PROVE  Cardinality(ProgressAt)' = IF Head(mq) = "progress" THEN Cardinality(ProgressAt) - 1
                                                               ELSE Cardinality(ProgressAt)
<1>1. /\ Len(mq) \in Nat /\ Len(mq) > 0 /\ Head(mq) = mq[1]
      /\ mq' \in Seq(Messages)
      /\ Len(mq') = Len(mq) - 1
      /\ \A k \in 1 .. Len(mq') : mq'[k] = mq[k + 1]
  OBVIOUS
<1> DEFINE T == ProgressAt \ {1}
<1>2. /\ ProgressAt' \in SUBSET Nat /\ T \in SUBSET Nat
      /\ \A k \in ProgressAt' : k + 1 \in T
      /\ \A k \in T : k > 0 /\ k - 1 \in ProgressAt'
  BY <1>1 DEF ProgressAt
<1>3. IsFiniteSet(ProgressAt')
  <2>1. ProgressAt' \in SUBSET (1 .. Len(mq'))
    BY <1>1 DEF ProgressAt
  <2>2. Len(mq') \in Nat
    BY <1>1
  <2> QED BY ONLY <2>1, <2>2, FinitePlaces
<1>4. 1 \in ProgressAt <=> Head(mq) = "progress"
  BY <1>1 DEF ProgressAt
<1>5. Cardinality(T) = Cardinality(ProgressAt')
  <2> HIDE DEF T
  <2> QED BY <1>2, <1>3, ShiftCount
<1> QED BY <1>4, <1>5, ProgressCounted, FS_RemoveElement

------------------------------------------------------------------------------
(* ythreadex_start claims a READY thread: nothing is queued or heard. *)
LEMMA StartLockInv ==
    ASSUME IInv, NEW c \in Callers, StartLock(c)
    PROVE  Core'
<1> USE DEF IInv, Core, StartLock, Goto
<1>1. Fresh
  BY DEF Phases, OfReady
<1>2. TypeOK'
  BY DEF TypeOK, States
<1>3. Mutex'
  BY ThreadexAssumption DEF Mutex, TypeOK
<1>4. Ordered' /\ \A n : Pending(n)' <=> Pending(n)
  BY SameQueue
<1>5. Starting'
  BY <1>1 DEF Starting, Fresh, TypeOK
<1>6. \A n : ~Pending(n)
  BY <1>1, NothingPending DEF Fresh
<1>7. Claimed'
  BY DEF Claimed, TypeOK
<1>8. OfStarted'
  BY <1>1, <1>4, <1>6, <1>7 DEF OfStarted, Fresh, EndPending
<1>9. Phases'
  BY <1>8 DEF Phases, OfReady, OfCancelling, OfCancelled, OfDone, OfTerminated,
              OfTerminatedCancelled
<1>10. Dead'
  BY DEF Dead
<1>11. Joining'
  BY DEF Joining, TypeOK
<1> QED BY <1>2, <1>3, <1>4, <1>5, <1>9, <1>10, <1>11

(* Nobody but the holder of the mutex is inside a critical section. *)
LEMMA OneInside ==
    ASSUME Mutex, NEW c \in Callers, lock = c, NEW d \in Callers, d # c
    PROVE  cpc[d] \notin {"create", "post", "unlock", "unlock_sync"}
  BY DEF Mutex

(* While nobody holds the mutex nobody is inside a critical section. *)
LEMMA NobodyInside ==
    ASSUME Mutex, lock = Free
    PROVE  /\ ~Claimed
           /\ \A d \in Callers : cpc[d] \notin {"create", "post", "unlock", "unlock_sync"}
  BY ThreadexAssumption DEF Mutex, Claimed

(* The thread is created and runs while the caller keeps the mutex. *)
LEMMA CreateThreadInv ==
    ASSUME IInv, NEW c \in Callers, CreateThread(c)
    PROVE  Core'
<1> USE DEF IInv, Core, CreateThread, Goto
<1>1. state = "STARTED" /\ Fresh /\ lock = c
  BY DEF Starting, Mutex
<1>2. TypeOK'
  BY DEF TypeOK
<1>3. Mutex'
  BY DEF Mutex, TypeOK
<1>4. Ordered' /\ \A n : Pending(n)' <=> Pending(n)
  BY SameQueue
<1>5. \A n : ~Pending(n)
  BY <1>1, NothingPending DEF Fresh
<1>6. Starting'
  BY <1>1, <1>4, <1>5, OneInside DEF Starting, Fresh, TypeOK, Early
<1>7. Claimed'
  BY DEF Claimed, TypeOK
<1>8. Phases'
  BY <1>1, <1>4, <1>7 DEF Phases, OfReady, OfStarted, OfCancelling, OfCancelled,
     OfDone, OfTerminated, OfTerminatedCancelled, EndPending
<1>9. Dead' /\ Joining'
  BY <1>1 DEF Dead, Joining, Fresh, TypeOK
<1> QED BY <1>2, <1>3, <1>4, <1>6, <1>8, <1>9

(* A failed pthread_create restores READY as it was. *)
LEMMA CreateFailsInv ==
    ASSUME IInv, NEW c \in Callers, CreateFails(c)
    PROVE  Core'
<1> USE DEF IInv, Core, CreateFails, Goto
<1>1. state = "STARTED" /\ Fresh /\ lock = c
  BY DEF Starting, Mutex
<1>2. TypeOK'
  BY DEF TypeOK, States
<1>3. Mutex'
  BY <1>1, OneInside, ThreadexAssumption DEF Mutex, TypeOK
<1>4. Ordered' /\ \A n : Pending(n)' <=> Pending(n)
  BY SameQueue
<1>5. Starting'
  BY <1>1, OneInside DEF Starting, TypeOK
<1>6. Phases'
  BY <1>1 DEF Phases, OfReady, OfStarted, OfCancelling, OfCancelled,
     OfDone, OfTerminated, OfTerminatedCancelled, Fresh
<1>7. Dead' /\ Joining'
  BY <1>1 DEF Dead, Joining, TypeOK, Terminated
<1> QED BY <1>2, <1>3, <1>4, <1>5, <1>6, <1>7

(* on_started is posted behind nothing but progress. *)
LEMMA PostStartedInv ==
    ASSUME IInv, NEW c \in Callers, PostStarted(c)
    PROVE  Core'
<1> USE DEF IInv, Core, PostStarted, Goto
<1>1. state = "STARTED" /\ wpc \in Early /\ ~Pending("started") /\ cbs = <<>> /\ lock = c
  BY DEF Starting, Mutex
<1>2. begun /\ opc = "idle" /\ ~EndPending /\ ~Pending("cancelling_ready")
      /\ ~Pending("cancelling_started")
  BY <1>1 DEF Phases, OfStarted
<1>3. \A n : Pending(n) => MayFollow(n, "started")
  BY <1>1, <1>2, PendingTyped DEF EndPending, Messages, MayFollow
<1>4. /\ mq' \in Seq(Messages) /\ Ordered'
      /\ \A n : Pending(n)' <=> Pending(n) \/ n = "started"
  BY <1>3, PostEffect DEF Messages
<1>5. TypeOK'
  BY <1>4 DEF TypeOK
<1>6. Mutex'
  BY DEF Mutex, TypeOK
<1>7. Starting'
  BY <1>1, OneInside DEF Starting, TypeOK
<1>8. OfStarted'
  BY <1>1, <1>2, <1>4 DEF OfStarted, StartKnown, EndPending, Early
<1>9. Phases'
  BY <1>1, <1>8 DEF Phases, OfReady, OfCancelling, OfCancelled,
     OfDone, OfTerminated, OfTerminatedCancelled
<1>10. Dead' /\ Joining'
  BY DEF Dead, Joining, TypeOK
<1> QED BY <1>4, <1>5, <1>6, <1>7, <1>9, <1>10

(* The critical section of a start or a cancel ends. *)
LEMMA UnlockInv ==
    ASSUME IInv, NEW c \in Callers, Unlock(c)
    PROVE  Core'
<1> USE DEF IInv, Core, Unlock, Goto
<1>1. lock = c
  BY DEF Mutex
<1>2. ~Claimed /\ ~Claimed'
  BY <1>1, OneInside DEF Claimed, TypeOK
<1>3. TypeOK'
  BY DEF TypeOK
<1>4. Mutex'
  BY <1>1, OneInside, ThreadexAssumption DEF Mutex, TypeOK
<1>5. Ordered' /\ \A n : Pending(n)' <=> Pending(n)
  BY SameQueue
<1>6. Starting'
  BY <1>1, OneInside DEF Starting, TypeOK
<1>7. Phases'
  BY <1>2, <1>5 DEF Phases, OfReady, OfStarted, OfCancelling, OfCancelled, OfDone,
     OfTerminated, OfTerminatedCancelled, Fresh, StartKnown, CancelKnown, EndPending
<1>8. Dead' /\ Joining'
  BY DEF Dead, Joining, TypeOK
<1> QED BY <1>3, <1>4, <1>5, <1>6, <1>7, <1>8

(* ythreadex_start_sync claims a READY thread and posts on_started. *)
LEMMA StartSyncInv ==
    ASSUME IInv, NEW c \in Callers, StartSync(c)
    PROVE  Core'
<1> USE DEF IInv, Core, StartSync, Goto
<1>1. Fresh
  BY DEF Phases, OfReady
<1>2. \A n : ~Pending(n)
  BY <1>1, NothingPending DEF Fresh
<1>3. /\ mq' \in Seq(Messages) /\ Ordered'
      /\ \A n : Pending(n)' <=> Pending(n) \/ n = "started"
  BY <1>2, PostEffect DEF Messages
<1>4. TypeOK'
  BY <1>3 DEF TypeOK, States
<1>5. Mutex'
  BY ThreadexAssumption DEF Mutex, TypeOK
<1>6. StartKnown'
  BY <1>1, <1>3 DEF StartKnown, Fresh
<1>7. Starting'
  BY <1>1, <1>6, NobodyInside DEF Starting, Fresh, TypeOK
<1>8. Claimed'
  BY DEF Claimed, TypeOK
<1>9. OfStarted'
  BY <1>1, <1>2, <1>3, <1>8 DEF OfStarted, Fresh, EndPending
<1>10. Phases'
  BY <1>9 DEF Phases, OfReady, OfCancelling, OfCancelled, OfDone, OfTerminated,
              OfTerminatedCancelled
<1>11. Dead' /\ Joining'
  BY DEF Dead, Joining, TypeOK
<1> QED BY <1>3, <1>4, <1>5, <1>7, <1>10, <1>11

(* The caller of ythreadex_start_sync becomes the background thread. *)
LEMMA RunSyncInv ==
    ASSUME IInv, NEW c \in Callers, RunSync(c)
    PROVE  Core'
<1> USE DEF IInv, Core, RunSync, Goto
<1>1. state = "STARTED" /\ wpc = "none" /\ StartKnown /\ lock = c
  BY DEF Starting, Mutex
<1>2. TypeOK'
  BY DEF TypeOK
<1>3. Mutex'
  BY <1>1, OneInside, ThreadexAssumption DEF Mutex, TypeOK
<1>4. Ordered' /\ \A n : Pending(n)' <=> Pending(n)
  BY SameQueue
<1>5. Starting'
  BY <1>1, OneInside DEF Starting, TypeOK
<1>6. Phases'
  BY <1>1, <1>4 DEF Phases, OfReady, OfStarted, OfCancelling, OfCancelled,
     OfDone, OfTerminated, OfTerminatedCancelled, EndPending, StartKnown, Early
<1>7. Dead' /\ Joining'
  BY <1>1 DEF Dead, Joining, TypeOK, Terminated
<1> QED BY <1>2, <1>3, <1>4, <1>5, <1>6, <1>7

(* A caller outside every critical section moves without touching the      *)
(* thread.                                                                 *)
LEMMA OutsideMove ==
    ASSUME IInv, NEW c \in Callers, NEW pos \in {"idle", "sync", "join", "joined"},
           cpc[c] \in {"idle", "sync", "join", "joined"},
           Goto(c, pos),
           QuietDestroy /\ ~alive => pos = "idle",
           pos = "joined" => wpc = "end",
           thread' \in BOOLEAN,
           UNCHANGED <<alive, state, lock, begun, mq, wpc, posted, opc, cbs, nprog>>
    PROVE  Core'
<1> USE DEF IInv, Core, Goto
<1>1. TypeOK'
  BY DEF TypeOK
<1>2. Mutex'
  BY DEF Mutex, TypeOK
<1>3. Ordered' /\ \A n : Pending(n)' <=> Pending(n)
  BY SameQueue
<1>4. Starting'
  BY <1>3 DEF Starting, Fresh, StartKnown, TypeOK
<1>5. Claimed' <=> Claimed
  BY DEF Claimed, TypeOK
<1>6. Phases'
  BY <1>3, <1>5 DEF Phases, OfReady, OfStarted, OfCancelling, OfCancelled, OfDone,
     OfTerminated, OfTerminatedCancelled, Fresh, StartKnown, CancelKnown, EndPending
<1>7. Dead' /\ Joining'
  BY DEF Dead, Joining, TypeOK
<1> QED BY <1>1, <1>2, <1>3, <1>4, <1>6, <1>7

(* The steps of a caller outside the critical sections. *)
LEMMA OutsideInv ==
    ASSUME IInv, NEW c \in Callers,
           SyncReturns(c) \/ Join(c) \/ JoinReturns(c) \/ Joined(c)
    PROVE  Core'
<1>1. TypeOK /\ Joining
  BY DEF IInv, Core
<1>2. CASE SyncReturns(c)
  BY <1>1, <1>2, OutsideMove DEF SyncReturns, TypeOK
<1>3. CASE Join(c)
  BY <1>1, <1>3, OutsideMove DEF Join, TypeOK
<1>4. CASE JoinReturns(c)
  <2>1. QuietDestroy => alive
    BY <1>1, <1>4 DEF JoinReturns, Joining
  <2> QED BY <1>1, <1>4, <2>1, OutsideMove DEF JoinReturns
<1>5. CASE Joined(c)
  BY <1>1, <1>5, OutsideMove DEF Joined, TypeOK
<1> QED BY <1>2, <1>3, <1>4, <1>5

(* A cancel moves the state and posts on_cancelling; only a cancel of a    *)
(* thread that was never started leaves the rest to the owner.             *)
LEMMA CancelLockInv ==
    ASSUME IInv, NEW c \in Callers, CancelLock(c)
    PROVE  Core'
<1> USE DEF IInv, Core, CancelLock, Goto
<1>1. ~Claimed /\ \A d \in Callers : cpc[d] \notin {"create", "post", "unlock", "unlock_sync"}
  BY NobodyInside
<1>2. ~Claimed'
  BY <1>1 DEF Claimed, TypeOK
<1>3. Mutex'
  BY ThreadexAssumption DEF Mutex, TypeOK
<1>4. Starting'
  BY <1>1 DEF Starting, TypeOK
<1>5. Joining'
  BY DEF Joining, TypeOK
<1>6. Dead'
  BY DEF Dead, Terminated
<1>7. ASSUME state = "READY", Post("cancelling_ready")
      PROVE  TypeOK' /\ Ordered' /\ Phases'
  <2>1. Fresh /\ ~begun
    BY <1>7 DEF Phases, OfReady
  <2>2. \A n : ~Pending(n)
    BY <2>1, NothingPending DEF Fresh
  <2>3. mq' \in Seq(Messages) /\ Ordered' /\ mq' = <<"cancelling_ready">>
    BY <1>7, <2>1, <2>2, PostEffect DEF Messages, Fresh
  <2>4. TypeOK'
    BY <2>3 DEF TypeOK, States
  <2>5. OfCancelling'
    BY <2>1, <2>3 DEF OfCancelling, Fresh
  <2> QED BY <2>3, <2>4, <2>5 DEF Phases, OfReady, OfStarted, OfCancelled, OfDone,
             OfTerminated, OfTerminatedCancelled
<1>8. ASSUME state = "STARTED", Post("cancelling_started")
      PROVE  TypeOK' /\ Ordered' /\ Phases'
  <2>1. /\ begun /\ opc = "idle" /\ wpc \in Early /\ StartKnown
        /\ ~EndPending /\ ~Pending("cancelling_ready") /\ ~Pending("cancelling_started")
    BY <1>1, <1>8 DEF Phases, OfStarted
  <2>2. \A n : Pending(n) => MayFollow(n, "cancelling_started")
    BY <2>1, PendingTyped DEF EndPending, Messages, MayFollow
  <2>3. /\ mq' \in Seq(Messages) /\ Ordered'
        /\ \A n : Pending(n)' <=> Pending(n) \/ n = "cancelling_started"
    BY <1>8, <2>2, PostEffect DEF Messages
  <2>4. TypeOK'
    BY <2>3 DEF TypeOK, States
  <2>5. OfCancelling'
    BY <2>1, <2>3 DEF OfCancelling, StartKnown, CancelKnown, EndPending, Early
  <2> QED BY <2>3, <2>4, <2>5 DEF Phases, OfReady, OfStarted, OfCancelled, OfDone,
             OfTerminated, OfTerminatedCancelled
<1> QED BY <1>3, <1>4, <1>5, <1>6, <1>7, <1>8

(* Destroy changes nothing but the existence of the object. *)
LEMMA DestroyInv ==
    ASSUME IInv, NEW c \in Callers, Destroy(c)
    PROVE  Core'
<1> USE DEF IInv, Core, Destroy
<1>1. Ordered' /\ \A n : Pending(n)' <=> Pending(n)
  BY SameQueue
<1>2. TypeOK' /\ Mutex' /\ Dead' /\ Joining'
  BY DEF TypeOK, Mutex, Dead, Joining
<1>3. Starting' /\ Phases'
  BY <1>1 DEF Starting, Phases, OfReady, OfStarted, OfCancelling, OfCancelled, OfDone,
     OfTerminated, OfTerminatedCancelled, Fresh, StartKnown, CancelKnown, EndPending,
     Claimed, Terminated
<1> QED BY <1>1, <1>2, <1>3

(* A new object finds the queue without any message of the old one. *)
LEMMA CreateInv ==
    ASSUME IInv, NEW c \in Callers, Create(c)
    PROVE  Core'
<1> USE DEF IInv, Core, Create
<1>1. mq = <<>> /\ opc = "idle"
  BY DEF Phases, OfTerminated, OfTerminatedCancelled, Dead, Terminated
<1>2. TypeOK'
  <2>1. 0 \in 0 .. MaxProgress /\ <<>> \in Seq({"started", "cancelling", "cancelled", "done"})
    BY ThreadexAssumption
  <2> QED BY <2>1 DEF TypeOK, States
<1>3. Ordered'
  BY SameQueue
<1>4. Mutex' /\ Dead' /\ Joining'
  BY DEF Mutex, Dead, Joining
<1>5. Starting'
  BY NobodyInside DEF Starting
<1>6. Phases'
  BY <1>1 DEF Phases, OfReady, OfStarted, OfCancelling, OfCancelled, OfDone,
     OfTerminated, OfTerminatedCancelled, Fresh
<1> QED BY <1>2, <1>3, <1>4, <1>5, <1>6

------------------------------------------------------------------------------
(* While the background thread may still run the user's function, the      *)
(* state is STARTED or CANCELLING and the owner has no final message.      *)
LEMMA EarlyState ==
    ASSUME IInv, wpc \in Early
    PROVE  /\ state \in {"STARTED", "CANCELLING"}
           /\ begun /\ opc = "idle" /\ alive
           /\ ~EndPending /\ ~Pending("cancelling_ready")
  BY DEF IInv, Core, TypeOK, States, Early, Phases, OfReady, OfStarted, OfCancelling, OfCancelled,
         OfDone, OfTerminated, OfTerminatedCancelled, Fresh, Dead, Terminated

(* The background thread moves on within its user's function. *)
LEMMA EarlyInv ==
    ASSUME IInv, Main \/ PublishCheck \/ RunReturns
    PROVE  Core'
<1> USE DEF IInv, Core
<1>1. /\ wpc \in Early /\ wpc' \in Early
      /\ UNCHANGED <<alive, state, lock, begun, thread, mq, cpc, posted, opc, cbs, nprog>>
  BY DEF Main, PublishCheck, RunReturns, Early
<1>2. state \in {"STARTED", "CANCELLING"} /\ begun
  BY <1>1, EarlyState
<1>3. Ordered' /\ \A n : Pending(n)' <=> Pending(n)
  BY <1>1, SameQueue
<1>4. TypeOK'
  BY <1>1 DEF TypeOK, Early
<1>5. Mutex' /\ Dead' /\ Joining'
  BY <1>1 DEF Mutex, Dead, Joining, Early
<1>6. Starting'
  BY <1>1, <1>3 DEF Starting, Fresh, Early
<1>7. Phases'
  BY <1>1, <1>2, <1>3 DEF Phases, OfReady, OfStarted, OfCancelling, OfCancelled, OfDone,
     OfTerminated, OfTerminatedCancelled, StartKnown, CancelKnown, EndPending, Claimed
<1> QED BY <1>3, <1>4, <1>5, <1>6, <1>7

(* Progress is posted before any final message. *)
LEMMA PublishPostInv ==
    ASSUME IInv, PublishPost
    PROVE  Core'
<1> USE DEF IInv, Core, PublishPost
<1>1. /\ state \in {"STARTED", "CANCELLING"} /\ begun
      /\ ~EndPending /\ ~Pending("cancelling_ready")
  BY EarlyState DEF Early
<1>2. \A n : Pending(n) => MayFollow(n, "progress")
  BY <1>1, PendingTyped DEF EndPending, Messages, MayFollow
<1>3. /\ mq' \in Seq(Messages) /\ Ordered'
      /\ \A n : Pending(n)' <=> Pending(n) \/ n = "progress"
  BY <1>2, PostEffect DEF Messages
<1>4. TypeOK'
  BY <1>3, ThreadexAssumption DEF TypeOK, Room
<1>5. Mutex' /\ Dead' /\ Joining'
  BY DEF Mutex, Dead, Joining
<1>6. Starting'
  BY <1>3 DEF Starting, Fresh, Early
<1>7. Phases'
  BY <1>1, <1>3 DEF Phases, OfReady, OfStarted, OfCancelling, OfCancelled, OfDone,
     OfTerminated, OfTerminatedCancelled, StartKnown, CancelKnown, EndPending, Claimed, Early
<1> QED BY <1>3, <1>4, <1>5, <1>6, <1>7

(* The outcome is decided while no start is inside its critical section. *)
LEMMA CleanupInv ==
    ASSUME IInv, Cleanup
    PROVE  Core'
<1> USE DEF IInv, Core, Cleanup
<1>1. /\ state \in {"STARTED", "CANCELLING"} /\ begun /\ alive
      /\ opc = "idle" /\ ~EndPending /\ ~Pending("cancelling_ready")
  BY EarlyState DEF Early
<1>2. ~Claimed /\ \A d \in Callers : cpc[d] \notin {"create", "post", "unlock", "unlock_sync"}
  BY NobodyInside
<1>3. Ordered' /\ \A n : Pending(n)' <=> Pending(n)
  BY SameQueue
<1>4. TypeOK'
  BY DEF TypeOK, States
<1>5. Mutex' /\ Dead' /\ Joining'
  BY <1>1 DEF Mutex, Dead, Joining
<1>6. Starting'
  BY <1>2 DEF Starting
<1>7. Phases'
  BY <1>1, <1>2, <1>3 DEF Phases, OfReady, OfStarted, OfCancelling, OfCancelled, OfDone,
     OfTerminated, OfTerminatedCancelled, StartKnown, CancelKnown, EndPending
<1> QED BY <1>3, <1>4, <1>5, <1>6, <1>7

(* The final message is posted behind everything else. *)
LEMMA CleanupPostInv ==
    ASSUME IInv, CleanupPost
    PROVE  Core'
<1> USE DEF IInv, Core, CleanupPost
<1>1. ASSUME wpc = "post_cancelled", Post("cancelled") PROVE Core'
  <2>1. /\ state = "CANCELLED" /\ begun /\ opc = "idle" /\ CancelKnown
        /\ ~EndPending /\ ~Pending("cancelling_ready")
    BY <1>1 DEF TypeOK, States, Phases, OfReady, OfStarted, OfCancelling, OfCancelled,
       OfDone, OfTerminated, OfTerminatedCancelled, Fresh, Early, Claimed, Starting
  <2>2. \A n : Pending(n) => MayFollow(n, "cancelled")
    BY <2>1, PendingTyped DEF EndPending, Messages, MayFollow
  <2>3. /\ mq' \in Seq(Messages) /\ Ordered'
        /\ \A n : Pending(n)' <=> Pending(n) \/ n = "cancelled"
    BY <1>1, <2>2, PostEffect DEF Messages
  <2>4. TypeOK' /\ Mutex' /\ Dead' /\ Joining'
    BY <2>3 DEF TypeOK, Mutex, Dead, Joining
  <2>5. Starting'
    BY <2>1 DEF Starting
  <2>6. Phases'
    BY <2>1, <2>3 DEF Phases, OfReady, OfStarted, OfCancelling, OfCancelled, OfDone,
       OfTerminated, OfTerminatedCancelled, StartKnown, CancelKnown, EndPending
  <2> QED BY <2>3, <2>4, <2>5, <2>6
<1>2. ASSUME wpc = "post_done", Post("done") PROVE Core'
  <2>1. /\ state = "DONE" /\ begun /\ opc = "idle" /\ StartKnown
        /\ ~EndPending /\ ~Pending("cancelling_ready") /\ ~Pending("cancelling_started")
    BY <1>2 DEF TypeOK, States, Phases, OfReady, OfStarted, OfCancelling, OfCancelled,
       OfDone, OfTerminated, OfTerminatedCancelled, Fresh, Early, Claimed, Starting
  <2>2. \A n : Pending(n) => MayFollow(n, "done")
    BY <2>1, PendingTyped DEF EndPending, Messages, MayFollow
  <2>3. /\ mq' \in Seq(Messages) /\ Ordered'
        /\ \A n : Pending(n)' <=> Pending(n) \/ n = "done"
    BY <1>2, <2>2, PostEffect DEF Messages
  <2>4. TypeOK' /\ Mutex' /\ Dead' /\ Joining'
    BY <2>3 DEF TypeOK, Mutex, Dead, Joining
  <2>5. Starting'
    BY <2>1 DEF Starting
  <2>6. Phases'
    BY <2>1, <2>3 DEF Phases, OfReady, OfStarted, OfCancelling, OfCancelled, OfDone,
       OfTerminated, OfTerminatedCancelled, StartKnown, CancelKnown, EndPending
  <2> QED BY <2>3, <2>4, <2>5, <2>6
<1> QED BY <1>1, <1>2

------------------------------------------------------------------------------
(* A single message of a thread that was never started is no message of a  *)
(* started one, and nothing is queued in the first and the last states.    *)
LEMMA LonelyMessage ==
    ASSUME NEW m, mq = <<m>>
    PROVE  Head(mq) = m /\ Tail(mq) = <<>>
  OBVIOUS

(* on_started is in the queue only while nothing has been heard.           *)
LEMMA StartedPending ==
    ASSUME IInv, Pending("started")
    PROVE  /\ begun /\ cbs = <<>> /\ opc = "idle" /\ StartKnown
           /\ state \in {"STARTED", "CANCELLING", "CANCELLED", "DONE"}
<1> USE DEF IInv, Core
<1>1. mq # <<>>
  BY NothingPending
<1>2. \A m : mq = <<m>> => m = "started"
  BY OnePending
<1>3. CASE state = "STARTED"
  <2>1. StartKnown
    BY <1>1, <1>3 DEF Phases, OfStarted, Starting, Claimed, Fresh
  <2> QED BY <1>3, <2>1 DEF Phases, OfStarted, StartKnown
<1>4. CASE state = "CANCELLING"
  BY <1>1, <1>2, <1>4 DEF Phases, OfCancelling, CancelKnown, StartKnown
<1>5. CASE state = "CANCELLED"
  BY <1>1, <1>2, <1>5 DEF Phases, OfCancelled, CancelKnown, StartKnown
<1>6. CASE state = "DONE"
  BY <1>1, <1>6 DEF Phases, OfDone, StartKnown
<1>7. state \notin {"READY", "TERMINATED", "TERMINATED_CANCELLED"}
  BY <1>1 DEF Phases, OfReady, OfTerminated, OfTerminatedCancelled, Fresh
<1> QED BY <1>3, <1>4, <1>5, <1>6, <1>7 DEF TypeOK, States

(* The listener hears on_started once, before anything else. *)
LEMMA OnStartedInv ==
    ASSUME IInv, OnStarted
    PROVE  Core'
<1> USE DEF IInv, Core, OnStarted, Hear
<1>1. /\ mq' \in Seq(Messages) /\ Ordered'
      /\ Pending("started") /\ ~Pending("started")'
      /\ \A n : n # "started" => (Pending(n)' <=> Pending(n))
  BY TakeEffect DEF MayFollow
<1>2. /\ begun /\ cbs = <<>> /\ cbs' = <<"started">> /\ mq # <<>>
      /\ state \in {"STARTED", "CANCELLING", "CANCELLED", "DONE"}
  BY <1>1, StartedPending
<1>3. TypeOK'
  BY <1>1, <1>2 DEF TypeOK
<1>4. Mutex' /\ Dead' /\ Joining'
  BY DEF Mutex, Dead, Joining
<1>5. Starting'
  BY <1>1, <1>2 DEF Starting, Fresh, StartKnown
<1>6. Claimed' <=> Claimed
  BY DEF Claimed
<1>7. StartKnown'
  BY <1>1, <1>2 DEF StartKnown
<1>8. CancelKnown => CancelKnown'
  BY <1>1, <1>2, <1>7 DEF CancelKnown
<1>9. EndPending' <=> EndPending
  BY <1>1 DEF EndPending
<1>10. OfStarted' /\ OfDone'
  BY <1>1, <1>2, <1>6, <1>7, <1>9 DEF Phases, OfStarted, OfDone
<1>11. OfCancelling' /\ OfCancelled'
  BY <1>1, <1>2, <1>8, <1>9 DEF Phases, OfCancelling, OfCancelled
<1>12. Phases'
  BY <1>2, <1>10, <1>11 DEF Phases, OfReady, OfTerminated, OfTerminatedCancelled
<1> QED BY <1>1, <1>3, <1>4, <1>5, <1>12

(* Progress changes nothing of the life cycle. *)
LEMMA OnProgressInv ==
    ASSUME IInv, OnProgress
    PROVE  Core'
<1> USE DEF IInv, Core, OnProgress
<1>1. /\ mq' \in Seq(Messages) /\ Ordered'
      /\ \A n : n # "progress" => (Pending(n)' <=> Pending(n))
  BY TakeEffect
<1>2. nprog' \in 0 .. MaxProgress
  <2>1. 1 \in ProgressAt /\ IsFiniteSet(ProgressAt) /\ Cardinality(ProgressAt) \in Nat
    BY ProgressCounted DEF ProgressAt, TypeOK
  <2>2. Cardinality(ProgressAt) # 0
    BY <2>1, FS_EmptySet
  <2> QED BY <2>1, <2>2, ThreadexAssumption DEF ProgressExact, TypeOK
<1>3. TypeOK'
  BY <1>1, <1>2 DEF TypeOK
<1>4. Mutex' /\ Dead' /\ Joining'
  BY DEF Mutex, Dead, Joining
<1>5. mq # <<>> /\ \A m : mq = <<m>> => m = "progress"
  BY LonelyMessage
<1>6. Starting'
  BY <1>1, <1>5 DEF Starting, Fresh, StartKnown
<1>7. /\ Claimed' <=> Claimed
      /\ EndPending' <=> EndPending
      /\ StartKnown' <=> StartKnown
      /\ CancelKnown' <=> CancelKnown
  BY <1>1 DEF Claimed, EndPending, StartKnown, CancelKnown
<1>8. OfStarted' /\ OfDone'
  BY <1>1, <1>5, <1>7 DEF Phases, OfStarted, OfDone
<1>9. OfCancelling' /\ OfCancelled'
  BY <1>1, <1>5, <1>7 DEF Phases, OfCancelling, OfCancelled
<1>10. OfReady' /\ OfTerminated' /\ OfTerminatedCancelled'
  BY <1>5 DEF Phases, OfReady, OfTerminated, OfTerminatedCancelled, Fresh
<1> QED BY <1>1, <1>3, <1>4, <1>6, <1>8, <1>9, <1>10 DEF Phases

(* on_cancelling of a started thread follows on_started; of one that was   *)
(* never started it is the only message there is.                          *)
LEMMA OnCancellingInv ==
    ASSUME IInv, OnCancelling
    PROVE  Core'
<1> USE DEF IInv, Core, OnCancelling, Hear
<1>1. /\ mq' \in Seq(Messages) /\ Ordered' /\ mq # <<>> /\ opc = "idle"
      /\ Pending(Head(mq)) /\ cbs' = Append(cbs, "cancelling")
      /\ UNCHANGED <<alive, state, lock, begun, thread, cpc, wpc>>
  BY TakeEffect
<1>2. Mutex' /\ Dead' /\ Joining'
  BY DEF Mutex, Dead, Joining
<1>3. TypeOK'
  BY <1>1 DEF TypeOK
<1>4. ASSUME Head(mq) = "cancelling_started" PROVE Starting' /\ Phases'
  <2>1. /\ Pending("cancelling_started") /\ ~Pending("cancelling_started")'
        /\ ~Pending("started") /\ ~Pending("started")'
        /\ \A n : n # "cancelling_started" => (Pending(n)' <=> Pending(n))
    BY <1>4, TakeEffect DEF MayFollow
  <2>2. \A m : mq = <<m>> => m = "cancelling_started"
    BY <1>4, LonelyMessage
  <2>3. begun /\ CancelKnown /\ state \in {"CANCELLING", "CANCELLED"}
    BY <1>1, <2>1, <2>2 DEF TypeOK, States, Phases, OfReady, OfStarted, OfCancelling,
       OfCancelled, OfDone, OfTerminated, OfTerminatedCancelled, Fresh
  <2>4. cbs' = <<"started", "cancelling">>
    <3>1. cbs = <<"started">>
      BY <2>1, <2>3 DEF CancelKnown, StartKnown
    <3> QED BY <1>1, <3>1, Hearing
  <2>5. CancelKnown' /\ (EndPending' <=> EndPending)
    BY <2>1, <2>4 DEF CancelKnown, EndPending
  <2>6. opc' = "idle"
    BY <1>4
  <2>7. Starting'
    BY <1>1, <2>3 DEF Starting
  <2>8. OfCancelling' /\ OfCancelled'
    BY <1>1, <2>1, <2>3, <2>5, <2>6 DEF Phases, OfCancelling, OfCancelled
  <2> QED BY <1>1, <2>3, <2>7, <2>8 DEF Phases, OfReady, OfStarted, OfDone, OfTerminated,
             OfTerminatedCancelled
<1>5. ASSUME Head(mq) = "cancelling_ready" PROVE Starting' /\ Phases'
  <2>1. Pending("cancelling_ready")
    BY <1>1, <1>5
  <2>2. state = "CANCELLING" /\ ~begun /\ wpc = "none" /\ cbs = <<>>
        /\ mq = <<"cancelling_ready">>
    <3>1. \A m : mq = <<m>> => m = "cancelling_ready"
      BY <1>5, LonelyMessage
    <3> QED BY <1>1, <2>1, <3>1 DEF TypeOK, States, Phases, OfReady, OfStarted, OfCancelling,
               OfCancelled, OfDone, OfTerminated, OfTerminatedCancelled, Fresh
  <2>3. mq' = <<>> /\ cbs' = <<"cancelling">> /\ opc' = "cancelling"
    BY <1>1, <1>5, <2>2
  <2>4. Starting'
    BY <1>1, <2>2 DEF Starting
  <2> QED BY <1>1, <2>2, <2>3, <2>4 DEF Phases, OfReady, OfStarted, OfCancelling, OfCancelled,
             OfDone, OfTerminated, OfTerminatedCancelled
<1> QED BY <1>1, <1>2, <1>3, <1>4, <1>5

(* The owner cancels a thread that was never started. *)
LEMMA FinishCancellingInv ==
    ASSUME IInv, FinishCancelling
    PROVE  Core'
<1> USE DEF IInv, Core, FinishCancelling
<1>1. /\ state = "CANCELLING" /\ ~begun /\ wpc = "none"
      /\ mq = <<>> /\ cbs = <<"cancelling">> /\ alive
  BY DEF TypeOK, States, Phases, OfReady, OfStarted, OfCancelling, OfCancelled, OfDone,
     OfTerminated, OfTerminatedCancelled, Fresh, Dead, Terminated
<1>2. mq' \in Seq(Messages) /\ Ordered' /\ mq' = <<"cancelled">>
  BY <1>1, NothingPending, PostEffect DEF Messages
<1>3. TypeOK'
  BY <1>2 DEF TypeOK, States
<1>4. Mutex' /\ Dead' /\ Joining'
  BY <1>1 DEF Mutex, Dead, Joining
<1>5. Starting'
  BY <1>1 DEF Starting
<1>6. Phases'
  BY <1>1, <1>2 DEF Phases, OfReady, OfStarted, OfCancelling, OfCancelled, OfDone,
     OfTerminated, OfTerminatedCancelled
<1> QED BY <1>2, <1>3, <1>4, <1>5, <1>6

(* A final message is the last one in the queue, and everything that was   *)
(* due before it has been heard.                                           *)
LEMMA EndIsLast ==
    ASSUME IInv, opc = "idle", mq # <<>>, Head(mq) \in {"cancelled", "done"}
    PROVE  /\ Tail(mq) = <<>>
           /\ alive
           /\ \/ /\ Head(mq) = "done" /\ state = "DONE" /\ begun /\ wpc = "end"
                 /\ cbs = <<"started">>
              \/ /\ Head(mq) = "cancelled" /\ state = "CANCELLED" /\ begun /\ wpc = "end"
                 /\ cbs = <<"started", "cancelling">>
              \/ /\ Head(mq) = "cancelled" /\ state = "CANCELLED" /\ ~begun /\ wpc = "none"
                 /\ cbs = <<"cancelling">>
<1> USE DEF IInv, Core
<1>1. mq \in Seq(Messages) /\ Len(mq) \in Nat /\ Len(mq) > 0 /\ mq[1] = Head(mq)
  BY DEF TypeOK
<1>2. Len(mq) = 1
  <2>1. ASSUME Len(mq) # 1 PROVE FALSE
    <3>1. 1 \in 1 .. Len(mq) /\ 2 \in 1 .. Len(mq) /\ 1 < 2
      BY <1>1, <2>1
    <3>2. MayFollow(mq[1], mq[2])
      BY <3>1 DEF Ordered
    <3> QED BY <1>1, <3>2 DEF MayFollow
  <2> QED BY <2>1
<1>3. Tail(mq) = <<>>
  BY <1>1, <1>2
<1>4. \A n : Pending(n) <=> n = Head(mq)
  BY <1>1, <1>2 DEF Pending
<1>5. \A m : mq = <<m>> => m = Head(mq)
  BY LonelyMessage
<1>6. CASE Head(mq) = "done"
  <2>1. state = "DONE" /\ begun /\ wpc = "end" /\ StartKnown
    BY <1>4, <1>5, <1>6 DEF TypeOK, States, Phases, OfReady, OfStarted, OfCancelling,
       OfCancelled, OfDone, OfTerminated, OfTerminatedCancelled, Fresh, EndPending
  <2> QED BY <1>3, <1>4, <1>6, <2>1 DEF StartKnown, Dead, Terminated
<1>7. CASE Head(mq) = "cancelled"
  <2>1. state = "CANCELLED"
    BY <1>4, <1>5, <1>7 DEF TypeOK, States, Phases, OfReady, OfStarted, OfCancelling,
       OfCancelled, OfDone, OfTerminated, OfTerminatedCancelled, Fresh, EndPending
  <2>2. \/ begun /\ wpc = "end" /\ CancelKnown
        \/ ~begun /\ wpc = "none" /\ cbs = <<"cancelling">>
    BY <1>4, <1>7, <2>1 DEF Phases, OfCancelled, EndPending
  <2>3. CancelKnown => cbs = <<"started", "cancelling">>
    BY <1>4, <1>7 DEF CancelKnown
  <2> QED BY <1>3, <1>7, <2>1, <2>2, <2>3 DEF Dead, Terminated
<1> QED BY <1>6, <1>7

(* The listener hears the outcome; nothing is queued any more. *)
LEMMA OnEndInv ==
    ASSUME IInv, OnEnd
    PROVE  Core'
<1> USE DEF IInv, Core, OnEnd, Hear
<1>1. mq' \in Seq(Messages) /\ Ordered' /\ mq' = <<>>
  BY TakeEffect, EndIsLast
<1>2. TypeOK'
  BY <1>1 DEF TypeOK
<1>3. Mutex' /\ Dead' /\ Joining'
  BY DEF Mutex, Dead, Joining
<1>4. state \in {"DONE", "CANCELLED"} /\ Starting'
  BY EndIsLast DEF Starting
<1>5. ~EndPending' /\ ~Pending("done")' /\ ~Pending("cancelled")'
      /\ ~Pending("cancelling_ready")' /\ ~Pending("cancelling_started")'
  BY <1>1 DEF EndPending, Pending
<1>6. CASE Head(mq) = "done"
  <2>1. state = "DONE" /\ begun /\ wpc = "end" /\ cbs = <<"started">>
    BY <1>6, EndIsLast
  <2>2. cbs' = <<"started", "done">> /\ opc' = "done"
    BY <1>6, <2>1, Hearing
  <2> QED BY <1>1, <1>2, <1>3, <1>4, <1>5, <2>1, <2>2 DEF Phases, OfReady, OfStarted,
             OfCancelling, OfCancelled, OfDone, OfTerminated, OfTerminatedCancelled
<1>7. CASE Head(mq) = "cancelled"
  <2>1. /\ state = "CANCELLED" /\ opc' = "cancelled"
        /\ \/ begun /\ wpc = "end" /\ cbs = <<"started", "cancelling">>
           \/ ~begun /\ wpc = "none" /\ cbs = <<"cancelling">>
    BY <1>7, EndIsLast
  <2>2. \/ begun /\ wpc = "end" /\ cbs' = <<"started", "cancelling", "cancelled">>
        \/ ~begun /\ wpc = "none" /\ cbs' = <<"cancelling", "cancelled">>
    <3>1. CASE begun
      BY <1>7, <2>1, <3>1, Hearing
    <3>2. CASE ~begun
      BY <1>7, <2>1, <3>2, Hearing
    <3> QED BY <3>1, <3>2
  <2> QED BY <1>1, <1>2, <1>3, <1>4, <1>5, <2>1, <2>2 DEF Phases, OfReady, OfStarted,
             OfCancelling, OfCancelled, OfDone, OfTerminated, OfTerminatedCancelled
<1> QED BY <1>6, <1>7

(* What is known when the final callback has returned. *)
LEMMA Finishing ==
    ASSUME IInv, opc \in {"cancelled", "done"}
    PROVE  /\ mq = <<>> /\ alive
           /\ \/ /\ opc = "done" /\ state = "DONE" /\ begun /\ wpc = "end"
                 /\ cbs = <<"started", "done">>
              \/ /\ opc = "cancelled" /\ state = "CANCELLED"
                 /\ \/ begun /\ wpc = "end" /\ cbs = <<"started", "cancelling", "cancelled">>
                    \/ ~begun /\ wpc = "none" /\ cbs = <<"cancelling", "cancelled">>
  BY DEF IInv, Core, TypeOK, States, Phases, OfReady, OfStarted, OfCancelling, OfCancelled,
     OfDone, OfTerminated, OfTerminatedCancelled, Fresh, Dead, Terminated

(* The owner writes the final state. *)
LEMMA FinishEndInv ==
    ASSUME IInv, FinishEnd
    PROVE  Core'
<1> USE DEF IInv, Core, FinishEnd
<1>1. Ordered'
  BY SameQueue
<1>2. TypeOK'
  BY DEF TypeOK, States
<1>3. Mutex' /\ Dead' /\ Joining'
  BY Finishing DEF Mutex, Dead, Joining
<1>4. Starting'
  BY Finishing DEF Starting
<1>5. Phases'
  BY Finishing DEF Phases, OfReady, OfStarted, OfCancelling, OfCancelled, OfDone,
     OfTerminated, OfTerminatedCancelled
<1> QED BY <1>1, <1>2, <1>3, <1>4, <1>5

------------------------------------------------------------------------------
(* The count of progress, step by step. *)
LEMMA CountInv ==
    ASSUME IInv, [Next]_vars
    PROVE  (Room /\ ProgressExact)'
<1> USE DEF IInv, Core
<1>1. mq \in Seq(Messages) /\ posted \in Nat /\ nprog \in Nat
  BY ThreadexAssumption DEF TypeOK
<1>2. Cardinality(ProgressAt) \in Nat
  BY <1>1, ProgressCounted
<1>3. ASSUME UNCHANGED <<mq, wpc, posted, nprog>> PROVE (Room /\ ProgressExact)'
  BY <1>3 DEF Room, ProgressExact, ProgressAt
<1>4. ASSUME NEW m \in Messages, m # "progress", Post(m), UNCHANGED <<wpc, posted, nprog>>
      PROVE  (Room /\ ProgressExact)'
  BY <1>1, <1>4, PostCount DEF Room, ProgressExact
<1>5. ASSUME mq # <<>>, Head(mq) # "progress", mq' = Tail(mq), UNCHANGED <<wpc, posted, nprog>>
      PROVE  (Room /\ ProgressExact)'
  BY <1>1, <1>5, TakeCount DEF Room, ProgressExact
<1>6. ASSUME NEW c \in Callers, Caller(c) PROVE (Room /\ ProgressExact)'
  <2>1. CASE PostStarted(c) \/ StartSync(c)
    BY <1>4, <2>1 DEF PostStarted, StartSync, Messages
  <2>2. CASE CancelLock(c)
    BY <1>4, <2>2 DEF CancelLock, Messages
  <2>3. CASE Create(c)
    <3>1. mq = <<>>
      BY <2>3 DEF Create, Phases, OfTerminated, OfTerminatedCancelled, Dead, Terminated
    <3>2. ProgressAt' = {}
      BY <2>3, <3>1 DEF Create, ProgressAt
    <3>3. Cardinality(ProgressAt)' = 0
      BY <3>2, FS_EmptySet
    <3> QED BY <2>3, <3>3 DEF Create, Room, ProgressExact
  <2>4. CASE CreateThread(c) \/ RunSync(c)
    BY <2>4 DEF CreateThread, RunSync, Room, ProgressExact, ProgressAt
  <2>5. CASE \/ StartLock(c) \/ Join(c) \/ CreateFails(c) \/ Unlock(c) \/ SyncReturns(c)
             \/ JoinReturns(c) \/ Joined(c) \/ Destroy(c)
    BY <1>3, <2>5 DEF StartLock, Join, CreateFails, Unlock, SyncReturns, JoinReturns, Joined,
       Destroy
  <2> QED BY <1>6, <2>1, <2>2, <2>3, <2>4, <2>5 DEF Caller, CallProgress
<1>7. ASSUME Worker PROVE (Room /\ ProgressExact)'
  <2>1. CASE PublishPost
    <3>1. Cardinality(ProgressAt)' = Cardinality(ProgressAt) + 1
      BY <1>1, <2>1, PostCount DEF PublishPost, Messages
    <3> QED BY <1>1, <1>2, <2>1, <3>1 DEF PublishPost, Room, ProgressExact
  <2>2. CASE CleanupPost
    <3>1. ASSUME NEW m \in {"cancelled", "done"}, Post(m), wpc' = "end", UNCHANGED <<posted, nprog>>
          PROVE  (Room /\ ProgressExact)'
      BY <1>1, <3>1, PostCount DEF Room, ProgressExact, Messages
    <3> QED BY <2>2, <3>1 DEF CleanupPost
  <2>3. CASE Main \/ PublishCheck \/ RunReturns \/ Cleanup
    BY <2>3 DEF Main, PublishCheck, RunReturns, Cleanup, Room, ProgressExact, ProgressAt
  <2> QED BY <1>7, <2>1, <2>2, <2>3 DEF Worker
<1>8. ASSUME Owner PROVE (Room /\ ProgressExact)'
  <2>1. CASE OnProgress
    <3>1. Cardinality(ProgressAt)' = Cardinality(ProgressAt) - 1
      BY <1>1, <2>1, TakeCount DEF OnProgress
    <3> QED BY <1>1, <1>2, <2>1, <3>1 DEF OnProgress, Room, ProgressExact
  <2>2. CASE OnStarted \/ OnCancelling \/ OnEnd
    BY <1>5, <2>2 DEF OnStarted, OnCancelling, OnEnd
  <2>3. CASE FinishCancelling
    BY <1>4, <2>3 DEF FinishCancelling, Messages
  <2>4. CASE FinishEnd
    BY <1>3, <2>4 DEF FinishEnd
  <2> QED BY <1>8, <2>1, <2>2, <2>3, <2>4 DEF Owner
<1>9. CASE UNCHANGED vars
  BY <1>3, <1>9 DEF vars
<1> QED BY <1>6, <1>7, <1>8, <1>9 DEF Next

(* A new object satisfies the invariant. *)
LEMMA InitInv == Init => IInv
<1> SUFFICES ASSUME Init PROVE IInv
  OBVIOUS
<1> USE DEF Init, IInv, Core
<1>1. TypeOK
  <2>1. 0 \in 0 .. MaxProgress /\ <<>> \in Seq({"started", "cancelling", "cancelled", "done"})
        /\ <<>> \in Seq(Messages)
    BY ThreadexAssumption
  <2> QED BY <2>1 DEF TypeOK, States
<1>2. Mutex /\ Ordered /\ Starting /\ Dead /\ Joining /\ Room
  BY ThreadexAssumption DEF Mutex, Ordered, Starting, Dead, Joining, Room
<1>3. Phases
  BY DEF Phases, OfReady, OfStarted, OfCancelling, OfCancelled, OfDone, OfTerminated,
     OfTerminatedCancelled, Fresh
<1>4. ProgressExact
  <2>1. ProgressAt = {}
    BY DEF ProgressAt
  <2>2. Cardinality(ProgressAt) = 0
    BY <2>1, FS_EmptySet
  <2> QED BY <2>2 DEF ProgressExact
<1> QED BY <1>1, <1>2, <1>3, <1>4

(* A stuttering step changes nothing the invariant speaks of. *)
LEMMA StutterInv ==
    ASSUME IInv, UNCHANGED vars
    PROVE  Core'
<1> USE DEF vars, IInv, Core
<1>1. Ordered' /\ \A n : Pending(n)' <=> Pending(n)
  BY SameQueue
<1>2. TypeOK' /\ Mutex' /\ Dead' /\ Joining'
  BY DEF TypeOK, Mutex, Dead, Joining
<1>3. Starting' /\ Phases'
  BY <1>1 DEF Starting, Phases, OfReady, OfStarted, OfCancelling, OfCancelled, OfDone,
     OfTerminated, OfTerminatedCancelled, Fresh, StartKnown, CancelKnown, EndPending, Claimed
<1> QED BY <1>1, <1>2, <1>3

(* Every step preserves the invariant. *)
LEMMA NextInv == IInv /\ [Next]_vars => IInv'
<1> SUFFICES ASSUME IInv, [Next]_vars PROVE IInv'
  OBVIOUS
<1>1. ASSUME NEW c \in Callers, Caller(c) PROVE Core'
  BY <1>1, StartLockInv, StartSyncInv, CancelLockInv, OutsideInv, CreateThreadInv,
     CreateFailsInv, PostStartedInv, UnlockInv, RunSyncInv, DestroyInv, CreateInv
  DEF Caller, CallProgress
<1>2. ASSUME Worker PROVE Core'
  BY <1>2, EarlyInv, PublishPostInv, CleanupInv, CleanupPostInv DEF Worker
<1>3. ASSUME Owner PROVE Core'
  BY <1>3, OnStartedInv, OnProgressInv, OnCancellingInv, FinishCancellingInv, OnEndInv,
     FinishEndInv DEF Owner
<1>4. Core'
  BY <1>1, <1>2, <1>3, StutterInv DEF Next
<1> QED BY <1>4, CountInv DEF IInv

(* The strengthened invariant holds in every reachable state.              *)
THEOREM Inductive == Spec => []IInv
  BY InitInv, NextInv, PTL DEF Spec

(* Every variable keeps its type. *)
THEOREM TypeCorrect == Spec => []TypeOK
<1>1. IInv => TypeOK
  BY DEF IInv, Core
<1> QED BY Inductive, <1>1, PTL

(* The background thread never meets a state that thread_main or           *)
(* thread_main_cleanup would abort on, for any number of callers.          *)
THEOREM StatesAsAsserted == Spec => []AssertedStates
<1>1. IInv => AssertedStates
  BY EarlyState DEF AssertedStates, Early
<1> QED BY Inductive, <1>1, PTL

(* The result is not written any more when it may be read. *)
THEOREM ResultIsStable == Spec => []ResultStable
<1>1. IInv => ResultStable
  <2> SUFFICES ASSUME IInv PROVE ResultStable
    OBVIOUS
  <2>1. wpc \in Early => state \in {"STARTED", "CANCELLING"} /\ opc = "idle"
    BY EarlyState
  <2>2. wpc \in Early \/ wpc \in {"none", "post_cancelled", "post_done", "end"}
    BY DEF IInv, Core, TypeOK, Early
  <2> QED BY <2>1, <2>2 DEF ResultStable, Terminated
<1> QED BY Inductive, <1>1, PTL

(* A terminated or destroyed object is referred to by nobody.              *)
THEOREM NoReferenceDangles == Spec => []NoDanglingReference
<1>1. IInv => NoDanglingReference
  BY DEF IInv, Core, Dead, Phases, OfTerminated, OfTerminatedCancelled, Terminated,
     NoDanglingReference
<1> QED BY Inductive, <1>1, PTL

(* Published progress is neither lost nor duplicated. *)
THEOREM ProgressIsExact == Spec => []ProgressExact
<1>1. IInv => ProgressExact
  BY DEF IInv
<1> QED BY Inductive, <1>1, PTL

(* When the background thread is over its outcome is queued or heard.      *)
LEMMA OutcomeKnown ==
    ASSUME IInv, wpc = "end"
    PROVE  /\ state \in {"DONE", "CANCELLED"} \union Terminated
           /\ \E m \in {"cancelled", "done"} :
                 Pending(m) \/ \E k \in 1 .. Len(cbs) : cbs[k] = m
<1> USE DEF IInv, Core
<1>1. state \in {"DONE", "CANCELLED"} \union Terminated
  BY DEF TypeOK, States, Phases, OfReady, OfStarted, OfCancelling, Starting, Claimed, Fresh,
     Early, Terminated
<1>2. \/ EndPending
      \/ cbs = <<"started", "done">>
      \/ cbs = <<"started", "cancelling", "cancelled">>
  BY <1>1 DEF Phases, OfDone, OfCancelled, OfTerminated, OfTerminatedCancelled, Terminated,
     EndPending
<1>3. CASE cbs = <<"started", "done">>
  <2>1. 2 \in 1 .. Len(cbs) /\ cbs[2] = "done"
    BY <1>3
  <2> QED BY <1>1, <2>1
<1>4. CASE cbs = <<"started", "cancelling", "cancelled">>
  <2>1. 3 \in 1 .. Len(cbs) /\ cbs[3] = "cancelled"
    BY <1>4
  <2> QED BY <1>1, <2>1
<1> QED BY <1>1, <1>2, <1>3, <1>4 DEF EndPending

(* A join that returns finds the outcome decided, provided nobody destroys *)
(* the object under the callers.                                           *)
THEOREM JoinKnowsOutcome ==
    ASSUME QuietDestroy
    PROVE  Spec => []JoinSeesOutcome
<1>1. IInv => JoinSeesOutcome
  <2> SUFFICES ASSUME IInv, NEW c \in Callers, cpc[c] = "joined" PROVE JoinSeesOutcome
    BY DEF JoinSeesOutcome
  <2>1. wpc = "end"
    BY DEF IInv, Core, Joining
  <2> QED BY <2>1, OutcomeKnown DEF JoinSeesOutcome, Pending
<1> QED BY Inductive, <1>1, PTL

(* Once the final callback has been heard, nothing is queued.              *)
LEMMA NothingAfterEnd ==
    ASSUME IInv, NEW k \in 1 .. Len(cbs), cbs[k] \in {"cancelled", "done"}
    PROVE  mq = <<>>
<1> USE DEF IInv, Core
<1>1. cbs # <<>>
  OBVIOUS
<1>2. cbs # <<"started">>
  <2>1. ASSUME cbs = <<"started">> PROVE FALSE
    <3>1. k = 1
      BY <2>1
    <3> QED BY <2>1, <3>1
  <2> QED BY <2>1
<1>3. cbs # <<"cancelling">>
  <2>1. ASSUME cbs = <<"cancelling">> PROVE FALSE
    <3>1. k = 1
      BY <2>1
    <3> QED BY <2>1, <3>1
  <2> QED BY <2>1
<1>4. cbs # <<"started", "cancelling">>
  <2>1. ASSUME cbs = <<"started", "cancelling">> PROVE FALSE
    <3>1. k = 1 \/ k = 2
      BY <2>1
    <3> QED BY <2>1, <3>1
  <2> QED BY <2>1
<1>5. ~StartKnown /\ ~CancelKnown
  BY <1>1, <1>2, <1>4 DEF StartKnown, CancelKnown
<1> QED BY <1>1, <1>3, <1>5 DEF TypeOK, States, Phases, OfReady, OfStarted, OfCancelling,
           OfCancelled, OfDone, OfTerminated, OfTerminatedCancelled, Starting, Claimed, Fresh

(* What the threads rely on without a lock holds for any number of callers, *)
(* provided nobody destroys the object under another call.                 *)
THEOREM ThreadsDoAgree ==
    ASSUME QuietDestroy
    PROVE  Spec => []ThreadsAgree
<1>1. TypeOK /\ AssertedStates /\ ResultStable /\ NoDanglingReference /\ JoinSeesOutcome
        <=> ThreadsAgree
  BY DEF ThreadsAgree
<1> QED BY <1>1, TypeCorrect, StatesAsAsserted, ResultIsStable, NoReferenceDangles,
           JoinKnowsOutcome, PTL

(* No progress is heard after the final callback. *)
THEOREM NoProgressAfterEnd == Spec => ProgressBeforeEnd
<1>1. IInv /\ [Next]_vars =>
        [nprog' = nprog + 1 => \A k \in 1 .. Len(cbs) : cbs[k] \notin {"cancelled", "done"}]_vars
  <2> SUFFICES ASSUME IInv, [Next]_vars, nprog' = nprog + 1
               PROVE  \A k \in 1 .. Len(cbs) : cbs[k] \notin {"cancelled", "done"}
    OBVIOUS
  <2>1. nprog' # nprog
    BY ThreadexAssumption DEF IInv, Core, TypeOK
  <2>2. OnProgress \/ \E c \in Callers : Create(c)
    BY <2>1 DEF Next, Caller, CallProgress, Worker, Owner, vars, StartLock, StartSync,
       CancelLock, Join, CreateThread, CreateFails, PostStarted, Unlock, RunSync,
       SyncReturns, JoinReturns, Joined, Destroy, Main, PublishCheck, PublishPost,
       RunReturns, Cleanup, CleanupPost, OnStarted, OnCancelling, FinishCancelling,
       OnEnd, FinishEnd
  <2>3. \A c \in Callers : ~Create(c)
    BY ThreadexAssumption DEF IInv, Core, TypeOK, Create
  <2>4. mq # <<>>
    BY <2>2, <2>3 DEF OnProgress
  <2> QED BY <2>4, NothingAfterEnd
<1> QED BY Inductive, <1>1, PTL DEF Spec, ProgressBeforeEnd

------------------------------------------------------------------------------
(* The refinement: the steps of the callers, of the background thread and  *)
(* of the owner are steps of the documented life cycle.                    *)
LEMMA CallerKeepsContract ==
    ASSUME IInv, NEW c \in Callers, Caller(c)
    PROVE  Contract!Next \/ UNCHANGED Contract!vars
<1> USE DEF IInv, Core
<1>1. CASE StartLock(c) \/ StartSync(c)
  BY <1>1 DEF StartLock, StartSync, Contract!Next, Contract!Start
<1>2. CASE CreateFails(c)
  <2>1. state = "STARTED" /\ cbs = <<>> /\ alive
    BY <1>2 DEF CreateFails, Starting, Fresh, Dead, Terminated
  <2> QED BY <1>2, <2>1 DEF CreateFails, Contract!Next, Contract!StartFails
<1>3. CASE CancelLock(c)
  BY <1>3 DEF CancelLock, Contract!Next, Contract!Cancel
<1>4. CASE Destroy(c)
  BY <1>4 DEF Destroy, Terminated, Contract!Next, Contract!Destroy
<1>5. CASE Create(c)
  BY <1>5 DEF Create, Contract!Next, Contract!Create
<1>6. CASE \/ Join(c) \/ CreateThread(c) \/ PostStarted(c) \/ Unlock(c) \/ RunSync(c)
           \/ SyncReturns(c) \/ JoinReturns(c) \/ Joined(c)
  BY <1>6 DEF Join, CreateThread, PostStarted, Unlock, RunSync, SyncReturns, JoinReturns,
     Joined, Contract!vars
<1> QED BY <1>1, <1>2, <1>3, <1>4, <1>5, <1>6 DEF Caller, CallProgress

(* Only the decision of the outcome is a step of the contract. *)
LEMMA WorkerKeepsContract ==
    ASSUME IInv, Worker
    PROVE  Contract!Next \/ UNCHANGED Contract!vars
<1>1. CASE Cleanup
  <2>1. state \in {"STARTED", "CANCELLING"} /\ begun /\ alive
    BY <1>1, EarlyState DEF Cleanup, Early
  <2>2. CASE state = "STARTED"
    BY <1>1, <2>1, <2>2 DEF Cleanup, Contract!Next, Contract!BecomeDone
  <2>3. CASE state = "CANCELLING"
    BY <1>1, <2>1, <2>3 DEF Cleanup, Contract!Next, Contract!BecomeCancelled
  <2> QED BY <2>1, <2>2, <2>3
<1>2. CASE Main \/ PublishCheck \/ PublishPost \/ RunReturns \/ CleanupPost
  BY <1>2 DEF Main, PublishCheck, PublishPost, RunReturns, CleanupPost, Contract!vars
<1> QED BY <1>1, <1>2 DEF Worker

(* What a queued on_cancelling says of the thread. *)
LEMMA CancellingPending ==
    ASSUME IInv, OnCancelling
    PROVE  /\ alive /\ state \in {"CANCELLING", "CANCELLED"}
           /\ cbs = IF begun THEN <<"started">> ELSE <<>>
<1> USE DEF IInv, Core, OnCancelling
<1>1. Pending(Head(mq)) /\ mq # <<>> /\ opc = "idle"
  BY TakeEffect
<1>2. \A m : mq = <<m>> => m = Head(mq)
  BY LonelyMessage
<1>3. CASE Head(mq) = "cancelling_started"
  <2>1. ~Pending("started")
    <3>1. ~MayFollow("cancelling_started", "started")
      BY DEF MayFollow
    <3>2. \A n : Pending(n) => Pending(n)' \/ n = Head(mq)
      BY TakeEffect
    <3>3. \A n : Pending(n)' => MayFollow(Head(mq), n)
      BY TakeEffect
    <3> QED BY <1>3, <3>1, <3>2, <3>3
  <2>2. begun /\ CancelKnown /\ state \in {"CANCELLING", "CANCELLED"}
    BY <1>1, <1>2, <1>3 DEF TypeOK, States, Phases, OfReady, OfStarted, OfCancelling,
       OfCancelled, OfDone, OfTerminated, OfTerminatedCancelled, Fresh
  <2> QED BY <1>1, <1>3, <2>1, <2>2 DEF CancelKnown, StartKnown, Dead, Terminated
<1>4. CASE Head(mq) = "cancelling_ready"
  <2>1. state = "CANCELLING" /\ ~begun /\ cbs = <<>>
    BY <1>1, <1>2, <1>4 DEF TypeOK, States, Phases, OfReady, OfStarted, OfCancelling,
       OfCancelled, OfDone, OfTerminated, OfTerminatedCancelled, Fresh
  <2> QED BY <2>1 DEF Dead, Terminated
<1> QED BY <1>3, <1>4

(* The owner delivers the callbacks of the contract in its order. *)
LEMMA OwnerKeepsContract ==
    ASSUME IInv, Owner
    PROVE  Contract!Next \/ UNCHANGED Contract!vars
<1>1. CASE OnStarted
  <2>1. Pending("started")
    BY <1>1, TakeEffect DEF OnStarted, IInv, Core
  <2>2. begun /\ cbs = <<>> /\ cbs' = <<"started">>
    BY <1>1, <2>1, StartedPending DEF OnStarted, Hear
  <2> QED BY <1>1, <2>2 DEF OnStarted, Contract!Next, Contract!HearStarted
<1>2. CASE OnProgress
  BY <1>2 DEF OnProgress, Contract!vars
<1>3. CASE OnCancelling
  BY <1>3, CancellingPending DEF OnCancelling, Hear, Contract!Next, Contract!HearCancelling
<1>4. CASE FinishCancelling
  <2>1. state = "CANCELLING" /\ ~begun /\ cbs = <<"cancelling">> /\ alive
    BY <1>4 DEF FinishCancelling, IInv, Core, TypeOK, States, Phases, OfReady, OfStarted,
       OfCancelling, OfCancelled, OfDone, OfTerminated, OfTerminatedCancelled, Fresh, Dead,
       Terminated
  <2> QED BY <1>4, <2>1 DEF FinishCancelling, Contract!Next, Contract!BecomeCancelled
<1>5. CASE OnEnd
  <2>1. CASE Head(mq) = "done"
    <3>1. state = "DONE" /\ alive /\ cbs = <<"started">>
      BY <1>5, <2>1, EndIsLast DEF OnEnd
    <3> QED BY <1>5, <2>1, <3>1 DEF OnEnd, Hear, Contract!Next, Contract!HearDone
  <2>2. CASE Head(mq) = "cancelled"
    <3>1. /\ state = "CANCELLED" /\ alive
          /\ cbs \in {<<"cancelling">>, <<"started", "cancelling">>}
      BY <1>5, <2>2, EndIsLast DEF OnEnd
    <3> QED BY <1>5, <2>2, <3>1 DEF OnEnd, Hear, Contract!Next, Contract!HearCancelled
  <2> QED BY <1>5, <2>1, <2>2 DEF OnEnd
<1>6. CASE FinishEnd
  <2>1. CASE opc = "done"
    BY <1>6, <2>1, Finishing DEF FinishEnd, Contract!Next, Contract!Terminate, Contract!Completed
  <2>2. CASE opc = "cancelled"
    BY <1>6, <2>2, Finishing DEF FinishEnd, Contract!Next, Contract!TerminateCancelled,
       Contract!CancelledEarly, Contract!CancelledLate
  <2> QED BY <1>6, <2>1, <2>2 DEF FinishEnd
<1> QED BY <1>1, <1>2, <1>3, <1>4, <1>5, <1>6 DEF Owner

(* A background thread object implements the documented life cycle: its    *)
(* state follows the diagram of ythreadex.h and its listener hears one of  *)
(* the three documented sequences of callbacks, for any number of callers. *)
THEOREM Refinement == Spec => ImplementsLifecycle
<1>1. Init => Contract!Init
  BY DEF Init, Contract!Init
<1>2. IInv /\ [Next]_vars => [Contract!Next]_(Contract!vars)
  <2> SUFFICES ASSUME IInv, [Next]_vars PROVE Contract!Next \/ UNCHANGED Contract!vars
    OBVIOUS
  <2>1. CASE UNCHANGED vars
    BY <2>1 DEF vars, Contract!vars
  <2> QED BY <2>1, CallerKeepsContract, WorkerKeepsContract, OwnerKeepsContract DEF Next
<1> QED BY <1>1, <1>2, Inductive, PTL DEF Spec, ImplementsLifecycle, Contract!Spec
==============================================================================
