-------------------------- MODULE TaskManagerProofs --------------------------
(***************************************************************************)
(* Proofs about TaskManager, for any number of tasks, clients, priorities  *)
(* and slots: its references and queues are exact, and its slots are       *)
(* neither exceeded nor left empty; and of QueueEvents, for any number of  *)
(* listeners: every event reaches every listener.                          *)
(***************************************************************************)
EXTENDS TaskManager, QueueEvents, FiniteSetTheorems, SequenceTheorems, TLAPS

Active == {"STARTED", "CANCELLING"}
Ended == {"DONE", "CANCELLED"} \union Terminated
Fates == {"alive", "unstarted", "asserted", "wild"}
(* Messages that are posted once for a task; there may be several events. *)
Once == {"finished", "put"}

(* A waiting task is once in the queues, in that of its priority. *)
QueuedOnce ==
    \A i \in Pri : /\ \A k \in 1 .. Len(ready[i]) : Priority[ready[i][k]] = i
                   /\ \A k, l \in 1 .. Len(ready[i]) : ready[i][k] = ready[i][l] => k = l

(* What the position of a thread says of the task it works on. *)
Positions ==
    \A th \in Threads :
        /\ pc[th] \in {"idle", "balance", "destroy"} => job[th] = None
        /\ pc[th] \in {"start", "cancel", "remove", "put"} => job[th] \in Tasks
        /\ pc[th] \in {"remove", "put"} => th = Owner
        /\ pc[th] = "cancel" =>
              /\ th \in Clients /\ created[job[th]]
              /\ job[th] \notin Waiting /\ (tag[job[th]] \/ told[job[th]])
        /\ pc[th] = "destroy" => th \in Clients
        /\ pc[th] = "start" /\ tstate[job[th]] = "READY" => job[th] \in run

(* The manager's marks on a task, and where the task is in its life. *)
TaskPlaces ==
    \A t \in Tasks :
        /\ t \in Waiting => tstate[t] = "READY" /\ t \notin run
        /\ t \in lost => t \notin Waiting \union run
        /\ tag[t] <=> t \in Waiting \union run \union lost
        /\ listening[t] => t \in run
        /\ started[t] => tstate[t] # "READY"
        /\ started[t] /\ tstate[t] \in Active => t \in run
        /\ told[t] => tstate[t] \in Ended

(* Each message is posted once, when the end is told. *)
MailOnce ==
    /\ \A k, l \in 1 .. Len(mail) : mail[k].type \in Once /\ mail[k] = mail[l] => k = l
    /\ \A k \in 1 .. Len(mail) : mail[k].type \in Once => told[mail[k].task]

(* The Owner between two steps of the removal of a task that has ended. *)
Removing ==
    /\ pc[Owner] = "remove" =>
          told[job[Owner]] /\ ~listening[job[Owner]] /\ job[Owner] \in run
    /\ pc[Owner] = "put" => told[job[Owner]] /\ ~tag[job[Owner]]
    /\ pc[Owner] = "start" => job[Owner] \in run

(* No task, and no client but those of cs inside.                          *)
Quiet(cs) ==
    /\ run = {} /\ Waiting = {}
    /\ \A c \in Clients \ cs : pc[c] = "idle"
    /\ pc[Owner] \in {"idle", "put", "balance"}

(* A manager that is destroyed, or whose size was found to be 0.           *)
GoneIsEmpty ==
    /\ gone => Quiet({})
    /\ \A c \in Clients : pc[c] = "destroy" => ~gone /\ Quiet({c})

(* The reference count, by the tag instead of the queues: a task that was  *)
(* cancelled while it waited keeps both.                                   *)
RefsByTag ==
    \A t \in Tasks :
        refs[t] = Count(created[t])
                  + Count(tag[t] \/ (pc[Owner] = "put" /\ job[Owner] = t))
                  + Count(Mailed(PutLater(t)))

(* A task whose end is on its way to the Owner. *)
EndFound == \A t \in Tasks : Mailed(Finished(t)) => t \in run /\ tag[t] /\ listening[t]

(* Events that point to a task come before its end, while it has its tag.  *)
EventsFirst ==
    /\ \A k \in 1 .. Len(mail) : mail[k].type = "event" => tag[mail[k].task]
    /\ \A k, l \in 1 .. Len(mail) :
          mail[k].type = "event" /\ mail[l] = Finished(mail[k].task) => k < l
    /\ pc[Owner] = "remove" => \A k \in 1 .. Len(mail) : mail[k] # Event(job[Owner])

(* Only the Owner, and only of a destroyed manager, uses freed memory.     *)
WildIsGone == fate = "wild" => gone /\ pc[Owner] = "balance"

RunFits == Cardinality(run) <= Slots

(* The inductive invariant of the tasks, their messages and references ... *)
TaskInv ==
    /\ TypeOK
    /\ QueuedOnce /\ Positions /\ TaskPlaces /\ MailOnce /\ Removing /\ GoneIsEmpty
    /\ RefsByTag /\ EndFound

(* ... and of the numbers of waiting tasks, slots and threads. *)
NumbersInv == RunFits /\ WorkConserving /\ LastEventIsCurrent

IInv == TaskInv /\ EventsFirst /\ WildIsGone /\ NumbersInv

------------------------------------------------------------------------------
(* Taking one element out of a sequence without repetitions. *)
LEMMA RemoveFirstEffect ==
    ASSUME NEW S, NEW s \in Seq(S), NEW k \in 1 .. Len(s),
           \A i, j \in 1 .. Len(s) : s[i] = s[j] => i = j
    PROVE  /\ RemoveFirst(s, s[k]) \in Seq(S)
           /\ Len(RemoveFirst(s, s[k])) = Len(s) - 1
           /\ \A i \in 1 .. Len(s) - 1 :
                 RemoveFirst(s, s[k])[i] = IF i < k THEN s[i] ELSE s[i + 1]
<1> DEFINE a == SubSeq(s, 1, k - 1)
           b == SubSeq(s, k + 1, Len(s))
<1>1. SelectInSeq(s, LAMBDA v : v = s[k]) = k
  <2>1. {i \in 1 .. Len(s) : s[i] = s[k]} = {k}
    OBVIOUS
  <2>2. Min({k}) = k
    BY DEF Min
  <2> QED BY <2>1, <2>2 DEF SelectInSeq
<1>2. RemoveFirst(s, s[k]) = a \o b
  BY <1>1 DEF RemoveFirst, RemoveAt
<1>3. a \in Seq(S) /\ Len(a) = k - 1 /\ \A i \in 1 .. k - 1 : a[i] = s[i]
  BY SubSeqProperties
<1>4. b \in Seq(S) /\ Len(b) = Len(s) - k /\ \A i \in 1 .. Len(s) - k : b[i] = s[k + i]
  BY SubSeqProperties
<1> HIDE DEF a, b
<1>5. a \o b \in Seq(S) /\ Len(a \o b) = Len(s) - 1
  BY <1>3, <1>4
<1>6. \A i \in 1 .. Len(s) - 1 : (a \o b)[i] = IF i < k THEN s[i] ELSE s[i + 1]
  BY <1>3, <1>4
<1> QED BY <1>2, <1>5, <1>6

(* The ready queues: a task is in the queue of its priority or in none. *)
LEMMA WaitingInPlace ==
    ASSUME TypeOK, QueuedOnce, NEW t \in Tasks
    PROVE  t \in Waiting <=> \E k \in 1 .. Len(ready[Priority[t]]) : ready[Priority[t]][k] = t
BY TaskManagerAssumption DEF TypeOK, QueuedOnce, Waiting

(* readyq_enq_locked adds the task, once. *)
LEMMA EnqEffect ==
    ASSUME TypeOK, QueuedOnce, NEW t \in Tasks, t \notin Waiting, ReadyEnq(t)
    PROVE  /\ ready' \in [Pri -> Seq(Tasks)]
           /\ Waiting' = Waiting \union {t}
           /\ QueuedOnce'
<1> DEFINE p == Priority[t]
<1>1. p \in Pri /\ ready[p] \in Seq(Tasks)
  BY TaskManagerAssumption DEF TypeOK
<1>2. /\ ready' \in [Pri -> Seq(Tasks)]
      /\ \A i \in Pri \ {p} : ready'[i] = ready[i]
      /\ Len(ready'[p]) = Len(ready[p]) + 1
      /\ \A k \in 1 .. Len(ready[p]) : ready'[p][k] = ready[p][k]
      /\ ready'[p][Len(ready[p]) + 1] = t
  BY <1>1 DEF TypeOK, ReadyEnq
<1>3. Len(ready[p]) \in Nat /\ \A k \in 1 .. Len(ready[p]) : ready[p][k] # t
  BY <1>1 DEF Waiting
<1> HIDE DEF p
<1>4. \A u \in Tasks : (\E i \in Pri : \E k \in 1 .. Len(ready'[i]) : ready'[i][k] = u)
                       <=> u \in Waiting \/ u = t
  <2> TAKE u \in Tasks
  <2>1. ASSUME NEW i \in Pri, NEW k \in 1 .. Len(ready'[i]), ready'[i][k] = u
        PROVE  u \in Waiting \/ u = t
    <3>1. CASE i = p
      <4>1. k \in 1 .. Len(ready[p]) \/ k = Len(ready[p]) + 1
        BY <1>2, <1>3, <2>1, <3>1
      <4> QED BY <1>1, <1>2, <2>1, <3>1, <4>1 DEF Waiting
    <3>2. CASE i # p
      BY <1>2, <2>1, <3>2 DEF Waiting
    <3> QED BY <3>1, <3>2
  <2>2. ASSUME NEW i \in Pri, NEW k \in 1 .. Len(ready[i]), ready[i][k] = u
        PROVE  \E j \in Pri : \E l \in 1 .. Len(ready'[j]) : ready'[j][l] = u
    <3>1. CASE i = p
      <4>1. k \in 1 .. Len(ready'[p])
        BY <1>2, <1>3, <2>2, <3>1
      <4> QED BY <4>1, <1>2, <2>2, <3>1
    <3>2. CASE i # p
      BY <1>2, <2>2, <3>2
    <3> QED BY <3>1, <3>2
  <2>3. Len(ready[p]) + 1 \in 1 .. Len(ready'[p])
    BY <1>2, <1>3
  <2> QED BY <1>1, <1>2, <2>1, <2>2, <2>3 DEF Waiting
<1>5. Waiting' = Waiting \union {t}
  BY <1>4 DEF Waiting
<1>6. QueuedOnce'
  <2> SUFFICES ASSUME NEW i \in Pri
               PROVE  /\ \A k \in 1 .. Len(ready'[i]) : Priority[ready'[i][k]] = i
                      /\ \A k, l \in 1 .. Len(ready'[i]) :
                            ready'[i][k] = ready'[i][l] => k = l
    BY DEF QueuedOnce
  <2>1. CASE i = p
    <3>1. \A k \in 1 .. Len(ready'[p]) : k \in 1 .. Len(ready[p]) \/ k = Len(ready[p]) + 1
      BY <1>2, <1>3
    <3>2. Priority[t] = p
      BY DEF p
    <3>3. \A k \in 1 .. Len(ready'[p]) : Priority[ready'[p][k]] = p
      BY <1>1, <1>2, <3>1, <3>2 DEF QueuedOnce
    <3>4. \A k, l \in 1 .. Len(ready[p]) : ready[p][k] = ready[p][l] => k = l
      BY <1>1 DEF QueuedOnce
    <3>5. \A k, l \in 1 .. Len(ready'[p]) : ready'[p][k] = ready'[p][l] => k = l
      BY <1>2, <1>3, <3>1, <3>4
    <3> QED BY <2>1, <3>3, <3>5
  <2>2. CASE i # p
    BY <1>2, <2>2 DEF QueuedOnce
  <2> QED BY <2>1, <2>2
<1> QED BY <1>2, <1>5, <1>6

(* A queue that loses the task at position k, and keeps the others. *)
LEMMA CutEffect ==
    ASSUME TypeOK, QueuedOnce,
           NEW p \in Pri, NEW k \in 1 .. Len(ready[p]), NEW q \in Seq(Tasks),
           ready' = [ready EXCEPT ![p] = q],
           Len(q) = Len(ready[p]) - 1,
           \A i \in 1 .. Len(q) : q[i] = IF i < k THEN ready[p][i] ELSE ready[p][i + 1]
    PROVE  /\ ready' \in [Pri -> Seq(Tasks)]
           /\ Waiting' = Waiting \ {ready[p][k]}
           /\ QueuedOnce'
<1> DEFINE t == ready[p][k]
           n == Len(ready[p])
<1>1. ready[p] \in Seq(Tasks) /\ n \in Nat /\ t \in Tasks
  BY DEF TypeOK
<1>2. /\ ready' \in [Pri -> Seq(Tasks)]
      /\ ready'[p] = q
      /\ \A i \in Pri \ {p} : ready'[i] = ready[i]
  BY DEF TypeOK
<1>3. \A i \in Pri : \A l \in 1 .. Len(ready[i]) : ready[i][l] = t => i = p /\ l = k
  BY DEF QueuedOnce
<1>4. \A i \in 1 .. n - 1 : \E j \in 1 .. n : j # k /\ q[i] = ready[p][j]
  <2> TAKE i \in 1 .. n - 1
  <2>1. i < k => i \in 1 .. n /\ i # k /\ q[i] = ready[p][i]
    BY <1>1
  <2>2. ~(i < k) => i + 1 \in 1 .. n /\ i + 1 # k /\ q[i] = ready[p][i + 1]
    BY <1>1
  <2> QED BY <2>1, <2>2
<1>5. \A j \in 1 .. n : j # k => \E i \in 1 .. n - 1 : q[i] = ready[p][j]
  <2> TAKE j \in 1 .. n
  <2>1. j < k => j \in 1 .. n - 1 /\ q[j] = ready[p][j]
    BY <1>1
  <2>2. j > k => j - 1 \in 1 .. n - 1 /\ ~(j - 1 < k) /\ q[j - 1] = ready[p][(j - 1) + 1]
    BY <1>1
  <2>3. (j - 1) + 1 = j
    BY <1>1
  <2> QED BY <1>1, <2>1, <2>2, <2>3
<1>6. \A u \in Tasks : (\E i \in Pri : \E l \in 1 .. Len(ready'[i]) : ready'[i][l] = u)
                       <=> u \in Waiting /\ u # t
  <2> TAKE u \in Tasks
  <2>1. ASSUME NEW i \in Pri, NEW l \in 1 .. Len(ready'[i]), ready'[i][l] = u
        PROVE  u \in Waiting /\ u # t
    <3>1. CASE i = p
      <4>1. PICK j \in 1 .. n : j # k /\ q[l] = ready[p][j]
        BY <1>2, <1>4, <2>1, <3>1
      <4> QED BY <1>2, <1>3, <2>1, <3>1, <4>1 DEF Waiting
    <3>2. CASE i # p
      BY <1>2, <1>3, <2>1, <3>2 DEF Waiting
    <3> QED BY <3>1, <3>2
  <2>2. ASSUME u # t, NEW i \in Pri, NEW l \in 1 .. Len(ready[i]), ready[i][l] = u
        PROVE  \E j \in Pri : \E m \in 1 .. Len(ready'[j]) : ready'[j][m] = u
    <3>1. CASE i = p
      BY <1>2, <1>5, <2>2, <3>1
    <3>2. CASE i # p
      BY <1>2, <2>2, <3>2
    <3> QED BY <3>1, <3>2
  <2> QED BY <2>1, <2>2 DEF Waiting
<1>7. Waiting' = Waiting \ {t}
  BY <1>6 DEF Waiting
<1>8. QueuedOnce'
  <2> SUFFICES ASSUME NEW i \in Pri
               PROVE  /\ \A l \in 1 .. Len(ready'[i]) : Priority[ready'[i][l]] = i
                      /\ \A l, m \in 1 .. Len(ready'[i]) :
                            ready'[i][l] = ready'[i][m] => l = m
    BY DEF QueuedOnce
  <2>1. CASE i = p
    <3>1. \A l \in 1 .. Len(q) : Priority[q[l]] = p
      BY <1>4 DEF QueuedOnce
    <3>2. \A l, m \in 1 .. Len(q) : q[l] = q[m] => l = m
      <4> SUFFICES ASSUME NEW l \in 1 .. Len(q), NEW m \in 1 .. Len(q), q[l] = q[m], l < m
                   PROVE  FALSE
        BY <1>1
      <4>1. l \in 1 .. n /\ l + 1 \in 1 .. n /\ m \in 1 .. n /\ m + 1 \in 1 .. n
        BY <1>1
      <4>2. \A x, y \in 1 .. n : ready[p][x] = ready[p][y] => x = y
        BY DEF QueuedOnce
      <4> HIDE DEF n
      <4> QED BY <1>1, <4>1, <4>2
    <3> QED BY <1>2, <2>1, <3>1, <3>2
  <2>2. CASE i # p
    BY <1>2, <2>2 DEF QueuedOnce
  <2> QED BY <2>1, <2>2
<1> QED BY <1>2, <1>7, <1>8

(* readyq_remove_locked takes out the task it is given and no other. *)
LEMMA RemoveEffect ==
    ASSUME TypeOK, QueuedOnce, NEW t \in Waiting, ReadyRemove(t)
    PROVE  /\ ready' \in [Pri -> Seq(Tasks)]
           /\ Waiting' = Waiting \ {t}
           /\ QueuedOnce'
<1> DEFINE p == Priority[t]
<1>1. t \in Tasks /\ p \in Pri
  BY TaskManagerAssumption DEF Waiting
<1>2. PICK k \in 1 .. Len(ready[p]) : ready[p][k] = t
  BY <1>1, WaitingInPlace
<1>3. ready[p] \in Seq(Tasks) /\ \A i, j \in 1 .. Len(ready[p]) : ready[p][i] = ready[p][j] => i = j
  BY <1>1 DEF TypeOK, QueuedOnce
<1> DEFINE s == ready[p]
           q == RemoveFirst(s, t)
<1>4. /\ q \in Seq(Tasks)
      /\ Len(q) = Len(ready[p]) - 1
      /\ \A i \in 1 .. Len(q) : q[i] = IF i < k THEN ready[p][i] ELSE ready[p][i + 1]
  <2> HIDE DEF s
  <2>1. s \in Seq(Tasks) /\ k \in 1 .. Len(s) /\ s[k] = t
        /\ \A i, j \in 1 .. Len(s) : s[i] = s[j] => i = j
    BY <1>2, <1>3 DEF s
  <2>2. /\ q \in Seq(Tasks)
        /\ Len(q) = Len(s) - 1
        /\ \A i \in 1 .. Len(s) - 1 : q[i] = IF i < k THEN s[i] ELSE s[i + 1]
    BY <2>1, RemoveFirstEffect
  <2> QED BY <2>2 DEF s
<1>5. ready' = [ready EXCEPT ![p] = q]
  BY DEF ReadyRemove
<1> HIDE DEF p, q
<1> QED BY <1>1, <1>2, <1>4, <1>5, CutEffect

(* readyq_deq_locked takes out a waiting task and no other. *)
LEMMA DeqEffect ==
    ASSUME TypeOK, QueuedOnce, NEW t \in Tasks, ReadyDeq(t)
    PROVE  /\ t \in Waiting
           /\ ready' \in [Pri -> Seq(Tasks)]
           /\ Waiting' = Waiting \ {t}
           /\ QueuedOnce'
<1>1. PICK p \in Pri : /\ ready[p] # <<>> /\ t = Head(ready[p])
                       /\ ready' = [ready EXCEPT ![p] = Tail(@)]
  BY DEF ReadyDeq
<1>2. ready[p] \in Seq(Tasks) /\ ready' = [ready EXCEPT ![p] = Tail(ready[p])]
  BY <1>1 DEF TypeOK
<1> DEFINE q == Tail(ready[p])
<1>3. 1 \in 1 .. Len(ready[p]) /\ ready[p][1] = t
  BY <1>1, <1>2
<1>4. /\ q \in Seq(Tasks)
      /\ Len(q) = Len(ready[p]) - 1
      /\ \A i \in 1 .. Len(q) : q[i] = ready[p][i + 1]
  BY <1>1, <1>2, HeadTailProperties
<1>5. \A i \in 1 .. Len(q) : q[i] = IF i < 1 THEN ready[p][i] ELSE ready[p][i + 1]
  BY <1>4
<1>6. t \in Waiting
  BY <1>3 DEF Waiting
<1> HIDE DEF q
<1>7. ready' = [ready EXCEPT ![p] = q]
  BY <1>2 DEF q
<1> QED BY <1>3, <1>4, <1>5, <1>6, <1>7, CutEffect

(* A step that leaves the ready queues alone leaves what waits alone. *)
LEMMA QueuesKept ==
    ASSUME ready' = ready
    PROVE  /\ Waiting' = Waiting
           /\ QueuedOnce => QueuedOnce'
BY DEF Waiting, QueuedOnce

------------------------------------------------------------------------------
(* The messages for the Owner. *)
LEMMA MailTyped ==
    ASSUME TypeOK
    PROVE  /\ mail \in Seq(Messages)
           /\ \A t \in Tasks : /\ Finished(t) \in Messages /\ PutLater(t) \in Messages
                               /\ Event(t) \in Messages /\ Left(t) \in Messages
                               /\ Finished(t).type = "finished" /\ Finished(t).task = t
                               /\ PutLater(t).type = "put" /\ PutLater(t).task = t
                               /\ Event(t).type = "event" /\ Event(t).task = t
                               /\ Left(t).type = "left" /\ Left(t).task = t
           /\ \A m \in Messages : m.task \in Tasks
           /\ \A t, u \in Tasks : /\ Finished(t) # PutLater(u)
                                  /\ Finished(t) = Finished(u) => t = u
                                  /\ PutLater(t) = PutLater(u) => t = u
BY DEF TypeOK, Messages, Finished, PutLater, Event, Left

(* A step that posts nothing keeps every message. *)
LEMMA MailKept ==
    ASSUME mail' = mail, told' = told
    PROVE  /\ \A t \in Tasks : /\ Mailed(Finished(t))' <=> Mailed(Finished(t))
                               /\ Mailed(PutLater(t))' <=> Mailed(PutLater(t))
           /\ MailOnce => MailOnce'
BY DEF Mailed, MailOnce, Finished, PutLater

(* A queue event is posted, if anybody listens. *)
LEMMA MailNotified ==
    ASSUME TypeOK, MailOnce, NEW m \in Messages, m.type \notin Once, Notify(m), told' = told
    PROVE  /\ mail' \in Seq(Messages) /\ MailOnce'
           /\ \A u \in Tasks : /\ Mailed(Finished(u))' <=> Mailed(Finished(u))
                               /\ Mailed(PutLater(u))' <=> Mailed(PutLater(u))
<1> DEFINE n == Len(mail)
<1>1. mail \in Seq(Messages) /\ n \in Nat
  BY DEF TypeOK
<1>2. CASE mail' = mail
  BY <1>1, <1>2, MailKept
<1>3. CASE mail' = Append(mail, m)
  <2>1. /\ mail' \in Seq(Messages) /\ Len(mail') = n + 1
        /\ \A k \in 1 .. n : mail'[k] = mail[k]
        /\ mail'[n + 1] = m
    BY <1>1, <1>3
  <2>2. 1 .. n + 1 = (1 .. n) \union {n + 1}
    BY <1>1
  <2>3. ASSUME NEW a, a # m
        PROVE  (\E k \in 1 .. Len(mail') : mail'[k] = a) <=> (\E k \in 1 .. n : mail[k] = a)
    BY <2>1, <2>2, <2>3
  <2>4. \A u \in Tasks : Finished(u) # m /\ PutLater(u) # m
    BY DEF Finished, PutLater, Once
  <2>5. \A u \in Tasks : /\ Mailed(Finished(u))' <=> Mailed(Finished(u))
                         /\ Mailed(PutLater(u))' <=> Mailed(PutLater(u))
    <3> SUFFICES ASSUME NEW u \in Tasks
                 PROVE  /\ Mailed(Finished(u))' <=> Mailed(Finished(u))
                        /\ Mailed(PutLater(u))' <=> Mailed(PutLater(u))
      OBVIOUS
    <3>1. Mailed(Finished(u))' <=> Mailed(Finished(u))
      BY <2>3, <2>4 DEF Mailed, Finished
    <3>2. Mailed(PutLater(u))' <=> Mailed(PutLater(u))
      BY <2>3, <2>4 DEF Mailed, PutLater
    <3> QED BY <3>1, <3>2
  <2>6. MailOnce'
    <3>1. \A k \in 1 .. n + 1 : mail'[k].type \in Once => k \in 1 .. n
      BY <2>1, <2>2
    <3>2. \A k, l \in 1 .. n + 1 : mail'[k].type \in Once /\ mail'[k] = mail'[l] => k = l
      BY <2>1, <3>1 DEF MailOnce
    <3>3. \A k \in 1 .. n + 1 : mail'[k].type \in Once => told'[mail'[k].task]
      BY <2>1, <3>1 DEF MailOnce
    <3> HIDE DEF n
    <3> QED BY <2>1, <3>2, <3>3 DEF MailOnce
  <2> QED BY <2>1, <2>5, <2>6
<1> QED BY <1>2, <1>3 DEF Notify

(* The Owner takes a message; one that was posted once is not there any more. *)
LEMMA TakeMail ==
    ASSUME TypeOK, MailOnce, mail # <<>>, mail' = Tail(mail), told' = told
    PROVE  /\ mail' \in Seq(Messages) /\ MailOnce'
           /\ Head(mail) \in Messages /\ Mailed(Head(mail))
           /\ Head(mail).type \in Once => told[Head(mail).task]
           /\ \A t \in Tasks :
                 /\ Mailed(Finished(t))' <=> Mailed(Finished(t)) /\ Head(mail) # Finished(t)
                 /\ Mailed(PutLater(t))' <=> Mailed(PutLater(t)) /\ Head(mail) # PutLater(t)
<1> DEFINE n == Len(mail)
<1>1. mail \in Seq(Messages) /\ n \in Nat /\ n # 0 /\ Head(mail) = mail[1]
  BY DEF TypeOK, Messages
<1>2. mail' \in Seq(Messages) /\ Len(mail') = n - 1 /\ \A k \in 1 .. n - 1 : mail'[k] = mail[k + 1]
  BY <1>1, HeadTailProperties
<1>3. \A k \in 1 .. n - 1 : k + 1 \in 1 .. n /\ k + 1 # 1
  BY <1>1
<1>4. \A k \in 2 .. n : k - 1 \in 1 .. n - 1 /\ mail'[k - 1] = mail[k]
  <2> TAKE k \in 2 .. n
  <2>1. k - 1 \in 1 .. n - 1 /\ (k - 1) + 1 = k
    BY <1>1
  <2> QED BY <1>2, <2>1
<1>5. ASSUME NEW m, m.type \in Once
      PROVE  (\E k \in 1 .. Len(mail') : mail'[k] = m)
             <=> (\E k \in 1 .. Len(mail) : mail[k] = m) /\ m # Head(mail)
  <2>1. ASSUME NEW k \in 1 .. n - 1, mail'[k] = m
        PROVE  (\E l \in 1 .. n : mail[l] = m) /\ m # mail[1]
    BY <1>1, <1>2, <1>3, <1>5, <2>1 DEF MailOnce
  <2>2. ASSUME NEW k \in 1 .. n, mail[k] = m, m # mail[1]
        PROVE  \E l \in 1 .. n - 1 : mail'[l] = m
    <3>1. k \in 2 .. n
      BY <1>1, <2>2
    <3> QED BY <1>4, <2>2, <3>1
  <2> QED BY <1>1, <1>2, <2>1, <2>2
<1>6. MailOnce'
  <2>1. \A k, l \in 1 .. n - 1 : mail'[k].type \in Once /\ mail'[k] = mail'[l] => k = l
    BY <1>1, <1>2, <1>3 DEF MailOnce
  <2>2. \A k \in 1 .. n - 1 : mail'[k].type \in Once => told[mail'[k].task]
    BY <1>2, <1>3 DEF MailOnce
  <2> QED BY <1>2, <2>1, <2>2 DEF MailOnce
<1>7. /\ Head(mail) \in Messages /\ Mailed(Head(mail))
      /\ Head(mail).type \in Once => told[Head(mail).task]
  BY <1>1 DEF MailOnce, Mailed
<1>8. \A t : Finished(t).type \in Once /\ PutLater(t).type \in Once
  BY DEF Finished, PutLater, Once
<1>9. \A t : Finished(t)' = Finished(t) /\ PutLater(t)' = PutLater(t)
  BY DEF Finished, PutLater
<1> HIDE DEF n
<1>10. \A t \in Tasks :
          /\ Mailed(Finished(t))' <=> Mailed(Finished(t)) /\ Head(mail) # Finished(t)
          /\ Mailed(PutLater(t))' <=> Mailed(PutLater(t)) /\ Head(mail) # PutLater(t)
  BY <1>5, <1>8, <1>9 DEF Mailed
<1> QED BY <1>2, <1>6, <1>7, <1>10

(* The end of a task is told: two messages that were never posted before. *)
LEMMA TellMail ==
    ASSUME TypeOK, MailOnce, NEW t \in Tasks, ~told[t],
           told' = [told EXCEPT ![t] = TRUE],
           mail' = mail \o <<Finished(t), PutLater(t)>>
    PROVE  /\ mail' \in Seq(Messages) /\ MailOnce'
           /\ \A u \in Tasks :
                 /\ Mailed(Finished(u))' <=> Mailed(Finished(u)) \/ u = t
                 /\ Mailed(PutLater(u))' <=> Mailed(PutLater(u)) \/ u = t
<1> DEFINE n == Len(mail)
           a == Finished(t)
           b == PutLater(t)
<1>1. mail \in Seq(Messages) /\ n \in Nat /\ a \in Messages /\ b \in Messages /\ a # b
  BY MailTyped
<1>2. a.task = t /\ b.task = t /\ a.type \in Once /\ b.type \in Once
  BY DEF Finished, PutLater, Once
<1>3. \A k \in 1 .. n : mail[k] # a /\ mail[k] # b
  BY <1>2 DEF MailOnce
<1> HIDE DEF a, b
<1>4. /\ mail' \in Seq(Messages) /\ Len(mail') = n + 2
      /\ \A k \in 1 .. n : mail'[k] = mail[k]
      /\ mail'[n + 1] = a /\ mail'[n + 2] = b
  BY <1>1 DEF a, b
<1>5. 1 .. n + 2 = (1 .. n) \union {n + 1, n + 2}
  BY <1>1
<1>6. \A m : (\E k \in 1 .. Len(mail') : mail'[k] = m)
             <=> (\E k \in 1 .. n : mail[k] = m) \/ m \in {a, b}
  BY <1>1, <1>4, <1>5
<1>7. MailOnce'
  <2>1. \A k, l \in 1 .. n + 2 : mail'[k].type \in Once /\ mail'[k] = mail'[l] => k = l
    BY <1>1, <1>3, <1>4, <1>5 DEF MailOnce
  <2>2. \A u \in Tasks : told[u] => told'[u]
    BY DEF TypeOK
  <2>3. \A k \in 1 .. n : mail[k].task \in Tasks
    <3>1. \A k \in 1 .. n : mail[k] \in Messages
      BY <1>1
    <3>2. \A m \in Messages : m.task \in Tasks
      BY DEF Messages
    <3> QED BY <3>1, <3>2
  <2>4. \A k \in 1 .. n + 2 : mail'[k].type \in Once => told'[mail'[k].task]
    <3>1. told'[t]
      BY DEF TypeOK
    <3> QED BY <1>2, <1>4, <1>5, <2>2, <2>3, <3>1 DEF MailOnce
  <2> HIDE DEF n
  <2>5. Len(mail') = n + 2
    BY <1>4
  <2> QED BY <2>1, <2>4, <2>5 DEF MailOnce
<1>8. \A u \in Tasks : /\ Finished(u) \in {a, b} <=> u = t
                       /\ PutLater(u) \in {a, b} <=> u = t
  BY MailTyped DEF a, b
<1> QED BY <1>4, <1>6, <1>7, <1>8 DEF Mailed, Finished, PutLater

------------------------------------------------------------------------------
(* Sets of tasks and of threads are finite. *)
LEMMA TasksFinite ==
    ASSUME NEW S \in SUBSET Tasks
    PROVE  IsFiniteSet(S) /\ Cardinality(S) \in Nat
BY TaskManagerAssumption, FS_Subset, FS_CardinalityType

(* Only tasks wait. *)
LEMMA WaitingAreTasks == Waiting \in SUBSET Tasks
BY DEF Waiting

(* notify_qevent_locked tells the present sizes. *)
LEMMA Notified ==
    ASSUME run' \in SUBSET Tasks, NEW m, Notify(m)
    PROVE  seen' \in [ready : Nat, run : Nat] /\ LastEventIsCurrent'
<1>1. Waiting' \in SUBSET Tasks
  BY DEF Waiting
<1>2. Cardinality(Waiting') \in Nat /\ Cardinality(run') \in Nat
  BY <1>1, TasksFinite
<1> QED BY <1>2 DEF Notify, LastEventIsCurrent

(* ytaskmanager_add_task *)
LEMMA AddTaskInv ==
    ASSUME TaskInv, NEW c \in Clients, NEW t \in Tasks, AddTask(c, t)
    PROVE  TaskInv'
<1> USE DEF AddTask, Call, At, Tagged, Goto, taskVars
<1>1. TypeOK /\ QueuedOnce /\ t \notin Waiting
  BY DEF TaskInv, TaskPlaces
<1>2. ready' \in [Pri -> Seq(Tasks)] /\ Waiting' = Waiting \union {t} /\ QueuedOnce'
  BY <1>1, EnqEffect
<1>3. /\ \A u \in Tasks : /\ Mailed(Finished(u))' <=> Mailed(Finished(u))
                          /\ Mailed(PutLater(u))' <=> Mailed(PutLater(u))
      /\ MailOnce' /\ mail' \in Seq(Messages)
  <2>1. Event(t) \in Messages /\ Event(t).type \notin Once /\ Notify(Event(t))
    BY <1>1, MailTyped DEF Once
  <2>2. TypeOK /\ MailOnce /\ told' = told
    BY DEF TaskInv
  <2> QED BY <2>1, <2>2, MailNotified
<1>4. TypeOK'
  <2>1. seen' \in [ready : Nat, run : Nat]
    BY <1>1, Notified DEF TypeOK
  <2> QED BY <1>1, <1>2, <1>3, <2>1 DEF TypeOK, Threads
<1>5. Positions'
  <2>1. c \in Threads /\ tstate[t] = "READY" /\ ~tag[t] /\ ~told[t]
    BY <1>1 DEF TaskInv, TaskPlaces, Threads, Ended, Terminated
  <2>2. \A th \in Threads : pc[th] = "cancel" => job[th] \in Tasks /\ job[th] # t
    BY <2>1 DEF TaskInv, Positions
  <2>3. \A u \in Tasks : tag[u] => tag'[u]
    BY <1>1 DEF TypeOK
  <2> QED BY <1>1, <1>2, <2>1, <2>2, <2>3 DEF TaskInv, Positions, TypeOK
<1>6. TaskPlaces'
  BY <1>1, <1>2 DEF TaskInv, TaskPlaces, TypeOK
<1>7. Removing'
  BY <1>1, TaskManagerAssumption DEF TaskInv, TaskPlaces, Removing, Positions, TypeOK, Threads, Ended, Terminated
<1>8. GoneIsEmpty'
  BY TaskManagerAssumption DEF TaskInv, Quiet, Threads, GoneIsEmpty, TypeOK
<1>9. RefsByTag'
  BY <1>1, <1>3, <1>7, TaskManagerAssumption DEF TaskInv, RefsByTag, Removing, Positions, TypeOK, Threads, Count
<1>10. EndFound'
  BY <1>1, <1>3 DEF TaskInv, EndFound, TypeOK
<1> QED BY <1>2, <1>3, <1>4, <1>5, <1>6, <1>7, <1>8, <1>9, <1>10 DEF TaskInv

(* balance_taskq *)
LEMMA BalanceInv ==
    ASSUME TaskInv, NEW th \in Threads, Balance(th)
    PROVE  TaskInv'
<1> USE DEF Balance, At, RunEnq, Goto, taskVars
<1>1. PICK t \in Waiting : /\ ReadyDeq(t) /\ run' = run \union {t}
                           /\ listening' = [listening EXCEPT ![t] = TRUE]
                           /\ pc' = [pc EXCEPT ![th] = "start"]
                           /\ job' = [job EXCEPT ![th] = t]
                           /\ Notify(Event(t))
  OBVIOUS
<1>2. TypeOK /\ QueuedOnce /\ t \in Tasks /\ t \notin run /\ tag[t]
  BY WaitingAreTasks DEF TaskInv, TaskPlaces
<1>3. ready' \in [Pri -> Seq(Tasks)] /\ Waiting' = Waiting \ {t} /\ QueuedOnce'
  BY <1>1, <1>2, DeqEffect
<1>4. /\ \A u \in Tasks : /\ Mailed(Finished(u))' <=> Mailed(Finished(u))
                          /\ Mailed(PutLater(u))' <=> Mailed(PutLater(u))
      /\ MailOnce' /\ mail' \in Seq(Messages)
  <2>1. Event(t) \in Messages /\ Event(t).type \notin Once /\ Notify(Event(t))
    BY <1>1, <1>2, MailTyped DEF Once
  <2>2. TypeOK /\ MailOnce /\ told' = told
    BY DEF TaskInv
  <2> QED BY <2>1, <2>2, MailNotified
<1>5. TypeOK'
  <2>1. run' \in SUBSET Tasks
    BY <1>1, <1>2 DEF TypeOK
  <2>2. seen' \in [ready : Nat, run : Nat]
    BY <1>1, <2>1, Notified
  <2> QED BY <1>1, <1>2, <1>3, <1>4, <2>1, <2>2 DEF TypeOK
<1>6. Positions'
  BY <1>1, <1>2, <1>3 DEF TaskInv, Positions, TypeOK
<1>7. TaskPlaces'
  BY <1>1, <1>2, <1>3 DEF TaskInv, TaskPlaces, TypeOK
<1>8. Removing'
  BY <1>1, <1>2, TaskManagerAssumption DEF TaskInv, Removing, Positions, TypeOK, Threads
<1>9. GoneIsEmpty'
  BY <1>1, <1>2, TaskManagerAssumption DEF TaskInv, Quiet, Threads, GoneIsEmpty, TypeOK
<1>10. RefsByTag'
  BY <1>1, <1>2, <1>4 DEF TaskInv, RefsByTag, Positions, TypeOK, Threads, Count
<1>11. EndFound'
  BY <1>1, <1>2, <1>4 DEF TaskInv, EndFound, TypeOK
<1> QED BY <1>3, <1>4, <1>5, <1>6, <1>7, <1>8, <1>9, <1>10, <1>11 DEF TaskInv

(* A balance that finds no free slot or no waiting task. *)
LEMMA BalanceNothingInv ==
    ASSUME TaskInv, NEW th \in Threads, BalanceNothing(th)
    PROVE  TaskInv'
<1> USE DEF BalanceNothing, At, Goto, taskVars
<1>1. Waiting' = Waiting /\ QueuedOnce'
  BY QueuesKept DEF TaskInv
<1>2. /\ \A u \in Tasks : /\ Mailed(Finished(u))' <=> Mailed(Finished(u))
                          /\ Mailed(PutLater(u))' <=> Mailed(PutLater(u))
      /\ MailOnce'
  BY MailKept DEF TaskInv
<1>3. TypeOK'
  BY DEF TaskInv, TypeOK
<1>4. Positions'
  BY <1>1 DEF TaskInv, Positions, TypeOK
<1>5. TaskPlaces'
  BY <1>1 DEF TaskInv, TaskPlaces
<1>6. Removing'
  BY DEF TaskInv, Removing, TypeOK, Threads
<1>7. GoneIsEmpty'
  BY <1>1, TaskManagerAssumption DEF TaskInv, Quiet, Threads, GoneIsEmpty, TypeOK
<1>8. RefsByTag'
  <2>1. \A u \in Tasks : (pc'[Owner] = "put" /\ job'[Owner] = u)
                         <=> (pc[Owner] = "put" /\ job[Owner] = u)
    BY DEF TaskInv, TypeOK, Threads
  <2> QED BY <1>2, <2>1 DEF TaskInv, RefsByTag, Count
<1>9. EndFound'
  BY <1>2 DEF TaskInv, EndFound
<1> QED BY <1>1, <1>2, <1>3, <1>4, <1>5, <1>6, <1>7, <1>8, <1>9 DEF TaskInv

(* The start of the task after q_lock is released. *)
LEMMA StartInv ==
    ASSUME TaskInv, NEW th \in Threads, Start(th)
    PROVE  TaskInv'
<1> USE DEF Start, At, Goto
<1>1. Waiting' = Waiting /\ QueuedOnce'
  BY QueuesKept DEF TaskInv
<1>2. /\ \A u \in Tasks : /\ Mailed(Finished(u))' <=> Mailed(Finished(u))
                          /\ Mailed(PutLater(u))' <=> Mailed(PutLater(u))
      /\ MailOnce'
  BY MailKept DEF TaskInv
<1>3. job[th] \in Tasks /\ (tstate[job[th]] = "READY" => job[th] \in run)
  BY DEF TaskInv, Positions
<1>4. TypeOK'
  BY <1>3 DEF TaskInv, TypeOK
<1>5. Positions'
  BY <1>1, <1>3 DEF TaskInv, Positions, TypeOK
<1>6. TaskPlaces'
  BY <1>1, <1>3 DEF TaskInv, TaskPlaces, TypeOK, Active, Ended, Terminated
<1>7. Removing'
  BY DEF TaskInv, Removing, TypeOK, Threads
<1>8. GoneIsEmpty'
  BY <1>1, TaskManagerAssumption DEF TaskInv, Quiet, Threads, GoneIsEmpty, TypeOK
<1>9. RefsByTag'
  <2>1. \A u \in Tasks : (pc'[Owner] = "put" /\ job'[Owner] = u)
                         <=> (pc[Owner] = "put" /\ job[Owner] = u)
    BY DEF TaskInv, TypeOK, Threads
  <2> QED BY <1>2, <2>1 DEF TaskInv, RefsByTag, Count
<1>10. EndFound'
  BY <1>2 DEF TaskInv, EndFound
<1> QED BY <1>1, <1>2, <1>4, <1>5, <1>6, <1>7, <1>8, <1>9, <1>10 DEF TaskInv

(* ytaskmanager_cancel_task under q_lock. *)
LEMMA CancelReadyInv ==
    ASSUME TaskInv, NEW c \in Clients, NEW t \in Tasks, CancelReady(c, t)
    PROVE  TaskInv'
<1> USE DEF CancelReady, Call, At, Goto, taskVars
<1>1. TypeOK /\ QueuedOnce /\ t \in Waiting /\ c \in Threads /\ c # Owner
  BY TaskManagerAssumption DEF TaskInv, Threads
<1>2. ready' \in [Pri -> Seq(Tasks)] /\ Waiting' = Waiting \ {t} /\ QueuedOnce'
  BY <1>1, RemoveEffect
<1>3. /\ \A u \in Tasks : /\ Mailed(Finished(u))' <=> Mailed(Finished(u))
                          /\ Mailed(PutLater(u))' <=> Mailed(PutLater(u))
      /\ MailOnce' /\ mail' \in Seq(Messages)
  <2>1. Event(t) \in Messages /\ Event(t).type \notin Once /\ Notify(Event(t))
    BY <1>1, MailTyped DEF Once
  <2>2. TypeOK /\ MailOnce /\ told' = told
    BY DEF TaskInv
  <2> QED BY <2>1, <2>2, MailNotified
<1>4. TypeOK'
  <2>1. seen' \in [ready : Nat, run : Nat]
    BY <1>1, Notified DEF TypeOK
  <2> QED BY <1>1, <1>2, <1>3, <2>1 DEF TypeOK
<1>5. Positions'
  BY <1>1, <1>2 DEF TaskInv, Positions, TaskPlaces, TypeOK
<1>6. TaskPlaces'
  BY <1>2 DEF TaskInv, TaskPlaces
<1>7. Removing'
  BY <1>1 DEF TaskInv, Removing, TypeOK
<1>8. GoneIsEmpty'
  BY TaskManagerAssumption DEF TaskInv, Quiet, Threads, GoneIsEmpty, TypeOK
<1>9. RefsByTag'
  BY <1>1, <1>3 DEF TaskInv, RefsByTag, TypeOK, Count
<1>10. EndFound'
  BY <1>3 DEF TaskInv, EndFound
<1> QED BY <1>2, <1>3, <1>4, <1>5, <1>6, <1>7, <1>8, <1>9, <1>10 DEF TaskInv

(* ytaskmanager_cancel_task marks a running task. *)
LEMMA CancelRunInv ==
    ASSUME TaskInv, NEW c \in Clients, NEW t \in Tasks, CancelRun(c, t)
    PROVE  TaskInv'
<1> USE DEF CancelRun, Call, At, Goto, taskVars
<1>1. Waiting' = Waiting /\ QueuedOnce'
  BY QueuesKept DEF TaskInv
<1>2. /\ \A u \in Tasks : /\ Mailed(Finished(u))' <=> Mailed(Finished(u))
                          /\ Mailed(PutLater(u))' <=> Mailed(PutLater(u))
      /\ MailOnce'
  BY MailKept DEF TaskInv
<1>3. c \in Threads /\ c # Owner
  BY TaskManagerAssumption DEF Threads
<1>4. TypeOK'
  BY <1>3 DEF TaskInv, TypeOK
<1>5. Positions'
  BY <1>1, <1>3 DEF TaskInv, Positions, TaskPlaces, RunContains, TypeOK
<1>6. TaskPlaces'
  BY <1>1 DEF TaskInv, TaskPlaces
<1>7. Removing'
  BY <1>3 DEF TaskInv, Removing, TypeOK
<1>8. GoneIsEmpty'
  BY TaskManagerAssumption DEF TaskInv, Quiet, Threads, GoneIsEmpty, TypeOK
<1>9. RefsByTag'
  BY <1>2, <1>3 DEF TaskInv, RefsByTag, TypeOK, Count
<1>10. EndFound'
  BY <1>2 DEF TaskInv, EndFound
<1> QED BY <1>1, <1>2, <1>4, <1>5, <1>6, <1>7, <1>8, <1>9, <1>10 DEF TaskInv

(* Steps that change nothing but the states of tasks, and end no task that *)
(* they do not find started or cancelled.                                  *)
LEMMA TaskStateInv ==
    ASSUME TaskInv,
           UNCHANGED <<gone, ready, run, tag, listening, refs, lost, created, started, told,
                       mail, seen, pc, job>>,
           fate' \in Fates,
           \A u \in Waiting : tstate'[u] = "READY",
           tstate' \in [Tasks -> {"READY"} \union Active \union Ended],
           \A u \in Tasks : /\ tstate[u] # "READY" => tstate'[u] # "READY"
                            /\ tstate'[u] \in Active => tstate[u] \in Active \/ ~started[u]
                            /\ tstate[u] \in Ended => tstate'[u] \in Ended
    PROVE  TaskInv'
<1>1. Waiting' = Waiting /\ QueuedOnce'
  BY QueuesKept DEF TaskInv
<1>2. /\ \A u \in Tasks : /\ Mailed(Finished(u))' <=> Mailed(Finished(u))
                          /\ Mailed(PutLater(u))' <=> Mailed(PutLater(u))
      /\ MailOnce'
  BY MailKept DEF TaskInv
<1>3. TypeOK'
  BY DEF TaskInv, TypeOK, Active, Ended, Terminated, Fates
<1>4. Positions'
  BY <1>1 DEF TaskInv, Positions
<1>5. TaskPlaces'
  BY <1>1 DEF TaskInv, TaskPlaces
<1>6. Removing'
  BY DEF TaskInv, Removing
<1>7. GoneIsEmpty'
  BY <1>1, TaskManagerAssumption DEF TaskInv, Quiet, Threads, GoneIsEmpty, TypeOK
<1>8. RefsByTag'
  BY <1>2 DEF TaskInv, RefsByTag, Count
<1>9. EndFound'
  BY <1>2 DEF TaskInv, EndFound
<1> QED BY <1>1, <1>2, <1>3, <1>4, <1>5, <1>6, <1>7, <1>8, <1>9 DEF TaskInv

(* ... and cancels it outside the lock. *)
LEMMA CancelInv ==
    ASSUME TaskInv, NEW c \in Clients, Cancel(c)
    PROVE  TaskInv'
<1>1. Waiting' = Waiting /\ QueuedOnce'
  BY QueuesKept DEF TaskInv, Cancel
<1>2. /\ \A u \in Tasks : /\ Mailed(Finished(u))' <=> Mailed(Finished(u))
                          /\ Mailed(PutLater(u))' <=> Mailed(PutLater(u))
      /\ MailOnce'
  BY MailKept DEF TaskInv, Cancel
<1>3. c \in Threads /\ c # Owner
  BY TaskManagerAssumption DEF Threads
<1>4. /\ tstate' \in [Tasks -> {"READY"} \union Active \union Ended]
      /\ \A u \in Tasks : \/ tstate'[u] = tstate[u]
                          \/ tstate[u] \in {"READY", "STARTED"} /\ tstate'[u] = "CANCELLING"
  BY DEF Cancel, Cancelled, TaskInv, TypeOK, Active, Ended, Terminated
<1>14. \A u \in Waiting : tstate'[u] = tstate[u]
  <2>1. job[c] \in Tasks /\ job[c] \notin Waiting
    BY <1>3 DEF Cancel, At, TaskInv, Positions
  <2> QED BY <2>1, WaitingAreTasks DEF Cancel, Cancelled
<1>5. pc' = [pc EXCEPT ![c] = "idle"] /\ job' = [job EXCEPT ![c] = None] /\ pc[c] = "cancel"
  BY DEF Cancel, Goto, At
<1>6. UNCHANGED <<gone, fate, ready, run, tag, listening, refs, lost, created, started, told, mail, seen>>
  BY DEF Cancel
<1>7. TypeOK'
  BY <1>3, <1>4, <1>5, <1>6 DEF TaskInv, TypeOK, Active, Ended, Terminated
<1>8. Positions'
  BY <1>1, <1>3, <1>4, <1>5, <1>6 DEF TaskInv, Positions, TypeOK
<1>9. TaskPlaces'
  BY <1>1, <1>4, <1>6, <1>14 DEF TaskInv, TaskPlaces, Active, Ended, Terminated
<1>10. Removing'
  BY <1>3, <1>5, <1>6 DEF TaskInv, Removing, TypeOK
<1>11. GoneIsEmpty'
  BY <1>1, <1>3, <1>5, <1>6, TaskManagerAssumption DEF TaskInv, Quiet, Threads, GoneIsEmpty, TypeOK
<1>12. RefsByTag'
  BY <1>2, <1>3, <1>5, <1>6 DEF TaskInv, RefsByTag, TypeOK, Count
<1>13. EndFound'
  BY <1>2, <1>6 DEF TaskInv, EndFound
<1> QED BY <1>1, <1>2, <1>7, <1>8, <1>9, <1>10, <1>11, <1>12, <1>13 DEF TaskInv

(* ytaskmanager_cancel_all, which stops at the first waiting task. *)
LEMMA CancelAllInv ==
    ASSUME TaskInv, NEW c \in Clients, CancelAll(c)
    PROVE  TaskInv'
<1>1. /\ tstate' \in [Tasks -> {"READY"} \union Active \union Ended]
      /\ \A u \in Tasks : \/ tstate'[u] = tstate[u]
                          \/ tstate[u] \in {"READY", "STARTED"} /\ tstate'[u] = "CANCELLING"
  BY DEF CancelAll, Cancelled, TaskInv, TypeOK, Active, Ended, Terminated
<1>2. \A u \in Tasks : started[u] => tstate[u] # "READY"
  BY DEF TaskInv, TaskPlaces
<1>3. \A u \in Tasks : /\ tstate[u] # "READY" => tstate'[u] # "READY"
                       /\ tstate'[u] \in Active => tstate[u] \in Active \/ ~started[u]
                       /\ tstate[u] \in Ended => tstate'[u] \in Ended
  BY <1>1, <1>2 DEF Active, Ended, Terminated
<1>4. \A u \in Waiting : tstate'[u] = "READY"
  BY WaitingAreTasks DEF CancelAll, Cancelled, TaskInv, TaskPlaces
<1> QED BY <1>1, <1>3, <1>4, TaskStateInv DEF CancelAll, TaskInv, TypeOK, Fates

(* The life of a task outside the manager. *)
LEMMA TaskEndsInv ==
    ASSUME TaskInv, NEW t \in Tasks, RunEnds(t) \/ GiveUp(t) \/ Terminate(t)
    PROVE  TaskInv'
<1>1. PICK st \in Ended : /\ tstate' = [tstate EXCEPT ![t] = st]
                          /\ tstate[t] # "READY"
  BY DEF RunEnds, GiveUp, Terminate, Ended, Terminated
<1>2. tstate' \in [Tasks -> {"READY"} \union Active \union Ended]
  BY <1>1 DEF TaskInv, TypeOK, Active, Ended, Terminated
<1>3. \A u \in Tasks : /\ tstate[u] # "READY" => tstate'[u] # "READY"
                       /\ tstate'[u] \in Active => tstate[u] \in Active \/ ~started[u]
                       /\ tstate[u] \in Ended => tstate'[u] \in Ended
  BY <1>1 DEF TaskInv, TypeOK, Active, Ended, Terminated
<1>4. \A u \in Waiting : tstate'[u] = "READY"
  BY <1>1, WaitingAreTasks DEF TaskInv, TypeOK, TaskPlaces
<1> QED BY <1>2, <1>3, <1>4, TaskStateInv DEF RunEnds, GiveUp, Terminate, TaskInv, TypeOK, Fates

(* The end of a task is posted to the Owner. *)
LEMMA TellInv ==
    ASSUME TaskInv, NEW t \in Tasks, Tell(t)
    PROVE  TaskInv'
<1> USE DEF Tell
<1>1. Waiting' = Waiting /\ QueuedOnce'
  BY QueuesKept DEF TaskInv
<1>2. /\ \A u \in Tasks :
            /\ Mailed(Finished(u))' <=> Mailed(Finished(u)) \/ (u = t /\ listening[t])
            /\ Mailed(PutLater(u))' <=> Mailed(PutLater(u)) \/ (u = t /\ listening[t])
      /\ mail' \in Seq(Messages)
      /\ MailOnce'
  <2>1. CASE listening[t]
    BY <2>1, TellMail DEF TaskInv
  <2>2. CASE ~listening[t]
    <3>1. mail' = mail /\ \A u \in Tasks : told[u] => told'[u]
      BY <2>2 DEF TaskInv, TypeOK
    <3>2. \A k \in 1 .. Len(mail) : mail[k].task \in Tasks
      <4>1. \A k \in 1 .. Len(mail) : mail[k] \in Messages
        BY MailTyped DEF TaskInv
      <4> QED BY <4>1 DEF Messages
    <3>3. MailOnce'
      BY <3>1, <3>2 DEF TaskInv, MailOnce
    <3> QED BY <2>2, <3>1, <3>3, MailTyped DEF TaskInv, Mailed, Finished, PutLater
  <2> QED BY <2>1, <2>2
<1>3. ~Mailed(PutLater(t))
  <2>1. \A k \in 1 .. Len(mail) : mail[k] # PutLater(t)
    BY DEF TaskInv, MailOnce, PutLater, Once
  <2> QED BY <2>1 DEF Mailed
<1>4. TypeOK'
  <2>1. refs' \in [Tasks -> Nat]
    <3>1. refs' = refs \/ refs' = [refs EXCEPT ![t] = refs[t] + 1]
      OBVIOUS
    <3> QED BY <3>1 DEF TaskInv, TypeOK
  <2>2. told' \in [Tasks -> BOOLEAN]
    BY DEF TaskInv, TypeOK
  <2> QED BY <1>2, <2>1, <2>2 DEF TaskInv, TypeOK, Messages
<1>5. Positions'
  BY <1>1 DEF TaskInv, Positions, TypeOK
<1>6. TaskPlaces'
  BY <1>1 DEF TaskInv, TaskPlaces, TypeOK, Ended
<1>7. Removing'
  <2>1. \A u \in Tasks : told[u] => told'[u]
    BY DEF TaskInv, TypeOK
  <2> QED BY <2>1 DEF TaskInv, Removing, Positions, Threads
<1>8. GoneIsEmpty'
  BY <1>1, TaskManagerAssumption DEF TaskInv, Quiet, Threads, GoneIsEmpty, TypeOK
<1>9. RefsByTag'
  <2>1. CASE listening[t]
    <3>1. /\ refs \in [Tasks -> Nat]
          /\ refs' = [refs EXCEPT ![t] = refs[t] + 1]
      BY <2>1 DEF TaskInv, TypeOK
    <3>2. \A u \in Tasks \ {t} : /\ refs'[u] = refs[u]
                                 /\ Mailed(PutLater(u))' <=> Mailed(PutLater(u))
      BY <1>2, <3>1
    <3>3. refs'[t] = refs[t] + 1 /\ Mailed(PutLater(t))'
      BY <1>2, <2>1, <3>1
    <3>4. refs'[t] = Count(created[t])
                     + Count(tag[t] \/ (pc[Owner] = "put" /\ job[Owner] = t)) + 1
      <4>1. /\ Count(created[t]) \in {0, 1}
            /\ Count(tag[t] \/ (pc[Owner] = "put" /\ job[Owner] = t)) \in {0, 1}
            /\ Count(Mailed(PutLater(t))) = 0
        BY <1>3 DEF Count
      <4>2. refs[t] = Count(created[t])
                      + Count(tag[t] \/ (pc[Owner] = "put" /\ job[Owner] = t))
                      + Count(Mailed(PutLater(t)))
        BY DEF TaskInv, RefsByTag
      <4> QED BY <3>3, <4>1, <4>2
    <3> SUFFICES ASSUME NEW u \in Tasks
                 PROVE  refs'[u] = Count(created[u])
                                   + Count(tag[u] \/ (pc[Owner] = "put" /\ job[Owner] = u))
                                   + Count(Mailed(PutLater(u))')
      BY DEF RefsByTag
    <3>5. CASE u = t
      BY <3>3, <3>4, <3>5 DEF Count
    <3>6. CASE u # t
      <4>1. refs[u] = Count(created[u])
                      + Count(tag[u] \/ (pc[Owner] = "put" /\ job[Owner] = u))
                      + Count(Mailed(PutLater(u)))
        BY DEF TaskInv, RefsByTag
      <4>2. Count(Mailed(PutLater(u)))' = Count(Mailed(PutLater(u)))
        BY <3>2, <3>6 DEF Count
      <4>3. refs'[u] = refs[u]
        BY <3>2, <3>6
      <4> QED BY <4>1, <4>2, <4>3
    <3> QED BY <3>5, <3>6
  <2>2. CASE ~listening[t]
    BY <1>2, <2>2 DEF TaskInv, RefsByTag, Count
  <2> QED BY <2>1, <2>2
<1>10. EndFound'
  BY <1>2 DEF TaskInv, EndFound, TaskPlaces
<1> QED BY <1>1, <1>2, <1>4, <1>5, <1>6, <1>7, <1>8, <1>9, <1>10 DEF TaskInv

(* ytask_destroy *)
LEMMA DestroyTaskInv ==
    ASSUME TaskInv, NEW t \in Tasks, DestroyTask(t)
    PROVE  TaskInv'
<1> USE DEF DestroyTask
<1>1. Waiting' = Waiting /\ QueuedOnce'
  BY QueuesKept DEF TaskInv
<1>2. /\ \A u \in Tasks : /\ Mailed(Finished(u))' <=> Mailed(Finished(u))
                          /\ Mailed(PutLater(u))' <=> Mailed(PutLater(u))
      /\ MailOnce'
  BY MailKept DEF TaskInv
<1>3. refs[t] \in Nat /\ refs[t] # 0
  <2>1. Count(created[t]) = 1
    BY DEF Count
  <2>2. /\ Count(tag[t] \/ (pc[Owner] = "put" /\ job[Owner] = t)) \in {0, 1}
        /\ Count(Mailed(PutLater(t))) \in {0, 1}
    BY DEF Count
  <2>3. refs[t] = Count(created[t])
                  + Count(tag[t] \/ (pc[Owner] = "put" /\ job[Owner] = t))
                  + Count(Mailed(PutLater(t)))
    BY DEF TaskInv, RefsByTag
  <2> QED BY <2>1, <2>2, <2>3
<1>4. TypeOK'
  <2>1. refs' \in [Tasks -> Nat]
    BY <1>3 DEF TaskInv, TypeOK
  <2> QED BY <2>1 DEF TaskInv, TypeOK
<1>5. Positions'
  BY <1>1 DEF TaskInv, Positions, TypeOK
<1>6. TaskPlaces'
  BY <1>1 DEF TaskInv, TaskPlaces
<1>7. Removing' /\ GoneIsEmpty'
  BY <1>1 DEF TaskInv, Removing, GoneIsEmpty, Quiet
<1>8. RefsByTag'
  BY <1>2, <1>3 DEF TaskInv, RefsByTag, TypeOK, Count
<1>9. EndFound'
  BY <1>2 DEF TaskInv, EndFound
<1> QED BY <1>1, <1>2, <1>4, <1>5, <1>6, <1>7, <1>8, <1>9 DEF TaskInv

------------------------------------------------------------------------------
(* The Owner takes the listener off a task that has ended ... *)
LEMMA TakeFinishedInv ==
    ASSUME TaskInv, TakeFinished
    PROVE  TaskInv'
<1> USE DEF TakeFinished, At, Goto, taskVars
<1>1. Waiting' = Waiting /\ QueuedOnce'
  BY QueuesKept DEF TaskInv
<1> DEFINE t == Head(mail).task
<1>2. /\ mail' \in Seq(Messages) /\ MailOnce'
      /\ Head(mail) \in Messages /\ told[t] /\ Mailed(Head(mail))
      /\ \A u \in Tasks :
            /\ Mailed(Finished(u))' <=> Mailed(Finished(u)) /\ Head(mail) # Finished(u)
            /\ Mailed(PutLater(u))' <=> Mailed(PutLater(u)) /\ Head(mail) # PutLater(u)
  BY TakeMail DEF TaskInv, Once
<1>3. t \in Tasks /\ Head(mail) = Finished(t)
  BY <1>2 DEF Messages, Finished
<1>4. t \in run /\ tag[t] /\ listening[t]
  BY <1>2, <1>3 DEF TaskInv, EndFound
<1>5. \A u \in Tasks : /\ Mailed(Finished(u))' <=> Mailed(Finished(u)) /\ u # t
                       /\ Mailed(PutLater(u))' <=> Mailed(PutLater(u))
  <2> HIDE DEF t
  <2> QED BY <1>2, <1>3, MailTyped DEF TaskInv
<1>6. /\ listening' = [listening EXCEPT ![t] = FALSE]
      /\ pc' = [pc EXCEPT ![Owner] = "remove"]
      /\ job' = [job EXCEPT ![Owner] = t]
      /\ Owner \in Threads
  BY DEF Threads
<1> HIDE DEF t
<1>7. TypeOK'
  BY <1>2, <1>3, <1>6 DEF TaskInv, TypeOK, Messages
<1>8. Positions'
  BY <1>1, <1>3, <1>6, TaskManagerAssumption DEF TaskInv, Positions, TypeOK
<1>9. TaskPlaces'
  BY <1>1, <1>6 DEF TaskInv, TaskPlaces, TypeOK
<1>10. Removing'
  BY <1>2, <1>3, <1>4, <1>6 DEF TaskInv, Removing, TypeOK
<1>11. GoneIsEmpty'
  BY <1>4, TaskManagerAssumption DEF TaskInv, Quiet, Threads, GoneIsEmpty, TypeOK
<1>12. RefsByTag'
  BY <1>5, <1>6 DEF TaskInv, RefsByTag, TypeOK, Count
<1>13. EndFound'
  BY <1>5, <1>6 DEF TaskInv, EndFound, TypeOK
<1> QED BY <1>1, <1>2, <1>7, <1>8, <1>9, <1>10, <1>11, <1>12, <1>13 DEF TaskInv

(* ... frees the slot and the tag ... *)
LEMMA RemoveFromRunqInv ==
    ASSUME TaskInv, RemoveFromRunq
    PROVE  TaskInv'
<1> USE DEF RemoveFromRunq, At, Goto, RunRemove, Untagged, taskVars
<1>1. Waiting' = Waiting /\ QueuedOnce'
  BY QueuesKept DEF TaskInv
<1> DEFINE t == job[Owner]
<1>3. /\ Owner \in Threads /\ pc[Owner] = "remove"
      /\ t \in Tasks /\ told[t] /\ ~listening[t] /\ t \in run
      /\ run' = run \ {t}
      /\ tag' = [tag EXCEPT ![t] = FALSE]
      /\ pc' = [pc EXCEPT ![Owner] = "put"]
      /\ job' = job
  BY DEF TaskInv, Removing, Positions, Threads, TypeOK
<1>2. /\ \A u \in Tasks : /\ Mailed(Finished(u))' <=> Mailed(Finished(u))
                          /\ Mailed(PutLater(u))' <=> Mailed(PutLater(u))
      /\ MailOnce' /\ mail' \in Seq(Messages)
  <2>1. Left(t) \in Messages /\ Left(t).type \notin Once /\ Notify(Left(t))
    BY <1>3, MailTyped DEF TaskInv, Once
  <2>2. TypeOK /\ MailOnce /\ told' = told
    BY DEF TaskInv
  <2> HIDE DEF t
  <2> QED BY <2>1, <2>2, MailNotified
<1>4. tag[t] /\ t \notin Waiting /\ tstate[t] \in Ended
  BY <1>3 DEF TaskInv, TaskPlaces
<1> HIDE DEF t
<1>5. TypeOK'
  <2>1. run' \in SUBSET Tasks
    BY <1>3 DEF TaskInv, TypeOK
  <2>2. seen' \in [ready : Nat, run : Nat]
    BY <2>1, Notified
  <2> QED BY <1>2, <1>3, <2>1, <2>2 DEF TaskInv, TypeOK
<1>6. Positions'
  BY <1>1, <1>3, <1>4, TaskManagerAssumption DEF TaskInv, Positions, TypeOK, t, Ended, Terminated
<1>7. TaskPlaces'
  BY <1>1, <1>3, <1>4 DEF TaskInv, TaskPlaces, TypeOK, Active, Ended, Terminated
<1>8. Removing'
  BY <1>3 DEF TaskInv, Removing, TypeOK, t
<1>9. GoneIsEmpty'
  BY <1>3, TaskManagerAssumption DEF TaskInv, Quiet, Threads, GoneIsEmpty, TypeOK
<1>10. RefsByTag'
  <2>1. \A u \in Tasks \ {t} : tag'[u] = tag[u]
    BY <1>3 DEF TaskInv, TypeOK
  <2>2. pc'[Owner] = "put" /\ job'[Owner] = t
    BY <1>3 DEF TaskInv, TypeOK, t
  <2> QED BY <1>2, <1>3, <1>4, <2>1, <2>2 DEF TaskInv, RefsByTag, Count
<1>11. EndFound'
  BY <1>2, <1>3 DEF TaskInv, EndFound, TypeOK
<1> QED BY <1>1, <1>2, <1>5, <1>6, <1>7, <1>8, <1>9, <1>10, <1>11 DEF TaskInv

(* ... drops the manager's reference ... *)
LEMMA PutInv ==
    ASSUME TaskInv, Put
    PROVE  TaskInv'
<1> USE DEF Put, At, Goto, taskVars
<1>1. Waiting' = Waiting /\ QueuedOnce'
  BY QueuesKept DEF TaskInv
<1>2. /\ \A u \in Tasks : /\ Mailed(Finished(u))' <=> Mailed(Finished(u))
                          /\ Mailed(PutLater(u))' <=> Mailed(PutLater(u))
      /\ MailOnce'
  BY MailKept DEF TaskInv
<1> DEFINE t == job[Owner]
<1>3. /\ Owner \in Threads /\ pc[Owner] = "put"
      /\ t \in Tasks /\ ~tag[t]
      /\ refs' = [refs EXCEPT ![t] = refs[t] - 1]
      /\ pc' = [pc EXCEPT ![Owner] = "balance"]
      /\ job' = [job EXCEPT ![Owner] = None]
  BY DEF TaskInv, Removing, Positions, Threads, TypeOK
<1>4. refs[t] \in Nat /\ refs[t] # 0
  <2>1. Count(tag[t] \/ (pc[Owner] = "put" /\ job[Owner] = t)) = 1
    BY <1>3 DEF Count
  <2>2. Count(created[t]) \in {0, 1} /\ Count(Mailed(PutLater(t))) \in {0, 1}
    BY DEF Count
  <2> QED BY <1>3, <2>1, <2>2 DEF TaskInv, RefsByTag, TypeOK
<1>5. \A u \in Tasks \ {t} : job[Owner] # u
  OBVIOUS
<1>6. job[Owner] = t
  OBVIOUS
<1> HIDE DEF t
<1>7. TypeOK'
  BY <1>3, <1>4 DEF TaskInv, TypeOK
<1>8. Positions'
  BY <1>1, <1>3, TaskManagerAssumption DEF TaskInv, Positions, TypeOK
<1>9. TaskPlaces'
  BY <1>1 DEF TaskInv, TaskPlaces
<1>10. Removing'
  BY <1>3 DEF TaskInv, Removing, TypeOK
<1>11. GoneIsEmpty'
  BY <1>1, <1>3, TaskManagerAssumption DEF TaskInv, Quiet, Threads, GoneIsEmpty, TypeOK
<1>12. RefsByTag'
  <2>1. pc'[Owner] = "balance"
    BY <1>3 DEF TaskInv, TypeOK
  <2>2. \A u \in Tasks \ {t} : refs'[u] = refs[u]
    BY <1>3 DEF TaskInv, TypeOK
  <2>3. refs'[t] = refs[t] - 1
    BY <1>3 DEF TaskInv, TypeOK
  <2> QED BY <1>2, <1>3, <1>4, <1>5, <1>6, <2>1, <2>2, <2>3 DEF TaskInv, RefsByTag, Count
<1>13. EndFound'
  BY <1>2 DEF TaskInv, EndFound
<1> QED BY <1>1, <1>2, <1>7, <1>8, <1>9, <1>10, <1>11, <1>12, <1>13 DEF TaskInv

(* ... and the one that was taken for the message of the end. *)
LEMMA TakePutInv ==
    ASSUME TaskInv, TakePut
    PROVE  TaskInv'
<1> USE DEF TakePut, At, taskVars
<1>1. Waiting' = Waiting /\ QueuedOnce'
  BY QueuesKept DEF TaskInv
<1> DEFINE t == Head(mail).task
<1>2. /\ mail' \in Seq(Messages) /\ MailOnce'
      /\ Head(mail) \in Messages /\ Mailed(Head(mail))
      /\ \A u \in Tasks :
            /\ Mailed(Finished(u))' <=> Mailed(Finished(u)) /\ Head(mail) # Finished(u)
            /\ Mailed(PutLater(u))' <=> Mailed(PutLater(u)) /\ Head(mail) # PutLater(u)
  BY TakeMail DEF TaskInv
<1>3. t \in Tasks /\ Head(mail) = PutLater(t)
  BY <1>2 DEF Messages, PutLater
<1>4. \A u \in Tasks : /\ Mailed(Finished(u))' <=> Mailed(Finished(u))
                       /\ Mailed(PutLater(u))' <=> Mailed(PutLater(u)) /\ u # t
  <2> HIDE DEF t
  <2> QED BY <1>2, <1>3, MailTyped DEF TaskInv
<1>5. refs' = [refs EXCEPT ![t] = refs[t] - 1]
  OBVIOUS
<1> HIDE DEF t
<1>6. refs[t] \in Nat /\ refs[t] # 0
  <2>1. Count(Mailed(PutLater(t))) = 1
    BY <1>2, <1>3 DEF Count
  <2>2. /\ Count(created[t]) \in {0, 1}
        /\ Count(tag[t] \/ (pc[Owner] = "put" /\ job[Owner] = t)) \in {0, 1}
    BY DEF Count
  <2> QED BY <1>3, <2>1, <2>2 DEF TaskInv, RefsByTag, TypeOK
<1>7. TypeOK'
  BY <1>2, <1>3, <1>5, <1>6 DEF TaskInv, TypeOK, Messages
<1>8. Positions'
  BY <1>1 DEF TaskInv, Positions
<1>9. TaskPlaces'
  BY <1>1 DEF TaskInv, TaskPlaces
<1>10. Removing' /\ GoneIsEmpty'
  BY <1>1 DEF TaskInv, Removing, GoneIsEmpty, Quiet
<1>11. RefsByTag'
  <2>1. \A u \in Tasks \ {t} : refs'[u] = refs[u]
    BY <1>5 DEF TaskInv, TypeOK
  <2>2. refs'[t] = refs[t] - 1
    BY <1>3, <1>5 DEF TaskInv, TypeOK
  <2>3. Mailed(PutLater(t))
    BY <1>2, <1>3
  <2> QED BY <1>4, <1>6, <2>1, <2>2, <2>3 DEF TaskInv, RefsByTag, Count
<1>12. EndFound'
  BY <1>4 DEF TaskInv, EndFound
<1> QED BY <1>1, <1>2, <1>7, <1>8, <1>9, <1>10, <1>11, <1>12 DEF TaskInv

(* The user's listener is told of a queue event. *)
LEMMA TakeEventInv ==
    ASSUME TaskInv, TakeEvent
    PROVE  TaskInv'
<1> USE DEF TakeEvent, At, taskVars
<1>1. Waiting' = Waiting /\ QueuedOnce'
  BY QueuesKept DEF TaskInv
<1>2. /\ mail' \in Seq(Messages) /\ MailOnce'
      /\ \A u \in Tasks :
            /\ Mailed(Finished(u))' <=> Mailed(Finished(u)) /\ Head(mail) # Finished(u)
            /\ Mailed(PutLater(u))' <=> Mailed(PutLater(u)) /\ Head(mail) # PutLater(u)
  BY TakeMail DEF TaskInv
<1>3. \A u \in Tasks : Head(mail) # Finished(u) /\ Head(mail) # PutLater(u)
  BY DEF Finished, PutLater
<1>4. TypeOK'
  BY <1>2 DEF TaskInv, TypeOK
<1>5. Positions' /\ TaskPlaces'
  BY <1>1 DEF TaskInv, Positions, TaskPlaces
<1>6. Removing' /\ GoneIsEmpty'
  BY <1>1 DEF TaskInv, Removing, GoneIsEmpty, Quiet
<1>7. RefsByTag'
  BY <1>2, <1>3 DEF TaskInv, RefsByTag, Count
<1>8. EndFound'
  BY <1>2, <1>3 DEF TaskInv, EndFound
<1> QED BY <1>1, <1>2, <1>4, <1>5, <1>6, <1>7, <1>8 DEF TaskInv

(* Steps that change at most the position of a client that works on no     *)
(* task, and whether the manager is there.                                 *)
LEMMA QuietInv ==
    ASSUME TaskInv, NEW c \in Clients, NEW p \in {"idle", "destroy"},
           pc[c] \in {"idle", "destroy"}, pc' = [pc EXCEPT ![c] = p],
           job' = [job EXCEPT ![c] = None],
           gone' \in BOOLEAN,
           UNCHANGED <<fate, ready, run, tag, listening, refs, lost, taskVars, mail, seen>>,
           GoneIsEmpty'
    PROVE  TaskInv'
<1> USE DEF taskVars
<1>1. Waiting' = Waiting /\ QueuedOnce'
  BY QueuesKept DEF TaskInv
<1>2. /\ \A u \in Tasks : /\ Mailed(Finished(u))' <=> Mailed(Finished(u))
                          /\ Mailed(PutLater(u))' <=> Mailed(PutLater(u))
      /\ MailOnce'
  BY MailKept DEF TaskInv
<1>3. c \in Threads /\ c # Owner
  BY TaskManagerAssumption DEF Threads
<1>4. TypeOK'
  BY <1>3 DEF TaskInv, TypeOK
<1>5. Positions'
  BY <1>1, <1>3 DEF TaskInv, Positions, TypeOK
<1>6. TaskPlaces'
  BY <1>1 DEF TaskInv, TaskPlaces
<1>7. Removing'
  BY <1>3 DEF TaskInv, Removing, TypeOK
<1>8. RefsByTag'
  BY <1>2, <1>3 DEF TaskInv, RefsByTag, TypeOK, Count
<1>9. EndFound'
  BY <1>2 DEF TaskInv, EndFound
<1> QED BY <1>1, <1>2, <1>4, <1>5, <1>6, <1>7, <1>8, <1>9 DEF TaskInv

(* ytaskmanager_destroy: the size is 0, so the Owner is not removing a     *)
(* task and has none to start.                                             *)
LEMMA CheckSizeInv ==
    ASSUME TaskInv, NEW c \in Clients, CheckSize(c)
    PROVE  TaskInv'
<1> USE DEF CheckSize, Call, At, Goto, taskVars
<1>1. Waiting' = Waiting /\ run' = run
  BY QueuesKept DEF TaskInv
<1>2. run = {} /\ Waiting = {}
  <2>1. /\ run \in SUBSET Tasks /\ IsFiniteSet(run) /\ Cardinality(run) \in Nat
        /\ IsFiniteSet(Waiting) /\ Cardinality(Waiting) \in Nat
    BY TasksFinite, WaitingAreTasks DEF TaskInv, TypeOK
  <2>2. Cardinality(run) = 0 /\ Cardinality(Waiting) = 0
    BY <2>1 DEF Size, Running
  <2> QED BY <2>1, <2>2, FS_EmptySet
<1>3. c \in Threads /\ Owner \in Threads /\ c # Owner
  BY TaskManagerAssumption DEF Threads
<1>4. pc[Owner] \in {"idle", "put", "balance", "start"}
  BY <1>2, <1>3, TaskManagerAssumption DEF TaskInv, TypeOK, Removing, Positions
<1>5. pc[Owner] # "start"
  BY <1>2, <1>3 DEF TaskInv, TypeOK, Removing
<1>6. GoneIsEmpty'
  BY <1>1, <1>2, <1>3, <1>4, <1>5 DEF TaskInv, TypeOK, GoneIsEmpty, Quiet
<1> QED BY <1>3, <1>6, QuietInv DEF TaskInv, TypeOK

(* ... and it is still 0 when the manager is freed.                        *)
LEMMA DestroyInv ==
    ASSUME TaskInv, NEW c \in Clients, Destroy(c)
    PROVE  TaskInv'
<1> USE DEF Destroy, At, Goto, taskVars
<1>1. Waiting' = Waiting /\ run' = run
  BY QueuesKept DEF TaskInv
<1>2. c \in Threads /\ Owner \in Threads /\ c # Owner
  BY TaskManagerAssumption DEF Threads
<1>3. GoneIsEmpty'
  BY <1>1, <1>2 DEF TaskInv, TypeOK, GoneIsEmpty, Quiet, Threads
<1> QED BY <1>2, <1>3, QuietInv DEF TaskInv, TypeOK

(* Steps that end the process. *)
LEMMA FatalInv ==
    ASSUME TaskInv, fate' \in Fates,
           UNCHANGED <<gone, ready, run, tag, listening, refs, lost, taskVars, mail, seen, pc, job>>
    PROVE  TaskInv'
<1> USE DEF taskVars
<1>1. tstate' \in [Tasks -> {"READY"} \union Active \union Ended]
  BY DEF TaskInv, TypeOK, Active, Ended, Terminated
<1>2. \A u \in Waiting : tstate'[u] = "READY"
  BY WaitingAreTasks DEF TaskInv, TaskPlaces
<1>3. \A u \in Tasks : /\ tstate[u] # "READY" => tstate'[u] # "READY"
                       /\ tstate'[u] \in Active => tstate[u] \in Active \/ ~started[u]
                       /\ tstate[u] \in Ended => tstate'[u] \in Ended
  OBVIOUS
<1> QED BY <1>1, <1>2, <1>3, TaskStateInv

------------------------------------------------------------------------------
(* ytaskmanager_create establishes the invariant of the tasks. *)
LEMMA TaskInit == Init => TaskInv
<1> SUFFICES ASSUME Init PROVE TaskInv
  OBVIOUS
<1> USE TaskManagerAssumption DEF Init
<1>1. Waiting = {} /\ \A m : ~Mailed(m)
  BY DEF Waiting, Mailed, Pri
<1>2. TypeOK
  <2>1. ready \in [Pri -> Seq(Tasks)] /\ mail \in Seq(Messages) /\ run \in SUBSET Tasks
    OBVIOUS
  <2>2. /\ refs \in [Tasks -> Nat]
        /\ seen \in [ready : Nat, run : Nat]
        /\ job \in [Threads -> Tasks \union {None}]
    OBVIOUS
  <2>3. /\ tstate \in [Tasks -> {"READY", "STARTED", "CANCELLING", "CANCELLED", "DONE"}
                               \union Terminated]
        /\ pc \in [Threads -> {"idle", "balance", "start", "cancel", "remove", "put"}]
    OBVIOUS
  <2> QED BY <2>1, <2>2, <2>3 DEF TypeOK, Messages
<1>3. QueuedOnce /\ Positions /\ TaskPlaces /\ MailOnce /\ Removing /\ GoneIsEmpty
  BY <1>1 DEF QueuedOnce, Positions, TaskPlaces, MailOnce, Removing, GoneIsEmpty, Quiet, Threads
<1>4. RefsByTag
  BY <1>1 DEF RefsByTag, Threads, Count
<1>5. EndFound
  BY <1>1 DEF EndFound
<1> QED BY <1>2, <1>3, <1>4, <1>5 DEF TaskInv

(* ... a step of somebody else keeps it, *)
LEMMA TaskStutter ==
    ASSUME TaskInv, UNCHANGED vars
    PROVE  TaskInv'
BY FatalInv DEF vars, taskVars, TaskInv, TypeOK, Fates

(* ... and so does every step of the manager. *)
LEMMA TaskNext == TaskInv /\ [Next]_vars => TaskInv'
<1> SUFFICES ASSUME TaskInv, [Next]_vars PROVE TaskInv'
  OBVIOUS
<1>1. ASSUME NEW c \in Clients, NEW t \in Tasks,
             AddTask(c, t) \/ CancelReady(c, t) \/ CancelRun(c, t) \/ CancelGone(c, t)
      PROVE  TaskInv'
  <2>1. CASE CancelGone(c, t)
    BY <2>1, FatalInv DEF CancelGone, Fates
  <2> QED BY <1>1, <2>1, AddTaskInv, CancelReadyInv, CancelRunInv
<1>2. ASSUME NEW c \in Clients, Cancel(c) \/ CancelAll(c) \/ CheckSize(c) \/ Destroy(c)
      PROVE  TaskInv'
  BY <1>2, CancelInv, CancelAllInv, CheckSizeInv, DestroyInv
<1>3. ASSUME NEW th \in Threads, Inside(th)
      PROVE  TaskInv'
  <2>1. CASE UseFreed(th)
    BY <2>1, FatalInv DEF UseFreed, Fates
  <2> QED BY <1>3, <2>1, BalanceInv, BalanceNothingInv, StartInv DEF Inside
<1>4. ASSUME NEW t \in Tasks, TaskStep(t) \/ DestroyTask(t)
      PROVE  TaskInv'
  BY <1>4, TaskEndsInv, TellInv, DestroyTaskInv DEF TaskStep
<1>5. CASE OwnerStep
  BY <1>5, TakeFinishedInv, RemoveFromRunqInv, PutInv, TakePutInv, TakeEventInv DEF OwnerStep
<1>6. CASE UNCHANGED vars
  BY <1>6, TaskStutter
<1> QED BY <1>1, <1>2, <1>3, <1>4, <1>5, <1>6 DEF Next

(* The count by the tag is the count by the queues: a task with a tag      *)
(* waits, is in a slot, or was cancelled while it waited.                  *)
LEMMA ExactFromTag == TaskInv => RefsExact
<1> SUFFICES ASSUME TaskInv, NEW t \in Tasks
             PROVE  refs[t] = Count(created[t])
                              + Count(t \in Waiting \union run
                                      \/ (pc[Owner] = "put" /\ job[Owner] = t))
                              + Count(Mailed(PutLater(t)))
                              + Count(t \in lost)
  BY DEF RefsExact
<1> DEFINE out == pc[Owner] = "put" /\ job[Owner] = t
<1>1. refs[t] = Count(created[t]) + Count(tag[t] \/ out) + Count(Mailed(PutLater(t)))
  BY DEF TaskInv, RefsByTag
<1>2. Count(created[t]) \in {0, 1} /\ Count(Mailed(PutLater(t))) \in {0, 1}
  BY DEF Count
<1>3. Count(tag[t] \/ out) = Count(t \in Waiting \union run \/ out) + Count(t \in lost)
  BY DEF TaskInv, TaskPlaces, Removing, Count
<1>4. Count(t \in Waiting \union run \/ out) \in {0, 1} /\ Count(t \in lost) \in {0, 1}
  BY DEF Count
<1> HIDE DEF out
<1>5. refs[t] = Count(created[t]) + Count(t \in Waiting \union run \/ out)
                + Count(Mailed(PutLater(t))) + Count(t \in lost)
  BY <1>1, <1>2, <1>3, <1>4
<1> QED BY <1>5 DEF out

(* The assertions of the code about waiting tasks and tasks that end hold. *)
LEMMA AssertionsHold == TaskInv => EndFindsTask
BY WaitingAreTasks DEF TaskInv, TaskPlaces, EndFound, EndFindsTask

(* A freed task is referred to by nobody, because whoever refers to it has *)
(* one of the references that RefsByTag counts, or is a queue event, which *)
(* the end of the task follows.                                            *)
LEMMA FreedFromRefs == TaskInv /\ EventsFirst => FreedIsUnreferenced
<1> SUFFICES ASSUME TaskInv, EventsFirst, NEW t \in Tasks, refs[t] = 0
             PROVE  /\ t \notin Waiting \union run
                    /\ \A th \in Threads : job[th] = t => pc[th] = "start"
                    /\ \A k \in 1 .. Len(mail) : mail[k].task = t => mail[k].type = "left"
  BY DEF FreedIsUnreferenced
<1>1. ~created[t] /\ ~tag[t] /\ ~(pc[Owner] = "put" /\ job[Owner] = t) /\ ~Mailed(PutLater(t))
  <2>1. /\ Count(created[t]) \in {0, 1}
        /\ Count(tag[t] \/ (pc[Owner] = "put" /\ job[Owner] = t)) \in {0, 1}
        /\ Count(Mailed(PutLater(t))) \in {0, 1}
    BY DEF Count
  <2>2. /\ Count(created[t]) = 0
        /\ Count(tag[t] \/ (pc[Owner] = "put" /\ job[Owner] = t)) = 0
        /\ Count(Mailed(PutLater(t))) = 0
    BY <2>1 DEF TaskInv, RefsByTag
  <2> QED BY <2>2 DEF Count
<1>2. t \notin Waiting \union run
  BY <1>1 DEF TaskInv, TaskPlaces
<1>3. \A th \in Threads : job[th] = t => pc[th] = "start"
  <2> SUFFICES ASSUME NEW th \in Threads, job[th] = t PROVE pc[th] = "start"
    OBVIOUS
  <2>1. t # None
    BY TaskManagerAssumption
  <2> QED BY <1>1, <1>2, <2>1 DEF TaskInv, Positions, Removing, TypeOK
<1>4. \A k \in 1 .. Len(mail) : mail[k].task = t => mail[k].type = "left"
  <2> SUFFICES ASSUME NEW k \in 1 .. Len(mail), mail[k].task = t, mail[k].type # "left"
               PROVE  FALSE
    OBVIOUS
  <2>1. mail[k] \in Messages
    BY MailTyped DEF TaskInv
  <2>2. mail[k] = Finished(t) \/ mail[k] = PutLater(t) \/ mail[k].type = "event"
    BY <2>1 DEF Messages, Finished, PutLater
  <2>3. ~Mailed(Finished(t))
    BY <1>1 DEF TaskInv, EndFound
  <2> QED BY <1>1, <2>2, <2>3 DEF Mailed, EventsFirst
<1> QED BY <1>2, <1>3, <1>4

------------------------------------------------------------------------------
(* The threads on their way to balance_taskq, and how they become more and *)
(* fewer.                                                                  *)
Hurrying == {"balance", "put"}
Coming == {th \in Threads : pc[th] \in Hurrying}

(* There are finitely many threads. *)
LEMMA ThreadsFinite == IsFiniteSet(Threads)
<1>1. IsFiniteSet(Clients \union {Owner})
  BY TaskManagerAssumption, FS_AddElement
<1> QED BY <1>1 DEF Threads

(* The threads on their way to balance_taskq can be counted. *)
LEMMA ComingFinite == IsFiniteSet(Coming) /\ Cardinality(Coming) \in Nat
<1>1. Coming \in SUBSET Threads
  BY DEF Coming
<1> QED BY <1>1, ThreadsFinite, FS_Subset, FS_CardinalityType

(* A thread that stays on its way, or off it, leaves their number alone, *)
LEMMA ComingKept ==
    ASSUME TypeOK, NEW th \in Threads, NEW p, pc' = [pc EXCEPT ![th] = p],
           pc[th] \in Hurrying <=> p \in Hurrying
    PROVE  Coming' = Coming
BY DEF TypeOK, Coming

(* one that sets out adds one, *)
LEMMA ComingMore ==
    ASSUME TypeOK, NEW th \in Threads, NEW p \in Hurrying, pc' = [pc EXCEPT ![th] = p],
           pc[th] \notin Hurrying
    PROVE  Cardinality(Coming') = Cardinality(Coming) + 1
<1>1. Coming' = Coming \union {th} /\ th \notin Coming
  BY DEF TypeOK, Coming
<1> QED BY <1>1, ComingFinite, FS_AddElement

(* and one that has arrived takes one off. *)
LEMMA ComingFewer ==
    ASSUME TypeOK, NEW th \in Threads, NEW p, p \notin Hurrying, pc' = [pc EXCEPT ![th] = p],
           pc[th] \in Hurrying
    PROVE  Cardinality(Coming') = Cardinality(Coming) - 1
<1>1. Coming' = Coming \ {th} /\ th \in Coming
  BY DEF TypeOK, Coming
<1> QED BY <1>1, ComingFinite, FS_RemoveElement

(* What WorkConserving counts. *)
LEMMA Conserving ==
    /\ WorkConserving <=> \/ Cardinality(Coming) >= Cardinality(Waiting)
                          \/ Cardinality(Coming) + Cardinality(run) >= Slots
    /\ WorkConserving' <=> \/ Cardinality(Coming') >= Cardinality(Waiting')
                           \/ Cardinality(Coming') + Cardinality(run') >= Slots
BY DEF WorkConserving, Coming, Hurrying

(* All the numbers compared are numbers. *)
LEMMA Sizes ==
    ASSUME TypeOK
    PROVE  /\ IsFiniteSet(Waiting) /\ Cardinality(Waiting) \in Nat
           /\ IsFiniteSet(run) /\ Cardinality(run) \in Nat
           /\ Cardinality(Coming) \in Nat
           /\ Slots \in Nat
<1>1. run \in SUBSET Tasks
  BY DEF TypeOK
<1> QED BY <1>1, TasksFinite, WaitingAreTasks, ComingFinite, TaskManagerAssumption

(* A step that moves no task and no thread to or from the balance. *)
LEMMA NumbersKept ==
    ASSUME NumbersInv, Waiting' = Waiting, run' = run, seen' = seen, Coming' = Coming
    PROVE  NumbersInv'
BY Conserving DEF NumbersInv, RunFits, LastEventIsCurrent

(* A step outside the queues that moves no thread, or moves one thread     *)
(* neither to balance_taskq nor away from it.                              *)
LEMMA NumbersStill ==
    ASSUME NumbersInv, TypeOK, ready' = ready, run' = run, seen' = seen,
           \/ pc' = pc
           \/ \E th \in Threads, p \in {"idle", "start", "cancel", "remove", "balance", "destroy"} :
                 /\ pc' = [pc EXCEPT ![th] = p]
                 /\ pc[th] \in Hurrying <=> p \in Hurrying
    PROVE  NumbersInv'
<1>1. Coming' = Coming
  <2>1. CASE pc' = pc
    BY <2>1 DEF Coming
  <2>2. CASE pc' # pc
    BY <2>2, ComingKept
  <2> QED BY <2>1, <2>2
<1> QED BY <1>1, NumbersKept, QueuesKept

(* A task is added: its thread will balance. *)
LEMMA AddTaskNumbers ==
    ASSUME TaskInv, NumbersInv, NEW c \in Clients, NEW t \in Tasks, AddTask(c, t)
    PROVE  NumbersInv'
<1> USE DEF AddTask, Call, At, Goto
<1>1. TypeOK /\ QueuedOnce /\ t \notin Waiting
  BY DEF TaskInv, TaskPlaces
<1>2. Waiting' = Waiting \union {t}
  BY <1>1, EnqEffect
<1>3. Cardinality(Waiting') = Cardinality(Waiting) + 1
  BY <1>1, <1>2, Sizes, FS_AddElement
<1>4. Cardinality(Coming') = Cardinality(Coming) + 1
  BY <1>1, ComingMore DEF Hurrying, Threads
<1>5. WorkConserving'
  BY <1>1, <1>3, <1>4, Sizes, Conserving DEF NumbersInv
<1>6. LastEventIsCurrent'
  BY <1>1, Notified DEF TypeOK
<1> QED BY <1>5, <1>6 DEF NumbersInv, RunFits

(* balance_taskq fills a slot and goes round again. *)
LEMMA BalanceNumbers ==
    ASSUME TaskInv, NumbersInv, NEW th \in Threads, Balance(th)
    PROVE  NumbersInv'
<1> USE DEF Balance, At, Goto
<1>1. PICK t \in Waiting : ReadyDeq(t) /\ run' = run \union {t}
                           /\ pc' = [pc EXCEPT ![th] = "start"]
  BY DEF RunEnq
<1>2. TypeOK /\ QueuedOnce /\ t \in Tasks /\ t \notin run
  BY WaitingAreTasks DEF TaskInv, TaskPlaces
<1>3. Waiting' = Waiting \ {t}
  BY <1>1, <1>2, DeqEffect
<1>4. Cardinality(Waiting') = Cardinality(Waiting) - 1
  BY <1>2, <1>3, Sizes, FS_RemoveElement
<1>5. Cardinality(run') = Cardinality(run) + 1
  BY <1>1, <1>2, Sizes, FS_AddElement
<1>6. Cardinality(Coming') = Cardinality(Coming) - 1
  BY <1>1, <1>2, ComingFewer DEF Hurrying
<1>7. WorkConserving'
  BY <1>2, <1>4, <1>5, <1>6, Sizes, Conserving DEF NumbersInv
<1>8. RunFits'
  BY <1>2, <1>5, Sizes DEF RunFits, Running
<1>9. LastEventIsCurrent'
  BY <1>1, <1>2, Notified DEF TypeOK
<1> QED BY <1>7, <1>8, <1>9 DEF NumbersInv

(* The balance that finds nothing to do leaves no slot free for a waiting task. *)
LEMMA BalanceNothingNumbers ==
    ASSUME TaskInv, NumbersInv, NEW th \in Threads, BalanceNothing(th)
    PROVE  NumbersInv'
<1> USE DEF BalanceNothing, At, Goto
<1>1. TypeOK /\ Waiting' = Waiting /\ run' = run
  BY QueuesKept DEF TaskInv
<1>2. Cardinality(Coming') = Cardinality(Coming) - 1 /\ Cardinality(Coming') \in Nat
  <2>1. Cardinality(Coming') = Cardinality(Coming) - 1
    BY <1>1, ComingFewer DEF Hurrying
  <2>2. Coming' \in SUBSET Threads
    BY DEF Coming
  <2> QED BY <2>1, <2>2, ThreadsFinite, FS_Subset, FS_CardinalityType
<1>3. Waiting = {} => Cardinality(Waiting) = 0
  BY FS_EmptySet
<1>4. WorkConserving'
  BY <1>1, <1>2, <1>3, Sizes, Conserving DEF Running
<1> QED BY <1>1, <1>4 DEF NumbersInv, RunFits, LastEventIsCurrent

(* A waiting task that is cancelled needs no slot. *)
LEMMA CancelReadyNumbers ==
    ASSUME TaskInv, NumbersInv, NEW c \in Clients, NEW t \in Tasks, CancelReady(c, t)
    PROVE  NumbersInv'
<1> USE DEF CancelReady, Call, At, Goto
<1>1. TypeOK /\ QueuedOnce
  BY DEF TaskInv
<1>2. Waiting' = Waiting \ {t}
  BY <1>1, RemoveEffect
<1>3. Cardinality(Waiting') = Cardinality(Waiting) - 1
  BY <1>1, <1>2, Sizes, FS_RemoveElement
<1>4. Coming' = Coming
  BY <1>1, ComingKept DEF Hurrying, Threads
<1>5. WorkConserving'
  BY <1>1, <1>3, <1>4, Sizes, Conserving DEF NumbersInv
<1>6. LastEventIsCurrent'
  BY <1>1, Notified DEF TypeOK
<1> QED BY <1>5, <1>6 DEF NumbersInv, RunFits

(* A slot is freed, and the Owner will balance. *)
LEMMA RemoveFromRunqNumbers ==
    ASSUME TaskInv, NumbersInv, RemoveFromRunq
    PROVE  NumbersInv'
<1> USE DEF RemoveFromRunq, At, Goto, RunRemove
<1> DEFINE t == job[Owner]
<1>1. TypeOK /\ Waiting' = Waiting /\ run' = run \ {t} /\ t \in run
  BY QueuesKept DEF TaskInv, Removing
<1>2. Cardinality(run') = Cardinality(run) - 1
  BY <1>1, Sizes, FS_RemoveElement
<1>3. Cardinality(Coming') = Cardinality(Coming) + 1
  BY <1>1, ComingMore DEF Hurrying, Threads
<1>4. WorkConserving'
  BY <1>1, <1>2, <1>3, Sizes, Conserving DEF NumbersInv
<1>5. RunFits'
  BY <1>1, <1>2, Sizes DEF NumbersInv, RunFits
<1>6. LastEventIsCurrent'
  BY <1>1, Notified DEF TypeOK
<1> QED BY <1>4, <1>5, <1>6 DEF NumbersInv

(* ytaskmanager_create establishes the invariant of the numbers, *)
LEMMA NumbersInit == Init => NumbersInv
<1> SUFFICES ASSUME Init PROVE NumbersInv
  OBVIOUS
<1> USE DEF Init
<1>1. Waiting = {} /\ run = {}
  BY DEF Waiting
<1>2. Cardinality(Waiting) = 0 /\ Cardinality(run) = 0
  BY <1>1, FS_EmptySet
<1> QED BY <1>2, ComingFinite, Conserving, TaskManagerAssumption
        DEF NumbersInv, RunFits, LastEventIsCurrent

(* ... and every step keeps it. *)
LEMMA NumbersNext == TaskInv /\ NumbersInv /\ [Next]_vars => NumbersInv'
<1> SUFFICES ASSUME TaskInv, NumbersInv, [Next]_vars PROVE NumbersInv'
  OBVIOUS
<1> USE DEF At, Call, Goto, taskVars
<1>1. TypeOK /\ Clients \in SUBSET Threads /\ Owner \in Threads
  BY DEF TaskInv, Threads
<1>2. ASSUME NEW c \in Clients, NEW t \in Tasks,
             AddTask(c, t) \/ CancelReady(c, t) \/ CancelRun(c, t) \/ CancelGone(c, t)
      PROVE  NumbersInv'
  <2>1. CASE CancelRun(c, t)
    BY <1>1, <2>1, NumbersStill DEF CancelRun, Hurrying
  <2>2. CASE CancelGone(c, t)
    BY <1>1, <2>2, NumbersStill DEF CancelGone
  <2> QED BY <1>2, <2>1, <2>2, AddTaskNumbers, CancelReadyNumbers
<1>3. ASSUME NEW c \in Clients, Cancel(c) \/ CancelAll(c) \/ CheckSize(c) \/ Destroy(c)
      PROVE  NumbersInv'
  <2>1. CASE Cancel(c)
    BY <1>1, <2>1, NumbersStill DEF Cancel, Hurrying
  <2>2. CASE CancelAll(c)
    BY <1>1, <2>2, NumbersStill DEF CancelAll
  <2>3. CASE CheckSize(c)
    BY <1>1, <2>3, NumbersStill DEF CheckSize, Hurrying
  <2>4. CASE Destroy(c)
    BY <1>1, <2>4, NumbersStill DEF Destroy, Hurrying
  <2> QED BY <1>3, <2>1, <2>2, <2>3, <2>4
<1>4. ASSUME NEW th \in Threads, Inside(th)
      PROVE  NumbersInv'
  <2>1. CASE Start(th)
    BY <1>1, <2>1, NumbersStill DEF Start, Hurrying
  <2>2. CASE UseFreed(th)
    BY <1>1, <2>2, NumbersStill DEF UseFreed
  <2> QED BY <1>4, <2>1, <2>2, BalanceNumbers, BalanceNothingNumbers DEF Inside
<1>5. ASSUME NEW t \in Tasks, TaskStep(t) \/ DestroyTask(t)
      PROVE  NumbersInv'
  BY <1>1, <1>5, NumbersStill DEF TaskStep, RunEnds, GiveUp, Tell, Terminate, DestroyTask
<1>6. CASE OwnerStep
  <2>1. CASE TakeFinished
    BY <1>1, <2>1, NumbersStill DEF TakeFinished, Hurrying
  <2>2. CASE Put
    BY <1>1, <2>2, NumbersStill DEF Put, Hurrying
  <2>3. CASE TakePut
    BY <1>1, <2>3, NumbersStill DEF TakePut
  <2>4. CASE TakeEvent
    BY <1>1, <2>4, NumbersStill DEF TakeEvent
  <2> QED BY <1>6, <2>1, <2>2, <2>3, <2>4, RemoveFromRunqNumbers DEF OwnerStep
<1>7. CASE UNCHANGED vars
  BY <1>1, <1>7, NumbersStill DEF vars
<1> QED BY <1>2, <1>3, <1>4, <1>5, <1>6, <1>7 DEF Next

(* Tasks whose thread runs the user's function are in a slot each. *)
LEMMA SlotsFromRun == TaskInv /\ RunFits => SlotsRespected
<1> SUFFICES ASSUME TaskInv, RunFits PROVE SlotsRespected
  OBVIOUS
<1> DEFINE S == {t \in Tasks : started[t] /\ tstate[t] \in {"STARTED", "CANCELLING"}}
<1>1. S \in SUBSET run
  BY DEF TaskInv, TaskPlaces, Active
<1>2. IsFiniteSet(run) /\ Cardinality(run) \in Nat /\ Slots \in Nat
  BY Sizes DEF TaskInv
<1>3. Cardinality(S) \in Nat /\ Cardinality(S) <= Cardinality(run)
  BY <1>1, <1>2, FS_Subset, FS_CardinalityType
<1>4. Cardinality(S) <= Slots
  BY <1>2, <1>3 DEF RunFits
<1> QED BY <1>4 DEF SlotsRespected

------------------------------------------------------------------------------
(* Events are posted before the end of their task, and the tag lasts until *)
(* the end is handled.                                                     *)

(* A step that posts and takes nothing and untags no task with an event. *)
LEMMA OrderKept ==
    ASSUME EventsFirst, mail' = mail,
           \A k \in 1 .. Len(mail) : mail[k].type = "event" /\ tag[mail[k].task]
                                     => tag'[mail[k].task],
           pc'[Owner] = "remove" => pc[Owner] = "remove" /\ job'[Owner] = job[Owner]
    PROVE  EventsFirst'
BY DEF EventsFirst, Event, Finished

(* A queue event is posted of a task that stays, or of the one that leaves. *)
LEMMA OrderNotify ==
    ASSUME TypeOK, EventsFirst, NEW m \in Messages, Notify(m),
           \/ m.type = "event" /\ tag'[m.task] /\ ~Mailed(Finished(m.task))
           \/ m.type = "left",
           \A k \in 1 .. Len(mail) : mail[k].type = "event" => tag'[mail[k].task],
           pc'[Owner] = "remove" => /\ pc[Owner] = "remove" /\ job'[Owner] = job[Owner]
                                    /\ m # Event(job[Owner])
    PROVE  EventsFirst'
<1> DEFINE n == Len(mail)
<1>1. mail \in Seq(Messages) /\ n \in Nat
  BY DEF TypeOK
<1>2. CASE mail' = mail
  BY <1>2, OrderKept
<1>3. CASE mail' = Append(mail, m)
  <2>1. /\ mail' \in Seq(Messages) /\ Len(mail') = n + 1
        /\ \A k \in 1 .. n : mail'[k] = mail[k]
        /\ mail'[n + 1] = m
    BY <1>1, <1>3
  <2>2. \A k \in 1 .. n + 1 : k \in 1 .. n \/ k = n + 1
    BY <1>1
  <2>3. \A k \in 1 .. n + 1 : mail'[k].type = "event" => tag'[mail'[k].task]
    BY <2>1, <2>2
  <2>4. ASSUME NEW k \in 1 .. n + 1, NEW l \in 1 .. n + 1,
               mail'[k].type = "event", mail'[l] = Finished(mail'[k].task)
        PROVE  k < l
    <3>1. l \in 1 .. n
      BY <2>1, <2>2, <2>4 DEF Finished
    <3>2. CASE k \in 1 .. n
      BY <2>1, <2>4, <3>1, <3>2 DEF EventsFirst
    <3>3. CASE k = n + 1
      <4>1. mail'[k] = m /\ mail[l] = Finished(m.task) /\ m.type = "event"
        BY <2>1, <2>4, <3>1, <3>3
      <4> QED BY <3>1, <4>1 DEF Mailed
    <3> QED BY <2>2, <3>2, <3>3
  <2>5. pc'[Owner] = "remove" => \A k \in 1 .. n + 1 : mail'[k] # Event(job'[Owner])
    BY <2>1, <2>2 DEF EventsFirst
  <2>6. \A u : Finished(u)' = Finished(u) /\ Event(u)' = Event(u)
    BY DEF Finished, Event
  <2> HIDE DEF n
  <2> QED BY <2>1, <2>3, <2>4, <2>5 DEF EventsFirst, Finished, Event
<1> QED BY <1>2, <1>3 DEF Notify

(* The Owner takes a message; if it is the end of a task, all its events   *)
(* have been taken before.                                                 *)
LEMMA OrderTake ==
    ASSUME TypeOK, EventsFirst, mail # <<>>, mail' = Tail(mail), tag' = tag,
           pc'[Owner] = "remove" => Head(mail) = Finished(job'[Owner])
    PROVE  EventsFirst'
<1> DEFINE n == Len(mail)
<1>1. mail \in Seq(Messages) /\ n \in Nat /\ n # 0 /\ Head(mail) = mail[1]
  BY DEF TypeOK
<1>2. Len(mail') = n - 1 /\ \A k \in 1 .. n - 1 : mail'[k] = mail[k + 1]
  BY <1>1, HeadTailProperties
<1>3. \A k \in 1 .. n - 1 : k + 1 \in 1 .. n /\ ~(k + 1 < 1)
  BY <1>1
<1>4. 1 \in 1 .. n
  BY <1>1
<1>5. \A k \in 1 .. n - 1 : mail'[k].type = "event" => tag'[mail'[k].task]
  BY <1>2, <1>3 DEF EventsFirst
<1>6. ASSUME NEW k \in 1 .. n - 1, NEW l \in 1 .. n - 1,
             mail'[k].type = "event", mail'[l] = Finished(mail'[k].task)
      PROVE  k < l
  <2>1. k + 1 < l + 1
    BY <1>2, <1>3, <1>6 DEF EventsFirst
  <2> QED BY <1>1, <2>1
<1>7. pc'[Owner] = "remove" => \A k \in 1 .. n - 1 : mail'[k] # Event(job'[Owner])
  <2> SUFFICES ASSUME pc'[Owner] = "remove", NEW k \in 1 .. n - 1,
                      mail'[k] = Event(job'[Owner])
               PROVE  FALSE
    OBVIOUS
  <2>1. mail[k + 1].type = "event" /\ mail[1] = Finished(mail[k + 1].task)
    BY <1>1, <1>2 DEF Event
  <2> QED BY <1>3, <1>4, <2>1 DEF EventsFirst
<1> HIDE DEF n
<1> QED BY <1>2, <1>5, <1>6, <1>7 DEF EventsFirst, Finished, Event

(* The end of a task is posted after all its events.                       *)
LEMMA OrderTell ==
    ASSUME TypeOK, EventsFirst, NEW t \in Tasks,
           mail' = mail \o <<Finished(t), PutLater(t)>>,
           UNCHANGED <<tag, pc, job>>
    PROVE  EventsFirst'
<1> DEFINE n == Len(mail)
           a == Finished(t)
           b == PutLater(t)
<1>1. /\ mail \in Seq(Messages) /\ n \in Nat /\ a \in Messages /\ b \in Messages
      /\ a.type = "finished" /\ b.type = "put"
  BY MailTyped
<1> HIDE DEF a, b
<1>2. /\ Len(mail') = n + 2
      /\ \A k \in 1 .. n : mail'[k] = mail[k]
      /\ mail'[n + 1] = a /\ mail'[n + 2] = b
  BY <1>1 DEF a, b
<1>3. \A k \in 1 .. n + 2 : k \in 1 .. n \/ k = n + 1 \/ k = n + 2
  BY <1>1
<1>4. \A k \in 1 .. n + 2 : mail'[k].type = "event" => k \in 1 .. n
  BY <1>1, <1>2, <1>3
<1>5. \A k \in 1 .. n + 2 : mail'[k].type = "event" => tag'[mail'[k].task]
  BY <1>2, <1>4 DEF EventsFirst
<1>6. ASSUME NEW k \in 1 .. n + 2, NEW l \in 1 .. n + 2,
             mail'[k].type = "event", mail'[l] = Finished(mail'[k].task)
      PROVE  k < l
  <2>1. k \in 1 .. n
    BY <1>4, <1>6
  <2>2. CASE l \in 1 .. n
    BY <1>2, <1>6, <2>1, <2>2 DEF EventsFirst
  <2>3. CASE l = n + 1 \/ l = n + 2
    BY <1>1, <2>1, <2>3
  <2> QED BY <1>3, <2>2, <2>3
<1>7. pc'[Owner] = "remove" => \A k \in 1 .. n + 2 : mail'[k] # Event(job'[Owner])
  <2> SUFFICES ASSUME pc'[Owner] = "remove", NEW k \in 1 .. n + 2,
                      mail'[k] = Event(job'[Owner])
               PROVE  FALSE
    OBVIOUS
  <2>1. mail'[k].type = "event"
    BY DEF Event
  <2> QED BY <1>2, <1>4, <2>1 DEF EventsFirst
<1> HIDE DEF n
<1> QED BY <1>2, <1>5, <1>6, <1>7 DEF EventsFirst, Finished, Event

(* Every step keeps the order of the events. *)
LEMMA OrderNext == TaskInv /\ EventsFirst /\ [Next]_vars => EventsFirst'
<1> SUFFICES ASSUME TaskInv, EventsFirst, [Next]_vars PROVE EventsFirst'
  OBVIOUS
<1> USE DEF At, Call, Goto, taskVars
<1>1. TypeOK /\ Clients \in SUBSET Threads /\ Owner \in Threads /\ Owner \notin Clients
  BY TaskManagerAssumption DEF TaskInv, Threads
<1>2. ASSUME NEW t \in Tasks, t \notin run
      PROVE  /\ ~Mailed(Finished(t))
             /\ Event(t) \in Messages /\ Event(t).type = "event" /\ Event(t).task = t
             /\ pc[Owner] = "remove" => Event(t) # Event(job[Owner])
  <2>1. pc[Owner] = "remove" => Event(job[Owner]).task # t
    BY <1>2 DEF TaskInv, Removing, Event
  <2> QED BY <1>1, <1>2, <2>1, MailTyped DEF TaskInv, EndFound
<1>3. ASSUME NEW c \in Clients, NEW t \in Tasks,
             AddTask(c, t) \/ CancelReady(c, t) \/ CancelRun(c, t) \/ CancelGone(c, t)
      PROVE  EventsFirst'
  <2>1. CASE AddTask(c, t)
    <3>1. t \notin run /\ tag' = [tag EXCEPT ![t] = TRUE]
      BY <2>1 DEF AddTask, Tagged, TaskInv, TaskPlaces
    <3>2. \A u \in Tasks : tag[u] => tag'[u]
      BY <1>1, <3>1 DEF TypeOK
    <3>3. \A k \in 1 .. Len(mail) : mail[k].type = "event" => tag'[mail[k].task]
      <4>1. \A k \in 1 .. Len(mail) : mail[k].task \in Tasks
        BY <1>1, MailTyped
      <4> QED BY <3>2, <4>1 DEF EventsFirst
    <3>4. tag'[t]
      BY <1>1, <3>1 DEF TypeOK
    <3>5. pc'[Owner] = pc[Owner] /\ job'[Owner] = job[Owner] /\ Notify(Event(t))
      BY <1>1, <2>1 DEF AddTask, TypeOK
    <3> QED BY <1>1, <1>2, <3>1, <3>3, <3>4, <3>5, OrderNotify
  <2>2. CASE CancelReady(c, t)
    <3>1. t \notin run /\ tag[t] /\ tag' = tag
      BY <2>2 DEF CancelReady, TaskInv, TaskPlaces
    <3>2. pc'[Owner] = pc[Owner] /\ job'[Owner] = job[Owner] /\ Notify(Event(t))
      BY <1>1, <2>2 DEF CancelReady, TypeOK
    <3>3. \A k \in 1 .. Len(mail) : mail[k].type = "event" => tag'[mail[k].task]
      BY <3>1 DEF EventsFirst
    <3> QED BY <1>1, <1>2, <3>1, <3>2, <3>3, OrderNotify
  <2>3. CASE CancelRun(c, t)
    BY <1>1, <2>3, OrderKept DEF CancelRun, TypeOK
  <2>4. CASE CancelGone(c, t)
    BY <2>4, OrderKept DEF CancelGone
  <2> QED BY <1>3, <2>1, <2>2, <2>3, <2>4
<1>4. ASSUME NEW c \in Clients, Cancel(c) \/ CancelAll(c) \/ CheckSize(c) \/ Destroy(c)
      PROVE  EventsFirst'
  <2>1. /\ mail' = mail /\ tag' = tag
        /\ pc'[Owner] = pc[Owner] /\ job'[Owner] = job[Owner]
    BY <1>1, <1>4 DEF Cancel, CancelAll, CheckSize, Destroy, TypeOK
  <2> QED BY <2>1, OrderKept
<1>5. ASSUME NEW th \in Threads, Inside(th)
      PROVE  EventsFirst'
  <2>1. CASE Balance(th)
    <3>1. PICK t \in Waiting : /\ pc' = [pc EXCEPT ![th] = "start"]
                               /\ job' = [job EXCEPT ![th] = t]
                               /\ Notify(Event(t))
      BY <2>1 DEF Balance
    <3>2. t \in Tasks /\ t \notin run /\ tag[t] /\ tag' = tag
      BY <2>1, WaitingAreTasks DEF Balance, TaskInv, TaskPlaces
    <3>3. pc'[Owner] = "remove" => pc[Owner] = "remove" /\ job'[Owner] = job[Owner]
      BY <1>1, <3>1 DEF TypeOK
    <3>4. \A k \in 1 .. Len(mail) : mail[k].type = "event" => tag'[mail[k].task]
      BY <3>2 DEF EventsFirst
    <3> QED BY <1>1, <1>2, <3>1, <3>2, <3>3, <3>4, OrderNotify
  <2>2. CASE BalanceNothing(th) \/ Start(th) \/ UseFreed(th)
    <3>1. /\ mail' = mail /\ tag' = tag
          /\ pc'[Owner] = "remove" => pc[Owner] = "remove" /\ job'[Owner] = job[Owner]
      BY <1>1, <2>2 DEF BalanceNothing, Start, UseFreed, TypeOK
    <3> QED BY <3>1, OrderKept
  <2> QED BY <1>5, <2>1, <2>2 DEF Inside
<1>6. ASSUME NEW t \in Tasks, TaskStep(t) \/ DestroyTask(t)
      PROVE  EventsFirst'
  <2>1. CASE Tell(t) /\ listening[t]
    BY <1>1, <2>1, OrderTell DEF Tell
  <2>2. CASE ~(Tell(t) /\ listening[t])
    <3>1. mail' = mail /\ tag' = tag /\ pc' = pc /\ job' = job
      BY <1>6, <2>2 DEF TaskStep, RunEnds, GiveUp, Tell, Terminate, DestroyTask
    <3> QED BY <3>1, OrderKept
  <2> QED BY <2>1, <2>2
<1>7. CASE OwnerStep
  <2>1. CASE TakeFinished
    <3>1. Head(mail) = Finished(Head(mail).task)
      <4>1. Head(mail) \in Messages
        BY <1>1, <2>1 DEF TypeOK, TakeFinished
      <4> QED BY <2>1, <4>1 DEF TakeFinished, Messages, Finished
    <3>2. job'[Owner] = Head(mail).task
      BY <1>1, <2>1 DEF TakeFinished, TypeOK
    <3> QED BY <1>1, <2>1, <3>1, <3>2, OrderTake DEF TakeFinished
  <2>2. CASE RemoveFromRunq
    <3>1. job[Owner] \in Tasks /\ Left(job[Owner]) \in Messages /\ Left(job[Owner]).type = "left"
      BY <1>1, <2>2, MailTyped DEF RemoveFromRunq, TaskInv, Positions
    <3>2. \A u \in Tasks : tag[u] /\ u # job[Owner] => tag'[u]
      BY <1>1, <2>2 DEF RemoveFromRunq, Untagged, TypeOK
    <3>3. \A k \in 1 .. Len(mail) : mail[k].type = "event" => tag'[mail[k].task]
      <4> SUFFICES ASSUME NEW k \in 1 .. Len(mail), mail[k].type = "event"
                   PROVE  tag'[mail[k].task]
        OBVIOUS
      <4>1. mail[k] \in Messages /\ mail[k] # Event(job[Owner])
        BY <1>1, <2>2 DEF TypeOK, RemoveFromRunq, EventsFirst
      <4>2. mail[k].task \in Tasks /\ mail[k].task # job[Owner]
        BY <4>1 DEF Messages, Event
      <4> QED BY <3>2, <4>2 DEF EventsFirst
    <3>4. pc'[Owner] # "remove"
      BY <1>1, <2>2 DEF RemoveFromRunq, TypeOK
    <3> QED BY <1>1, <2>2, <3>1, <3>3, <3>4, OrderNotify DEF RemoveFromRunq
  <2>3. CASE Put
    BY <1>1, <2>3, OrderKept DEF Put, TypeOK
  <2>4. CASE TakePut \/ TakeEvent
    BY <1>1, <2>4, OrderTake DEF TakePut, TakeEvent
  <2> QED BY <1>7, <2>1, <2>2, <2>3, <2>4 DEF OwnerStep
<1>8. CASE UNCHANGED vars
  BY <1>8, OrderKept DEF vars
<1> QED BY <1>3, <1>4, <1>5, <1>6, <1>7, <1>8 DEF Next

(* Freed memory is used only by the Owner that comes to balance the queues *)
(* of a destroyed manager.                                                 *)
LEMMA WildNext == TaskInv /\ WildIsGone /\ [Next]_vars => WildIsGone'
<1> SUFFICES ASSUME TaskInv, WildIsGone, [Next]_vars, fate' = "wild"
             PROVE  gone' /\ pc'[Owner] = "balance"
  BY DEF WildIsGone
<1>1. CASE \E th \in Threads : UseFreed(th)
  BY <1>1 DEF UseFreed, At, TaskInv, GoneIsEmpty, Quiet, Threads
<1>2. CASE UNCHANGED vars
  BY <1>2 DEF vars, WildIsGone
<1>3. CASE Next /\ ~\E th \in Threads : UseFreed(th)
  <2>1. fate = "alive" /\ fate' \in {fate, "unstarted", "asserted"}
    BY <1>3 DEF Next, Inside, OwnerStep, TaskStep, AddTask, Balance, BalanceNothing, Start,
                CancelReady, CancelRun, CancelGone, Cancel, CancelAll, RunEnds, GiveUp, Tell,
                Terminate, DestroyTask, TakeFinished, RemoveFromRunq, Put, TakePut, TakeEvent,
                CheckSize, Destroy, Call, At, Alive
  <2> QED BY <2>1
<1> QED BY <1>1, <1>2, <1>3

(* Nobody is inside a destroyed manager. *)
LEMMA GoneUnused == TaskInv /\ WildIsGone => DestroyedIsUnused
BY DEF TaskInv, GoneIsEmpty, Quiet, DestroyedIsUnused, EndFound, TaskPlaces, WildIsGone

------------------------------------------------------------------------------
(* The invariant on which everything below rests: the marks of a task in   *)
(* the manager agree with its queues and messages, and the waiting tasks   *)
(* with the free slots and the threads that come for them.                 *)
THEOREM Inductive == Spec => []IInv
<1>1. Init => IInv
  <2>1. Init => EventsFirst /\ WildIsGone
    BY DEF Init, EventsFirst, WildIsGone, Threads
  <2> QED BY <2>1, TaskInit, NumbersInit DEF IInv
<1>2. IInv /\ [Next]_vars => IInv'
  BY TaskNext, OrderNext, WildNext, NumbersNext DEF IInv
<1> QED BY <1>1, <1>2, PTL DEF Spec

(* The reference count of a task in task.c is always the references that   *)
(* the creator, the manager and the message of the end hold, and the one   *)
(* that a cancel of a waiting task leaves behind; so a task is not freed   *)
(* while the manager or a queue event of its stay refers to it.  The       *)
(* assertions of balance_taskq, task_event_on_finished and                 *)
(* remove_task_from_runq hold.  A destroyed manager is reached by no       *)
(* message and by nobody but the Owner, if it was about to balance the     *)
(* queues when the size was found to be 0.                                 *)
THEOREM TasksAreAccounted == Spec => []TasksAccounted
<1>1. IInv => TasksAccounted
  BY ExactFromTag, FreedFromRefs, AssertionsHold, GoneUnused DEF IInv, TaskInv, TasksAccounted
<1> QED BY <1>1, Inductive, PTL

(* balance_taskq, although it is called outside q_lock by any thread,      *)
(* neither runs more user functions than there are slots nor forgets a     *)
(* slot: a waiting task with a free slot always has a thread that comes to *)
(* start it.                                                               *)
THEOREM SlotsAreUsedWell == Spec => []SlotsUsedWell
<1>1. IInv => SlotsUsedWell
  BY SlotsFromRun DEF IInv, NumbersInv, SlotsUsedWell
<1> QED BY <1>1, Inductive, PTL

(* The sizes that the last queue event carried are those of the queues,    *)
(* through every interleaving of calls and ends of tasks.                  *)
THEOREM LastEventCurrent == Spec => []LastEventIsCurrent
<1>1. IInv => LastEventIsCurrent
  BY DEF IInv, NumbersInv
<1> QED BY <1>1, Inductive, PTL

------------------------------------------------------------------------------
(* The listeners of the queue events. *)
(* The last event that was posted to h. *)
SentTo(h) == joined[h] + Len(heard[h]) + Len(mailed[h])

ListenerTypes ==
    /\ elhs \in Seq(Handles) /\ freed \subseteq Handles
    /\ walk \in Handles \union {NoWalk} /\ events \in Nat
    /\ mailed \in [Handles -> Seq(Nat)] /\ heard \in [Handles -> Seq(Nat)]
    /\ joined \in [Handles -> Nat]
    /\ wild \in BOOLEAN /\ raced \in BOOLEAN

(* The walk is at a linked handle, or at one that was removed under it. *)
WalkPlace ==
    /\ \A i, j \in 1 .. Len(elhs) : elhs[i] = elhs[j] => i = j
    /\ Linked \intersect freed = {}
    /\ walk # NoWalk => walk \in Linked \union freed /\ events > 0
    /\ walk \in freed \/ wild => raced
    /\ \A h \in Handles \ (Linked \union freed) : heard[h] = <<>> /\ mailed[h] = <<>>

(* Events are numbered without a gap. *)
InOrder ==
    \A h \in Handles :
        /\ \A i \in 1 .. Len(heard[h]) : heard[h][i] = joined[h] + i
        /\ \A i \in 1 .. Len(mailed[h]) : mailed[h][i] = joined[h] + Len(heard[h]) + i

(* Who stands before the walk has the present event, the others have the   *)
(* one before.                                                             *)
UpToWalk ==
    \A i \in 1 .. Len(elhs) :
        /\ walk = NoWalk => SentTo(elhs[i]) = events
        /\ SentTo(elhs[i]) \in {events - 1, events}
        /\ \A k \in 1 .. Len(elhs) : elhs[k] = walk =>
              SentTo(elhs[i]) = IF i < k THEN events ELSE events - 1

EvtInv == ListenerTypes /\ WalkPlace /\ InOrder /\ UpToWalk

(* The linked handles are those at the places of the list. *)
LEMMA LinkedIs ==
    ASSUME ListenerTypes
    PROVE  Len(elhs) \in Nat /\ Linked = {elhs[i] : i \in 1 .. Len(elhs)} /\ Linked \subseteq Handles
BY DEF ListenerTypes, Linked, ToSet

(* A new event: the walk begins at the first handle. *)
LEMMA ChangeKeeps ==
    ASSUME EventsAssumption, EvtInv, Change
    PROVE  EvtInv'
<1>1. /\ walk = NoWalk /\ events' = events + 1
      /\ walk' = IF elhs = <<>> THEN NoWalk ELSE Head(elhs)
      /\ UNCHANGED <<elhs, freed, destroyed, mailed, heard, wild, joined, raced>>
  BY DEF Change
<1>2. ListenerTypes /\ WalkPlace /\ InOrder /\ UpToWalk /\ events \in Nat /\ elhs \in Seq(Handles)
  BY DEF EvtInv, ListenerTypes
<1>3. elhs # <<>> => 1 \in 1 .. Len(elhs) /\ Head(elhs) = elhs[1] /\ elhs[1] \in Handles
  BY <1>2, EmptySeq
<1>4. ListenerTypes'
  BY <1>1, <1>2, <1>3 DEF ListenerTypes
<1>5. Linked' = Linked
  BY <1>1 DEF Linked
<1>6. walk' # NoWalk => walk' \in Linked
  BY <1>1, <1>2, <1>3, LinkedIs
<1>7. WalkPlace'
  <2>1. walk' \in freed => FALSE
    BY <1>2, <1>6 DEF WalkPlace, ListenerTypes, EventsAssumption
  <2>2. walk' # NoWalk => events' > 0
    BY <1>1, <1>2
  <2> QED BY <1>1, <1>2, <1>5, <1>6, <2>1, <2>2 DEF WalkPlace
<1>8. InOrder'
  BY <1>1, <1>2 DEF InOrder
<1>9. UpToWalk'
  <2>1. \A h : SentTo(h)' = SentTo(h)
    BY <1>1 DEF SentTo
  <2>2. \A i \in 1 .. Len(elhs) : SentTo(elhs[i]) = events
    BY <1>1, <1>2 DEF UpToWalk
  <2> SUFFICES ASSUME NEW i \in 1 .. Len(elhs)
               PROVE  /\ walk' # NoWalk
                      /\ SentTo(elhs[i]) = events' - 1
                      /\ \A k \in 1 .. Len(elhs) : elhs[k] = walk' => ~(i < k)
    BY <1>1, <2>1 DEF UpToWalk, SentTo
  <2>3. elhs # <<>> /\ walk' = elhs[1] /\ 1 \in 1 .. Len(elhs)
    BY <1>1, <1>2, <1>3
  <2>4. \A k \in 1 .. Len(elhs) : elhs[k] = walk' => k = 1
    BY <1>2, <2>3 DEF WalkPlace
  <2>5. walk' # NoWalk
    BY <1>3, <2>3 DEF EventsAssumption
  <2> QED BY <1>1, <1>2, <2>2, <2>4, <2>5
<1> QED BY <1>4, <1>7, <1>8, <1>9 DEF EvtInv

(* The walk moves on to the next place, or ends. *)
LEMMA NextOfWalk ==
    ASSUME ListenerTypes, WalkPlace, NEW m \in 1 .. Len(elhs)
    PROVE  Next1(elhs[m]) = IF m = Len(elhs) THEN NoWalk ELSE elhs[m + 1]
<1> DEFINE c == CHOOSE k \in DOMAIN elhs : elhs[k] = elhs[m]
<1>1. c = m
  <2>1. DOMAIN elhs = 1 .. Len(elhs)
    BY DEF ListenerTypes
  <2>2. m \in DOMAIN elhs /\ \A i, j \in DOMAIN elhs : elhs[i] = elhs[j] => i = j
    BY <2>1 DEF WalkPlace
  <2> QED BY <2>2
<1>2. Next1(elhs[m]) = IF c = Len(elhs) THEN NoWalk ELSE elhs[c + 1]
  BY Zenon DEF Next1
<1> HIDE DEF c
<1> QED BY <1>1, <1>2

(* The handle under the walk gets the event. *)
LEMMA PostKeeps ==
    ASSUME EventsAssumption, EvtInv, PostEvent
    PROVE  EvtInv'
<1>1. /\ ListenerTypes /\ WalkPlace /\ InOrder /\ UpToWalk
      /\ events \in Nat /\ elhs \in Seq(Handles) /\ Len(elhs) \in Nat
      /\ mailed \in [Handles -> Seq(Nat)] /\ joined \in [Handles -> Nat]
      /\ heard \in [Handles -> Seq(Nat)] /\ raced \in BOOLEAN
  BY DEF EvtInv, ListenerTypes
<1>2. /\ walk \in Linked /\ walk' = Next1(walk)
      /\ UNCHANGED <<elhs, freed, destroyed, events, heard, wild, joined, raced>>
  BY DEF PostEvent
<1>3. PICK k \in 1 .. Len(elhs) : walk = elhs[k]
  BY <1>1, <1>2, LinkedIs
<1>4. walk' = IF k = Len(elhs) THEN NoWalk ELSE elhs[k + 1]
  BY <1>1, <1>2, <1>3, NextOfWalk
<1>5. elhs[k] \in Handles /\ (k # Len(elhs) => k + 1 \in 1 .. Len(elhs) /\ elhs[k + 1] \in Handles)
  BY <1>1
<1>6. /\ mailed' \in [Handles -> Seq(Nat)]
      /\ mailed'[walk] = Append(mailed[walk], events)
      /\ \A h \in Handles : h # walk => mailed'[h] = mailed[h]
  BY <1>1, <1>3, <1>5 DEF PostEvent
<1>7. walk # NoWalk /\ walk \in Handles
  BY <1>3, <1>5 DEF EventsAssumption
<1>8. ListenerTypes'
  BY <1>1, <1>2, <1>4, <1>5, <1>6 DEF ListenerTypes
<1>9. Linked' = Linked
  BY <1>2 DEF Linked
<1>10. WalkPlace'
  <2>1. walk' # NoWalk => walk' \in Linked
    BY <1>1, <1>4, <1>5, LinkedIs
  <2>2. walk' \notin freed
    BY <1>1, <2>1 DEF WalkPlace, ListenerTypes, EventsAssumption
  <2>3. walk' # NoWalk => events > 0
    BY <1>1, <1>7 DEF WalkPlace
  <2>4. \A h \in Handles \ (Linked \union freed) : mailed'[h] = mailed[h]
    BY <1>2, <1>6
  <2> QED BY <1>1, <1>2, <1>9, <2>1, <2>2, <2>3, <2>4 DEF WalkPlace
<1>11. SentTo(walk) = events - 1
  <2>1. ~(k < k)
    BY <1>3
  <2> QED BY <1>1, <1>3, <2>1 DEF UpToWalk
<1> PICK w \in Handles : w = walk
  BY <1>7
<1>12. /\ Len(mailed[w]) \in Nat /\ Len(heard[w]) \in Nat /\ joined[w] \in Nat
       /\ mailed[w] \in Seq(Nat) /\ joined[w] + Len(heard[w]) + Len(mailed[w]) = events - 1
  BY <1>1, <1>11 DEF SentTo
<1> DEFINE a == joined[w] + Len(heard[w])
           m == Len(mailed[w])
<1>a. a \in Nat /\ m \in Nat /\ events \in Nat /\ a + m = events - 1
  BY <1>1, <1>12
<1>b. \A i \in 1 .. m : mailed[w][i] = a + i
  BY <1>1 DEF InOrder
<1>13. /\ Len(mailed'[w]) = Len(mailed[w]) + 1
       /\ mailed'[w][Len(mailed[w]) + 1] = events
       /\ \A i \in 1 .. Len(mailed[w]) : mailed'[w][i] = mailed[w][i]
  <2>1. mailed'[w] = Append(mailed[w], events)
    BY <1>6
  <2> QED BY <1>1, <1>12, <2>1, AppendProperties
<1>14. InOrder'
  <2>1. \A i \in 1 .. Len(mailed'[w]) : mailed'[w][i] = a + i
    <3>1. events = a + (m + 1) /\ \A i \in 1 .. m + 1 : i \in 1 .. m \/ i = m + 1
      <4> HIDE DEF a, m
      <4> QED BY <1>a
    <3> HIDE DEF a, m
    <3>2. \A i \in 1 .. m + 1 : mailed'[w][i] = a + i
      BY <1>b, <1>13, <3>1 DEF m
    <3>3. Len(mailed'[w]) = m + 1
      BY <1>13 DEF m
    <3> QED BY <3>2, <3>3
  <2>2. \A g \in Handles : g # w => mailed'[g] = mailed[g]
    BY <1>6
  <2> SUFFICES ASSUME NEW g \in Handles
               PROVE  /\ \A i \in 1 .. Len(heard[g]) : heard[g][i] = joined[g] + i
                      /\ \A i \in 1 .. Len(mailed'[g]) :
                            mailed'[g][i] = joined[g] + Len(heard[g]) + i
    BY <1>2 DEF InOrder
  <2>3. CASE g = w
    BY <1>1, <2>1, <2>3 DEF InOrder
  <2>4. CASE g # w
    BY <1>1, <2>2, <2>4 DEF InOrder
  <2> QED BY <2>3, <2>4
<1>15. UpToWalk'
  <2> DEFINE sent(h) == joined[h] + Len(heard[h]) + Len(mailed'[h])
  <2>1. sent(w) = events
    <3>1. sent(w) = a + (m + 1)
      BY <1>13
    <3> HIDE DEF a, m, sent
    <3> QED BY <1>a, <3>1
  <2>2. \A h \in Handles : h # w => sent(h) = SentTo(h)
    BY <1>6 DEF SentTo
  <2>3. \A i \in 1 .. Len(elhs) :
           /\ elhs[i] \in Handles /\ (elhs[i] = w <=> i = k)
           /\ SentTo(elhs[i]) = IF i < k THEN events ELSE events - 1
    <3> TAKE i \in 1 .. Len(elhs)
    <3>1. elhs[i] \in Handles
      BY <1>1
    <3>2. elhs[i] = w <=> i = k
      BY <1>1, <1>3 DEF WalkPlace
    <3>3. SentTo(elhs[i]) = IF i < k THEN events ELSE events - 1
      BY <1>1, <1>3 DEF UpToWalk
    <3> QED BY <3>1, <3>2, <3>3
  <2>4. \A i \in 1 .. Len(elhs) : sent(elhs[i]) = IF i < k + 1 THEN events ELSE events - 1
    <3> TAKE i \in 1 .. Len(elhs)
    <3>1. CASE i = k
      BY <2>1, <2>3, <3>1
    <3>2. CASE i # k
      <4>1. sent(elhs[i]) = SentTo(elhs[i])
        BY <2>2, <2>3, <3>2
      <4>2. i < k <=> i < k + 1
        BY <3>2
      <4> QED BY <2>3, <4>1, <4>2
    <3> QED BY <3>1, <3>2
  <2> HIDE DEF sent
  <2>5. walk' = NoWalk => \A i \in 1 .. Len(elhs) : i < k + 1
    <3>1. walk' = NoWalk => k = Len(elhs)
      BY <1>4, <1>5 DEF EventsAssumption
    <3> QED BY <1>1, <3>1
  <2>6. \A j \in 1 .. Len(elhs) : elhs[j] = walk' => j = k + 1
    <3> SUFFICES ASSUME NEW j \in 1 .. Len(elhs), elhs[j] = walk' PROVE j = k + 1
      OBVIOUS
    <3>1. walk' # NoWalk
      BY <1>1, <2>3 DEF EventsAssumption
    <3> QED BY <1>1, <1>4, <1>5, <3>1 DEF WalkPlace
  <2> SUFFICES ASSUME NEW i \in 1 .. Len(elhs)
               PROVE  /\ walk' = NoWalk => sent(elhs[i]) = events
                      /\ sent(elhs[i]) \in {events - 1, events}
                      /\ \A j \in 1 .. Len(elhs) : elhs[j] = walk' =>
                           sent(elhs[i]) = IF i < j THEN events ELSE events - 1
    BY <1>2 DEF UpToWalk, SentTo, sent
  <2> QED BY <2>4, <2>5, <2>6
<1> QED BY <1>8, <1>10, <1>14, <1>15 DEF EvtInv

(* A walk that stands on a freed handle reads it: it was removed under it. *)
LEMMA FreedWalkKeeps ==
    ASSUME EventsAssumption, EvtInv, PostFreed
    PROVE  EvtInv'
<1>1. /\ walk \in freed /\ wild' = TRUE
      /\ UNCHANGED <<elhs, freed, destroyed, walk, events, mailed, heard, joined, raced>>
  BY DEF PostFreed
<1>2. ListenerTypes'
  BY <1>1 DEF EvtInv, ListenerTypes
<1>3. WalkPlace'
  BY <1>1 DEF EvtInv, WalkPlace, Linked
<1>4. InOrder'
  BY <1>1 DEF EvtInv, InOrder
<1>5. UpToWalk'
  BY <1>1 DEF EvtInv, UpToWalk, SentTo
<1> QED BY <1>2, <1>3, <1>4, <1>5 DEF EvtInv

(* A handle added during a walk comes after it and gets the event too. *)
LEMMA AddKeeps ==
    ASSUME EventsAssumption, EvtInv, NEW h \in Handles, AddListener(h)
    PROVE  EvtInv'
<1>1. /\ ListenerTypes /\ WalkPlace /\ InOrder /\ UpToWalk
      /\ events \in Nat /\ elhs \in Seq(Handles) /\ Len(elhs) \in Nat
      /\ mailed \in [Handles -> Seq(Nat)] /\ joined \in [Handles -> Nat]
      /\ heard \in [Handles -> Seq(Nat)] /\ walk \in Handles \union {NoWalk}
  BY DEF EvtInv, ListenerTypes
<1>2. /\ h \notin Linked /\ h \notin freed
      /\ elhs' = Append(elhs, h)
      /\ UNCHANGED <<freed, destroyed, walk, events, mailed, heard, wild, raced>>
  BY DEF AddListener
<1> DEFINE n == Len(elhs)
           since == IF walk = NoWalk THEN events ELSE events - 1
<1>3. /\ elhs' \in Seq(Handles) /\ Len(elhs') = n + 1 /\ elhs'[n + 1] = h
      /\ \A i \in 1 .. n : elhs'[i] = elhs[i] /\ elhs[i] # h /\ elhs[i] \in Handles
      /\ \A i \in 1 .. n + 1 : i \in 1 .. n \/ i = n + 1
  <2>1. /\ elhs' \in Seq(Handles) /\ Len(elhs') = n + 1 /\ elhs'[n + 1] = h
        /\ \A i \in 1 .. n : elhs'[i] = elhs[i]
    BY <1>1, <1>2, AppendProperties
  <2>2. \A i \in 1 .. n : elhs[i] # h /\ elhs[i] \in Handles
    BY <1>1, <1>2, LinkedIs
  <2>3. n \in Nat
    BY <1>1
  <2> HIDE DEF n
  <2>4. \A i \in 1 .. n + 1 : i \in 1 .. n \/ i = n + 1
    BY <2>3
  <2> QED BY <2>1, <2>2, <2>4
<1>4. Linked' = Linked \union {h}
  <2>1. DOMAIN elhs' = 1 .. n + 1 /\ n \in Nat
    BY <1>1, <1>3
  <2>2. Linked' = {elhs'[i] : i \in 1 .. n + 1}
    BY <2>1 DEF Linked, ToSet
  <2>3. Linked = {elhs[i] : i \in 1 .. n}
    BY <1>1, LinkedIs
  <2> HIDE DEF n
  <2>4. n + 1 \in 1 .. n + 1 /\ \A i \in 1 .. n : i \in 1 .. n + 1
    BY <2>1
  <2> QED BY <1>3, <2>2, <2>3, <2>4
<1>5. since \in Nat /\ since \in {events - 1, events}
  BY <1>1 DEF WalkPlace
<1>6. /\ joined' \in [Handles -> Nat] /\ joined'[h] = since
      /\ \A g \in Handles : g # h => joined'[g] = joined[g]
  BY <1>1, <1>5 DEF AddListener
<1>7. heard[h] = <<>> /\ mailed[h] = <<>>
  BY <1>1, <1>2 DEF WalkPlace
<1> HIDE DEF since
<1>8. ListenerTypes'
  BY <1>2, <1>3, <1>6 DEF EvtInv, ListenerTypes
<1>9. WalkPlace'
  <2>1. \A i, j \in 1 .. n + 1 : elhs'[i] = elhs'[j] => i = j
    BY <1>1, <1>3 DEF WalkPlace
  <2> QED BY <1>1, <1>2, <1>3, <1>4, <2>1 DEF WalkPlace
<1>10. InOrder'
  <2>1. \A i \in 1 .. Len(heard[h]) : FALSE
    BY <1>7
  <2>2. \A i \in 1 .. Len(mailed[h]) : FALSE
    BY <1>7
  <2> SUFFICES ASSUME NEW g \in Handles
               PROVE  /\ \A i \in 1 .. Len(heard[g]) : heard[g][i] = joined'[g] + i
                      /\ \A i \in 1 .. Len(mailed[g]) : mailed[g][i] = joined'[g] + Len(heard[g]) + i
    BY <1>2 DEF InOrder
  <2>3. CASE g = h
    BY <2>1, <2>2, <2>3
  <2>4. CASE g # h
    BY <1>1, <1>6, <2>4 DEF InOrder
  <2> QED BY <2>3, <2>4
<1>11. UpToWalk'
  <2> DEFINE sent(g) == joined'[g] + Len(heard[g]) + Len(mailed[g])
  <2>1. sent(h) = since
    <3>1. Len(heard[h]) = 0 /\ Len(mailed[h]) = 0
      BY <1>7
    <3> HIDE DEF since
    <3>2. joined'[h] = since /\ since \in Nat
      BY <1>5, <1>6
    <3> QED BY <3>1, <3>2
  <2>2. \A i \in 1 .. n : sent(elhs[i]) = SentTo(elhs[i])
    BY <1>3, <1>6 DEF SentTo
  <2>3. walk # h
    <3>1. h # NoWalk
      BY DEF EventsAssumption
    <3> QED BY <1>1, <1>2, <3>1 DEF WalkPlace
  <2> HIDE DEF sent
  <2>4. \A i \in 1 .. n : /\ walk = NoWalk => sent(elhs[i]) = events
                          /\ sent(elhs[i]) \in {events - 1, events}
                          /\ \A k \in 1 .. n : elhs[k] = walk =>
                                sent(elhs[i]) = IF i < k THEN events ELSE events - 1
    BY <1>1, <2>2 DEF UpToWalk
  <2>5. \A k \in 1 .. n : elhs[k] = walk => walk # NoWalk /\ ~(n + 1 < k)
    <3>1. \A k \in 1 .. n : elhs[k] # NoWalk
      BY <1>3 DEF EventsAssumption
    <3>2. n \in Nat
      BY <1>1
    <3> HIDE DEF n
    <3>3. \A k \in 1 .. n : ~(n + 1 < k)
      BY <3>2
    <3> QED BY <3>1, <3>3
  <2>6. (walk = NoWalk => since = events) /\ (walk # NoWalk => since = events - 1)
    BY DEF since
  <2> SUFFICES ASSUME NEW i \in 1 .. n + 1
               PROVE  /\ walk = NoWalk => sent(elhs'[i]) = events
                      /\ sent(elhs'[i]) \in {events - 1, events}
                      /\ \A k \in 1 .. n + 1 : elhs'[k] = walk =>
                           sent(elhs'[i]) = IF i < k THEN events ELSE events - 1
    BY <1>2, <1>3 DEF UpToWalk, SentTo, sent
  <2>7. \A k \in 1 .. n + 1 : elhs'[k] = walk => k \in 1 .. n /\ elhs[k] = walk
    BY <1>3, <2>3
  <2>8. CASE i \in 1 .. n
    BY <1>3, <2>4, <2>7, <2>8
  <2>9. CASE i = n + 1
    <3>1. elhs'[i] = h
      BY <1>3, <2>9
    <3> QED BY <1>5, <2>1, <2>5, <2>6, <2>7, <2>9, <3>1
  <2> QED BY <1>3, <2>8, <2>9
<1> QED BY <1>8, <1>9, <1>10, <1>11 DEF EvtInv

(* Removing a handle keeps the order of the others. *)
LEMMA RemoveKeeps ==
    ASSUME EventsAssumption, EvtInv, NEW h \in Handles, RemoveListener(h)
    PROVE  EvtInv'
<1>1. /\ ListenerTypes /\ WalkPlace /\ InOrder /\ UpToWalk
      /\ events \in Nat /\ elhs \in Seq(Handles) /\ Len(elhs) \in Nat
      /\ walk \in Handles \union {NoWalk} /\ raced \in BOOLEAN /\ freed \subseteq Handles
  BY DEF EvtInv, ListenerTypes
<1>2. /\ h \in Linked /\ elhs' = RemoveFirst(elhs, h) /\ freed' = freed \union {h}
      /\ raced' = (raced \/ walk = h)
      /\ UNCHANGED <<destroyed, walk, events, mailed, heard, wild, joined>>
  BY DEF RemoveListener
<1>3. PICK k \in 1 .. Len(elhs) : elhs[k] = h
  BY <1>1, <1>2, LinkedIs
<1> DEFINE n == Len(elhs)
           old(i) == IF i < k THEN i ELSE i + 1
<1>4. /\ elhs' \in Seq(Handles) /\ Len(elhs') = n - 1 /\ n - 1 \in Nat
      /\ \A i \in 1 .. n - 1 : elhs'[i] = elhs[old(i)]
  <2>1. \A i, j \in 1 .. Len(elhs) : elhs[i] = elhs[j] => i = j
    BY <1>1 DEF WalkPlace
  <2>2. elhs' = RemoveFirst(elhs, elhs[k])
    BY <1>2, <1>3
  <2>3. /\ elhs' \in Seq(Handles) /\ Len(elhs') = n - 1
        /\ \A i \in 1 .. n - 1 : elhs'[i] = IF i < k THEN elhs[i] ELSE elhs[i + 1]
    BY <1>1, <2>1, <2>2, RemoveFirstEffect
  <2>4. n - 1 \in Nat
    BY <1>1
  <2> QED BY <2>3, <2>4
<1>5. /\ \A i \in 1 .. n - 1 : old(i) \in 1 .. n /\ old(i) # k
      /\ \A i, j \in 1 .. n - 1 : (old(i) = old(j) => i = j) /\ (old(i) < old(j) <=> i < j)
      /\ \A j \in 1 .. n : j # k => \E i \in 1 .. n - 1 : old(i) = j
  <2>1. n \in Nat /\ k \in 1 .. n
    BY <1>1
  <2> HIDE DEF n
  <2>2. \A i \in 1 .. n - 1 : old(i) \in 1 .. n /\ old(i) # k
    BY <2>1
  <2>3. \A i, j \in 1 .. n - 1 : (old(i) = old(j) => i = j) /\ (old(i) < old(j) <=> i < j)
    BY <2>1
  <2>4. ASSUME NEW j \in 1 .. n, j # k
        PROVE  \E i \in 1 .. n - 1 : old(i) = j
    <3>1. CASE j < k
      <4>1. j \in 1 .. n - 1 /\ old(j) = j
        BY <2>1, <3>1
      <4> QED BY <4>1
    <3>2. CASE ~(j < k)
      <4>1. j - 1 \in 1 .. n - 1 /\ old(j - 1) = j
        BY <2>1, <2>4, <3>2
      <4> QED BY <4>1
    <3> QED BY <3>1, <3>2
  <2> QED BY <2>2, <2>3, <2>4
<1> HIDE DEF old, n
<1>6. \A i \in 1 .. n : elhs[i] \in Handles /\ (elhs[i] = h <=> i = k)
  BY <1>1, <1>3 DEF WalkPlace, n
<1>7. Linked' = Linked \ {h}
  <2>1. Linked' = {elhs'[i] : i \in 1 .. n - 1}
    BY <1>4 DEF Linked, ToSet
  <2>2. Linked = {elhs[i] : i \in 1 .. n}
    BY <1>1, LinkedIs DEF n
  <2> QED BY <1>4, <1>5, <1>6, <2>1, <2>2
<1>8. ListenerTypes'
  BY <1>2, <1>4 DEF EvtInv, ListenerTypes
<1>9. WalkPlace'
  <2>1. \A i, j \in 1 .. n - 1 : elhs'[i] = elhs'[j] => i = j
    <3>1. \A i, j \in 1 .. n : elhs[i] = elhs[j] => i = j
      BY <1>1 DEF WalkPlace, n
    <3> QED BY <1>4, <1>5, <3>1
  <2>2. walk \in freed' => raced'
    BY <1>1, <1>2 DEF WalkPlace
  <2>3. Linked' \intersect freed' = {}
    BY <1>1, <1>2, <1>7 DEF WalkPlace
  <2>4. Linked' \union freed' = Linked \union freed
    BY <1>2, <1>7
  <2> QED BY <1>1, <1>2, <1>4, <2>1, <2>2, <2>3, <2>4 DEF WalkPlace
<1>10. InOrder'
  BY <1>1, <1>2 DEF InOrder
<1>11. UpToWalk'
  <2>1. \A g : joined'[g] + Len(heard'[g]) + Len(mailed'[g]) = SentTo(g)
    BY <1>2 DEF SentTo
  <2> SUFFICES ASSUME NEW i \in 1 .. n - 1
               PROVE  /\ walk = NoWalk => SentTo(elhs'[i]) = events
                      /\ SentTo(elhs'[i]) \in {events - 1, events}
                      /\ \A j \in 1 .. n - 1 : elhs'[j] = walk =>
                           SentTo(elhs'[i]) = IF i < j THEN events ELSE events - 1
    BY <1>2, <1>4, <2>1 DEF UpToWalk, SentTo
  <2>2. /\ walk = NoWalk => SentTo(elhs[old(i)]) = events
        /\ SentTo(elhs[old(i)]) \in {events - 1, events}
        /\ \A j \in 1 .. n : elhs[j] = walk =>
             SentTo(elhs[old(i)]) = IF old(i) < j THEN events ELSE events - 1
    BY <1>1, <1>5 DEF UpToWalk, n
  <2> QED BY <1>4, <1>5, <2>2
<1> QED BY <1>8, <1>9, <1>10, <1>11 DEF EvtInv

(* What was posted is heard in the same order. *)
LEMMA HearKeeps ==
    ASSUME EventsAssumption, EvtInv, NEW h \in Handles, HearEvent(h)
    PROVE  EvtInv'
<1>1. /\ ListenerTypes /\ WalkPlace /\ InOrder /\ UpToWalk
      /\ mailed \in [Handles -> Seq(Nat)] /\ joined \in [Handles -> Nat]
      /\ heard \in [Handles -> Seq(Nat)] /\ elhs \in Seq(Handles)
  BY DEF EvtInv, ListenerTypes
<1>2. /\ mailed[h] # <<>> /\ mailed[h] \in Seq(Nat) /\ heard[h] \in Seq(Nat)
      /\ UNCHANGED <<elhs, freed, destroyed, walk, events, wild, joined, raced>>
  BY <1>1 DEF HearEvent
<1>3. /\ mailed' \in [Handles -> Seq(Nat)] /\ heard' \in [Handles -> Seq(Nat)]
      /\ mailed'[h] = Tail(mailed[h]) /\ heard'[h] = Append(heard[h], Head(mailed[h]))
      /\ \A g \in Handles : g # h => mailed'[g] = mailed[g] /\ heard'[g] = heard[g]
  BY <1>1, <1>2, HeadTailProperties, AppendProperties DEF HearEvent
<1> DEFINE a == joined[h]
           n == Len(heard[h])
           m == Len(mailed[h])
<1>4. a \in Nat /\ n \in Nat /\ m \in Nat \ {0}
  BY <1>1, <1>2, EmptySeq
<1>5. /\ Len(heard'[h]) = n + 1 /\ Len(mailed'[h]) = m - 1
      /\ \A i \in 1 .. n : heard'[h][i] = heard[h][i]
      /\ heard'[h][n + 1] = mailed[h][1]
      /\ \A i \in 1 .. m - 1 : mailed'[h][i] = mailed[h][i + 1]
  BY <1>2, <1>3, HeadTailProperties, AppendProperties
<1>6. /\ \A i \in 1 .. n : heard[h][i] = a + i
      /\ \A i \in 1 .. m : mailed[h][i] = a + n + i
  BY <1>1 DEF InOrder
<1> HIDE DEF a, n, m
<1>7. /\ \A i \in 1 .. n + 1 : heard'[h][i] = a + i
      /\ \A i \in 1 .. m - 1 : mailed'[h][i] = a + (n + 1) + i
  <2>1. /\ 1 \in 1 .. m /\ a + n + 1 = a + (n + 1)
        /\ \A i \in 1 .. n + 1 : i \in 1 .. n \/ i = n + 1
        /\ \A i \in 1 .. m - 1 : i + 1 \in 1 .. m /\ a + n + (i + 1) = a + (n + 1) + i
    BY <1>4
  <2> QED BY <1>5, <1>6, <2>1
<1>8. ListenerTypes'
  BY <1>2, <1>3 DEF EvtInv, ListenerTypes
<1>9. \A g \in Handles : SentTo(g)' = SentTo(g)
  <2> TAKE g \in Handles
  <2>1. CASE g = h
    <3>1. a + n + m = a + (n + 1) + (m - 1)
      BY <1>4
    <3>2. joined[h] + Len(heard'[h]) + Len(mailed'[h]) = joined[h] + Len(heard[h]) + Len(mailed[h])
      BY <1>5, <3>1 DEF a, n, m
    <3> QED BY <1>2, <2>1, <3>2 DEF SentTo
  <2>2. CASE g # h
    BY <1>2, <1>3, <2>2 DEF SentTo
  <2> QED BY <2>1, <2>2
<1>10. WalkPlace'
  <2>1. h \in Linked \union freed
    BY <1>1, <1>2 DEF WalkPlace
  <2> QED BY <1>1, <1>2, <1>3, <2>1 DEF WalkPlace, Linked
<1>11. InOrder'
  <2> SUFFICES ASSUME NEW g \in Handles
               PROVE  /\ \A i \in 1 .. Len(heard'[g]) : heard'[g][i] = joined[g] + i
                      /\ \A i \in 1 .. Len(mailed'[g]) :
                            mailed'[g][i] = joined[g] + Len(heard'[g]) + i
    BY <1>2 DEF InOrder
  <2>1. CASE g = h
    BY <1>5, <1>7, <2>1 DEF a
  <2>2. CASE g # h
    BY <1>1, <1>3, <2>2 DEF InOrder
  <2> QED BY <2>1, <2>2
<1>12. UpToWalk'
  <2>1. \A i \in 1 .. Len(elhs) : elhs[i] \in Handles
    BY <1>1
  <2> SUFFICES ASSUME NEW i \in 1 .. Len(elhs)
               PROVE  /\ walk = NoWalk => SentTo(elhs[i]) = events
                      /\ SentTo(elhs[i]) \in {events - 1, events}
                      /\ \A j \in 1 .. Len(elhs) : elhs[j] = walk =>
                           SentTo(elhs[i]) = IF i < j THEN events ELSE events - 1
    BY <1>2, <1>9, <2>1 DEF UpToWalk, SentTo
  <2> QED BY <1>1 DEF UpToWalk
<1> QED BY <1>8, <1>10, <1>11, <1>12 DEF EvtInv

(* ytaskmanager_destroy frees all listeners when nobody walks. *)
LEMMA FreeKeeps ==
    ASSUME EventsAssumption, EvtInv, FreeListeners
    PROVE  EvtInv'
<1>1. /\ ListenerTypes /\ WalkPlace /\ InOrder /\ elhs' = <<>> /\ walk = NoWalk
      /\ freed' = freed \union Linked /\ Linked \subseteq Handles
      /\ UNCHANGED <<walk, events, mailed, heard, wild, joined, raced>>
  BY LinkedIs DEF EvtInv, FreeListeners
<1>2. Linked' = {} /\ Len(elhs') = 0 /\ elhs' \in Seq(Handles)
  BY <1>1 DEF Linked, ToSet
<1>3. ListenerTypes'
  BY <1>1, <1>2 DEF ListenerTypes
<1>4. wild => raced
  BY <1>1 DEF WalkPlace
<1>5. WalkPlace'
  <2>1. walk' = NoWalk /\ walk' \notin freed'
    BY <1>1 DEF ListenerTypes, EventsAssumption
  <2>2. Linked' \union freed' = Linked \union freed
    BY <1>1, <1>2
  <2>3. \A i, j \in 1 .. Len(elhs') : elhs'[i] = elhs'[j] => i = j
    BY <1>2
  <2>4. \A h \in Handles \ (Linked \union freed) : heard[h] = <<>> /\ mailed[h] = <<>>
    BY <1>1 DEF WalkPlace
  <2> QED BY <1>1, <1>2, <1>4, <2>1, <2>2, <2>3, <2>4 DEF WalkPlace
<1>6. InOrder'
  BY <1>1 DEF InOrder
<1>7. UpToWalk'
  BY <1>2 DEF UpToWalk
<1> QED BY <1>3, <1>5, <1>6, <1>7 DEF EvtInv

(* ytaskmanager_create: there is no listener and no event. *)
LEMMA EventsBegin ==
    ASSUME EventsInit
    PROVE  EvtInv
<1>1. /\ elhs = <<>> /\ freed = {} /\ walk = NoWalk /\ events = 0 /\ wild = FALSE /\ raced = FALSE
      /\ mailed = [h \in Handles |-> <<>>] /\ heard = [h \in Handles |-> <<>>]
      /\ joined = [h \in Handles |-> 0]
  BY DEF EventsInit
<1>2. Linked = {} /\ Len(elhs) = 0 /\ Len(<<>>) = 0 /\ \A n : n \notin 1 .. 0
  BY <1>1 DEF Linked, ToSet
<1>3. ListenerTypes
  <2>1. <<>> \in Seq(Handles) /\ <<>> \in Seq(Nat) /\ 0 \in Nat
    OBVIOUS
  <2>2. /\ mailed \in [Handles -> Seq(Nat)] /\ heard \in [Handles -> Seq(Nat)]
        /\ joined \in [Handles -> Nat]
    BY <1>1, <2>1
  <2> QED BY <1>1, <2>1, <2>2 DEF ListenerTypes
<1>4. WalkPlace
  BY <1>1, <1>2 DEF WalkPlace
<1>5. InOrder
  <2>1. \A h \in Handles : Len(heard[h]) = 0 /\ Len(mailed[h]) = 0
    BY <1>1
  <2> QED BY <2>1 DEF InOrder
<1>6. UpToWalk
  BY <1>2 DEF UpToWalk
<1> QED BY <1>3, <1>4, <1>5, <1>6 DEF EvtInv

(* What is promised of events follows from the invariant. *)
LEMMA EvtInvImplies ==
    ASSUME EvtInv
    PROVE  EventsReachListeners
<1>1. /\ ListenerTypes /\ WalkPlace /\ InOrder /\ UpToWalk
      /\ mailed \in [Handles -> Seq(Nat)] /\ joined \in [Handles -> Nat]
      /\ heard \in [Handles -> Seq(Nat)] /\ elhs \in Seq(Handles)
  BY DEF EvtInv, ListenerTypes
<1>2. wild => raced
  BY <1>1 DEF WalkPlace
<1> DEFINE sent(h) == heard[h] \o mailed[h]
<1>3. ASSUME NEW h \in Handles
      PROVE  /\ Len(sent(h)) = Len(heard[h]) + Len(mailed[h])
             /\ joined[h] + Len(sent(h)) = SentTo(h)
             /\ \A i \in DOMAIN sent(h) : sent(h)[i] = joined[h] + i
  <2> DEFINE a == joined[h]
             n == Len(heard[h])
             m == Len(mailed[h])
  <2>1. /\ a \in Nat /\ n \in Nat /\ m \in Nat /\ Len(sent(h)) = n + m
        /\ DOMAIN sent(h) = 1 .. n + m
        /\ \A i \in 1 .. n + m : sent(h)[i] = IF i <= n THEN heard[h][i] ELSE mailed[h][i - n]
    BY <1>1, <1>3, ConcatProperties
  <2>2. /\ \A i \in 1 .. n : heard[h][i] = a + i
        /\ \A i \in 1 .. m : mailed[h][i] = a + n + i
    BY <1>1 DEF InOrder
  <2>3. SentTo(h) = a + n + m
    BY DEF SentTo
  <2> HIDE DEF a, n, m, sent
  <2>4. /\ \A i \in 1 .. n + m : IF i <= n THEN i \in 1 .. n
                                 ELSE i - n \in 1 .. m /\ a + n + (i - n) = a + i
        /\ a + (n + m) = a + n + m
    BY <2>1
  <2>5. \A i \in 1 .. n + m : sent(h)[i] = a + i
    BY <2>1, <2>2, <2>4
  <2> QED BY <2>1, <2>3, <2>4, <2>5 DEF a, n, m
<1>4. ASSUME NEW h \in Handles, h \in Linked
      PROVE  /\ walk # h => SentTo(h) \in IF walk = NoWalk THEN {events} ELSE {events - 1, events}
             /\ walk = h => SentTo(h) = events - 1
  <2>1. PICK i \in 1 .. Len(elhs) : elhs[i] = h
    BY <1>1, <1>4, LinkedIs
  <2>2. ~(i < i)
    BY <1>1
  <2>3. /\ walk = NoWalk => SentTo(h) = events
        /\ SentTo(h) \in {events - 1, events}
        /\ walk = h => SentTo(h) = events - 1
    BY <1>1, <2>1, <2>2 DEF UpToWalk
  <2> QED BY <2>3
<1>5. ASSUME NEW h \in Handles
      PROVE  /\ \A i \in DOMAIN sent(h) : sent(h)[i] = joined[h] + i
             /\ h \in Linked /\ walk # h =>
                  joined[h] + Len(sent(h)) \in
                    (IF walk = NoWalk THEN {events} ELSE {events - 1, events})
             /\ h \in Linked /\ walk = h => joined[h] + Len(sent(h)) = events - 1
  <2>1. joined[h] + Len(sent(h)) = SentTo(h)
    BY <1>3
  <2>2. \A i \in DOMAIN sent(h) : sent(h)[i] = joined[h] + i
    BY <1>3
  <2> HIDE DEF sent
  <2> QED BY <1>4, <2>1, <2>2
<1> QED BY <1>2, <1>5, Zenon DEF EventsReachListeners

(* taskmanager.c: whoever adds and removes listeners while the events of   *)
(* the queues are handed out, a linked listener gets every event since it  *)
(* was linked, once and in order; a freed handle is read only when it was  *)
(* removed under the walk itself.                                          *)
THEOREM EventsAreHeard == EventsSpec => []EventsReachListeners
<1> USE EventsConstants
<1>1. EventsInit => EvtInv
  BY EventsBegin
<1>2. EvtInv /\ [EventsNext]_evtVars => EvtInv'
  <2> SUFFICES ASSUME EvtInv, [EventsNext]_evtVars PROVE EvtInv'
    OBVIOUS
  <2>1. CASE UNCHANGED evtVars
    BY <2>1 DEF evtVars, EvtInv, ListenerTypes, WalkPlace, InOrder, UpToWalk, SentTo, Linked
  <2> QED BY <2>1, ChangeKeeps, PostKeeps, FreedWalkKeeps, AddKeeps, RemoveKeeps, HearKeeps,
             FreeKeeps DEF EventsNext
<1>3. EvtInv => EventsReachListeners
  BY EvtInvImplies
<1> QED BY <1>1, <1>2, <1>3, PTL DEF EventsSpec

==============================================================================
