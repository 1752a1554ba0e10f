---------------------------- MODULE SupportProofs ----------------------------
(***************************************************************************)
(* Proofs about what supports the tasks, for any size: the message          *)
(* looper (what TERMINATED means, that the looper never blocks in a read    *)
(* and that no stop is slept through), the memory pool, the start of the    *)
(* library, the descriptors and the regions.                                *)
(***************************************************************************)
EXTENDS MsgLooper, Mempool, Startup, Fd, Region, FiniteSetTheorems,
        SequenceTheorems, NaturalsInduction, WellFoundedInduction, TLAPS

------------------------------------------------------------------------------
(* The message looper. *)

(* What the positions of the starting thread and of the looper thread say  *)
(* of the report and of the state.                                         *)
Reported ==
    /\ start = "init" <=> lpc = "none"
    /\ start = "done" => result = 1
    /\ \A s \in Stoppers : spc[s] # "idle" => result = 1
    /\ result = 1 => state # "NONE" /\ lpc \notin {"none", "create", "report"}
    /\ lpc \in {"none", "create"} => state = "NONE"
    /\ lpc \notin {"none", "create", "report", "over"} => state # "NONE"

(* A stop that found TERMINATED found a looper that is over. *)
RestoreIsLate == \A s \in Stoppers : spc[s] = "restore" => lpc = "over"

(* Only a looper inside a batch has callbacks due. *)
BatchInside == lpc # "batch" => batch = {}

(* epoll watches the control fd and the fds of living handlers. *)
WatchedAlive == watched \subseteq alive \union {Ctl}

IInv ==
    /\ TypeOK
    /\ Reported
    /\ RestoreIsLate
    /\ BatchInside
    /\ WatchedAlive
    /\ TerminatedIsOver
    /\ CallbackNeverBlocks
    /\ CallbackFindsHandler
    /\ StopWakesLooper

(* A looper that is over stays so, and is TERMINATED unless a late stop is *)
(* about to say so again, or a write to the control fd has failed.         *)
LateStop ==
    lpc = "over" /\ state # "NONE" /\ ~failed =>
        \/ state = "TERMINATED"
        \/ state = "STOPPING" /\ \E s \in Stoppers : spc[s] = "restore"

------------------------------------------------------------------------------
(* The start of the looper thread and its handshake. *)
LEMMA StarterInv ==
    ASSUME IInv, Starter \/ StartSpurious
    PROVE  IInv'
<1> USE DEF IInv, TypeOK, Reported, RestoreIsLate, BatchInside, WatchedAlive, TerminatedIsOver,
            CallbackNeverBlocks, CallbackFindsHandler, StopWakesLooper, handlerVars
<1>1. CASE StartThread
  BY <1>1 DEF StartThread
<1>2. CASE StartWait
  BY <1>2 DEF StartWait
<1>3. CASE StartSpurious
  BY <1>3 DEF StartSpurious
<1>4. CASE StartReturn
  BY <1>4 DEF StartReturn
<1> QED BY <1>1, <1>2, <1>3, <1>4 DEF Starter

(* The looper thread creates its looper and reports. *)
LEMMA LooperStartsInv ==
    ASSUME IInv, LooperCreate \/ LooperCreateFails \/ LooperReport \/ Enter
    PROVE  IInv'
<1> USE DEF IInv, TypeOK, Reported, RestoreIsLate, BatchInside, WatchedAlive, TerminatedIsOver,
            CallbackNeverBlocks, CallbackFindsHandler, StopWakesLooper, handlerVars, startVars
<1>1. CASE LooperCreate
  BY <1>1 DEF LooperCreate, Fds
<1>2. CASE LooperCreateFails
  BY <1>2 DEF LooperCreateFails
<1>3. CASE LooperReport
  BY <1>3 DEF LooperReport
<1>4. CASE Enter
  BY <1>4 DEF Enter
<1> QED BY <1>1, <1>2, <1>3, <1>4

(* The loop: epoll_wait, the callbacks of a batch, one look at the state.  *)
LEMMA LooperLoopsInv ==
    ASSUME IInv, Wait \/ Check \/ Leave \/ \E f \in Fds : Callback(f)
    PROVE  IInv'
<1> USE DEF IInv, TypeOK, Reported, RestoreIsLate, BatchInside, WatchedAlive, TerminatedIsOver,
            CallbackNeverBlocks, CallbackFindsHandler, StopWakesLooper, handlerVars, startVars
<1>1. CASE Wait
  BY <1>1 DEF Wait, Readable
<1>2. CASE Check
  BY <1>2 DEF Check
<1>3. CASE Leave
  BY <1>3 DEF Leave
<1>4. ASSUME NEW f \in Fds, Callback(f) PROVE IInv'
  <2>1. tokens' \in [Fds -> Nat] /\ \A g \in batch' : tokens'[g] = tokens[g] /\ g \in batch
    BY <1>4 DEF Callback
  <2> QED BY <1>4, <2>1 DEF Callback
<1> QED BY <1>1, <1>2, <1>3, <1>4

(* The stopping threads. *)
LEMMA StopInv ==
    ASSUME IInv, NEW s \in Stoppers, Stop(s) \/ StopGoesOn(s)
    PROVE  IInv'
<1> USE DEF IInv, TypeOK, Reported, RestoreIsLate, BatchInside, WatchedAlive, TerminatedIsOver,
            CallbackNeverBlocks, CallbackFindsHandler, StopWakesLooper, handlerVars, startVars, Goto
<1>1. CASE Stop(s)
  <2>1. state \in {"READY", "LOOP", "STOPPING", "TERMINATED"}
    BY <1>1 DEF Stop, Usable
  <2>2. CASE state \in {"READY", "LOOP"}
    <3>1. spc' = [spc EXCEPT ![s] = "write"]
      BY <1>1, <2>2 DEF Stop
    <3>2. /\ spc'[s] = "write"
          /\ spc' \in [Stoppers -> {"idle", "write", "restore"}]
          /\ \A t \in Stoppers : spc'[t] = "restore" => spc[t] = "restore"
      BY <3>1
    <3>3. result = 1
      BY <1>1 DEF Stop, Usable
    <3> HIDE DEF Goto
    <3> QED BY <1>1, <3>2, <3>3 DEF Stop
  <2>3. CASE state = "STOPPING"
    BY <1>1, <2>3 DEF Stop
  <2>4. CASE state = "TERMINATED"
    <3>1. spc' = [spc EXCEPT ![s] = "restore"]
      BY <1>1, <2>4 DEF Stop
    <3>2. spc' \in [Stoppers -> {"idle", "write", "restore"}]
      BY <3>1
    <3>3. result = 1 /\ lpc = "over"
      BY <1>1, <2>4 DEF Stop, Usable
    <3> HIDE DEF Goto
    <3> QED BY <1>1, <3>2, <3>3 DEF Stop
  <2> QED BY <2>1, <2>2, <2>3, <2>4
<1>2. CASE StopWrite(s)
  <2>1. /\ tokens' \in [Fds -> Nat] /\ tokens'[Ctl] > 0
        /\ \A f \in Fds : tokens[f] > 0 => tokens'[f] > 0
    BY <1>2 DEF StopWrite, Fds
  <2> QED BY <1>2, <2>1 DEF StopWrite
<1>3. CASE StopWriteFails(s)
  BY <1>3 DEF StopWriteFails
<1>4. CASE StopRestore(s)
  BY <1>4 DEF StopRestore
<1> QED BY <1>1, <1>2, <1>3, <1>4 DEF StopGoesOn

(* The handlers. *)
LEMMA HandlerInv ==
    ASSUME IInv, NEW h \in Handlers,
           CreateHandler(h) \/ Post(h) \/ DelFd(h) \/ DestroyHandler(h)
    PROVE  IInv'
<1> USE DEF IInv, TypeOK, Reported, RestoreIsLate, BatchInside, WatchedAlive, TerminatedIsOver,
            CallbackNeverBlocks, CallbackFindsHandler, StopWakesLooper, startVars
<1>0. h \in Fds /\ h # Ctl /\ Ctl \in Fds
  BY MsgLooperAssumption DEF Fds
<1>1. CASE CreateHandler(h)
  BY <1>0, <1>1 DEF CreateHandler
<1>2. CASE Post(h)
  <2>1. /\ tokens' \in [Fds -> Nat] /\ tokens'[Ctl] = tokens[Ctl]
        /\ \A f \in Fds : tokens[f] > 0 => tokens'[f] > 0
    BY <1>0, <1>2 DEF Post
  <2>2. posts' \in 0 .. MaxPosts
    BY <1>2, MsgLooperAssumption DEF Post
  <2> QED BY <1>2, <2>1, <2>2 DEF Post, handlerVars
<1>3. CASE DelFd(h)
  BY <1>0, <1>3 DEF DelFd
<1>4. CASE DestroyHandler(h)
  <2>1. batch = {} /\ lpc = "over"
    BY <1>4 DEF DestroyHandler
  <2>2. tokens' \in [Fds -> Nat]
    BY <1>0, <1>4 DEF DestroyHandler
  <2> QED BY <1>4, <2>1, <2>2 DEF DestroyHandler
<1> QED BY <1>1, <1>2, <1>3, <1>4

(* The destruction of the looper. *)
LEMMA DestroyInv ==
    ASSUME IInv, Destroy
    PROVE  IInv'
  BY DEF IInv, TypeOK, Reported, RestoreIsLate, BatchInside, WatchedAlive, TerminatedIsOver,
         CallbackNeverBlocks, CallbackFindsHandler, StopWakesLooper, startVars, Destroy

(* Before its thread is created there is no looper. *)
LEMMA InitInv == Init => IInv
<1> SUFFICES ASSUME Init PROVE IInv
  OBVIOUS
<1>1. TypeOK
  <2>1. 0 \in 0 .. MaxPosts
    BY MsgLooperAssumption
  <2> QED BY <2>1 DEF Init, TypeOK
<1> QED BY <1>1 DEF Init, IInv, Reported, RestoreIsLate, BatchInside, WatchedAlive, TerminatedIsOver,
           CallbackNeverBlocks, CallbackFindsHandler, StopWakesLooper

(* Every step preserves the invariant. *)
LEMMA NextInv == IInv /\ [Next]_vars => IInv'
<1> SUFFICES ASSUME IInv, [Next]_vars PROVE IInv'
  OBVIOUS
<1>1. ASSUME Starter \/ StartSpurious PROVE IInv'
  BY <1>1, StarterInv
<1>2. ASSUME Looper PROVE IInv'
  BY <1>2, LooperStartsInv, LooperLoopsInv DEF Looper
<1>3. ASSUME NEW s \in Stoppers, Stop(s) \/ StopGoesOn(s) PROVE IInv'
  BY <1>3, StopInv
<1>4. ASSUME NEW h \in Handlers, CreateHandler(h) \/ Post(h) \/ DelFd(h) \/ DestroyHandler(h)
      PROVE  IInv'
  BY <1>4, HandlerInv
<1>5. ASSUME UNCHANGED vars PROVE IInv'
  BY <1>5
  DEF vars, startVars, handlerVars, IInv, TypeOK, Reported, RestoreIsLate, BatchInside, WatchedAlive,
      TerminatedIsOver, CallbackNeverBlocks, CallbackFindsHandler, StopWakesLooper
<1> QED BY <1>1, <1>2, <1>3, <1>4, <1>5, DestroyInv DEF Next

(* The strengthened invariant holds in every reachable state. *)
THEOREM Inductive == Spec => []IInv
  BY InitInv, NextInv, PTL DEF Spec

(* Every variable keeps its type; no eventfd counter goes below zero. *)
THEOREM TypeCorrect == Spec => []TypeOK
<1>1. IInv => TypeOK
  BY DEF IInv
<1> QED BY Inductive, <1>1, PTL

(* Whoever sees TERMINATED may free what the looper used: it is over.      *)
THEOREM TerminatedMeansOver == Spec => []TerminatedIsOver
<1>1. IInv => TerminatedIsOver
  BY DEF IInv
<1> QED BY Inductive, <1>1, PTL

(* No callback blocks in the read of its eventfd, and none belongs to a    *)
(* handler that is destroyed.                                              *)
THEOREM CallbacksAreSafe == Spec => [](CallbackNeverBlocks /\ CallbackFindsHandler)
<1>1. IInv => CallbackNeverBlocks /\ CallbackFindsHandler
  BY DEF IInv
<1> QED BY Inductive, <1>1, PTL

(* A looper that sleeps while it is told to stop will be woken up. *)
THEOREM NoStopIsSleptThrough == Spec => []StopWakesLooper
<1>1. IInv => StopWakesLooper
  BY DEF IInv
<1> QED BY Inductive, <1>1, PTL

------------------------------------------------------------------------------
(* While writes succeed, no step of a stopping thread or of the looper     *)
(* leaves a looper that is over in another state than TERMINATED for good. *)
LEMMA LateStopInv ==
    ASSUME IInv, LateStop, [Next]_vars
    PROVE  LateStop'
<1> USE DEF LateStop
<1>1. CASE Starter \/ StartSpurious
  BY <1>1 DEF Starter, StartThread, StartWait, StartSpurious, StartReturn, IInv, Reported
<1>2. CASE Looper
  BY <1>2 DEF Looper, LooperCreate, LooperCreateFails, LooperReport, Enter, Wait, Check, Leave,
     Callback, IInv, Reported
<1>3. ASSUME NEW s \in Stoppers, Stop(s) PROVE LateStop'
  <2>1. state # "NONE"
    BY <1>3 DEF Stop, Usable, IInv, Reported
  <2>2. CASE state = "TERMINATED"
    BY <1>3, <2>2 DEF Stop, Goto, IInv, TypeOK
  <2>3. CASE state # "TERMINATED"
    <3>1. lpc = "over" /\ ~failed => \E t \in Stoppers \ {s} : spc[t] = "restore"
      BY <1>3, <2>1, <2>3 DEF Stop
    <3> QED BY <1>3, <3>1 DEF Stop, Goto, IInv, TypeOK
  <2> QED BY <2>2, <2>3
<1>4. ASSUME NEW s \in Stoppers, StopGoesOn(s) PROVE LateStop'
  <2>1. CASE StopWrite(s)
    BY <2>1 DEF StopWrite, Goto, IInv, TypeOK
  <2>2. CASE StopRestore(s)
    BY <2>2 DEF StopRestore
  <2> QED BY <1>4, <2>1, <2>2 DEF StopGoesOn, StopWriteFails
<1>5. CASE \/ UNCHANGED vars
           \/ Destroy
           \/ \E h \in Handlers : CreateHandler(h) \/ Post(h) \/ DelFd(h) \/ DestroyHandler(h)
  BY <1>5 DEF vars, Destroy, CreateHandler, Post, DelFd, DestroyHandler
<1> QED BY <1>1, <1>2, <1>3, <1>4, <1>5 DEF Next

(* When the looper is over and no stop is under way the state is           *)
(* TERMINATED, so that destroy is accepted: late stops put it back, unless *)
(* a write to the control fd has failed.                                   *)
THEOREM OverMeansTerminated == Spec => []OverIsTerminated
<1>1. Init => LateStop
  BY DEF Init, LateStop
<1>2. IInv /\ LateStop /\ [Next]_vars => LateStop'
  BY LateStopInv
<1>3. IInv /\ LateStop => OverIsTerminated
  BY DEF LateStop, OverIsTerminated
<1> QED BY <1>1, <1>2, <1>3, Inductive, PTL DEF Spec

(* Every callback that is due finds its handler and a token to read.       *)
THEOREM EveryCallbackIsSafe == Spec => []CallbackIsSafe
<1>1. IInv => CallbackIsSafe
  BY DEF IInv, CallbackIsSafe
<1> QED BY Inductive, <1>1, PTL

(* Late stops, failed writes and the end of the loop, in any order, leave  *)
(* a state that means what its readers take it for.                        *)
THEOREM StopsAreSafe == Spec => []StopIsSafe
<1>1. TerminatedIsOver /\ StopWakesLooper /\ OverIsTerminated <=> StopIsSafe
  BY DEF StopIsSafe
<1> QED BY <1>1, TerminatedMeansOver, NoStopIsSleptThrough, OverMeansTerminated, PTL

(* A function that is one to one and onto is a bijection. *)
LEMMA BijectionExists ==
    ASSUME NEW S, NEW T, NEW f \in [S -> T],
           \A t, u \in S : f[t] = f[u] => t = u,
           \A u \in T : \E t \in S : f[t] = u
    PROVE  ExistsBijection(S, T)
BY DEF ExistsBijection, Bijection, Injection, IsInjective, Surjection

------------------------------------------------------------------------------
(* The memory pool. *)
(* An array f of n groups, the first i blocks of which are in use, and the *)
(* indices ix of the blocks.                                               *)
Arranged(f, ix, i, n) ==
    /\ n \in Nat /\ i \in 0 .. n * GroupSize
    /\ f \in [0 .. n * GroupSize - 1 -> Blocks]
    /\ \A j \in DOMAIN f : f[j] \in DOMAIN ix /\ ix[f[j]] = j

PoolInv ==
    /\ Arranged(fbp, index, fbi, nrgrp)
    /\ held = {fbp[i] : i \in 0 .. fbi - 1}

(* The group of a block is the quotient of its place. *)
LEMMA Division ==
    ASSUME NEW a \in Nat, NEW b \in Nat \ {0}
    PROVE  a \div b \in Nat /\ a + 1 <= (a \div b + 1) * b
OBVIOUS

(* Adding and taking away whole groups. *)
LEMMA Groups ==
    ASSUME PoolAssumption, NEW n \in Nat, NEW k \in 0 .. n
    PROVE  /\ n * GroupSize \in Nat /\ k * GroupSize \in Nat
           /\ k * GroupSize <= n * GroupSize
           /\ (n + 1) * GroupSize = n * GroupSize + GroupSize
<1>1. GroupSize \in Nat \ {0}
  BY DEF PoolAssumption
<1>2. n * GroupSize \in Nat /\ k * GroupSize \in Nat /\ (n - k) * GroupSize \in Nat
  BY <1>1
<1>3. n * GroupSize = k * GroupSize + (n - k) * GroupSize
  BY <1>1
<1>4. (n + 1) * GroupSize = n * GroupSize + GroupSize
  BY <1>1
<1> QED BY <1>2, <1>3, <1>4

(* What shrink keeps holds the blocks in use. *)
LEMMA FirstFreedEffect ==
    ASSUME PoolAssumption, nrgrp \in Nat, NEW i \in 0 .. nrgrp * GroupSize, NEW margin \in 0 .. 1
    PROVE  FirstFreed(i, margin) \in 0 .. nrgrp /\ i <= FirstFreed(i, margin) * GroupSize
<1> DEFINE q == CDiv(i - 1, GroupSize)
           from == q + 1 + margin
<1>1. GroupSize \in Nat \ {0} /\ nrgrp * GroupSize \in Nat /\ i \in Nat
  BY DEF PoolAssumption
<1>2. q \in Int /\ q >= -1 /\ (i > 0 => q >= 0 /\ i <= (q + 1) * GroupSize)
  <2>1. CASE i = 0
    <3>1. q = -(1 \div GroupSize)
      BY <1>1, <2>1 DEF CDiv
    <3>2. 1 \div GroupSize \in 0 .. 1
      BY <1>1
    <3> QED BY <2>1, <3>1, <3>2
  <2>2. CASE i > 0
    <3>1. q = (i - 1) \div GroupSize /\ i - 1 \in Nat
      BY <1>1, <2>2 DEF CDiv
    <3>2. (i - 1) \div GroupSize \in Nat
          /\ (i - 1) + 1 <= ((i - 1) \div GroupSize + 1) * GroupSize
      BY <1>1, <3>1, Division
    <3> HIDE DEF q
    <3> QED BY <1>1, <2>2, <3>1, <3>2
  <2> QED BY <1>1, <2>1, <2>2
<1> HIDE DEF q
<1>3. from \in Nat
  BY <1>2
<1>4. i <= from * GroupSize
  <2>1. CASE i = 0
    <3> HIDE DEF from
    <3> QED BY <1>1, <1>3, <2>1
  <2>2. CASE i > 0
    <3>1. q + 1 \in Nat /\ q + 1 \in 0 .. from
      BY <1>2, <1>3, <2>2
    <3>2. (q + 1) * GroupSize <= from * GroupSize
      <4> DEFINE p == q + 1
      <4> HIDE DEF p, from
      <4> QED BY <1>3, <3>1, Groups DEF p
    <3>3. i <= (q + 1) * GroupSize /\ (q + 1) * GroupSize \in Int /\ from * GroupSize \in Int
      BY <1>1, <1>2, <1>3, <2>2
    <3> HIDE DEF from
    <3> QED BY <1>1, <3>2, <3>3
  <2> QED BY <1>1, <2>1, <2>2
<1>5. FirstFreed(i, margin) = IF from > nrgrp THEN nrgrp ELSE from
  BY DEF FirstFreed, q
<1> HIDE DEF from
<1> QED BY <1>1, <1>3, <1>4, <1>5

(* shrink frees groups from the end and leaves the blocks in use alone. *)
LEMMA ShrinkEffect ==
    ASSUME PoolAssumption, NEW f, NEW ix, NEW i, Arranged(f, ix, i, nrgrp),
           NEW margin \in 0 .. 1, Shrink(f, ix, i, margin)
    PROVE  /\ Arranged(fbp', index', i, nrgrp')
           /\ \A j \in 0 .. i - 1 : fbp'[j] = f[j]
<1> DEFINE k == IF Dynamic THEN FirstFreed(i, margin) ELSE nrgrp
           m == k * GroupSize
           n == nrgrp * GroupSize
<1>1. /\ nrgrp \in Nat /\ i \in 0 .. n /\ f \in [0 .. n - 1 -> Blocks]
      /\ \A j \in DOMAIN f : f[j] \in DOMAIN ix /\ ix[f[j]] = j
  BY DEF Arranged
<1>2. k \in 0 .. nrgrp /\ i <= m
  BY <1>1, FirstFreedEffect
<1>3. nrgrp' = k /\ fbp' = Prefix(f, m) /\ index' = [b \in {fbp'[j] : j \in DOMAIN fbp'} |-> ix[b]]
  BY DEF Shrink
<1> HIDE DEF k
<1>4. m \in Nat /\ n \in Nat /\ m <= n
  BY <1>1, <1>2, Groups
<1>5. fbp' = [j \in 0 .. m - 1 |-> f[j]]
  BY <1>3 DEF Prefix
<1> HIDE DEF m, n
<1>6. \A j \in 0 .. m - 1 : j \in 0 .. n - 1 /\ fbp'[j] = f[j]
  BY <1>4, <1>5
<1>7. fbp' \in [0 .. m - 1 -> Blocks] /\ DOMAIN fbp' = 0 .. m - 1
  BY <1>1, <1>5, <1>6
<1>8. \A j \in 0 .. m - 1 : fbp'[j] \in DOMAIN index' /\ index'[fbp'[j]] = j
  <2> TAKE j \in 0 .. m - 1
  <2>1. fbp'[j] \in DOMAIN index' /\ index'[fbp'[j]] = ix[fbp'[j]]
    BY <1>3, <1>7
  <2>2. fbp'[j] = f[j] /\ ix[f[j]] = j
    BY <1>1, <1>6
  <2> QED BY <2>1, <2>2
<1>9. k \in Nat /\ i \in 0 .. m
  BY <1>1, <1>2, <1>4
<1>10. Arranged(fbp', index', i, k)
  BY <1>7, <1>8, <1>9 DEF Arranged, m
<1>11. \A j \in 0 .. i - 1 : j \in 0 .. m - 1
  BY <1>1, <1>2, <1>4
<1> QED BY <1>3, <1>6, <1>10, <1>11

(* A block is in one place of a new group. *)
LEMMA PickedIn ==
    ASSUME NEW n \in Nat, NEW g \in [1 .. n -> Blocks], IsInjective(g), NEW i \in 1 .. n
    PROVE  (CHOOSE k \in DOMAIN g : g[k] = g[i]) = i
BY DEF IsInjective

(* expand adds a group of free blocks at the end. *)
LEMMA ExpandEffect ==
    ASSUME PoolAssumption, PoolInv, NEW g \in Fresh
    PROVE  LET f == Expanded(g).fbp
           IN  /\ Arranged(f, Expanded(g).index, fbi, nrgrp + 1)
               /\ \A j \in 0 .. PoolSize - 1 : f[j] = fbp[j]
<1> DEFINE f == Expanded(g).fbp
           ix == Expanded(g).index
           n == PoolSize
           G == GroupSize
<1>1. /\ G \in Nat \ {0} /\ nrgrp \in Nat /\ fbi \in 0 .. n /\ fbp \in [0 .. n - 1 -> Blocks]
      /\ \A j \in 0 .. n - 1 : fbp[j] \in DOMAIN index /\ index[fbp[j]] = j
  BY DEF PoolAssumption, PoolInv, Arranged, PoolSize
<1>2. n \in Nat /\ (nrgrp + 1) * G = n + G
  BY <1>1, Groups DEF PoolSize
<1>3. g \in [1 .. G -> Blocks \ DOMAIN index] /\ IsInjective(g)
  BY DEF Fresh
<1>4. f = [i \in 0 .. n + G - 1 |-> IF i < n THEN fbp[i] ELSE g[i - n + 1]]
  BY DEF Expanded
<1>5. ix = [b \in DOMAIN index \union ToSet(g) |->
              IF b \in DOMAIN index THEN index[b] ELSE n + (CHOOSE i \in DOMAIN g : g[i] = b) - 1]
  BY DEF Expanded
<1>6. ToSet(g) = {g[i] : i \in 1 .. G}
  <2>1. Len(g) = G
    BY <1>1, <1>3
  <2> QED BY <2>1 DEF ToSet
<1>7. \A i \in 1 .. G : (CHOOSE k \in DOMAIN g : g[k] = g[i]) = i
  <2>1. g \in [1 .. G -> Blocks]
    BY <1>3
  <2> QED BY <1>1, <1>3, <2>1, PickedIn
<1> HIDE DEF f, ix, n, G
<1>8. \A j \in 0 .. n + G - 1 : (j \in 0 .. n - 1 /\ j < n) \/ (j - n + 1 \in 1 .. G /\ ~(j < n))
  BY <1>1, <1>2
<1>9. \A j \in 0 .. n - 1 : j \in 0 .. n + G - 1 /\ f[j] = fbp[j]
  BY <1>1, <1>2, <1>4
<1>10. f \in [0 .. n + G - 1 -> Blocks]
  <2>1. \A j \in 0 .. n + G - 1 : (IF j < n THEN fbp[j] ELSE g[j - n + 1]) \in Blocks
    BY <1>1, <1>3, <1>8
  <2> QED BY <1>4, <2>1
<1>11. \A j \in 0 .. n + G - 1 : f[j] \in DOMAIN ix /\ ix[f[j]] = j
  <2> TAKE j \in 0 .. n + G - 1
  <2>1. CASE j \in 0 .. n - 1
    <3>1. f[j] = fbp[j] /\ fbp[j] \in DOMAIN index /\ index[fbp[j]] = j
      BY <1>1, <1>9, <2>1
    <3> QED BY <1>5, <3>1
  <2>2. CASE j - n + 1 \in 1 .. G /\ ~(j < n)
    <3> DEFINE i == j - n + 1
    <3>1. i \in 1 .. G /\ f[j] = g[i] /\ n + i - 1 = j
      BY <1>2, <1>4, <2>2
    <3> HIDE DEF i
    <3>2. g[i] \notin DOMAIN index /\ g[i] \in ToSet(g)
      BY <1>3, <1>6, <3>1
    <3>3. g[i] \in DOMAIN ix /\ ix[g[i]] = n + (CHOOSE k \in DOMAIN g : g[k] = g[i]) - 1
      BY <1>5, <3>2
    <3>4. (CHOOSE k \in DOMAIN g : g[k] = g[i]) = i
      BY <1>7, <3>1
    <3>5. n + (CHOOSE k \in DOMAIN g : g[k] = g[i]) - 1 = j
      BY <3>1, <3>4
    <3> QED BY <3>1, <3>3, <3>5
  <2> QED BY <1>8, <2>1, <2>2
<1>12. nrgrp + 1 \in Nat /\ fbi \in 0 .. n + G
  BY <1>1, <1>2
<1>13. Arranged(f, ix, fbi, nrgrp + 1)
  <2> DEFINE N == (nrgrp + 1) * GroupSize
  <2>1. N = n + G
    BY <1>2 DEF G
  <2> HIDE DEF N
  <2>2. /\ f \in [0 .. N - 1 -> Blocks] /\ fbi \in 0 .. N
        /\ \A j \in DOMAIN f : f[j] \in DOMAIN ix /\ ix[f[j]] = j
    <3>1. DOMAIN f = 0 .. n + G - 1
      BY <1>10
    <3>2. f \in [0 .. N - 1 -> Blocks] /\ fbi \in 0 .. N
      <4>1. 0 .. N - 1 = 0 .. n + G - 1 /\ 0 .. N = 0 .. n + G
        BY <1>1, <1>2, <2>1
      <4> QED BY <1>10, <1>12, <4>1, Zenon
    <3>3. \A j \in DOMAIN f : f[j] \in DOMAIN ix /\ ix[f[j]] = j
      BY <1>11, <3>1
    <3> QED BY <3>2, <3>3
  <2> QED BY <1>12, <2>2 DEF Arranged, N
<1> QED BY <1>9, <1>13 DEF f, ix, n

(* The blocks in use after a block more, or less, is used. *)
LEMMA UsedBlocks ==
    ASSUME NEW f, NEW i \in Nat
    PROVE  {f[j] : j \in 0 .. (i + 1) - 1} = {f[j] : j \in 0 .. i - 1} \union {f[i]}
<1>1. \A j \in 0 .. (i + 1) - 1 : j \in 0 .. i - 1 \/ j = i
  OBVIOUS
<1>2. \A j \in 0 .. i - 1 : j \in 0 .. (i + 1) - 1
  OBVIOUS
<1>3. i \in 0 .. (i + 1) - 1
  OBVIOUS
<1> QED BY <1>1, <1>2, <1>3

(* ymempool_get takes the first free block, after an expansion if need be. *)
LEMMA GetKeeps ==
    ASSUME PoolAssumption, PoolInv, GetBlock
    PROVE  PoolInv'
<1>1. /\ nrgrp \in Nat /\ fbi \in 0 .. PoolSize /\ PoolSize \in Nat
      /\ Arranged(fbp, index, fbi, nrgrp) /\ held = {fbp[i] : i \in 0 .. fbi - 1}
  BY Groups DEF PoolInv, Arranged, PoolSize
<1>2. fbi \in Nat
  BY <1>1
<1>3. CASE /\ fbi < PoolSize /\ held' = held \union {fbp[fbi]} /\ fbi' = fbi + 1
           /\ UNCHANGED <<fbp, nrgrp, index>>
  <2>1. fbi + 1 \in 0 .. nrgrp * GroupSize
    BY <1>1, <1>3 DEF PoolSize
  <2>2. Arranged(fbp, index, fbi + 1, nrgrp)
    BY <1>1, <2>1 DEF Arranged
  <2>3. Arranged(fbp', index', fbi', nrgrp')
    BY <1>3, <2>2
  <2>4. held' = {fbp'[i] : i \in 0 .. fbi' - 1}
    BY <1>1, <1>2, <1>3, UsedBlocks
  <2> QED BY <2>3, <2>4 DEF PoolInv, Arranged
<1>4. CASE fbi >= PoolSize
  <2>1. PICK g \in Fresh :
          /\ fbp' = Expanded(g).fbp /\ index' = Expanded(g).index /\ nrgrp' = nrgrp + 1
          /\ fbi' = fbi + 1 /\ held' = held \union {fbp'[fbi]}
    BY <1>1, <1>4 DEF GetBlock
  <2>2. Arranged(fbp', index', fbi, nrgrp') /\ \A j \in 0 .. PoolSize - 1 : fbp'[j] = fbp[j]
    BY <2>1, ExpandEffect
  <2>3. fbi = PoolSize
    BY <1>1, <1>4
  <2>4. fbi + 1 \in 0 .. nrgrp' * GroupSize
    <3>1. nrgrp' * GroupSize = PoolSize + GroupSize /\ GroupSize \in Nat \ {0}
      BY <1>1, <2>1, Groups DEF PoolSize, PoolAssumption
    <3> QED BY <1>1, <2>3, <3>1
  <2>5. Arranged(fbp', index', fbi', nrgrp')
    BY <2>1, <2>2, <2>4 DEF Arranged
  <2>6. held = {fbp'[i] : i \in 0 .. fbi - 1}
    BY <1>1, <2>2, <2>3
  <2>7. held' = {fbp'[i] : i \in 0 .. fbi' - 1}
    BY <1>2, <2>1, <2>6, UsedBlocks
  <2> QED BY <2>5, <2>7 DEF PoolInv, Arranged
<1> QED BY <1>1, <1>3, <1>4 DEF GetBlock

(* ymempool_put swaps the block with the last one in use, and their indices. *)
LEMMA PutKeeps ==
    ASSUME PoolAssumption, PoolInv, NEW b \in Blocks, PutBlock(b)
    PROVE  PoolInv'
<1> DEFINE last1 == fbp[fbi - 1]
           f == [fbp EXCEPT ![fbi - 1] = b, ![index[b]] = last1]
           ix == NewIndex(b, last1)
           i == fbi - 1
           n == nrgrp * GroupSize
<1>1. /\ nrgrp \in Nat /\ fbi \in 0 .. n /\ n \in Nat /\ fbp \in [0 .. n - 1 -> Blocks]
      /\ \A j \in 0 .. n - 1 : fbp[j] \in DOMAIN index /\ index[fbp[j]] = j
      /\ held = {fbp[j] : j \in 0 .. fbi - 1}
  <2>1. nrgrp \in Nat /\ nrgrp \in 0 .. nrgrp
    BY DEF PoolInv, Arranged
  <2>2. n \in Nat
    BY <2>1, Groups
  <2> QED BY <2>2 DEF PoolInv, Arranged
<1>2. /\ b \in held /\ fbi' = i /\ held' = held \ {b}
      /\ \/ Shrink(f, ix, i, 1)
         \/ fbp' = f /\ index' = ix /\ nrgrp' = nrgrp
  BY DEF PutBlock
<1>3. PICK k \in 0 .. fbi - 1 : b = fbp[k]
  BY <1>1, <1>2
<1>4. i \in 0 .. n - 1 /\ k \in 0 .. n - 1 /\ i \in 0 .. n /\ i \in Nat /\ k <= i
  BY <1>1, <1>3
<1>5. index[b] = k /\ b \in DOMAIN index /\ last1 \in DOMAIN index /\ index[last1] = i
      /\ last1 \in Blocks
  BY <1>1, <1>3, <1>4
<1>6. ix = [index EXCEPT ![b] = i, ![last1] = k]
  BY <1>5 DEF NewIndex, Swapped
<1>7. f = [fbp EXCEPT ![i] = b, ![k] = last1]
  BY <1>5
<1>8. last1 = fbp[i]
  OBVIOUS
<1> HIDE DEF f, ix, i, n, last1
<1>9. /\ f \in [0 .. n - 1 -> Blocks] /\ f[k] = last1 /\ (i # k => f[i] = b)
      /\ \A j \in 0 .. n - 1 : j # k /\ j # i => f[j] = fbp[j]
  BY <1>1, <1>4, <1>5, <1>7
<1>10. /\ DOMAIN ix = DOMAIN index /\ ix[last1] = k /\ (b # last1 => ix[b] = i)
       /\ \A c \in DOMAIN index : c # b /\ c # last1 => ix[c] = index[c]
  BY <1>5, <1>6
<1>11. \A j \in 0 .. n - 1 : f[j] \in DOMAIN ix /\ ix[f[j]] = j
  <2> TAKE j \in 0 .. n - 1
  <2>1. CASE j = k
    BY <1>5, <1>9, <1>10, <2>1
  <2>2. CASE j = i /\ j # k
    <3>1. b # last1
      BY <1>3, <1>4, <1>5, <2>2
    <3> QED BY <1>5, <1>9, <1>10, <2>2, <3>1
  <2>3. CASE j # i /\ j # k
    <3>1. f[j] = fbp[j] /\ fbp[j] \in DOMAIN index /\ index[fbp[j]] = j
      BY <1>1, <1>9, <2>3
    <3>2. fbp[j] # b /\ fbp[j] # last1
      BY <1>5, <2>3, <3>1
    <3> QED BY <1>10, <3>1, <3>2
  <2> QED BY <2>1, <2>2, <2>3
<1>12. Arranged(f, ix, i, nrgrp)
  <2>1. DOMAIN f = 0 .. n - 1
    BY <1>9
  <2> QED BY <1>1, <1>4, <1>9, <1>11, <2>1 DEF Arranged, n
<1>13. held' = {f[j] : j \in 0 .. i - 1}
  <2>1. held = {fbp[j] : j \in 0 .. i}
    BY <1>1 DEF i
  <2>2. \A j, h \in 0 .. i : fbp[j] = fbp[h] => j = h
    <3>1. \A j \in 0 .. i : j \in 0 .. n - 1
      BY <1>1, <1>4
    <3> QED BY <1>1, <3>1
  <2>3. \A j \in 0 .. i - 1 : j \in 0 .. i /\ j # i /\ j \in 0 .. n - 1
    BY <1>1, <1>4
  <2>4. \A j \in 0 .. i : j = i \/ j \in 0 .. i - 1
    BY <1>4
  <2>5. k \in 0 .. i /\ i \in 0 .. i
    BY <1>3, <1>4
  <2>6. \A j \in 0 .. i - 1 : f[j] \in held \ {b}
    <3> TAKE j \in 0 .. i - 1
    <3>1. CASE j = k
      <4>1. f[j] = fbp[i] /\ i # k
        BY <1>8, <1>9, <2>3, <3>1
      <4> QED BY <1>3, <2>1, <2>2, <2>5, <4>1
    <3>2. CASE j # k
      <4>1. f[j] = fbp[j]
        BY <1>9, <2>3, <3>2
      <4> QED BY <1>3, <2>1, <2>2, <2>3, <2>5, <3>2, <4>1
    <3> QED BY <3>1, <3>2
  <2>7. \A c \in held \ {b} : \E j \in 0 .. i - 1 : f[j] = c
    <3> TAKE c \in held \ {b}
    <3>1. PICK j \in 0 .. i : fbp[j] = c /\ j # k
      BY <1>3, <2>1
    <3>2. CASE j = i
      <4>1. k \in 0 .. i - 1
        BY <2>4, <2>5, <3>1, <3>2
      <4> QED BY <1>8, <1>9, <3>1, <3>2, <4>1
    <3>3. CASE j # i
      <4>1. j \in 0 .. i - 1
        BY <2>4, <3>3
      <4> QED BY <1>9, <2>3, <3>1, <4>1
    <3> QED BY <3>2, <3>3
  <2> QED BY <1>2, <2>6, <2>7
<1>14. Arranged(fbp', index', i, nrgrp') /\ \A j \in 0 .. i - 1 : fbp'[j] = f[j]
  <2>1. CASE Shrink(f, ix, i, 1)
    <3>1. 1 \in 0 .. 1
      OBVIOUS
    <3> QED BY <1>12, <2>1, <3>1, ShrinkEffect
  <2>2. CASE fbp' = f /\ index' = ix /\ nrgrp' = nrgrp
    BY <1>12, <2>2
  <2> QED BY <1>2, <2>1, <2>2
<1>15. Arranged(fbp', index', fbi', nrgrp')
  BY <1>2, <1>14
<1>16. held' = {fbp'[j] : j \in 0 .. fbi' - 1}
  BY <1>2, <1>13, <1>14
<1> QED BY <1>15, <1>16 DEF PoolInv, Arranged

(* ymempool_shrink leaves the blocks in use alone. *)
LEMMA ShrinkKeeps ==
    ASSUME PoolAssumption, PoolInv, NEW margin \in 0 .. 1, ShrinkNow(margin)
    PROVE  PoolInv'
<1>1. Shrink(fbp, index, fbi, margin) /\ fbi' = fbi /\ held' = held
  BY DEF ShrinkNow
<1>2. Arranged(fbp', index', fbi, nrgrp') /\ \A j \in 0 .. fbi - 1 : fbp'[j] = fbp[j]
  BY <1>1, ShrinkEffect DEF PoolInv
<1>3. Arranged(fbp', index', fbi', nrgrp')
  BY <1>1, <1>2
<1>4. held' = {fbp'[j] : j \in 0 .. fbi' - 1}
  BY <1>1, <1>2 DEF PoolInv
<1> QED BY <1>3, <1>4 DEF PoolInv, Arranged

(* ymempool_create makes one group of free blocks. *)
LEMMA PoolBegins ==
    ASSUME PoolAssumption, PoolInit
    PROVE  PoolInv
<1> DEFINE G == GroupSize
<1>1. G \in Nat \ {0}
  BY DEF PoolAssumption
<1>2. PICK g \in [1 .. G -> Blocks] :
        /\ IsInjective(g) /\ fbp = [i \in 0 .. G - 1 |-> g[i + 1]]
        /\ index = [b \in ToSet(g) |-> (CHOOSE i \in DOMAIN g : g[i] = b) - 1]
        /\ nrgrp = 1 /\ fbi = 0 /\ held = {}
  BY DEF PoolInit
<1>3. ToSet(g) = {g[i] : i \in 1 .. G}
  <2>1. Len(g) = G
    BY <1>1, <1>2
  <2> QED BY <2>1 DEF ToSet
<1>4. nrgrp * GroupSize = G /\ 0 \in 0 .. G
  BY <1>1, <1>2
<1> HIDE DEF G
<1>5. \A j \in 0 .. G - 1 : j + 1 \in 1 .. G /\ fbp[j] = g[j + 1] /\ (j + 1) - 1 = j
  BY <1>1, <1>2
<1>6. fbp \in [0 .. G - 1 -> Blocks] /\ DOMAIN fbp = 0 .. G - 1
  BY <1>2, <1>5
<1>7. \A j \in 0 .. G - 1 : fbp[j] \in DOMAIN index /\ index[fbp[j]] = j
  <2> TAKE j \in 0 .. G - 1
  <2>1. g[j + 1] \in ToSet(g) /\ fbp[j] = g[j + 1]
    BY <1>3, <1>5
  <2>2. (CHOOSE i \in DOMAIN g : g[i] = g[j + 1]) = j + 1
    BY <1>1, <1>2, <1>5, PickedIn
  <2>3. index[g[j + 1]] = (j + 1) - 1
    BY <1>2, <2>1, <2>2
  <2> QED BY <1>2, <1>5, <2>1, <2>3
<1>8. nrgrp \in Nat
  BY <1>2
<1>9. Arranged(fbp, index, fbi, nrgrp)
  BY <1>2, <1>4, <1>6, <1>7, <1>8 DEF Arranged
<1>10. held = {fbp[i] : i \in 0 .. fbi - 1}
  BY <1>2
<1> QED BY <1>9, <1>10 DEF PoolInv

(* As many blocks are in use as the clients hold. *)
LEMMA PoolInvImplies ==
    ASSUME PoolAssumption, PoolInv
    PROVE  BlocksPartitioned
<1>1. /\ fbi \in 0 .. PoolSize /\ fbp \in [0 .. PoolSize - 1 -> Blocks] /\ PoolSize \in Nat
      /\ \A j \in DOMAIN fbp : fbp[j] \in DOMAIN index /\ index[fbp[j]] = j
      /\ held = {fbp[i] : i \in 0 .. fbi - 1}
  BY Groups DEF PoolInv, Arranged, PoolSize
<1>2. Cardinality(held) = fbi
  <2> DEFINE D == 0 .. fbi - 1
             f == [i \in D |-> fbp[i]]
  <2>1. \A i \in D : i \in DOMAIN fbp
    BY <1>1
  <2>2. /\ f \in [D -> held]
        /\ \A i, j \in D : f[i] = f[j] => i = j
        /\ \A b \in held : \E i \in D : f[i] = b
    BY <1>1, <2>1
  <2>3. IsFiniteSet(D) /\ Cardinality(D) = fbi
    <3>1. fbi \in Nat
      BY <1>1
    <3>2. fbi - 1 \in Int /\ 0 \in Int
      BY <3>1
    <3>3. /\ IsFiniteSet(0 .. fbi - 1)
          /\ Cardinality(0 .. fbi - 1) = IF 0 > fbi - 1 THEN 0 ELSE fbi - 1 - 0 + 1
      BY ONLY <3>2, FS_Interval
    <3>4. (IF 0 > fbi - 1 THEN 0 ELSE fbi - 1 - 0 + 1) = fbi
      BY <3>1
    <3> QED BY <3>3, <3>4
  <2> HIDE DEF D, f
  <2>4. ExistsBijection(D, held)
    BY <2>2, BijectionExists
  <2> QED BY <2>3, <2>4, FS_Bijection
<1> QED BY <1>1, <1>2 DEF BlocksPartitioned

(* mempool.c: in any order of gets, puts and shrinks, whatever the group   *)
(* size and the build, the blocks in use are exactly those the clients     *)
(* hold, each once, and every block knows its place in the array.          *)
THEOREM PoolIsPartitioned == PoolSpec => []BlocksPartitioned
<1> USE PoolConstants
<1>1. PoolInit => PoolInv
  BY PoolBegins
<1>2. PoolInv /\ [PoolNext]_poolVars => PoolInv'
  <2> SUFFICES ASSUME PoolInv, [PoolNext]_poolVars PROVE PoolInv'
    OBVIOUS
  <2>1. CASE UNCHANGED poolVars
    BY <2>1 DEF poolVars, PoolInv, Arranged
  <2> QED BY <2>1, GetKeeps, PutKeeps, ShrinkKeeps DEF PoolNext
<1>3. PoolInv => BlocksPartitioned
  BY PoolInvImplies
<1> QED BY <1>1, <1>2, <1>3, PTL DEF PoolSpec

------------------------------------------------------------------------------
(* The start of the library. *)

(* The modules of a stretch of the list. *)
Stretch(a, b) == {hd[i] : i \in a .. b}

LibInv ==
    /\ hd \in Seq(Modules) /\ \A i, j \in 1 .. Len(hd) : hd[i] = hd[j] => i = j
    /\ strange = {}
    /\ phase \in {"loading", "init", "rollback", "failed", "up", "exit", "over"}
    /\ phase \in {"loading", "failed", "over"} => up = {}
    /\ phase = "init" => pos \in 1 .. Len(hd) + 1 /\ up = Stretch(1, pos - 1)
    /\ phase = "rollback" => /\ last \in 1 .. Len(hd) /\ pos \in 1 .. last
                             /\ up = Stretch(pos, last - 1)
    /\ phase = "up" => up = Stretch(1, Len(hd))
    /\ phase = "exit" => pos \in 1 .. Len(hd) + 1 /\ up = Stretch(pos, Len(hd))

(* Initialising the next module makes the stretch longer by one, *)
LEMMA Longer ==
    ASSUME LibInv, NEW a \in 1 .. Len(hd)
    PROVE  /\ Stretch(1, (a + 1) - 1) = Stretch(1, a - 1) \union {hd[a]}
           /\ Stretch(1, a - 1) \intersect {hd[a]} = {}
<1> DEFINE n == Len(hd)
<1>1. n \in Nat /\ \A i, j \in 1 .. n : hd[i] = hd[j] => i = j
  BY DEF LibInv
<1> HIDE DEF n
<1>2. /\ \A i \in 1 .. (a + 1) - 1 : i \in 1 .. a - 1 \/ i = a
      /\ \A i \in 1 .. a - 1 : i \in 1 .. (a + 1) - 1 /\ i # a /\ i \in 1 .. n
      /\ a \in 1 .. (a + 1) - 1 /\ a \in 1 .. n
  BY <1>1 DEF n
<1> QED BY <1>1, <1>2 DEF Stretch

(* exiting the first one makes it shorter by one. *)
LEMMA Shorter ==
    ASSUME LibInv, NEW b \in Nat, b <= Len(hd), NEW a \in 1 .. b
    PROVE  Stretch(a + 1, b) = Stretch(a, b) \ {hd[a]} /\ hd[a] \in Stretch(a, b)
<1> DEFINE n == Len(hd)
<1>1. n \in Nat /\ \A i, j \in 1 .. n : hd[i] = hd[j] => i = j
  BY DEF LibInv
<1>2. b <= n
  OBVIOUS
<1> HIDE DEF n
<1>3. /\ \A i \in a .. b : i \in a + 1 .. b \/ i = a
      /\ \A i \in a + 1 .. b : i \in a .. b /\ i # a /\ i \in 1 .. n
      /\ a \in a .. b /\ a \in 1 .. n
  BY <1>1, <1>2
<1> QED BY <1>1, <1>3 DEF Stretch

(* A stretch that ends before it begins is empty. *)
LEMMA StretchEmpty ==
    ASSUME NEW a \in Int, NEW b \in Int, b < a
    PROVE  Stretch(a, b) = {}
<1>1. \A i \in a .. b : FALSE
  OBVIOUS
<1> QED BY <1>1 DEF Stretch

(* ylib_register_module: a new module comes first, nothing is up. *)
LEMMA RegisterKeeps ==
    ASSUME LibInv, NEW m \in Modules, Register(m)
    PROVE  LibInv'
<1> DEFINE n == Len(hd)
<1>1. /\ phase = "loading" /\ hd' = <<m>> \o hd /\ \A i \in DOMAIN hd : hd[i] # m
      /\ UNCHANGED <<phase, pos, last, up, strange>>
  BY DEF Register
<1>2. /\ hd \in Seq(Modules) /\ n \in Nat /\ DOMAIN hd = 1 .. n
      /\ \A i, j \in 1 .. n : hd[i] = hd[j] => i = j
  BY DEF LibInv
<1>3. hd' \in Seq(Modules) /\ Len(hd') = 1 + n /\ hd'[1] = m
      /\ \A i \in 2 .. n + 1 : hd'[i] = hd[i - 1]
  BY <1>1, <1>2
<1> HIDE DEF n
<1>4. \A i \in 1 .. Len(hd') : i = 1 \/ (i \in 2 .. n + 1 /\ i - 1 \in 1 .. n)
  BY <1>2, <1>3
<1>5. \A i, j \in 1 .. Len(hd') : hd'[i] = hd'[j] => i = j
  <2> SUFFICES ASSUME NEW i \in 1 .. Len(hd'), NEW j \in 1 .. Len(hd'), hd'[i] = hd'[j]
               PROVE  i = j
    OBVIOUS
  <2>1. \A h \in 1 .. n : hd[h] # m
    BY <1>1, <1>2
  <2>2. (i # 1 => hd'[i] = hd[i - 1] /\ i - 1 \in 1 .. n)
        /\ (j # 1 => hd'[j] = hd[j - 1] /\ j - 1 \in 1 .. n)
    BY <1>3, <1>4
  <2>3. i = 1 <=> j = 1
    BY <2>1, <2>2, <1>3
  <2>4. CASE i # 1
    <3>1. i - 1 = j - 1
      BY <2>2, <2>3, <2>4, <1>2
    <3>2. i \in Int /\ j \in Int
      BY <1>3, <1>2
    <3> QED BY <3>1, <3>2
  <2> QED BY <2>3, <2>4
<1> QED BY <1>1, <1>3, <1>5 DEF LibInv

(* The loop of ylib_init: up is what stands before the module it is at. *)
LEMMA StartStepKeeps ==
    ASSUME LibInv, CallInit \/ InitModule \/ ModuleFails \/ InitReturns
    PROVE  LibInv'
<1> DEFINE n == Len(hd)
<1>1. hd' = hd /\ n \in Nat
  BY DEF LibInv, CallInit, InitModule, ModuleFails, InitReturns
<1>2. \A a, b : Stretch(a, b)' = Stretch(a, b)
  BY <1>1 DEF Stretch
<1>3. CASE CallInit
  <2>1. phase' = "init" /\ pos' = 1 /\ up' = {} /\ strange' = {} /\ pos' - 1 = 0
    BY <1>3 DEF CallInit, LibInv
  <2>2. Stretch(1, pos' - 1) = {} /\ 1 \in 1 .. n + 1
    BY <1>1, <2>1, StretchEmpty
  <2> QED BY <1>1, <1>2, <2>1, <2>2 DEF LibInv, Stretch
<1>4. CASE InitModule
  <2>1. /\ phase = "init" /\ phase' = "init" /\ pos' = pos + 1 /\ pos \in 1 .. n
        /\ up = Stretch(1, pos - 1) /\ up' = up \union {hd[pos]}
        /\ strange' = strange \union (up \intersect {hd[pos]}) /\ strange = {}
    BY <1>1, <1>4 DEF InitModule, LibInv
  <2>2. up' = Stretch(1, pos' - 1) /\ strange' = {}
    BY <2>1, Longer
  <2>3. pos' \in 1 .. n + 1
    BY <1>1, <2>1
  <2> QED BY <1>1, <2>1, <2>2, <2>3 DEF LibInv, Stretch
<1>5. CASE ModuleFails
  <2>1. /\ phase = "init" /\ phase' = "rollback" /\ pos' = 1 /\ last' = pos /\ pos \in 1 .. n
        /\ up' = Stretch(1, pos - 1) /\ strange' = {}
    BY <1>1, <1>5 DEF ModuleFails, LibInv
  <2>2. pos' \in 1 .. last'
    BY <1>1, <2>1
  <2> QED BY <1>1, <2>1, <2>2 DEF LibInv, Stretch
<1>6. CASE InitReturns
  <2>1. /\ phase = "init" /\ phase' = "up" /\ pos \in 1 .. n + 1 /\ pos > n
        /\ up' = Stretch(1, pos - 1) /\ strange' = {}
    BY <1>1, <1>6 DEF InitReturns, LibInv
  <2>2. pos - 1 = n
    BY <1>1, <2>1
  <2> QED BY <1>1, <2>1, <2>2 DEF LibInv, Stretch
<1> QED BY <1>3, <1>4, <1>5, <1>6

(* The roll back and ylib_exit: up is what they have not come to yet. *)
LEMMA EndStepKeeps ==
    ASSUME LibInv, Rollback \/ CallExit \/ ExitModule
    PROVE  LibInv'
<1> DEFINE n == Len(hd)
<1>1. hd' = hd /\ n \in Nat /\ strange = {}
  BY DEF LibInv, Rollback, CallExit, ExitModule
<1>2. CASE Rollback
  <2>1. /\ phase = "rollback" /\ last' = last /\ last \in 1 .. n /\ pos \in 1 .. last
        /\ up = Stretch(pos, last - 1)
    BY <1>2 DEF Rollback, LibInv
  <2>2. CASE pos # last
    <3>1. /\ up' = up \ {hd[pos]} /\ strange' = strange \union ({hd[pos]} \ up)
          /\ pos' = pos + 1 /\ phase' = phase
      BY <1>2, <2>2 DEF Rollback, Down
    <3>2. last - 1 \in Nat /\ last - 1 <= n /\ pos \in 1 .. last - 1 /\ pos' \in 1 .. last
      BY <1>1, <2>1, <2>2, <3>1
    <3>3. up' = Stretch(pos', last - 1) /\ strange' = {}
      BY <1>1, <2>1, <3>1, <3>2, Shorter
    <3> QED BY <1>1, <2>1, <3>1, <3>2, <3>3 DEF LibInv, Stretch
  <2>3. CASE pos = last
    <3>1. phase' = "failed" /\ up' = up /\ strange' = {}
      BY <1>1, <1>2, <2>3 DEF Rollback
    <3>2. up = {}
      BY <1>1, <2>1, <2>3, StretchEmpty
    <3> QED BY <1>1, <3>1, <3>2 DEF LibInv
  <2> QED BY <2>2, <2>3
<1>3. CASE CallExit
  <2>1. phase' = "exit" /\ pos' = 1 /\ up' = Stretch(1, n) /\ strange' = {}
    BY <1>1, <1>3 DEF CallExit, LibInv
  <2>2. 1 \in 1 .. n + 1
    BY <1>1
  <2> QED BY <1>1, <2>1, <2>2 DEF LibInv, Stretch
<1>4. CASE ExitModule
  <2>1. phase = "exit" /\ pos \in 1 .. n + 1 /\ up = Stretch(pos, n)
    BY <1>4 DEF ExitModule, LibInv
  <2>2. CASE pos <= n
    <3>1. /\ up' = up \ {hd[pos]} /\ strange' = strange \union ({hd[pos]} \ up)
          /\ pos' = pos + 1 /\ phase' = phase
      BY <1>4, <2>2 DEF ExitModule, Down
    <3>2. n <= n /\ pos \in 1 .. n /\ pos' \in 1 .. n + 1
      BY <1>1, <2>1, <2>2, <3>1
    <3>3. up' = Stretch(pos', n) /\ strange' = {}
      BY <1>1, <2>1, <3>1, <3>2, Shorter
    <3> QED BY <1>1, <2>1, <3>1, <3>2, <3>3 DEF LibInv, Stretch
  <2>3. CASE ~(pos <= n)
    <3>1. phase' = "over" /\ up' = up /\ strange' = {}
      BY <1>1, <1>4, <2>3 DEF ExitModule
    <3>2. up = {}
      BY <1>1, <2>1, <2>3, StretchEmpty
    <3> QED BY <1>1, <3>1, <3>2 DEF LibInv
  <2> QED BY <2>2, <2>3
<1> QED BY <1>2, <1>3, <1>4

(* lib.c: whichever modules there are, whichever of them fails and however *)
(* often the start is tried again, the library is up as a whole or not at  *)
(* all, and no module is initialised twice or exited when it is not up.    *)
THEOREM LibraryStartsWhole == LibSpec => []AllOrNothing
<1>1. InitLib => LibInv
  BY DEF InitLib, LibInv
<1>2. LibInv /\ [NextLib]_libVars => LibInv'
  <2> SUFFICES ASSUME LibInv, [NextLib]_libVars PROVE LibInv'
    OBVIOUS
  <2>1. CASE UNCHANGED libVars
    BY <2>1 DEF libVars, LibInv, Stretch
  <2> QED BY <2>1, RegisterKeeps, StartStepKeeps, EndStepKeeps DEF NextLib
<1>3. LibInv => AllOrNothing
  <2> SUFFICES ASSUME LibInv PROVE AllOrNothing
    OBVIOUS
  <2>1. DOMAIN hd = 1 .. Len(hd)
    BY DEF LibInv
  <2> QED BY <2>1 DEF LibInv, AllOrNothing, Stretch
<1> QED BY <1>1, <1>2, <1>3, PTL DEF LibSpec

-----------------------------------------------------------------------------
(* Descriptors. *)
FdTypes ==
    /\ pipe \in Seq(Bytes) /\ text \in Seq(Bytes) /\ buf \in Seq(Bytes)
    /\ given \in Seq(Bytes) /\ returned \in Seq(Bytes)
    /\ rest \in Nat /\ rest <= Len(text) /\ bufsz \in Nat /\ lost \in Nat
    /\ short \in BOOLEAN /\ garbled \in BOOLEAN
    /\ bufsz = 0 => buf = <<>>
    /\ bufsz > 0 => Len(buf) < bufsz

(* Every byte given is returned, lost, read, in the pipe or to be written. *)
CountOf(r, l, b, p, s, g) == Len(r) + l + Len(b) + Len(p) + s = Len(g)
CountsBytes == ~garbled => CountOf(returned, lost, buf, pipe, rest, given)

(* What is left of a text is all of it or nothing, and what was given is    *)
(* what was returned, read and written, and that.                           *)
ToWrite(s, t) == IF s = 0 THEN <<>> ELSE t
FollowsOn ==
    ~garbled /\ ~short /\ lost = 0 =>
      /\ rest \in {0, Len(text)}
      /\ given = ((returned \o buf) \o pipe) \o ToWrite(rest, text)

FdInv == FdTypes /\ CountsBytes /\ FollowsOn

(* Bytes regroup. *)
LEMMA Regroup ==
    ASSUME NEW s \in Seq(Bytes), NEW t \in Seq(Bytes), NEW u \in Seq(Bytes)
    PROVE  (s \o t) \o u = s \o (t \o u)
BY ConcatAssociative

(* write_to_fd_fmt: formatting begins a text, that of the caller or garbage. *)
LEMMA FormatKeeps ==
    ASSUME FdAssumption, FdInv, NEW t \in Texts, Format(t)
    PROVE  FdInv'
<1>1. PICK f \in Formatted(t) :
           /\ text' = f /\ rest' = Len(f)
           /\ given' = given \o t
           /\ garbled' = (garbled \/ f # t)
  BY DEF Format
<1>2. t \in Seq(Bytes) /\ f \in Seq(Bytes)
  BY <1>1 DEF Formatted, FdAssumption
<1>3. rest = 0 /\ UNCHANGED <<pipe, short, buf, bufsz, returned, lost>>
  BY DEF Format, reader
<1>4. given' \in Seq(Bytes) /\ Len(given') = Len(given) + Len(t)
  BY <1>1, <1>2 DEF FdInv, FdTypes
<1>5. FdTypes'
  BY <1>1, <1>2, <1>3, <1>4 DEF FdInv, FdTypes
<1>6. CountsBytes'
  <2>1. CASE garbled'
    BY <2>1 DEF CountsBytes
  <2>2. CASE ~garbled'
    <3>1. ~garbled /\ f = t
      BY <1>1, <2>2
    <3>2. Len(returned) + lost + Len(buf) + Len(pipe) + 0 = Len(given)
      BY <3>1, <1>3 DEF FdInv, CountsBytes, CountOf
    <3>3. Len(returned) \in Nat /\ lost \in Nat /\ Len(buf) \in Nat /\ Len(pipe) \in Nat
          /\ Len(t) \in Nat
      BY <1>2 DEF FdInv, FdTypes
    <3>4. Len(returned) + lost + Len(buf) + Len(pipe) + Len(t) = Len(given')
      BY <3>2, <3>3, <1>4
    <3> QED BY <3>4, <3>1, <1>1, <1>3 DEF CountsBytes, CountOf
  <2> QED BY <2>1, <2>2
<1>7. FollowsOn'
  <2> SUFFICES ASSUME ~garbled', ~short', lost' = 0
               PROVE  /\ rest' \in {0, Len(text')}
                      /\ given' = ((returned' \o buf') \o pipe') \o ToWrite(rest', text')
    BY DEF FollowsOn
  <2>1. ~garbled /\ f = t /\ given = ((returned \o buf) \o pipe) \o <<>>
    BY <1>1, <1>3 DEF FdInv, FollowsOn, ToWrite
  <2> DEFINE q == (returned \o buf) \o pipe
  <2>2. q \in Seq(Bytes)
    BY DEF FdInv, FdTypes
  <2>3. given = q
    BY <2>1, <2>2, ConcatEmptySeq
  <2>4. ToWrite(rest', text') = t
    BY <1>1, <1>2, <2>1 DEF ToWrite
  <2> QED BY <2>1, <2>3, <2>4, <1>1, <1>3
<1> QED BY <1>5, <1>6, <1>7 DEF FdInv

(* The first n bytes, and the others. *)
LEMMA Cut ==
    ASSUME NEW S, NEW s \in Seq(S), NEW n \in 0 .. Len(s)
    PROVE  /\ SubSeq(s, 1, n) \in Seq(S) /\ Len(SubSeq(s, 1, n)) = n
           /\ SubSeq(s, n + 1, Len(s)) \in Seq(S)
           /\ Len(SubSeq(s, n + 1, Len(s))) = Len(s) - n
           /\ SubSeq(s, 1, n) \o SubSeq(s, n + 1, Len(s)) = s
<1>1. Len(s) \in Nat /\ \A i \in 1 .. Len(s) : s[i] \in S
  OBVIOUS
<1>2. SubSeq(s, 1, n) \in Seq(S) /\ Len(SubSeq(s, 1, n)) = n
  BY <1>1, SubSeqProperties
<1>3. /\ SubSeq(s, n + 1, Len(s)) \in Seq(S)
      /\ Len(SubSeq(s, n + 1, Len(s))) = Len(s) - n
  <2>1. n + 1 \in Int /\ Len(s) \in Int /\ \A i \in n + 1 .. Len(s) : s[i] \in S
    BY <1>1
  <2>2. /\ SubSeq(s, n + 1, Len(s)) \in Seq(S)
        /\ Len(SubSeq(s, n + 1, Len(s)))
             = IF n + 1 <= Len(s) THEN Len(s) - (n + 1) + 1 ELSE 0
    BY <2>1, SubSeqProperties
  <2> QED BY <1>1, <2>2
<1>4. SubSeq(s, 1, n) \o SubSeq(s, n + 1, Len(s)) = SubSeq(s, 1, Len(s))
  <2>1. 1 \in 1 .. Len(s) + 1 /\ n \in 1 - 1 .. Len(s) /\ Len(s) \in n .. Len(s)
    BY <1>1
  <2> QED BY <2>1, ConcatAdjacentSubSeq
<1>5. SubSeq(s, 1, Len(s)) = s
  BY SubSeqFull
<1> QED BY <1>2, <1>3, <1>4, <1>5

(* A write moves the beginning of the text into the pipe: what it does not  *)
(* take is written again from the beginning (garbled), or nothing is left.  *)
LEMMA WriteKeeps ==
    ASSUME FdInv, NEW n \in 1 .. PipeSize, WriteSome(n)
    PROVE  FdInv'
<1> DEFINE m == SubSeq(text, 1, n)
<1>1. /\ n \in 1 .. rest /\ pipe' = pipe \o m /\ rest' = rest - n
      /\ short' = (short \/ n < rest)
      /\ UNCHANGED <<text, given, garbled, buf, bufsz, returned, lost>>
  BY DEF WriteSome, reader
<1>2. rest \in Nat /\ rest <= Len(text) /\ text \in Seq(Bytes) /\ Len(text) \in Nat
  BY DEF FdInv, FdTypes
<1>3. m \in Seq(Bytes) /\ Len(m) = n
  BY <1>1, <1>2, Cut
<1>4. rest' \in Nat /\ rest' <= Len(text)
  BY <1>1, <1>2
<1>5. pipe' \in Seq(Bytes) /\ Len(pipe') = Len(pipe) + n
  BY <1>1, <1>3 DEF FdInv, FdTypes
<1>6. FdTypes'
  BY <1>1, <1>4, <1>5 DEF FdInv, FdTypes
<1>7. CountsBytes'
  <2> SUFFICES ASSUME ~garbled PROVE CountsBytes'
    BY <1>1 DEF CountsBytes
  <2>1. Len(returned) + lost + Len(buf) + Len(pipe) + rest = Len(given)
    BY DEF FdInv, CountsBytes, CountOf
  <2>2. Len(returned) \in Nat /\ lost \in Nat /\ Len(buf) \in Nat /\ Len(pipe) \in Nat
        /\ Len(given) \in Nat
    BY DEF FdInv, FdTypes
  <2>3. Len(returned) + lost + Len(buf) + Len(pipe') + rest' = Len(given)
    <3>1. Len(pipe') = Len(pipe) + n /\ rest' = rest - n /\ n \in Nat /\ rest \in Nat
      BY <1>1, <1>2, <1>5
    <3> QED BY <2>1, <2>2, <3>1
  <2> QED BY <2>3, <1>1 DEF CountsBytes, CountOf
<1>8. FollowsOn'
  <2> SUFFICES ASSUME ~garbled', ~short', lost' = 0
               PROVE  /\ rest' \in {0, Len(text')}
                      /\ given' = ((returned' \o buf') \o pipe') \o ToWrite(rest', text')
    BY DEF FollowsOn
  <2>1. ~garbled /\ ~short /\ lost = 0 /\ ~(n < rest)
    BY <1>1
  <2>2. n = rest /\ rest # 0
    BY <2>1, <1>1, <1>2
  <2>3. rest = Len(text) /\ given = ((returned \o buf) \o pipe) \o text
    BY <2>1, <2>2 DEF FdInv, FollowsOn, ToWrite
  <2>4. m = text
    BY <2>2, <2>3, <1>2, SubSeqFull
  <2>5. rest' = 0
    BY <2>2, <1>1, <1>2
  <2> DEFINE q == returned \o buf
  <2>6. q \in Seq(Bytes) /\ pipe \in Seq(Bytes)
    BY DEF FdInv, FdTypes
  <2>7. (q \o pipe) \o text = q \o (pipe \o text)
    <3> HIDE DEF q
    <3> QED BY <2>6, <1>2, Regroup
  <2>8. q \o (pipe \o text) \in Seq(Bytes)
    BY <2>6, <1>2
  <2>9. (q \o (pipe \o text)) \o <<>> = q \o (pipe \o text)
    BY <2>8, ConcatEmptySeq
  <2>10. ToWrite(rest', text') = <<>>
    BY <2>5 DEF ToWrite
  <2> QED BY <1>1, <2>3, <2>4, <2>5, <2>7, <2>9, <2>10
<1> QED BY <1>6, <1>7, <1>8 DEF FdInv

(* A write that fails takes back what was not written.                      *)
LEMMA WriteFailureKeeps ==
    ASSUME FdInv, WriteFails
    PROVE  FdInv'
<1> DEFINE h == SubSeq(given, 1, Len(given) - rest)
<1>1. /\ rest > 0 /\ rest' = 0 /\ given' = h
      /\ UNCHANGED <<pipe, text, short, garbled, buf, bufsz, returned, lost>>
  BY DEF WriteFails, reader
<1>2. /\ rest \in Nat /\ given \in Seq(Bytes) /\ Len(given) \in Nat
      /\ returned \in Seq(Bytes) /\ buf \in Seq(Bytes) /\ pipe \in Seq(Bytes)
      /\ text \in Seq(Bytes) /\ lost \in Nat /\ rest <= Len(text)
  BY DEF FdInv, FdTypes
<1>3. h \in Seq(Bytes) /\ (rest <= Len(given) => Len(h) = Len(given) - rest)
  <2>1. Len(given) - rest \in Int /\ \A i \in 1 .. Len(given) - rest : given[i] \in Bytes
    BY <1>2
  <2>2. /\ h \in Seq(Bytes)
        /\ Len(h) = IF 1 <= Len(given) - rest THEN Len(given) - rest - 1 + 1 ELSE 0
    BY <2>1, SubSeqProperties
  <2> HIDE DEF h
  <2> QED BY <2>2, <1>2
<1>4. FdTypes'
  BY <1>1, <1>2, <1>3 DEF FdInv, FdTypes
<1>5. CountsBytes'
  <2> SUFFICES ASSUME ~garbled PROVE CountsBytes'
    BY <1>1 DEF CountsBytes
  <2>1. Len(returned) + lost + Len(buf) + Len(pipe) + rest = Len(given)
    BY DEF FdInv, CountsBytes, CountOf
  <2>2. Len(returned) \in Nat /\ Len(buf) \in Nat /\ Len(pipe) \in Nat
    BY <1>2
  <2> HIDE DEF h
  <2>3. Len(h) = Len(given) - rest
    BY <2>1, <2>2, <1>2, <1>3
  <2>4. Len(returned) + lost + Len(buf) + Len(pipe) + 0 = Len(h)
    BY <2>1, <2>2, <2>3, <1>2
  <2> QED BY <2>4, <1>1 DEF CountsBytes, CountOf
<1>6. FollowsOn'
  <2> SUFFICES ASSUME ~garbled', ~short', lost' = 0
               PROVE  /\ rest' \in {0, Len(text')}
                      /\ given' = ((returned' \o buf') \o pipe') \o ToWrite(rest', text')
    BY DEF FollowsOn
  <2> DEFINE q == (returned \o buf) \o pipe
  <2>1. rest = Len(text) /\ given = q \o text
    <3>1. ~garbled /\ ~short /\ lost = 0 /\ rest # 0
      BY <1>1, <1>2
    <3> QED BY <3>1 DEF FdInv, FollowsOn, ToWrite
  <2>2. q \in Seq(Bytes)
    BY <1>2
  <2> HIDE DEF q, h
  <2>3. Len(q) \in Nat /\ Len(given) = Len(q) + Len(text) /\ Len(text) \in Nat
    BY <2>1, <2>2, <1>2
  <2>4. h = SubSeq(q \o text, 1, Len(q))
    BY <2>1, <2>3, <1>2 DEF h
  <2>5. SubSeq(q \o text, 1, Len(q)) = q
    <3>1. CASE Len(q) = 0
      BY <3>1, <2>2, SubSeqEmpty, EmptySeq
    <3>2. CASE Len(q) # 0
      <4>1. 1 \in 1 .. Len(q) /\ Len(q) \in 1 .. Len(q)
        BY <3>2, <2>3
      <4>2. SubSeq(q \o text, 1, Len(q)) = SubSeq(q, 1, Len(q))
        BY <4>1, <2>2, <1>2, SubSeqOfConcat1
      <4> QED BY <4>2, <2>2, SubSeqFull
    <3> QED BY <3>1, <3>2
  <2>6. q \o <<>> = q
    BY <2>2, ConcatEmptySeq
  <2>7. ToWrite(rest', text') = <<>>
    BY <1>1 DEF ToWrite
  <2>8. given' = q \o ToWrite(rest', text')
    BY <1>1, <2>4, <2>5, <2>6, <2>7
  <2> QED BY <2>8, <1>1 DEF q
<1> QED BY <1>4, <1>5, <1>6 DEF FdInv

(* d and p are the bytes of the buffer and of the pipe. *)
SameBytes(d, p) == d \o p = buf \o pipe /\ Len(d) + Len(p) = Len(buf) + Len(pipe)

(* What a read returns, its bytes joining those returned before. *)
LEMMA ReturnKeeps ==
    ASSUME FdInv, NEW p \in Seq(Bytes), NEW d \in Seq(Bytes),
           SameBytes(d, p),
           Returns(d), pipe' = p, UNCHANGED writer
    PROVE  FdInv'
<1>1. /\ buf' = <<>> /\ bufsz' = 0 /\ returned' = returned \o d
      /\ UNCHANGED <<text, rest, given, short, garbled, lost>>
  BY DEF Returns, writer
<1>2. /\ rest \in Nat /\ given \in Seq(Bytes)
      /\ returned \in Seq(Bytes) /\ buf \in Seq(Bytes) /\ pipe \in Seq(Bytes)
      /\ text \in Seq(Bytes) /\ lost \in Nat /\ rest <= Len(text)
  BY DEF FdInv, FdTypes
<1>3. returned' \in Seq(Bytes) /\ Len(returned') = Len(returned) + Len(d)
  BY <1>1, <1>2
<1>4. FdTypes'
  BY <1>1, <1>2, <1>3 DEF FdInv, FdTypes
<1>5. CountsBytes'
  <2> SUFFICES ASSUME ~garbled PROVE CountsBytes'
    BY <1>1 DEF CountsBytes
  <2>1. Len(returned) + lost + Len(buf) + Len(pipe) + rest = Len(given)
    BY DEF FdInv, CountsBytes, CountOf
  <2>2. /\ Len(returned) \in Nat /\ Len(buf) \in Nat /\ Len(pipe) \in Nat
        /\ Len(d) \in Nat /\ Len(p) \in Nat /\ Len(given) \in Nat
    BY <1>2
  <2>3. Len(returned') + lost + 0 + Len(p) + rest = Len(given)
    <3>1. Len(returned') = Len(returned) + Len(d) /\ lost \in Nat /\ rest \in Nat
      BY <1>2, <1>3
    <3>2. Len(d) + Len(p) = Len(buf) + Len(pipe)
      BY DEF SameBytes
    <3> QED BY <2>1, <2>2, <3>1, <3>2
  <2>4. Len(buf') = 0
    BY <1>1
  <2> QED BY <2>3, <2>4, <1>1 DEF CountsBytes, CountOf
<1>6. FollowsOn'
  <2> SUFFICES ASSUME ~garbled', ~short', lost' = 0
               PROVE  /\ rest' \in {0, Len(text')}
                      /\ given' = ((returned' \o buf') \o pipe') \o ToWrite(rest', text')
    BY DEF FollowsOn
  <2>1. /\ rest \in {0, Len(text)}
        /\ given = ((returned \o buf) \o pipe) \o ToWrite(rest, text)
    BY <1>1 DEF FdInv, FollowsOn
  <2>5. returned \in Seq(Bytes) /\ buf \in Seq(Bytes) /\ pipe \in Seq(Bytes)
    BY <1>2
  <2>6. (returned \o buf) \o pipe = returned \o (buf \o pipe)
    BY <2>5, Regroup
  <2>2. (returned \o buf) \o pipe = returned \o (d \o p)
    BY <2>6 DEF SameBytes
  <2>3. returned \o (d \o p) = (returned \o d) \o p
    BY <2>5, Regroup
  <2>4. (returned \o d) \o <<>> = returned \o d
    BY <1>1, <1>3, ConcatEmptySeq
  <2> QED BY <1>1, <2>1, <2>2, <2>3, <2>4
<1> QED BY <1>4, <1>5, <1>6 DEF FdInv

(* A failed read loses what it has. *)
LEMMA LostReadKeeps ==
    ASSUME FdInv, NEW p \in Seq(Bytes), NEW d \in Seq(Bytes),
           SameBytes(d, p),
           Frees(d), pipe' = p, UNCHANGED writer
    PROVE  FdInv'
<1>1. /\ buf' = <<>> /\ bufsz' = 0 /\ lost' = lost + Len(d)
      /\ UNCHANGED <<text, rest, given, short, garbled, returned>>
  BY DEF Frees, writer
<1>2. /\ rest \in Nat /\ given \in Seq(Bytes)
      /\ returned \in Seq(Bytes) /\ buf \in Seq(Bytes) /\ pipe \in Seq(Bytes)
      /\ text \in Seq(Bytes) /\ lost \in Nat /\ rest <= Len(text)
  BY DEF FdInv, FdTypes
<1>3. /\ Len(returned) \in Nat /\ Len(buf) \in Nat /\ Len(pipe) \in Nat
      /\ Len(d) \in Nat /\ Len(p) \in Nat /\ Len(given) \in Nat
  BY <1>2
<1>4. FdTypes'
  BY <1>1, <1>2, <1>3 DEF FdInv, FdTypes
<1>5. CountsBytes'
  <2> SUFFICES ASSUME ~garbled PROVE CountsBytes'
    BY <1>1 DEF CountsBytes
  <2>1. Len(returned) + lost + Len(buf) + Len(pipe) + rest = Len(given)
    BY DEF FdInv, CountsBytes, CountOf
  <2>2. Len(returned) + lost' + 0 + Len(p) + rest = Len(given)
    <3>1. lost' = lost + Len(d) /\ lost \in Nat /\ rest \in Nat
      BY <1>1, <1>2
    <3>2. Len(d) + Len(p) = Len(buf) + Len(pipe)
      BY DEF SameBytes
    <3> QED BY <2>1, <1>3, <3>1, <3>2
  <2>3. Len(buf') = 0
    BY <1>1
  <2> QED BY <2>2, <2>3, <1>1 DEF CountsBytes, CountOf
<1>6. FollowsOn'
  <2> SUFFICES ASSUME ~garbled', ~short', lost' = 0
               PROVE  /\ rest' \in {0, Len(text')}
                      /\ given' = ((returned' \o buf') \o pipe') \o ToWrite(rest', text')
    BY DEF FollowsOn
  <2>1. lost = 0 /\ Len(d) = 0
    BY <1>1, <1>2, <1>3
  <2>2. d = <<>>
    BY <2>1, EmptySeq
  <2>3. p = buf \o pipe
    BY <2>2, ConcatEmptySeq DEF SameBytes
  <2>4. /\ rest \in {0, Len(text)}
        /\ given = ((returned \o buf) \o pipe) \o ToWrite(rest, text)
    BY <1>1, <2>1 DEF FdInv, FollowsOn
  <2>8. returned \in Seq(Bytes) /\ buf \in Seq(Bytes) /\ pipe \in Seq(Bytes)
    BY <1>2
  <2>7. (returned \o buf) \o pipe = returned \o (buf \o pipe)
    BY <2>8, Regroup
  <2>5. (returned \o buf) \o pipe = returned \o p
    BY <2>7, <2>3
  <2>6. returned \o <<>> = returned
    BY <1>2, ConcatEmptySeq
  <2> QED BY <1>1, <2>4, <2>5, <2>6
<1> QED BY <1>4, <1>5, <1>6 DEF FdInv

(* A read moves the beginning of the pipe to the end of the buffer, extended *)
(* or given up with what it holds.                                          *)
LEMMA ReadKeeps ==
    ASSUME FdInv, NEW n \in 1 .. PipeSize, ReadSome(n)
    PROVE  FdInv'
<1> DEFINE m == SubSeq(pipe, 1, n)
           p == SubSeq(pipe, n + 1, Len(pipe))
           d == buf \o m
<1>1. /\ bufsz > 0 /\ n \in 1 .. Len(pipe) /\ n <= bufsz - Len(buf) /\ pipe' = p
      /\ UNCHANGED writer
      /\ IF Len(d) < bufsz THEN Returns(d)
         ELSE \/ Frees(d)
              \/ /\ bufsz * 2 <= MaxReadSize
                 /\ bufsz' = bufsz * 2 /\ buf' = d
                 /\ UNCHANGED <<returned, lost>>
  BY DEF ReadSome, Extended
<1>2. /\ rest \in Nat /\ given \in Seq(Bytes) /\ bufsz \in Nat
      /\ returned \in Seq(Bytes) /\ buf \in Seq(Bytes) /\ pipe \in Seq(Bytes)
      /\ text \in Seq(Bytes) /\ lost \in Nat /\ rest <= Len(text)
  BY DEF FdInv, FdTypes
<1>3. n \in 0 .. Len(pipe) /\ Len(pipe) \in Nat /\ Len(buf) \in Nat
  BY <1>1, <1>2
<1>4. m \in Seq(Bytes) /\ Len(m) = n /\ p \in Seq(Bytes) /\ Len(p) = Len(pipe) - n
  BY <1>2, <1>3, Cut
<1>11. m \o p = pipe
  BY <1>2, <1>3, Cut
<1> HIDE DEF m, p
<1>5. d \in Seq(Bytes) /\ Len(d) = Len(buf) + n
  <2>1. buf \o m \in Seq(Bytes) /\ Len(buf \o m) = Len(buf) + Len(m)
    <3>1. buf \in Seq(Bytes) /\ m \in Seq(Bytes)
      BY <1>2, <1>4
    <3> QED BY <3>1, ConcatProperties
  <2> QED BY <2>1, <1>4
<1>6. d \o p = buf \o pipe
  <2>1. (buf \o m) \o p = buf \o (m \o p)
    BY <1>2, <1>4, Regroup
  <2> QED BY <2>1, <1>11
<1> HIDE DEF d
<1>7. Len(d) + Len(p) = Len(buf) + Len(pipe)
  BY <1>1, <1>3, <1>4, <1>5
<1>12. SameBytes(d, p)
  BY <1>6, <1>7 DEF SameBytes
<1>8. CASE Returns(d)
  BY <1>1, <1>4, <1>5, <1>8, <1>12, ReturnKeeps
<1>9. CASE Frees(d)
  BY <1>1, <1>4, <1>5, <1>9, <1>12, LostReadKeeps
<1>10. CASE /\ bufsz' = bufsz * 2 /\ buf' = d
            /\ UNCHANGED <<returned, lost>>
  <2>1. UNCHANGED <<text, rest, given, short, garbled>>
    BY <1>1 DEF writer
  <2>2. bufsz' \in Nat /\ Len(d) < bufsz' /\ bufsz' > 0
    BY <1>1, <1>2, <1>3, <1>5, <1>10
  <2>3. FdTypes'
    BY <1>1, <1>4, <1>5, <1>10, <2>1, <2>2 DEF FdInv, FdTypes
  <2>4. CountsBytes'
    <3> SUFFICES ASSUME ~garbled PROVE CountsBytes'
      BY <2>1 DEF CountsBytes
    <3>1. Len(returned) + lost + Len(buf) + Len(pipe) + rest = Len(given)
      BY DEF FdInv, CountsBytes, CountOf
    <3>2. Len(returned) \in Nat /\ Len(d) \in Nat /\ Len(p) \in Nat /\ Len(given) \in Nat
      BY <1>2, <1>4, <1>5
    <3>4. lost \in Nat /\ rest \in Nat
      BY <1>2
    <3>3. Len(returned) + lost + Len(d) + Len(p) + rest = Len(given)
      BY <3>1, <3>2, <1>3, <1>7, <3>4
    <3> QED BY <3>3, <2>1, <1>1, <1>10 DEF CountsBytes, CountOf
  <2>5. FollowsOn'
    <3> SUFFICES ASSUME ~garbled', ~short', lost' = 0
                 PROVE  /\ rest' \in {0, Len(text')}
                        /\ given' = ((returned' \o buf') \o pipe') \o ToWrite(rest', text')
      BY DEF FollowsOn
    <3>1. /\ rest \in {0, Len(text)}
          /\ given = ((returned \o buf) \o pipe) \o ToWrite(rest, text)
      BY <2>1, <1>10 DEF FdInv, FollowsOn
    <3>2. (returned \o buf) \o pipe = returned \o (buf \o pipe)
      BY <1>2, Regroup
    <3>4. d \in Seq(Bytes) /\ p \in Seq(Bytes) /\ returned \in Seq(Bytes)
      BY <1>2, <1>4, <1>5
    <3>3. returned \o (d \o p) = (returned \o d) \o p
      BY <3>4, Regroup
    <3> QED BY <1>1, <1>6, <1>10, <2>1, <3>1, <3>2, <3>3
  <2> QED BY <2>3, <2>4, <2>5 DEF FdInv
<1> QED BY <1>1, <1>8, <1>9, <1>10

(* Every step keeps the invariant.                                          *)
LEMMA FdStep ==
    ASSUME FdAssumption, FdInv, [FdNext]_fdVars
    PROVE  FdInv'
<1>1. CASE BeginRead
  BY <1>1 DEF BeginRead, writer, FdInv, FdTypes, CountsBytes, FollowsOn, FdAssumption
<1>2. CASE ReadEnds
  <2>3. SameBytes(buf, pipe)
    BY DEF SameBytes
  <2>1. Returns(buf) /\ pipe' = pipe /\ UNCHANGED writer
    BY <1>2 DEF ReadEnds
  <2>2. buf \in Seq(Bytes) /\ pipe \in Seq(Bytes)
    BY DEF FdInv, FdTypes
  <2> QED BY <2>1, <2>2, <2>3, ReturnKeeps
<1>3. CASE ReadFails
  <2>3. SameBytes(buf, pipe)
    BY DEF SameBytes
  <2>1. Frees(buf) /\ pipe' = pipe /\ UNCHANGED writer
    BY <1>3 DEF ReadFails
  <2>2. buf \in Seq(Bytes) /\ pipe \in Seq(Bytes)
    BY DEF FdInv, FdTypes
  <2> QED BY <2>1, <2>2, <2>3, LostReadKeeps
<1>4. CASE UNCHANGED fdVars
  BY <1>4 DEF fdVars, FdInv, FdTypes, CountsBytes, FollowsOn
<1> QED BY <1>1, <1>2, <1>3, <1>4, FormatKeeps, WriteKeeps, WriteFailureKeeps, ReadKeeps
        DEF FdNext

(* With the writer and the reader done, what was given is what came back.   *)
LEMMA FdInvImplies ==
    ASSUME FdInv
    PROVE  ReadsWhatWasWritten
<1>1. /\ returned \in Seq(Bytes) /\ buf \in Seq(Bytes) /\ pipe \in Seq(Bytes)
      /\ text \in Seq(Bytes) /\ given \in Seq(Bytes)
  BY DEF FdInv, FdTypes
<1>2. Len(buf) <= bufsz
  <2>1. Len(<<>>) = 0
    OBVIOUS
  <2> QED BY <2>1, <1>1 DEF FdInv, FdTypes
<1>3. ~garbled /\ ~short /\ lost = 0 => IsPrefix(returned \o buf \o pipe, given)
  <2> DEFINE q == (returned \o buf) \o pipe
             w == ToWrite(rest, text)
  <2> SUFFICES ASSUME ~garbled, ~short, lost = 0 PROVE IsPrefix(q, given)
    OBVIOUS
  <2>1. q \in Seq(Bytes) /\ w \in Seq(Bytes)
    BY <1>1 DEF ToWrite
  <2>2. given = q \o w
    BY DEF FdInv, FollowsOn
  <2> HIDE DEF q, w
  <2>3. Len(q) \in Nat /\ Len(w) \in Nat /\ Len(given) = Len(q) + Len(w)
    BY <2>1, <2>2
  <2>4. \A i \in 1 .. Len(q) : given[i] = q[i]
    BY <2>1, <2>2, <2>3
  <2>5. DOMAIN q = 1 .. Len(q) /\ DOMAIN given = 1 .. Len(given)
    BY <2>1, <1>1
  <2> QED BY <2>3, <2>4, <2>5 DEF IsPrefix
<1>4. ~garbled => Len(returned) + lost + Len(buf) + Len(pipe) + rest = Len(given)
  BY DEF FdInv, CountsBytes, CountOf
<1> QED BY <1>2, <1>3, <1>4 DEF ReadsWhatWasWritten

(* ut.c, yut_write_to_fd and yut_read_fd_str: whatever pieces the reads and  *)
(* the buffer cut a text into, what is read from the descriptor is what was *)
(* written to it, in order, but for the texts that the property exempts: a  *)
(* short write or a second formatting garbles them.                         *)
THEOREM DescriptorsGiveBack == FdSpec => []ReadsWhatWasWritten
<1> USE FdConstants
<1>1. FdInit => FdInv
  <2> SUFFICES ASSUME FdInit PROVE FdInv
    OBVIOUS
  <2>1. <<>> \in Seq(Bytes) /\ Len(<<>>) = 0
    BY EmptySeq
  <2>2. <<>> \o <<>> = <<>>
    BY <2>1, ConcatEmptySeq
  <2>6. rest <= Len(text)
    BY <2>1 DEF FdInit
  <2>3. FdTypes
    BY <2>1, <2>6 DEF FdInit, FdTypes
  <2>4. CountsBytes
    BY <2>1 DEF FdInit, CountsBytes, CountOf
  <2>5. FollowsOn
    BY <2>2 DEF FdInit, FollowsOn, ToWrite
  <2> QED BY <2>3, <2>4, <2>5 DEF FdInv
<1>2. FdInv /\ [FdNext]_fdVars => FdInv'
  BY FdStep
<1>3. FdInv => ReadsWhatWasWritten
  BY FdInvImplies
<1> QED BY <1>1, <1>2, <1>3, PTL DEF FdSpec

------------------------------------------------------------------------------
(* The regions. *)
(* A set of numbers has a least one. *)
LEMMA LeastNumber ==
    ASSUME NEW T \in SUBSET Nat, T # {}
    PROVE  \E x \in T : \A y \in T : x <= y
<1> DEFINE R == OpToRel(<, Nat)
<1>1. IsWellFoundedOn(R, Nat)
  BY NatLessThanWellFounded
<1>2. \A x, y \in Nat : <<y, x>> \in R <=> y < x
  BY DEF OpToRel
<1> HIDE DEF R
<1>3. PICK x \in T : \A y \in T : ~(<<y, x>> \in R)
  BY <1>1, WFMin
<1>4. \A y \in T : x \in Nat /\ y \in Nat /\ ~(y < x)
  BY <1>2, <1>3
<1> QED BY <1>4

(* What holds of 0, and of the next number when it holds of one, holds up   *)
(* to n.                                                                    *)
LEMMA UpTo ==
    ASSUME NEW n \in Nat, NEW T, 0 \in T,
           \A i \in 0 .. n - 1 : i \in T => i + 1 \in T
    PROVE  0 .. n \subseteq T
<1> DEFINE M == (0 .. n) \ T
<1> SUFFICES ASSUME M # {} PROVE FALSE
  OBVIOUS
<1>1. PICK x \in M : \A y \in M : x <= y
  <2>1. M \in SUBSET Nat
    OBVIOUS
  <2> QED BY <2>1, LeastNumber
<1>2. x # 0 /\ x - 1 \in 0 .. n - 1
  BY <1>1
<1>3. x - 1 \in T
  BY <1>1, <1>2
<1> QED BY <1>1, <1>2, <1>3

Bands == [s : Nat, b : Nat]

(* The x-bands of a row: proper, in order, and apart from each other.        *)
ProperBands(xs) ==
  /\ xs \in Seq(Bands)
  /\ \A j \in 1 .. Len(xs) : xs[j].s < xs[j].b /\ xs[j].b <= Beyond
  /\ \A j, k \in 1 .. Len(xs) : j < k => xs[j].b < xs[k].s
Covered(v, xs) == \E j \in 1 .. Len(xs) : Inside(v, xs[j])
EndsBy(xs, f) == \A j \in 1 .. Len(xs) : xs[j].b <= f
BeginsAt(xs, f) == \A j \in 1 .. Len(xs) : f <= xs[j].s

(* What an operation makes of a point that its operands have or have not.   *)
Combined(op, p, q) == IF op = "union" THEN p \/ q
                      ELSE IF op = "intersect" THEN p /\ q ELSE p /\ ~q

(* How Compared cuts two bands: into what only the first to start has, what *)
(* both have, and what the one that ends last has.                          *)
CutsFor(b0, b1, c) ==
  /\ c.lay.small \in Bands /\ c.lay.both \in Bands /\ c.lay.big \in Bands
  /\ c.first \in BOOLEAN /\ c.bottom0 \in BOOLEAN
  /\ \A v \in Nat : /\ Inside(v, b0) <=> \/ c.first /\ Inside(v, c.lay.small)
                                         \/ Inside(v, c.lay.both)
                                         \/ c.bottom0 /\ Inside(v, c.lay.big)
                    /\ Inside(v, b1) <=> \/ ~c.first /\ Inside(v, c.lay.small)
                                         \/ Inside(v, c.lay.both)
                                         \/ ~c.bottom0 /\ Inside(v, c.lay.big)
                    /\ ~(Inside(v, c.lay.small) /\ Inside(v, c.lay.both))
                    /\ ~(Inside(v, c.lay.small) /\ Inside(v, c.lay.big))
                    /\ ~(Inside(v, c.lay.both) /\ Inside(v, c.lay.big))
CutsInOrder(b0, b1, c) ==
  /\ ~EmptyBand(c.lay.small) =>
       /\ b0.s <= c.lay.small.s \/ b1.s <= c.lay.small.s
       /\ c.lay.small.b <= b0.b /\ c.lay.small.b <= b1.b
       /\ ~EmptyBand(c.lay.both) => c.lay.small.b = c.lay.both.s
       /\ ~EmptyBand(c.lay.big) => c.lay.small.b <= c.lay.big.s
  /\ ~EmptyBand(c.lay.both) =>
       /\ b0.s <= c.lay.both.s /\ b1.s <= c.lay.both.s
       /\ c.lay.both.b <= b0.b /\ c.lay.both.b <= b1.b
       /\ ~EmptyBand(c.lay.big) => c.lay.both.b = c.lay.big.s
  /\ ~EmptyBand(c.lay.big) =>
       IF c.bottom0 THEN c.lay.big.b = b0.b /\ b0.s <= c.lay.big.s /\ b1.b <= c.lay.big.s
       ELSE c.lay.big.b = b1.b /\ b1.s <= c.lay.big.s /\ b0.b <= c.lay.big.s
  /\ EmptyBand(c.lay.big) => b0.b = b1.b

(* The cuts are right.                                                      *)
LEMMA ComparedCuts ==
    ASSUME NEW b0 \in Bands, NEW b1 \in Bands, b0.s < b0.b, b1.s < b1.b
    PROVE  CutsFor(b0, b1, Compared(b0, b1)) /\ CutsInOrder(b0, b1, Compared(b0, b1))
<1> DEFINE c == Compared(b0, b1)
<1>0. b0.s \in Nat /\ b0.b \in Nat /\ b1.s \in Nat /\ b1.b \in Nat
  BY DEF Bands
<1>1. CASE b0.s < b1.s
  <2>1. c = [first |-> b0.s < b1.s, lay |-> Layout(b0, b1),
             bottom0 |-> Layout(b0, b1).subset]
    BY <1>1 DEF Compared
  <2> HIDE DEF c
  <2>2. CASE b0.b <= b1.s
    <3>1. Layout(b0, b1) = [small |-> b0, both |-> Band(0, 0), big |-> b1, subset |-> FALSE]
      BY <2>2 DEF Layout
    <3>2. /\ c.lay.small.s = b0.s /\ c.lay.small.b = b0.b
          /\ c.lay.both.s = 0 /\ c.lay.both.b = 0
          /\ c.lay.big.s = b1.s /\ c.lay.big.b = b1.b
      BY <2>1, <3>1 DEF Band
    <3>3. c.first /\ c.first \in BOOLEAN
      BY <2>1, <1>1
    <3>4. ~c.bottom0 /\ c.bottom0 \in BOOLEAN
      <4>1. Layout(b0, b1).subset = FALSE
        BY <3>1
      <4> QED BY <2>1, <4>1
    <3>5. c.lay.small \in Bands /\ c.lay.both \in Bands /\ c.lay.big \in Bands
      BY <1>0, <2>1, <3>1 DEF Bands, Band
    <3>6. CutsInOrder(b0, b1, c)
      BY <1>0, <1>1, <2>2, <3>2, <3>4 DEF CutsInOrder, EmptyBand
    <3>7. CutsFor(b0, b1, c)
      BY <1>0, <1>1, <2>2, <3>2, <3>3, <3>4, <3>5 DEF CutsFor, Inside
    <3> QED BY <3>6, <3>7 DEF c
  <2>3. CASE ~(b0.b <= b1.s) /\ b0.b >= b1.b
    <3>1. Layout(b0, b1) = [small |-> Band(b0.s, b1.s), both |-> b1, big |-> Band(b1.b, b0.b), subset |-> TRUE]
      BY <2>3 DEF Layout
    <3>2. /\ c.lay.small.s = b0.s /\ c.lay.small.b = b1.s
          /\ c.lay.both.s = b1.s /\ c.lay.both.b = b1.b
          /\ c.lay.big.s = b1.b /\ c.lay.big.b = b0.b
      BY <2>1, <3>1 DEF Band
    <3>3. c.first /\ c.first \in BOOLEAN
      BY <2>1, <1>1
    <3>4. c.bottom0 /\ c.bottom0 \in BOOLEAN
      <4>1. Layout(b0, b1).subset = TRUE
        BY <3>1
      <4> QED BY <2>1, <4>1
    <3>5. c.lay.small \in Bands /\ c.lay.both \in Bands /\ c.lay.big \in Bands
      BY <1>0, <2>1, <3>1 DEF Bands, Band
    <3>6. CutsInOrder(b0, b1, c)
      BY <1>0, <1>1, <2>3, <3>2, <3>4 DEF CutsInOrder, EmptyBand
    <3>7. CutsFor(b0, b1, c)
      BY <1>0, <1>1, <2>3, <3>2, <3>3, <3>4, <3>5 DEF CutsFor, Inside
    <3> QED BY <3>6, <3>7 DEF c
  <2>4. CASE ~(b0.b <= b1.s) /\ ~(b0.b >= b1.b)
    <3>1. Layout(b0, b1) = [small |-> Band(b0.s, b1.s), both |-> Band(b1.s, b0.b), big |-> Band(b0.b, b1.b), subset |-> FALSE]
      BY <2>4 DEF Layout
    <3>2. /\ c.lay.small.s = b0.s /\ c.lay.small.b = b1.s
          /\ c.lay.both.s = b1.s /\ c.lay.both.b = b0.b
          /\ c.lay.big.s = b0.b /\ c.lay.big.b = b1.b
      BY <2>1, <3>1 DEF Band
    <3>3. c.first /\ c.first \in BOOLEAN
      BY <2>1, <1>1
    <3>4. ~c.bottom0 /\ c.bottom0 \in BOOLEAN
      <4>1. Layout(b0, b1).subset = FALSE
        BY <3>1
      <4> QED BY <2>1, <4>1
    <3>5. c.lay.small \in Bands /\ c.lay.both \in Bands /\ c.lay.big \in Bands
      BY <1>0, <2>1, <3>1 DEF Bands, Band
    <3>6. CutsInOrder(b0, b1, c)
      BY <1>0, <1>1, <2>4, <3>2, <3>4 DEF CutsInOrder, EmptyBand
    <3>7. CutsFor(b0, b1, c)
      BY <1>0, <1>1, <2>4, <3>2, <3>3, <3>4, <3>5 DEF CutsFor, Inside
    <3> QED BY <3>6, <3>7 DEF c
  <2> QED BY <2>2, <2>3, <2>4
<1>2. CASE ~(b0.s < b1.s)
  <2>1. c = [first |-> b0.s < b1.s, lay |-> Layout(b1, b0),
             bottom0 |-> ~Layout(b1, b0).subset]
    BY <1>2 DEF Compared
  <2> HIDE DEF c
  <2>2. CASE b1.b <= b0.s
    <3>1. Layout(b1, b0) = [small |-> b1, both |-> Band(0, 0), big |-> b0, subset |-> FALSE]
      BY <2>2 DEF Layout
    <3>2. /\ c.lay.small.s = b1.s /\ c.lay.small.b = b1.b
          /\ c.lay.both.s = 0 /\ c.lay.both.b = 0
          /\ c.lay.big.s = b0.s /\ c.lay.big.b = b0.b
      BY <2>1, <3>1 DEF Band
    <3>3. ~c.first /\ c.first \in BOOLEAN
      <4>1. c.first = (b0.s < b1.s)
        BY <2>1
      <4>2. (b0.s < b1.s) = FALSE
        BY <1>2
      <4> QED BY <4>1, <4>2
    <3>4. c.bottom0 /\ c.bottom0 \in BOOLEAN
      <4>1. Layout(b1, b0).subset = FALSE
        BY <3>1
      <4> QED BY <2>1, <4>1
    <3>5. c.lay.small \in Bands /\ c.lay.both \in Bands /\ c.lay.big \in Bands
      BY <1>0, <2>1, <3>1 DEF Bands, Band
    <3>6. CutsInOrder(b0, b1, c)
      BY <1>0, <1>2, <2>2, <3>2, <3>4 DEF CutsInOrder, EmptyBand
    <3>7. CutsFor(b0, b1, c)
      BY <1>0, <1>2, <2>2, <3>2, <3>3, <3>4, <3>5 DEF CutsFor, Inside
    <3> QED BY <3>6, <3>7 DEF c
  <2>3. CASE ~(b1.b <= b0.s) /\ b1.b >= b0.b
    <3>1. Layout(b1, b0) = [small |-> Band(b1.s, b0.s), both |-> b0, big |-> Band(b0.b, b1.b), subset |-> TRUE]
      BY <2>3 DEF Layout
    <3>2. /\ c.lay.small.s = b1.s /\ c.lay.small.b = b0.s
          /\ c.lay.both.s = b0.s /\ c.lay.both.b = b0.b
          /\ c.lay.big.s = b0.b /\ c.lay.big.b = b1.b
      BY <2>1, <3>1 DEF Band
    <3>3. ~c.first /\ c.first \in BOOLEAN
      <4>1. c.first = (b0.s < b1.s)
        BY <2>1
      <4>2. (b0.s < b1.s) = FALSE
        BY <1>2
      <4> QED BY <4>1, <4>2
    <3>4. ~c.bottom0 /\ c.bottom0 \in BOOLEAN
      <4>1. Layout(b1, b0).subset = TRUE
        BY <3>1
      <4> QED BY <2>1, <4>1
    <3>5. c.lay.small \in Bands /\ c.lay.both \in Bands /\ c.lay.big \in Bands
      BY <1>0, <2>1, <3>1 DEF Bands, Band
    <3>6. CutsInOrder(b0, b1, c)
      BY <1>0, <1>2, <2>3, <3>2, <3>4 DEF CutsInOrder, EmptyBand
    <3>7. CutsFor(b0, b1, c)
      BY <1>0, <1>2, <2>3, <3>2, <3>3, <3>4, <3>5 DEF CutsFor, Inside
    <3> QED BY <3>6, <3>7 DEF c
  <2>4. CASE ~(b1.b <= b0.s) /\ ~(b1.b >= b0.b)
    <3>1. Layout(b1, b0) = [small |-> Band(b1.s, b0.s), both |-> Band(b0.s, b1.b), big |-> Band(b1.b, b0.b), subset |-> FALSE]
      BY <2>4 DEF Layout
    <3>2. /\ c.lay.small.s = b1.s /\ c.lay.small.b = b0.s
          /\ c.lay.both.s = b0.s /\ c.lay.both.b = b1.b
          /\ c.lay.big.s = b1.b /\ c.lay.big.b = b0.b
      BY <2>1, <3>1 DEF Band
    <3>3. ~c.first /\ c.first \in BOOLEAN
      <4>1. c.first = (b0.s < b1.s)
        BY <2>1
      <4>2. (b0.s < b1.s) = FALSE
        BY <1>2
      <4> QED BY <4>1, <4>2
    <3>4. c.bottom0 /\ c.bottom0 \in BOOLEAN
      <4>1. Layout(b1, b0).subset = FALSE
        BY <3>1
      <4> QED BY <2>1, <4>1
    <3>5. c.lay.small \in Bands /\ c.lay.both \in Bands /\ c.lay.big \in Bands
      BY <1>0, <2>1, <3>1 DEF Bands, Band
    <3>6. CutsInOrder(b0, b1, c)
      BY <1>0, <1>2, <2>4, <3>2, <3>4 DEF CutsInOrder, EmptyBand
    <3>7. CutsFor(b0, b1, c)
      BY <1>0, <1>2, <2>4, <3>2, <3>3, <3>4, <3>5 DEF CutsFor, Inside
    <3> QED BY <3>6, <3>7 DEF c
  <2> QED BY <2>2, <2>3, <2>4
<1> QED BY <1>1, <1>2

(* A number up to k that is not k is smaller.                               *)
LEMMA BelowLast == \A k \in Nat : \A j \in 1 .. k : j # k => j < k
OBVIOUS

(* What AddBand makes of bands that end before it.                          *)
LEMMA AddBandEffect ==
    ASSUME NEW out, ProperBands(out), NEW band \in Bands,
           EmptyBand(band) \/ (band.b <= Beyond /\ EndsBy(out, band.s))
    PROVE  /\ ProperBands(AddBand(out, band))
           /\ \A v \in Nat : Covered(v, AddBand(out, band)) <=> Covered(v, out) \/ Inside(v, band)
           /\ \A f \in Nat : EndsBy(out, f) /\ (EmptyBand(band) \/ band.b <= f)
                               => EndsBy(AddBand(out, band), f)
<1>0. band.s \in Nat /\ band.b \in Nat
  BY DEF Bands
<1>1. CASE EmptyBand(band)
  <2>1. AddBand(out, band) = out
    BY <1>1 DEF AddBand
  <2>2. \A v \in Nat : ~Inside(v, band)
    BY <1>0, <1>1 DEF EmptyBand, Inside
  <2> QED BY <2>1, <2>2
<1>2. CASE ~EmptyBand(band) /\ out # <<>> /\ Last(out).b = band.s
  <2> DEFINE n == Len(out)
             new == [s |-> out[n].s, b |-> band.b]
             ys == AddBand(out, band)
  <2>0. out \in Seq(Bands) /\ n \in Nat /\ n \in 1 .. n /\ out[n] \in Bands /\ DOMAIN out = 1 .. n
    BY <1>2 DEF ProperBands
  <2>1. ys = [out EXCEPT ![n] = new]
    <3>1. [out[n] EXCEPT !.b = band.b] = new
      BY <2>0 DEF Bands
    <3> QED BY <1>2, <3>1, <2>0 DEF AddBand, Last
  <2>2. new \in Bands /\ out[n].b = band.s /\ out[n].s \in Nat /\ out[n].s < out[n].b
    BY <1>0, <1>2, <2>0 DEF Bands, Last, ProperBands
  <2>3. ys \in Seq(Bands) /\ Len(ys) = n
    BY <2>0, <2>1, <2>2
  <2>4. \A j \in 1 .. n : ys[j] = IF j = n THEN new ELSE out[j]
    BY <2>0, <2>1
  <2> HIDE DEF ys
  <2>5. ProperBands(ys)
    <3>1. ASSUME NEW j \in 1 .. n PROVE ys[j].s < ys[j].b /\ ys[j].b <= Beyond
      <4>1. out[j].s < out[j].b /\ out[j].b <= Beyond
        BY DEF ProperBands
      <4>2. CASE j = n
        <5>1. ys[j].s = out[n].s /\ ys[j].b = band.b
          BY <2>4, <4>2
        <5>2. out[n].s < band.b
          BY <1>0, <1>2, <2>2 DEF EmptyBand
        <5>3. band.b <= Beyond
          BY <1>2
        <5> QED BY <5>1, <5>2, <5>3
      <4>3. CASE j # n
        BY <2>4, <4>1, <4>3
      <4> QED BY <4>2, <4>3
    <3>2. ASSUME NEW j \in 1 .. n, NEW k \in 1 .. n, j < k PROVE ys[j].b < ys[k].s
      <4>1. j # n
        <5> HIDE DEF n
        <5> QED BY <3>2, <2>0
      <4>2. out[j].b < out[k].s
        BY <3>2 DEF ProperBands
      <4>3. ys[k].s = out[k].s
        BY <2>4
      <4> QED BY <2>4, <4>1, <4>2, <4>3
    <3> HIDE DEF n
    <3> QED BY <2>3, <3>1, <3>2 DEF ProperBands
  <2>6. ASSUME NEW v \in Nat PROVE Covered(v, ys) <=> Covered(v, out) \/ Inside(v, band)
    <3>1. Inside(v, new) <=> Inside(v, out[n]) \/ Inside(v, band)
      BY <1>0, <1>2, <2>2 DEF Inside, EmptyBand, Bands
    <3> QED BY <2>0, <2>3, <2>4, <3>1 DEF Covered
  <2>7. ASSUME NEW f \in Nat, EndsBy(out, f), band.b <= f PROVE EndsBy(ys, f)
    BY <2>3, <2>4, <2>7 DEF EndsBy
  <2> QED BY <1>2, <2>5, <2>6, <2>7 DEF ys
<1>3. CASE ~EmptyBand(band) /\ ~(out # <<>> /\ Last(out).b = band.s)
  <2> DEFINE n == Len(out)
             ys == AddBand(out, band)
  <2>0. out \in Seq(Bands) /\ n \in Nat /\ DOMAIN out = 1 .. n
    BY DEF ProperBands
  <2>1. ys = Append(out, band)
    BY <1>3 DEF AddBand
  <2>2. ys \in Seq(Bands) /\ Len(ys) = n + 1 /\ \A j \in 1 .. n + 1 : ys[j] = IF j = n + 1 THEN band ELSE out[j]
    BY <2>0, <2>1
  <2>3. ASSUME NEW j \in 1 .. n PROVE out[j].b < band.s
    <3>1. out # <<>> /\ n \in 1 .. n
      BY <2>0
    <3>2. out[n].b # band.s
      BY <1>3, <3>1 DEF Last
    <3>3. out[n].b <= band.s /\ out[j].b <= band.s
      BY <1>3, <3>1 DEF EndsBy
    <3>4. out[j] \in Bands /\ out[n] \in Bands
      BY <2>0, <3>1
    <3>5. out[j].b \in Nat /\ out[n].b \in Nat /\ out[n].s \in Nat
      BY <3>4 DEF Bands
    <3>6. j # n => out[j].b < out[n].s /\ out[n].s < out[n].b
      <4>1. /\ \A i \in 1 .. n : out[i].s < out[i].b
            /\ \A i, k \in 1 .. n : i < k => out[i].b < out[k].s
        BY DEF ProperBands
      <4>2. j # n => j < n
        BY <2>0, BelowLast
      <4> QED BY <3>1, <4>1, <4>2
    <3>7. CASE j = n
      BY <1>0, <3>2, <3>3, <3>5, <3>7
    <3>8. CASE j # n
      BY <1>0, <3>3, <3>5, <3>6, <3>8
    <3> QED BY <3>7, <3>8
  <2> HIDE DEF ys
  <2>5. ProperBands(ys)
    <3>1. ASSUME NEW j \in 1 .. n + 1 PROVE ys[j].s < ys[j].b /\ ys[j].b <= Beyond
      <4>1. CASE j = n + 1
        BY <1>0, <1>3, <2>2, <4>1 DEF EmptyBand
      <4>2. CASE j # n + 1
        BY <2>0, <2>2, <4>2 DEF ProperBands
      <4> QED BY <4>1, <4>2
    <3>2. ASSUME NEW j \in 1 .. n + 1, NEW k \in 1 .. n + 1, j < k PROVE ys[j].b < ys[k].s
      <4>1. j \in 1 .. n /\ ys[j] = out[j]
        BY <3>2, <2>0, <2>2
      <4>2. CASE k = n + 1
        BY <2>2, <2>3, <4>1, <4>2
      <4>3. CASE k # n + 1
        <5>1. k \in 1 .. n /\ ys[k] = out[k]
          BY <2>0, <2>2, <4>3
        <5> QED BY <3>2, <4>1, <5>1 DEF ProperBands
      <4> QED BY <4>2, <4>3
    <3> HIDE DEF n
    <3> QED BY <2>2, <3>1, <3>2 DEF ProperBands
  <2>6. ASSUME NEW v \in Nat PROVE Covered(v, ys) <=> Covered(v, out) \/ Inside(v, band)
    <3>1. ASSUME NEW j \in 1 .. n PROVE j \in 1 .. n + 1 /\ ys[j] = out[j]
      BY <2>0, <2>2
    <3>2. ASSUME NEW j \in 1 .. n + 1 PROVE j \in 1 .. n \/ j = n + 1
      BY <2>0
    <3>3. n + 1 \in 1 .. n + 1 /\ ys[n + 1] = band
      BY <2>0, <2>2
    <3> QED BY <2>2, <3>1, <3>2, <3>3 DEF Covered
  <2>7. ASSUME NEW f \in Nat, EndsBy(out, f), band.b <= f PROVE EndsBy(ys, f)
    BY <2>0, <2>2, <2>7 DEF EndsBy
  <2> QED BY <1>3, <2>5, <2>6, <2>7 DEF ys
<1> QED BY <1>1, <1>2, <1>3

(* What two compared bands add to bands that end before both.               *)
LEMMA BandOpEffect ==
    ASSUME NEW out, ProperBands(out), NEW c, NEW op,
           c.lay.small \in Bands, c.lay.both \in Bands,
           EmptyBand(c.lay.small) \/ (c.lay.small.b <= Beyond /\ EndsBy(out, c.lay.small.s)),
           EmptyBand(c.lay.both) \/ (c.lay.both.b <= Beyond /\ EndsBy(out, c.lay.both.s)),
           ~EmptyBand(c.lay.small) /\ ~EmptyBand(c.lay.both) => c.lay.small.b = c.lay.both.s
    PROVE  /\ ProperBands(BandOp(out, c, op))
           /\ \A v \in Nat : Covered(v, BandOp(out, c, op)) <=>
                              \/ Covered(v, out)
                              \/ Keeps(op, c.first) /\ Inside(v, c.lay.small)
                              \/ op # "diff" /\ Inside(v, c.lay.both)
           /\ \A f \in Nat : /\ EndsBy(out, f)
                             /\ EmptyBand(c.lay.small) \/ c.lay.small.b <= f
                             /\ EmptyBand(c.lay.both) \/ c.lay.both.b <= f
                             => EndsBy(BandOp(out, c, op), f)
<1> DEFINE small == c.lay.small
           both == c.lay.both
           mid == IF Keeps(op, c.first) THEN AddBand(out, small) ELSE out
<1>1. BandOp(out, c, op) = IF op # "diff" THEN AddBand(mid, both) ELSE mid
  BY DEF BandOp
<1>2. /\ ProperBands(mid)
      /\ \A v \in Nat : Covered(v, mid) <=> Covered(v, out) \/ (Keeps(op, c.first) /\ Inside(v, small))
      /\ \A f \in Nat : EndsBy(out, f) /\ (EmptyBand(small) \/ small.b <= f) => EndsBy(mid, f)
  <2>1. CASE Keeps(op, c.first)
    <3>1. mid = AddBand(out, small)
      BY <2>1
    <3> HIDE DEF mid
    <3> QED BY <2>1, <3>1, AddBandEffect
  <2>2. CASE ~Keeps(op, c.first)
    <3>1. mid = out
      BY <2>2
    <3> HIDE DEF mid
    <3> QED BY <2>2, <3>1
  <2> QED BY <2>1, <2>2
<1>3. EmptyBand(both) \/ (both.b <= Beyond /\ EndsBy(mid, both.s))
  <2>1. SUFFICES ASSUME ~EmptyBand(both) PROVE EndsBy(mid, both.s)
    OBVIOUS
  <2>2. both.s \in Nat /\ small.b \in Nat /\ EndsBy(out, both.s)
    BY <2>1 DEF Bands
  <2>3. EmptyBand(small) \/ small.b <= both.s
    BY <2>1, <2>2
  <2> HIDE DEF mid, small, both
  <2> QED BY <1>2, <2>2, <2>3
<1>4. CASE op # "diff"
  <2>1. BandOp(out, c, op) = AddBand(mid, both)
    BY <1>1, <1>4
  <2>2. /\ ProperBands(AddBand(mid, both))
        /\ \A v \in Nat : Covered(v, AddBand(mid, both)) <=> Covered(v, mid) \/ Inside(v, both)
        /\ \A f \in Nat : EndsBy(mid, f) /\ (EmptyBand(both) \/ both.b <= f)
                            => EndsBy(AddBand(mid, both), f)
    <3> HIDE DEF mid
    <3> QED BY <1>2, <1>3, AddBandEffect
  <2> HIDE DEF mid
  <2> QED BY <1>2, <1>4, <2>1, <2>2
<1>5. CASE op = "diff"
  <2>1. BandOp(out, c, op) = mid
    BY <1>1, <1>5
  <2> HIDE DEF mid
  <2> QED BY <1>2, <1>5, <2>1
<1> QED BY <1>4, <1>5

(* The first of some bands, and the others.                                 *)
LEMMA HeadOfBands ==
    ASSUME NEW xs, ProperBands(xs), xs # <<>>
    PROVE  /\ Head(xs) \in Bands /\ Head(xs).s < Head(xs).b /\ Head(xs).b <= Beyond
           /\ ProperBands(Tail(xs)) /\ Len(Tail(xs)) = Len(xs) - 1
           /\ BeginsAt(Tail(xs), Head(xs).b)
           /\ \A v \in Nat : /\ Covered(v, xs) <=> Inside(v, Head(xs)) \/ Covered(v, Tail(xs))
                             /\ Covered(v, Tail(xs)) => Head(xs).b <= v
<1> DEFINE n == Len(xs)
           ys == Tail(xs)
<1>1. xs \in Seq(Bands) /\ n \in Nat /\ n >= 1 /\ 1 \in 1 .. n /\ Head(xs) = xs[1]
  BY DEF ProperBands
<1>2. ys \in Seq(Bands) /\ Len(ys) = n - 1 /\ \A j \in 1 .. n - 1 : ys[j] = xs[j + 1]
  BY <1>1
<1>3. \A j \in 1 .. n : xs[j] \in Bands /\ xs[j].s \in Nat /\ xs[j].b \in Nat
  <2>1. \A j \in 1 .. n : xs[j] \in Bands
    BY <1>1
  <2> QED BY <2>1 DEF Bands
<1>4. \A j \in 1 .. n - 1 : j + 1 \in 1 .. n /\ 1 < j + 1
  BY <1>1
<1>5. /\ \A j \in 1 .. n : xs[j].s < xs[j].b /\ xs[j].b <= Beyond
      /\ \A j, k \in 1 .. n : j < k => xs[j].b < xs[k].s
  BY DEF ProperBands
<1> HIDE DEF n, ys
<1>6. ProperBands(ys)
  <2>1. ASSUME NEW j \in 1 .. n - 1, NEW k \in 1 .. n - 1, j < k
        PROVE  ys[j].b < ys[k].s
    <3>1. j + 1 \in 1 .. n /\ k + 1 \in 1 .. n /\ j + 1 < k + 1
      BY <1>1, <2>1
    <3> QED BY <1>2, <1>5, <3>1
  <2>2. ASSUME NEW j \in 1 .. n - 1
        PROVE  ys[j].s < ys[j].b /\ ys[j].b <= Beyond
    BY <1>2, <1>4, <1>5
  <2> QED BY <1>2, <2>1, <2>2 DEF ProperBands
<1>7. \A j \in 1 .. n - 1 : xs[1].b < ys[j].s
  BY <1>1, <1>2, <1>4, <1>5
<1>8. BeginsAt(ys, xs[1].b)
  <2>1. \A j \in 1 .. n - 1 : xs[1].b <= ys[j].s
    BY <1>1, <1>2, <1>3, <1>4, <1>7
  <2> QED BY <1>2, <2>1 DEF BeginsAt
<1>9. ASSUME NEW v \in Nat
      PROVE  Covered(v, xs) <=> Inside(v, xs[1]) \/ Covered(v, ys)
  <2>1. ASSUME NEW j \in 1 .. n, Inside(v, xs[j]) PROVE Inside(v, xs[1]) \/ Covered(v, ys)
    <3>1. CASE j # 1
      <4>1. j - 1 \in 1 .. n - 1 /\ ys[j - 1] = xs[j]
        <5>1. j - 1 \in 1 .. n - 1 /\ j - 1 + 1 = j
          BY <1>1, <3>1
        <5> QED BY <1>2, <5>1
      <4> QED BY <1>2, <2>1, <4>1 DEF Covered
    <3> QED BY <2>1, <3>1
  <2>2. Inside(v, xs[1]) => Covered(v, xs)
    BY <1>1 DEF Covered, n
  <2>3. Covered(v, ys) => Covered(v, xs)
    BY <1>2, <1>4 DEF Covered, n
  <2> QED BY <2>1, <2>2, <2>3 DEF Covered, n
<1>10. ASSUME NEW v \in Nat, Covered(v, ys)
       PROVE  xs[1].b <= v
  <2>1. PICK j \in 1 .. n - 1 : Inside(v, ys[j])
    BY <1>2, <1>10 DEF Covered
  <2>2. xs[1].b < ys[j].s /\ ys[j].s <= v /\ ys[j].s \in Nat
    BY <1>2, <1>3, <1>4, <1>7, <2>1 DEF Inside
  <2> QED BY <1>1, <1>3, <2>2
<1> QED BY <1>1, <1>2, <1>3, <1>5, <1>6, <1>8, <1>9, <1>10 DEF n, ys

(* What a turn leaves of an operand.                                        *)
LEMMA RestEffect ==
    ASSUME NEW xs, ProperBands(xs), xs # <<>>, NEW lay, lay.big \in Bands,
           NEW mine \in BOOLEAN,
           mine /\ ~EmptyBand(lay.big) =>
             lay.big.b = Head(xs).b /\ Head(xs).s <= lay.big.s
    PROVE  /\ ProperBands(Rest(xs, lay, mine))
           /\ Len(Rest(xs, lay, mine)) = IF mine /\ ~EmptyBand(lay.big) THEN Len(xs) ELSE Len(xs) - 1
           /\ \A v \in Nat : Covered(v, Rest(xs, lay, mine)) <=>
                              (mine /\ Inside(v, lay.big)) \/ Covered(v, Tail(xs))
           /\ \A f \in Nat : (IF mine /\ ~EmptyBand(lay.big) THEN f <= lay.big.s ELSE f <= Head(xs).b)
                             => BeginsAt(Rest(xs, lay, mine), f)
<1> DEFINE n == Len(xs)
           ts == Tail(xs)
           ys == Rest(xs, lay, mine)
           big == lay.big
<1>0. /\ Head(xs) \in Bands /\ Head(xs).s < Head(xs).b /\ Head(xs).b <= Beyond
      /\ ProperBands(ts) /\ Len(ts) = n - 1 /\ BeginsAt(ts, Head(xs).b)
  BY HeadOfBands
<1>1. xs \in Seq(Bands) /\ n \in Nat /\ n >= 1 /\ Head(xs) = xs[1]
  BY DEF ProperBands
<1>2. big.s \in Nat /\ big.b \in Nat /\ xs[1].s \in Nat /\ xs[1].b \in Nat
  BY <1>0, <1>1 DEF Bands
<1>3. ts \in Seq(Bands) /\ \A j \in 1 .. n - 1 : ts[j] \in Bands /\ ts[j].s \in Nat /\ ts[j].b \in Nat
  <2>1. ts \in Seq(Bands)
    BY <1>0 DEF ProperBands
  <2>2. \A j \in 1 .. n - 1 : ts[j] \in Bands
    <3> HIDE DEF ts
    <3> QED BY <1>0, <2>1
  <2> QED BY <2>1, <2>2 DEF Bands
<1>4. CASE mine /\ ~EmptyBand(big)
  <2>1. ys = <<big>> \o ts
    BY <1>4 DEF Rest
  <2>2. ys \in Seq(Bands) /\ Len(ys) = n /\ \A j \in 1 .. n : ys[j] = IF j = 1 THEN big ELSE ts[j - 1]
    <3> HIDE DEF ts, big
    <3>1. <<big>> \in Seq(Bands) /\ Len(<<big>>) = 1
      BY DEF big
    <3> QED BY <1>0, <1>1, <1>3, <2>1, <3>1
  <2>3. big.b = xs[1].b /\ xs[1].s <= big.s /\ big.s < big.b
    BY <1>1, <1>2, <1>4 DEF EmptyBand
  <2> HIDE DEF ys, ts, n, big
  <2>4. \A j \in 1 .. n : j # 1 => j - 1 \in 1 .. n - 1 /\ ys[j] = ts[j - 1]
    BY <1>1, <2>2
  <2>5. \A j \in 1 .. n - 1 : j + 1 \in 1 .. n /\ j + 1 # 1 /\ ys[j + 1] = ts[j]
    <3>1. ASSUME NEW j \in 1 .. n - 1 PROVE j + 1 \in 1 .. n /\ j + 1 # 1 /\ j + 1 - 1 = j
      BY <1>1
    <3> QED BY <2>4, <3>1
  <2>6. ProperBands(ys)
    <3>1. ASSUME NEW j \in 1 .. n PROVE ys[j].s < ys[j].b /\ ys[j].b <= Beyond
      BY <1>0, <1>1, <2>2, <2>3, <2>4 DEF ProperBands
    <3>2. ASSUME NEW j \in 1 .. n, NEW k \in 1 .. n, j < k PROVE ys[j].b < ys[k].s
      <4>1. k # 1 /\ k - 1 \in 1 .. n - 1 /\ ys[k] = ts[k - 1]
        BY <1>1, <2>4, <3>2
      <4>2. CASE j = 1
        <5>1. xs[1].b < ts[k - 1].s
          <6>1. ts[k - 1] = xs[k] /\ k \in 1 .. n /\ 1 \in 1 .. n /\ 1 < k
            BY <1>1, <4>1 DEF ts, n
          <6> QED BY <6>1 DEF ProperBands, n
        <5> QED BY <2>2, <2>3, <4>1, <4>2, <5>1
      <4>3. CASE j # 1
        <5>1. j - 1 \in 1 .. n - 1 /\ ys[j] = ts[j - 1] /\ j - 1 < k - 1
          BY <1>1, <2>4, <3>2, <4>3
        <5> QED BY <1>0, <4>1, <5>1 DEF ProperBands
      <4> QED BY <4>2, <4>3
    <3> QED BY <2>2, <3>1, <3>2 DEF ProperBands
  <2>7. ASSUME NEW v \in Nat PROVE Covered(v, ys) <=> Inside(v, big) \/ Covered(v, ts)
    <3>1. 1 \in 1 .. n /\ ys[1] = big
      BY <1>1, <2>2
    <3> QED BY <1>0, <2>2, <2>4, <2>5, <3>1 DEF Covered
  <2>8. ASSUME NEW f \in Nat, f <= big.s PROVE BeginsAt(ys, f)
    <3>1. ASSUME NEW j \in 1 .. n PROVE f <= ys[j].s
      <4>1. CASE j = 1
        BY <2>2, <2>8, <4>1
      <4>2. CASE j # 1
        <5>1. j - 1 \in 1 .. n - 1 /\ ys[j] = ts[j - 1]
          BY <2>4, <4>2
        <5>2. xs[1].b <= ts[j - 1].s /\ ts[j - 1].s \in Nat
          BY <1>0, <1>1, <1>3, <5>1 DEF BeginsAt
        <5> QED BY <1>2, <2>3, <2>8, <5>1, <5>2
      <4> QED BY <4>1, <4>2
    <3> QED BY <2>2, <3>1 DEF BeginsAt
  <2> QED BY <1>4, <2>2, <2>6, <2>7, <2>8 DEF ys, n, ts, big
<1>5. CASE ~(mine /\ ~EmptyBand(big))
  <2>1. ys = ts
    BY <1>5 DEF Rest
  <2>2. ASSUME NEW v \in Nat PROVE ~(mine /\ Inside(v, big))
    BY <1>2, <1>5 DEF EmptyBand, Inside
  <2>3. ASSUME NEW f \in Nat, f <= xs[1].b PROVE BeginsAt(ts, f)
    <3>1. ASSUME NEW j \in 1 .. n - 1 PROVE f <= ts[j].s
      <4>1. xs[1].b <= ts[j].s /\ ts[j].s \in Nat
        BY <1>0, <1>1, <1>3 DEF BeginsAt
      <4> QED BY <1>2, <2>3, <4>1
    <3> QED BY <1>0, <3>1 DEF BeginsAt
  <2> HIDE DEF ts
  <2> QED BY <1>0, <1>1, <1>5, <2>1, <2>2, <2>3 DEF ts
<1> QED BY <1>4, <1>5

(* The state of the loop over x-bands, and what it stands for at a place.   *)
SweepReady(t) ==
  /\ ProperBands(t.xs0) /\ ProperBands(t.xs1) /\ ProperBands(t.out)
  /\ \E f \in Nat : EndsBy(t.out, f) /\ BeginsAt(t.xs0, f) /\ BeginsAt(t.xs1, f)
SweptTo(t, op, v) ==
  Covered(v, t.out) \/ Combined(op, Covered(v, t.xs0), Covered(v, t.xs1))

(* Bands that end by f end by what is greater.                              *)
LEMMA EndsByMore ==
    ASSUME NEW out, ProperBands(out), NEW f \in Nat, NEW g \in Nat, f <= g, EndsBy(out, f)
    PROVE  EndsBy(out, g)
<1>1. \A j \in 1 .. Len(out) : out[j] \in Bands
  BY DEF ProperBands
<1>2. \A j \in 1 .. Len(out) : out[j].b \in Nat
  BY <1>1 DEF Bands
<1> QED BY <1>2 DEF EndsBy

(* Arithmetic, with nothing else in sight.                                  *)
LEMMA BothNone ==
    ASSUME NEW i \in Nat, NEW j \in Nat, i + j <= 0
    PROVE  i = 0 /\ j = 0
  OBVIOUS

(* Arithmetic, with nothing else in sight.                                  *)
LEMMA LessOne ==
    ASSUME NEW i \in Nat, NEW j \in Nat, NEW k \in Nat, NEW m \in Nat, NEW n \in Nat,
           i + j <= k + m - 1, k + m <= n + 1
    PROVE  i + j <= n
  OBVIOUS

(* Arithmetic, with nothing else in sight.                                  *)
LEMMA LessByOne ==
    ASSUME NEW m \in Nat, NEW n \in Nat
    PROVE  m - 1 + n - 1 <= m + n - 1 /\ m + n - 1 <= m + n - 1 /\ m - 1 + n <= m + n - 1
  OBVIOUS

(* A turn while both rows have bands.                                       *)
LEMMA SweepTurnBoth ==
    ASSUME NEW t, SweepReady(t), NEW op \in Ops, t.xs0 # <<>>, t.xs1 # <<>>
    PROVE  /\ SweepReady(SweepTurn(t, op))
           /\ \A v \in Nat : SweptTo(SweepTurn(t, op), op, v) <=> SweptTo(t, op, v)
           /\ Len(SweepTurn(t, op).xs0) + Len(SweepTurn(t, op).xs1) <= Len(t.xs0) + Len(t.xs1) - 1
<1> DEFINE b0 == Head(t.xs0)
           b1 == Head(t.xs1)
           c == Compared(b0, b1)
           u == SweepTurn(t, op)
           ys0 == Rest(t.xs0, c.lay, c.bottom0)
           ys1 == Rest(t.xs1, c.lay, ~c.bottom0)
           out == BandOp(t.out, c, op)
           g == IF c.bottom0 /\ ~EmptyBand(c.lay.big) THEN b1.b ELSE b0.b
<1>1. u.xs0 = ys0 /\ u.xs1 = ys1 /\ u.out = out
  BY DEF SweepTurn
<1>2. ProperBands(t.xs0) /\ ProperBands(t.xs1) /\ ProperBands(t.out)
  BY DEF SweepReady
<1>3. PICK f \in Nat : EndsBy(t.out, f) /\ BeginsAt(t.xs0, f) /\ BeginsAt(t.xs1, f)
  BY DEF SweepReady
<1>4. /\ b0 \in Bands /\ b0.s < b0.b /\ b0.b <= Beyond
      /\ \A v \in Nat : /\ Covered(v, t.xs0) <=> Inside(v, b0) \/ Covered(v, Tail(t.xs0))
                        /\ Covered(v, Tail(t.xs0)) => b0.b <= v
  BY <1>2, HeadOfBands
<1>5. /\ b1 \in Bands /\ b1.s < b1.b /\ b1.b <= Beyond
      /\ \A v \in Nat : /\ Covered(v, t.xs1) <=> Inside(v, b1) \/ Covered(v, Tail(t.xs1))
                        /\ Covered(v, Tail(t.xs1)) => b1.b <= v
  BY <1>2, HeadOfBands
<1>6. f <= b0.s /\ f <= b1.s
  <2>1. t.xs0 \in Seq(Bands) /\ t.xs1 \in Seq(Bands)
    BY <1>2 DEF ProperBands
  <2>2. 1 \in 1 .. Len(t.xs0) /\ 1 \in 1 .. Len(t.xs1) /\ b0 = t.xs0[1] /\ b1 = t.xs1[1]
    BY <2>1
  <2> QED BY <1>3, <2>2 DEF BeginsAt
<1> HIDE DEF u, b0, b1
<1>7. CutsFor(b0, b1, c) /\ CutsInOrder(b0, b1, c)
  BY <1>4, <1>5, ComparedCuts
<1> HIDE DEF c
<1>8. /\ c.lay.small \in Bands /\ c.lay.both \in Bands /\ c.lay.big \in Bands
      /\ c.first \in BOOLEAN /\ c.bottom0 \in BOOLEAN
  BY <1>7 DEF CutsFor
<1>9. /\ b0.s \in Nat /\ b0.b \in Nat /\ b1.s \in Nat /\ b1.b \in Nat /\ Beyond \in Nat
      /\ c.lay.small.s \in Nat /\ c.lay.small.b \in Nat /\ c.lay.both.s \in Nat
      /\ c.lay.both.b \in Nat /\ c.lay.big.s \in Nat /\ c.lay.big.b \in Nat
  BY <1>4, <1>5, <1>8, RegionAssumption DEF Bands, RegionAssumption
<1>10. /\ EmptyBand(c.lay.small) \/ (c.lay.small.b <= Beyond /\ EndsBy(t.out, c.lay.small.s))
       /\ EmptyBand(c.lay.both) \/ (c.lay.both.b <= Beyond /\ EndsBy(t.out, c.lay.both.s))
       /\ ~EmptyBand(c.lay.small) /\ ~EmptyBand(c.lay.both) => c.lay.small.b = c.lay.both.s
  <2>1. EmptyBand(c.lay.small) \/ (c.lay.small.b <= Beyond /\ f <= c.lay.small.s)
    BY <1>4, <1>6, <1>7, <1>9 DEF CutsInOrder
  <2>2. EmptyBand(c.lay.both) \/ (c.lay.both.b <= Beyond /\ f <= c.lay.both.s)
    BY <1>4, <1>6, <1>7, <1>9 DEF CutsInOrder
  <2>3. ~EmptyBand(c.lay.small) /\ ~EmptyBand(c.lay.both) => c.lay.small.b = c.lay.both.s
    BY <1>7 DEF CutsInOrder
  <2> QED BY <1>2, <1>3, <1>9, <2>1, <2>2, <2>3, EndsByMore
<1>11. /\ ProperBands(out)
       /\ \A v \in Nat : Covered(v, out) <=>
                          \/ Covered(v, t.out)
                          \/ Keeps(op, c.first) /\ Inside(v, c.lay.small)
                          \/ op # "diff" /\ Inside(v, c.lay.both)
       /\ EndsBy(t.out, g) /\ (EmptyBand(c.lay.small) \/ c.lay.small.b <= g)
            /\ (EmptyBand(c.lay.both) \/ c.lay.both.b <= g) => EndsBy(out, g)
  <2>1. g \in Nat
    BY <1>9
  <2> HIDE DEF g, out
  <2>2. /\ ProperBands(out)
        /\ \A v \in Nat : Covered(v, out) <=>
                           \/ Covered(v, t.out)
                           \/ Keeps(op, c.first) /\ Inside(v, c.lay.small)
                           \/ op # "diff" /\ Inside(v, c.lay.both)
        /\ \A h \in Nat : /\ EndsBy(t.out, h)
                          /\ EmptyBand(c.lay.small) \/ c.lay.small.b <= h
                          /\ EmptyBand(c.lay.both) \/ c.lay.both.b <= h
                          => EndsBy(out, h)
    BY <1>2, <1>8, <1>10, BandOpEffect DEF out
  <2> QED BY <2>1, <2>2
<1>12. g \in Nat /\ EndsBy(out, g)
  <2>1. g \in Nat /\ f <= g
    BY <1>4, <1>5, <1>6, <1>9
  <2>2. EmptyBand(c.lay.small) \/ c.lay.small.b <= g
    BY <1>7, <1>9 DEF CutsInOrder
  <2>3. EmptyBand(c.lay.both) \/ c.lay.both.b <= g
    BY <1>7, <1>9 DEF CutsInOrder
  <2> HIDE DEF g, out
  <2>4. EndsBy(t.out, g)
    BY <1>2, <1>3, <2>1, EndsByMore
  <2> QED BY <1>11, <2>1, <2>2, <2>3, <2>4
<1>13. /\ ProperBands(ys0)
       /\ Len(ys0) = IF c.bottom0 /\ ~EmptyBand(c.lay.big) THEN Len(t.xs0) ELSE Len(t.xs0) - 1
       /\ \A v \in Nat : Covered(v, ys0) <=>
                          (c.bottom0 /\ Inside(v, c.lay.big)) \/ Covered(v, Tail(t.xs0))
       /\ BeginsAt(ys0, g)
  <2>1. c.bottom0 /\ ~EmptyBand(c.lay.big) => c.lay.big.b = Head(t.xs0).b /\ Head(t.xs0).s <= c.lay.big.s
    BY <1>7 DEF CutsInOrder, b0
  <2>2. IF c.bottom0 /\ ~EmptyBand(c.lay.big) THEN g <= c.lay.big.s ELSE g <= Head(t.xs0).b
    BY <1>7, <1>9 DEF CutsInOrder, b0
  <2>3. g \in Nat
    BY <1>12
  <2> HIDE DEF g
  <2> QED BY <1>2, <1>8, <2>1, <2>2, <2>3, RestEffect
<1>14. /\ ProperBands(ys1)
       /\ Len(ys1) = IF ~c.bottom0 /\ ~EmptyBand(c.lay.big) THEN Len(t.xs1) ELSE Len(t.xs1) - 1
       /\ \A v \in Nat : Covered(v, ys1) <=>
                          (~c.bottom0 /\ Inside(v, c.lay.big)) \/ Covered(v, Tail(t.xs1))
       /\ BeginsAt(ys1, g)
  <2>1. ~c.bottom0 /\ ~EmptyBand(c.lay.big) => c.lay.big.b = Head(t.xs1).b /\ Head(t.xs1).s <= c.lay.big.s
    BY <1>7 DEF CutsInOrder, b1
  <2>2. IF ~c.bottom0 /\ ~EmptyBand(c.lay.big) THEN g <= c.lay.big.s ELSE g <= Head(t.xs1).b
    BY <1>7, <1>9 DEF CutsInOrder, b1
  <2>3. g \in Nat /\ (~c.bottom0) \in BOOLEAN
    BY <1>12
  <2> HIDE DEF g
  <2> QED BY <1>2, <1>8, <2>1, <2>2, <2>3, RestEffect
<1>15. SweepReady(u)
  <2> HIDE DEF ys0, ys1, out, g
  <2> QED BY <1>1, <1>11, <1>12, <1>13, <1>14 DEF SweepReady
<1>16. ASSUME NEW v \in Nat
       PROVE  SweptTo(u, op, v) <=> SweptTo(t, op, v)
  <2> DEFINE S == Inside(v, c.lay.small)
             B == Inside(v, c.lay.both)
             G == Inside(v, c.lay.big)
             T0 == Covered(v, Tail(t.xs0))
             T1 == Covered(v, Tail(t.xs1))
             O == Covered(v, t.out)
  <2>1. /\ Inside(v, b0) <=> (c.first /\ S) \/ B \/ (c.bottom0 /\ G)
        /\ Inside(v, b1) <=> (~c.first /\ S) \/ B \/ (~c.bottom0 /\ G)
        /\ ~(S /\ B) /\ ~(S /\ G) /\ ~(B /\ G)
    BY <1>7 DEF CutsFor
  <2>2. T0 \/ T1 => ~S /\ ~B
    <3>1. T0 \/ T1 => b0.b <= v \/ b1.b <= v
      BY <1>4, <1>5
    <3>2. S => v < b0.b /\ v < b1.b
      BY <1>7, <1>9 DEF CutsInOrder, Inside, EmptyBand
    <3>3. B => v < b0.b /\ v < b1.b
      BY <1>7, <1>9 DEF CutsInOrder, Inside, EmptyBand
    <3> HIDE DEF T0, T1, S, B
    <3> QED BY <1>9, <3>1, <3>2, <3>3
  <2>3. S \in BOOLEAN /\ B \in BOOLEAN /\ G \in BOOLEAN /\ T0 \in BOOLEAN /\ T1 \in BOOLEAN /\ O \in BOOLEAN
    BY DEF Inside, Covered
  <2>4. /\ Covered(v, t.xs0) = (((c.first /\ S) \/ B \/ (c.bottom0 /\ G)) \/ T0)
        /\ Covered(v, t.xs1) = (((~c.first /\ S) \/ B \/ (~c.bottom0 /\ G)) \/ T1)
        /\ Covered(v, u.xs0) = ((c.bottom0 /\ G) \/ T0)
        /\ Covered(v, u.xs1) = ((~c.bottom0 /\ G) \/ T1)
    <3>1. Covered(v, t.xs0) \in BOOLEAN /\ Covered(v, t.xs1) \in BOOLEAN
          /\ Covered(v, u.xs0) \in BOOLEAN /\ Covered(v, u.xs1) \in BOOLEAN
      BY DEF Covered
    <3> HIDE DEF T0, T1, S, B, G
    <3>2. Covered(v, t.xs0) <=> (((c.first /\ S) \/ B \/ (c.bottom0 /\ G)) \/ T0)
      BY <1>4, <2>1 DEF T0
    <3>3. Covered(v, t.xs1) <=> (((~c.first /\ S) \/ B \/ (~c.bottom0 /\ G)) \/ T1)
      BY <1>5, <2>1 DEF T1
    <3>4. Covered(v, u.xs0) <=> ((c.bottom0 /\ G) \/ T0)
      BY <1>1, <1>13 DEF T0, G
    <3>5. Covered(v, u.xs1) <=> ((~c.bottom0 /\ G) \/ T1)
      BY <1>1, <1>14 DEF T1, G
    <3> QED BY <3>1, <3>2, <3>3, <3>4, <3>5, Zenon
  <2>5. Covered(v, u.out) <=> O \/ (Keeps(op, c.first) /\ S) \/ (op # "diff" /\ B)
    <3> HIDE DEF out
    <3> QED BY <1>1, <1>11
  <2> HIDE DEF S, B, G, T0, T1, O
  <2>6. O \/ Combined(op, ((c.first /\ S) \/ B \/ (c.bottom0 /\ G)) \/ T0,
                          ((~c.first /\ S) \/ B \/ (~c.bottom0 /\ G)) \/ T1)
        <=> \/ O \/ (Keeps(op, c.first) /\ S) \/ (op # "diff" /\ B)
            \/ Combined(op, (c.bottom0 /\ G) \/ T0, (~c.bottom0 /\ G) \/ T1)
    <3>1. CASE op = "union"
      BY <2>1, <2>2, <3>1 DEF Combined, Keeps
    <3>2. CASE op = "intersect"
      BY <2>1, <2>2, <3>2 DEF Combined, Keeps
    <3>3. CASE op = "diff"
      BY <2>1, <2>2, <3>3 DEF Combined, Keeps
    <3> QED BY <3>1, <3>2, <3>3 DEF Ops
  <2> QED BY <2>4, <2>5, <2>6 DEF SweptTo, O
<1>17. Len(u.xs0) + Len(u.xs1) <= Len(t.xs0) + Len(t.xs1) - 1
  <2>1. Len(t.xs0) \in Nat /\ Len(t.xs1) \in Nat
    BY <1>2 DEF ProperBands
  <2>2. Len(u.xs0) = Len(ys0) /\ Len(u.xs1) = Len(ys1)
    BY <1>1
  <2> HIDE DEF ys0, ys1
  <2>3. CASE EmptyBand(c.lay.big)
    <3>1. Len(ys0) = Len(t.xs0) - 1
      BY <1>13, <2>3
    <3>2. Len(ys1) = Len(t.xs1) - 1
      BY <1>14, <2>3
    <3> HIDE DEF u
    <3> QED BY <2>1, <2>2, <3>1, <3>2, LessByOne
  <2>4. CASE ~EmptyBand(c.lay.big) /\ c.bottom0
    <3>1. Len(ys0) = Len(t.xs0)
      BY <1>13, <2>4
    <3>2. Len(ys1) = Len(t.xs1) - 1
      BY <1>14, <2>4
    <3> QED BY <2>1, <2>2, <3>1, <3>2
  <2>5. CASE ~EmptyBand(c.lay.big) /\ ~c.bottom0
    <3>1. Len(ys0) = Len(t.xs0) - 1
      BY <1>13, <2>5
    <3>2. Len(ys1) = Len(t.xs1)
      BY <1>14, <2>5
    <3> QED BY <2>1, <2>2, <3>1, <3>2
  <2> QED BY <2>3, <2>4, <2>5
<1> QED BY <1>15, <1>16, <1>17 DEF u

(* A band beside none.                                                      *)
LEMMA AloneCuts ==
    ASSUME NEW b \in Bands, b.s < b.b, b.b <= Beyond
    PROVE  /\ Compared(MaxBand, b) =
                [first |-> FALSE, bottom0 |-> TRUE,
                 lay |-> [small |-> b, both |-> Band(0, 0), big |-> MaxBand, subset |-> FALSE]]
           /\ Compared(b, MaxBand) =
                [first |-> TRUE, bottom0 |-> FALSE,
                 lay |-> [small |-> b, both |-> Band(0, 0), big |-> MaxBand, subset |-> FALSE]]
<1>1. b.s \in Nat /\ b.b \in Nat /\ Beyond \in Nat /\ MaxBand.s = Beyond
  BY RegionAssumption DEF Bands, RegionAssumption, MaxBand, Band
<1>2. (b.s < MaxBand.s) = TRUE /\ (MaxBand.s < b.s) = FALSE /\ b.b <= MaxBand.s
  BY <1>1
<1>3. Layout(b, MaxBand) = [small |-> b, both |-> Band(0, 0), big |-> MaxBand, subset |-> FALSE]
  BY <1>2 DEF Layout
<1>4. Layout(b, MaxBand).subset = FALSE
  BY <1>3
<1>5. Compared(MaxBand, b) = [first |-> FALSE, lay |-> Layout(b, MaxBand), bottom0 |-> TRUE]
  BY <1>2, <1>4 DEF Compared
<1>6. Compared(b, MaxBand) = [first |-> TRUE, lay |-> Layout(b, MaxBand), bottom0 |-> FALSE]
  BY <1>2, <1>4 DEF Compared
<1> QED BY <1>3, <1>5, <1>6

(* A turn when one row has no more bands: the first band of the other.      *)
LEMMA SweepTurnAlone ==
    ASSUME NEW t, SweepReady(t), NEW op \in Ops, NEW ofFirst \in BOOLEAN,
           IF ofFirst THEN t.xs0 # <<>> /\ t.xs1 = <<>> ELSE t.xs0 = <<>> /\ t.xs1 # <<>>
    PROVE  /\ SweepReady(SweepTurn(t, op))
           /\ \A v \in Nat : SweptTo(SweepTurn(t, op), op, v) <=> SweptTo(t, op, v)
           /\ Len(SweepTurn(t, op).xs0) + Len(SweepTurn(t, op).xs1) <= Len(t.xs0) + Len(t.xs1) - 1
<1> DEFINE xs == IF ofFirst THEN t.xs0 ELSE t.xs1
           b == Head(xs)
           c == [first |-> ofFirst, bottom0 |-> ~ofFirst,
                 lay |-> [small |-> b, both |-> Band(0, 0), big |-> MaxBand, subset |-> FALSE]]
           u == SweepTurn(t, op)
           out == BandOp(t.out, c, op)
<1>1. ProperBands(t.xs0) /\ ProperBands(t.xs1) /\ ProperBands(t.out) /\ xs # <<>> /\ ProperBands(xs)
  BY DEF SweepReady
<1>2. PICK f \in Nat : EndsBy(t.out, f) /\ BeginsAt(t.xs0, f) /\ BeginsAt(t.xs1, f)
  BY DEF SweepReady
<1>3. /\ b \in Bands /\ b.s < b.b /\ b.b <= Beyond
      /\ ProperBands(Tail(xs)) /\ Len(Tail(xs)) = Len(xs) - 1 /\ BeginsAt(Tail(xs), b.b)
      /\ \A v \in Nat : /\ Covered(v, xs) <=> Inside(v, b) \/ Covered(v, Tail(xs))
  <2> HIDE DEF xs
  <2> QED BY <1>1, HeadOfBands
<1>4. f <= b.s /\ b.s \in Nat /\ b.b \in Nat
  <2>1. xs \in Seq(Bands) /\ BeginsAt(xs, f)
    BY <1>1, <1>2 DEF ProperBands
  <2>2. 1 \in 1 .. Len(xs) /\ b = xs[1]
    <3> HIDE DEF xs
    <3> QED BY <1>1, <2>1 DEF b
  <2> HIDE DEF xs, b
  <2> QED BY <1>3, <2>1, <2>2 DEF BeginsAt, Bands
<1>5. /\ u.out = out
      /\ u.xs0 = IF ofFirst THEN Tail(xs) ELSE <<>>
      /\ u.xs1 = IF ofFirst THEN <<>> ELSE Tail(xs)
  <2>1. CASE ofFirst
    <3>1. xs = t.xs0 /\ t.xs0 # <<>> /\ t.xs1 = <<>>
      BY <2>1
    <3>2. Compared(b, MaxBand) = c
      <4> HIDE DEF b
      <4> QED BY <1>3, <2>1, AloneCuts
    <3>3. u = [xs0 |-> Rest(t.xs0, c.lay, c.bottom0), xs1 |-> Rest(t.xs1, c.lay, ~c.bottom0),
               out |-> out]
      <4> HIDE DEF c
      <4> QED BY <3>1, <3>2 DEF SweepTurn
    <3>4. ~c.bottom0
      BY <2>1
    <3>5. Rest(t.xs0, c.lay, c.bottom0) = Tail(xs) /\ Rest(t.xs1, c.lay, ~c.bottom0) = <<>>
      <4> HIDE DEF c
      <4> QED BY <3>1, <3>4 DEF Rest
    <3> HIDE DEF c, xs, out
    <3> QED BY <2>1, <3>3, <3>5
  <2>2. CASE ~ofFirst
    <3>1. xs = t.xs1 /\ t.xs0 = <<>> /\ t.xs1 # <<>>
      BY <2>2
    <3>2. Compared(MaxBand, b) = c
      <4> HIDE DEF b
      <4>1. ofFirst = FALSE
        BY <2>2
      <4> QED BY <1>3, <4>1, AloneCuts
    <3>3. u = [xs0 |-> Rest(t.xs0, c.lay, c.bottom0), xs1 |-> Rest(t.xs1, c.lay, ~c.bottom0),
               out |-> out]
      <4> HIDE DEF c
      <4> QED BY <3>1, <3>2 DEF SweepTurn
    <3>4. c.bottom0
      BY <2>2
    <3>5. Rest(t.xs1, c.lay, ~c.bottom0) = Tail(xs) /\ Rest(t.xs0, c.lay, c.bottom0) = <<>>
      <4> HIDE DEF c
      <4> QED BY <3>1, <3>4 DEF Rest
    <3> HIDE DEF c, xs, out
    <3> QED BY <2>2, <3>3, <3>5
  <2> QED BY <2>1, <2>2
<1>6. /\ c.first = ofFirst /\ c.lay.small = b /\ c.lay.both = Band(0, 0)
      /\ c.lay.both \in Bands /\ EmptyBand(c.lay.both) /\ \A v \in Nat : ~Inside(v, c.lay.both)
  BY DEF Bands, Band, EmptyBand, Inside
<1> HIDE DEF c, u, b
<1>7. EndsBy(t.out, b.s) /\ EndsBy(t.out, b.b)
  BY <1>1, <1>2, <1>3, <1>4, EndsByMore
<1>8. /\ ProperBands(out)
      /\ \A v \in Nat : Covered(v, out) <=> Covered(v, t.out) \/ (Keeps(op, ofFirst) /\ Inside(v, b))
      /\ EndsBy(out, b.b)
  <2>1. /\ ProperBands(out)
        /\ \A v \in Nat : Covered(v, out) <=>
                           \/ Covered(v, t.out)
                           \/ Keeps(op, c.first) /\ Inside(v, c.lay.small)
                           \/ op # "diff" /\ Inside(v, c.lay.both)
        /\ \A h \in Nat : /\ EndsBy(t.out, h)
                          /\ EmptyBand(c.lay.small) \/ c.lay.small.b <= h
                          /\ EmptyBand(c.lay.both) \/ c.lay.both.b <= h
                          => EndsBy(out, h)
    BY <1>1, <1>3, <1>6, <1>7, BandOpEffect
  <2> HIDE DEF out
  <2> QED BY <1>4, <1>6, <1>7, <2>1
<1>9. ProperBands(<<>>) /\ BeginsAt(<<>>, b.b) /\ \A v \in Nat : ~Covered(v, <<>>)
  BY DEF ProperBands, BeginsAt, Covered
<1> HIDE DEF out
<1>10. SweepReady(u)
  <2> HIDE DEF xs
  <2>1. ProperBands(u.xs0) /\ BeginsAt(u.xs0, b.b) /\ ProperBands(u.xs1) /\ BeginsAt(u.xs1, b.b)
    BY <1>3, <1>5, <1>9
  <2> QED BY <1>4, <1>5, <1>8, <2>1 DEF SweepReady
<1>11. ASSUME NEW v \in Nat
       PROVE  SweptTo(u, op, v) <=> SweptTo(t, op, v)
  <2>1. Covered(v, u.out) <=> Covered(v, t.out) \/ (Keeps(op, ofFirst) /\ Inside(v, b))
    BY <1>5, <1>8
  <2>2. CASE ofFirst
    <3>1. /\ Covered(v, t.xs0) <=> Inside(v, b) \/ Covered(v, u.xs0)
          /\ ~Covered(v, t.xs1) /\ ~Covered(v, u.xs1)
      BY <1>3, <1>5, <1>9, <2>2
    <3>2. Keeps(op, ofFirst) <=> op # "intersect"
      BY <2>2 DEF Ops, Keeps
    <3>4. SweptTo(t, op, v) <=> Covered(v, t.out) \/ (op # "intersect" /\ Covered(v, t.xs0))
      BY <3>1 DEF SweptTo, Combined, Ops
    <3>5. SweptTo(u, op, v) <=> Covered(v, u.out) \/ (op # "intersect" /\ Covered(v, u.xs0))
      BY <3>1 DEF SweptTo, Combined, Ops
    <3> QED BY <2>1, <3>1, <3>2, <3>4, <3>5
  <2>3. CASE ~ofFirst
    <3>1. /\ Covered(v, t.xs1) <=> Inside(v, b) \/ Covered(v, u.xs1)
          /\ ~Covered(v, t.xs0) /\ ~Covered(v, u.xs0)
      BY <1>3, <1>5, <1>9, <2>3
    <3>2. Keeps(op, ofFirst) <=> op = "union"
      BY <2>3 DEF Ops, Keeps
    <3>4. SweptTo(t, op, v) <=> Covered(v, t.out) \/ (op = "union" /\ Covered(v, t.xs1))
      BY <3>1 DEF SweptTo, Combined, Ops
    <3>5. SweptTo(u, op, v) <=> Covered(v, u.out) \/ (op = "union" /\ Covered(v, u.xs1))
      BY <3>1 DEF SweptTo, Combined, Ops
    <3> QED BY <2>1, <3>1, <3>2, <3>4, <3>5
  <2> QED BY <2>2, <2>3
<1>12. Len(u.xs0) + Len(u.xs1) <= Len(t.xs0) + Len(t.xs1) - 1
  <2>1. Len(t.xs0) \in Nat /\ Len(t.xs1) \in Nat /\ Len(<<>>) = 0
    BY <1>1 DEF ProperBands
  <2>2. CASE ofFirst
    <3>1. Len(u.xs0) = Len(t.xs0) - 1 /\ Len(u.xs1) = 0 /\ Len(t.xs1) = 0
      BY <1>3, <1>5, <2>1, <2>2
    <3> QED BY <2>1, <3>1
  <2>3. CASE ~ofFirst
    <3>1. Len(u.xs1) = Len(t.xs1) - 1 /\ Len(u.xs0) = 0 /\ Len(t.xs0) = 0
      BY <1>3, <1>5, <2>1, <2>3
    <3> QED BY <2>1, <3>1
  <2> QED BY <2>2, <2>3
<1> QED BY <1>10, <1>11, <1>12 DEF u

(* Any turn.                                                                *)
LEMMA SweepTurnEffect ==
    ASSUME NEW t, SweepReady(t), NEW op \in Ops
    PROVE  /\ SweepReady(SweepTurn(t, op))
           /\ \A v \in Nat : SweptTo(SweepTurn(t, op), op, v) <=> SweptTo(t, op, v)
           /\ \A n \in Nat : Len(t.xs0) + Len(t.xs1) <= n + 1 =>
                               Len(SweepTurn(t, op).xs0) + Len(SweepTurn(t, op).xs1) <= n
<1> DEFINE u == SweepTurn(t, op)
<1>1. ProperBands(t.xs0) /\ ProperBands(t.xs1)
  BY DEF SweepReady
<1>2. CASE t.xs0 = <<>> /\ t.xs1 = <<>>
  <2>1. u = t
    BY <1>2 DEF SweepTurn
  <2>2. Len(t.xs0) = 0 /\ Len(t.xs1) = 0
    BY <1>2
  <2> HIDE DEF u
  <2> QED BY <2>1, <2>2 DEF u
<1>3. CASE ~(t.xs0 = <<>> /\ t.xs1 = <<>>)
  <2>1. SweepReady(u) /\ (\A v \in Nat : SweptTo(u, op, v) <=> SweptTo(t, op, v))
        /\ Len(u.xs0) + Len(u.xs1) <= Len(t.xs0) + Len(t.xs1) - 1
    <3>1. CASE t.xs0 # <<>> /\ t.xs1 # <<>>
      BY <3>1, SweepTurnBoth
    <3>2. CASE t.xs0 # <<>> /\ t.xs1 = <<>>
      BY <3>2, SweepTurnAlone
    <3>3. CASE t.xs0 = <<>> /\ t.xs1 # <<>>
      BY <3>3, SweepTurnAlone
    <3> QED BY <1>3, <3>1, <3>2, <3>3
  <2> HIDE DEF u
  <2>2. Len(t.xs0) \in Nat /\ Len(t.xs1) \in Nat
    BY <1>1 DEF ProperBands
  <2>3. Len(u.xs0) \in Nat /\ Len(u.xs1) \in Nat
    BY <2>1 DEF SweepReady, ProperBands
  <2>4. ASSUME NEW n \in Nat, Len(t.xs0) + Len(t.xs1) <= n + 1
        PROVE  Len(u.xs0) + Len(u.xs1) <= n
    BY <2>1, <2>2, <2>3, <2>4, LessOne
  <2> QED BY <2>1, <2>4 DEF u
<1> QED BY <1>2, <1>3

(* The turns of the loop over two rows, one after the other.                *)
SweepTurns(g, xs0, xs1, op, n) ==
  /\ g = [i \in 0 .. n |-> g[i]]
  /\ g[0] = [xs0 |-> xs0, xs1 |-> xs1, out |-> <<>>]
  /\ \A i \in 1 .. n : g[i] = SweepTurn(g[i - 1], op)

(* There are such.                                                          *)
LEMMA SweepTurnsExist ==
    ASSUME NEW xs0, NEW xs1, NEW op, NEW m \in Nat
    PROVE  \E g : SweepTurns(g, xs0, xs1, op, m)
<1> DEFINE begun == [xs0 |-> xs0, xs1 |-> xs1, out |-> <<>>]
           T == {n \in 0 .. m : \E g : SweepTurns(g, xs0, xs1, op, n)}
<1>1. 0 \in T
  <2> DEFINE g == [i \in 0 .. 0 |-> begun]
  <2>1. g = [i \in 0 .. 0 |-> g[i]] /\ g[0] = begun /\ \A i \in 1 .. 0 : g[i] = SweepTurn(g[i - 1], op)
    OBVIOUS
  <2> HIDE DEF g
  <2>2. SweepTurns(g, xs0, xs1, op, 0)
    BY <2>1 DEF SweepTurns
  <2> QED BY <2>2
<1>2. ASSUME NEW n \in 0 .. m - 1, n \in T
      PROVE  n + 1 \in T
  <2>1. PICK g : SweepTurns(g, xs0, xs1, op, n)
    BY <1>2
  <2> DEFINE h == [i \in 0 .. n + 1 |-> IF i = n + 1 THEN SweepTurn(g[n], op) ELSE g[i]]
  <2>2. n \in Nat /\ n + 1 \in 0 .. m
    OBVIOUS
  <2>3. h = [i \in 0 .. n + 1 |-> h[i]] /\ h[0] = begun
    BY <2>1, <2>2 DEF SweepTurns
  <2>4. ASSUME NEW i \in 1 .. n + 1
        PROVE  h[i] = SweepTurn(h[i - 1], op)
    <3>1. CASE i = n + 1
      <4>1. i - 1 = n /\ i - 1 \in 0 .. n + 1 /\ i - 1 # n + 1
        BY <2>2, <3>1
      <4> QED BY <2>2, <3>1, <4>1
    <3>2. CASE i # n + 1
      <4>1. i \in 1 .. n /\ i - 1 \in 0 .. n + 1 /\ i - 1 # n + 1
        BY <2>2, <3>2
      <4>2. h[i] = g[i] /\ h[i - 1] = g[i - 1]
        BY <3>2, <4>1
      <4>3. g[i] = SweepTurn(g[i - 1], op)
        BY <2>1, <4>1 DEF SweepTurns
      <4> QED BY <4>2, <4>3
    <3> QED BY <3>1, <3>2
  <2> HIDE DEF h
  <2>5. SweepTurns(h, xs0, xs1, op, n + 1)
    BY <2>3, <2>4 DEF SweepTurns
  <2> QED BY <2>2, <2>5
<1>3. 0 .. m \subseteq T
  BY <1>1, <1>2, UpTo
<1> QED BY <1>3

(* Sweep is the result of the last.                                         *)
LEMMA SweepIsLast ==
    ASSUME NEW xs0 \in Seq(Bands), NEW xs1 \in Seq(Bands), NEW op
    PROVE  \E g : /\ SweepTurns(g, xs0, xs1, op, Len(xs0) + Len(xs1))
                  /\ Sweep(xs0, xs1, op) = g[Len(xs0) + Len(xs1)].out
<1> DEFINE n == Len(xs0) + Len(xs1)
           begun == [xs0 |-> xs0, xs1 |-> xs1, out |-> <<>>]
           After(f) == [i \in 0 .. n |-> IF i = 0 THEN begun ELSE SweepTurn(f[i - 1], op)]
           after == CHOOSE f : f = After(f)
<1>1. n \in Nat
  OBVIOUS
<1>2. PICK g : SweepTurns(g, xs0, xs1, op, n)
  <2> HIDE DEF n
  <2> QED BY <1>1, SweepTurnsExist
<1>3. g = After(g)
  <2>1. ASSUME NEW i \in 0 .. n PROVE g[i] = After(g)[i]
    <3>1. i = 0 \/ i \in 1 .. n
      BY <1>1
    <3>2. After(g)[i] = IF i = 0 THEN begun ELSE SweepTurn(g[i - 1], op)
      OBVIOUS
    <3>3. g[0] = begun /\ \A j \in 1 .. n : g[j] = SweepTurn(g[j - 1], op)
      BY <1>2 DEF SweepTurns
    <3> HIDE DEF After, begun, n
    <3> QED BY <3>1, <3>2, <3>3
  <2> QED BY <1>2, <2>1 DEF SweepTurns
<1>4. after = After(after)
  <2> HIDE DEF After
  <2> QED BY <1>3
<1>5. Sweep(xs0, xs1, op) = after[n].out
  BY DEF Sweep
<1>6. SweepTurns(after, xs0, xs1, op, n)
  <2> HIDE DEF after, n
  <2>1. after[0] = begun /\ \A i \in 1 .. n : after[i] = SweepTurn(after[i - 1], op)
    BY <1>1, <1>4
  <2>2. after = [i \in 0 .. n |-> after[i]]
    BY <1>4
  <2> QED BY <2>1, <2>2 DEF SweepTurns
<1> HIDE DEF after
<1> QED BY <1>5, <1>6

(* The x-bands of the overlap of two rows are those of the combined points. *)
LEMMA SweepEffect ==
    ASSUME NEW xs0, ProperBands(xs0), NEW xs1, ProperBands(xs1), NEW op \in Ops
    PROVE  /\ ProperBands(Sweep(xs0, xs1, op))
           /\ \A v \in Nat : Covered(v, Sweep(xs0, xs1, op)) <=>
                              Combined(op, Covered(v, xs0), Covered(v, xs1))
<1> DEFINE n == Len(xs0) + Len(xs1)
           begun == [xs0 |-> xs0, xs1 |-> xs1, out |-> <<>>]
<1>1. xs0 \in Seq(Bands) /\ xs1 \in Seq(Bands) /\ n \in Nat
  BY DEF ProperBands
<1>2. PICK g : SweepTurns(g, xs0, xs1, op, n) /\ Sweep(xs0, xs1, op) = g[n].out
  BY <1>1, SweepIsLast
<1>3. g[0] = begun /\ \A i \in 1 .. n : g[i] = SweepTurn(g[i - 1], op)
  BY <1>2 DEF SweepTurns
<1>4. ProperBands(<<>>) /\ EndsBy(<<>>, 0) /\ \A v \in Nat : ~Covered(v, <<>>)
  BY DEF ProperBands, EndsBy, Covered
<1> DEFINE T == {i \in 0 .. n : /\ SweepReady(g[i])
                                /\ \A v \in Nat : SweptTo(g[i], op, v) <=> SweptTo(begun, op, v)
                                /\ Len(g[i].xs0) + Len(g[i].xs1) <= n - i}
<1>5. 0 \in T
  <2>1. BeginsAt(xs0, 0) /\ BeginsAt(xs1, 0)
    <3>1. \A j \in 1 .. Len(xs0) : xs0[j] \in Bands
      BY <1>1
    <3>2. \A j \in 1 .. Len(xs1) : xs1[j] \in Bands
      BY <1>1
    <3> QED BY <3>1, <3>2 DEF BeginsAt, Bands
  <2>2. SweepReady(begun)
    BY <1>4, <2>1 DEF SweepReady
  <2>3. 0 \in 0 .. n /\ Len(begun.xs0) + Len(begun.xs1) <= n - 0
    BY <1>1
  <2> HIDE DEF begun, n
  <2> QED BY <1>3, <2>2, <2>3
<1>6. ASSUME NEW i \in 0 .. n - 1, i \in T PROVE i + 1 \in T
  <2> HIDE DEF begun, n
  <2>1. i \in Nat /\ i + 1 \in 1 .. n /\ i + 1 \in 0 .. n /\ i + 1 - 1 = i /\ n - (i + 1) \in Nat
        /\ n - i = n - (i + 1) + 1
    BY <1>1
  <2>2. g[i + 1] = SweepTurn(g[i], op)
    BY <1>3, <2>1
  <2>3. SweepReady(g[i]) /\ (\A v \in Nat : SweptTo(g[i], op, v) <=> SweptTo(begun, op, v))
        /\ Len(g[i].xs0) + Len(g[i].xs1) <= n - (i + 1) + 1
    BY <1>6, <2>1
  <2>4. /\ SweepReady(g[i + 1])
        /\ \A v \in Nat : SweptTo(g[i + 1], op, v) <=> SweptTo(g[i], op, v)
        /\ Len(g[i + 1].xs0) + Len(g[i + 1].xs1) <= n - (i + 1)
    BY <2>1, <2>2, <2>3, SweepTurnEffect
  <2> QED BY <2>1, <2>3, <2>4
<1>7. n \in T
  <2> HIDE DEF T, n
  <2>1. 0 .. n \subseteq T
    BY <1>1, <1>5, <1>6, UpTo
  <2> QED BY <1>1, <2>1
<1>8. /\ SweepReady(g[n]) /\ Len(g[n].xs0) + Len(g[n].xs1) <= 0
      /\ \A v \in Nat : SweptTo(g[n], op, v) <=> SweptTo(begun, op, v)
  <2> HIDE DEF begun, n
  <2>1. n - n = 0
    BY <1>1
  <2> QED BY <1>7, <2>1
<1> HIDE DEF n, T
<1>9. g[n].xs0 = <<>> /\ g[n].xs1 = <<>> /\ ProperBands(g[n].out)
  <2>1. g[n].xs0 \in Seq(Bands) /\ g[n].xs1 \in Seq(Bands)
    BY <1>8 DEF SweepReady, ProperBands
  <2>2. Len(g[n].xs0) \in Nat /\ Len(g[n].xs1) \in Nat
    BY <2>1
  <2>3. Len(g[n].xs0) = 0 /\ Len(g[n].xs1) = 0
    <3>1. Len(g[n].xs0) + Len(g[n].xs1) <= 0
      BY <1>8
    <3> QED BY <2>2, <3>1, BothNone
  <2> QED BY <1>8, <2>1, <2>3 DEF SweepReady
<1>10. ASSUME NEW v \in Nat
       PROVE  Covered(v, g[n].out) <=> Combined(op, Covered(v, xs0), Covered(v, xs1))
  <2>1. SweptTo(g[n], op, v) <=> Covered(v, g[n].out)
    BY <1>4, <1>9 DEF SweptTo, Combined, Ops
  <2>2. SweptTo(begun, op, v) <=> Combined(op, Covered(v, xs0), Covered(v, xs1))
    BY <1>4 DEF SweptTo
  <2> QED BY <1>8, <2>1, <2>2
<1> QED BY <1>2, <1>9, <1>10

------------------------------------------------------------------------------
(* The rows of a region: in order, each with proper bands.                  *)
Rows == [y : Bands, xs : Seq(Bands)]
ProperRows(g) ==
  /\ g \in Seq(Rows)
  /\ \A i \in 1 .. Len(g) : /\ g[i].y.s < g[i].y.b /\ g[i].y.b <= Beyond
                            /\ g[i].xs # <<>> /\ ProperBands(g[i].xs)
  /\ \A i, k \in 1 .. Len(g) : i < k => g[i].y.b <= g[k].y.s
(* Rows that touch differ.                                                  *)
Apart(g) == \A i \in 1 .. Len(g) - 1 : g[i].y.b = g[i + 1].y.s => g[i].xs # g[i + 1].xs
(* The point of column h and line v is in a row.                            *)
Owns(h, v, g) == \E i \in 1 .. Len(g) : Inside(v, g[i].y) /\ Covered(h, g[i].xs)
RowsEndBy(g, f) == \A i \in 1 .. Len(g) : g[i].y.b <= f
RowsBeginAt(g, f) == \A i \in 1 .. Len(g) : f <= g[i].y.s

(* A row's parts.                                                           *)
LEMMA RowTypes ==
    ASSUME NEW g, ProperRows(g), NEW i \in 1 .. Len(g)
    PROVE  /\ g[i] = [y |-> g[i].y, xs |-> g[i].xs] /\ g[i] \in Rows
           /\ g[i].y \in Bands /\ g[i].xs \in Seq(Bands)
           /\ g[i].y.s \in Nat /\ g[i].y.b \in Nat
           /\ g[i].y.s < g[i].y.b /\ g[i].y.b <= Beyond /\ g[i].xs # <<>> /\ ProperBands(g[i].xs)
<1>1. g[i] \in Rows
  BY DEF ProperRows
<1>2. /\ g[i] = [y |-> g[i].y, xs |-> g[i].xs]
      /\ g[i].y \in Bands /\ g[i].xs \in Seq(Bands)
  BY <1>1 DEF Rows
<1>3. g[i].y.s \in Nat /\ g[i].y.b \in Nat
  BY <1>2 DEF Bands
<1> QED BY <1>1, <1>2, <1>3 DEF ProperRows

(* What AddRow makes of rows that end before it.                            *)
LEMMA AddRowEffect ==
    ASSUME NEW out, ProperRows(out), Apart(out), NEW y \in Bands, NEW xs, ProperBands(xs),
           EmptyBand(y) \/ (y.b <= Beyond /\ RowsEndBy(out, y.s))
    PROVE  /\ ProperRows(AddRow(out, y, xs)) /\ Apart(AddRow(out, y, xs))
           /\ \A h, v \in Nat : Owns(h, v, AddRow(out, y, xs)) <=>
                                 Owns(h, v, out) \/ (Inside(v, y) /\ Covered(h, xs))
           /\ \A f \in Nat : RowsEndBy(out, f) /\ (EmptyBand(y) \/ y.b <= f)
                               => RowsEndBy(AddRow(out, y, xs), f)
<1>0. y.s \in Nat /\ y.b \in Nat /\ xs \in Seq(Bands)
  BY DEF Bands, ProperBands
<1>1. CASE EmptyBand(y) \/ xs = <<>>
  <2>1. AddRow(out, y, xs) = out
    BY <1>1 DEF AddRow
  <2>2. \A h, v \in Nat : ~(Inside(v, y) /\ Covered(h, xs))
    BY <1>0, <1>1 DEF EmptyBand, Inside, Covered
  <2> QED BY <2>1, <2>2
<1>2. CASE ~EmptyBand(y) /\ xs # <<>> /\ out # <<>> /\ CanMerge(Last(out), y, xs)
  <2> DEFINE n == Len(out)
             long == [s |-> out[n].y.s, b |-> y.b]
             new == [y |-> long, xs |-> out[n].xs]
             ys == AddRow(out, y, xs)
  <2>0. out \in Seq(Rows) /\ n \in Nat /\ n \in 1 .. n /\ DOMAIN out = 1 .. n
    BY <1>2 DEF ProperRows
  <2>1. /\ out[n] = [y |-> out[n].y, xs |-> out[n].xs] /\ out[n] \in Rows
        /\ out[n].y \in Bands /\ out[n].xs \in Seq(Bands)
        /\ out[n].y.s \in Nat /\ out[n].y.b \in Nat
        /\ out[n].y.s < out[n].y.b /\ out[n].xs # <<>> /\ ProperBands(out[n].xs)
    BY <2>0, RowTypes
  <2>2. out[n].y.b = y.s /\ out[n].xs = xs
    BY <1>2 DEF CanMerge, Last
  <2>3. long \in Bands /\ new \in Rows
    BY <1>0, <2>1 DEF Bands, Rows
  <2>4. ys = [out EXCEPT ![n] = new]
    <3>1. [out[n].y EXCEPT !.b = y.b] = long
      BY <2>1 DEF Bands
    <3>2. ys = [out EXCEPT ![n].y.b = y.b]
      BY <1>2 DEF AddRow
    <3>3. ys = [out EXCEPT ![n] = [out[n] EXCEPT !.y = [out[n].y EXCEPT !.b = y.b]]]
      BY <2>0, <2>1, <3>2 DEF Rows, Bands
    <3>4. [out[n] EXCEPT !.y = long] = new
      BY <2>1 DEF Rows
    <3> QED BY <3>1, <3>3, <3>4
  <2>5. ys \in Seq(Rows) /\ Len(ys) = n /\ \A i \in 1 .. n : ys[i] = IF i = n THEN new ELSE out[i]
    BY <2>0, <2>3, <2>4
  <2> HIDE DEF ys
  <2>6. /\ \A i \in 1 .. n : ys[i].xs = out[i].xs /\ ys[i].y.s = out[i].y.s
        /\ \A i \in 1 .. n : ys[i].y.b = IF i = n THEN y.b ELSE out[i].y.b
        /\ ys[n].y = long
    <3>1. ys[n] = new /\ \A i \in 1 .. n : i # n => ys[i] = out[i]
      BY <2>0, <2>5
    <3>2. new.y = long /\ new.xs = out[n].xs /\ long.s = out[n].y.s /\ long.b = y.b
      OBVIOUS
    <3> HIDE DEF new, long, n
    <3>3. ASSUME NEW i \in 1 .. n
          PROVE  /\ ys[i].xs = out[i].xs /\ ys[i].y.s = out[i].y.s
                 /\ ys[i].y.b = IF i = n THEN y.b ELSE out[i].y.b
      <4>1. CASE i = n
        BY <3>1, <3>2, <4>1
      <4>2. CASE i # n
        BY <3>1, <4>2
      <4> QED BY <4>1, <4>2
    <3> QED BY <3>1, <3>2, <3>3
  <2>7. ProperRows(ys)
    <3>1. ASSUME NEW i \in 1 .. n
          PROVE  /\ ys[i].y.s < ys[i].y.b /\ ys[i].y.b <= Beyond
                 /\ ys[i].xs # <<>> /\ ProperBands(ys[i].xs)
      <4>1. /\ out[i].y.s < out[i].y.b /\ out[i].y.b <= Beyond
            /\ out[i].xs # <<>> /\ ProperBands(out[i].xs)
        BY RowTypes
      <4>2. out[n].y.s < y.b
        BY <1>0, <1>2, <2>1, <2>2 DEF EmptyBand
      <4>3. y.b <= Beyond
        BY <1>2
      <4> QED BY <2>6, <4>1, <4>2, <4>3
    <3>2. ASSUME NEW i \in 1 .. n, NEW k \in 1 .. n, i < k PROVE ys[i].y.b <= ys[k].y.s
      <4>1. i # n
        <5> HIDE DEF n
        <5> QED BY <3>2, <2>0
      <4>2. out[i].y.b <= out[k].y.s
        BY <3>2 DEF ProperRows
      <4> QED BY <2>6, <4>1, <4>2
    <3> HIDE DEF n
    <3> QED BY <2>5, <3>1, <3>2 DEF ProperRows
  <2>8. Apart(ys)
    <3>1. ASSUME NEW i \in 1 .. n - 1 PROVE i \in 1 .. n /\ i + 1 \in 1 .. n /\ i # n
      <4> HIDE DEF n
      <4> QED BY <2>0
    <3> QED BY <2>5, <2>6, <3>1 DEF Apart
  <2>9. ASSUME NEW h \in Nat, NEW v \in Nat
        PROVE  Owns(h, v, ys) <=> Owns(h, v, out) \/ (Inside(v, y) /\ Covered(h, xs))
    <3>1. Inside(v, long) <=> Inside(v, out[n].y) \/ Inside(v, y)
      BY <1>0, <1>2, <2>1, <2>2 DEF Inside, EmptyBand
    <3>2. \A i \in 1 .. n : i # n => ys[i].y = out[i].y
      BY <2>5
    <3> HIDE DEF long, new, n
    <3>3. \A i \in 1 .. n : i # n => (Inside(v, ys[i].y) <=> Inside(v, out[i].y))
      BY <3>2
    <3>4. Inside(v, ys[n].y) <=> Inside(v, out[n].y) \/ Inside(v, y)
      BY <2>6, <3>1
    <3>5. \A i \in 1 .. n : Covered(h, ys[i].xs) <=> Covered(h, out[i].xs)
      BY <2>6
    <3> QED BY <2>0, <2>2, <2>5, <3>3, <3>4, <3>5 DEF Owns, n
  <2>10. ASSUME NEW f \in Nat, RowsEndBy(out, f), y.b <= f PROVE RowsEndBy(ys, f)
    BY <2>5, <2>6, <2>10 DEF RowsEndBy
  <2> QED BY <1>2, <2>7, <2>8, <2>9, <2>10 DEF ys
<1>3. CASE ~EmptyBand(y) /\ xs # <<>> /\ ~(out # <<>> /\ CanMerge(Last(out), y, xs))
  <2> DEFINE n == Len(out)
             new == [y |-> y, xs |-> xs]
             ys == AddRow(out, y, xs)
  <2>0. out \in Seq(Rows) /\ n \in Nat /\ DOMAIN out = 1 .. n
    BY DEF ProperRows
  <2>1. ys = Append(out, new)
    BY <1>3 DEF AddRow
  <2>2. new \in Rows /\ new.y = y /\ new.xs = xs
    BY <1>0 DEF Rows
  <2>3. ys \in Seq(Rows) /\ Len(ys) = n + 1 /\ \A i \in 1 .. n + 1 : ys[i] = IF i = n + 1 THEN new ELSE out[i]
    <3> HIDE DEF new
    <3> QED BY <2>0, <2>1, <2>2
  <2>4. \A i \in 1 .. n : i \in 1 .. n + 1 /\ i # n + 1 /\ ys[i] = out[i]
    BY <2>0, <2>3
  <2>5. n + 1 \in 1 .. n + 1 /\ ys[n + 1].y = y /\ ys[n + 1].xs = xs
    BY <2>0, <2>2, <2>3
  <2>6. \A i \in 1 .. n + 1 : i \in 1 .. n \/ i = n + 1
    BY <2>0
  <2>7. \A i \in 1 .. n : out[i].y.b <= y.s
    BY <1>3 DEF RowsEndBy
  <2> HIDE DEF ys, new
  <2>8. ProperRows(ys)
    <3>1. ASSUME NEW i \in 1 .. n + 1
          PROVE  /\ ys[i].y.s < ys[i].y.b /\ ys[i].y.b <= Beyond
                 /\ ys[i].xs # <<>> /\ ProperBands(ys[i].xs)
      <4>1. CASE i = n + 1
        BY <1>0, <1>3, <2>5, <4>1 DEF EmptyBand
      <4>2. CASE i # n + 1
        <5>1. i \in 1 .. n /\ ys[i] = out[i]
          BY <2>4, <2>6, <4>2
        <5> QED BY <5>1, RowTypes
      <4> QED BY <4>1, <4>2
    <3>2. ASSUME NEW i \in 1 .. n + 1, NEW k \in 1 .. n + 1, i < k PROVE ys[i].y.b <= ys[k].y.s
      <4>1. i \in 1 .. n /\ ys[i] = out[i]
        <5>1. i # n + 1
          BY <2>0, <3>2
        <5> QED BY <2>4, <2>6, <5>1
      <4>2. CASE k = n + 1
        BY <2>5, <2>7, <4>1, <4>2
      <4>3. CASE k # n + 1
        <5>1. k \in 1 .. n /\ ys[k] = out[k]
          BY <2>4, <2>6, <4>3
        <5> QED BY <3>2, <4>1, <5>1 DEF ProperRows
      <4> QED BY <4>2, <4>3
    <3> HIDE DEF n
    <3> QED BY <2>3, <3>1, <3>2 DEF ProperRows
  <2>9. Apart(ys)
    <3>1. ASSUME NEW i \in 1 .. n, ys[i].y.b = ys[i + 1].y.s PROVE ys[i].xs # ys[i + 1].xs
      <4>1. CASE i = n
        <5>1. ys[i] = out[n] /\ ys[i + 1].y = y /\ ys[i + 1].xs = xs
          BY <2>4, <2>5, <4>1
        <5>2. out # <<>> /\ Last(out) = out[n]
          BY <2>0 DEF Last
        <5> QED BY <1>3, <3>1, <5>1, <5>2 DEF CanMerge
      <4>2. CASE i # n
        <5>1. i \in 1 .. n - 1 /\ i + 1 \in 1 .. n
          <6> HIDE DEF n
          <6> QED BY <2>0, <4>2
        <5>2. ys[i] = out[i] /\ ys[i + 1] = out[i + 1]
          BY <2>4, <5>1
        <5> QED BY <3>1, <5>1, <5>2 DEF Apart
      <4> QED BY <4>1, <4>2
    <3>2. Len(ys) - 1 = n
      BY <2>0, <2>3
    <3> HIDE DEF n
    <3> QED BY <3>1, <3>2 DEF Apart
  <2>10. ASSUME NEW h \in Nat, NEW v \in Nat
         PROVE  Owns(h, v, ys) <=> Owns(h, v, out) \/ (Inside(v, y) /\ Covered(h, xs))
    BY <2>3, <2>4, <2>5, <2>6 DEF Owns
  <2>11. ASSUME NEW f \in Nat, RowsEndBy(out, f), y.b <= f PROVE RowsEndBy(ys, f)
    BY <2>3, <2>4, <2>5, <2>6, <2>11 DEF RowsEndBy
  <2> QED BY <1>3, <2>8, <2>9, <2>10, <2>11 DEF ys
<1> QED BY <1>1, <1>2, <1>3

(* What two rows add to rows that end before both.                          *)
LEMMA RowOpEffect ==
    ASSUME NEW out, ProperRows(out), Apart(out), NEW r0, NEW r1, NEW c, NEW op \in Ops,
           c.lay.small \in Bands, c.lay.both \in Bands,
           EmptyBand(c.lay.small) \/ (c.lay.small.b <= Beyond /\ RowsEndBy(out, c.lay.small.s)),
           EmptyBand(c.lay.both) \/ (c.lay.both.b <= Beyond /\ RowsEndBy(out, c.lay.both.s)),
           ~EmptyBand(c.lay.small) /\ ~EmptyBand(c.lay.both) => c.lay.small.b = c.lay.both.s,
           ProperBands(IF c.first THEN r0.xs ELSE r1.xs),
           EmptyBand(c.lay.both) \/ (ProperBands(r0.xs) /\ ProperBands(r1.xs))
    PROVE  /\ ProperRows(RowOp(out, r0, r1, c, op)) /\ Apart(RowOp(out, r0, r1, c, op))
           /\ \A h, v \in Nat : Owns(h, v, RowOp(out, r0, r1, c, op)) <=>
                \/ Owns(h, v, out)
                \/ /\ Keeps(op, c.first) /\ Inside(v, c.lay.small)
                   /\ Covered(h, IF c.first THEN r0.xs ELSE r1.xs)
                \/ Inside(v, c.lay.both) /\ Combined(op, Covered(h, r0.xs), Covered(h, r1.xs))
           /\ \A f \in Nat : /\ RowsEndBy(out, f)
                             /\ EmptyBand(c.lay.small) \/ c.lay.small.b <= f
                             /\ EmptyBand(c.lay.both) \/ c.lay.both.b <= f
                             => RowsEndBy(RowOp(out, r0, r1, c, op), f)
<1> DEFINE small == c.lay.small
           both == c.lay.both
           xs == IF c.first THEN r0.xs ELSE r1.xs
           swept == Sweep(r0.xs, r1.xs, op)
           mid == IF Keeps(op, c.first) THEN AddRow(out, small, xs) ELSE out
           end == RowOp(out, r0, r1, c, op)
<1>1. end = IF EmptyBand(both) THEN mid ELSE AddRow(mid, both, swept)
  BY DEF RowOp
<1>2. /\ ProperRows(mid) /\ Apart(mid)
      /\ \A h, v \in Nat : Owns(h, v, mid) <=>
           Owns(h, v, out) \/ (Keeps(op, c.first) /\ Inside(v, small) /\ Covered(h, xs))
      /\ \A f \in Nat : RowsEndBy(out, f) /\ (EmptyBand(small) \/ small.b <= f) => RowsEndBy(mid, f)
  <2> HIDE DEF xs
  <2>0. ProperBands(xs)
    BY DEF xs
  <2>1. CASE Keeps(op, c.first)
    <3>1. mid = AddRow(out, small, xs)
      BY <2>1
    <3> HIDE DEF mid
    <3> QED BY <2>0, <2>1, <3>1, AddRowEffect
  <2>2. CASE ~Keeps(op, c.first)
    <3>1. mid = out
      BY <2>2
    <3> HIDE DEF mid
    <3> QED BY <2>2, <3>1
  <2> QED BY <2>1, <2>2
<1>3. EmptyBand(both) \/ (both.b <= Beyond /\ RowsEndBy(mid, both.s))
  <2>1. SUFFICES ASSUME ~EmptyBand(both) PROVE RowsEndBy(mid, both.s)
    OBVIOUS
  <2>2. both.s \in Nat /\ small.b \in Nat /\ RowsEndBy(out, both.s)
    BY <2>1 DEF Bands
  <2>3. EmptyBand(small) \/ small.b <= both.s
    BY <2>1, <2>2
  <2> HIDE DEF mid, small, both
  <2> QED BY <1>2, <2>2, <2>3
<1>4. CASE ~EmptyBand(both)
  <2>1. end = AddRow(mid, both, swept)
    BY <1>1, <1>4
  <2>2. /\ ProperBands(swept)
        /\ \A h \in Nat : Covered(h, swept) <=> Combined(op, Covered(h, r0.xs), Covered(h, r1.xs))
    BY <1>4, SweepEffect
  <2> HIDE DEF mid, swept, xs, end
  <2>3. /\ ProperRows(end) /\ Apart(end)
        /\ \A h, v \in Nat : Owns(h, v, end) <=> Owns(h, v, mid) \/ (Inside(v, both) /\ Covered(h, swept))
        /\ \A f \in Nat : RowsEndBy(mid, f) /\ (EmptyBand(both) \/ both.b <= f) => RowsEndBy(end, f)
    BY <1>2, <1>3, <2>1, <2>2, AddRowEffect
  <2>4. ASSUME NEW h \in Nat, NEW v \in Nat
        PROVE  Owns(h, v, end) <=>
                \/ Owns(h, v, out)
                \/ /\ Keeps(op, c.first) /\ Inside(v, small)
                   /\ Covered(h, xs)
                \/ Inside(v, both) /\ Combined(op, Covered(h, r0.xs), Covered(h, r1.xs))
    BY <1>2, <2>2, <2>3
  <2> HIDE DEF small, both
  <2>5. ASSUME NEW f \in Nat, RowsEndBy(out, f), EmptyBand(small) \/ small.b <= f,
               EmptyBand(both) \/ both.b <= f
        PROVE  RowsEndBy(end, f)
    BY <1>2, <2>3, <2>5
  <2> QED BY <2>3, <2>4, <2>5 DEF end, xs, small, both
<1>5. CASE EmptyBand(both)
  <2>1. end = mid
    BY <1>1, <1>5
  <2>2. \A v \in Nat : ~Inside(v, both)
    BY <1>5 DEF Bands, EmptyBand, Inside
  <2> HIDE DEF mid, xs, end
  <2>4. ASSUME NEW h \in Nat, NEW v \in Nat
        PROVE  Owns(h, v, end) <=>
                \/ Owns(h, v, out)
                \/ /\ Keeps(op, c.first) /\ Inside(v, small)
                   /\ Covered(h, xs)
                \/ Inside(v, both) /\ Combined(op, Covered(h, r0.xs), Covered(h, r1.xs))
    BY <1>2, <2>1, <2>2
  <2> HIDE DEF small, both
  <2> QED BY <1>2, <2>1, <2>4 DEF end, xs, small, both
<1> QED BY <1>4, <1>5

(* The first of some rows, and the others.                                  *)
LEMMA HeadOfRows ==
    ASSUME NEW g, ProperRows(g), g # <<>>
    PROVE  /\ Head(g).y \in Bands /\ Head(g).y.s < Head(g).y.b /\ Head(g).y.b <= Beyond
           /\ ProperBands(Head(g).xs)
           /\ ProperRows(Tail(g)) /\ Len(Tail(g)) = Len(g) - 1
           /\ RowsBeginAt(Tail(g), Head(g).y.b)
           /\ \A h, v \in Nat :
                /\ Owns(h, v, g) <=> (Inside(v, Head(g).y) /\ Covered(h, Head(g).xs)) \/ Owns(h, v, Tail(g))
                /\ Owns(h, v, Tail(g)) => Head(g).y.b <= v
<1> DEFINE n == Len(g)
           ys == Tail(g)
<1>1. g \in Seq(Rows) /\ n \in Nat /\ n >= 1 /\ 1 \in 1 .. n /\ Head(g) = g[1]
  BY DEF ProperRows
<1>2. ys \in Seq(Rows) /\ Len(ys) = n - 1 /\ \A j \in 1 .. n - 1 : ys[j] = g[j + 1]
  BY <1>1
<1>3. \A j \in 1 .. n : /\ g[j].y \in Bands /\ g[j].y.s \in Nat /\ g[j].y.b \in Nat
                        /\ g[j].y.s < g[j].y.b /\ g[j].y.b <= Beyond
                        /\ g[j].xs # <<>> /\ ProperBands(g[j].xs)
  BY RowTypes
<1>4. \A j \in 1 .. n - 1 : j + 1 \in 1 .. n /\ 1 < j + 1
  BY <1>1
<1>5. \A j, k \in 1 .. n : j < k => g[j].y.b <= g[k].y.s
  BY DEF ProperRows
<1> HIDE DEF n, ys
<1>6. ProperRows(ys)
  <2>1. ASSUME NEW j \in 1 .. n - 1, NEW k \in 1 .. n - 1, j < k
        PROVE  ys[j].y.b <= ys[k].y.s
    <3>1. j + 1 \in 1 .. n /\ k + 1 \in 1 .. n /\ j + 1 < k + 1
      BY <1>1, <2>1
    <3> QED BY <1>2, <1>5, <3>1
  <2>2. ASSUME NEW j \in 1 .. n - 1
        PROVE  ys[j].y.s < ys[j].y.b /\ ys[j].y.b <= Beyond /\ ys[j].xs # <<>> /\ ProperBands(ys[j].xs)
    <3>1. j + 1 \in 1 .. n /\ ys[j] = g[j + 1]
      BY <1>2, <1>4
    <3> QED BY <1>3, <3>1
  <2> QED BY <1>2, <2>1, <2>2 DEF ProperRows
<1>7. \A j \in 1 .. n - 1 : g[1].y.b <= ys[j].y.s
  BY <1>1, <1>2, <1>4, <1>5
<1>8. RowsBeginAt(ys, g[1].y.b)
  BY <1>2, <1>7 DEF RowsBeginAt
<1>9. ASSUME NEW h \in Nat, NEW v \in Nat
      PROVE  Owns(h, v, g) <=> (Inside(v, g[1].y) /\ Covered(h, g[1].xs)) \/ Owns(h, v, ys)
  <2>1. ASSUME NEW j \in 1 .. n, Inside(v, g[j].y) /\ Covered(h, g[j].xs)
        PROVE (Inside(v, g[1].y) /\ Covered(h, g[1].xs)) \/ Owns(h, v, ys)
    <3>1. CASE j # 1
      <4>1. j - 1 \in 1 .. n - 1 /\ ys[j - 1] = g[j]
        <5>1. j - 1 \in 1 .. n - 1 /\ j - 1 + 1 = j
          BY <1>1, <3>1
        <5> QED BY <1>2, <5>1
      <4> QED BY <1>2, <2>1, <4>1 DEF Owns
    <3> QED BY <2>1, <3>1
  <2>2. Inside(v, g[1].y) /\ Covered(h, g[1].xs) => Owns(h, v, g)
    BY <1>1 DEF Owns, n
  <2>3. Owns(h, v, ys) => Owns(h, v, g)
    <3>1. ASSUME NEW j \in 1 .. n - 1, Inside(v, ys[j].y) /\ Covered(h, ys[j].xs)
          PROVE  Owns(h, v, g)
      <4>1. j + 1 \in 1 .. n /\ ys[j] = g[j + 1]
        BY <1>2, <1>4
      <4> QED BY <3>1, <4>1 DEF Owns, n
    <3> QED BY <1>2, <3>1 DEF Owns
  <2> QED BY <2>1, <2>2, <2>3 DEF Owns, n
<1>10. ASSUME NEW h \in Nat, NEW v \in Nat, Owns(h, v, ys)
       PROVE  g[1].y.b <= v
  <2>1. PICK j \in 1 .. n - 1 : Inside(v, ys[j].y)
    BY <1>2, <1>10 DEF Owns
  <2>2. ys[j].y.s \in Nat
    <3>1. j + 1 \in 1 .. n /\ ys[j] = g[j + 1]
      BY <1>2, <1>4
    <3> QED BY <1>3, <3>1
  <2>3. g[1].y.b <= ys[j].y.s /\ ys[j].y.s <= v
    BY <1>7, <2>1 DEF Inside
  <2> QED BY <1>1, <1>3, <2>2, <2>3
<1>11. ProperRows(Tail(g)) /\ Len(Tail(g)) = Len(g) - 1 /\ RowsBeginAt(Tail(g), Head(g).y.b)
  BY <1>1, <1>2, <1>6, <1>8 DEF n, ys
<1>12. \A h, v \in Nat :
                /\ Owns(h, v, g) <=> (Inside(v, Head(g).y) /\ Covered(h, Head(g).xs)) \/ Owns(h, v, Tail(g))
                /\ Owns(h, v, Tail(g)) => Head(g).y.b <= v
  BY <1>1, <1>9, <1>10 DEF ys
<1> QED BY <1>1, <1>3, <1>11, <1>12

(* What a turn leaves of the rows of an operand.                            *)
LEMMA RestRowsEffect ==
    ASSUME NEW g, ProperRows(g), g # <<>>, NEW lay, lay.big \in Bands,
           NEW mine \in BOOLEAN,
           mine /\ ~EmptyBand(lay.big) =>
             lay.big.b = Head(g).y.b /\ Head(g).y.s <= lay.big.s
    PROVE  /\ ProperRows(RestRows(g, lay, mine))
           /\ Len(RestRows(g, lay, mine)) = IF mine /\ ~EmptyBand(lay.big) THEN Len(g) ELSE Len(g) - 1
           /\ \A h, v \in Nat : Owns(h, v, RestRows(g, lay, mine)) <=>
                                 \/ mine /\ Inside(v, lay.big) /\ Covered(h, Head(g).xs)
                                 \/ Owns(h, v, Tail(g))
           /\ \A f \in Nat : (IF mine /\ ~EmptyBand(lay.big) THEN f <= lay.big.s ELSE f <= Head(g).y.b)
                             => RowsBeginAt(RestRows(g, lay, mine), f)
<1> DEFINE n == Len(g)
           ts == Tail(g)
           ys == RestRows(g, lay, mine)
           big == lay.big
           new == [Head(g) EXCEPT !.y = big]
<1>0. /\ Head(g).y \in Bands /\ Head(g).y.s < Head(g).y.b /\ Head(g).y.b <= Beyond
      /\ ProperRows(ts) /\ Len(ts) = n - 1 /\ RowsBeginAt(ts, Head(g).y.b) /\ ProperBands(Head(g).xs)
  BY HeadOfRows
<1>1. g \in Seq(Rows) /\ n \in Nat /\ n >= 1 /\ 1 \in 1 .. n /\ Head(g) = g[1]
  BY DEF ProperRows
<1>2. big.s \in Nat /\ big.b \in Nat /\ g[1].y.s \in Nat /\ g[1].y.b \in Nat
  BY <1>0, <1>1 DEF Bands
<1>3. ts \in Seq(Rows) /\ \A j \in 1 .. n - 1 : /\ ts[j].y.s \in Nat /\ ts[j].y.b \in Nat
                                                /\ ts[j].y.s < ts[j].y.b /\ ts[j].y.b <= Beyond
                                                /\ ts[j].xs # <<>> /\ ProperBands(ts[j].xs)
  <2>1. ts \in Seq(Rows)
    BY <1>0 DEF ProperRows
  <2> HIDE DEF ts
  <2> QED BY <1>0, <2>1, RowTypes
<1>4. CASE mine /\ ~EmptyBand(big)
  <2>1. ys = <<new>> \o ts
    BY <1>4 DEF RestRows
  <2>2. new \in Rows /\ new.y = big /\ new.xs = g[1].xs
    <3>1. g[1] \in Rows
      BY <1>1
    <3> QED BY <1>1, <3>1 DEF Rows
  <2>3. ys \in Seq(Rows) /\ Len(ys) = n /\ \A j \in 1 .. n : ys[j] = IF j = 1 THEN new ELSE ts[j - 1]
    <3> HIDE DEF ts, big, new
    <3>1. <<new>> \in Seq(Rows) /\ Len(<<new>>) = 1
      BY <2>2
    <3> QED BY <1>0, <1>1, <1>3, <2>1, <3>1
  <2>4. big.b = g[1].y.b /\ g[1].y.s <= big.s /\ big.s < big.b
    BY <1>1, <1>2, <1>4 DEF EmptyBand
  <2>5. ys[1].y = big /\ ys[1].xs = g[1].xs /\ ProperBands(g[1].xs) /\ g[1].xs # <<>>
    <3>1. ProperBands(g[1].xs) /\ g[1].xs # <<>>
      BY <1>1, RowTypes
    <3>2. ys[1] = new
      BY <1>1, <2>3
    <3> HIDE DEF new, ys, big
    <3> QED BY <2>2, <3>1, <3>2
  <2> HIDE DEF ys, ts, n, big, new
  <2>6. \A j \in 1 .. n : j # 1 => j - 1 \in 1 .. n - 1 /\ ys[j] = ts[j - 1]
    BY <1>1, <2>3
  <2>7. \A j \in 1 .. n - 1 : j + 1 \in 1 .. n /\ j + 1 # 1 /\ ys[j + 1] = ts[j]
    <3>1. ASSUME NEW j \in 1 .. n - 1 PROVE j + 1 \in 1 .. n /\ j + 1 # 1 /\ j + 1 - 1 = j
      BY <1>1
    <3> QED BY <2>6, <3>1
  <2>8. ProperRows(ys)
    <3>1. ASSUME NEW j \in 1 .. n
          PROVE ys[j].y.s < ys[j].y.b /\ ys[j].y.b <= Beyond /\ ys[j].xs # <<>> /\ ProperBands(ys[j].xs)
      <4>1. CASE j = 1
        BY <1>0, <1>1, <2>4, <2>5, <4>1
      <4>2. CASE j # 1
        <5>1. j - 1 \in 1 .. n - 1 /\ ys[j] = ts[j - 1]
          BY <2>6, <4>2
        <5> QED BY <1>3, <5>1
      <4> QED BY <4>1, <4>2
    <3>2. ASSUME NEW j \in 1 .. n, NEW k \in 1 .. n, j < k PROVE ys[j].y.b <= ys[k].y.s
      <4>1. k # 1 /\ k - 1 \in 1 .. n - 1 /\ ys[k] = ts[k - 1]
        BY <1>1, <2>6, <3>2
      <4>2. CASE j = 1
        <5>1. g[1].y.b <= ts[k - 1].y.s
          BY <1>0, <1>1, <4>1 DEF RowsBeginAt
        <5> QED BY <2>4, <2>5, <4>1, <4>2, <5>1
      <4>3. CASE j # 1
        <5>1. j - 1 \in 1 .. n - 1 /\ ys[j] = ts[j - 1] /\ j - 1 < k - 1
          BY <1>1, <2>6, <3>2, <4>3
        <5> QED BY <1>0, <4>1, <5>1 DEF ProperRows
      <4> QED BY <4>2, <4>3
    <3> QED BY <2>3, <3>1, <3>2 DEF ProperRows
  <2>9. ASSUME NEW h \in Nat, NEW v \in Nat
        PROVE  Owns(h, v, ys) <=> (Inside(v, big) /\ Covered(h, g[1].xs)) \/ Owns(h, v, ts)
    <3>1. Owns(h, v, ys) => (Inside(v, big) /\ Covered(h, g[1].xs)) \/ Owns(h, v, ts)
      <4>1. ASSUME NEW j \in 1 .. n, Inside(v, ys[j].y), Covered(h, ys[j].xs)
            PROVE  (Inside(v, big) /\ Covered(h, g[1].xs)) \/ Owns(h, v, ts)
        <5>1. CASE j = 1
          BY <2>5, <4>1, <5>1
        <5>2. CASE j # 1
          <6>1. j - 1 \in 1 .. n - 1 /\ ys[j] = ts[j - 1]
            BY <2>6, <5>2
          <6> QED BY <1>0, <4>1, <6>1 DEF Owns
        <5> QED BY <5>1, <5>2
      <4> QED BY <2>3, <4>1 DEF Owns
    <3>2. Inside(v, big) /\ Covered(h, g[1].xs) => Owns(h, v, ys)
      BY <1>1, <2>3, <2>5 DEF Owns
    <3>3. Owns(h, v, ts) => Owns(h, v, ys)
      <4>1. ASSUME NEW j \in 1 .. n - 1, Inside(v, ts[j].y), Covered(h, ts[j].xs)
            PROVE  Owns(h, v, ys)
        <5>1. j + 1 \in 1 .. n /\ ys[j + 1] = ts[j]
          BY <2>7
        <5> QED BY <2>3, <4>1, <5>1 DEF Owns
      <4> QED BY <1>0, <4>1 DEF Owns
    <3> QED BY <3>1, <3>2, <3>3
  <2>10. ASSUME NEW f \in Nat, f <= big.s PROVE RowsBeginAt(ys, f)
    <3>1. ASSUME NEW j \in 1 .. n PROVE f <= ys[j].y.s
      <4>1. CASE j = 1
        BY <2>5, <2>10, <4>1
      <4>2. CASE j # 1
        <5>1. j - 1 \in 1 .. n - 1 /\ ys[j] = ts[j - 1]
          BY <2>6, <4>2
        <5>2. g[1].y.b <= ts[j - 1].y.s /\ ts[j - 1].y.s \in Nat
          BY <1>0, <1>1, <1>3, <5>1 DEF RowsBeginAt
        <5> QED BY <1>2, <2>4, <2>10, <5>1, <5>2
      <4> QED BY <4>1, <4>2
    <3> QED BY <2>3, <3>1 DEF RowsBeginAt
  <2> QED BY <1>1, <1>4, <2>3, <2>8, <2>9, <2>10 DEF ys, n, ts, big
<1>5. CASE ~(mine /\ ~EmptyBand(big))
  <2>1. ys = ts
    BY <1>5 DEF RestRows
  <2>2. ASSUME NEW v \in Nat PROVE ~(mine /\ Inside(v, big))
    BY <1>2, <1>5 DEF EmptyBand, Inside
  <2>3. ASSUME NEW f \in Nat, f <= g[1].y.b PROVE RowsBeginAt(ts, f)
    <3>1. ASSUME NEW j \in 1 .. n - 1 PROVE f <= ts[j].y.s
      <4>1. g[1].y.b <= ts[j].y.s /\ ts[j].y.s \in Nat
        BY <1>0, <1>1, <1>3 DEF RowsBeginAt
      <4> QED BY <1>2, <2>3, <4>1
    <3> HIDE DEF ts
    <3> QED BY <1>0, <3>1 DEF RowsBeginAt
  <2> HIDE DEF ts
  <2> QED BY <1>0, <1>1, <1>5, <2>1, <2>2, <2>3 DEF ts
<1> QED BY <1>4, <1>5

(* The state of the loop over rows, and what it stands for at a place.      *)
TurnReady(t) ==
  /\ ProperRows(t.g0) /\ ProperRows(t.g1) /\ ProperRows(t.out) /\ Apart(t.out)
  /\ \E f \in Nat : RowsEndBy(t.out, f) /\ RowsBeginAt(t.g0, f) /\ RowsBeginAt(t.g1, f)
TurnedTo(t, op, h, v) ==
  Owns(h, v, t.out) \/ Combined(op, Owns(h, v, t.g0), Owns(h, v, t.g1))

(* Rows that end by f end by what is greater.                               *)
LEMMA RowsEndByMore ==
    ASSUME NEW out, ProperRows(out), NEW f \in Nat, NEW g \in Nat, f <= g, RowsEndBy(out, f)
    PROVE  RowsEndBy(out, g)
<1>1. \A j \in 1 .. Len(out) : out[j].y.b \in Nat
  BY RowTypes
<1> QED BY <1>1 DEF RowsEndBy

(* A turn while both regions have rows.                                     *)
LEMMA RgnTurnBoth ==
    ASSUME NEW t, TurnReady(t), NEW op \in Ops, t.g0 # <<>>, t.g1 # <<>>
    PROVE  /\ TurnReady(RgnTurn(t, op))
           /\ \A h, v \in Nat : TurnedTo(RgnTurn(t, op), op, h, v) <=> TurnedTo(t, op, h, v)
           /\ Len(RgnTurn(t, op).g0) + Len(RgnTurn(t, op).g1) <= Len(t.g0) + Len(t.g1) - 1
<1> DEFINE r0 == Head(t.g0)
           r1 == Head(t.g1)
           b0 == r0.y
           b1 == r1.y
           c == Compared(b0, b1)
           u == RgnTurn(t, op)
           ys0 == RestRows(t.g0, c.lay, c.bottom0)
           ys1 == RestRows(t.g1, c.lay, ~c.bottom0)
           out == RowOp(t.out, r0, r1, c, op)
           g == IF c.bottom0 /\ ~EmptyBand(c.lay.big) THEN b1.b ELSE b0.b
<1>1. u.g0 = ys0 /\ u.g1 = ys1 /\ u.out = out
  BY DEF RgnTurn
<1>2. ProperRows(t.g0) /\ ProperRows(t.g1) /\ ProperRows(t.out) /\ Apart(t.out)
  BY DEF TurnReady
<1>3. PICK f \in Nat : RowsEndBy(t.out, f) /\ RowsBeginAt(t.g0, f) /\ RowsBeginAt(t.g1, f)
  BY DEF TurnReady
<1>4. /\ b0 \in Bands /\ b0.s < b0.b /\ b0.b <= Beyond /\ ProperBands(r0.xs)
      /\ \A h, v \in Nat :
           /\ Owns(h, v, t.g0) <=> (Inside(v, b0) /\ Covered(h, r0.xs)) \/ Owns(h, v, Tail(t.g0))
           /\ Owns(h, v, Tail(t.g0)) => b0.b <= v
  BY <1>2, HeadOfRows
<1>5. /\ b1 \in Bands /\ b1.s < b1.b /\ b1.b <= Beyond /\ ProperBands(r1.xs)
      /\ \A h, v \in Nat :
           /\ Owns(h, v, t.g1) <=> (Inside(v, b1) /\ Covered(h, r1.xs)) \/ Owns(h, v, Tail(t.g1))
           /\ Owns(h, v, Tail(t.g1)) => b1.b <= v
  BY <1>2, HeadOfRows
<1>6. f <= b0.s /\ f <= b1.s
  <2>1. t.g0 \in Seq(Rows) /\ t.g1 \in Seq(Rows)
    BY <1>2 DEF ProperRows
  <2>2. 1 \in 1 .. Len(t.g0) /\ 1 \in 1 .. Len(t.g1) /\ b0 = t.g0[1].y /\ b1 = t.g1[1].y
    BY <2>1
  <2> QED BY <1>3, <2>2 DEF RowsBeginAt
<1> HIDE DEF u, b0, b1
<1>7. CutsFor(b0, b1, c) /\ CutsInOrder(b0, b1, c)
  BY <1>4, <1>5, ComparedCuts
<1> HIDE DEF c
<1>8. /\ c.lay.small \in Bands /\ c.lay.both \in Bands /\ c.lay.big \in Bands
      /\ c.first \in BOOLEAN /\ c.bottom0 \in BOOLEAN
  BY <1>7 DEF CutsFor
<1>9. /\ b0.s \in Nat /\ b0.b \in Nat /\ b1.s \in Nat /\ b1.b \in Nat /\ Beyond \in Nat
      /\ c.lay.small.s \in Nat /\ c.lay.small.b \in Nat /\ c.lay.both.s \in Nat
      /\ c.lay.both.b \in Nat /\ c.lay.big.s \in Nat /\ c.lay.big.b \in Nat
  BY <1>4, <1>5, <1>8, RegionAssumption DEF Bands, RegionAssumption
<1>10. /\ EmptyBand(c.lay.small) \/ (c.lay.small.b <= Beyond /\ RowsEndBy(t.out, c.lay.small.s))
       /\ EmptyBand(c.lay.both) \/ (c.lay.both.b <= Beyond /\ RowsEndBy(t.out, c.lay.both.s))
       /\ ~EmptyBand(c.lay.small) /\ ~EmptyBand(c.lay.both) => c.lay.small.b = c.lay.both.s
  <2>1. EmptyBand(c.lay.small) \/ (c.lay.small.b <= Beyond /\ f <= c.lay.small.s)
    BY <1>4, <1>6, <1>7, <1>9 DEF CutsInOrder
  <2>2. EmptyBand(c.lay.both) \/ (c.lay.both.b <= Beyond /\ f <= c.lay.both.s)
    BY <1>4, <1>6, <1>7, <1>9 DEF CutsInOrder
  <2>3. ~EmptyBand(c.lay.small) /\ ~EmptyBand(c.lay.both) => c.lay.small.b = c.lay.both.s
    BY <1>7 DEF CutsInOrder
  <2> QED BY <1>2, <1>3, <1>9, <2>1, <2>2, <2>3, RowsEndByMore
<1> DEFINE xs == IF c.first THEN r0.xs ELSE r1.xs
<1>11. /\ ProperRows(out) /\ Apart(out)
       /\ \A h, v \in Nat : Owns(h, v, out) <=>
            \/ Owns(h, v, t.out)
            \/ Keeps(op, c.first) /\ Inside(v, c.lay.small) /\ Covered(h, xs)
            \/ Inside(v, c.lay.both) /\ Combined(op, Covered(h, r0.xs), Covered(h, r1.xs))
       /\ RowsEndBy(t.out, g) /\ (EmptyBand(c.lay.small) \/ c.lay.small.b <= g)
            /\ (EmptyBand(c.lay.both) \/ c.lay.both.b <= g) => RowsEndBy(out, g)
  <2>1. g \in Nat
    BY <1>9
  <2> HIDE DEF g, out, r0, r1
  <2>2. /\ ProperRows(out) /\ Apart(out)
        /\ \A h, v \in Nat : Owns(h, v, out) <=>
             \/ Owns(h, v, t.out)
             \/ /\ Keeps(op, c.first) /\ Inside(v, c.lay.small)
                /\ Covered(h, IF c.first THEN r0.xs ELSE r1.xs)
             \/ Inside(v, c.lay.both) /\ Combined(op, Covered(h, r0.xs), Covered(h, r1.xs))
        /\ \A k \in Nat : /\ RowsEndBy(t.out, k)
                          /\ EmptyBand(c.lay.small) \/ c.lay.small.b <= k
                          /\ EmptyBand(c.lay.both) \/ c.lay.both.b <= k
                          => RowsEndBy(out, k)
    BY <1>2, <1>4, <1>5, <1>8, <1>10, RowOpEffect DEF out
  <2> QED BY <2>1, <2>2
<1>12. g \in Nat /\ RowsEndBy(out, g)
  <2>1. g \in Nat /\ f <= g
    BY <1>4, <1>5, <1>6, <1>9
  <2>2. EmptyBand(c.lay.small) \/ c.lay.small.b <= g
    BY <1>7, <1>9 DEF CutsInOrder
  <2>3. EmptyBand(c.lay.both) \/ c.lay.both.b <= g
    BY <1>7, <1>9 DEF CutsInOrder
  <2> HIDE DEF g, out, xs
  <2>4. RowsEndBy(t.out, g)
    BY <1>2, <1>3, <2>1, RowsEndByMore
  <2> QED BY <1>11, <2>1, <2>2, <2>3, <2>4
<1>13. /\ ProperRows(ys0)
       /\ Len(ys0) = IF c.bottom0 /\ ~EmptyBand(c.lay.big) THEN Len(t.g0) ELSE Len(t.g0) - 1
       /\ \A h, v \in Nat : Owns(h, v, ys0) <=>
            \/ c.bottom0 /\ Inside(v, c.lay.big) /\ Covered(h, r0.xs)
            \/ Owns(h, v, Tail(t.g0))
       /\ RowsBeginAt(ys0, g)
  <2>1. c.bottom0 /\ ~EmptyBand(c.lay.big) => c.lay.big.b = r0.y.b /\ r0.y.s <= c.lay.big.s
    BY <1>7 DEF CutsInOrder, b0
  <2>2. IF c.bottom0 /\ ~EmptyBand(c.lay.big) THEN g <= c.lay.big.s ELSE g <= r0.y.b
    BY <1>7, <1>9 DEF CutsInOrder, b0
  <2>3. g \in Nat
    BY <1>12
  <2> HIDE DEF g
  <2> QED BY <1>2, <1>8, <2>1, <2>2, <2>3, RestRowsEffect
<1>14. /\ ProperRows(ys1)
       /\ Len(ys1) = IF ~c.bottom0 /\ ~EmptyBand(c.lay.big) THEN Len(t.g1) ELSE Len(t.g1) - 1
       /\ \A h, v \in Nat : Owns(h, v, ys1) <=>
            \/ ~c.bottom0 /\ Inside(v, c.lay.big) /\ Covered(h, r1.xs)
            \/ Owns(h, v, Tail(t.g1))
       /\ RowsBeginAt(ys1, g)
  <2>1. ~c.bottom0 /\ ~EmptyBand(c.lay.big) => c.lay.big.b = r1.y.b /\ r1.y.s <= c.lay.big.s
    BY <1>7 DEF CutsInOrder, b1
  <2>2. IF ~c.bottom0 /\ ~EmptyBand(c.lay.big) THEN g <= c.lay.big.s ELSE g <= r1.y.b
    BY <1>7, <1>9 DEF CutsInOrder, b1
  <2>3. g \in Nat /\ (~c.bottom0) \in BOOLEAN
    BY <1>12
  <2> HIDE DEF g
  <2> QED BY <1>2, <1>8, <2>1, <2>2, <2>3, RestRowsEffect
<1>15. TurnReady(u)
  <2> HIDE DEF ys0, ys1, out, g, xs
  <2> QED BY <1>1, <1>11, <1>12, <1>13, <1>14 DEF TurnReady
<1>16. ASSUME NEW h \in Nat, NEW v \in Nat
       PROVE  TurnedTo(u, op, h, v) <=> TurnedTo(t, op, h, v)
  <2> DEFINE S == Inside(v, c.lay.small)
             B == Inside(v, c.lay.both)
             G == Inside(v, c.lay.big)
             C0 == Covered(h, r0.xs)
             C1 == Covered(h, r1.xs)
             T0 == Owns(h, v, Tail(t.g0))
             T1 == Owns(h, v, Tail(t.g1))
             O == Owns(h, v, t.out)
  <2>1. /\ Inside(v, b0) <=> (c.first /\ S) \/ B \/ (c.bottom0 /\ G)
        /\ Inside(v, b1) <=> (~c.first /\ S) \/ B \/ (~c.bottom0 /\ G)
        /\ ~(S /\ B) /\ ~(S /\ G) /\ ~(B /\ G)
    BY <1>7 DEF CutsFor
  <2>2. T0 \/ T1 => ~S /\ ~B
    <3>1. T0 \/ T1 => b0.b <= v \/ b1.b <= v
      BY <1>4, <1>5
    <3>2. S => v < b0.b /\ v < b1.b
      BY <1>7, <1>9 DEF CutsInOrder, Inside, EmptyBand
    <3>3. B => v < b0.b /\ v < b1.b
      BY <1>7, <1>9 DEF CutsInOrder, Inside, EmptyBand
    <3> HIDE DEF T0, T1, S, B
    <3> QED BY <1>9, <3>1, <3>2, <3>3
  <2>3. S \in BOOLEAN /\ B \in BOOLEAN /\ G \in BOOLEAN /\ T0 \in BOOLEAN /\ T1 \in BOOLEAN
        /\ O \in BOOLEAN /\ C0 \in BOOLEAN /\ C1 \in BOOLEAN
    BY DEF Inside, Covered, Owns
  <2>4. /\ Owns(h, v, t.g0) = ((((c.first /\ S) \/ B \/ (c.bottom0 /\ G)) /\ C0) \/ T0)
        /\ Owns(h, v, t.g1) = ((((~c.first /\ S) \/ B \/ (~c.bottom0 /\ G)) /\ C1) \/ T1)
        /\ Owns(h, v, u.g0) = ((c.bottom0 /\ G /\ C0) \/ T0)
        /\ Owns(h, v, u.g1) = ((~c.bottom0 /\ G /\ C1) \/ T1)
    <3>1. Owns(h, v, t.g0) \in BOOLEAN /\ Owns(h, v, t.g1) \in BOOLEAN
          /\ Owns(h, v, u.g0) \in BOOLEAN /\ Owns(h, v, u.g1) \in BOOLEAN
      BY DEF Owns
    <3> HIDE DEF T0, T1, S, B, G, C0, C1
    <3>2. Owns(h, v, t.g0) <=> ((((c.first /\ S) \/ B \/ (c.bottom0 /\ G)) /\ C0) \/ T0)
      BY <1>4, <2>1 DEF T0, C0
    <3>3. Owns(h, v, t.g1) <=> ((((~c.first /\ S) \/ B \/ (~c.bottom0 /\ G)) /\ C1) \/ T1)
      BY <1>5, <2>1 DEF T1, C1
    <3>4. Owns(h, v, u.g0) <=> ((c.bottom0 /\ G /\ C0) \/ T0)
      BY <1>1, <1>13 DEF T0, G, C0
    <3>5. Owns(h, v, u.g1) <=> ((~c.bottom0 /\ G /\ C1) \/ T1)
      BY <1>1, <1>14 DEF T1, G, C1
    <3> QED BY <3>1, <3>2, <3>3, <3>4, <3>5, Zenon
  <2>5. Owns(h, v, u.out) <=> \/ O
                              \/ Keeps(op, c.first) /\ S /\ (IF c.first THEN C0 ELSE C1)
                              \/ B /\ Combined(op, C0, C1)
    <3>1. Covered(h, xs) <=> IF c.first THEN C0 ELSE C1
      BY <1>8
    <3> HIDE DEF out, xs, r0, r1
    <3> QED BY <1>1, <1>11, <3>1
  <2> HIDE DEF S, B, G, T0, T1, O, C0, C1
  <2>6. O \/ Combined(op, (((c.first /\ S) \/ B \/ (c.bottom0 /\ G)) /\ C0) \/ T0,
                          (((~c.first /\ S) \/ B \/ (~c.bottom0 /\ G)) /\ C1) \/ T1)
        <=> \/ O \/ (Keeps(op, c.first) /\ S /\ (IF c.first THEN C0 ELSE C1)) \/ (B /\ Combined(op, C0, C1))
            \/ Combined(op, (c.bottom0 /\ G /\ C0) \/ T0, (~c.bottom0 /\ G /\ C1) \/ T1)
    <3>1. CASE op = "union"
      BY <2>1, <2>2, <3>1 DEF Combined, Keeps
    <3>2. CASE op = "intersect"
      BY <2>1, <2>2, <3>2 DEF Combined, Keeps
    <3>3. CASE op = "diff"
      BY <2>1, <2>2, <3>3 DEF Combined, Keeps
    <3> QED BY <3>1, <3>2, <3>3 DEF Ops
  <2> QED BY <2>4, <2>5, <2>6 DEF TurnedTo, O
<1>17. Len(u.g0) + Len(u.g1) <= Len(t.g0) + Len(t.g1) - 1
  <2>1. Len(t.g0) \in Nat /\ Len(t.g1) \in Nat
    BY <1>2 DEF ProperRows
  <2>2. Len(u.g0) = Len(ys0) /\ Len(u.g1) = Len(ys1)
    BY <1>1
  <2> HIDE DEF ys0, ys1
  <2>3. CASE EmptyBand(c.lay.big)
    <3>1. Len(ys0) = Len(t.g0) - 1
      BY <1>13, <2>3
    <3>2. Len(ys1) = Len(t.g1) - 1
      BY <1>14, <2>3
    <3> HIDE DEF u
    <3> QED BY <2>1, <2>2, <3>1, <3>2, LessByOne
  <2>4. CASE ~EmptyBand(c.lay.big) /\ c.bottom0
    <3>1. Len(ys0) = Len(t.g0)
      BY <1>13, <2>4
    <3>2. Len(ys1) = Len(t.g1) - 1
      BY <1>14, <2>4
    <3> QED BY <2>1, <2>2, <3>1, <3>2
  <2>5. CASE ~EmptyBand(c.lay.big) /\ ~c.bottom0
    <3>1. Len(ys0) = Len(t.g0) - 1
      BY <1>13, <2>5
    <3>2. Len(ys1) = Len(t.g1)
      BY <1>14, <2>5
    <3> QED BY <2>1, <2>2, <3>1, <3>2
  <2> QED BY <2>3, <2>4, <2>5
<1> QED BY <1>15, <1>16, <1>17 DEF u

(* A turn when one region has no more rows: the first row of the other.     *)
LEMMA RgnTurnAlone ==
    ASSUME NEW t, TurnReady(t), NEW op \in Ops, NEW ofFirst \in BOOLEAN,
           IF ofFirst THEN t.g0 # <<>> /\ t.g1 = <<>> ELSE t.g0 = <<>> /\ t.g1 # <<>>
    PROVE  /\ TurnReady(RgnTurn(t, op))
           /\ \A h, v \in Nat : TurnedTo(RgnTurn(t, op), op, h, v) <=> TurnedTo(t, op, h, v)
           /\ Len(RgnTurn(t, op).g0) + Len(RgnTurn(t, op).g1) <= Len(t.g0) + Len(t.g1) - 1
<1> DEFINE rows == IF ofFirst THEN t.g0 ELSE t.g1
           r == Head(rows)
           b == r.y
           c == [first |-> ofFirst, bottom0 |-> ~ofFirst,
                 lay |-> [small |-> b, both |-> Band(0, 0), big |-> MaxBand, subset |-> FALSE]]
           r0 == IF ofFirst THEN r ELSE MaxRow
           r1 == IF ofFirst THEN MaxRow ELSE r
           u == RgnTurn(t, op)
           out == RowOp(t.out, r0, r1, c, op)
<1>1. /\ ProperRows(t.g0) /\ ProperRows(t.g1) /\ ProperRows(t.out) /\ Apart(t.out)
      /\ rows # <<>> /\ ProperRows(rows)
  BY DEF TurnReady
<1>2. PICK f \in Nat : RowsEndBy(t.out, f) /\ RowsBeginAt(t.g0, f) /\ RowsBeginAt(t.g1, f)
  BY DEF TurnReady
<1>3. /\ b \in Bands /\ b.s < b.b /\ b.b <= Beyond /\ ProperBands(r.xs)
      /\ ProperRows(Tail(rows)) /\ Len(Tail(rows)) = Len(rows) - 1 /\ RowsBeginAt(Tail(rows), b.b)
      /\ \A h, v \in Nat : Owns(h, v, rows) <=> (Inside(v, b) /\ Covered(h, r.xs)) \/ Owns(h, v, Tail(rows))
  <2> HIDE DEF rows
  <2> QED BY <1>1, HeadOfRows
<1>4. f <= b.s /\ b.s \in Nat /\ b.b \in Nat
  <2>1. rows \in Seq(Rows) /\ RowsBeginAt(rows, f)
    BY <1>1, <1>2 DEF ProperRows
  <2>2. 1 \in 1 .. Len(rows) /\ b = rows[1].y
    <3> HIDE DEF rows
    <3> QED BY <1>1, <2>1 DEF b
  <2> HIDE DEF rows, b
  <2> QED BY <1>3, <2>1, <2>2 DEF RowsBeginAt, Bands
<1>5. /\ u.out = out
      /\ u.g0 = IF ofFirst THEN Tail(rows) ELSE <<>>
      /\ u.g1 = IF ofFirst THEN <<>> ELSE Tail(rows)
  <2>0. MaxRow.y = MaxBand
    BY DEF MaxRow
  <2>1. CASE ofFirst
    <3>1. rows = t.g0 /\ t.g0 # <<>> /\ t.g1 = <<>> /\ r0 = r /\ r1 = MaxRow
      BY <2>1
    <3>2. Compared(b, MaxBand) = c
      <4> HIDE DEF b
      <4> QED BY <1>3, <2>1, AloneCuts
    <3>3. u = [g0 |-> RestRows(t.g0, c.lay, c.bottom0), g1 |-> RestRows(t.g1, c.lay, ~c.bottom0),
               out |-> out]
      <4>1. Compared(r0.y, r1.y) = c
        BY <2>0, <3>1, <3>2
      <4> HIDE DEF c
      <4> QED BY <3>1, <4>1 DEF RgnTurn
    <3>4. ~c.bottom0
      BY <2>1
    <3>5. RestRows(t.g0, c.lay, c.bottom0) = Tail(rows) /\ RestRows(t.g1, c.lay, ~c.bottom0) = <<>>
      <4> HIDE DEF c
      <4> QED BY <3>1, <3>4 DEF RestRows
    <3> HIDE DEF c, rows, out
    <3> QED BY <2>1, <3>3, <3>5
  <2>2. CASE ~ofFirst
    <3>1. rows = t.g1 /\ t.g0 = <<>> /\ t.g1 # <<>> /\ r1 = r /\ r0 = MaxRow
      BY <2>2
    <3>2. Compared(MaxBand, b) = c
      <4> HIDE DEF b
      <4>1. ofFirst = FALSE
        BY <2>2
      <4> QED BY <1>3, <4>1, AloneCuts
    <3>3. u = [g0 |-> RestRows(t.g0, c.lay, c.bottom0), g1 |-> RestRows(t.g1, c.lay, ~c.bottom0),
               out |-> out]
      <4>1. Compared(r0.y, r1.y) = c
        BY <2>0, <3>1, <3>2
      <4> HIDE DEF c
      <4> QED BY <3>1, <4>1 DEF RgnTurn
    <3>4. c.bottom0
      BY <2>2
    <3>5. RestRows(t.g1, c.lay, ~c.bottom0) = Tail(rows) /\ RestRows(t.g0, c.lay, c.bottom0) = <<>>
      <4> HIDE DEF c
      <4> QED BY <3>1, <3>4 DEF RestRows
    <3> HIDE DEF c, rows, out
    <3> QED BY <2>2, <3>3, <3>5
  <2> QED BY <2>1, <2>2
<1>6. /\ c.first = ofFirst /\ c.lay.small = b /\ c.lay.both = Band(0, 0)
      /\ c.lay.both \in Bands /\ EmptyBand(c.lay.both) /\ \A v \in Nat : ~Inside(v, c.lay.both)
  BY DEF Bands, Band, EmptyBand, Inside
<1>7. (IF c.first THEN r0.xs ELSE r1.xs) = r.xs
  <2>1. CASE ofFirst
    BY <2>1
  <2>2. CASE ~ofFirst
    BY <2>2
  <2> QED BY <2>1, <2>2
<1> HIDE DEF c, u, b, r0, r1
<1>8. RowsEndBy(t.out, b.s) /\ RowsEndBy(t.out, b.b)
  BY <1>1, <1>2, <1>3, <1>4, RowsEndByMore
<1>9. /\ ProperRows(out) /\ Apart(out)
      /\ \A h, v \in Nat : Owns(h, v, out) <=>
           Owns(h, v, t.out) \/ (Keeps(op, ofFirst) /\ Inside(v, b) /\ Covered(h, r.xs))
      /\ RowsEndBy(out, b.b)
  <2> DEFINE xs == IF c.first THEN r0.xs ELSE r1.xs
  <2>0. xs = r.xs
    BY <1>7
  <2> HIDE DEF xs, r, out
  <2>1. /\ ProperRows(out) /\ Apart(out)
        /\ \A h, v \in Nat : Owns(h, v, out) <=>
             \/ Owns(h, v, t.out)
             \/ /\ Keeps(op, c.first) /\ Inside(v, c.lay.small)
                /\ Covered(h, IF c.first THEN r0.xs ELSE r1.xs)
             \/ Inside(v, c.lay.both) /\ Combined(op, Covered(h, r0.xs), Covered(h, r1.xs))
        /\ \A k \in Nat : /\ RowsEndBy(t.out, k)
                          /\ EmptyBand(c.lay.small) \/ c.lay.small.b <= k
                          /\ EmptyBand(c.lay.both) \/ c.lay.both.b <= k
                          => RowsEndBy(out, k)
    BY <1>1, <1>3, <1>6, <1>7, <1>8, RowOpEffect DEF out
  <2>2. RowsEndBy(out, b.b)
    BY <1>4, <1>6, <1>8, <2>1
  <2>3. ASSUME NEW h \in Nat, NEW v \in Nat
        PROVE  Owns(h, v, out) <=>
                 Owns(h, v, t.out) \/ (Keeps(op, ofFirst) /\ Inside(v, b) /\ Covered(h, r.xs))
    BY <1>6, <1>7, <2>1
  <2> QED BY <2>1, <2>2, <2>3
<1>10. ProperRows(<<>>) /\ RowsBeginAt(<<>>, b.b) /\ \A h, v \in Nat : ~Owns(h, v, <<>>)
  BY DEF ProperRows, RowsBeginAt, Owns
<1> HIDE DEF out
<1>11. TurnReady(u)
  <2> HIDE DEF rows
  <2>1. ProperRows(u.g0) /\ RowsBeginAt(u.g0, b.b) /\ ProperRows(u.g1) /\ RowsBeginAt(u.g1, b.b)
    BY <1>3, <1>5, <1>10
  <2> QED BY <1>4, <1>5, <1>9, <2>1 DEF TurnReady
<1>12. ASSUME NEW h \in Nat, NEW v \in Nat
       PROVE  TurnedTo(u, op, h, v) <=> TurnedTo(t, op, h, v)
  <2> DEFINE P == Inside(v, b) /\ Covered(h, r.xs)
  <2>1. Owns(h, v, u.out) <=> Owns(h, v, t.out) \/ (Keeps(op, ofFirst) /\ P)
    BY <1>5, <1>9
  <2>2. CASE ofFirst
    <3>1. /\ Owns(h, v, t.g0) <=> P \/ Owns(h, v, u.g0)
          /\ ~Owns(h, v, t.g1) /\ ~Owns(h, v, u.g1)
      BY <1>3, <1>5, <1>10, <2>2
    <3>2. Keeps(op, ofFirst) <=> op # "intersect"
      BY <2>2 DEF Ops, Keeps
    <3>4. TurnedTo(t, op, h, v) <=> Owns(h, v, t.out) \/ (op # "intersect" /\ Owns(h, v, t.g0))
      BY <3>1 DEF TurnedTo, Combined, Ops
    <3>5. TurnedTo(u, op, h, v) <=> Owns(h, v, u.out) \/ (op # "intersect" /\ Owns(h, v, u.g0))
      BY <3>1 DEF TurnedTo, Combined, Ops
    <3> HIDE DEF P
    <3> QED BY <2>1, <3>1, <3>2, <3>4, <3>5
  <2>3. CASE ~ofFirst
    <3>1. /\ Owns(h, v, t.g1) <=> P \/ Owns(h, v, u.g1)
          /\ ~Owns(h, v, t.g0) /\ ~Owns(h, v, u.g0)
      BY <1>3, <1>5, <1>10, <2>3
    <3>2. Keeps(op, ofFirst) <=> op = "union"
      BY <2>3 DEF Ops, Keeps
    <3>4. TurnedTo(t, op, h, v) <=> Owns(h, v, t.out) \/ (op = "union" /\ Owns(h, v, t.g1))
      BY <3>1 DEF TurnedTo, Combined, Ops
    <3>5. TurnedTo(u, op, h, v) <=> Owns(h, v, u.out) \/ (op = "union" /\ Owns(h, v, u.g1))
      BY <3>1 DEF TurnedTo, Combined, Ops
    <3> HIDE DEF P
    <3> QED BY <2>1, <3>1, <3>2, <3>4, <3>5
  <2> QED BY <2>2, <2>3
<1>13. Len(u.g0) + Len(u.g1) <= Len(t.g0) + Len(t.g1) - 1
  <2>1. Len(t.g0) \in Nat /\ Len(t.g1) \in Nat /\ Len(<<>>) = 0
    BY <1>1 DEF ProperRows
  <2>2. CASE ofFirst
    <3>1. Len(u.g0) = Len(t.g0) - 1 /\ Len(u.g1) = 0 /\ Len(t.g1) = 0
      BY <1>3, <1>5, <2>1, <2>2
    <3> QED BY <2>1, <3>1
  <2>3. CASE ~ofFirst
    <3>1. Len(u.g1) = Len(t.g1) - 1 /\ Len(u.g0) = 0 /\ Len(t.g0) = 0
      BY <1>3, <1>5, <2>1, <2>3
    <3> QED BY <2>1, <3>1
  <2> QED BY <2>2, <2>3
<1> QED BY <1>11, <1>12, <1>13 DEF u

(* Any turn.                                                                *)
LEMMA RgnTurnEffect ==
    ASSUME NEW t, TurnReady(t), NEW op \in Ops
    PROVE  /\ TurnReady(RgnTurn(t, op))
           /\ \A h, v \in Nat : TurnedTo(RgnTurn(t, op), op, h, v) <=> TurnedTo(t, op, h, v)
           /\ \A n \in Nat : Len(t.g0) + Len(t.g1) <= n + 1 =>
                               Len(RgnTurn(t, op).g0) + Len(RgnTurn(t, op).g1) <= n
<1> DEFINE u == RgnTurn(t, op)
<1>1. ProperRows(t.g0) /\ ProperRows(t.g1)
  BY DEF TurnReady
<1>2. CASE t.g0 = <<>> /\ t.g1 = <<>>
  <2>1. u = t
    BY <1>2 DEF RgnTurn
  <2>2. Len(t.g0) = 0 /\ Len(t.g1) = 0
    BY <1>2
  <2> HIDE DEF u
  <2> QED BY <2>1, <2>2 DEF u
<1>3. CASE ~(t.g0 = <<>> /\ t.g1 = <<>>)
  <2>1. TurnReady(u) /\ (\A h, v \in Nat : TurnedTo(u, op, h, v) <=> TurnedTo(t, op, h, v))
        /\ Len(u.g0) + Len(u.g1) <= Len(t.g0) + Len(t.g1) - 1
    <3>1. CASE t.g0 # <<>> /\ t.g1 # <<>>
      BY <3>1, RgnTurnBoth
    <3>2. CASE t.g0 # <<>> /\ t.g1 = <<>>
      BY <3>2, RgnTurnAlone
    <3>3. CASE t.g0 = <<>> /\ t.g1 # <<>>
      BY <3>3, RgnTurnAlone
    <3> QED BY <1>3, <3>1, <3>2, <3>3
  <2> HIDE DEF u
  <2>2. Len(t.g0) \in Nat /\ Len(t.g1) \in Nat
    BY <1>1 DEF ProperRows
  <2>3. Len(u.g0) \in Nat /\ Len(u.g1) \in Nat
    BY <2>1 DEF TurnReady, ProperRows
  <2>4. ASSUME NEW n \in Nat, Len(t.g0) + Len(t.g1) <= n + 1
        PROVE  Len(u.g0) + Len(u.g1) <= n
    BY <2>1, <2>2, <2>3, <2>4, LessOne
  <2> QED BY <2>1, <2>4 DEF u
<1> QED BY <1>2, <1>3

(* The turns of the loop over two regions, one after the other.             *)
RgnTurns(r, g0, g1, op, n) ==
  /\ r = [i \in 0 .. n |-> r[i]]
  /\ r[0] = [g0 |-> g0, g1 |-> g1, out |-> <<>>]
  /\ \A i \in 1 .. n : r[i] = RgnTurn(r[i - 1], op)

(* There are such.                                                          *)
LEMMA RgnTurnsExist ==
    ASSUME NEW g0, NEW g1, NEW op, NEW m \in Nat
    PROVE  \E r : RgnTurns(r, g0, g1, op, m)
<1> DEFINE begun == [g0 |-> g0, g1 |-> g1, out |-> <<>>]
           T == {n \in 0 .. m : \E r : RgnTurns(r, g0, g1, op, n)}
<1>1. 0 \in T
  <2> DEFINE r == [i \in 0 .. 0 |-> begun]
  <2>1. r = [i \in 0 .. 0 |-> r[i]] /\ r[0] = begun /\ \A i \in 1 .. 0 : r[i] = RgnTurn(r[i - 1], op)
    OBVIOUS
  <2> HIDE DEF r
  <2>2. RgnTurns(r, g0, g1, op, 0)
    BY <2>1 DEF RgnTurns
  <2> QED BY <2>2
<1>2. ASSUME NEW n \in 0 .. m - 1, n \in T
      PROVE  n + 1 \in T
  <2>1. PICK r : RgnTurns(r, g0, g1, op, n)
    BY <1>2
  <2> DEFINE h == [i \in 0 .. n + 1 |-> IF i = n + 1 THEN RgnTurn(r[n], op) ELSE r[i]]
  <2>2. n \in Nat /\ n + 1 \in 0 .. m
    OBVIOUS
  <2>3. h = [i \in 0 .. n + 1 |-> h[i]] /\ h[0] = begun
    BY <2>1, <2>2 DEF RgnTurns
  <2>4. ASSUME NEW i \in 1 .. n + 1
        PROVE  h[i] = RgnTurn(h[i - 1], op)
    <3>1. CASE i = n + 1
      <4>1. i - 1 = n /\ i - 1 \in 0 .. n + 1 /\ i - 1 # n + 1
        BY <2>2, <3>1
      <4> QED BY <2>2, <3>1, <4>1
    <3>2. CASE i # n + 1
      <4>1. i \in 1 .. n /\ i - 1 \in 0 .. n + 1 /\ i - 1 # n + 1
        BY <2>2, <3>2
      <4>2. h[i] = r[i] /\ h[i - 1] = r[i - 1]
        BY <3>2, <4>1
      <4>3. r[i] = RgnTurn(r[i - 1], op)
        BY <2>1, <4>1 DEF RgnTurns
      <4> QED BY <4>2, <4>3
    <3> QED BY <3>1, <3>2
  <2> HIDE DEF h
  <2>5. RgnTurns(h, g0, g1, op, n + 1)
    BY <2>3, <2>4 DEF RgnTurns
  <2> QED BY <2>2, <2>5
<1>3. 0 .. m \subseteq T
  BY <1>1, <1>2, UpTo
<1> QED BY <1>3

(* Result is the result of the last.                                        *)
LEMMA ResultIsLast ==
    ASSUME NEW g0 \in Seq(Rows), NEW g1 \in Seq(Rows), NEW op
    PROVE  \E r : /\ RgnTurns(r, g0, g1, op, Len(g0) + Len(g1))
                  /\ Result(g0, g1, op) = r[Len(g0) + Len(g1)].out
<1> DEFINE n == Len(g0) + Len(g1)
           begun == [g0 |-> g0, g1 |-> g1, out |-> <<>>]
           After(f) == [i \in 0 .. n |-> IF i = 0 THEN begun ELSE RgnTurn(f[i - 1], op)]
           after == CHOOSE f : f = After(f)
<1>1. n \in Nat
  OBVIOUS
<1>2. PICK r : RgnTurns(r, g0, g1, op, n)
  <2> HIDE DEF n
  <2> QED BY <1>1, RgnTurnsExist
<1>3. r = After(r)
  <2>1. ASSUME NEW i \in 0 .. n PROVE r[i] = After(r)[i]
    <3>1. i = 0 \/ i \in 1 .. n
      BY <1>1
    <3>2. After(r)[i] = IF i = 0 THEN begun ELSE RgnTurn(r[i - 1], op)
      OBVIOUS
    <3>3. r[0] = begun /\ \A j \in 1 .. n : r[j] = RgnTurn(r[j - 1], op)
      BY <1>2 DEF RgnTurns
    <3> HIDE DEF After, begun, n
    <3> QED BY <3>1, <3>2, <3>3
  <2> QED BY <1>2, <2>1 DEF RgnTurns
<1>4. after = After(after)
  <2> HIDE DEF After
  <2> QED BY <1>3
<1>5. Result(g0, g1, op) = after[n].out
  BY DEF Result
<1>6. RgnTurns(after, g0, g1, op, n)
  <2> HIDE DEF after, n
  <2>1. after[0] = begun /\ \A i \in 1 .. n : after[i] = RgnTurn(after[i - 1], op)
    BY <1>1, <1>4
  <2>2. after = [i \in 0 .. n |-> after[i]]
    BY <1>4
  <2> QED BY <2>1, <2>2 DEF RgnTurns
<1> HIDE DEF after
<1> QED BY <1>5, <1>6

(* The rows of the result are those of the combined points.                 *)
LEMMA ResultEffect ==
    ASSUME NEW g0, ProperRows(g0), NEW g1, ProperRows(g1), NEW op \in Ops
    PROVE  /\ ProperRows(Result(g0, g1, op)) /\ Apart(Result(g0, g1, op))
           /\ \A h, v \in Nat : Owns(h, v, Result(g0, g1, op)) <=>
                                 Combined(op, Owns(h, v, g0), Owns(h, v, g1))
<1> DEFINE n == Len(g0) + Len(g1)
           begun == [g0 |-> g0, g1 |-> g1, out |-> <<>>]
<1>1. g0 \in Seq(Rows) /\ g1 \in Seq(Rows) /\ n \in Nat
  BY DEF ProperRows
<1>2. PICK r : RgnTurns(r, g0, g1, op, n) /\ Result(g0, g1, op) = r[n].out
  BY <1>1, ResultIsLast
<1>3. r[0] = begun /\ \A i \in 1 .. n : r[i] = RgnTurn(r[i - 1], op)
  BY <1>2 DEF RgnTurns
<1>4. /\ ProperRows(<<>>) /\ Apart(<<>>) /\ RowsEndBy(<<>>, 0)
      /\ \A h, v \in Nat : ~Owns(h, v, <<>>)
  BY DEF ProperRows, Apart, RowsEndBy, Owns
<1> DEFINE T == {i \in 0 .. n : /\ TurnReady(r[i])
                                /\ \A h, v \in Nat : TurnedTo(r[i], op, h, v) <=> TurnedTo(begun, op, h, v)
                                /\ Len(r[i].g0) + Len(r[i].g1) <= n - i}
<1>5. 0 \in T
  <2>1. RowsBeginAt(g0, 0) /\ RowsBeginAt(g1, 0)
    <3>1. \A j \in 1 .. Len(g0) : g0[j].y.s \in Nat
      BY RowTypes
    <3>2. \A j \in 1 .. Len(g1) : g1[j].y.s \in Nat
      BY RowTypes
    <3> QED BY <3>1, <3>2 DEF RowsBeginAt
  <2>2. TurnReady(begun)
    BY <1>4, <2>1 DEF TurnReady
  <2>3. 0 \in 0 .. n /\ Len(begun.g0) + Len(begun.g1) <= n - 0
    BY <1>1
  <2> HIDE DEF begun, n
  <2> QED BY <1>3, <2>2, <2>3
<1>6. ASSUME NEW i \in 0 .. n - 1, i \in T PROVE i + 1 \in T
  <2> HIDE DEF begun, n
  <2>1. i \in Nat /\ i + 1 \in 1 .. n /\ i + 1 \in 0 .. n /\ i + 1 - 1 = i /\ n - (i + 1) \in Nat
        /\ n - i = n - (i + 1) + 1
    BY <1>1
  <2>2. r[i + 1] = RgnTurn(r[i], op)
    BY <1>3, <2>1
  <2>3. TurnReady(r[i]) /\ (\A h, v \in Nat : TurnedTo(r[i], op, h, v) <=> TurnedTo(begun, op, h, v))
        /\ Len(r[i].g0) + Len(r[i].g1) <= n - (i + 1) + 1
    BY <1>6, <2>1
  <2>4. /\ TurnReady(r[i + 1])
        /\ \A h, v \in Nat : TurnedTo(r[i + 1], op, h, v) <=> TurnedTo(r[i], op, h, v)
        /\ Len(r[i + 1].g0) + Len(r[i + 1].g1) <= n - (i + 1)
    BY <2>1, <2>2, <2>3, RgnTurnEffect
  <2> QED BY <2>1, <2>3, <2>4
<1>7. n \in T
  <2> HIDE DEF T, n
  <2>1. 0 .. n \subseteq T
    BY <1>1, <1>5, <1>6, UpTo
  <2> QED BY <1>1, <2>1
<1>8. /\ TurnReady(r[n]) /\ Len(r[n].g0) + Len(r[n].g1) <= 0
      /\ \A h, v \in Nat : TurnedTo(r[n], op, h, v) <=> TurnedTo(begun, op, h, v)
  <2> HIDE DEF begun, n
  <2>1. n - n = 0
    BY <1>1
  <2> QED BY <1>7, <2>1
<1> HIDE DEF n, T
<1>9. r[n].g0 = <<>> /\ r[n].g1 = <<>> /\ ProperRows(r[n].out) /\ Apart(r[n].out)
  <2>1. r[n].g0 \in Seq(Rows) /\ r[n].g1 \in Seq(Rows)
    BY <1>8 DEF TurnReady, ProperRows
  <2>2. Len(r[n].g0) \in Nat /\ Len(r[n].g1) \in Nat
    BY <2>1
  <2>3. Len(r[n].g0) = 0 /\ Len(r[n].g1) = 0
    <3>1. Len(r[n].g0) + Len(r[n].g1) <= 0
      BY <1>8
    <3> QED BY <2>2, <3>1, BothNone
  <2> QED BY <1>8, <2>1, <2>3 DEF TurnReady
<1>10. ASSUME NEW h \in Nat, NEW v \in Nat
       PROVE  Owns(h, v, r[n].out) <=> Combined(op, Owns(h, v, g0), Owns(h, v, g1))
  <2>1. TurnedTo(r[n], op, h, v) <=> Owns(h, v, r[n].out)
    BY <1>4, <1>9 DEF TurnedTo, Combined, Ops
  <2>2. TurnedTo(begun, op, h, v) <=> Combined(op, Owns(h, v, g0), Owns(h, v, g1))
    BY <1>4 DEF TurnedTo
  <2> QED BY <1>8, <2>1, <2>2
<1> QED BY <1>2, <1>9, <1>10

(* A region in its form stands for a set of points of the plane.            *)
StandsFor(g, ps) ==
  /\ ProperRows(g) /\ Apart(g)
  /\ ps \subseteq Plane
  /\ \A p \in Plane : p \in ps <=> Owns(p[1], p[2], g)

(* The places of the plane.                                                 *)
LEMMA PlaneIsNat ==
    ASSUME NEW p \in Plane
    PROVE  p[1] \in Nat /\ p[2] \in Nat /\ p = <<p[1], p[2]>>
  BY DEF Plane

(* A result stands for the combined points.                                 *)
LEMMA ResultStands ==
    ASSUME NEW g0, NEW p0, StandsFor(g0, p0), NEW g1, NEW p1, StandsFor(g1, p1), NEW op \in Ops
    PROVE  StandsFor(Result(g0, g1, op), Combine(p0, p1, op))
<1> DEFINE g == Result(g0, g1, op)
           ps == Combine(p0, p1, op)
<1>1. /\ ProperRows(g) /\ Apart(g)
      /\ \A h, v \in Nat : Owns(h, v, g) <=> Combined(op, Owns(h, v, g0), Owns(h, v, g1))
  BY ResultEffect DEF StandsFor
<1>2. ps = IF op = "union" THEN p0 \union p1 ELSE IF op = "intersect" THEN p0 \intersect p1 ELSE p0 \ p1
  <2>1. CASE op = "union"
    BY <2>1 DEF Combine
  <2>2. CASE op = "intersect"
    BY <2>2 DEF Combine
  <2>3. CASE op = "diff"
    BY <2>3 DEF Combine
  <2> QED BY <2>1, <2>2, <2>3 DEF Ops
<1> HIDE DEF g, ps
<1>3. ps \subseteq Plane
  BY <1>2 DEF StandsFor
<1>4. ASSUME NEW p \in Plane PROVE p \in ps <=> Owns(p[1], p[2], g)
  <2>1. Owns(p[1], p[2], g) <=> Combined(op, Owns(p[1], p[2], g0), Owns(p[1], p[2], g1))
    BY <1>1, PlaneIsNat
  <2>2. (p \in p0 <=> Owns(p[1], p[2], g0)) /\ (p \in p1 <=> Owns(p[1], p[2], g1))
    BY DEF StandsFor
  <2>3. p \in ps <=> Combined(op, p \in p0, p \in p1)
    <3>1. CASE op = "union"
      BY <1>2, <3>1 DEF Combined
    <3>2. CASE op = "intersect"
      BY <1>2, <3>2 DEF Combined
    <3>3. CASE op = "diff"
      BY <1>2, <3>3 DEF Combined
    <3> QED BY <3>1, <3>2, <3>3 DEF Ops
  <2>4. CASE op = "union"
    BY <2>1, <2>2, <2>3, <2>4 DEF Combined
  <2>5. CASE op = "intersect"
    BY <2>1, <2>2, <2>3, <2>5 DEF Combined
  <2>6. CASE op = "diff"
    BY <2>1, <2>2, <2>3, <2>6 DEF Combined
  <2> QED BY <2>4, <2>5, <2>6 DEF Ops
<1> QED BY <1>1, <1>3, <1>4 DEF StandsFor, g, ps

(* So do the empty region and that of one rectangle.                        *)
LEMMA NothingStands == StandsFor(<<>>, {})
<1>1. ProperRows(<<>>) /\ Apart(<<>>) /\ \A h, v : ~Owns(h, v, <<>>)
  BY DEF ProperRows, Apart, Owns
<1> QED BY <1>1 DEF StandsFor

(* The region of a rectangle stands for the points of the rectangle.         *)
LEMMA RectStands ==
    ASSUME NEW r, r.x \in Bands, r.y \in Bands, r.x.b <= Beyond, r.y.b <= Beyond
    PROVE  StandsFor(AsRgn(r), InRect(r))
<1>0. r.x.s \in Nat /\ r.x.b \in Nat /\ r.y.s \in Nat /\ r.y.b \in Nat
  BY DEF Bands
<1>1. InRect(r) \subseteq Plane
  BY DEF InRect
<1>2. CASE EmptyBand(r.x) \/ EmptyBand(r.y)
  <2>1. InRect(r) = {}
    <3>1. ASSUME NEW p \in Plane PROVE ~(Inside(p[1], r.x) /\ Inside(p[2], r.y))
      BY <1>0, <1>2, PlaneIsNat DEF EmptyBand, Inside
    <3> QED BY <3>1 DEF InRect
  <2>2. AsRgn(r) = <<>>
    BY <1>2 DEF AsRgn
  <2> QED BY <2>1, <2>2, NothingStands
<1>3. CASE ~(EmptyBand(r.x) \/ EmptyBand(r.y))
  <2> DEFINE xs == <<r.x>>
             row == [y |-> r.y, xs |-> xs]
             g == <<row>>
  <2>1. AsRgn(r) = g
    BY <1>3 DEF AsRgn
  <2>2. xs \in Seq(Bands) /\ Len(xs) = 1 /\ xs[1] = r.x /\ xs # <<>>
    OBVIOUS
  <2> HIDE DEF xs
  <2>3. row \in Rows /\ row.y = r.y /\ row.xs = xs
    BY <2>2 DEF Rows
  <2> HIDE DEF row
  <2>4. g \in Seq(Rows) /\ Len(g) = 1 /\ g[1] = row
    BY <2>3
  <2> HIDE DEF g
  <2>5. ProperBands(xs)
    BY <1>0, <1>3, <2>2 DEF ProperBands, EmptyBand
  <2>6. ProperRows(g)
    BY <1>0, <1>3, <2>2, <2>3, <2>4, <2>5 DEF ProperRows, EmptyBand
  <2>7. Apart(g)
    BY <2>4 DEF Apart
  <2>8. \A h, v \in Nat : Owns(h, v, g) <=> Inside(h, r.x) /\ Inside(v, r.y)
    BY <2>2, <2>3, <2>4 DEF Owns, Covered
  <2>9. \A p \in Plane : p \in InRect(r) <=> Owns(p[1], p[2], g)
    BY <2>8, PlaneIsNat DEF InRect
  <2> QED BY <1>1, <2>1, <2>6, <2>7, <2>9 DEF StandsFor
<1> QED BY <1>2, <1>3

(* A rectangle with its corners put in order.                               *)
LEMMA OrderedRect ==
    ASSUME NEW r \in Rects
    PROVE  /\ Set3(r).x \in Bands /\ Set3(r).y \in Bands
           /\ Set3(r).x.s \in Nat /\ Set3(r).x.b \in Nat
           /\ Set3(r).y.s \in Nat /\ Set3(r).y.b \in Nat /\ Beyond \in Nat
           /\ Set3(r).x.s <= Set3(r).x.b /\ Set3(r).x.b <= Beyond
           /\ Set3(r).y.s <= Set3(r).y.b /\ Set3(r).y.b <= Beyond
<1>1. PICK l \in 0 .. Width, m \in 0 .. Width, t \in 0 .. Height, b \in 0 .. Height :
        r = [x |-> Band(l, m), y |-> Band(t, b)]
  BY DEF Rects
<1>2. r.x.s = l /\ r.x.b = m /\ r.y.s = t /\ r.y.b = b
  BY <1>1 DEF Band
<1>3. /\ l \in Nat /\ m \in Nat /\ t \in Nat /\ b \in Nat /\ Beyond \in Nat
      /\ l <= Beyond /\ m <= Beyond /\ t <= Beyond /\ b <= Beyond
  BY RegionAssumption DEF RegionAssumption
<1>4. /\ Set3(r).x = Band(SmallOf(l, m), BigOf(l, m))
      /\ Set3(r).y = Band(SmallOf(t, b), BigOf(t, b))
  BY <1>2 DEF Set3
<1>5. /\ Set3(r).x.s = SmallOf(l, m) /\ Set3(r).x.b = BigOf(l, m)
      /\ Set3(r).y.s = SmallOf(t, b) /\ Set3(r).y.b = BigOf(t, b)
  BY <1>4 DEF Band
<1>6. /\ SmallOf(l, m) \in Nat /\ BigOf(l, m) \in Nat /\ SmallOf(l, m) <= BigOf(l, m) /\ BigOf(l, m) <= Beyond
      /\ SmallOf(t, b) \in Nat /\ BigOf(t, b) \in Nat /\ SmallOf(t, b) <= BigOf(t, b) /\ BigOf(t, b) <= Beyond
  BY <1>3 DEF SmallOf, BigOf
<1> QED BY <1>3, <1>4, <1>5, <1>6 DEF Bands, Band

(* The rectangle where two others span.                                     *)
LEMMA MeetStands ==
    ASSUME NEW r0 \in Rects, NEW r1 \in Rects
    PROVE  StandsFor(AsRgn(RectMeet(Set3(r0), Set3(r1))),
                     InRect(Set3(r0)) \intersect InRect(Set3(r1)))
<1> DEFINE q0 == Set3(r0)
           q1 == Set3(r1)
           m == RectMeet(q0, q1)
           apart(b0, b1) == IF b0.s < b1.s THEN b0.b <= b1.s ELSE b1.b <= b0.s
           span(b0, b1) == Band(BigOf(b0.s, b1.s), SmallOf(b0.b, b1.b))
<1>1. /\ q0.x \in Bands /\ q0.y \in Bands
      /\ q0.x.s \in Nat /\ q0.x.b \in Nat /\ q0.y.s \in Nat /\ q0.y.b \in Nat /\ Beyond \in Nat
      /\ q0.x.s <= q0.x.b /\ q0.x.b <= Beyond /\ q0.y.s <= q0.y.b /\ q0.y.b <= Beyond
  BY OrderedRect
<1>2. /\ q1.x \in Bands /\ q1.y \in Bands
      /\ q1.x.s \in Nat /\ q1.x.b \in Nat /\ q1.y.s \in Nat /\ q1.y.b \in Nat
      /\ q1.x.s <= q1.x.b /\ q1.x.b <= Beyond /\ q1.y.s <= q1.y.b /\ q1.y.b <= Beyond
  BY OrderedRect
<1> HIDE DEF q0, q1
<1>3. m = IF apart(q0.x, q1.x) \/ apart(q0.y, q1.y) THEN [x |-> Band(0, 0), y |-> q0.y]
          ELSE [x |-> span(q0.x, q1.x), y |-> span(q0.y, q1.y)]
  BY DEF RectMeet
<1> HIDE DEF m
<1>4. /\ m.x \in Bands /\ m.y \in Bands /\ m.x.b <= Beyond /\ m.y.b <= Beyond
      /\ \A h, v \in Nat : Inside(h, m.x) /\ Inside(v, m.y) <=>
                            /\ Inside(h, q0.x) /\ Inside(v, q0.y)
                            /\ Inside(h, q1.x) /\ Inside(v, q1.y)
  <2>1. CASE apart(q0.x, q1.x) \/ apart(q0.y, q1.y)
    <3>1. m.x = Band(0, 0) /\ m.y = q0.y
      BY <1>3, <2>1
    <3>2. m.x \in Bands /\ m.x.s = 0 /\ m.x.b = 0
      BY <3>1 DEF Band, Bands
    <3>3. ASSUME NEW h \in Nat, NEW v \in Nat
          PROVE  /\ ~Inside(h, m.x)
                 /\ ~(Inside(h, q0.x) /\ Inside(v, q0.y) /\ Inside(h, q1.x) /\ Inside(v, q1.y))
      <4>1. ~Inside(h, m.x)
        BY <3>2 DEF Inside
      <4>2. CASE apart(q0.x, q1.x)
        BY <1>1, <1>2, <4>1, <4>2 DEF Inside
      <4>3. CASE apart(q0.y, q1.y)
        BY <1>1, <1>2, <4>1, <4>3 DEF Inside
      <4> QED BY <2>1, <4>2, <4>3
    <3> QED BY <1>1, <3>1, <3>2, <3>3
  <2>2. CASE ~(apart(q0.x, q1.x) \/ apart(q0.y, q1.y))
    <3>1. m.x = span(q0.x, q1.x) /\ m.y = span(q0.y, q1.y)
      <4> HIDE DEF apart, span
      <4> QED BY <1>3, <2>2
    <3>2. /\ m.x.s = BigOf(q0.x.s, q1.x.s) /\ m.x.b = SmallOf(q0.x.b, q1.x.b)
          /\ m.y.s = BigOf(q0.y.s, q1.y.s) /\ m.y.b = SmallOf(q0.y.b, q1.y.b)
      BY <3>1 DEF Band
    <3>3. /\ m.x.s \in Nat /\ m.x.b \in Nat /\ m.x.b <= Beyond
          /\ m.y.s \in Nat /\ m.y.b \in Nat /\ m.y.b <= Beyond
      BY <1>1, <1>2, <3>2 DEF BigOf, SmallOf
    <3>4. m.x \in Bands /\ m.y \in Bands
      <4>1. m.x = Band(m.x.s, m.x.b) /\ m.y = Band(m.y.s, m.y.b)
        BY <3>1 DEF Band
      <4> QED BY <3>3, <4>1 DEF Bands, Band
    <3>5. ASSUME NEW h \in Nat
          PROVE  Inside(h, m.x) <=> Inside(h, q0.x) /\ Inside(h, q1.x)
      BY <1>1, <1>2, <3>2 DEF Inside, BigOf, SmallOf
    <3>6. ASSUME NEW v \in Nat
          PROVE  Inside(v, m.y) <=> Inside(v, q0.y) /\ Inside(v, q1.y)
      BY <1>1, <1>2, <3>2 DEF Inside, BigOf, SmallOf
    <3> QED BY <3>3, <3>4, <3>5, <3>6
  <2> QED BY <2>1, <2>2
<1>5. InRect(m) = InRect(q0) \intersect InRect(q1)
  <2>1. ASSUME NEW p \in Plane
        PROVE  Inside(p[1], m.x) /\ Inside(p[2], m.y) <=>
                 /\ Inside(p[1], q0.x) /\ Inside(p[2], q0.y)
                 /\ Inside(p[1], q1.x) /\ Inside(p[2], q1.y)
    BY <1>4, PlaneIsNat
  <2> QED BY <2>1 DEF InRect
<1>6. StandsFor(AsRgn(m), InRect(m))
  BY <1>4, RectStands
<1> QED BY <1>5, <1>6 DEF q0, q1, m

(* The rows of a region that stands for points hold just these, each in one *)
(* rectangle.                                                               *)
LEMMA StandsDenotes ==
    ASSUME NEW g, NEW ps, StandsFor(g, ps)
    PROVE  /\ Points(g) = ps
           /\ \A at, bt \in Places(g) :
                at # bt => InRect(RectAt(g, at)) \intersect InRect(RectAt(g, bt)) = {}
<1>1. /\ ProperRows(g) /\ g \in Seq(Rows) /\ DOMAIN g = 1 .. Len(g)
      /\ \A i, k \in 1 .. Len(g) : i < k => g[i].y.b <= g[k].y.s
  BY DEF StandsFor, ProperRows
<1>2. ASSUME NEW i \in 1 .. Len(g)
      PROVE  /\ g[i].y.s \in Nat /\ g[i].y.b \in Nat
             /\ ProperBands(g[i].xs) /\ DOMAIN g[i].xs = 1 .. Len(g[i].xs)
             /\ \A j \in 1 .. Len(g[i].xs) : g[i].xs[j].s \in Nat /\ g[i].xs[j].b \in Nat
  <2>1. g[i].y.s \in Nat /\ g[i].y.b \in Nat /\ ProperBands(g[i].xs) /\ g[i].xs \in Seq(Bands)
    BY <1>1, RowTypes
  <2>2. \A j \in 1 .. Len(g[i].xs) : g[i].xs[j] \in Bands
    BY <2>1
  <2> QED BY <2>1, <2>2 DEF Bands
<1>3. \A at : at \in Places(g) <=> \E i \in 1 .. Len(g) : \E j \in 1 .. Len(g[i].xs) : at = <<i, j>>
  <2>1. \A at : at \in Places(g) <=> \E i \in DOMAIN g : at \in {i} \X DOMAIN g[i].xs
    BY DEF Places
  <2> QED BY <1>1, <1>2, <2>1
<1>4. \A i, j : RectAt(g, <<i, j>>) = [x |-> g[i].xs[j], y |-> g[i].y]
  BY DEF RectAt
<1>5. \A p \in Plane : \A i, j : p \in InRect(RectAt(g, <<i, j>>)) <=> Inside(p[1], g[i].xs[j]) /\ Inside(p[2], g[i].y)
  <2>1. ASSUME NEW p \in Plane, NEW i, NEW j
        PROVE  p \in InRect(RectAt(g, <<i, j>>)) <=> Inside(p[1], g[i].xs[j]) /\ Inside(p[2], g[i].y)
    <3>1. RectAt(g, <<i, j>>).x = g[i].xs[j] /\ RectAt(g, <<i, j>>).y = g[i].y
      <4>1. RectAt(g, <<i, j>>) = [x |-> g[i].xs[j], y |-> g[i].y]
        BY <1>4
      <4> QED BY <4>1
    <3> QED BY <3>1 DEF InRect
  <2> QED BY <2>1
<1>6. \A r : InRect(r) \subseteq Plane
  BY DEF InRect
<1>7. Points(g) = ps
  <2>1. Points(g) \subseteq Plane /\ ps \subseteq Plane
    BY <1>6 DEF Points, StandsFor
  <2>2. ASSUME NEW p \in Plane PROVE p \in Points(g) <=> p \in ps
    <3>1. p \in Points(g) <=> \E at \in Places(g) : p \in InRect(RectAt(g, at))
      BY DEF Points
    <3>2. p \in Points(g) <=> \E i \in 1 .. Len(g) : \E j \in 1 .. Len(g[i].xs) :
                                p \in InRect(RectAt(g, <<i, j>>))
      BY <1>3, <3>1
    <3>3. p \in Points(g) <=> Owns(p[1], p[2], g)
      BY <1>5, <3>2 DEF Owns, Covered
    <3> QED BY <3>3 DEF StandsFor
  <2> QED BY <2>1, <2>2
<1>8. ASSUME NEW at \in Places(g), NEW bt \in Places(g), at # bt,
             NEW p \in InRect(RectAt(g, at)), p \in InRect(RectAt(g, bt))
      PROVE  FALSE
  <2>1. PICK i \in 1 .. Len(g) : \E j \in 1 .. Len(g[i].xs) : at = <<i, j>>
    BY <1>3
  <2>2. PICK j \in 1 .. Len(g[i].xs) : at = <<i, j>>
    BY <2>1
  <2>3. PICK k \in 1 .. Len(g) : \E l \in 1 .. Len(g[k].xs) : bt = <<k, l>>
    BY <1>3
  <2>4. PICK l \in 1 .. Len(g[k].xs) : bt = <<k, l>>
    BY <2>3
  <2>5. p \in Plane /\ p[1] \in Nat /\ p[2] \in Nat
    BY <1>6, PlaneIsNat
  <2>6. /\ Inside(p[1], g[i].xs[j]) /\ Inside(p[2], g[i].y)
        /\ Inside(p[1], g[k].xs[l]) /\ Inside(p[2], g[k].y)
    BY <1>5, <1>8, <2>2, <2>4, <2>5
  <2>7. i = k
    <3>1. /\ g[i].y.s <= p[2] /\ p[2] < g[i].y.b /\ g[k].y.s <= p[2] /\ p[2] < g[k].y.b
          /\ g[i].y.s \in Nat /\ g[i].y.b \in Nat /\ g[k].y.s \in Nat /\ g[k].y.b \in Nat
      BY <1>2, <2>6 DEF Inside
    <3>2. ~(i < k) /\ ~(k < i)
      BY <1>1, <2>5, <3>1
    <3>3. i \in Nat /\ k \in Nat
      OBVIOUS
    <3> QED BY <3>2, <3>3
  <2>8. j \in 1 .. Len(g[i].xs) /\ l \in 1 .. Len(g[i].xs) /\ j # l
    BY <1>8, <2>2, <2>4, <2>7
  <2> DEFINE xs == g[i].xs
  <2>9. /\ xs[j].s <= p[1] /\ p[1] < xs[j].b /\ xs[l].s <= p[1] /\ p[1] < xs[l].b
        /\ xs[j].s \in Nat /\ xs[j].b \in Nat /\ xs[l].s \in Nat /\ xs[l].b \in Nat
    BY <1>2, <2>6, <2>7, <2>8 DEF Inside
  <2>10. \A m, n \in 1 .. Len(xs) : m < n => xs[m].b < xs[n].s
    BY <1>2 DEF ProperBands
  <2>11. j \in 1 .. Len(xs) /\ l \in 1 .. Len(xs) /\ j \in Nat /\ l \in Nat
    BY <2>8
  <2> HIDE DEF xs
  <2>12. ~(j < l) /\ ~(l < j)
    <3>1. j < l => xs[j].b < xs[l].s
      BY <2>10, <2>11
    <3>2. l < j => xs[l].b < xs[j].s
      BY <2>10, <2>11
    <3> QED BY <2>5, <2>9, <3>1, <3>2
  <2> QED BY <2>8, <2>11, <2>12
<1> QED BY <1>7, <1>8

(* The region stands for the points the operations amount to.               *)
RgnInv == StandsFor(rgn, pts)

(* So it does in the beginning.                                             *)
LEMMA RgnInvInit == RgnInit => RgnInv
  BY NothingStands DEF RgnInit, RgnInv

(* A rectangle as it is given.                                              *)
LEMMA ProperRectStands ==
    ASSUME NEW r \in Rects
    PROVE  StandsFor(AsRgn(r), InRect(r))
<1>1. PICK l \in 0 .. Width, m \in 0 .. Width, t \in 0 .. Height, b \in 0 .. Height :
        r = [x |-> Band(l, m), y |-> Band(t, b)]
  BY DEF Rects
<1>2. r.x.b = m /\ r.y.b = b /\ r.x = [s |-> l, b |-> m] /\ r.y = [s |-> t, b |-> b]
  BY <1>1 DEF Band
<1>3. m <= Beyond /\ b <= Beyond
  BY RegionAssumption DEF RegionAssumption
<1>4. r.x \in Bands /\ r.y \in Bands
  BY <1>2 DEF Bands
<1> QED BY <1>2, <1>3, <1>4, RectStands

(* The regions that are operated on stand for their points.                 *)
LEMMA ShapesStand ==
    ASSUME NEW shape \in Shapes
    PROVE  StandsFor(shape.rgn, shape.pts)
<1>1. PICK r0 \in ProperRects, r1 \in ProperRects, op \in {"union", "diff"} :
        /\ shape.rgn = Result(AsRgn(r0), AsRgn(r1), op)
        /\ shape.pts = Combine(InRect(r0), InRect(r1), op)
  BY DEF Shapes
<1>2. StandsFor(AsRgn(r0), InRect(r0)) /\ StandsFor(AsRgn(r1), InRect(r1))
  <2>1. r0 \in Rects /\ r1 \in Rects
    BY DEF ProperRects
  <2> QED BY <2>1, ProperRectStands
<1> QED BY <1>1, <1>2, ResultStands DEF Ops

(* And every operation keeps it so.                                         *)
LEMMA WithRectStands ==
    ASSUME RgnInv, NEW op \in Ops, NEW r \in Rects, WithRect(op, r)
    PROVE  RgnInv'
<1>1. StandsFor(AsRgn(r), InRect(r))
  BY ProperRectStands
<1>2. rgn' = Result(rgn, AsRgn(r), op) /\ pts' = Combine(pts, InRect(r), op)
  BY DEF WithRect
<1>3. StandsFor(Result(rgn, AsRgn(r), op), Combine(pts, InRect(r), op))
  BY <1>1, ResultStands DEF RgnInv
<1>4. StandsFor(rgn', pts')
  BY <1>2, <1>3
<1> QED BY <1>4 DEF RgnInv

(* An operation with the region of two rectangles, on either side.           *)
LEMMA WithRgnStands ==
    ASSUME RgnInv, NEW op \in Ops, NEW shape \in Shapes, WithRgn(op, shape)
    PROVE  RgnInv'
<1>1. StandsFor(shape.rgn, shape.pts) /\ StandsFor(rgn, pts)
  BY ShapesStand DEF RgnInv
<1>2. CASE rgn' = Result(rgn, shape.rgn, op) /\ pts' = Combine(pts, shape.pts, op)
  <2>1. StandsFor(Result(rgn, shape.rgn, op), Combine(pts, shape.pts, op))
    BY <1>1, ResultStands
  <2>2. StandsFor(rgn', pts')
    BY <1>2, <2>1
  <2> QED BY <2>2 DEF RgnInv
<1>3. CASE rgn' = Result(shape.rgn, rgn, op) /\ pts' = Combine(shape.pts, pts, op)
  <2>1. StandsFor(Result(shape.rgn, rgn, op), Combine(shape.pts, pts, op))
    BY <1>1, ResultStands
  <2>2. StandsFor(rgn', pts')
    BY <1>3, <2>1
  <2> QED BY <2>2 DEF RgnInv
<1> QED BY <1>2, <1>3 DEF WithRgn

(* The region of the intersection of two rectangles.                         *)
LEMMA FromMeetStands ==
    ASSUME RgnInv, NEW r0 \in Rects, NEW r1 \in Rects, FromMeet(r0, r1)
    PROVE  RgnInv'
<1> DEFINE g == AsRgn(RectMeet(Set3(r0), Set3(r1)))
           ps == InRect(Set3(r0)) \intersect InRect(Set3(r1))
<1>1. rgn' = Result(<<>>, g, "union") /\ pts' = ps
  BY DEF FromMeet
<1>2. StandsFor(g, ps)
  BY MeetStands
<1> HIDE DEF g, ps
<1>3. StandsFor(Result(<<>>, g, "union"), Combine({}, ps, "union"))
  BY <1>2, NothingStands, ResultStands DEF Ops
<1>4. Combine({}, ps, "union") = ps
  BY DEF Combine
<1>5. StandsFor(rgn', pts')
  BY <1>1, <1>3, <1>4
<1> QED BY <1>5 DEF RgnInv

(* Every step of a region keeps its invariant.                               *)
LEMMA RgnInvNext == RgnInv /\ [RgnNext]_rgnVars => RgnInv'
<1> SUFFICES ASSUME RgnInv, [RgnNext]_rgnVars PROVE RgnInv'
  OBVIOUS
<1>1. CASE \E op \in Ops, r \in ProperRects \union {[x |-> Band(0, 0), y |-> Band(0, 0)]} : WithRect(op, r)
  <2>1. PICK op \in Ops, r \in ProperRects \union {[x |-> Band(0, 0), y |-> Band(0, 0)]} : WithRect(op, r)
    BY <1>1
  <2>2. [x |-> Band(0, 0), y |-> Band(0, 0)] \in Rects
    BY RegionAssumption DEF RegionAssumption, Rects
  <2>3. r \in Rects
    BY <2>2 DEF ProperRects
  <2> QED BY <2>1, <2>3, WithRectStands
<1>2. CASE \E op \in Ops, shape \in Shapes : WithRgn(op, shape)
  BY <1>2, WithRgnStands
<1>3. CASE \E r0 \in Rects, r1 \in ProperRects : FromMeet(r0, r1)
  BY <1>3, FromMeetStands DEF ProperRects
<1>4. CASE UNCHANGED rgnVars
  BY <1>4 DEF rgnVars, RgnInv
<1> QED BY <1>1, <1>2, <1>3, <1>4 DEF RgnNext

(* The form is the one of rgn.c.                                            *)
LEMMA StandsCanonical == RgnInv => Canonical
<1> SUFFICES ASSUME RgnInv PROVE Canonical
  OBVIOUS
<1>1. ProperRows(rgn) /\ Apart(rgn) /\ rgn \in Seq(Rows) /\ DOMAIN rgn = 1 .. Len(rgn) /\ Len(rgn) \in Nat
  BY DEF RgnInv, StandsFor, ProperRows
<1>2. ASSUME NEW i \in 1 .. Len(rgn)
      PROVE  /\ ~EmptyBand(rgn[i].y)
             /\ rgn[i].xs # <<>>
             /\ \A j \in DOMAIN rgn[i].xs : ~EmptyBand(rgn[i].xs[j])
             /\ \A j \in 1 .. Len(rgn[i].xs) - 1 : rgn[i].xs[j].b < rgn[i].xs[j + 1].s
  <2> DEFINE xs == rgn[i].xs
  <2>1. /\ rgn[i].y.s \in Nat /\ rgn[i].y.b \in Nat /\ rgn[i].y.s < rgn[i].y.b
        /\ xs # <<>> /\ ProperBands(xs)
    BY <1>1, RowTypes
  <2>2. ~EmptyBand(rgn[i].y)
    BY <2>1 DEF EmptyBand
  <2> HIDE DEF xs
  <2>3. xs \in Seq(Bands) /\ Len(xs) \in Nat /\ DOMAIN xs = 1 .. Len(xs)
    BY <2>1 DEF ProperBands
  <2>4. ASSUME NEW j \in 1 .. Len(xs) PROVE ~EmptyBand(xs[j])
    <3>1. xs[j] \in Bands /\ xs[j].s < xs[j].b
      BY <2>1, <2>3 DEF ProperBands
    <3>2. xs[j].s \in Nat /\ xs[j].b \in Nat
      BY <3>1 DEF Bands
    <3> QED BY <3>1, <3>2 DEF EmptyBand
  <2>5. ASSUME NEW j \in 1 .. Len(xs) - 1 PROVE xs[j].b < xs[j + 1].s
    <3>1. j \in 1 .. Len(xs) /\ j + 1 \in 1 .. Len(xs) /\ j < j + 1
      BY <2>3
    <3> QED BY <2>1, <3>1 DEF ProperBands
  <2> QED BY <2>1, <2>2, <2>3, <2>4, <2>5 DEF xs
<1>3. ASSUME NEW i \in 1 .. Len(rgn) - 1
      PROVE  \/ rgn[i].y.b < rgn[i + 1].y.s
             \/ rgn[i].y.b = rgn[i + 1].y.s /\ rgn[i].xs # rgn[i + 1].xs
  <2>1. i \in 1 .. Len(rgn) /\ i + 1 \in 1 .. Len(rgn) /\ i < i + 1
    BY <1>1
  <2>2. rgn[i].y.b \in Nat /\ rgn[i + 1].y.s \in Nat
    BY <1>1, <2>1, RowTypes
  <2>3. rgn[i].y.b <= rgn[i + 1].y.s
    BY <1>1, <2>1 DEF ProperRows
  <2>4. rgn[i].y.b = rgn[i + 1].y.s => rgn[i].xs # rgn[i + 1].xs
    BY <1>1 DEF Apart
  <2> QED BY <2>2, <2>3, <2>4
<1> QED BY <1>1, <1>2, <1>3 DEF Canonical

(* Any sequence of unions, intersections and differences leaves exactly the *)
(* points those operations on sets of points give, each in one rectangle,   *)
(* in the one form rgn.c describes, whatever the size of the plane.         *)
THEOREM RegionStaysExact == RgnSpec => []RegionExact
<1>1. RgnInv => RegionExact
  BY StandsDenotes, StandsCanonical DEF RgnInv, RegionExact, DenotesPoints
<1> QED BY <1>1, RgnInvInit, RgnInvNext, PTL DEF RgnSpec
==============================================================================
