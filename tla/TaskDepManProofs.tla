-------------------------- MODULE TaskDepManProofs ---------------------------
(***************************************************************************)
(* Proofs about TaskDepMan, for any number of tasks, slots and edges: its  *)
(* counters are exact, an end finds its vertex, and the manager implements *)
(* Workflow.                                                               *)
(***************************************************************************)
EXTENDS TaskDepMan, FiniteSetTheorems, SequenceTheorems, NaturalsInduction, TLAPS

Active == {"STARTED", "CANCELLING"}
Ended == {"OVER", "TERMINATED"}
Mails == [type : {"end", "slot", "destroy"}, task : Tasks]
Holds == {"release", "retire"}
Tried == {"remove_task", "add_dependency", "remove_dependency"}

(* The calls that change the graph before the start. *)
Building ==
    /\ fate = "alive" /\ ~gone
    /\ state = "READY"
    /\ starter = Idle /\ canceller = "idle"

(* Where the threads are. *)
Positions ==
    /\ hand \in [at : {"idle", "balance"} \union Holds, task : Tasks \union {None}]
    /\ hand.at = "idle" => hand = Rest
    /\ hand.at # "idle" => hand.task \in Tasks
    /\ starter \in [at : {"idle", "set", "first", "next", "visit"},
                    cur : Tasks \union {None}, nxt : Tasks \union {None}]
    /\ starter.at = "visit" => starter.cur # None
    /\ starter.at \in {"first", "next", "visit"} => state # "READY"
    /\ canceller \in {"idle", "tasks"}
    /\ canceller = "tasks" => state \in {"CANCELLING", "CANCELLED"}

(* A call that changes the graph finds what it was given.                  *)
Editing ==
    /\ editor # NoEdit => state = "READY" /\ starter = Idle
    /\ editor.call \in Tried => {editor.task, editor.prereq} \ {None} \subseteq Vertices

(* A vertex is once in the list; tasks are numbered as they are added, and *)
(* one that was removed is not added again.                                *)
Numbered ==
    /\ \A i, j \in 1 .. Len(order) : order[i] = order[j] => i = j
    /\ given \in 0 .. NTasks
    /\ Vertices \subseteq 1 .. given
    /\ stale \subseteq (1 .. given) \X (1 .. given)
    /\ \A e \in stale : e[1] \notin Vertices

(* Nothing moves before the start, and nothing is left at the end. *)
BeforeStart ==
    state = "READY" =>
        /\ waiting = {} /\ running = {} /\ mail = <<>> /\ hand = Rest
        /\ \A t \in Tasks : tstate[t] = "READY"

AfterEnd == state \in {"DONE", "CANCELLED"} => Vertices = {}

(* A task has its vertex until the Handler is done with its end. *)
TaskPlaces ==
    \A t \in Tasks :
        /\ tstate[t] \in Active => t \in Vertices
        /\ tstate[t] = "CANCELLING" => state = "CANCELLING"
        /\ tstate[t] = "READY" /\ t \in waiting => t \in Vertices
        /\ tstate[t] = "STARTED" => t \in running
        /\ Mailed("slot", t) => tstate[t] \in Ended

(* The end of a task is posted once. *)
EndsOnce ==
    /\ \A k, l \in 1 .. Len(mail) : mail[k] = mail[l] /\ mail[k].type = "end" => k = l
    /\ \A t \in Tasks : Mailed("end", t) =>
          /\ t \in Vertices
          /\ tstate[t] \in Ended
          /\ ~(hand.at \in Holds /\ hand.task = t)
    /\ \A t \in Tasks : Mailed("destroy", t) => t \notin Vertices
    /\ hand.at \in Holds => hand.task \in Vertices /\ tstate[hand.task] \in Ended

(* The prerequisites that a task still waits for, and those it lost. *)
Awaited(t) == {u \in Prerequisites(t) : ~(hand.task = u /\ hand.at = "retire")}
Lost(t) == {e \in stale : e[2] = t}

(* After a cancel the count of a task is no longer lowered. *)
CountsKept ==
    /\ unhandled = Cardinality(Unheard)
    /\ \A t \in Vertices :
          /\ count[t] >= Cardinality(Awaited(t)) + Cardinality(Lost(t))
          /\ state \in {"READY", "STARTED"} =>
                count[t] = Cardinality(Awaited(t)) + Cardinality(Lost(t))

BooksInv ==
    /\ TypeOK /\ Positions /\ Editing /\ Numbered /\ BeforeStart /\ AfterEnd /\ TaskPlaces /\ EndsOnce
    /\ CountsKept

(* What the graph that the user gave says of the tasks still in it. *)
PlanKept ==
    /\ plan = [node |-> plan.node, edge |-> plan.edge]
    /\ plan.node \subseteq Tasks
    /\ state = "READY" => plan.node = Vertices /\ plan.edge = edges
    /\ state = "STARTED" => plan.node # {}
    /\ Vertices \subseteq plan.node
    /\ plan.node \ Vertices \subseteq Over
    /\ waiting \union running \union Over \subseteq plan.node
    /\ \A e \in plan.edge : e[2] \in Vertices => e \in edges \/ e[1] \in Over

(* What ytaskdepman_verify has found when the state is about to change. *)
Verified ==
    starter.at = "set" /\ state = "READY" =>
        WF!Acyclic(plan) /\ \E last \in plan.node : Leaves(plan) = {last}

(* After the start a task is released when it waits for no other, and not  *)
(* refused before a cancel.                                                *)
ReleasedFree ==
    state = "STARTED" => \A t \in Vertices \intersect Released : Awaited(t) = {}

WaitingReady ==
    state \in {"STARTED", "DONE"} => \A t \in waiting : tstate[t] = "READY"

Unrefused == ReleasedFree /\ WaitingReady /\ FateExplained

IInv == BooksInv /\ Unrefused /\ PlanKept /\ Verified

------------------------------------------------------------------------------
(* The list of vertices. *)
LEMMA RemoveFirstEffect ==
    ASSUME NEW S, NEW s \in Seq(S), NEW k \in 1 .. Len(s),
           \A i, j \in 1 .. Len(s) : s[i] = s[j] => i = j
    PROVE  /\ RemoveFirst(s, s[k]) \in Seq(S)
           /\ Len(RemoveFirst(s, s[k])) = Len(s) - 1
           /\ \A i \in 1 .. Len(s) - 1 :
                 RemoveFirst(s, s[k])[i] = IF i < k THEN s[i] ELSE s[i + 1]
<1> DEFINE a == SubSeq(s, 1, k - 1)
           b == SubSeq(s, k + 1, Len(s))
<1>1. SelectInSeq(s, LAMBDA v : v = s[k]) = k
  <2>1. {i \in 1 .. Len(s) : s[i] = s[k]} = {k}
    OBVIOUS
  <2>2. Min({k}) = k
    BY DEF Min
  <2> QED BY <2>1, <2>2 DEF SelectInSeq
<1>2. RemoveFirst(s, s[k]) = a \o b
  BY <1>1 DEF RemoveFirst, RemoveAt
<1>3. a \in Seq(S) /\ Len(a) = k - 1 /\ \A i \in 1 .. k - 1 : a[i] = s[i]
  BY SubSeqProperties
<1>4. b \in Seq(S) /\ Len(b) = Len(s) - k /\ \A i \in 1 .. Len(s) - k : b[i] = s[k + i]
  BY SubSeqProperties
<1> HIDE DEF a, b
<1>5. a \o b \in Seq(S) /\ Len(a \o b) = Len(s) - 1
  BY <1>3, <1>4
<1>6. \A i \in 1 .. Len(s) - 1 : (a \o b)[i] = IF i < k THEN s[i] ELSE s[i + 1]
  BY <1>3, <1>4
<1> QED BY <1>2, <1>5, <1>6

Once(s) == \A i, j \in 1 .. Len(s) : s[i] = s[j] => i = j

(* ylistl_remove takes one vertex out of the list. *)
LEMMA ListRemove ==
    ASSUME NEW s \in Seq(Tasks), Once(s), NEW t \in ToSet(s)
    PROVE  LET q == RemoveFirst(s, t)
           IN  q \in Seq(Tasks) /\ ToSet(q) = ToSet(s) \ {t} /\ Once(q)
<1> DEFINE q == RemoveFirst(s, t)
           n == Len(s)
<1>1. n \in Nat /\ ToSet(s) = {s[i] : i \in 1 .. n}
  BY DEF ToSet
<1>2. PICK k \in 1 .. n : s[k] = t
  BY <1>1
<1>3. /\ q \in Seq(Tasks)
      /\ Len(q) = n - 1
      /\ \A i \in 1 .. n - 1 : q[i] = IF i < k THEN s[i] ELSE s[i + 1]
  BY <1>2, RemoveFirstEffect DEF Once
<1> HIDE DEF q, n
<1>4. ToSet(q) = {q[i] : i \in 1 .. n - 1}
  BY <1>3 DEF ToSet
<1>5. \A i, j \in 1 .. n : s[i] = s[j] => i = j
  BY DEF Once, n
<1>6. \A i \in 1 .. n - 1 : q[i] \in ToSet(s) \ {t}
  <2> TAKE i \in 1 .. n - 1
  <2>1. i \in 1 .. n /\ i + 1 \in 1 .. n
    BY <1>1
  <2>2. CASE i < k
    BY <1>1, <1>2, <1>3, <1>5, <2>1, <2>2
  <2>3. CASE ~(i < k)
    <3>1. i + 1 # k
      BY <1>1, <2>3
    <3> QED BY <1>1, <1>2, <1>3, <1>5, <2>1, <2>3, <3>1
  <2> QED BY <2>2, <2>3
<1>7. \A u \in ToSet(s) \ {t} : \E i \in 1 .. n - 1 : q[i] = u
  <2> TAKE u \in ToSet(s) \ {t}
  <2>1. PICK j \in 1 .. n : s[j] = u
    BY <1>1
  <2>2. j # k
    BY <1>2, <2>1
  <2>3. CASE j < k
    <3>1. j \in 1 .. n - 1
      BY <1>1, <2>3
    <3> QED BY <1>3, <2>1, <2>3, <3>1
  <2>4. CASE j > k
    <3>1. j - 1 \in 1 .. n - 1 /\ ~(j - 1 < k) /\ (j - 1) + 1 = j
      BY <1>1, <2>4
    <3> QED BY <1>3, <2>1, <3>1
  <2> QED BY <1>1, <2>2, <2>3, <2>4
<1>8. Once(q)
  <2> SUFFICES ASSUME NEW i \in 1 .. n - 1, NEW j \in 1 .. n - 1, q[i] = q[j], i < j
               PROVE  FALSE
    BY <1>1, <1>3 DEF Once
  <2>1. i \in 1 .. n /\ i + 1 \in 1 .. n /\ j \in 1 .. n /\ j + 1 \in 1 .. n
    BY <1>1
  <2> QED BY <1>1, <1>3, <1>5, <2>1
<1>9. ToSet(q) = ToSet(s) \ {t}
  BY <1>4, <1>6, <1>7
<1> QED BY <1>3, <1>8, <1>9 DEF q

(* ylistl_add_last puts one vertex in. *)
LEMMA ListAppend ==
    ASSUME NEW s \in Seq(Tasks), Once(s), NEW t \in Tasks, t \notin ToSet(s)
    PROVE  LET q == Append(s, t)
           IN  q \in Seq(Tasks) /\ ToSet(q) = ToSet(s) \union {t} /\ Once(q)
<1> DEFINE q == Append(s, t)
           n == Len(s)
<1>1. n \in Nat /\ ToSet(s) = {s[i] : i \in 1 .. n} /\ \A i \in 1 .. n : s[i] # t
  BY DEF ToSet
<1>2. /\ q \in Seq(Tasks) /\ Len(q) = n + 1
      /\ \A i \in 1 .. n : q[i] = s[i]
      /\ q[n + 1] = t
  OBVIOUS
<1> HIDE DEF q
<1>3. ToSet(q) = {q[i] : i \in 1 .. n + 1}
  BY <1>2 DEF ToSet
<1> HIDE DEF n
<1>4. \A i \in 1 .. n + 1 : i \in 1 .. n \/ i = n + 1
  BY <1>1
<1>5. n + 1 \in 1 .. n + 1 /\ 1 .. n \subseteq 1 .. n + 1
  BY <1>1
<1>6. ToSet(q) = ToSet(s) \union {t}
  BY <1>1, <1>2, <1>3, <1>4, <1>5
<1>7. Once(q)
  <2>1. \A i, j \in 1 .. n : s[i] = s[j] => i = j
    BY DEF Once, n
  <2> QED BY <1>1, <1>2, <1>4, <2>1 DEF Once
<1> QED BY <1>2, <1>6, <1>7 DEF q

(* The vertices are tasks, and few enough to be counted. *)
LEMMA VerticesAre ==
    ASSUME order \in Seq(Tasks)
    PROVE  Vertices \subseteq Tasks
BY DEF Vertices, ToSet

(* Tasks can be counted, *)
LEMMA TasksFinite ==
    ASSUME NEW S \in SUBSET Tasks
    PROVE  IsFiniteSet(S) /\ Cardinality(S) \in Nat
<1>1. IsFiniteSet(1 .. NTasks)
  BY TaskDepManAssumption, FS_Interval
<1> QED BY <1>1, FS_Subset, FS_CardinalityType DEF Tasks

(* and so can edges. *)
LEMMA EdgesFinite ==
    ASSUME NEW E \in SUBSET (Tasks \X Tasks)
    PROVE  IsFiniteSet(E) /\ Cardinality(E) \in Nat
<1>1. IsFiniteSet(Tasks \X Tasks)
  BY TasksFinite, FS_Product
<1> QED BY <1>1, FS_Subset, FS_CardinalityType

------------------------------------------------------------------------------
(* The messages for the Handler. *)
In(m, x) == \E i \in 1 .. Len(m) : m[i] = x
Distinct(m) == \A k, l \in 1 .. Len(m) : m[k] = m[l] /\ m[k].type = "end" => k = l

(* What the messages for the Handler look like. *)
LEMMA Messages ==
    /\ \A type \in {"end", "slot", "destroy"}, t \in Tasks :
          Msg(type, t) \in Mails /\ Msg(type, t).type = type /\ Msg(type, t).task = t
    /\ \A type, t : Mailed(type, t) <=> In(mail, Msg(type, t))
    /\ \A type, t : Mailed(type, t)' <=> In(mail', Msg(type, t))
BY DEF Msg, Mails, Mailed, In

(* Messages are equal when type and task are. *)
LEMMA SameMessage ==
    ASSUME NEW type, NEW t, NEW kind, NEW u
    PROVE  Msg(type, t) = Msg(kind, u) <=> type = kind /\ t = u
BY DEF Msg

(* Taking the first message takes no other, *)
LEMMA MailTail ==
    ASSUME NEW m \in Seq(Mails), m # <<>>, Distinct(m)
    PROVE  /\ Tail(m) \in Seq(Mails) /\ Distinct(Tail(m))
           /\ Head(m) \in Mails
           /\ \A x : In(m, x) <=> x = Head(m) \/ In(Tail(m), x)
           /\ Head(m).type = "end" => ~In(Tail(m), Head(m))
<1> DEFINE n == Len(m)
           q == Tail(m)
<1>1. n \in Nat \ {0} /\ m[1] = Head(m) /\ m[1] \in Mails
  OBVIOUS
<1>2. q \in Seq(Mails) /\ Len(q) = n - 1 /\ \A i \in 1 .. n - 1 : q[i] = m[i + 1]
  BY HeadTailProperties
<1> HIDE DEF q
<1>3. \A i \in 1 .. n - 1 : i + 1 \in 1 .. n /\ i + 1 # 1
  BY <1>1
<1>4. \A i \in 1 .. n : i = 1 \/ (i - 1 \in 1 .. n - 1 /\ (i - 1) + 1 = i)
  BY <1>1
<1>5. 1 \in 1 .. n
  BY <1>1
<1>6. ASSUME NEW x PROVE In(m, x) <=> x = Head(m) \/ In(q, x)
  <2>1. ASSUME NEW i \in 1 .. n, m[i] = x, i # 1
        PROVE  \E j \in 1 .. n - 1 : q[j] = x
    BY <1>2, <1>4, <2>1
  <2>2. ASSUME NEW j \in 1 .. n - 1, q[j] = x
        PROVE  m[j + 1] = x /\ j + 1 \in 1 .. n
    BY <1>2, <1>3, <2>2
  <2> QED BY <1>1, <1>2, <1>5, <2>1, <2>2 DEF In
<1>7. Distinct(q)
  <2> SUFFICES ASSUME NEW k \in 1 .. n - 1, NEW l \in 1 .. n - 1, q[k] = q[l], q[k].type = "end"
               PROVE  k = l
    BY <1>2 DEF Distinct
  <2>1. k + 1 = l + 1
    BY <1>2, <1>3 DEF Distinct
  <2> QED BY <1>1, <2>1
<1>8. Head(m).type = "end" => ~In(q, Head(m))
  BY <1>1, <1>2, <1>3, <1>5 DEF In, Distinct
<1> QED BY <1>1, <1>2, <1>6, <1>7, <1>8 DEF q

(* one or two are posted at its end, *)
LEMMA MailJoin ==
    ASSUME NEW m \in Seq(Mails), NEW x \in Mails, NEW y \in Mails
    PROVE  /\ m \o <<x>> \o <<>> = Append(m, x)
           /\ m \o <<x>> \o <<y>> = Append(Append(m, x), y)
<1>1. m \o <<x>> = Append(m, x) /\ Append(m, x) \in Seq(Mails)
  OBVIOUS
<1> DEFINE n == Append(m, x)
<1>2. n \in Seq(Mails) /\ m \o <<x>> = n
  BY <1>1
<1> HIDE DEF n
<1>3. n \o <<>> = n /\ n \o <<y>> = Append(n, y)
  BY <1>2
<1> QED BY <1>2, <1>3 DEF n

(* and posting one that is not there already adds no other. *)
LEMMA MailAppend ==
    ASSUME NEW m \in Seq(Mails), Distinct(m), NEW x \in Mails, x.type = "end" => ~In(m, x)
    PROVE  /\ Append(m, x) \in Seq(Mails) /\ Distinct(Append(m, x))
           /\ \A y : In(Append(m, x), y) <=> In(m, y) \/ y = x
<1> DEFINE n == Len(m)
           q == Append(m, x)
<1>1. n \in Nat
  OBVIOUS
<1>2. /\ q \in Seq(Mails) /\ Len(q) = n + 1
      /\ \A i \in 1 .. n : q[i] = m[i]
      /\ q[n + 1] = x
  OBVIOUS
<1> HIDE DEF q
<1>3. \A i \in 1 .. n + 1 : i \in 1 .. n \/ i = n + 1
  BY <1>1
<1>4. n + 1 \in 1 .. n + 1 /\ 1 .. n \subseteq 1 .. n + 1
  BY <1>1
<1>5. ASSUME NEW y PROVE In(q, y) <=> In(m, y) \/ y = x
  BY <1>2, <1>3, <1>4 DEF In
<1>6. Distinct(q)
  <2> SUFFICES ASSUME NEW k \in 1 .. n + 1, NEW l \in 1 .. n + 1, q[k] = q[l], q[k].type = "end"
               PROVE  k = l
    BY <1>2 DEF Distinct
  <2> QED BY <1>2, <1>3 DEF In, Distinct
<1> QED BY <1>2, <1>5, <1>6 DEF q

------------------------------------------------------------------------------
(* Steps that leave the graph and the Handler alone. *)
LEMMA CountsStill ==
    ASSUME CountsKept, order' = order, edges' = edges, count' = count,
           unhandled' = unhandled, stale' = stale, hand' = hand,
           state' \in {"READY", "STARTED"} => state \in {"READY", "STARTED"}
    PROVE  CountsKept'
<1>1. Vertices' = Vertices
  BY DEF Vertices
<1>2. Unheard' = Unheard
  BY <1>1 DEF Unheard
<1>3. \A t \in Vertices : Awaited(t)' = Awaited(t) /\ Lost(t)' = Lost(t)
  BY <1>1 DEF Awaited, Prerequisites, Lost
<1> HIDE DEF Unheard, Awaited, Lost
<1> QED BY <1>1, <1>2, <1>3 DEF CountsKept

(* A step that leaves the vertex list alone. *)
LEMMA NumberedStill ==
    ASSUME Numbered, order' = order, stale' = stale, given' = given
    PROVE  Numbered'
BY DEF Numbered, Vertices

(* Nobody changes the graph when the manager is not READY, or starts. *)
LEMMA NotEditing ==
    ASSUME Editing, state # "READY" \/ starter # Idle \/ editor = NoEdit, editor' = editor
    PROVE  Editing'
BY DEF Editing, NoEdit, Edit, Tried

(* The calls to start, cancel and destroy. *)
LEMMA CallInv ==
    ASSUME BooksInv, Positions', Editing',
           UNCHANGED <<graphVars, built, tstate, running, mail, hand>>,
           fate' \in Fates,
           \/ waiting' = waiting
           \/ state # "READY" /\ \E S \in SUBSET Vertices : waiting' = waiting \union S,
           \/ state' = state
           \/ state = "READY" /\ state' = "STARTED"
           \/ state \in {"READY", "STARTED"} /\ state' = "CANCELLING"
           \/ state = "READY" /\ state' = "CANCELLED" /\ Vertices = {}
    PROVE  BooksInv'
<1> USE DEF graphVars, built
<1>1. order \in Seq(Tasks) /\ Vertices' = Vertices /\ Vertices \subseteq Tasks
  BY VerticesAre DEF BooksInv, TypeOK, Vertices
<1>2. TypeOK'
  <2>1. waiting' \subseteq Tasks
    BY <1>1 DEF BooksInv, TypeOK
  <2>2. state' \in {"READY", "STARTED", "CANCELLING", "CANCELLED", "DONE"}
    BY DEF BooksInv, TypeOK
  <2> QED BY <1>1, <2>1, <2>2 DEF BooksInv, TypeOK
<1>3. Numbered'
  BY NumberedStill DEF BooksInv
<1>4. BeforeStart'
  BY DEF BooksInv, BeforeStart
<1>5. AfterEnd'
  BY <1>1 DEF BooksInv, AfterEnd
<1>6. \A type, t : Mailed(type, t)' <=> Mailed(type, t)
  BY DEF Mailed, Msg
<1>7. TaskPlaces'
  <2> SUFFICES ASSUME NEW t \in Tasks
               PROVE  /\ tstate[t] \in Active => t \in Vertices
                      /\ tstate[t] = "CANCELLING" => state' = "CANCELLING"
                      /\ tstate[t] = "READY" /\ t \in waiting' => t \in Vertices
                      /\ tstate[t] = "STARTED" => t \in running
                      /\ Mailed("slot", t) => tstate[t] \in Ended
    BY <1>1, <1>6 DEF TaskPlaces
  <2>1. tstate[t] = "CANCELLING" => state' = "CANCELLING"
    BY DEF BooksInv, TaskPlaces, BeforeStart
  <2>2. tstate[t] = "READY" /\ t \in waiting' => t \in Vertices
    BY DEF BooksInv, TaskPlaces
  <2> QED BY <2>1, <2>2 DEF BooksInv, TaskPlaces
<1>8. EndsOnce'
  BY <1>1, <1>6 DEF BooksInv, EndsOnce
<1>9. CountsKept'
  BY CountsStill DEF BooksInv
<1> HIDE DEF graphVars, built
<1> QED BY <1>2, <1>3, <1>4, <1>5, <1>7, <1>8, <1>9 DEF BooksInv

(* The list begins and goes on with tasks. *)
LEMMA ListEnds ==
    ASSUME TypeOK
    PROVE  /\ order # <<>> => Head(order) \in Tasks
           /\ \A v : After(v) \in Tasks \union {None}
<1>1. order \in Seq(Tasks)
  BY DEF TypeOK
<1>2. order # <<>> => Head(order) \in Tasks
  BY <1>1
<1>3. ASSUME NEW v PROVE After(v) \in Tasks \union {None}
  <2> DEFINE later == {i \in 2 .. Len(order) : order[i - 1] = v}
  <2>1. CASE later = {}
    BY <2>1 DEF After
  <2>2. CASE later # {}
    <3>1. (CHOOSE i \in later : TRUE) \in 2 .. Len(order)
      BY <2>2
    <3>2. 2 .. Len(order) \subseteq 1 .. Len(order)
      BY <1>1
    <3>3. order[CHOOSE i \in later : TRUE] \in Tasks
      BY <1>1, <3>1, <3>2
    <3> QED BY <2>2, <3>3 DEF After
  <2> QED BY <2>1, <2>2
<1> QED BY <1>2, <1>3

(* ytaskdepman_start verifies the graph, *)
LEMMA StartBooks ==
    ASSUME BooksInv, Start
    PROVE  BooksInv'
<1> USE DEF Start, Idle
<1>0. Editing'
  BY NotEditing DEF BooksInv
<1>1. Positions'
  BY DEF BooksInv, Positions
<1>2. fate' \in Fates
  BY DEF BooksInv, TypeOK, Fates
<1> QED BY <1>0, <1>1, <1>2, CallInv DEF taskVars, history

(* changes the state, *)
LEMMA StartSetBooks ==
    ASSUME BooksInv, StartSet
    PROVE  BooksInv'
<1> USE DEF StartSet, Idle
<1>0. Editing'
  BY NotEditing DEF BooksInv
<1>1. Positions'
  BY DEF BooksInv, Positions
<1>2. fate' \in Fates
  BY DEF BooksInv, TypeOK
<1> QED BY <1>0, <1>1, <1>2, CallInv DEF taskVars, history

(* moves on to the next vertex, *)
LEMMA StartNextBooks ==
    ASSUME BooksInv, StartNext
    PROVE  BooksInv'
<1> DEFINE cur == IF starter.at = "next" THEN starter.nxt
                  ELSE IF order = <<>> THEN None ELSE Head(order)
<1>1. /\ starter' = IF cur = None THEN Idle
                    ELSE [at |-> "visit", cur |-> cur, nxt |-> After(cur)]
      /\ fate' = IF Freed(cur) THEN "overrun" ELSE fate
      /\ starter.at \in {"first", "next"}
      /\ UNCHANGED <<state, graphVars, taskVars, hand, editor, canceller, gone, history>>
  BY DEF StartNext
<1>0. Editing'
  BY <1>1, NotEditing DEF BooksInv, Idle
<1>2. cur \in Tasks \union {None} /\ After(cur) \in Tasks \union {None}
  BY ListEnds DEF BooksInv, Positions
<1> HIDE DEF cur
<1>3. Positions'
  <2>1. starter' \in [at : {"idle", "set", "first", "next", "visit"},
                      cur : Tasks \union {None}, nxt : Tasks \union {None}]
    BY <1>1, <1>2 DEF Idle
  <2>2. starter'.at \in {"idle", "visit"} /\ (starter'.at = "visit" => starter'.cur # None)
    BY <1>1 DEF Idle
  <2>3. state # "READY"
    BY <1>1 DEF BooksInv, Positions
  <2> QED BY <1>1, <2>1, <2>2, <2>3 DEF BooksInv, Positions
<1>4. fate' \in Fates
  BY <1>1 DEF BooksInv, TypeOK, Fates
<1> QED BY <1>0, <1>1, <1>3, <1>4, CallInv DEF taskVars, history

(* and injects the tasks without prerequisites. *)
LEMMA StartVisitBooks ==
    ASSUME BooksInv, StartVisit
    PROVE  BooksInv'
<1> USE DEF StartVisit
<1>0. Editing'
  BY NotEditing DEF BooksInv, Idle
<1>1. Positions'
  BY DEF BooksInv, Positions
<1>2. fate' \in Fates
  BY DEF BooksInv, TypeOK, Inject, Fates
<1>3. state # "READY"
  BY DEF BooksInv, Positions
<1>4. \/ waiting' = waiting
      \/ \E S \in SUBSET Vertices : waiting' = waiting \union S
  <2>1. CASE Freed(starter.cur)
    BY <2>1
  <2>2. CASE ~Freed(starter.cur)
    <3>1. starter.cur \in Vertices
      BY <2>2 DEF Freed, BooksInv, Positions
    <3>2. PICK S \in SUBSET Vertices, why \in Fates : Inject(S, why)
      BY <2>2, <3>1 DEF Fates
    <3> QED BY <3>2 DEF Inject
  <2> QED BY <2>1, <2>2
<1> QED BY <1>0, <1>1, <1>2, <1>3, <1>4, CallInv DEF history

(* Between two ends, no end was heard half. *)
LEMMA UnheardAll ==
    ASSUME TypeOK, Positions, hand.at \notin Holds
    PROVE  Unheard = Vertices /\ \A t \in Vertices : Awaited(t) = Prerequisites(t)
<1>1. Vertices \subseteq Tasks
  BY VerticesAre DEF TypeOK
<1>2. \A t \in Vertices : hand.task # t \/ hand.at = "balance"
  BY <1>1, TaskDepManAssumption DEF Positions, Holds, Rest
<1> QED BY <1>2 DEF Unheard, Awaited, Holds

(* ytaskdepman_cancel changes the state, *)
LEMMA CancelBooks ==
    ASSUME BooksInv, Cancel, editor = NoEdit
    PROVE  BooksInv'
<1> USE DEF Cancel
<1>0. Editing'
  BY NotEditing DEF BooksInv
<1>1. Positions'
  BY DEF BooksInv, Positions
<1>2. fate' \in Fates
  BY DEF BooksInv, TypeOK
<1>3. state = "READY" /\ unhandled = 0 => Vertices = {}
  <2> SUFFICES ASSUME state = "READY", unhandled = 0 PROVE Vertices = {}
    OBVIOUS
  <2>1. hand.at \notin Holds
    BY DEF BooksInv, BeforeStart, Rest, Holds
  <2>2. Cardinality(Vertices) = 0
    BY <2>1, UnheardAll DEF BooksInv, CountsKept
  <2>3. IsFiniteSet(Vertices)
    BY VerticesAre, TasksFinite DEF BooksInv, TypeOK
  <2> QED BY <2>2, <2>3, FS_EmptySet
<1> QED BY <1>0, <1>1, <1>2, <1>3, CallInv DEF taskVars

(* ytaskdepman_destroy frees the manager. *)
LEMMA DestroyBooks ==
    ASSUME BooksInv, Destroy
    PROVE  BooksInv'
<1> USE DEF Destroy
<1>0. Editing'
  BY NotEditing DEF BooksInv, threadVars
<1>1. Positions'
  BY DEF threadVars, BooksInv, Positions
<1>2. fate' \in Fates
  BY DEF BooksInv, TypeOK
<1> QED BY <1>0, <1>1, <1>2, CallInv DEF taskVars, threadVars, history

------------------------------------------------------------------------------
(* Steps of the tasks, the task manager and the Handler that leave the     *)
(* graph and the state of the manager alone.                               *)
LEMMA CountsIdle ==
    ASSUME TypeOK, Positions, CountsKept, order' = order, edges' = edges, count' = count,
           unhandled' = unhandled, stale' = stale, state' = state, Positions',
           hand.at \notin Holds, hand'.at \notin Holds
    PROVE  CountsKept'
<1>1. Vertices' = Vertices /\ Vertices \subseteq Tasks
  BY VerticesAre DEF Vertices, TypeOK
<1>2. Unheard = Vertices /\ \A t \in Vertices : Awaited(t) = Prerequisites(t)
  BY UnheardAll
<1>3. Unheard' = Vertices
  <2>1. \A t \in Vertices : hand'.task # t \/ hand'.at = "balance"
    BY <1>1, TaskDepManAssumption DEF Positions, Holds, Rest
  <2> QED BY <1>1, <2>1 DEF Unheard
<1>4. \A t \in Vertices : Awaited(t)' = Prerequisites(t)
  BY <1>1 DEF Awaited, Prerequisites, Holds
<1>5. \A t \in Vertices : Lost(t)' = Lost(t)
  BY DEF Lost
<1> HIDE DEF Unheard, Awaited, Lost
<1> QED BY <1>1, <1>2, <1>3, <1>4, <1>5 DEF CountsKept

(* What such a step may do to a task. *)
Moves(t) ==
    /\ tstate'[t] = "READY" => tstate[t] = "READY"
    /\ tstate[t] \in Ended => tstate'[t] \in Ended
    /\ tstate'[t] \in Active => t \in Vertices
    /\ tstate'[t] = "CANCELLING" => state = "CANCELLING"
    /\ tstate'[t] = "STARTED" => t \in running'
    /\ In(mail', Msg("slot", t)) => tstate'[t] \in Ended
    /\ In(mail', Msg("end", t)) => /\ tstate'[t] \in Ended
                                   /\ Mailed("end", t) \/ tstate[t] \in Active
    /\ In(mail', Msg("destroy", t)) => Mailed("destroy", t)

(* A step that leaves graph and counts alone: tasks may move as Moves says. *)
LEMMA WorkInv ==
    ASSUME BooksInv, Positions', state # "READY",
           UNCHANGED <<state, graphVars, history, editor>>,
           fate' \in Fates,
           hand' = hand \/ (hand.at \notin Holds /\ hand'.at \notin Holds),
           tstate' \in [Tasks -> {"READY"} \union Active \union Ended],
           waiting' \subseteq waiting, running' \subseteq Tasks,
           mail' \in Seq(Mails), Distinct(mail'),
           \A t \in Tasks : Moves(t)
    PROVE  BooksInv'
<1> USE DEF graphVars, history, built, Moves
<1>1. order \in Seq(Tasks) /\ Vertices' = Vertices /\ Vertices \subseteq Tasks
  BY VerticesAre DEF BooksInv, TypeOK, Vertices
<1>2. TypeOK'
  BY <1>1 DEF BooksInv, TypeOK, Mails, Active, Ended
<1>3. Numbered'
  BY NumberedStill DEF BooksInv
<1>4. BeforeStart' /\ AfterEnd'
  BY <1>1 DEF BooksInv, BeforeStart, AfterEnd
<1>5. TaskPlaces'
  <2> SUFFICES ASSUME NEW t \in Tasks
               PROVE  /\ tstate'[t] \in Active => t \in Vertices
                      /\ tstate'[t] = "CANCELLING" => state' = "CANCELLING"
                      /\ tstate'[t] = "READY" /\ t \in waiting' => t \in Vertices
                      /\ tstate'[t] = "STARTED" => t \in running'
                      /\ Mailed("slot", t)' => tstate'[t] \in Ended
    BY <1>1 DEF TaskPlaces
  <2>1. tstate'[t] = "READY" /\ t \in waiting' => t \in Vertices
    BY DEF BooksInv, TaskPlaces, Moves
  <2>2. Mailed("slot", t)' => tstate'[t] \in Ended
    BY Messages
  <2> QED BY <2>1, <2>2
<1>6. EndsOnce'
  <2>1. \A k, l \in 1 .. Len(mail') : mail'[k] = mail'[l] /\ mail'[k].type = "end" => k = l
    BY DEF Distinct
  <2>2. \A t \in Tasks : Mailed("end", t)' =>
            t \in Vertices /\ tstate'[t] \in Ended /\ ~(hand'.at \in Holds /\ hand'.task = t)
    <3> SUFFICES ASSUME NEW t \in Tasks, Mailed("end", t)'
                 PROVE  /\ t \in Vertices
                        /\ tstate'[t] \in Ended
                        /\ ~(hand'.at \in Holds /\ hand'.task = t)
      OBVIOUS
    <3>1. tstate'[t] \in Ended /\ (Mailed("end", t) \/ tstate[t] \in Active)
      BY Messages
    <3>2. CASE Mailed("end", t)
      BY <3>1, <3>2 DEF BooksInv, EndsOnce
    <3>3. CASE tstate[t] \in Active
      BY <3>1, <3>3 DEF BooksInv, TaskPlaces, EndsOnce, Active, Ended
    <3> QED BY <3>1, <3>2, <3>3
  <2>3. \A t \in Tasks : Mailed("destroy", t)' => t \notin Vertices
    BY Messages DEF BooksInv, EndsOnce
  <2>4. hand'.at \in Holds => hand'.task \in Vertices /\ tstate'[hand'.task] \in Ended
    <3> SUFFICES ASSUME hand'.at \in Holds
                 PROVE  hand'.task \in Vertices /\ tstate'[hand'.task] \in Ended
      OBVIOUS
    <3>1. hand' = hand /\ hand.task \in Vertices /\ tstate[hand.task] \in Ended
      BY DEF BooksInv, EndsOnce
    <3> QED BY <1>1, <3>1 DEF Ended
  <2> QED BY <1>1, <2>1, <2>2, <2>3, <2>4 DEF EndsOnce
<1>7. CountsKept'
  BY CountsStill, CountsIdle DEF BooksInv
<1>8. Editing'
  BY NotEditing DEF BooksInv
<1> QED BY <1>8, <1>2, <1>3, <1>4, <1>5, <1>6, <1>7 DEF BooksInv

(* The messages that a step leaves alone. *)
LEMMA MailOK ==
    ASSUME BooksInv
    PROVE  /\ mail \in Seq(Mails) /\ Distinct(mail)
           /\ \A t \in Tasks : /\ Mailed("slot", t) => tstate[t] \in Ended
                               /\ Mailed("end", t) => t \in Vertices /\ tstate[t] \in Ended
BY DEF BooksInv, TypeOK, Mails, EndsOnce, Distinct, TaskPlaces

(* A step that leaves the threads where they are. *)
LEMMA PositionsKept ==
    ASSUME Positions, state' = state, hand' = hand, starter' = starter,
           canceller' \in {canceller, "idle"}
    PROVE  Positions'
BY DEF Positions

(* The task manager starts a task, *)
LEMMA DispatchBooks ==
    ASSUME BooksInv, NEW t \in Tasks, Dispatch(t)
    PROVE  BooksInv'
<1> USE DEF Dispatch, threadVars
<1>1. Positions'
  BY PositionsKept DEF BooksInv
<1>2. state # "READY" /\ fate' \in Fates
  BY DEF BooksInv, TypeOK, BeforeStart, Fates
<1>3. /\ tstate' \in [Tasks -> {"READY"} \union Active \union Ended]
      /\ waiting' \subseteq waiting /\ running' \subseteq Tasks
  BY DEF BooksInv, TypeOK, Active, Ended
<1>4. mail' = mail /\ mail' \in Seq(Mails) /\ Distinct(mail')
  BY MailOK
<1>5. /\ \A u \in Tasks \ {t} : tstate'[u] = tstate[u]
      /\ tstate'[t] = IF tstate[t] = "READY" THEN "STARTED" ELSE tstate[t]
      /\ tstate[t] = "READY" => t \in Vertices
  BY DEF BooksInv, TypeOK, TaskPlaces
<1>6. ASSUME NEW u \in Tasks
      PROVE  Moves(u)
  <2>1. /\ In(mail', Msg("slot", u)) => tstate[u] \in Ended
        /\ In(mail', Msg("end", u)) => tstate[u] \in Ended /\ Mailed("end", u)
        /\ In(mail', Msg("destroy", u)) => Mailed("destroy", u)
    BY <1>4, Messages, MailOK
  <2>2. /\ tstate[u] \in Active => u \in Vertices
        /\ tstate[u] = "CANCELLING" => state = "CANCELLING"
        /\ tstate[u] = "STARTED" => u \in running
    BY DEF BooksInv, TaskPlaces
  <2> QED BY <1>5, <2>1, <2>2 DEF Moves, Active, Ended
<1> QED BY <1>1, <1>2, <1>3, <1>4, <1>6, WorkInv

(* cancels all of them, *)
LEMMA CancelTasksBooks ==
    ASSUME BooksInv, CancelTasks
    PROVE  BooksInv'
<1> USE DEF CancelTasks
<1>1. Positions'
  BY PositionsKept DEF BooksInv
<1>2. state \in {"CANCELLING", "CANCELLED"} /\ fate' \in Fates
  BY DEF BooksInv, TypeOK, Positions, Fates
<1>3. /\ tstate' \in [Tasks -> {"READY"} \union Active \union Ended]
      /\ waiting' \subseteq waiting /\ running' \subseteq Tasks
  BY DEF BooksInv, TypeOK, Active, Ended
<1>4. mail' = mail /\ mail' \in Seq(Mails) /\ Distinct(mail')
  BY MailOK
<1>5. \A u \in Tasks : tstate'[u] = IF u \in Vertices /\ tstate[u] \in {"READY", "STARTED"}
                                    THEN "CANCELLING" ELSE tstate[u]
  OBVIOUS
<1>6. ASSUME NEW u \in Tasks
      PROVE  Moves(u)
  <2>1. /\ In(mail', Msg("slot", u)) => tstate[u] \in Ended
        /\ In(mail', Msg("end", u)) => tstate[u] \in Ended /\ Mailed("end", u)
        /\ In(mail', Msg("destroy", u)) => Mailed("destroy", u)
    BY <1>4, Messages, MailOK
  <2>2. /\ tstate[u] \in Active => u \in Vertices
        /\ tstate[u] = "CANCELLING" => state = "CANCELLING"
        /\ tstate[u] = "STARTED" => u \in running
        /\ u \in Vertices => state = "CANCELLING"
    BY <1>2 DEF BooksInv, TaskPlaces, AfterEnd
  <2> QED BY <1>5, <2>1, <2>2 DEF Moves, Active, Ended
<1> QED BY <1>1, <1>2, <1>3, <1>4, <1>6, WorkInv

(* a thread terminates, *)
LEMMA TaskTerminatesBooks ==
    ASSUME BooksInv, NEW t \in Tasks, TaskTerminates(t)
    PROVE  BooksInv'
<1> USE DEF TaskTerminates, threadVars
<1>1. Positions'
  BY PositionsKept DEF BooksInv
<1>2. state # "READY" /\ fate' \in Fates
  BY DEF BooksInv, TypeOK, BeforeStart
<1>3. /\ tstate' \in [Tasks -> {"READY"} \union Active \union Ended]
      /\ waiting' \subseteq waiting /\ running' \subseteq Tasks
  BY DEF BooksInv, TypeOK, Active, Ended
<1>4. mail' = mail /\ mail' \in Seq(Mails) /\ Distinct(mail')
  BY MailOK
<1>5. \A u \in Tasks : tstate'[u] = tstate[u] \/ (tstate[u] \in Ended /\ tstate'[u] \in Ended)
  BY DEF BooksInv, TypeOK, Ended
<1>6. ASSUME NEW u \in Tasks
      PROVE  Moves(u)
  <2>1. /\ In(mail', Msg("slot", u)) => tstate[u] \in Ended
        /\ In(mail', Msg("end", u)) => tstate[u] \in Ended /\ Mailed("end", u)
        /\ In(mail', Msg("destroy", u)) => Mailed("destroy", u)
    BY <1>4, Messages, MailOK
  <2>2. /\ tstate[u] \in Active => u \in Vertices
        /\ tstate[u] = "CANCELLING" => state = "CANCELLING"
        /\ tstate[u] = "STARTED" => u \in running
    BY DEF BooksInv, TaskPlaces
  <2> QED BY <1>5, <2>1, <2>2 DEF Moves, Active, Ended
<1> QED BY <1>1, <1>2, <1>3, <1>4, <1>6, WorkInv

(* a task ends and tells so. *)
LEMMA TaskEndsBooks ==
    ASSUME BooksInv, NEW t \in Tasks, TaskEnds(t)
    PROVE  BooksInv'
<1> USE DEF TaskEnds, threadVars
<1>1. Positions'
  BY PositionsKept DEF BooksInv
<1>2. state # "READY" /\ fate' \in Fates /\ tstate[t] \in Active /\ t \in Vertices
  BY DEF BooksInv, TypeOK, BeforeStart, TaskPlaces, Active
<1>3. /\ tstate' \in [Tasks -> {"READY"} \union Active \union Ended]
      /\ waiting' \subseteq waiting /\ running' \subseteq Tasks
  BY DEF BooksInv, TypeOK, Active, Ended
<1>4. /\ mail' \in Seq(Mails) /\ Distinct(mail')
      /\ \A x : In(mail', x) =>
            In(mail, x) \/ x = Msg("end", t) \/ x = Msg("slot", t)
  <2> DEFINE m == Append(mail, Msg("end", t))
  <2>1. Msg("end", t) \in Mails /\ Msg("slot", t) \in Mails /\ Msg("slot", t).type # "end"
    BY Messages
  <2>2. ~In(mail, Msg("end", t))
    BY <1>2, MailOK, Messages DEF Active, Ended
  <2>3. mail \in Seq(Mails) /\ Distinct(mail)
    BY MailOK
  <2>4. m \in Seq(Mails) /\ Distinct(m) /\ \A x : In(m, x) <=> In(mail, x) \/ x = Msg("end", t)
    BY <2>1, <2>2, <2>3, MailAppend
  <2>5. CASE t \in running
    <3>1. mail' = Append(m, Msg("slot", t))
      <4>1. mail' = mail \o <<Msg("end", t)>> \o <<Msg("slot", t)>>
        BY <1>2, <2>5
      <4> HIDE DEF TaskEnds
      <4> QED BY <2>1, <2>3, <4>1, MailJoin
    <3> DEFINE x == Msg("slot", t)
    <3>2. x \in Mails /\ (x.type = "end" => ~In(m, x))
      BY <2>1
    <3>3. m \in Seq(Mails) /\ Distinct(m)
      BY <2>4
    <3> HIDE DEF m, x
    <3>4. /\ Append(m, x) \in Seq(Mails) /\ Distinct(Append(m, x))
          /\ \A y : In(Append(m, x), y) <=> In(m, y) \/ y = x
      BY <3>2, <3>3, MailAppend
    <3> QED BY <2>4, <3>1, <3>4 DEF x
  <2>6. CASE t \notin running
    <3>1. mail' = m
      <4>1. mail' = mail \o <<Msg("end", t)>> \o <<>>
        BY <1>2, <2>6
      <4> HIDE DEF TaskEnds
      <4> QED BY <2>1, <2>3, <4>1, MailJoin
    <3> QED BY <2>4, <3>1
  <2> QED BY <2>5, <2>6
<1>5. /\ \A u \in Tasks \ {t} : tstate'[u] = tstate[u]
      /\ tstate'[t] \in Ended
  BY DEF BooksInv, TypeOK, Ended
<1>6. ASSUME NEW u \in Tasks
      PROVE  Moves(u)
  <2>1. /\ In(mail', Msg("slot", u)) => tstate[u] \in Ended \/ u = t
        /\ In(mail', Msg("end", u)) => (tstate[u] \in Ended /\ Mailed("end", u)) \/ u = t
        /\ In(mail', Msg("destroy", u)) => Mailed("destroy", u)
    BY <1>4, Messages, SameMessage, MailOK
  <2>2. /\ tstate[u] \in Active => u \in Vertices
        /\ tstate[u] = "CANCELLING" => state = "CANCELLING"
        /\ tstate[u] = "STARTED" => u \in running
    BY DEF BooksInv, TaskPlaces
  <2> QED BY <1>2, <1>5, <2>1, <2>2 DEF Moves, Active, Ended
<1> QED BY <1>1, <1>2, <1>3, <1>4, <1>6, WorkInv

(* The Handler takes a message; some come back. *)
LEMMA Received ==
    ASSUME BooksInv, NEW type \in {"end", "slot", "destroy"}, Receives(type)
    PROVE  /\ state # "READY" /\ fate = "alive" /\ hand = Rest /\ hand.at \notin Holds
           /\ Head(mail).task \in Tasks
           /\ Head(mail) = Msg(type, Head(mail).task)
           /\ Tail(mail) \in Seq(Mails) /\ Distinct(Tail(mail))
           /\ \A x : In(mail, x) <=> x = Head(mail) \/ In(Tail(mail), x)
           /\ Head(mail).type = "end" => ~In(Tail(mail), Head(mail))
           /\ Mailed(type, Head(mail).task)
<1> USE DEF Receives
<1>1. /\ Tail(mail) \in Seq(Mails) /\ Distinct(Tail(mail))
      /\ Head(mail) \in Mails
      /\ \A x : In(mail, x) <=> x = Head(mail) \/ In(Tail(mail), x)
      /\ Head(mail).type = "end" => ~In(Tail(mail), Head(mail))
  BY MailOK, MailTail
<1>2. Head(mail) = Msg(type, Head(mail).task) /\ Head(mail).task \in Tasks
  BY <1>1 DEF Mails, Msg
<1>3. Mailed(type, Head(mail).task)
  BY <1>1, <1>2, Messages
<1> QED BY <1>1, <1>2, <1>3 DEF BooksInv, BeforeStart, Rest, Holds

(* Steps of the Handler that only handle messages and the slots. *)
LEMMA HandlerMoves ==
    ASSUME BooksInv, tstate' = tstate, mail' \in Seq(Mails),
           \A u \in Tasks : tstate[u] = "STARTED" => u \in running',
           \A type \in {"end", "slot", "destroy"}, u \in Tasks :
              In(mail', Msg(type, u)) => Mailed(type, u)
    PROVE  \A u \in Tasks : Moves(u)
<1> SUFFICES ASSUME NEW u \in Tasks PROVE Moves(u)
  OBVIOUS
<1>1. /\ In(mail', Msg("slot", u)) => tstate[u] \in Ended
      /\ In(mail', Msg("end", u)) => tstate[u] \in Ended /\ Mailed("end", u)
      /\ In(mail', Msg("destroy", u)) => Mailed("destroy", u)
  BY MailOK
<1>2. /\ tstate[u] \in Active => u \in Vertices
      /\ tstate[u] = "CANCELLING" => state = "CANCELLING"
  BY DEF BooksInv, TaskPlaces
<1> QED BY <1>1, <1>2 DEF Moves

(* The Handler destroys the task, *)
LEMMA DestroyHandledBooks ==
    ASSUME BooksInv, DestroyHandled
    PROVE  BooksInv'
<1> USE DEF DestroyHandled, threadVars
<1>1. Positions'
  BY PositionsKept DEF BooksInv
<1>2. state # "READY" /\ fate' \in Fates /\ Head(mail).type = "destroy"
  BY Received DEF BooksInv, TypeOK, Receives
<1>3. /\ tstate' \in [Tasks -> {"READY"} \union Active \union Ended]
      /\ waiting' \subseteq waiting /\ running' \subseteq Tasks
  BY DEF BooksInv, TypeOK, Active, Ended
<1>4. /\ mail' \in Seq(Mails) /\ Distinct(mail')
      /\ \A x : In(mail', x) => In(mail, x)
  <2>1. /\ Tail(mail) \in Seq(Mails) /\ Distinct(Tail(mail)) /\ Head(mail) \in Mails
        /\ \A x : In(mail, x) <=> x = Head(mail) \/ In(Tail(mail), x)
    BY Received, Messages
  <2>2. CASE tstate[Head(mail).task] = "TERMINATED"
    BY <2>1, <2>2
  <2>3. CASE tstate[Head(mail).task] # "TERMINATED"
    <3>1. mail' = Append(Tail(mail), Head(mail))
      BY <2>3
    <3> HIDE DEF DestroyHandled
    <3>2. Head(mail).type # "end"
      BY <1>2
    <3>3. /\ Append(Tail(mail), Head(mail)) \in Seq(Mails)
          /\ Distinct(Append(Tail(mail), Head(mail)))
          /\ \A x : In(Append(Tail(mail), Head(mail)), x)
                    <=> In(Tail(mail), x) \/ x = Head(mail)
      BY <2>1, <3>2, MailAppend
    <3> QED BY <2>1, <3>1, <3>3
  <2> QED BY <2>2, <2>3
<1>5. \A u \in Tasks : Moves(u)
  <2>1. \A u \in Tasks : tstate[u] = "STARTED" => u \in running'
    BY DEF BooksInv, TaskPlaces
  <2>2. \A type \in {"end", "slot", "destroy"}, u \in Tasks :
            In(mail', Msg(type, u)) => Mailed(type, u)
    BY <1>4, Messages
  <2> QED BY <1>4, <2>1, <2>2, HandlerMoves
<1> QED BY <1>1, <1>2, <1>3, <1>4, <1>5, WorkInv

(* frees its slot, *)
LEMMA FreeSlotBooks ==
    ASSUME BooksInv, FreeSlot
    PROVE  BooksInv'
<1> USE DEF FreeSlot
<1> DEFINE t == Head(mail).task
<1>1. /\ state # "READY" /\ t \in Tasks /\ Mailed("slot", t) /\ hand.at \notin Holds
      /\ Tail(mail) \in Seq(Mails) /\ Distinct(Tail(mail))
      /\ \A x : In(Tail(mail), x) => In(mail, x)
  BY Received
<1>2. tstate[t] \in Ended
  BY <1>1, MailOK
<1>3. Positions'
  <2>1. hand' \in [at : {"idle", "balance"} \union Holds, task : Tasks \union {None}]
    BY <1>1
  <2> QED BY <1>1, <2>1 DEF BooksInv, Positions
<1>4. /\ tstate' \in [Tasks -> {"READY"} \union Active \union Ended]
      /\ waiting' \subseteq waiting /\ running' \subseteq Tasks
      /\ fate' \in Fates
  BY DEF BooksInv, TypeOK, Active, Ended
<1>5. \A u \in Tasks : Moves(u)
  <2>1. \A u \in Tasks : tstate[u] = "STARTED" => u \in running'
    BY <1>2 DEF BooksInv, TaskPlaces, Ended
  <2>2. \A type \in {"end", "slot", "destroy"}, u \in Tasks :
            In(mail', Msg(type, u)) => Mailed(type, u)
    BY <1>1, Messages
  <2> QED BY <1>1, <2>1, <2>2, HandlerMoves
<1>6. hand'.at \notin Holds
  BY DEF Holds
<1> QED BY <1>1, <1>3, <1>4, <1>5, <1>6, WorkInv DEF graphVars, history, built

(* and starts the next ones. *)
LEMMA BalanceAgainBooks ==
    ASSUME BooksInv, BalanceAgain
    PROVE  BooksInv'
<1> USE DEF BalanceAgain, taskVars
<1>1. state # "READY" /\ hand.at \notin Holds /\ hand'.at \notin Holds
  BY DEF BooksInv, BeforeStart, Rest, Holds
<1>2. Positions'
  BY DEF BooksInv, Positions, Rest
<1>3. /\ tstate' \in [Tasks -> {"READY"} \union Active \union Ended]
      /\ waiting' \subseteq waiting /\ running' \subseteq Tasks
      /\ fate' \in Fates
  BY DEF BooksInv, TypeOK, Active, Ended, Fates
<1>4. mail' = mail /\ mail' \in Seq(Mails) /\ Distinct(mail')
  BY MailOK
<1>5. \A u \in Tasks : Moves(u)
  <2>1. \A u \in Tasks : tstate[u] = "STARTED" => u \in running'
    BY DEF BooksInv, TaskPlaces
  <2>2. \A type \in {"end", "slot", "destroy"}, u \in Tasks :
            In(mail', Msg(type, u)) => Mailed(type, u)
    BY <1>4, Messages
  <2> QED BY <1>4, <2>1, <2>2, HandlerMoves
<1> QED BY <1>1, <1>2, <1>3, <1>4, <1>5, WorkInv DEF graphVars, history, built

------------------------------------------------------------------------------
(* Building the graph. *)
LEMMA BuildInv ==
    ASSUME BooksInv, Building, Built,
           order' \in Seq(Tasks), edges' \subseteq Vertices' \X Vertices',
           count' \in [Tasks -> Nat], unhandled' \in Nat,
           Numbered',
           unhandled' = Cardinality(Vertices'),
           \A t \in Vertices' :
              count'[t] = Cardinality(Prerequisites(t)') + Cardinality(Lost(t)')
    PROVE  BooksInv'
<1> USE DEF Building, Built, taskVars, threadVars
<1>1. TypeOK'
  BY DEF BooksInv, TypeOK
<1>2. Positions'
  BY PositionsKept DEF BooksInv
<1>10. Editing'
  BY DEF Editing, NoEdit, Edit, Tried
<1>3. BeforeStart' /\ AfterEnd'
  BY DEF BooksInv, BeforeStart, AfterEnd
<1>4. \A type, t : ~Mailed(type, t)'
  BY DEF BooksInv, BeforeStart, Mailed
<1>5. TaskPlaces'
  BY <1>4 DEF BooksInv, BeforeStart, TaskPlaces, Active
<1>6. hand' = Rest
  BY DEF BooksInv, BeforeStart
<1>7. EndsOnce'
  BY <1>4, <1>6 DEF BooksInv, BeforeStart, EndsOnce, Rest, Holds
<1>8. Unheard' = Vertices' /\ \A t \in Vertices' : Awaited(t)' = Prerequisites(t)'
  <2>1. Vertices' \subseteq Tasks
    BY DEF Vertices, ToSet
  <2>2. \A t \in Vertices' : hand'.task # t
    BY <1>6, <2>1, TaskDepManAssumption DEF Rest
  <2> QED BY <1>6, <2>2 DEF Unheard, Awaited, Rest
<1>9. CountsKept'
  <2> SUFFICES ASSUME NEW t \in Vertices'
               PROVE  /\ count'[t] >= Cardinality(Awaited(t)') + Cardinality(Lost(t)')
                      /\ count'[t] = Cardinality(Awaited(t)') + Cardinality(Lost(t)')
    BY <1>8 DEF CountsKept
  <2>1. count'[t] = Cardinality(Awaited(t)') + Cardinality(Lost(t)') /\ count'[t] \in Nat
    <3>1. Vertices' \subseteq Tasks
      BY DEF Vertices, ToSet
    <3> QED BY <1>8, <3>1
  <2> HIDE DEF Awaited, Lost
  <2> QED BY <2>1
<1> QED BY <1>1, <1>2, <1>3, <1>5, <1>7, <1>9, <1>10 DEF BooksInv

(* A call that has looked at the state goes on in a manager that is READY. *)
LEMMA EditorBuilds ==
    ASSUME BooksInv, Call, editor # NoEdit
    PROVE  Building
BY DEF BooksInv, Positions, Editing, Call, Building

(* What the sets of tasks and edges are that a builder changes. *)
LEMMA Built0 ==
    ASSUME BooksInv, Building
    PROVE  /\ order \in Seq(Tasks) /\ Once(order) /\ Vertices \subseteq Tasks
           /\ edges \subseteq Vertices \X Vertices
           /\ count \in [Tasks -> Nat] /\ unhandled \in Nat
           /\ given \in 0 .. NTasks
           /\ IsFiniteSet(Vertices) /\ Cardinality(Vertices) \in Nat
           /\ unhandled = Cardinality(Vertices)
           /\ \A t \in Vertices :
                 /\ IsFiniteSet(Prerequisites(t)) /\ Cardinality(Prerequisites(t)) \in Nat
                 /\ IsFiniteSet(Lost(t)) /\ Cardinality(Lost(t)) \in Nat
                 /\ count[t] = Cardinality(Prerequisites(t)) + Cardinality(Lost(t))
<1> USE DEF Building
<1>1. /\ order \in Seq(Tasks) /\ edges \subseteq Vertices \X Vertices
      /\ count \in [Tasks -> Nat] /\ unhandled \in Nat /\ given \in 0 .. NTasks
      /\ Once(order) /\ stale \subseteq (1 .. given) \X (1 .. given)
  BY DEF BooksInv, TypeOK, Numbered, Once
<1>2. Vertices \subseteq Tasks /\ IsFiniteSet(Vertices) /\ Cardinality(Vertices) \in Nat
  BY <1>1, VerticesAre, TasksFinite
<1>3. hand.at \notin Holds
  BY DEF BooksInv, BeforeStart, Rest, Holds
<1>4. /\ Unheard = Vertices
      /\ \A t \in Vertices : Awaited(t) = Prerequisites(t)
  BY <1>3, UnheardAll DEF BooksInv
<1>5. /\ unhandled = Cardinality(Vertices)
      /\ \A t \in Vertices : count[t] = Cardinality(Prerequisites(t)) + Cardinality(Lost(t))
  BY <1>4 DEF BooksInv, CountsKept
<1>6. 1 .. given \subseteq Tasks
  BY <1>1, TaskDepManAssumption DEF Tasks
<1>7. ASSUME NEW t \in Vertices
      PROVE  /\ IsFiniteSet(Prerequisites(t)) /\ Cardinality(Prerequisites(t)) \in Nat
             /\ IsFiniteSet(Lost(t)) /\ Cardinality(Lost(t)) \in Nat
  <2>1. Prerequisites(t) \in SUBSET Tasks
    BY <1>2 DEF Prerequisites
  <2>2. Lost(t) \in SUBSET (Tasks \X Tasks)
    BY <1>1, <1>6 DEF Lost
  <2> QED BY <2>1, <2>2, TasksFinite, EdgesFinite
<1> QED BY <1>1, <1>2, <1>5, <1>7

(* ytaskdepman_add_task: a new vertex has no edge. *)
LEMMA AddTaskBooks ==
    ASSUME BooksInv, NEW t \in Tasks, AddTask(t)
    PROVE  BooksInv'
<1> USE DEF AddTask, Inside, Call
<1>0. Building
  BY EditorBuilds DEF Edit, NoEdit
<1> USE <1>0, Built0
<1>1. t \notin Vertices /\ t \in 1 .. given' /\ given' \in 0 .. NTasks /\ 1 .. given \subseteq 1 .. given'
      /\ t \notin 1 .. given
  BY TaskDepManAssumption DEF Tasks, BooksInv, Numbered
<1>2. order' \in Seq(Tasks) /\ Vertices' = Vertices \union {t} /\ Once(order')
  BY <1>1, ListAppend DEF Vertices
<1>3. Numbered'
  <2>1. Vertices' \subseteq 1 .. given'
    BY <1>1, <1>2 DEF BooksInv, Numbered
  <2>2. stale' \subseteq (1 .. given') \X (1 .. given')
    BY <1>1 DEF BooksInv, Numbered
  <2>3. \A e \in stale' : e[1] \notin Vertices'
    BY <1>1, <1>2 DEF BooksInv, Numbered
  <2> QED BY <1>1, <1>2, <2>1, <2>2, <2>3 DEF Numbered, Once
<1>4. unhandled' = Cardinality(Vertices') /\ unhandled' \in Nat
  <2>1. Cardinality(Vertices') = Cardinality(Vertices) + 1
    BY <1>1, <1>2, FS_AddElement
  <2>2. unhandled' = unhandled + 1
    OBVIOUS
  <2> QED BY <2>1, <2>2
<1>5. /\ count'[t] = 0 /\ \A u \in Vertices : count'[u] = count[u]
      /\ count' \in [Tasks -> Nat]
  BY <1>1
<1>6. ASSUME NEW u \in Vertices'
      PROVE  count'[u] = Cardinality(Prerequisites(u)') + Cardinality(Lost(u)')
  <2>1. Lost(u)' = Lost(u)
    BY DEF Lost
  <2>2. CASE u = t
    <3>1. Prerequisites(u)' = {}
      BY <1>1, <1>2, <2>2 DEF Prerequisites
    <3>2. Lost(u) = {}
      BY <1>1, <2>2 DEF Lost, BooksInv, Numbered
    <3>3. Cardinality(Prerequisites(u)') = 0 /\ Cardinality(Lost(u)') = 0
      BY <2>1, <3>1, <3>2, FS_EmptySet
    <3> QED BY <1>5, <2>2, <3>3
  <2>3. CASE u # t
    <3>1. Prerequisites(u)' = Prerequisites(u) /\ u \in Vertices
      BY <1>1, <1>2, <2>3 DEF Prerequisites
    <3> QED BY <1>5, <2>1, <3>1
  <2> QED BY <2>2, <2>3
<1>7. edges' \subseteq Vertices' \X Vertices'
  BY <1>2
<1> QED BY <1>2, <1>3, <1>4, <1>5, <1>6, <1>7, BuildInv

(* ytaskdepman_add_dependency: one edge and one count more. *)
LEMMA AddDependencyBooks ==
    ASSUME BooksInv, NEW p \in Tasks, NEW t \in Tasks, AddDependency(p, t)
    PROVE  BooksInv'
<1> USE DEF AddDependency, Inside, Call
<1>0. Building
  BY EditorBuilds DEF Edit, NoEdit
<1> USE <1>0, Built0
<1>1. /\ order' = order /\ unhandled' = unhandled /\ stale' = stale /\ given' = given
      /\ edges' = edges \union {<<p, t>>} /\ <<p, t>> \notin edges
      /\ p \in Vertices /\ t \in Vertices
  OBVIOUS
<1>2. Vertices' = Vertices
  BY <1>1 DEF Vertices
<1>3. Numbered'
  BY <1>1, NumberedStill DEF BooksInv
<1>4. edges' \subseteq Vertices' \X Vertices'
  BY <1>1, <1>2
<1>5. /\ count' \in [Tasks -> Nat]
      /\ count'[t] = count[t] + 1
      /\ \A u \in Vertices \ {t} : count'[u] = count[u]
  BY <1>1
<1>6. ASSUME NEW u \in Vertices'
      PROVE  count'[u] = Cardinality(Prerequisites(u)') + Cardinality(Lost(u)')
  <2>1. Lost(u)' = Lost(u) /\ u \in Vertices
    BY <1>1, <1>2 DEF Lost
  <2>2. CASE u = t
    <3>1. Prerequisites(u)' = Prerequisites(u) \union {p} /\ p \notin Prerequisites(u)
      BY <1>1, <1>2, <2>2 DEF Prerequisites
    <3>2. Cardinality(Prerequisites(u)') = Cardinality(Prerequisites(u)) + 1
      BY <2>1, <3>1, FS_AddElement
    <3> QED BY <1>5, <2>1, <2>2, <3>2
  <2>3. CASE u # t
    <3>1. Prerequisites(u)' = Prerequisites(u)
      BY <1>1, <1>2, <2>3 DEF Prerequisites
    <3> QED BY <1>5, <2>1, <2>3, <3>1
  <2> QED BY <2>2, <2>3
<1> QED BY <1>1, <1>2, <1>3, <1>4, <1>5, <1>6, BuildInv

(* ytaskdepman_remove_dependency: one edge and one count less. *)
LEMMA RemoveDependencyBooks ==
    ASSUME BooksInv, NEW p \in Tasks, NEW t \in Tasks, RemoveDependency(p, t)
    PROVE  BooksInv'
<1> USE DEF RemoveDependency, Inside, Call
<1>0. Building
  BY EditorBuilds DEF Edit, NoEdit
<1> USE <1>0, Built0
<1>1. /\ order' = order /\ unhandled' = unhandled /\ stale' = stale /\ given' = given
      /\ edges' = edges \ {<<p, t>>} /\ <<p, t>> \in edges
      /\ p \in Vertices /\ t \in Vertices
  OBVIOUS
<1>2. Vertices' = Vertices
  BY <1>1 DEF Vertices
<1>3. Numbered'
  BY <1>1, NumberedStill DEF BooksInv
<1>4. edges' \subseteq Vertices' \X Vertices'
  BY <1>1, <1>2
<1>5. /\ Prerequisites(t)' = Prerequisites(t) \ {p} /\ p \in Prerequisites(t)
      /\ Cardinality(Prerequisites(t)') = Cardinality(Prerequisites(t)) - 1
      /\ Cardinality(Prerequisites(t)') \in Nat
  <2>1. Prerequisites(t)' = Prerequisites(t) \ {p} /\ p \in Prerequisites(t)
    BY <1>1, <1>2 DEF Prerequisites
  <2> QED BY <1>1, <2>1, FS_RemoveElement, FS_CardinalityType
<1>6. /\ count' \in [Tasks -> Nat]
      /\ count'[t] = count[t] - 1
      /\ \A u \in Vertices \ {t} : count'[u] = count[u]
  <2>1. count[t] - 1 \in Nat
    BY <1>1, <1>5
  <2> QED BY <2>1
<1>7. ASSUME NEW u \in Vertices'
      PROVE  count'[u] = Cardinality(Prerequisites(u)') + Cardinality(Lost(u)')
  <2>1. Lost(u)' = Lost(u) /\ u \in Vertices
    BY <1>1, <1>2 DEF Lost
  <2>2. CASE u = t
    <3>1. count[t] = Cardinality(Prerequisites(t)) + Cardinality(Lost(t))
          /\ Cardinality(Prerequisites(t)) \in Nat /\ Cardinality(Lost(t)) \in Nat
      BY <1>1
    <3>2. Prerequisites(u)' = Prerequisites(t)' /\ Lost(u)' = Lost(t)
      BY <2>1, <2>2 DEF Prerequisites
    <3>3. count'[t] = (Cardinality(Prerequisites(t)) - 1) + Cardinality(Lost(t))
      BY <1>6, <3>1
    <3>4. count'[u] = Cardinality(Prerequisites(t)') + Cardinality(Lost(t))
      BY <1>5, <2>2, <3>3
    <3> QED BY <3>2, <3>4
  <2>3. CASE u # t
    <3>1. Prerequisites(u)' = Prerequisites(u)
      BY <1>1, <1>2, <2>3 DEF Prerequisites
    <3> QED BY <1>6, <2>1, <2>3, <3>1
  <2> QED BY <2>2, <2>3
<1> QED BY <1>1, <1>2, <1>3, <1>4, <1>6, <1>7, BuildInv

(* ytaskdepman_remove_task: its targets go on counting it (Lost). *)
LEMMA RemoveTaskBooks ==
    ASSUME BooksInv, NEW t \in Tasks, RemoveTask(t)
    PROVE  BooksInv'
<1> USE DEF RemoveTask, Inside, Call
<1>0. Building
  BY EditorBuilds DEF Edit, NoEdit
<1> USE <1>0, Built0
<1>1. /\ order' \in Seq(Tasks) /\ Vertices' = Vertices \ {t} /\ Once(order')
      /\ t \in Vertices /\ count' = count /\ given' = given
  BY ListRemove DEF Vertices
<1>2. /\ edges' = {e \in edges : t \notin {e[1], e[2]}}
      /\ edges' \subseteq Vertices' \X Vertices'
  BY <1>1 DEF Without
<1>3. stale' = {e \in stale : e[2] # t} \union {<<t, u>> : u \in Targets(t) \ {t}}
  BY DEF StaleWithout
<1>4. Numbered'
  <2>1. Vertices \subseteq 1 .. given /\ stale \subseteq (1 .. given) \X (1 .. given)
        /\ \A e \in stale : e[1] \notin Vertices
    BY DEF BooksInv, Numbered
  <2>2. Vertices' \subseteq 1 .. given'
    BY <1>1, <2>1
  <2>3. stale' \subseteq (1 .. given') \X (1 .. given')
    <3>1. Targets(t) \subseteq 1 .. given /\ t \in 1 .. given /\ given' = given
      BY <1>1, <2>1 DEF Targets
    <3>2. {<<t, u>> : u \in Targets(t) \ {t}} \subseteq (1 .. given) \X (1 .. given)
      BY <3>1
    <3> QED BY <1>3, <2>1, <3>1, <3>2
  <2>4. \A e \in stale' : e[1] \notin Vertices'
    BY <1>1, <1>3, <2>1
  <2> QED BY <1>1, <2>2, <2>3, <2>4 DEF Numbered, Once
<1>5. unhandled' = Cardinality(Vertices') /\ unhandled' \in Nat
  <2>1. Cardinality(Vertices') = Cardinality(Vertices) - 1 /\ IsFiniteSet(Vertices')
    BY <1>1, FS_RemoveElement
  <2> QED BY <2>1, FS_CardinalityType
<1>6. ASSUME NEW u \in Vertices'
      PROVE  count'[u] = Cardinality(Prerequisites(u)') + Cardinality(Lost(u)')
  <2>1. u \in Vertices /\ u # t
    BY <1>1
  <2>2. Prerequisites(u)' = Prerequisites(u) \ {t}
    BY <1>1, <1>2, <2>1 DEF Prerequisites
  <2>3. CASE <<t, u>> \in edges
    <3>1. t \in Prerequisites(u)
      BY <1>1, <2>3 DEF Prerequisites
    <3>2. Cardinality(Prerequisites(u)') = Cardinality(Prerequisites(u)) - 1
      BY <2>1, <2>2, <3>1, FS_RemoveElement
    <3>3. Lost(u)' = Lost(u) \union {<<t, u>>}
      <4>1. u \in Targets(t) \ {t}
        BY <1>1, <2>1, <2>3 DEF Targets
      <4>2. \A w : <<t, w>>[2] = w
        OBVIOUS
      <4> HIDE DEF RemoveTask
      <4> QED BY <1>3, <2>1, <4>1, <4>2 DEF Lost
    <3>4. <<t, u>> \notin Lost(u)
      BY <1>1 DEF Lost, BooksInv, Numbered
    <3>5. Cardinality(Lost(u)') = Cardinality(Lost(u)) + 1
      BY <2>1, <3>3, <3>4, FS_AddElement
    <3> QED BY <1>1, <2>1, <3>2, <3>5
  <2>4. CASE <<t, u>> \notin edges
    <3>1. Prerequisites(u)' = Prerequisites(u)
      BY <2>2, <2>4 DEF Prerequisites
    <3>2. Lost(u)' = Lost(u)
      <4>1. u \notin Targets(t) \ {t}
        BY <1>1, <2>1, <2>4 DEF Targets
      <4>2. \A w : <<t, w>>[2] = w
        OBVIOUS
      <4> HIDE DEF RemoveTask
      <4> QED BY <1>3, <2>1, <4>1, <4>2 DEF Lost
    <3> QED BY <1>1, <2>1, <3>1, <3>2
  <2> QED BY <2>3, <2>4
<1> QED BY <1>1, <1>2, <1>4, <1>5, <1>6, BuildInv

------------------------------------------------------------------------------
(* The Handler handles the end of a task. *)
LEMMA RetireEffect ==
    ASSUME BooksInv, NEW t \in Vertices, NEW inbox \in Seq(Mails), Distinct(inbox),
           Retire(t, inbox)
    PROVE  /\ order' \in Seq(Tasks) /\ Once(order') /\ Vertices' = Vertices \ {t}
           /\ edges' = Without(t) /\ edges' \subseteq Vertices' \X Vertices'
           /\ \A u \in Vertices' : Prerequisites(u)' = Prerequisites(u) \ {t}
           /\ mail' \in Seq(Mails) /\ Distinct(mail')
           /\ \A x : In(mail', x) <=> In(inbox, x) \/ x = Msg("destroy", t)
<1> USE DEF Retire
<1>1. /\ order \in Seq(Tasks) /\ Once(order) /\ Vertices \subseteq Tasks
      /\ edges \subseteq Vertices \X Vertices
  BY VerticesAre DEF BooksInv, TypeOK, Numbered, Once
<1>2. order' \in Seq(Tasks) /\ Once(order') /\ Vertices' = Vertices \ {t}
  BY <1>1, ListRemove DEF Vertices
<1>3. edges' = Without(t) /\ edges' \subseteq Vertices' \X Vertices'
  BY <1>1, <1>2 DEF Without
<1>4. \A u \in Vertices' : Prerequisites(u)' = Prerequisites(u) \ {t}
  BY <1>2, <1>3 DEF Without, Prerequisites
<1>5. /\ mail' \in Seq(Mails) /\ Distinct(mail')
      /\ \A x : In(mail', x) <=> In(inbox, x) \/ x = Msg("destroy", t)
  <2>1. Msg("destroy", t) \in Mails /\ Msg("destroy", t).type # "end"
    BY <1>1, Messages
  <2> QED BY <2>1, MailAppend
<1> QED BY <1>2, <1>3, <1>4, <1>5

(* What a task waits for can be counted. *)
LEMMA AwaitedFinite ==
    ASSUME BooksInv, NEW t \in Vertices
    PROVE  /\ IsFiniteSet(Prerequisites(t)) /\ Cardinality(Prerequisites(t)) \in Nat
           /\ IsFiniteSet(Awaited(t)) /\ Cardinality(Awaited(t)) \in Nat
           /\ Cardinality(Lost(t)) \in Nat
           /\ count[t] \in Nat
<1>1. Vertices \subseteq Tasks /\ count \in [Tasks -> Nat]
  BY VerticesAre DEF BooksInv, TypeOK
<1>2. Prerequisites(t) \in SUBSET Tasks /\ Awaited(t) \in SUBSET Tasks
  BY <1>1 DEF Awaited, Prerequisites
<1>3. stale \subseteq Tasks \X Tasks
  <2>1. 1 .. given \subseteq Tasks
    BY TaskDepManAssumption DEF Tasks, BooksInv, Numbered
  <2> QED BY <2>1 DEF BooksInv, Numbered
<1>4. Lost(t) \in SUBSET (Tasks \X Tasks)
  BY <1>3 DEF Lost
<1> QED BY <1>1, <1>2, <1>4, TasksFinite, EdgesFinite

(* The vertex of a task that has ended leaves the graph. *)
LEMMA RetireHandledBooks ==
    ASSUME BooksInv, RetireHandled
    PROVE  BooksInv'
<1> USE DEF RetireHandled
<1> DEFINE r == hand.task
<1>1. r \in Vertices /\ r \in Tasks /\ tstate[r] \in Ended /\ hand.at = "retire"
      /\ state # "READY" /\ Vertices \subseteq Tasks
  BY VerticesAre DEF BooksInv, TypeOK, EndsOnce, BeforeStart, Rest, Holds
<1>2. /\ order' \in Seq(Tasks) /\ Once(order') /\ Vertices' = Vertices \ {r}
      /\ edges' \subseteq Vertices' \X Vertices'
      /\ \A u \in Vertices' : Prerequisites(u)' = Prerequisites(u) \ {r}
      /\ mail' \in Seq(Mails) /\ Distinct(mail')
      /\ \A x : In(mail', x) <=> In(mail, x) \/ x = Msg("destroy", r)
  BY <1>1, MailOK, RetireEffect
<1>12. fate' = fate /\ fate = "alive"
  BY <1>1
<1>3. TypeOK'
  <2> HIDE DEF RetireHandled
  <2>1. UNCHANGED <<state, count, unhandled, tstate, waiting, running>>
    BY DEF RetireHandled
  <2> QED BY <1>2, <1>12, <2>1 DEF BooksInv, TypeOK, Mails
<1>11. Editing'
  BY <1>1, NotEditing DEF BooksInv
<1>4. Positions'
  BY DEF BooksInv, Positions, Rest
<1>5. Numbered'
  BY <1>2 DEF BooksInv, Numbered, Once, history, built
<1>6. BeforeStart' /\ AfterEnd'
  BY <1>1, <1>2 DEF BooksInv, BeforeStart, AfterEnd
<1>7. /\ \A u : Mailed("end", u)' <=> Mailed("end", u)
      /\ \A u : Mailed("slot", u)' <=> Mailed("slot", u)
      /\ \A u : Mailed("destroy", u)' <=> Mailed("destroy", u) \/ u = r
  BY <1>2, Messages, SameMessage
<1>8. TaskPlaces'
  BY <1>1, <1>2, <1>7 DEF BooksInv, TaskPlaces, Active, Ended
<1>9. EndsOnce'
  <2>1. \A k, l \in 1 .. Len(mail') : mail'[k] = mail'[l] /\ mail'[k].type = "end" => k = l
    BY <1>2 DEF Distinct
  <2>2. hand'.at \notin Holds
    BY DEF Rest, Holds
  <2>3. \A u \in Tasks : Mailed("end", u)' => u \in Vertices' /\ tstate'[u] \in Ended
    BY <1>1, <1>2, <1>7 DEF BooksInv, EndsOnce, Holds
  <2>4. \A u \in Tasks : Mailed("destroy", u)' => u \notin Vertices'
    BY <1>2, <1>7 DEF BooksInv, EndsOnce
  <2> QED BY <2>1, <2>2, <2>3, <2>4 DEF EndsOnce
<1>10. CountsKept'
  <2>1. Unheard' = Unheard
    <3>1. \A u \in Vertices' : hand'.task # u
      BY <1>1, <1>2, TaskDepManAssumption DEF Rest
    <3> QED BY <1>1, <1>2, <3>1 DEF Unheard
  <2>2. ASSUME NEW u \in Vertices'
        PROVE  Awaited(u)' = Awaited(u) /\ Lost(u)' = Lost(u)
    BY <1>1, <1>2 DEF Awaited, Lost, history, built, Rest
  <2> HIDE DEF Unheard, Awaited, Lost
  <2> QED BY <1>2, <2>1, <2>2 DEF BooksInv, CountsKept
<1> QED BY <1>11, <1>3, <1>4, <1>5, <1>6, <1>8, <1>9, <1>10 DEF BooksInv

(* The targets of a task that has ended wait for one task less. *)
LEMMA ReleaseBooks ==
    ASSUME BooksInv, Release
    PROVE  BooksInv'
<1> USE DEF Release
<1> DEFINE r == hand.task
<1>1. r \in Vertices /\ r \in Tasks /\ tstate[r] \in Ended /\ hand.at = "release"
      /\ state # "READY" /\ Vertices \subseteq Tasks
  BY VerticesAre DEF BooksInv, TypeOK, EndsOnce, BeforeStart, Rest, Holds
<1>2. Vertices' = Vertices /\ stale' = stale /\ edges' = edges
  BY DEF Vertices, history, built
<1>3. /\ hand'.at = "retire" /\ hand'.task = r
      /\ hand' \in [at : {"idle", "balance"} \union Holds, task : Tasks \union {None}]
  BY <1>1 DEF BooksInv, Positions, Holds
<1>4. ASSUME NEW t \in Vertices
      PROVE  /\ Lost(t)' = Lost(t)
             /\ t \notin Targets(r) => Awaited(t)' = Awaited(t) /\ count'[t] = count[t]
             /\ t \in Targets(r) => /\ Cardinality(Awaited(t)') = Cardinality(Awaited(t)) - 1
                                    /\ Cardinality(Awaited(t)') \in Nat
                                    /\ count'[t] = count[t] - 1
  <2>1. Lost(t)' = Lost(t)
    BY <1>2 DEF Lost
  <2>2. Awaited(t)' = Awaited(t) \ {r}
    BY <1>1, <1>2, <1>3 DEF Awaited, Prerequisites
  <2>3. t \in Targets(r) <=> r \in Awaited(t)
    BY <1>1 DEF Awaited, Prerequisites, Targets
  <2>4. CASE t \in Targets(r)
    <3>1. Cardinality(Awaited(t)') = Cardinality(Awaited(t)) - 1
      BY <2>2, <2>3, <2>4, AwaitedFinite, FS_RemoveElement
    <3>2. Cardinality(Awaited(t)') \in Nat
      BY <2>2, AwaitedFinite, FS_RemoveElement, FS_CardinalityType
    <3>3. count'[t] = count[t] - 1
      BY <1>1, <2>4
    <3> QED BY <2>1, <2>4, <3>1, <3>2, <3>3
  <2>5. CASE t \notin Targets(r)
    <3>1. Awaited(t)' = Awaited(t)
      BY <2>2, <2>3, <2>5
    <3>2. count'[t] = count[t]
      BY <1>1, <2>5
    <3> QED BY <2>1, <2>5, <3>1, <3>2
  <2> QED BY <2>4, <2>5
<1>5. ASSUME NEW t \in Vertices
      PROVE  /\ count'[t] \in Nat
             /\ count'[t] >= Cardinality(Awaited(t)') + Cardinality(Lost(t)')
             /\ state' \in {"READY", "STARTED"} =>
                   count'[t] = Cardinality(Awaited(t)') + Cardinality(Lost(t)')
  <2>1. /\ Cardinality(Awaited(t)) \in Nat /\ Cardinality(Lost(t)) \in Nat /\ count[t] \in Nat
    BY AwaitedFinite
  <2>2. /\ count[t] >= Cardinality(Awaited(t)) + Cardinality(Lost(t))
        /\ state \in {"READY", "STARTED"} =>
              count[t] = Cardinality(Awaited(t)) + Cardinality(Lost(t))
    BY DEF BooksInv, CountsKept
  <2>3. Cardinality(Lost(t)') = Cardinality(Lost(t)) /\ state' = state
    BY <1>4
  <2>4. CASE t \in Targets(r)
    <3>1. /\ Cardinality(Awaited(t)') = Cardinality(Awaited(t)) - 1
          /\ Cardinality(Awaited(t)') \in Nat
          /\ count'[t] = count[t] - 1
      BY <1>4, <2>4
    <3> HIDE DEF Awaited, Lost, Release
    <3> QED BY <2>1, <2>2, <2>3, <3>1
  <2>5. CASE t \notin Targets(r)
    <3>1. Cardinality(Awaited(t)') = Cardinality(Awaited(t)) /\ count'[t] = count[t]
      BY <1>4, <2>5
    <3> HIDE DEF Awaited, Lost, Release
    <3> QED BY <2>1, <2>2, <2>3, <3>1
  <2> QED BY <2>4, <2>5
<1>6. /\ fate' \in Fates
      /\ \E S \in SUBSET Vertices : waiting' = waiting \union S
  <2>1. {t \in Targets(r) : AllEnded(count'[t])} \subseteq Vertices
    BY DEF Targets
  <2>2. PICK S \in SUBSET Vertices, why \in Fates : Inject(S, why)
    BY <2>1 DEF Fates
  <2>3. waiting' = waiting \union S \/ waiting' = waiting \union {}
    BY <2>2 DEF Inject
  <2> QED BY <2>2, <2>3 DEF Inject, BooksInv, TypeOK
<1>7. TypeOK'
  <2>1. count' \in [Tasks -> Nat]
    <3>1. \A t \in Tasks : count'[t] \in Nat
      <4> TAKE t \in Tasks
      <4>1. CASE t \in Vertices
        BY <1>5, <4>1
      <4>2. CASE t \notin Vertices
        BY <4>2 DEF Targets, BooksInv, TypeOK
      <4> QED BY <4>1, <4>2
    <3> QED BY <3>1
  <2> QED BY <1>1, <1>2, <1>6, <2>1 DEF BooksInv, TypeOK
<1>15. Editing'
  BY <1>1, NotEditing DEF BooksInv
<1>8. Positions'
  BY <1>1, <1>3 DEF BooksInv, Positions
<1>9. Numbered'
  BY NumberedStill DEF BooksInv, history, built
<1>10. BeforeStart' /\ AfterEnd'
  BY <1>1, <1>2 DEF BooksInv, BeforeStart, AfterEnd
<1>11. \A type, u : Mailed(type, u)' <=> Mailed(type, u)
  BY DEF Mailed, Msg
<1>12. TaskPlaces'
  BY <1>2, <1>6, <1>11 DEF BooksInv, TaskPlaces
<1>13. EndsOnce'
  BY <1>1, <1>2, <1>3, <1>11 DEF BooksInv, EndsOnce, Holds
<1>14. CountsKept'
  <2>1. Unheard' = Unheard
    BY <1>1, <1>2, <1>3 DEF Unheard
  <2> HIDE DEF Unheard, Awaited, Lost
  <2> QED BY <1>2, <1>5, <2>1 DEF BooksInv, CountsKept
<1> QED BY <1>15, <1>7, <1>8, <1>9, <1>10, <1>12, <1>13, <1>14 DEF BooksInv

(* What the Handler knows when it takes the end of t from its messages. *)
LEMMA EndReceived ==
    ASSUME BooksInv, Receives("end")
    PROVE  LET t == Head(mail).task
           IN  /\ t \in Tasks /\ t \in Vertices /\ tstate[t] \in Ended
               /\ state \in {"STARTED", "CANCELLING"}
               /\ hand = Rest /\ hand.at \notin Holds
               /\ Tail(mail) \in Seq(Mails) /\ Distinct(Tail(mail))
               /\ \A x : In(Tail(mail), x) => In(mail, x) /\ x # Msg("end", t)
               /\ unhandled = Cardinality(Vertices)
               /\ \A u \in Vertices : Awaited(u) = Prerequisites(u)
<1> DEFINE t == Head(mail).task
<1>1. /\ state # "READY" /\ hand = Rest /\ hand.at \notin Holds
      /\ t \in Tasks /\ Head(mail) = Msg("end", t) /\ Head(mail).type = "end"
      /\ Tail(mail) \in Seq(Mails) /\ Distinct(Tail(mail))
      /\ \A x : In(mail, x) <=> x = Head(mail) \/ In(Tail(mail), x)
      /\ Head(mail).type = "end" => ~In(Tail(mail), Head(mail))
      /\ Mailed("end", t)
  BY Received DEF Receives
<1>2. t \in Vertices /\ tstate[t] \in Ended
  BY <1>1 DEF BooksInv, EndsOnce
<1>3. state \in {"STARTED", "CANCELLING"}
  BY <1>1, <1>2 DEF BooksInv, TypeOK, AfterEnd
<1>4. unhandled = Cardinality(Vertices) /\ \A u \in Vertices : Awaited(u) = Prerequisites(u)
  BY <1>1, UnheardAll DEF BooksInv, CountsKept
<1>5. \A x : In(Tail(mail), x) => In(mail, x) /\ x # Msg("end", t)
  BY <1>1
<1> QED BY <1>1, <1>2, <1>3, <1>4, <1>5

(* The end of the last task is the end of the graph. *)
LEMMA FinishedLast ==
    ASSUME BooksInv, Finished, LastTask
    PROVE  BooksInv' /\ Vertices = {Head(mail).task} /\ Vertices' = {}
<1> USE DEF Finished
<1> DEFINE t == Head(mail).task
<1>1. /\ t \in Tasks /\ t \in Vertices /\ tstate[t] \in Ended
      /\ state \in {"STARTED", "CANCELLING"}
      /\ hand = Rest /\ hand.at \notin Holds
      /\ Tail(mail) \in Seq(Mails) /\ Distinct(Tail(mail))
      /\ \A x : In(Tail(mail), x) => In(mail, x) /\ x # Msg("end", t)
      /\ unhandled = Cardinality(Vertices)
  BY EndReceived
<1>2. /\ Retire(t, Tail(mail)) /\ hand' = hand /\ unhandled' = unhandled - 1
      /\ state' = IF state = "CANCELLING" THEN "CANCELLED" ELSE "DONE"
      /\ fate' = "alive"
      /\ UNCHANGED <<count, tstate, waiting, running, editor, starter, canceller, gone, history>>
  BY <1>1 DEF Receives
<1> HIDE DEF Finished
<1>3. /\ order' \in Seq(Tasks) /\ Once(order') /\ Vertices' = Vertices \ {t}
      /\ edges' \subseteq Vertices' \X Vertices'
      /\ mail' \in Seq(Mails) /\ Distinct(mail')
      /\ \A x : In(mail', x) <=> In(Tail(mail), x) \/ x = Msg("destroy", t)
  BY <1>1, <1>2, RetireEffect
<1>4. Vertices = {t} /\ Vertices' = {}
  <2>1. Cardinality(Vertices) = 1 /\ IsFiniteSet(Vertices)
    BY <1>1, VerticesAre, TasksFinite DEF LastTask, BooksInv, TypeOK
  <2>2. PICK v : Vertices = {v}
    BY <2>1, FS_Singleton
  <2> QED BY <1>1, <1>3, <2>2
<1>5. unhandled' = 0
  BY <1>2 DEF LastTask
<1>6. TypeOK'
  BY <1>1, <1>2, <1>3, <1>5 DEF BooksInv, TypeOK, Mails, Fates
<1>14. Editing'
  BY <1>1, <1>2, NotEditing DEF BooksInv
<1>7. Positions'
  BY <1>1, <1>2 DEF BooksInv, Positions
<1>8. Numbered'
  BY <1>2, <1>3 DEF BooksInv, Numbered, Once, history, built
<1>9. BeforeStart' /\ AfterEnd'
  BY <1>2, <1>4 DEF BeforeStart, AfterEnd
<1>10. /\ \A u : Mailed("end", u)' => Mailed("end", u) /\ u # t
       /\ \A u : Mailed("slot", u)' => Mailed("slot", u)
  BY <1>1, <1>3, Messages, SameMessage
<1>11. TaskPlaces'
  <2>1. \A u \in Tasks : tstate[u] \notin Active /\ ~(tstate[u] = "READY" /\ u \in waiting)
    BY <1>1, <1>4 DEF BooksInv, TaskPlaces, Active, Ended
  <2> QED BY <1>2, <1>10, <2>1 DEF BooksInv, TaskPlaces, Active
<1>12. EndsOnce'
  <2>1. \A k, l \in 1 .. Len(mail') : mail'[k] = mail'[l] /\ mail'[k].type = "end" => k = l
    BY <1>3 DEF Distinct
  <2>2. \A u \in Tasks : ~Mailed("end", u)'
    BY <1>4, <1>10 DEF BooksInv, EndsOnce
  <2> QED BY <1>1, <1>2, <1>4, <2>1, <2>2 DEF EndsOnce
<1>13. CountsKept'
  <2>1. Unheard' = {}
    BY <1>4 DEF Unheard
  <2> HIDE DEF Unheard
  <2> QED BY <1>4, <1>5, <2>1, FS_EmptySet DEF CountsKept
<1> QED BY <1>14, <1>4, <1>6, <1>7, <1>8, <1>9, <1>11, <1>12, <1>13 DEF BooksInv

(* The end of another task begins the release of its targets. *)
LEMMA FinishedOther ==
    ASSUME BooksInv, Finished, ~LastTask
    PROVE  BooksInv'
<1> USE DEF Finished
<1> DEFINE t == Head(mail).task
<1>1. /\ t \in Tasks /\ t \in Vertices /\ tstate[t] \in Ended
      /\ state \in {"STARTED", "CANCELLING"}
      /\ hand = Rest /\ hand.at \notin Holds
      /\ Tail(mail) \in Seq(Mails) /\ Distinct(Tail(mail))
      /\ \A x : In(Tail(mail), x) => In(mail, x) /\ x # Msg("end", t)
      /\ unhandled = Cardinality(Vertices)
      /\ \A u \in Vertices : Awaited(u) = Prerequisites(u)
  BY EndReceived
<1>2. /\ hand' = [at |-> IF state = "STARTED" THEN "release" ELSE "retire", task |-> t]
      /\ mail' = Tail(mail) /\ unhandled' = unhandled - 1
      /\ fate' = "alive"
      /\ UNCHANGED <<order, edges, state>>
      /\ UNCHANGED <<count, tstate, waiting, running, editor, starter, canceller, gone, history>>
  BY <1>1 DEF Receives
<1> HIDE DEF Finished
<1>3. Vertices' = Vertices /\ Vertices \subseteq Tasks
  BY <1>2, VerticesAre DEF Vertices, BooksInv, TypeOK
<1>4. /\ hand'.task = t /\ hand'.at \in Holds
      /\ hand' \in [at : {"idle", "balance"} \union Holds, task : Tasks \union {None}]
      /\ hand'.at = "release" \/ (state = "CANCELLING" /\ hand'.at = "retire")
  <2>1. hand'.task = t /\ hand'.at = IF state = "STARTED" THEN "release" ELSE "retire"
    BY <1>2
  <2>2. hand' = [at |-> hand'.at, task |-> hand'.task]
    BY <1>2, <2>1
  <2>3. hand'.at \in Holds
    BY <2>1 DEF Holds
  <2>4. hand'.at = "release" \/ (state = "CANCELLING" /\ hand'.at = "retire")
    BY <1>1, <2>1
  <2> QED BY <1>1, <2>1, <2>2, <2>3, <2>4
<1>5. Unheard' = Vertices \ {t}
  BY <1>3, <1>4 DEF Unheard, Holds
<1>6. unhandled' = Cardinality(Unheard') /\ unhandled' \in Nat
  <2>1. IsFiniteSet(Vertices)
    BY <1>3, TasksFinite
  <2>2. Cardinality(Unheard') = Cardinality(Vertices) - 1 /\ IsFiniteSet(Unheard')
    BY <1>1, <1>5, <2>1, FS_RemoveElement
  <2> HIDE DEF Unheard
  <2> QED BY <1>1, <1>2, <2>2, FS_CardinalityType
<1>7. TypeOK'
  BY <1>1, <1>2, <1>3, <1>6 DEF BooksInv, TypeOK, Mails, Fates
<1>15. Editing'
  BY <1>1, <1>2, NotEditing DEF BooksInv
<1>8. Positions'
  BY <1>1, <1>2, <1>4 DEF BooksInv, Positions, Holds
<1>9. Numbered'
  BY <1>2, NumberedStill DEF BooksInv, history, built
<1>10. BeforeStart' /\ AfterEnd'
  BY <1>1, <1>2, <1>3 DEF BooksInv, BeforeStart, AfterEnd
<1>11. /\ \A u : Mailed("end", u)' => Mailed("end", u) /\ u # t
       /\ \A u : Mailed("slot", u)' => Mailed("slot", u)
       /\ \A u : Mailed("destroy", u)' => Mailed("destroy", u)
  BY <1>1, <1>2, Messages, SameMessage
<1>12. TaskPlaces'
  BY <1>2, <1>3, <1>11 DEF BooksInv, TaskPlaces
<1>13. EndsOnce'
  <2>1. \A k, l \in 1 .. Len(mail') : mail'[k] = mail'[l] /\ mail'[k].type = "end" => k = l
    BY <1>1, <1>2 DEF Distinct
  <2> QED BY <1>1, <1>2, <1>3, <1>4, <1>11, <2>1 DEF BooksInv, EndsOnce
<1>14. CountsKept'
  <2>1. ASSUME NEW u \in Vertices
        PROVE  /\ Cardinality(Awaited(u)') <= Cardinality(Awaited(u))
               /\ Cardinality(Awaited(u)') \in Nat
               /\ state' \in {"READY", "STARTED"} => Awaited(u)' = Awaited(u)
               /\ Lost(u)' = Lost(u)
    <3>1. Awaited(u)' = Awaited(u) \/ Awaited(u)' = Awaited(u) \ {t}
      BY <1>1, <1>2, <1>3, <1>4 DEF Awaited, Prerequisites
    <3>2. Awaited(u)' \subseteq Awaited(u) /\ IsFiniteSet(Awaited(u))
      BY <3>1, AwaitedFinite
    <3>3. /\ Cardinality(Awaited(u)') <= Cardinality(Awaited(u))
          /\ Cardinality(Awaited(u)') \in Nat
      BY <3>2, FS_Subset, FS_CardinalityType
    <3>4. state' \in {"READY", "STARTED"} => Awaited(u)' = Awaited(u)
      BY <1>1, <1>2, <1>3, <1>4 DEF Awaited, Prerequisites
    <3>5. Lost(u)' = Lost(u)
      BY <1>2 DEF Lost, history, built
    <3> QED BY <3>3, <3>4, <3>5
  <2>2. ASSUME NEW u \in Vertices
        PROVE  /\ count'[u] >= Cardinality(Awaited(u)') + Cardinality(Lost(u)')
               /\ state' \in {"READY", "STARTED"} =>
                     count'[u] = Cardinality(Awaited(u)') + Cardinality(Lost(u)')
    <3>1. /\ Cardinality(Awaited(u)) \in Nat /\ Cardinality(Lost(u)) \in Nat
          /\ count[u] \in Nat /\ count'[u] = count[u] /\ state' = state
      BY <1>2, AwaitedFinite
    <3>2. /\ count[u] >= Cardinality(Awaited(u)) + Cardinality(Lost(u))
          /\ state \in {"READY", "STARTED"} =>
                count[u] = Cardinality(Awaited(u)) + Cardinality(Lost(u))
      BY DEF BooksInv, CountsKept
    <3>3. /\ Cardinality(Awaited(u)') <= Cardinality(Awaited(u))
          /\ Cardinality(Awaited(u)') \in Nat
          /\ state' \in {"READY", "STARTED"} =>
                Cardinality(Awaited(u)') = Cardinality(Awaited(u))
          /\ Cardinality(Lost(u)') = Cardinality(Lost(u))
      BY <2>1
    <3> HIDE DEF Awaited, Lost
    <3> QED BY <3>1, <3>2, <3>3
  <2> HIDE DEF Unheard, Awaited, Lost
  <2> QED BY <1>3, <1>6, <2>2 DEF CountsKept
<1> QED BY <1>15, <1>7, <1>8, <1>9, <1>10, <1>12, <1>13, <1>14 DEF BooksInv

------------------------------------------------------------------------------
(* A call looks at the state, *)
LEMMA EnterBooks ==
    ASSUME BooksInv, Enter
    PROVE  BooksInv'
<1> USE DEF Enter, graphVars, taskVars, history, built
<1>1. fate' \in Fates
  BY DEF BooksInv, TypeOK
<1>2. Positions'
  BY DEF BooksInv, Positions
<1>3. Editing'
  <2>1. editor'.call \in Tried => {editor'.task, editor'.prereq} \ {None} \subseteq Vertices
    BY DEF Edit, Tried, BooksInv, TypeOK
  <2> QED BY <2>1 DEF Editing, Vertices
<1> QED BY <1>1, <1>2, <1>3, CallInv

(* and finds what it was given, for nobody else takes it away. *)
LEMMA EditFreedBooks ==
    ASSUME BooksInv
    PROVE  ~EditFreed
BY DEF EditFreed, BooksInv, Editing, Tried

(* A step of somebody else. *)
LEMMA BooksStutter ==
    ASSUME BooksInv, UNCHANGED vars
    PROVE  BooksInv'
<1> USE DEF vars
<1>0. Editing'
  BY DEF BooksInv, Editing, Vertices
<1>1. Positions'
  BY PositionsKept DEF BooksInv
<1>2. fate' \in Fates
  BY DEF BooksInv, TypeOK
<1> QED BY <1>0, <1>1, <1>2, CallInv DEF graphVars, history, built

(* ytaskdepman_create establishes the invariant of the books, *)
LEMMA BooksInit == Init => BooksInv
<1> SUFFICES ASSUME Init PROVE BooksInv
  OBVIOUS
<1> USE DEF Init
<1>1. Vertices = {} /\ Len(order) = 0 /\ Len(mail) = 0
  BY DEF Vertices, ToSet
<1>2. TypeOK
  <2>1. order \in Seq(Tasks) /\ mail \in Seq([type : {"end", "slot", "destroy"}, task : Tasks])
    OBVIOUS
  <2> QED BY <2>1 DEF TypeOK, Fates
<1>3. Positions
  BY DEF Positions, Rest, Idle, Holds
<1>10. Editing
  BY DEF Editing, NoEdit, Edit, Tried
<1>4. Numbered
  BY <1>1, TaskDepManAssumption DEF Numbered
<1>5. BeforeStart /\ AfterEnd
  BY <1>1 DEF BeforeStart, AfterEnd
<1>6. \A type, t : ~Mailed(type, t)
  BY <1>1 DEF Mailed
<1>7. TaskPlaces
  BY <1>6 DEF TaskPlaces, Active
<1>8. EndsOnce
  BY <1>1, <1>6 DEF EndsOnce, Rest, Holds
<1>9. CountsKept
  <2>1. Unheard = {}
    BY <1>1 DEF Unheard
  <2> HIDE DEF Unheard
  <2> QED BY <1>1, <2>1, FS_EmptySet DEF CountsKept
<1> QED BY <1>2, <1>3, <1>4, <1>5, <1>7, <1>8, <1>9, <1>10 DEF BooksInv

(* ... every step keeps it, *)
LEMMA BooksNext == BooksInv /\ [Next]_vars /\ ~overtaken' => BooksInv'
<1> SUFFICES ASSUME BooksInv, [Next]_vars, ~overtaken' PROVE BooksInv'
  OBVIOUS
<1>1. ASSUME NEW t \in Tasks, TaskStep(t)
      PROVE  BooksInv'
  BY <1>1, DispatchBooks, TaskEndsBooks, TaskTerminatesBooks DEF TaskStep
<1>2. CASE Enter \/ EditorStep
  BY <1>2, EnterBooks, AddTaskBooks, RemoveTaskBooks, AddDependencyBooks,
     RemoveDependencyBooks, EditFreedBooks DEF EditorStep
<1>3. CASE Start \/ StarterStep
  BY <1>3, StartBooks, StartSetBooks, StartNextBooks, StartVisitBooks DEF StarterStep
<1>4. CASE Cancel \/ CancelTasks \/ Destroy
  BY <1>4, CancelBooks, CancelTasksBooks, DestroyBooks DEF Cancel
<1>5. CASE HandlerStep
  BY <1>5, FinishedLast, FinishedOther, ReleaseBooks, RetireHandledBooks, DestroyHandledBooks,
     FreeSlotBooks, BalanceAgainBooks DEF HandlerStep
<1>6. CASE UNCHANGED vars
  BY <1>6, BooksStutter
<1> QED BY <1>1, <1>2, <1>3, <1>4, <1>5, <1>6 DEF Next

(* ... and contains what is checked. *)
LEMMA BooksFromInv == BooksInv /\ FateExplained => Books
<1> SUFFICES ASSUME BooksInv, FateExplained PROVE Books
  OBVIOUS
<1>1. CountsExact
  BY DEF BooksInv, CountsKept, CountsExact, Awaited, Lost
<1>2. EndFindsVertex
  <2> SUFFICES ASSUME NEW t \in Tasks, Mailed("end", t)
               PROVE  /\ t \in Vertices
                      /\ state \in {"STARTED", "CANCELLING"}
                      /\ ~Mailed("destroy", t)
    BY DEF EndFindsVertex
  <2>1. t \in Vertices /\ ~Mailed("destroy", t)
    BY DEF BooksInv, EndsOnce
  <2>2. state # "READY"
    BY DEF BooksInv, BeforeStart, Mailed
  <2> QED BY <2>1, <2>2 DEF BooksInv, TypeOK, AfterEnd
<1> QED BY <1>1, <1>2 DEF BooksInv, Books

------------------------------------------------------------------------------
(* What ytaskdepman_verify finds out about the graph. *)
LEMMA BehindIsLeast ==
    ASSUME NEW v \in Vertices
    PROVE  /\ Behind(v) \subseteq Vertices
           /\ Prerequisites(v) \subseteq Behind(v)
           /\ \A w \in Behind(v) : Prerequisites(w) \subseteq Behind(v)
           /\ \A S \in SUBSET Vertices :
                 /\ Prerequisites(v) \subseteq S
                 /\ \A w \in S : Prerequisites(w) \subseteq S
                 => Behind(v) \subseteq S
BY DEF Behind, Prerequisites

(* What is behind a task that is behind v is behind v. *)
LEMMA BehindBehind ==
    ASSUME NEW v \in Vertices, NEW w \in Behind(v)
    PROVE  Behind(w) \subseteq Behind(v)
<1>1. w \in Vertices /\ Behind(v) \in SUBSET Vertices
  BY BehindIsLeast
<1>2. Prerequisites(w) \subseteq Behind(v) /\ \A u \in Behind(v) : Prerequisites(u) \subseteq Behind(v)
  BY BehindIsLeast
<1> QED BY <1>1, <1>2, BehindIsLeast

(* A set of numbers has a least one. *)
LEMMA LeastNumber ==
    ASSUME NEW T \in SUBSET Nat, T # {}
    PROVE  \E x \in T : \A y \in T : ~(y < x)
<1> DEFINE R == OpToRel(<, Nat)
<1>1. IsWellFoundedOn(R, Nat)
  BY NatLessThanWellFounded
<1>2. \A x, y \in Nat : <<y, x>> \in R <=> y < x
  BY DEF OpToRel
<1> HIDE DEF R
<1>3. PICK x \in T : \A y \in T : ~(<<y, x>> \in R)
  BY <1>1, WFMin
<1> QED BY <1>2, <1>3

(* If no vertex is behind itself, every set of vertices has one that waits *)
(* for none of them: the one with the fewest behind it.                    *)
LEMMA NoCycle ==
    ASSUME IsFiniteSet(Vertices),
           \A v \in Vertices : v \notin Behind(v),
           NEW S \in SUBSET Vertices, S # {}
    PROVE  \E t \in S : Prerequisites(t) \intersect S = {}
<1> DEFINE Size(t) == Cardinality(Behind(t))
           T == {Size(t) : t \in S}
<1>1. ASSUME NEW t \in Vertices PROVE IsFiniteSet(Behind(t)) /\ Size(t) \in Nat
  BY BehindIsLeast, FS_Subset, FS_CardinalityType
<1>2. T \in SUBSET Nat /\ T # {}
  BY <1>1
<1>3. PICK x \in T : \A y \in T : ~(y < x)
  BY <1>2, LeastNumber
<1>4. PICK t \in S : Size(t) = x
  BY <1>3
<1>5. ASSUME NEW u \in Prerequisites(t) \intersect S PROVE FALSE
  <2>1. u \in Behind(t) /\ Behind(u) \subseteq Behind(t) /\ u \notin Behind(u)
    BY BehindIsLeast, BehindBehind
  <2>2. Behind(u) \subseteq Behind(t) \ {u}
    BY <2>1
  <2>3. IsFiniteSet(Behind(t) \ {u}) /\ Cardinality(Behind(t) \ {u}) = Size(t) - 1
    BY <1>1, <2>1, FS_RemoveElement
  <2>4. Size(u) <= Cardinality(Behind(t) \ {u})
    BY <2>2, <2>3, FS_Subset
  <2>5. Size(u) \in T /\ Size(u) \in Nat /\ Size(t) \in Nat
    BY <1>1
  <2> HIDE DEF Size, T
  <2>6. Size(u) < Size(t)
    BY <2>3, <2>4, <2>5
  <2> QED BY <1>3, <1>4, <2>5, <2>6
<1> QED BY <1>5

(* A graph that ytaskdepman_verify accepts has no cycle and one last task. *)
LEMMA VerdictOK ==
    ASSUME IsFiniteSet(Vertices), edges \subseteq Vertices \X Vertices,
           Verdict = "OK", plan.node = Vertices, plan.edge = edges
    PROVE  WF!Acyclic(plan) /\ \E last \in plan.node : Leaves(plan) = {last}
<1> DEFINE roots == {v \in Vertices : Targets(v) = {}}
           root == CHOOSE v \in roots : TRUE
<1>1. /\ roots # {} /\ ~(Cardinality(roots) > 1)
      /\ \A v \in Behind(root) : v \notin Behind(v)
      /\ Behind(root) \union {root} = Vertices
  <2>1. Vertices # {}
    BY DEF Verdict
  <2>2. roots # {}
    BY <2>1 DEF Verdict
  <2>3. ~(Cardinality(roots) > 1)
    BY <2>1, <2>2 DEF Verdict
  <2>4. ~(\E v \in Behind(root) : v \in Behind(v))
    BY <2>1, <2>2, <2>3 DEF Verdict
  <2>5. Behind(root) \union {root} = Vertices
    BY <2>1, <2>2, <2>3, <2>4 DEF Verdict
  <2> QED BY <2>2, <2>3, <2>4, <2>5
<1>2. root \in Vertices /\ Targets(root) = {}
  <2>1. root \in roots
    BY <1>1
  <2> QED BY <2>1
<1> HIDE DEF root
<1>3. root \notin Behind(root)
  <2> DEFINE S == Vertices \ {root}
  <2>1. \A w \in Vertices : Prerequisites(w) \subseteq S
    BY <1>2 DEF Prerequisites, Targets
  <2>2. S \in SUBSET Vertices
    OBVIOUS
  <2> HIDE DEF S
  <2>3. Behind(root) \subseteq S
    BY <1>2, <2>1, <2>2, BehindIsLeast
  <2> QED BY <2>3 DEF S
<1>4. \A v \in Vertices : v \notin Behind(v)
  BY <1>1, <1>3
<1>5. WF!Acyclic(plan)
  <2> SUFFICES ASSUME NEW S \in SUBSET Vertices, S # {}
               PROVE  \E t \in S : WF!Predecessors(plan, t) \intersect S = {}
    BY DEF WF!Acyclic
  <2>1. \A t \in S : WF!Predecessors(plan, t) = Prerequisites(t)
    BY DEF WF!Predecessors, Prerequisites
  <2> QED BY <1>4, <2>1, NoCycle
<1>6. Leaves(plan) = roots
  BY DEF Leaves, Successors, Targets
<1>7. \E last \in Vertices : roots = {last}
  <2>1. IsFiniteSet(roots) /\ roots \subseteq Vertices
    BY FS_Subset
  <2> HIDE DEF roots
  <2>2. Cardinality(roots) \in Nat /\ Cardinality(roots) # 0
    BY <1>1, <2>1, FS_CardinalityType, FS_EmptySet
  <2>3. Cardinality(roots) = 1
    BY <1>1, <2>2
  <2>4. PICK last : roots = {last}
    BY <2>1, <2>3, FS_Singleton
  <2> QED BY <2>1, <2>4
<1> QED BY <1>5, <1>6, <1>7

------------------------------------------------------------------------------
(* TaskDepMan implements Workflow, step by step. *)
Same == UNCHANGED <<state, plan, Released, Over>>

(* A step that releases and ends nothing is a stutter of Workflow. *)
LEMMA SameIsStutter == Same => UNCHANGED WF!wfVars
BY DEF Same, WF!wfVars, Released

(* Such a step keeps what the plan says of the tasks, *)
LEMMA PlanSame ==
    ASSUME PlanKept, Same, Vertices' = Vertices, edges' = edges
    PROVE  PlanKept'
BY DEF PlanKept, Same, Released

(* and what was verified. *)
LEMMA VerifiedSame ==
    ASSUME Verified, plan' = plan, state' = state \/ state' # "READY",
           starter' = starter \/ starter'.at # "set"
    PROVE  Verified'
<1> SUFFICES ASSUME starter'.at = "set", state' = "READY"
             PROVE  WF!Acyclic(plan') /\ \E last \in plan'.node : Leaves(plan') = {last}
  BY DEF Verified
<1> QED BY DEF Verified

(* The steps that Workflow does not see: no task is released or ends, and  *)
(* the state of the manager is left alone.                                 *)
LEMMA HiddenSteps ==
    ASSUME BooksInv, PlanKept, Verified,
           \/ StartNext \/ CancelTasks \/ Destroy \/ UNCHANGED vars
           \/ \E t \in Tasks : Dispatch(t) \/ TaskTerminates(t)
           \/ DestroyHandled \/ FreeSlot \/ BalanceAgain
           \/ Finished /\ ~LastTask
    PROVE  Same /\ PlanKept' /\ Verified'
<1> USE DEF graphVars, taskVars, threadVars, history, built
<1>1. ASSUME UNCHANGED <<state, plan, order, edges>>, Released' = Released, Over' = Over,
             starter' = starter \/ starter'.at # "set"
      PROVE  Same /\ PlanKept' /\ Verified'
  <2>1. Same /\ Vertices' = Vertices
    BY <1>1 DEF Same, Vertices
  <2> QED BY <1>1, <2>1, PlanSame, VerifiedSame
<1>2. CASE Destroy \/ BalanceAgain \/ UNCHANGED vars
  BY <1>1, <1>2 DEF Destroy, BalanceAgain, vars, Released, Over
<1>3. CASE StartNext
  <2>1. starter'.at # "set"
    BY <1>3 DEF StartNext, Idle
  <2> QED BY <1>1, <1>3, <2>1 DEF StartNext, Released, Over
<1>4. CASE CancelTasks
  <2>1. Over' = Over
    <3>1. \A t \in Tasks : tstate'[t] \in {"OVER", "TERMINATED"}
                           <=> tstate[t] \in {"OVER", "TERMINATED"}
      BY <1>4 DEF CancelTasks
    <3> QED BY <3>1 DEF Over
  <2> QED BY <1>1, <1>4, <2>1 DEF CancelTasks, Released
<1>5. ASSUME NEW t \in Tasks, Dispatch(t) PROVE Same /\ PlanKept' /\ Verified'
  <2>1. Over' = Over
    <3>1. \A u \in Tasks : tstate'[u] \in {"OVER", "TERMINATED"}
                           <=> tstate[u] \in {"OVER", "TERMINATED"}
      BY <1>5 DEF Dispatch, BooksInv, TypeOK
    <3> QED BY <3>1 DEF Over
  <2>2. Released' = Released
    BY <1>5, <2>1 DEF Dispatch, Released
  <2> QED BY <1>1, <1>5, <2>1, <2>2 DEF Dispatch
<1>6. ASSUME NEW t \in Tasks, TaskTerminates(t) PROVE Same /\ PlanKept' /\ Verified'
  <2>1. Over' = Over
    <3>1. \A u \in Tasks : tstate'[u] \in {"OVER", "TERMINATED"}
                           <=> tstate[u] \in {"OVER", "TERMINATED"}
      BY <1>6 DEF TaskTerminates, BooksInv, TypeOK
    <3> QED BY <3>1 DEF Over
  <2> QED BY <1>1, <1>6, <2>1 DEF TaskTerminates, Released
<1>7. CASE DestroyHandled
  BY <1>1, <1>7 DEF DestroyHandled, Released, Over
<1>8. CASE FreeSlot
  <2> DEFINE t == Head(mail).task
  <2>1. t \in Tasks /\ tstate[t] \in Ended
    BY <1>8, Received, MailOK DEF FreeSlot
  <2>2. t \in Over /\ running' = running \ {t} /\ tstate' = tstate /\ waiting' = waiting
    BY <1>8, <2>1 DEF FreeSlot, Over, Ended
  <2> HIDE DEF t
  <2>3. Released' = Released /\ Over' = Over
    BY <2>2 DEF Released, Over
  <2> QED BY <1>1, <1>8, <2>3 DEF FreeSlot
<1>9. CASE Finished /\ ~LastTask
  BY <1>1, <1>9 DEF Finished, Released, Over
<1> QED BY <1>2, <1>3, <1>4, <1>5, <1>6, <1>7, <1>8, <1>9

(* ytaskdepman_start before the state changes. *)
LEMMA StartPlan ==
    ASSUME BooksInv, PlanKept, Verified, Start
    PROVE  Same /\ PlanKept' /\ Verified'
<1> USE DEF Start, graphVars, taskVars, history, built
<1>1. Same /\ Vertices' = Vertices /\ edges' = edges
  BY DEF Same, Released, Over, Vertices
<1>2. PlanKept'
  BY <1>1, PlanSame
<1>3. Verified'
  <2>1. CASE Verdict = "OK"
    <3>1. IsFiniteSet(Vertices) /\ edges \subseteq Vertices \X Vertices
      BY VerticesAre, TasksFinite DEF BooksInv, TypeOK
    <3>2. plan.node = Vertices /\ plan.edge = edges
      BY DEF PlanKept
    <3>3. WF!Acyclic(plan) /\ \E last \in plan.node : Leaves(plan) = {last}
      BY <2>1, <3>1, <3>2, VerdictOK
    <3> QED BY <3>3 DEF Verified
  <2>2. CASE Verdict # "OK"
    <3>1. starter' = starter /\ plan' = plan /\ state' = state
      BY <2>2
    <3> QED BY <3>1, VerifiedSame
  <2> QED BY <2>1, <2>2
<1> QED BY <1>1, <1>2, <1>3

(* The change of the state is the beginning of the workflow, *)
LEMMA StartSetPlan ==
    ASSUME BooksInv, PlanKept, Verified, StartSet
    PROVE  (Same \/ WF!Begin) /\ PlanKept' /\ Verified'
<1> USE DEF StartSet, graphVars, taskVars, history, built
<1>1. plan' = plan /\ Released' = Released /\ Over' = Over /\ Vertices' = Vertices /\ edges' = edges
  BY DEF Released, Over, Vertices
<1>2. starter'.at # "set" /\ (state' = state \/ state' # "READY")
  BY DEF Idle
<1>3. Verified'
  BY <1>1, <1>2, VerifiedSame
<1>4. CASE state # "READY"
  <2>1. Same
    BY <1>1, <1>4 DEF Same
  <2> QED BY <1>1, <1>3, <2>1, PlanSame
<1>5. CASE state = "READY"
  <2>1. /\ WF!Acyclic(plan) /\ state' = "STARTED"
        /\ \E last \in plan.node : Leaves(plan) = {last}
    BY <1>5 DEF Verified
  <2>2. Leaves(plan) = WF!Leaves(plan)
    BY DEF Leaves, WF!Leaves, Successors, WF!Successors
  <2>3. WF!Begin
    BY <1>1, <1>5, <2>1, <2>2 DEF WF!Begin, Released
  <2>4. plan.node # {}
    BY <2>1
  <2>5. PlanKept'
    BY <1>1, <1>5, <2>1, <2>4 DEF PlanKept, Released
  <2> QED BY <1>3, <2>3, <2>5
<1> QED BY <1>4, <1>5

(* Giving tasks to the task manager. *)
LEMMA InjectPlan ==
    ASSUME BooksInv, PlanKept, Verified, NEW S \in SUBSET Vertices,
           (\E why \in Fates : Inject(S, why)) \/ waiting' = waiting, state # "READY",
           \A t \in S : Prerequisites(t) \subseteq Over,
           UNCHANGED <<state, plan, order, edges, running, tstate>>,
           starter' = starter \/ starter'.at # "set"
    PROVE  (Same \/ WF!Release) /\ PlanKept' /\ Verified'
<1>1. /\ Over' = Over /\ plan' = plan /\ Vertices' = Vertices /\ state' = state
      /\ waiting' = waiting \/ waiting' = waiting \union S
  BY DEF Over, Vertices, Inject
<1>2. Verified'
  BY <1>1, VerifiedSame
<1>3. CASE waiting' = waiting
  <2>1. Same
    BY <1>1, <1>3 DEF Same, Released
  <2> QED BY <1>1, <1>2, <2>1, PlanSame
<1>4. CASE waiting' # waiting
  <2>1. waiting' = waiting \union S /\ Vertices # {}
    BY <1>1, <1>4
  <2>2. state \in {"STARTED", "CANCELLING"}
    BY <2>1 DEF BooksInv, TypeOK, AfterEnd
  <2>3. Released' = Released \union S /\ Released' \subseteq plan.node
    BY <1>1, <2>1 DEF Released, PlanKept
  <2>4. \A t \in S : WF!Predecessors(plan, t) \subseteq Over
    <3> SUFFICES ASSUME NEW t \in S, NEW u \in plan.node, <<u, t>> \in plan.edge
                 PROVE  u \in Over
      BY DEF WF!Predecessors
    <3>1. <<u, t>> \in edges \/ u \in Over
      BY DEF PlanKept
    <3>2. <<u, t>> \in edges => u \in Prerequisites(t)
      BY DEF Prerequisites, BooksInv, TypeOK
    <3> QED BY <3>1, <3>2
  <2>5. WF!Release
    BY <1>1, <2>2, <2>3, <2>4 DEF WF!Release, Released
  <2>6. PlanKept'
    BY <1>1, <2>3 DEF PlanKept, Released
  <2> QED BY <1>2, <2>5, <2>6
<1> QED BY <1>3, <1>4

(* an injection at the start a release, *)
LEMMA StartVisitPlan ==
    ASSUME BooksInv, PlanKept, Verified, StartVisit
    PROVE  (Same \/ WF!Release) /\ PlanKept' /\ Verified'
<1> USE DEF StartVisit, graphVars, history, built
<1>1. state # "READY" /\ starter'.at # "set"
  BY DEF BooksInv, Positions
<1>2. UNCHANGED <<state, plan, order, edges, running, tstate>>
  OBVIOUS
<1>3. CASE Freed(starter.cur)
  <2>1. waiting' = waiting /\ {} \in SUBSET Vertices
    BY <1>3
  <2> QED BY <1>1, <1>2, <2>1, InjectPlan
<1>4. CASE ~Freed(starter.cur)
  <2>1. starter.cur \in Vertices
    BY <1>4 DEF Freed, BooksInv, Positions
  <2>2. PICK S \in SUBSET Vertices :
            (\E why \in Fates : Inject(S, why)) /\ \A t \in S : Prerequisites(t) = {}
    BY <1>4, <2>1 DEF Fates
  <2> QED BY <1>1, <1>2, <2>2, InjectPlan
<1> QED BY <1>3, <1>4

(* The Handler releases a task when the count says that its prerequisites  *)
(* have ended, and then they have: the count is never too small.           *)
LEMMA ReleasePlan ==
    ASSUME BooksInv, BooksInv', PlanKept, Verified, Release
    PROVE  (Same \/ WF!Release) /\ PlanKept' /\ Verified'
<1> USE DEF Release, graphVars, history, built
<1> DEFINE r == hand.task
           S == {t \in Targets(r) : AllEnded(count'[t])}
<1>1. r \in Over /\ state # "READY" /\ r \in Tasks /\ hand.at = "release"
  BY DEF BooksInv, EndsOnce, BeforeStart, Rest, Holds, Over, Ended, Positions
<1>2. UNCHANGED <<state, plan, order, edges, running, tstate>> /\ starter' = starter
  OBVIOUS
<1>3. S \in SUBSET Vertices /\ \E why \in Fates : Inject(S, why)
  BY DEF Targets, Fates
<1>4. ASSUME NEW t \in S PROVE Prerequisites(t) \subseteq Over
  <2>1. t \in Vertices' /\ t \in Vertices /\ count'[t] = 0
    BY <1>2, <1>3 DEF AllEnded, Vertices
  <2>2. /\ IsFiniteSet(Awaited(t)') /\ Cardinality(Awaited(t)') \in Nat
        /\ Cardinality(Lost(t)') \in Nat
    <3>1. IsFiniteSet(Awaited(t)) /\ Awaited(t)' \subseteq Awaited(t)
      BY <1>1, <2>1, AwaitedFinite DEF Awaited, Prerequisites, Vertices
    <3>2. Lost(t)' = Lost(t) /\ Cardinality(Lost(t)) \in Nat
      BY <2>1, AwaitedFinite DEF Lost
    <3> QED BY <3>1, <3>2, FS_Subset, FS_CardinalityType
  <2>3. count'[t] >= Cardinality(Awaited(t)') + Cardinality(Lost(t)')
    BY <2>1 DEF BooksInv, CountsKept
  <2>4. Cardinality(Awaited(t)') = 0
    <3> HIDE DEF Awaited, Lost, Release
    <3> QED BY <2>1, <2>2, <2>3
  <2>5. Awaited(t)' = {}
    BY <2>2, <2>4, FS_EmptySet
  <2>6. \A u \in Prerequisites(t) : u = r
    BY <1>2, <2>5 DEF Awaited, Prerequisites, Vertices
  <2> QED BY <1>1, <2>6
<1> HIDE DEF S, r
<1> QED BY <1>1, <1>2, <1>3, <1>4, InjectPlan

(* A look at the state changes nothing, *)
LEMMA EnterPlan ==
    ASSUME BooksInv, PlanKept, Verified, Enter
    PROVE  Same /\ PlanKept' /\ Verified'
<1> USE DEF Enter, graphVars, taskVars, history, built
<1>1. Same /\ Vertices' = Vertices /\ edges' = edges
  BY DEF Same, Released, Over, Vertices
<1>2. starter' = starter
  OBVIOUS
<1> QED BY <1>1, <1>2, PlanSame, VerifiedSame DEF Same

(* Building the graph edits the plan. *)
LEMMA EditPlan ==
    ASSUME BooksInv, BooksInv', PlanKept, Verified, Building, Built,
           plan' = [node |-> Vertices', edge |-> edges']
    PROVE  WF!Edit /\ PlanKept' /\ Verified'
<1> USE DEF Building, Built, taskVars, threadVars
<1>1. /\ state = "READY" /\ state' = "READY" /\ Released = {} /\ Over = {}
      /\ Released' = Released /\ Over' = Over
      /\ waiting' = {} /\ running' = {}
  BY DEF BooksInv, BeforeStart, Released, Over
<1>2. /\ plan'.node = Vertices' /\ plan'.edge = edges'
      /\ Vertices' \subseteq Tasks /\ edges' \subseteq Vertices' \X Vertices'
  <2>1. Vertices' \subseteq Tasks
    BY DEF BooksInv, TypeOK, Vertices, ToSet
  <2> QED BY <2>1 DEF BooksInv, TypeOK
<1>3. WF!IsDirectedGraph(plan')
  BY <1>2 DEF WF!IsDirectedGraph
<1>4. WF!Edit
  BY <1>1, <1>2, <1>3 DEF WF!Edit, Released
<1>5. PlanKept'
  BY <1>1, <1>2 DEF PlanKept
<1>6. Verified'
  BY DEF Verified, Idle
<1> QED BY <1>4, <1>5, <1>6

(* a call before the start an edit, *)
LEMMA BuildPlan ==
    ASSUME BooksInv, BooksInv', PlanKept, Verified,
           NEW p \in Tasks, NEW t \in Tasks,
           AddTask(t) \/ RemoveTask(t) \/ AddDependency(p, t) \/ RemoveDependency(p, t)
    PROVE  WF!Edit /\ PlanKept' /\ Verified'
<1>1. Building /\ Built
  <2>1. Call /\ editor # NoEdit /\ Built
    BY DEF AddTask, RemoveTask, AddDependency, RemoveDependency, Inside, Edit, NoEdit
  <2> QED BY <2>1, EditorBuilds
<1>2. plan.node = Vertices /\ plan.edge = edges /\ plan = [node |-> plan.node, edge |-> plan.edge]
  BY <1>1 DEF Building, PlanKept
<1>3. CASE AddTask(t)
  <2>1. Vertices' = Vertices \union {t} /\ edges' = edges
    <3>1. t \notin Vertices
      BY <1>1, <1>3, Built0 DEF AddTask, BooksInv, Numbered
    <3> QED BY <1>1, <1>3, <3>1, Built0, ListAppend DEF AddTask, Vertices
  <2>2. plan' = [node |-> Vertices', edge |-> edges']
    BY <1>2, <1>3, <2>1 DEF AddTask
  <2> QED BY <1>1, <2>2, EditPlan
<1>4. CASE RemoveTask(t)
  <2>1. Vertices' = Vertices \ {t}
    BY <1>1, <1>4, Built0, ListRemove DEF RemoveTask, Vertices
  <2>2. plan' = [node |-> Vertices', edge |-> edges']
    BY <1>2, <1>4, <2>1 DEF RemoveTask
  <2> QED BY <1>1, <2>2, EditPlan
<1>5. CASE AddDependency(p, t)
  <2>1. Vertices' = Vertices
    BY <1>5 DEF AddDependency, Vertices
  <2>2. plan' = [node |-> Vertices', edge |-> edges']
    BY <1>2, <1>5, <2>1 DEF AddDependency
  <2> QED BY <1>1, <2>2, EditPlan
<1>6. CASE RemoveDependency(p, t)
  <2>1. Vertices' = Vertices
    BY <1>6 DEF RemoveDependency, Vertices
  <2>2. plan' = [node |-> Vertices', edge |-> edges']
    BY <1>2, <1>6, <2>1 DEF RemoveDependency
  <2> QED BY <1>1, <2>2, EditPlan
<1> QED BY <1>3, <1>4, <1>5, <1>6

(* a cancel a cancel, *)
LEMMA CancelPlan ==
    ASSUME BooksInv, PlanKept, Verified, Cancel
    PROVE  WF!Cancel /\ PlanKept' /\ Verified'
<1> USE DEF Cancel, graphVars, taskVars, history, built
<1>1. plan' = plan /\ Released' = Released /\ Over' = Over /\ Vertices' = Vertices /\ edges' = edges
  BY DEF Released, Over, Vertices
<1>2. state' = IF plan.node = {} THEN "CANCELLED" ELSE "CANCELLING"
  <2>1. CASE state = "READY"
    <3>1. hand.at \notin Holds
      BY <2>1 DEF BooksInv, BeforeStart, Rest, Holds
    <3>2. unhandled = Cardinality(Vertices) /\ IsFiniteSet(Vertices)
      BY <3>1, UnheardAll, VerticesAre, TasksFinite DEF BooksInv, CountsKept, TypeOK
    <3>3. plan.node = {} <=> unhandled = 0
      BY <2>1, <3>2, FS_EmptySet DEF PlanKept
    <3> QED BY <2>1, <3>3
  <2>2. CASE state = "STARTED"
    BY <2>2 DEF PlanKept
  <2> QED BY <2>1, <2>2
<1>3. WF!Cancel
  BY <1>1, <1>2 DEF WF!Cancel, Released
<1>4. PlanKept'
  BY <1>1, <1>2 DEF PlanKept, Released
<1>5. Verified'
  BY <1>1, <1>2, VerifiedSame
<1> QED BY <1>3, <1>4, <1>5

(* the end of a task an end, *)
LEMMA TaskEndsPlan ==
    ASSUME BooksInv, PlanKept, Verified, NEW t \in Tasks, TaskEnds(t)
    PROVE  WF!End /\ PlanKept' /\ Verified'
<1> USE DEF TaskEnds, graphVars, threadVars, history, built
<1>1. plan' = plan /\ state' = state /\ Vertices' = Vertices /\ edges' = edges
  BY DEF Vertices
<1>2. t \in Vertices /\ t \in plan.node /\ t \notin Over /\ (t \in running \/ state = "CANCELLING")
  BY DEF BooksInv, TaskPlaces, PlanKept, Over, Active
<1>3. Over' = Over \union {t}
  BY DEF Over, BooksInv, TypeOK
<1>4. Released' = Released \union {t}
  BY <1>3 DEF Released
<1>5. WF!End
  BY <1>1, <1>2, <1>3, <1>4 DEF WF!End, Released
<1>6. PlanKept'
  BY <1>1, <1>2, <1>3, <1>4 DEF PlanKept, Released
<1>7. Verified'
  BY <1>1, VerifiedSame
<1> QED BY <1>5, <1>6, <1>7

(* the removal of a vertex nothing, *)
LEMMA RetireHandledPlan ==
    ASSUME BooksInv, PlanKept, Verified, RetireHandled
    PROVE  Same /\ PlanKept' /\ Verified'
<1> USE DEF RetireHandled, history, built
<1> DEFINE r == hand.task
<1>1. r \in Vertices /\ r \in Over
  BY DEF BooksInv, EndsOnce, Holds, Over, Ended, Positions
<1>2. Vertices' = Vertices \ {r} /\ edges' = {e \in edges : r \notin {e[1], e[2]}}
  BY <1>1, MailOK, RetireEffect DEF Without
<1>3. Same
  BY DEF Same, Released, Over
<1> HIDE DEF r
<1>4. PlanKept'
  <2>1. /\ plan' = plan /\ Over' = Over /\ state' = state
        /\ waiting' \union running' \union Over' = waiting \union running \union Over
    BY <1>3 DEF Same, Released
  <2>2. state # "READY"
    BY DEF BooksInv, BeforeStart, Rest
  <2>3. \A e \in plan.edge : e[2] \in Vertices' => e \in edges' \/ e[1] \in Over
    BY <1>1, <1>2 DEF PlanKept
  <2> QED BY <1>1, <1>2, <2>1, <2>2, <2>3 DEF PlanKept
<1>5. Verified'
  BY <1>3, VerifiedSame DEF Same
<1> QED BY <1>3, <1>4, <1>5

(* and the last end the end of the workflow. *)
LEMMA FinishedLastPlan ==
    ASSUME BooksInv, PlanKept, Verified, Finished, LastTask
    PROVE  WF!Finish /\ PlanKept' /\ Verified'
<1> DEFINE t == Head(mail).task
<1>1. /\ t \in Over /\ state \in {"STARTED", "CANCELLING"}
      /\ Vertices = {t} /\ Vertices' = {} /\ fate' = "alive"
  <2>1. t \in Tasks /\ t \in Vertices /\ tstate[t] \in Ended /\ state \in {"STARTED", "CANCELLING"}
    BY EndReceived DEF Finished
  <2>2. fate' = "alive"
    BY <2>1 DEF Finished, Receives
  <2> QED BY <2>1, <2>2, FinishedLast DEF Over, Ended
<1>2. /\ plan' = plan /\ Released' = Released /\ Over' = Over /\ starter' = starter
      /\ state' = IF state = "CANCELLING" THEN "CANCELLED" ELSE "DONE"
  BY <1>1 DEF Finished, history, built, Released, Over
<1> HIDE DEF t
<1>3. Over = plan.node
  BY <1>1 DEF PlanKept
<1>4. WF!Finish
  BY <1>1, <1>2, <1>3 DEF WF!Finish, Released
<1>5. PlanKept'
  <2>1. waiting' \union running' \union Over' = waiting \union running \union Over
    BY <1>2 DEF Released
  <2> QED BY <1>1, <1>2, <1>3, <2>1 DEF PlanKept
<1>6. Verified'
  BY <1>2, VerifiedSame
<1> QED BY <1>4, <1>5, <1>6

(* Every step of the manager is a step of Workflow or a stutter, *)
LEMMA PlanNext ==
    ASSUME BooksInv, PlanKept, Verified, [Next]_vars, ~overtaken'
    PROVE  [WF!Next]_(WF!wfVars) /\ PlanKept' /\ Verified'
<1>1. BooksInv'
  BY BooksNext
<1>2. Same => [WF!Next]_(WF!wfVars)
  BY SameIsStutter
<1>3. WF!Edit \/ WF!Begin \/ WF!Release \/ WF!Cancel \/ WF!End \/ WF!Finish
      => [WF!Next]_(WF!wfVars)
  BY DEF WF!Next
<1>4. ASSUME NEW t \in Tasks, TaskStep(t)
      PROVE  [WF!Next]_(WF!wfVars) /\ PlanKept' /\ Verified'
  BY <1>2, <1>3, <1>4, HiddenSteps, TaskEndsPlan DEF TaskStep
<1>5. CASE Enter
  BY <1>2, <1>5, EnterPlan
<1>10. CASE EditorStep
  <2>1. ASSUME NEW t \in Tasks, AddTask(t) \/ RemoveTask(t)
        PROVE  [WF!Next]_(WF!wfVars) /\ PlanKept' /\ Verified'
    BY <1>1, <1>3, <2>1, BuildPlan
  <2>2. ASSUME NEW p \in Tasks, NEW t \in Tasks, AddDependency(p, t) \/ RemoveDependency(p, t)
        PROVE  [WF!Next]_(WF!wfVars) /\ PlanKept' /\ Verified'
    BY <1>1, <1>3, <2>2, BuildPlan
  <2> QED BY <1>10, <2>1, <2>2, EditFreedBooks DEF EditorStep
<1>6. CASE Start \/ StarterStep
  BY <1>2, <1>3, <1>6, StartPlan, StartSetPlan, HiddenSteps, StartVisitPlan DEF StarterStep
<1>7. CASE Cancel \/ CancelTasks \/ Destroy
  BY <1>2, <1>3, <1>7, CancelPlan, HiddenSteps
<1>8. CASE HandlerStep
  <2>1. CASE Release
    BY <1>1, <1>2, <1>3, <2>1, ReleasePlan
  <2>2. CASE Finished
    BY <1>2, <1>3, <2>2, FinishedLastPlan, HiddenSteps
  <2> QED BY <1>2, <1>8, <2>1, <2>2, RetireHandledPlan, HiddenSteps DEF HandlerStep
<1>9. CASE UNCHANGED vars
  BY <1>2, <1>9, HiddenSteps
<1> QED BY <1>4, <1>5, <1>6, <1>7, <1>8, <1>9, <1>10 DEF Next

(* and it begins where Workflow begins. *)
LEMMA PlanInit == Init => WF!Init /\ PlanKept /\ Verified
<1> SUFFICES ASSUME Init PROVE WF!Init /\ PlanKept /\ Verified
  OBVIOUS
<1> USE DEF Init
<1>1. Over = {} /\ Vertices = {}
  BY DEF Over, Vertices, ToSet
<1>2. plan = [node |-> {}, edge |-> {}] /\ plan.node = {} /\ plan.edge = {}
  BY DEF EmptyGraph
<1>3. WF!Init
  BY <1>1, <1>2 DEF WF!Init, WF!EmptyGraph, Released
<1>4. PlanKept
  BY <1>1, <1>2 DEF PlanKept, Released
<1>5. Verified
  BY DEF Verified, Idle
<1> QED BY <1>3, <1>4, <1>5

------------------------------------------------------------------------------
(* What may end the process. *)
LEMMA StillAlive == fate' = "alive" => FateExplained'
BY DEF FateExplained

(* Released tasks stay free when no task comes to wait for more. *)
LEMMA FreeKept ==
    ASSUME ReleasedFree,
           state' = "STARTED" =>
              /\ state = "STARTED"
              /\ \A t \in Vertices' \intersect Released' :
                    t \in Vertices \intersect Released /\ Awaited(t)' \subseteq Awaited(t)
    PROVE  ReleasedFree'
<1> SUFFICES ASSUME state' = "STARTED", NEW t \in Vertices' \intersect Released'
             PROVE  Awaited(t)' = {}
  BY DEF ReleasedFree
<1>1. Awaited(t) = {} /\ Awaited(t)' \subseteq Awaited(t)
  BY DEF ReleasedFree
<1> HIDE DEF Awaited
<1> QED BY <1>1

(* Waiting tasks stay READY when no task that waits moves. *)
LEMMA WaitKept ==
    ASSUME WaitingReady,
           state' \in {"STARTED", "DONE"} =>
              /\ state \in {"STARTED", "DONE"}
              /\ \A t \in waiting' : t \in waiting /\ tstate'[t] = tstate[t]
    PROVE  WaitingReady'
BY DEF WaitingReady

(* Steps that release nothing and leave the graph and the Handler alone. *)
LEMMA UnrefusedStill ==
    ASSUME Unrefused, UNCHANGED <<state, order, edges, hand, waiting, tstate, running>>,
           FateExplained'
    PROVE  Unrefused'
<1>1. Vertices' = Vertices /\ Released' = Released
  BY DEF Vertices, Released, Over
<1>2. \A t \in Vertices : Awaited(t)' = Awaited(t)
  BY <1>1 DEF Awaited, Prerequisites
<1> HIDE DEF Awaited
<1>3. ReleasedFree'
  BY <1>1, <1>2, FreeKept DEF Unrefused
<1>4. WaitingReady'
  BY WaitKept DEF Unrefused
<1> QED BY <1>3, <1>4 DEF Unrefused

(* Steps before the start and after a cancel. *)
LEMMA UnrefusedElse ==
    ASSUME state' \notin {"STARTED", "DONE"}, FateExplained'
    PROVE  Unrefused'
BY DEF Unrefused, ReleasedFree, WaitingReady

(* The calls of the user: before the start nothing is released. *)
LEMMA CallsUnrefused ==
    ASSUME BooksInv, Unrefused, Enter \/ EditorStep \/ Start \/ Cancel \/ CancelTasks \/ Destroy
    PROVE  Unrefused'
<1>1. CASE Enter \/ EditorStep
  <2>1. state' = "READY" /\ fate' = "alive"
    <3>1. CASE Enter
      BY <3>1 DEF Enter, Call
    <3>2. ASSUME Call, editor # NoEdit, Built PROVE state' = "READY" /\ fate' = "alive"
      BY <3>2, EditorBuilds DEF Built, Building
    <3>3. CASE EditorStep
      <4>1. \A t \in Tasks : AddTask(t) => Call /\ editor # NoEdit /\ Built
        BY DEF AddTask, Inside, Edit, NoEdit
      <4>2. \A t \in Tasks : RemoveTask(t) => Call /\ editor # NoEdit /\ Built
        BY DEF RemoveTask, Inside, Edit, NoEdit
      <4>3. \A p, t \in Tasks : AddDependency(p, t) => Call /\ editor # NoEdit /\ Built
        BY DEF AddDependency, Inside, Edit, NoEdit
      <4>4. \A p, t \in Tasks : RemoveDependency(p, t) => Call /\ editor # NoEdit /\ Built
        BY DEF RemoveDependency, Inside, Edit, NoEdit
      <4> QED BY <3>2, <3>3, <4>1, <4>2, <4>3, <4>4, EditFreedBooks DEF EditorStep
    <3> QED BY <1>1, <3>1, <3>3
  <2> QED BY <2>1, StillAlive, UnrefusedElse
<1>2. CASE Start
  <2>1. state' = "READY" /\ FateExplained'
    BY <1>2 DEF Start, Call, FateExplained
  <2> QED BY <2>1, UnrefusedElse
<1>3. CASE Cancel
  <2>1. state' \in {"CANCELLING", "CANCELLED"} /\ fate' = "alive"
    BY <1>3 DEF Cancel, Call
  <2> QED BY <2>1, StillAlive, UnrefusedElse
<1>4. CASE CancelTasks
  <2>1. state' \in {"CANCELLING", "CANCELLED"} /\ FateExplained'
    BY <1>4 DEF CancelTasks, FateExplained, BooksInv, Positions
  <2> QED BY <2>1, UnrefusedElse
<1>5. CASE Destroy
  <2>1. fate' = "alive" /\ UNCHANGED <<state, order, edges, hand, waiting, tstate, running>>
    BY <1>5 DEF Destroy, Call, graphVars, taskVars, threadVars
  <2> QED BY <2>1, StillAlive, UnrefusedStill
<1> QED BY <1>1, <1>2, <1>3, <1>4, <1>5

(* The start: a task is injected when it waits for no other, *)
LEMMA StarterUnrefused ==
    ASSUME BooksInv, Unrefused, StarterStep
    PROVE  Unrefused'
<1>1. CASE StartSet
  <2>1. fate' = "alive"
    BY <1>1 DEF StartSet, Call
  <2>2. CASE state = "READY"
    <3>1. Released' = {} /\ waiting' = {}
      BY <1>1, <2>2 DEF StartSet, taskVars, BooksInv, BeforeStart, Released, Over
    <3> QED BY <2>1, <3>1, StillAlive DEF Unrefused, ReleasedFree, WaitingReady
  <2>3. CASE state # "READY"
    <3>1. UNCHANGED <<state, order, edges, hand, waiting, tstate, running>>
      BY <1>1, <2>3 DEF StartSet, graphVars, taskVars
    <3> QED BY <2>1, <3>1, StillAlive, UnrefusedStill
  <2> QED BY <2>2, <2>3
<1>2. CASE StartNext
  <2>1. fate' \in {"alive", "overrun"} /\ state # "READY"
    BY <1>2 DEF StartNext, Call, BooksInv, Positions
  <2>2. UNCHANGED <<state, order, edges, hand, waiting, tstate, running>>
    BY <1>2 DEF StartNext, graphVars, taskVars
  <2>3. FateExplained'
    BY <2>1, <2>2 DEF FateExplained
  <2> QED BY <2>2, <2>3, UnrefusedStill
<1>3. CASE StartVisit
  <2> DEFINE c == starter.cur
             ts == IF Prerequisites(c) = {} THEN {c} ELSE {}
             why == IF c \in Released THEN "overrun" ELSE "refused"
  <2>1. /\ fate = "alive" /\ state # "READY"
        /\ UNCHANGED <<state, order, edges, hand, tstate, running>>
        /\ c \in Tasks
    BY <1>3 DEF StartVisit, Call, graphVars, BooksInv, Positions
  <2>2. Vertices' = Vertices /\ \A t \in Vertices : Awaited(t)' = Awaited(t)
    BY <2>1 DEF Vertices, Awaited, Prerequisites
  <2>3. CASE Freed(c)
    <3>1. fate' = "overrun" /\ waiting' = waiting
      BY <1>3, <2>3 DEF StartVisit
    <3>2. FateExplained'
      BY <2>1, <3>1 DEF FateExplained
    <3> QED BY <2>1, <3>1, <3>2, UnrefusedStill
  <2>4. CASE ~Freed(c)
    <3>1. Inject(ts, why) /\ c \in Vertices
      BY <1>3, <2>1, <2>4, TaskDepManAssumption DEF StartVisit, Freed
    <3>2. CASE \A t \in ts : tstate[t] = "READY" /\ t \notin waiting \union running
      <4>1. fate' = "alive" /\ waiting' = waiting \union ts
        BY <2>1, <3>1, <3>2 DEF Inject
      <4>2. Released' = Released \union ts
        BY <2>1, <4>1 DEF Released, Over
      <4>3. \A t \in ts : Awaited(t) = {}
        BY DEF Awaited
      <4>4. ReleasedFree'
        BY <2>1, <2>2, <4>2, <4>3 DEF Unrefused, ReleasedFree
      <4>5. WaitingReady'
        BY <2>1, <3>2, <4>1 DEF Unrefused, WaitingReady
      <4> QED BY <4>1, <4>4, <4>5, StillAlive DEF Unrefused
    <3>3. CASE ~(\A t \in ts : tstate[t] = "READY" /\ t \notin waiting \union running)
      <4>1. fate' = why /\ waiting' = waiting
        BY <3>1, <3>3 DEF Inject
      <4>2. c \notin Released => state \in {"CANCELLING", "CANCELLED"}
        <5>1. tstate[c] # "READY" \/ c \in Released
          BY <3>3 DEF Released
        <5>2. tstate[c] \in {"STARTED", "OVER", "TERMINATED"} => c \in Released
          BY <2>1 DEF BooksInv, TaskPlaces, Released, Over
        <5> QED BY <2>1, <5>1, <5>2 DEF BooksInv, TypeOK, TaskPlaces
      <4>3. FateExplained'
        BY <2>1, <4>1, <4>2 DEF FateExplained
      <4> QED BY <2>1, <4>1, <4>3, UnrefusedStill
    <3> QED BY <3>2, <3>3
  <2> QED BY <2>3, <2>4
<1> QED BY <1>1, <1>2, <1>3 DEF StarterStep

(* the tasks: one that waits is still READY, *)
LEMMA TaskUnrefused ==
    ASSUME BooksInv, Unrefused, NEW t \in Tasks, TaskStep(t)
    PROVE  Unrefused'
<1>1. /\ fate = "alive" /\ UNCHANGED <<state, order, edges, hand>>
      /\ Vertices' = Vertices /\ \A u \in Vertices : Awaited(u)' = Awaited(u)
  BY DEF TaskStep, Dispatch, TaskEnds, TaskTerminates, graphVars, threadVars, Vertices, Awaited,
     Prerequisites
<1>2. state = "STARTED" => Released' = Released
  <2>1. CASE Dispatch(t)
    <3>1. Over' = Over
      BY <2>1 DEF Dispatch, Over, BooksInv, TypeOK
    <3> QED BY <2>1, <3>1 DEF Dispatch, Released
  <2>2. CASE TaskTerminates(t)
    <3>1. Over' = Over
      BY <2>2 DEF TaskTerminates, Over, BooksInv, TypeOK
    <3> QED BY <2>2, <3>1 DEF TaskTerminates, Released
  <2>3. CASE TaskEnds(t)
    <3>1. Over' = Over \union {t}
      BY <2>3 DEF TaskEnds, Over, BooksInv, TypeOK
    <3>2. state = "STARTED" => t \in running
      BY <2>3 DEF TaskEnds, BooksInv, TaskPlaces
    <3> QED BY <2>3, <3>1, <3>2 DEF TaskEnds, Released
  <2> QED BY <2>1, <2>2, <2>3 DEF TaskStep
<1> HIDE DEF Awaited
<1>3. ReleasedFree'
  BY <1>1, <1>2, FreeKept DEF Unrefused
<1>4. WaitingReady'
  <2>1. \A u \in waiting : tstate[u] = "READY" /\ u # t => tstate'[u] = "READY"
    BY DEF TaskStep, Dispatch, TaskEnds, TaskTerminates, BooksInv, TypeOK
  <2>2. waiting' \subseteq waiting /\ (t \in waiting' => tstate[t] # "READY")
    BY DEF TaskStep, Dispatch, TaskEnds, TaskTerminates
  <2> QED BY <1>1, <2>1, <2>2 DEF Unrefused, WaitingReady
<1>5. FateExplained'
  <2>1. fate' = "alive" \/ (fate' = "refused" /\ t \in waiting /\ tstate[t] # "READY")
    BY <1>1 DEF TaskStep, Dispatch, TaskEnds, TaskTerminates
  <2>2. t \in waiting /\ tstate[t] # "READY" => state \in {"CANCELLING", "CANCELLED"}
    BY DEF Unrefused, WaitingReady, BooksInv, TypeOK, BeforeStart
  <2> QED BY <1>1, <2>1, <2>2 DEF FateExplained
<1> QED BY <1>3, <1>4, <1>5 DEF Unrefused

(* the Handler: a task is released when it was not before, *)
LEMMA ReleaseUnrefused ==
    ASSUME BooksInv, BooksInv', Unrefused, Release
    PROVE  Unrefused'
<1> DEFINE h == hand.task
           S == {t \in Targets(h) : AllEnded(count'[t])}
<1>1. /\ fate = "alive" /\ hand.at = "release" /\ hand' = [hand EXCEPT !.at = "retire"]
      /\ Inject(S, "refused") /\ UNCHANGED <<state, order, edges, tstate, running>>
      /\ h \in Vertices /\ h \in Tasks /\ S \subseteq Vertices /\ Vertices' = Vertices
  BY DEF Release, BooksInv, EndsOnce, Holds, Positions, Targets, Vertices
<1>2. state \in {"STARTED", "CANCELLING"}
  BY <1>1 DEF BooksInv, TypeOK, AfterEnd, BeforeStart, Rest
<1>3. \A t \in Vertices : Awaited(t)' \subseteq Awaited(t)
  BY <1>1 DEF Awaited, Prerequisites
<1>4. \A t \in S : h \in Awaited(t)
  BY <1>1 DEF Awaited, Prerequisites, Targets
<1>5. \A t \in S : Awaited(t)' = {}
  <2> TAKE t \in S
  <2>1. t \in Vertices' /\ t \in Vertices /\ count'[t] = 0
    BY <1>1 DEF AllEnded
  <2>2. /\ IsFiniteSet(Awaited(t)') /\ Cardinality(Awaited(t)') \in Nat
        /\ Cardinality(Lost(t)') \in Nat
    <3>1. IsFiniteSet(Awaited(t)) /\ Awaited(t)' \subseteq Awaited(t)
      BY <1>3, <2>1, AwaitedFinite
    <3>2. Lost(t)' = Lost(t) /\ Cardinality(Lost(t)) \in Nat
      BY <2>1, AwaitedFinite DEF Lost, Release, history, built
    <3> QED BY <3>1, <3>2, FS_Subset, FS_CardinalityType
  <2>3. count'[t] >= Cardinality(Awaited(t)') + Cardinality(Lost(t)')
    BY <2>1 DEF BooksInv, CountsKept
  <2> HIDE DEF Awaited, Lost, S, h
  <2>4. Cardinality(Awaited(t)') = 0
    BY <2>1, <2>2, <2>3
  <2> QED BY <2>2, <2>4, FS_EmptySet
<1> HIDE DEF S, h, Awaited
<1>6. CASE \A t \in S : tstate[t] = "READY" /\ t \notin waiting \union running
  <2>1. fate' = "alive" /\ waiting' = waiting \union S
    BY <1>1, <1>6 DEF Inject
  <2>2. Released' = Released \union S
    BY <1>1, <2>1 DEF Released, Over
  <2>3. ReleasedFree'
    BY <1>1, <1>3, <1>5, <2>2 DEF Unrefused, ReleasedFree
  <2>4. WaitingReady'
    BY <1>1, <1>6, <2>1 DEF Unrefused, WaitingReady
  <2> QED BY <2>1, <2>3, <2>4, StillAlive DEF Unrefused
<1>7. CASE ~(\A t \in S : tstate[t] = "READY" /\ t \notin waiting \union running)
  <2>1. fate' = "refused" /\ waiting' = waiting
    BY <1>1, <1>7 DEF Inject
  <2>2. state = "CANCELLING"
    <3> SUFFICES ASSUME state = "STARTED" PROVE FALSE
      BY <1>2
    <3>1. PICK t \in S : tstate[t] # "READY" \/ t \in waiting \union running
      BY <1>7
    <3>2. t \in Vertices /\ t \in Tasks /\ t \notin Released
      BY <1>1, <1>4, VerticesAre DEF Unrefused, ReleasedFree, BooksInv, TypeOK
    <3>3. tstate[t] # "READY"
      BY <3>1, <3>2 DEF Released
    <3> QED BY <3>2, <3>3 DEF BooksInv, TypeOK, TaskPlaces, Released, Over
  <2>3. FateExplained'
    BY <1>1, <2>1, <2>2 DEF FateExplained
  <2> QED BY <1>1, <2>2, <2>3, UnrefusedElse
<1> QED BY <1>6, <1>7

(* and what it does else releases nothing. *)
LEMMA HandlerUnrefused ==
    ASSUME BooksInv, BooksInv', Unrefused, PlanKept, Verified, HandlerStep
    PROVE  Unrefused'
<1>1. CASE Release
  BY <1>1, ReleaseUnrefused
<1>2. CASE Finished
  <2>1. /\ fate' = "alive" /\ state \in {"STARTED", "CANCELLING"}
        /\ UNCHANGED <<waiting, tstate, running>>
        /\ \A u \in Vertices : Awaited(u) = Prerequisites(u)
    BY <1>2, EndReceived DEF Finished, Receives
  <2>2. WaitingReady'
    <3>1. state' \in {"STARTED", "DONE"} => state = "STARTED"
      BY <1>2, <2>1 DEF Finished
    <3> QED BY <2>1, <3>1, WaitKept DEF Unrefused
  <2>3. ReleasedFree'
    <3>1. CASE LastTask
      <4>1. state' # "STARTED"
        BY <1>2, <2>1, <3>1 DEF Finished
      <4> QED BY <4>1 DEF ReleasedFree
    <3>2. CASE ~LastTask
      <4>1. UNCHANGED <<order, edges, state>>
        BY <1>2, <2>1, <3>2 DEF Finished
      <4>2. Vertices' = Vertices /\ Released' = Released
        BY <2>1, <4>1 DEF Vertices, Released, Over
      <4>3. \A u \in Vertices : Awaited(u)' \subseteq Awaited(u)
        BY <2>1, <4>1, <4>2 DEF Awaited, Prerequisites
      <4> HIDE DEF Awaited
      <4> QED BY <4>1, <4>2, <4>3, FreeKept DEF Unrefused
    <3> QED BY <3>1, <3>2
  <2> QED BY <2>1, <2>2, <2>3, StillAlive DEF Unrefused
<1>3. CASE RetireHandled
  <2>1. /\ hand.task \in Vertices /\ fate' = "alive" /\ hand.at = "retire" /\ hand' = Rest
        /\ UNCHANGED <<state, waiting, tstate, running>>
    BY <1>3 DEF RetireHandled, BooksInv, EndsOnce, Holds
  <2>2. /\ Vertices' = Vertices \ {hand.task}
        /\ \A u \in Vertices' : Prerequisites(u)' = Prerequisites(u) \ {hand.task}
    BY <1>3, <2>1, MailOK, RetireEffect DEF RetireHandled
  <2>3. Released' = Released
    BY <2>1 DEF Released, Over
  <2>4. \A u \in Vertices' : Awaited(u)' \subseteq Awaited(u)
    BY <2>1, <2>2 DEF Awaited
  <2> HIDE DEF Awaited
  <2>5. ReleasedFree'
    BY <2>1, <2>2, <2>3, <2>4, FreeKept DEF Unrefused
  <2>6. WaitingReady'
    BY <2>1, WaitKept DEF Unrefused
  <2> QED BY <2>1, <2>5, <2>6, StillAlive DEF Unrefused
<1>4. CASE DestroyHandled
  <2>1. fate' = "alive" /\ UNCHANGED <<state, order, edges, hand, waiting, tstate, running>>
    BY <1>4 DEF DestroyHandled, Receives, graphVars, threadVars
  <2> QED BY <2>1, StillAlive, UnrefusedStill
<1>5. CASE FreeSlot \/ BalanceAgain
  <2>1. /\ UNCHANGED <<state, order, edges, waiting, tstate>> /\ hand'.at # "retire"
        /\ hand.at # "retire" /\ Released' = Released
    <3>1. Released' = Released
      BY <1>5, HiddenSteps DEF Same
    <3> QED BY <1>5, <3>1 DEF FreeSlot, BalanceAgain, graphVars, taskVars, Rest, Receives
  <2>2. Vertices' = Vertices /\ \A u \in Vertices : Awaited(u)' = Awaited(u)
    BY <2>1 DEF Vertices, Awaited, Prerequisites
  <2>3. FateExplained'
    <3>1. /\ fate = "alive" /\ editor' = editor /\ gone' = gone
          /\ fate' \in {"alive", "wild"} /\ (fate' = "wild" => gone)
      BY <1>5 DEF FreeSlot, BalanceAgain, Receives
    <3>2. state # "READY" /\ editor = NoEdit
      BY <1>5, Received DEF FreeSlot, BalanceAgain, Receives, BooksInv, BeforeStart, Editing, Rest
    <3> QED BY <3>1, <3>2 DEF FateExplained
  <2> HIDE DEF Awaited
  <2>4. ReleasedFree'
    BY <2>1, <2>2, FreeKept DEF Unrefused
  <2>5. WaitingReady'
    BY <2>1, WaitKept DEF Unrefused
  <2> QED BY <2>3, <2>4, <2>5 DEF Unrefused
<1> QED BY <1>1, <1>2, <1>3, <1>4, <1>5 DEF HandlerStep

(* so that every step keeps it. *)
LEMMA UnrefusedNext ==
    ASSUME BooksInv, BooksInv', Unrefused, PlanKept, Verified, [Next]_vars
    PROVE  Unrefused'
<1>1. CASE UNCHANGED vars
  <2>1. FateExplained'
    BY <1>1 DEF vars, Unrefused, FateExplained
  <2> QED BY <1>1, <2>1, UnrefusedStill DEF vars
<1> QED BY <1>1, CallsUnrefused, StarterUnrefused, TaskUnrefused, HandlerUnrefused DEF Next

(* An edit that was overtaken by a cancel stays so. *)
LEMMA OvertakenStays == overtaken /\ [Next]_vars => overtaken'
<1> SUFFICES ASSUME overtaken, [Next]_vars PROVE overtaken'
  OBVIOUS
<1> USE DEF history
<1>1. CASE Cancel
  BY <1>1 DEF Cancel
<1>2. CASE Enter \/ EditorStep
  BY <1>2 DEF Enter, EditorStep, EditFreed, Built, AddTask, RemoveTask, AddDependency,
     RemoveDependency
<1>3. CASE Start \/ StarterStep \/ CancelTasks \/ Destroy
  BY <1>3 DEF Start, StarterStep, StartSet, StartNext, StartVisit, CancelTasks, Destroy
<1>4. ASSUME NEW t \in Tasks, TaskStep(t) PROVE overtaken'
  BY <1>4 DEF TaskStep, Dispatch, TaskEnds, TaskTerminates
<1>5. CASE HandlerStep
  BY <1>5 DEF HandlerStep, Finished, Release, RetireHandled, DestroyHandled, FreeSlot, BalanceAgain
<1>6. CASE UNCHANGED vars
  BY <1>6 DEF vars
<1> QED BY <1>1, <1>2, <1>3, <1>4, <1>5, <1>6 DEF Next

(* The invariant on which the refinement rests: the books, what may be     *)
(* refused, what is left of the plan, and what was verified before the     *)
(* start.  It ends when a cancel comes in the middle of an edit.           *)
THEOREM Inductive == Spec => [](overtaken \/ IInv)
<1>1. Init => IInv
  <2>1. Init => Unrefused
    BY DEF Init, Unrefused, ReleasedFree, WaitingReady, FateExplained
  <2> QED BY <2>1, BooksInit, PlanInit DEF IInv
<1>2. (overtaken \/ IInv) /\ [Next]_vars => (overtaken \/ IInv)'
  <2> SUFFICES ASSUME IInv, [Next]_vars, ~overtaken' PROVE IInv'
    BY OvertakenStays
  <2>1. BooksInv'
    BY BooksNext DEF IInv
  <2> QED BY <2>1, UnrefusedNext, PlanNext DEF IInv
<1> QED BY <1>1, <1>2, PTL DEF Spec

(* Until a cancel comes in the middle of an edit, in every state and for   *)
(* every graph that a user can build, whichever thread is where: the       *)
(* counters of taskdepman.c agree with the graph; the end of a task finds  *)
(* its vertex in a manager that expects it, so the die() of                *)
(* on_task_finished is never reached; and the task manager refuses a task  *)
(* only after a cancel or when ytaskdepman_start was overrun.              *)
THEOREM BooksAreExact == Spec => [](overtaken \/ Books)
<1>1. IInv => Books
  BY BooksFromInv DEF IInv, Unrefused
<1> QED BY <1>1, Inductive, PTL

(* The dependency manager implements Workflow: tasks are given to the task *)
(* manager in an order that respects the dependencies of the user, only a  *)
(* graph without cycles and with one last task starts, and the manager     *)
(* becomes DONE or CANCELLED once, when every task is over, unless a       *)
(* cancel came in the middle of an edit.                                   *)
THEOREM WorkflowImplemented == Spec => ImplementsWorkflow
<1>1. Init => WF!Init
  BY PlanInit
<1>2. (overtaken \/ IInv) /\ [Next]_vars => [overtaken' \/ WF!Next]_(WF!wfVars)
  BY PlanNext, OvertakenStays DEF IInv
<1> QED BY <1>1, <1>2, Inductive, PTL DEF Spec, ImplementsWorkflow

==============================================================================
