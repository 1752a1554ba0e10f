-------------------------- MODULE TaskEventsProofs ---------------------------
(***************************************************************************)
(* Proofs about TaskEvents, for any number of listeners and any progress:  *)
(* every reference has one owner, no event finds a freed handle, and every *)
(* listener hears all that was passed on since it was listed, in order;    *)
(* and about Tags, the user tags of a task, for any number of them.        *)
(***************************************************************************)
EXTENDS TaskEvents, Tags, FiniteSetTheorems, SequenceTheorems, TLAPS

Kinds == {"started", "progress_init", "progress", "done"}
Evs == [type : Kinds, val : Int]
Msgs == Evs \union Messages
Done == Event("done", 0)
Over == {"DONE", "TERMINATED"}

(* Every variable has its type. *)
Types ==
    /\ TypeOK
    /\ ownq \in Seq(Evs) /\ told \in Seq(Evs)
    /\ adding \subseteq Listeners /\ hasty \subseteq Listeners
    /\ mail \in [Listeners -> Seq(Msgs)]
    /\ heard \in [Listeners -> Seq(Evs)]
    /\ joined \in [Listeners -> Nat]

(* A handle is once in the list, until it is freed. *)
Handles ==
    /\ \A i, j \in 1 .. Len(list) : list[i] = list[j] => i = j
    /\ ToSet(list) \intersect freed = {}
    /\ adding \subseteq ToSet(list)
    /\ adding # {} => created
    /\ \A l \in Listeners \ (ToSet(list) \union freed) : heard[l] = <<>> /\ mail[l] = <<>>

(* The end is the last event of the task. *)
EndIsLast ==
    /\ ~created => state = "TERMINATED"
    /\ state \notin Over => Done \notin ToSet(ownq) \union ToSet(told)
    /\ state = "TERMINATED" => Done \in ToSet(told)
    /\ \A i \in 1 .. Len(ownq) : ownq[i].type = "done" => ownq[i] = Done /\ i = Len(ownq)
    /\ \A i \in 1 .. Len(told) : told[i].type = "done" =>
          told[i] = Done /\ i = Len(told) /\ ownq = <<>>

(* An event is followed by the message that drops its reference. *)
Paired ==
    \A l \in Listeners : \A i \in 1 .. Len(mail[l]) :
        mail[l][i] \notin Messages => i < Len(mail[l]) /\ mail[l][i + 1] = Put

(* Every reference has its owner, and no handle outlives the task. *)
Counted ==
    /\ IsFiniteSet(Owing)
    /\ refs = (IF created THEN 1 ELSE 0) + Cardinality(Owing) + leaked
    /\ refs = 0 => list = <<>>

(* A freed handle has no event to come: only what does not touch it. *)
NoneToFreed ==
    \A l \in freed \ hasty : \A i \in 1 .. Len(mail[l]) :
        mail[l][i] = Put \/ (mail[l][i] = Catch /\ state \in Over)

IInv == Types /\ Handles /\ EndIsLast /\ Paired /\ Counted /\ NoneToFreed /\ HearsAll

------------------------------------------------------------------------------
(* Mailboxes. *)
LEMMA MessagesAre ==
    /\ Put # Catch /\ Put \notin Evs /\ Catch \notin Evs
    /\ \A x \in Msgs : x \in Evs <=> x \notin Messages
BY DEF Put, Catch, Event, Evs, Kinds, Msgs, Messages

(* What taking the first message leaves in a mailbox, *)
LEMMA BoxTail ==
    ASSUME NEW S, NEW s \in Seq(S), s # <<>>
    PROVE  /\ Tail(s) \in Seq(S) /\ Len(s) \in Nat \ {0} /\ Len(Tail(s)) = Len(s) - 1
           /\ Head(s) = s[1] /\ s[1] \in S
           /\ \A i \in 1 .. Len(s) - 1 : Tail(s)[i] = s[i + 1]
BY HeadTailProperties

(* what posting one message adds, *)
LEMMA BoxAppend ==
    ASSUME NEW S, NEW s \in Seq(S), NEW x \in S
    PROVE  /\ Append(s, x) \in Seq(S) /\ Len(s) \in Nat /\ Len(Append(s, x)) = Len(s) + 1
           /\ \A i \in 1 .. Len(s) : Append(s, x)[i] = s[i]
           /\ Append(s, x)[Len(s) + 1] = x
OBVIOUS

(* and what posting two adds. *)
LEMMA BoxPair ==
    ASSUME NEW S, NEW s \in Seq(S), NEW x \in S, NEW y \in S
    PROVE  LET q == s \o <<x, y>>
           IN  /\ q \in Seq(S) /\ Len(s) \in Nat /\ Len(q) = Len(s) + 2
               /\ \A i \in 1 .. Len(s) : q[i] = s[i]
               /\ q[Len(s) + 1] = x /\ q[Len(s) + 2] = y
<1> DEFINE p == <<x, y>>
<1>1. p \in Seq(S) /\ Len(p) = 2 /\ p[1] = x /\ p[2] = y
  OBVIOUS
<1> HIDE DEF p
<1> QED BY <1>1

(* A function that is one to one and onto is a bijection. *)
LEMMA BijectionExists ==
    ASSUME NEW S, NEW T, NEW f \in [S -> T],
           \A t, u \in S : f[t] = f[u] => t = u,
           \A u \in T : \E t \in S : f[t] = u
    PROVE  ExistsBijection(S, T)
BY DEF ExistsBijection, Bijection, Injection, IsInjective, Surjection

(* The references that a state of the mailboxes owes. *)
Tokens(m) ==
    UNION {{<<l, i>> : i \in {i \in 1 .. Len(m[l]) : m[l][i] \in Messages}} : l \in Listeners}

(* A token is the place of a message that owes a reference. *)
LEMMA TokensAre ==
    ASSUME NEW m
    PROVE  /\ \A t \in Tokens(m) : \E l \in Listeners, i \in Nat : i \in 1 .. Len(m[l]) /\
                 t = <<l, i>> /\ m[l][i] \in Messages
           /\ \A l \in Listeners : \A i \in 1 .. Len(m[l]) :
                 m[l][i] \in Messages => <<l, i>> \in Tokens(m)
           /\ \A l, i : <<l, i>> \in Tokens(m) =>
                 l \in Listeners /\ i \in 1 .. Len(m[l]) /\ m[l][i] \in Messages
<1>1. \A t \in Tokens(m) : \E l \in Listeners, i \in Nat : i \in 1 .. Len(m[l]) /\
                 t = <<l, i>> /\ m[l][i] \in Messages
  BY DEF Tokens
<1>2. \A l \in Listeners : \A i \in 1 .. Len(m[l]) :
                 m[l][i] \in Messages => <<l, i>> \in Tokens(m)
  BY DEF Tokens
<1> QED BY <1>1, <1>2

(* Taking a message gives up its reference and no other. *)
LEMMA TokensTail ==
    ASSUME NEW m \in [Listeners -> Seq(Msgs)], NEW l \in Listeners, m[l] # <<>>,
           IsFiniteSet(Tokens(m)),
           NEW q, q[l] = Tail(m[l]), \A k \in Listeners \ {l} : q[k] = m[k]
    PROVE  /\ IsFiniteSet(Tokens(q))
           /\ Head(m[l]) \in Messages => /\ Cardinality(Tokens(m)) > 0
                                         /\ Cardinality(Tokens(q)) = Cardinality(Tokens(m)) - 1
           /\ Head(m[l]) \notin Messages => Cardinality(Tokens(q)) = Cardinality(Tokens(m))
<1> DEFINE S == Tokens(m) \ {<<l, 1>>}
           f == [t \in S |-> IF t[1] = l THEN <<l, t[2] - 1>> ELSE t]
           n == Len(m[l])
<1>1. /\ n \in Nat \ {0} /\ Len(q[l]) = n - 1 /\ Head(m[l]) = m[l][1]
      /\ \A i \in 1 .. n - 1 : q[l][i] = m[l][i + 1]
      /\ \A k \in Listeners \ {l} : q[k] = m[k]
  <2>1. m[l] \in Seq(Msgs) /\ q[l] = Tail(m[l]) /\ \A k \in Listeners \ {l} : q[k] = m[k]
    OBVIOUS
  <2> QED BY <2>1, BoxTail
<1>2. /\ IsFiniteSet(S) /\ Cardinality(Tokens(m)) \in Nat
      /\ Cardinality(S) = IF <<l, 1>> \in Tokens(m) THEN Cardinality(Tokens(m)) - 1
                          ELSE Cardinality(Tokens(m))
  <2> DEFINE T == Tokens(m)
             x == <<l, 1>>
  <2>1. IsFiniteSet(T)
    OBVIOUS
  <2> HIDE DEF T, x
  <2>2. /\ IsFiniteSet(T \ {x}) /\ Cardinality(T) \in Nat
        /\ Cardinality(T \ {x}) = IF x \in T THEN Cardinality(T) - 1 ELSE Cardinality(T)
    BY <2>1, FS_RemoveElement, FS_CardinalityType
  <2> QED BY <2>2 DEF T, x
<1>3. <<l, 1>> \in Tokens(m) <=> Head(m[l]) \in Messages
  BY <1>1, TokensAre
<1>4. ExistsBijection(S, Tokens(q))
  <2> HIDE DEF n
  <2>1. \A t \in S : \E k \in Listeners, i \in Nat : i \in 1 .. Len(m[k]) /\
          t = <<k, i>> /\ m[k][i] \in Messages /\ (k = l => i # 1)
    BY TokensAre
  <2>2. \A t \in S : f[t] \in Tokens(q)
    <3> TAKE t \in S
    <3>1. PICK k \in Listeners, i \in Nat : i \in 1 .. Len(m[k]) /\
            t = <<k, i>> /\ m[k][i] \in Messages /\ (k = l => i # 1)
      BY <2>1
    <3>2. CASE k = l
      <4>1. i - 1 \in 1 .. n - 1 /\ (i - 1) + 1 = i
        BY <1>1, <3>1, <3>2 DEF n
      <4>2. q[l][i - 1] \in Messages
        BY <1>1, <3>1, <3>2, <4>1
      <4>3. <<l, i - 1>> \in Tokens(q)
        BY <1>1, <4>1, <4>2, TokensAre
      <4> QED BY <3>1, <3>2, <4>3
    <3>3. CASE k # l
      BY <1>1, <3>1, <3>3, TokensAre
    <3> QED BY <3>2, <3>3
  <2>3. \A t, u \in S : f[t] = f[u] => t = u
    <3> TAKE t, u \in S
    <3>1. PICK k \in Listeners, i \in Nat : i \in 1 .. Len(m[k]) /\ t = <<k, i>>
      BY <2>1
    <3>2. PICK h \in Listeners, j \in Nat : j \in 1 .. Len(m[h]) /\ u = <<h, j>>
      BY <2>1
    <3>3. i \in Int /\ j \in Int
      BY <3>1, <3>2
    <3>4. f[t] = IF k = l THEN <<l, i - 1>> ELSE <<k, i>>
      BY <3>1
    <3>5. f[u] = IF h = l THEN <<l, j - 1>> ELSE <<h, j>>
      BY <3>2
    <3> HIDE DEF f
    <3> QED BY <3>1, <3>2, <3>3, <3>4, <3>5
  <2>4. \A u \in Tokens(q) : \E t \in S : f[t] = u
    <3> TAKE u \in Tokens(q)
    <3>1. PICK k \in Listeners, i \in Nat :
            i \in 1 .. Len(q[k]) /\ u = <<k, i>> /\ q[k][i] \in Messages
      BY TokensAre
    <3>2. CASE k = l
      <4>1. i \in 1 .. n - 1 /\ i + 1 \in 1 .. n /\ i + 1 # 1 /\ (i + 1) - 1 = i
        BY <1>1, <3>1, <3>2
      <4>2. m[l][i + 1] \in Messages
        BY <1>1, <3>1, <3>2, <4>1
      <4>3. <<l, i + 1>> \in S
        BY <4>1, <4>2, TokensAre DEF n
      <4> QED BY <3>1, <3>2, <4>1, <4>3
    <3>3. CASE k # l
      <4>1. u \in S
        BY <1>1, <3>1, <3>3, TokensAre
      <4> QED BY <3>1, <3>3, <4>1
    <3> QED BY <3>2, <3>3
  <2>5. f \in [S -> Tokens(q)]
    BY <2>2
  <2> DEFINE T == Tokens(q)
  <2>6. f \in [S -> T] /\ \A u \in T : \E t \in S : f[t] = u
    BY <2>4, <2>5
  <2> HIDE DEF f, S, T
  <2>7. ExistsBijection(S, T)
    BY <2>3, <2>6, BijectionExists
  <2> QED BY <2>7 DEF T
<1> HIDE DEF S
<1>5. IsFiniteSet(Tokens(q)) /\ Cardinality(Tokens(q)) = Cardinality(S)
  BY <1>2, <1>4, FS_Bijection
<1>6. <<l, 1>> \in Tokens(m) => Cardinality(Tokens(m)) > 0
  BY <1>2, FS_EmptySet
<1> QED BY <1>2, <1>3, <1>5, <1>6

(* Posting a message that owes a reference takes one. *)
LEMMA TokensAppend ==
    ASSUME NEW m \in [Listeners -> Seq(Msgs)], NEW l \in Listeners, NEW x \in Messages,
           IsFiniteSet(Tokens(m)),
           NEW q, q[l] = Append(m[l], x), \A k \in Listeners \ {l} : q[k] = m[k]
    PROVE  IsFiniteSet(Tokens(q)) /\ Cardinality(Tokens(q)) = Cardinality(Tokens(m)) + 1
<1> DEFINE n == Len(m[l])
           T == Tokens(m)
           t == <<l, n + 1>>
<1>1. /\ n \in Nat /\ Len(q[l]) = n + 1
      /\ \A i \in 1 .. n : q[l][i] = m[l][i]
      /\ q[l][n + 1] = x
  <2>1. m[l] \in Seq(Msgs) /\ x \in Msgs
    BY DEF Msgs
  <2> QED BY <2>1, BoxAppend
<1>2. t \notin T
  BY <1>1, TokensAre
<1>3. t \in Tokens(q)
  BY <1>1, TokensAre
<1> HIDE DEF n
<1>4. \A i \in 1 .. n + 1 : i \in 1 .. n \/ i = n + 1
  BY <1>1
<1>5. Tokens(q) \subseteq T \union {t}
  <2> SUFFICES ASSUME NEW u \in Tokens(q) PROVE u \in T \union {t}
    OBVIOUS
  <2>1. PICK k \in Listeners, i \in Nat :
          i \in 1 .. Len(q[k]) /\ u = <<k, i>> /\ q[k][i] \in Messages
    BY TokensAre
  <2>2. CASE k = l /\ i \in 1 .. n
    BY <1>1, <2>1, <2>2, TokensAre DEF n
  <2>3. CASE k # l
    BY <2>1, <2>3, TokensAre
  <2> QED BY <1>1, <1>4, <2>1, <2>2, <2>3
<1>6. T \subseteq Tokens(q)
  <2> SUFFICES ASSUME NEW u \in T PROVE u \in Tokens(q)
    OBVIOUS
  <2>1. PICK k \in Listeners, i \in Nat :
          i \in 1 .. Len(m[k]) /\ u = <<k, i>> /\ m[k][i] \in Messages
    BY TokensAre
  <2>2. CASE k = l
    <3>1. i \in 1 .. n /\ i \in 1 .. Len(q[l]) /\ q[l][i] = m[l][i]
      BY <1>1, <2>1, <2>2 DEF n
    <3> QED BY <2>1, <2>2, <3>1, TokensAre
  <2>3. CASE k # l
    BY <2>1, <2>3, TokensAre
  <2> QED BY <2>2, <2>3
<1>7. IsFiniteSet(T)
  OBVIOUS
<1>8. Tokens(q) = T \union {t}
  BY <1>3, <1>5, <1>6
<1> HIDE DEF T, t
<1>9. IsFiniteSet(T \union {t}) /\ Cardinality(T \union {t}) = Cardinality(T) + 1
  BY <1>2, <1>7, FS_AddElement
<1> QED BY <1>8, <1>9 DEF T

(* The list of handles. *)
LEMMA RemoveFirstEffect ==
    ASSUME NEW S, NEW s \in Seq(S), NEW k \in 1 .. Len(s),
           \A i, j \in 1 .. Len(s) : s[i] = s[j] => i = j
    PROVE  /\ RemoveFirst(s, s[k]) \in Seq(S)
           /\ Len(RemoveFirst(s, s[k])) = Len(s) - 1
           /\ \A i \in 1 .. Len(s) - 1 :
                 RemoveFirst(s, s[k])[i] = IF i < k THEN s[i] ELSE s[i + 1]
<1> DEFINE a == SubSeq(s, 1, k - 1)
           b == SubSeq(s, k + 1, Len(s))
<1>1. SelectInSeq(s, LAMBDA v : v = s[k]) = k
  <2>1. {i \in 1 .. Len(s) : s[i] = s[k]} = {k}
    OBVIOUS
  <2>2. Min({k}) = k
    BY DEF Min
  <2> QED BY <2>1, <2>2 DEF SelectInSeq
<1>2. RemoveFirst(s, s[k]) = a \o b
  BY <1>1 DEF RemoveFirst, RemoveAt
<1>3. a \in Seq(S) /\ Len(a) = k - 1 /\ \A i \in 1 .. k - 1 : a[i] = s[i]
  BY SubSeqProperties
<1>4. b \in Seq(S) /\ Len(b) = Len(s) - k /\ \A i \in 1 .. Len(s) - k : b[i] = s[k + i]
  BY SubSeqProperties
<1> HIDE DEF a, b
<1>5. a \o b \in Seq(S) /\ Len(a \o b) = Len(s) - 1
  BY <1>3, <1>4
<1>6. \A i \in 1 .. Len(s) - 1 : (a \o b)[i] = IF i < k THEN s[i] ELSE s[i + 1]
  BY <1>3, <1>4
<1> QED BY <1>2, <1>5, <1>6

Once(s) == \A i, j \in 1 .. Len(s) : s[i] = s[j] => i = j

(* ylistl_remove takes one handle out of the list. *)
LEMMA ListRemove ==
    ASSUME NEW s \in Seq(Listeners), Once(s), NEW t \in ToSet(s)
    PROVE  LET q == RemoveFirst(s, t)
           IN  q \in Seq(Listeners) /\ ToSet(q) = ToSet(s) \ {t} /\ Once(q)
<1> DEFINE q == RemoveFirst(s, t)
           n == Len(s)
<1>1. n \in Nat /\ ToSet(s) = {s[i] : i \in 1 .. n}
  BY DEF ToSet
<1>2. PICK k \in 1 .. n : s[k] = t
  BY <1>1
<1>3. /\ q \in Seq(Listeners)
      /\ Len(q) = n - 1
      /\ \A i \in 1 .. n - 1 : q[i] = IF i < k THEN s[i] ELSE s[i + 1]
  BY <1>2, RemoveFirstEffect DEF Once
<1> HIDE DEF q, n
<1>4. ToSet(q) = {q[i] : i \in 1 .. n - 1}
  BY <1>3 DEF ToSet
<1>5. \A i, j \in 1 .. n : s[i] = s[j] => i = j
  BY DEF Once, n
<1>6. \A i \in 1 .. n - 1 : q[i] \in ToSet(s) \ {t}
  <2> TAKE i \in 1 .. n - 1
  <2>1. i \in 1 .. n /\ i + 1 \in 1 .. n
    BY <1>1
  <2>2. CASE i < k
    <3>1. i # k
      BY <1>1, <1>2, <2>2
    <3>2. s[i] # t
      BY <1>2, <1>5, <2>1, <3>1
    <3>3. q[i] = s[i]
      BY <1>3, <2>2
    <3> QED BY <1>1, <2>1, <3>2, <3>3
  <2>3. CASE ~(i < k)
    <3>1. i + 1 # k
      BY <1>1, <1>2, <2>3
    <3>2. s[i + 1] # t
      BY <1>2, <1>5, <2>1, <3>1
    <3>3. q[i] = s[i + 1]
      BY <1>3, <2>3
    <3> QED BY <1>1, <2>1, <3>2, <3>3
  <2> QED BY <2>2, <2>3
<1>7. \A u \in ToSet(s) \ {t} : \E i \in 1 .. n - 1 : q[i] = u
  <2> TAKE u \in ToSet(s) \ {t}
  <2>1. PICK j \in 1 .. n : s[j] = u
    BY <1>1
  <2>2. j # k
    BY <1>2, <2>1
  <2>3. CASE j < k
    <3>1. j \in 1 .. n - 1
      BY <1>1, <2>3
    <3> QED BY <1>3, <2>1, <2>3, <3>1
  <2>4. CASE j > k
    <3>1. j - 1 \in 1 .. n - 1 /\ ~(j - 1 < k) /\ (j - 1) + 1 = j
      BY <1>1, <2>4
    <3> QED BY <1>3, <2>1, <3>1
  <2> QED BY <1>1, <2>2, <2>3, <2>4
<1>8. Once(q)
  <2> SUFFICES ASSUME NEW i \in 1 .. n - 1, NEW j \in 1 .. n - 1, q[i] = q[j], i < j
               PROVE  FALSE
    BY <1>1, <1>3 DEF Once
  <2>1. i \in 1 .. n /\ i + 1 \in 1 .. n /\ j \in 1 .. n /\ j + 1 \in 1 .. n
    BY <1>1
  <2> QED BY <1>1, <1>3, <1>5, <2>1
<1>9. ToSet(q) = ToSet(s) \ {t}
  BY <1>4, <1>6, <1>7
<1> QED BY <1>3, <1>8, <1>9 DEF q

(* ylistl_add_last puts one handle in. *)
LEMMA ListAppend ==
    ASSUME NEW s \in Seq(Listeners), Once(s), NEW t \in Listeners, t \notin ToSet(s)
    PROVE  LET q == Append(s, t)
           IN  q \in Seq(Listeners) /\ ToSet(q) = ToSet(s) \union {t} /\ Once(q)
<1> DEFINE q == Append(s, t)
           n == Len(s)
<1>1. n \in Nat /\ ToSet(s) = {s[i] : i \in 1 .. n} /\ \A i \in 1 .. n : s[i] # t
  BY DEF ToSet
<1>2. /\ q \in Seq(Listeners) /\ Len(q) = n + 1
      /\ \A i \in 1 .. n : q[i] = s[i]
      /\ q[n + 1] = t
  OBVIOUS
<1> HIDE DEF q
<1>3. ToSet(q) = {q[i] : i \in 1 .. n + 1}
  BY <1>2 DEF ToSet
<1> HIDE DEF n
<1>4. \A i \in 1 .. n + 1 : i \in 1 .. n \/ i = n + 1
  BY <1>1
<1>5. n + 1 \in 1 .. n + 1 /\ 1 .. n \subseteq 1 .. n + 1
  BY <1>1
<1>6. ToSet(q) = ToSet(s) \union {t}
  BY <1>1, <1>2, <1>3, <1>4, <1>5
<1>7. Once(q)
  <2>1. \A i, j \in 1 .. n : s[i] = s[j] => i = j
    BY DEF Once, n
  <2> QED BY <1>1, <1>2, <1>4, <2>1 DEF Once
<1> QED BY <1>2, <1>6, <1>7 DEF q

(* A list without repetition has as many handles as places. *)
LEMMA ListLength ==
    ASSUME NEW s \in Seq(Listeners), Once(s)
    PROVE  IsFiniteSet(ToSet(s)) /\ Cardinality(ToSet(s)) = Len(s)
<1> DEFINE n == Len(s)
           T == ToSet(s)
           f == [i \in 1 .. n |-> s[i]]
<1>1. n \in Nat /\ T = {s[i] : i \in 1 .. n}
  BY DEF ToSet
<1>2. f \in [1 .. n -> T]
  BY <1>1
<1>3. \A i, j \in 1 .. n : f[i] = f[j] => i = j
  BY DEF Once
<1>4. \A l \in T : \E i \in 1 .. n : f[i] = l
  BY <1>1
<1>5. ExistsBijection(1 .. n, T)
  <2> DEFINE D == 1 .. n
  <2>1. /\ f \in [D -> T]
        /\ \A i, j \in D : f[i] = f[j] => i = j
        /\ \A l \in T : \E i \in D : f[i] = l
    BY <1>2, <1>3, <1>4
  <2> HIDE DEF f, T, n, D
  <2>2. ExistsBijection(D, T)
    BY <2>1, BijectionExists
  <2> QED BY <2>2 DEF D
<1> HIDE DEF f, T, n
<1>6. IsFiniteSet(1 .. n)
  BY <1>1, FS_Interval
<1>7. IsFiniteSet(T) /\ Cardinality(T) = n
  BY <1>1, <1>5, <1>6, FS_Bijection, FS_CountingElements
<1> QED BY <1>7 DEF T, n

(* One place in each of several mailboxes: as many places as mailboxes. *)
LEMMA OnePlaceEach ==
    ASSUME NEW L, IsFiniteSet(L), NEW g
    PROVE  LET U == {<<l, g[l]>> : l \in L}
           IN  IsFiniteSet(U) /\ Cardinality(U) = Cardinality(L)
<1> DEFINE f == [l \in L |-> <<l, g[l]>>]
           U == {<<l, g[l]>> : l \in L}
<1>1. /\ f \in [L -> U]
      /\ \A k, l \in L : f[k] = f[l] => k = l
      /\ \A u \in U : \E l \in L : f[l] = u
  OBVIOUS
<1> HIDE DEF f, U
<1>2. ExistsBijection(L, U)
  BY <1>1, BijectionExists
<1> QED BY <1>2, FS_Bijection DEF U

(* A walk over the list takes one reference for each listener. *)
LEMMA TokensPairs ==
    ASSUME NEW m \in [Listeners -> Seq(Msgs)], NEW e \in Evs, IsFiniteSet(Tokens(m)),
           NEW s \in Seq(Listeners), Once(s),
           NEW q, \A l \in ToSet(s) : q[l] = m[l] \o <<e, Put>>,
           \A l \in Listeners \ ToSet(s) : q[l] = m[l]
    PROVE  IsFiniteSet(Tokens(q)) /\ Cardinality(Tokens(q)) = Cardinality(Tokens(m)) + Len(s)
<1> DEFINE L == ToSet(s)
           T == Tokens(m)
           U == {<<l, Len(m[l]) + 2>> : l \in L}
<1>1. /\ L \subseteq Listeners
      /\ \A l \in L : /\ Len(m[l]) \in Nat /\ Len(q[l]) = Len(m[l]) + 2
                       /\ \A i \in 1 .. Len(m[l]) : q[l][i] = m[l][i]
                       /\ q[l][Len(m[l]) + 1] = e /\ q[l][Len(m[l]) + 2] = Put
  <2>1. L \subseteq Listeners
    BY DEF ToSet
  <2>2. e \in Msgs /\ Put \in Msgs
    BY DEF Msgs, Messages
  <2> HIDE DEF L
  <2>3. \A l \in L : m[l] \in Seq(Msgs) /\ q[l] = m[l] \o <<e, Put>>
    BY <2>1 DEF L
  <2> QED BY <2>1, <2>2, <2>3, BoxPair
<1> HIDE DEF L
<1>2. IsFiniteSet(U) /\ Cardinality(U) = Len(s)
  <2>1. IsFiniteSet(L) /\ Cardinality(L) = Len(s)
    BY ListLength DEF L
  <2> DEFINE g == [l \in L |-> Len(m[l]) + 2]
  <2>2. U = {<<l, g[l]>> : l \in L}
    OBVIOUS
  <2> HIDE DEF U, g
  <2>3. IsFiniteSet({<<l, g[l]>> : l \in L}) /\ Cardinality({<<l, g[l]>> : l \in L}) = Cardinality(L)
    BY <2>1, OnePlaceEach
  <2> QED BY <2>1, <2>2, <2>3
<1>3. T \intersect U = {}
  BY <1>1, TokensAre
<1>4. U \subseteq Tokens(q)
  <2> SUFFICES ASSUME NEW l \in L PROVE <<l, Len(m[l]) + 2>> \in Tokens(q)
    OBVIOUS
  <2> DEFINE n == Len(m[l])
  <2>1. l \in Listeners /\ n + 2 \in 1 .. Len(q[l]) /\ q[l][n + 2] \in Messages
    BY <1>1 DEF Messages
  <2> HIDE DEF n
  <2>2. <<l, n + 2>> \in Tokens(q)
    BY <2>1, TokensAre
  <2> QED BY <2>2 DEF n
<1>5. T \subseteq Tokens(q)
  <2> SUFFICES ASSUME NEW u \in T PROVE u \in Tokens(q)
    OBVIOUS
  <2>1. PICK k \in Listeners, i \in Nat :
          i \in 1 .. Len(m[k]) /\ u = <<k, i>> /\ m[k][i] \in Messages
    BY TokensAre
  <2>2. i \in 1 .. Len(q[k]) /\ q[k][i] = m[k][i]
    BY <1>1, <2>1 DEF L
  <2> QED BY <2>1, <2>2, TokensAre
<1>6. Tokens(q) \subseteq T \union U
  <2> SUFFICES ASSUME NEW u \in Tokens(q) PROVE u \in T \union U
    OBVIOUS
  <2>1. PICK k \in Listeners, i \in Nat :
          i \in 1 .. Len(q[k]) /\ u = <<k, i>> /\ q[k][i] \in Messages
    BY TokensAre
  <2>2. CASE k \notin L
    BY <2>1, <2>2, TokensAre DEF L
  <2>3. CASE k \in L
    <3> DEFINE n == Len(m[k])
    <3>1. n \in Nat /\ (i \in 1 .. n \/ i = n + 1 \/ i = n + 2)
      BY <1>1, <2>1, <2>3
    <3>2. CASE i \in 1 .. n
      BY <1>1, <2>1, <2>3, <3>2, TokensAre
    <3>3. CASE i = n + 1
      BY <1>1, <2>1, <2>3, <3>3, MessagesAre DEF Msgs
    <3>4. CASE i = n + 2
      BY <2>1, <2>3, <3>4
    <3> QED BY <3>1, <3>2, <3>3, <3>4
  <2> QED BY <2>2, <2>3
<1>7. Tokens(q) = T \union U
  BY <1>4, <1>5, <1>6
<1>8. IsFiniteSet(T)
  OBVIOUS
<1>9. IsFiniteSet(T \intersect U) /\ Cardinality(T \intersect U) = 0
  BY <1>3, FS_EmptySet
<1> HIDE DEF T, U
<1>10. IsFiniteSet(T \union U) /\ Cardinality(T \union U) = Cardinality(T) + Cardinality(U)
  <2>1. Cardinality(T) \in Nat /\ Cardinality(U) \in Nat
    BY <1>2, <1>8, FS_CardinalityType
  <2>2. /\ IsFiniteSet(T \union U)
        /\ Cardinality(T \union U) =
              Cardinality(T) + Cardinality(U) - Cardinality(T \intersect U)
    BY <1>2, <1>8, FS_Union
  <2> QED BY <1>9, <2>1, <2>2
<1> QED BY <1>2, <1>7, <1>10 DEF T

------------------------------------------------------------------------------
(* What is due of the events tl lies in the mail m, in order. *)
Carried(D, m, tl) ==
    \E at \in [D -> 1 .. Len(m)] :
        /\ \A n \in D : m[at[n]] = tl[n]
        /\ \A n, k \in D : n < k => at[n] < at[k]
        /\ \A i \in 1 .. Len(m) : m[i] \notin Messages => \E n \in D : at[n] = i

(* Listed when j events were told, a listener that has heard h and has the *)
(* mail m hears all of tl after those.                                     *)
Hears(j, h, m, tl) ==
    /\ j + Len(h) <= Len(tl)
    /\ h = SubSeq(tl, j + 1, j + Len(h))
    /\ Carried((j + Len(h) + 1) .. Len(tl), m, tl)

(* HearsAll, listener by listener. *)
LEMMA HearsAllIs ==
    /\ HearsAll <=> \A l \in ToSet(list) : Hears(joined[l], heard[l], mail[l], told)
    /\ HearsAll' <=> \A l \in ToSet(list') : Hears(joined'[l], heard'[l], mail'[l], told')
BY DEF HearsAll, OnItsWay, Due, Hears, Carried

(* Taking the first message moves all others up by one place. *)
LEMMA CarryShift ==
    ASSUME NEW D \in SUBSET Nat, NEW m \in Seq(Msgs), m # <<>>, NEW tl,
           NEW at \in [D -> 1 .. Len(m)],
           \A n \in D : m[at[n]] = tl[n],
           \A n, k \in D : n < k => at[n] < at[k],
           \A i \in 1 .. Len(m) : m[i] \notin Messages => \E n \in D : at[n] = i,
           NEW E \in SUBSET D, \A n \in D : n \in E <=> at[n] # 1
    PROVE  Carried(E, Tail(m), tl)
<1> DEFINE q == Tail(m)
           n0 == Len(m)
           bt == [n \in E |-> at[n] - 1]
<1>1. /\ n0 \in Nat \ {0} /\ Len(q) = n0 - 1
      /\ \A i \in 1 .. n0 - 1 : q[i] = m[i + 1]
  BY BoxTail
<1> HIDE DEF q, n0
<1>2. \A n \in E : /\ n \in D /\ at[n] \in 1 .. n0 /\ at[n] # 1
                   /\ at[n] - 1 \in 1 .. n0 - 1 /\ (at[n] - 1) + 1 = at[n]
  <2> SUFFICES ASSUME NEW n \in E
               PROVE  /\ n \in D /\ at[n] \in 1 .. n0 /\ at[n] # 1
                      /\ at[n] - 1 \in 1 .. n0 - 1 /\ (at[n] - 1) + 1 = at[n]
    OBVIOUS
  <2>1. n \in D /\ at[n] \in 1 .. n0 /\ at[n] # 1
    BY DEF n0
  <2> QED BY <1>1, <2>1
<1>3. bt \in [E -> 1 .. Len(q)] /\ \A n \in E : bt[n] = at[n] - 1
  BY <1>1, <1>2
<1>4. \A n \in E : q[bt[n]] = tl[n]
  BY <1>1, <1>2, <1>3
<1>5. \A n, k \in E : n < k => bt[n] < bt[k]
  BY <1>2, <1>3
<1>6. \A i \in 1 .. Len(q) : q[i] \notin Messages => \E n \in E : bt[n] = i
  <2> SUFFICES ASSUME NEW i \in 1 .. n0 - 1, q[i] \notin Messages
               PROVE  \E n \in E : bt[n] = i
    BY <1>1
  <2>1. i + 1 \in 1 .. n0 /\ i + 1 # 1 /\ m[i + 1] \notin Messages
    BY <1>1
  <2>2. PICK n \in D : at[n] = i + 1
    BY <2>1 DEF n0
  <2>3. n \in E
    BY <2>1, <2>2
  <2> QED BY <1>3, <2>2, <2>3
<1> HIDE DEF bt
<1>7. Carried(E, q, tl)
  BY <1>3, <1>4, <1>5, <1>6 DEF Carried
<1> QED BY <1>7 DEF q

(* A message that is not an event takes no event away, *)
LEMMA CarryMessage ==
    ASSUME NEW D \in SUBSET Nat, NEW m \in Seq(Msgs), m # <<>>, Head(m) \in Messages,
           NEW tl, \A n \in D : tl[n] \notin Messages, Carried(D, m, tl)
    PROVE  Carried(D, Tail(m), tl)
<1>1. PICK at \in [D -> 1 .. Len(m)] :
        /\ \A n \in D : m[at[n]] = tl[n]
        /\ \A n, k \in D : n < k => at[n] < at[k]
        /\ \A i \in 1 .. Len(m) : m[i] \notin Messages => \E n \in D : at[n] = i
  BY DEF Carried
<1>2. \A n \in D : at[n] # 1
  BY <1>1
<1> QED BY <1>1, <1>2, CarryShift

(* an event is the next one due, *)
LEMMA CarryEvent ==
    ASSUME NEW a \in Nat, NEW b \in Nat, NEW m \in Seq(Msgs), m # <<>>, Head(m) \notin Messages,
           NEW tl, Carried(a .. b, m, tl)
    PROVE  a <= b /\ tl[a] = Head(m) /\ Carried((a + 1) .. b, Tail(m), tl)
<1> DEFINE D == a .. b
           E == (a + 1) .. b
<1>1. PICK at \in [D -> 1 .. Len(m)] :
        /\ \A n \in D : m[at[n]] = tl[n]
        /\ \A n, k \in D : n < k => at[n] < at[k]
        /\ \A i \in 1 .. Len(m) : m[i] \notin Messages => \E n \in D : at[n] = i
  BY DEF Carried
<1>2. 1 \in 1 .. Len(m) /\ m[1] = Head(m)
  BY BoxTail
<1>3. PICK n \in D : at[n] = 1
  BY <1>1, <1>2
<1>4. a \in D /\ a <= b /\ a <= n
  OBVIOUS
<1>5. at[a] = 1
  <2>1. at[a] \in 1 .. Len(m)
    BY <1>4
  <2> QED BY <1>1, <1>3, <1>4, <2>1
<1>6. E \subseteq D /\ D \in SUBSET Nat /\ \A k \in D : k \in E <=> a < k
  OBVIOUS
<1>7. \A k \in D : k \in E <=> at[k] # 1
  <2> SUFFICES ASSUME NEW k \in D PROVE k \in E <=> at[k] # 1
    OBVIOUS
  <2>1. at[k] \in 1 .. Len(m) /\ k \in Nat /\ (k = a \/ a < k)
    OBVIOUS
  <2>2. a < k => 1 < at[k]
    BY <1>1, <1>4, <1>5
  <2> QED BY <1>5, <1>6, <2>1, <2>2
<1>8. tl[a] = Head(m)
  BY <1>1, <1>2, <1>4, <1>5
<1> HIDE DEF D, E
<1>9. Carried(E, Tail(m), tl)
  BY <1>1, <1>6, <1>7, CarryShift
<1> QED BY <1>4, <1>8, <1>9 DEF E

(* a message that is not an event adds none, *)
LEMMA CarryAppend ==
    ASSUME NEW D, NEW m \in Seq(Msgs), NEW x \in Messages, NEW tl, Carried(D, m, tl)
    PROVE  Carried(D, Append(m, x), tl)
<1> DEFINE q == Append(m, x)
<1>1. PICK at \in [D -> 1 .. Len(m)] :
        /\ \A n \in D : m[at[n]] = tl[n]
        /\ \A n, k \in D : n < k => at[n] < at[k]
        /\ \A i \in 1 .. Len(m) : m[i] \notin Messages => \E n \in D : at[n] = i
  BY DEF Carried
<1>2. /\ Len(m) \in Nat /\ Len(q) = Len(m) + 1
      /\ \A i \in 1 .. Len(m) : q[i] = m[i]
      /\ q[Len(m) + 1] = x
  BY BoxAppend DEF Msgs
<1> HIDE DEF q
<1>3. at \in [D -> 1 .. Len(q)]
  BY <1>2
<1>4. \A n \in D : q[at[n]] = tl[n]
  BY <1>1, <1>2
<1>5. \A i \in 1 .. Len(q) : q[i] \notin Messages => \E n \in D : at[n] = i
  BY <1>1, <1>2
<1>6. Carried(D, q, tl)
  BY <1>1, <1>3, <1>4, <1>5 DEF Carried
<1> QED BY <1>6 DEF q

(* and an event is followed by the message that drops its reference. *)
LEMMA CarryPair ==
    ASSUME NEW a \in Nat \ {0}, NEW tl \in Seq(Evs), a <= Len(tl) + 1, NEW m \in Seq(Msgs),
           NEW e \in Evs, Carried(a .. Len(tl), m, tl)
    PROVE  Carried(a .. (Len(tl) + 1), m \o <<e, Put>>, Append(tl, e))
<1> DEFINE q == m \o <<e, Put>>
           ul == Append(tl, e)
           b == Len(tl)
           D == a .. b
           E == a .. (b + 1)
           n0 == Len(m)
<1>1. PICK at \in [D -> 1 .. n0] :
        /\ \A n \in D : m[at[n]] = tl[n]
        /\ \A n, k \in D : n < k => at[n] < at[k]
        /\ \A i \in 1 .. n0 : m[i] \notin Messages => \E n \in D : at[n] = i
  BY DEF Carried
<1>2. /\ n0 \in Nat /\ Len(q) = n0 + 2
      /\ \A i \in 1 .. n0 : q[i] = m[i]
      /\ q[n0 + 1] = e /\ q[n0 + 2] = Put
  BY BoxPair DEF Msgs, Messages
<1>3. /\ b \in Nat
      /\ \A i \in 1 .. b : ul[i] = tl[i]
      /\ ul[b + 1] = e
  OBVIOUS
<1> DEFINE bt == [n \in E |-> IF n \in D THEN at[n] ELSE n0 + 1]
<1>4. D \subseteq E /\ b + 1 \in E /\ b + 1 \notin D /\ \A n \in E : n \in D \/ n = b + 1
  BY <1>3
<1>5. E \subseteq Nat
  BY <1>3
<1>6. \A n \in D : ul[n] = tl[n]
  BY <1>3
<1>7. \A n \in D, k \in E : k \notin D => n < k
  BY <1>3
<1> HIDE DEF b, q, ul, D, E, n0
<1>8. /\ bt \in [E -> 1 .. Len(q)]
      /\ \A n \in D : bt[n] = at[n]
      /\ bt[b + 1] = n0 + 1
  BY <1>2, <1>4
<1>9. \A n \in E : q[bt[n]] = ul[n]
  BY <1>1, <1>2, <1>3, <1>4, <1>6, <1>8
<1>10. \A n, k \in E : n < k => bt[n] < bt[k]
  <2> SUFFICES ASSUME NEW n \in E, NEW k \in E, n < k PROVE bt[n] < bt[k]
    OBVIOUS
  <2>1. CASE n \in D /\ k \in D
    BY <1>1, <1>8, <2>1
  <2>2. CASE n \in D /\ k \notin D
    <3>1. bt[n] \in 1 .. n0 /\ bt[k] = n0 + 1
      BY <1>4, <1>8, <2>2
    <3> QED BY <1>2, <3>1
  <2>3. CASE n \notin D
    <3>1. k \notin D
      BY <1>5, <1>7, <2>3
    <3>2. n = k
      BY <1>4, <2>3, <3>1
    <3> QED BY <1>5, <3>2
  <2> QED BY <2>1, <2>2, <2>3
<1>11. \A i \in 1 .. Len(q) : q[i] \notin Messages => \E n \in E : bt[n] = i
  <2> SUFFICES ASSUME NEW i \in 1 .. n0 + 2, q[i] \notin Messages
               PROVE  \E n \in E : bt[n] = i
    BY <1>2
  <2>1. i \in 1 .. n0 \/ i = n0 + 1
    BY <1>2 DEF Messages
  <2> QED BY <1>1, <1>2, <1>4, <1>8, <2>1
<1> HIDE DEF bt
<1>12. Carried(E, q, ul)
  BY <1>8, <1>9, <1>10, <1>11 DEF Carried
<1> QED BY <1>12 DEF E, q, ul, b

(* A stretch of the events, place by place. *)
LEMMA HearsHeard ==
    ASSUME NEW j \in Nat, NEW h \in Seq(Evs), NEW tl \in Seq(Evs), j + Len(h) <= Len(tl)
    PROVE  h = SubSeq(tl, j + 1, j + Len(h)) <=> \A i \in 1 .. Len(h) : h[i] = tl[j + i]
<1> DEFINE q == SubSeq(tl, j + 1, j + Len(h))
<1>1. q \in Seq(Evs) /\ Len(q) = Len(h) /\ \A i \in 1 .. Len(h) : q[i] = tl[j + i]
  <2> DEFINE a == j + 1
             b == j + Len(h)
  <2>1. a \in 1 .. Len(tl) + 1 /\ b \in a - 1 .. Len(tl)
    OBVIOUS
  <2>2. Len(h) = b - a + 1 /\ \A i \in 1 .. Len(h) : a + i - 1 = j + i
    OBVIOUS
  <2> HIDE DEF a, b
  <2>3. /\ SubSeq(tl, a, b) \in Seq(Evs)
        /\ Len(SubSeq(tl, a, b)) = IF a <= b THEN b - a + 1 ELSE 0
        /\ \A i \in 1 .. b - a + 1 : SubSeq(tl, a, b)[i] = tl[a + i - 1]
    BY <2>1, SubSeqProperties
  <2>4. Len(SubSeq(tl, a, b)) = Len(h)
    BY <2>1, <2>2, <2>3
  <2>5. \A i \in 1 .. Len(h) : SubSeq(tl, a, b)[i] = tl[j + i]
    BY <2>2, <2>3
  <2> QED BY <2>3, <2>4, <2>5 DEF a, b
<1> HIDE DEF q
<1>2. (\A i \in 1 .. Len(h) : h[i] = q[i]) => h = q
  BY <1>1, SeqEqual
<1>3. h = q <=> \A i \in 1 .. Len(h) : h[i] = tl[j + i]
  BY <1>1, <1>2
<1> QED BY <1>3 DEF q

(* Handling a message that is not an event: nothing is heard. *)
LEMMA HearMessage ==
    ASSUME NEW j \in Nat, NEW h \in Seq(Evs), NEW m \in Seq(Msgs), NEW tl \in Seq(Evs),
           m # <<>>, Head(m) \in Messages, Hears(j, h, m, tl)
    PROVE  Hears(j, h, Tail(m), tl)
<1> DEFINE D == (j + Len(h) + 1) .. Len(tl)
<1>1. D \in SUBSET Nat /\ \A n \in D : tl[n] \notin Messages
  BY MessagesAre DEF Msgs
<1>2. Carried(D, m, tl)
  BY DEF Hears
<1> HIDE DEF D
<1>3. Carried(D, Tail(m), tl)
  BY <1>1, <1>2, CarryMessage
<1> QED BY <1>3 DEF Hears, D

(* Handling an event: it is the next one and is heard. *)
LEMMA HearOne ==
    ASSUME NEW j \in Nat, NEW h \in Seq(Evs), NEW m \in Seq(Msgs), NEW tl \in Seq(Evs),
           m # <<>>, Head(m) \notin Messages, Hears(j, h, m, tl)
    PROVE  Head(m) \in Evs /\ Hears(j, Append(h, Head(m)), Tail(m), tl)
<1> DEFINE a == j + Len(h) + 1
           b == Len(tl)
           e == Head(m)
           g == Append(h, e)
<1>1. a \in Nat /\ b \in Nat /\ Carried(a .. b, m, tl)
  BY DEF Hears
<1>2. a <= b /\ tl[a] = e /\ Carried((a + 1) .. b, Tail(m), tl)
  <2> HIDE DEF a, b
  <2> QED BY <1>1, CarryEvent
<1>3. e \in Evs
  BY BoxTail, MessagesAre
<1>4. g \in Seq(Evs) /\ Len(g) = Len(h) + 1 /\ g[Len(h) + 1] = e
      /\ \A i \in 1 .. Len(h) : g[i] = h[i]
  BY <1>3
<1>5. \A i \in 1 .. Len(h) : h[i] = tl[j + i]
  BY HearsHeard DEF Hears
<1>6. \A i \in 1 .. Len(h) + 1 : i \in 1 .. Len(h) \/ i = Len(h) + 1
  OBVIOUS
<1>7. j + (Len(h) + 1) = a /\ j + Len(g) = a /\ Len(h) \in Nat
  BY <1>4
<1> HIDE DEF a, b, e, g
<1>8. \A i \in 1 .. Len(g) : g[i] = tl[j + i]
  BY <1>2, <1>4, <1>5, <1>6, <1>7
<1>9. j + Len(g) <= Len(tl)
  BY <1>2, <1>7 DEF b
<1>10. g = SubSeq(tl, j + 1, j + Len(g))
  BY <1>4, <1>8, <1>9, HearsHeard
<1>11. Hears(j, g, Tail(m), tl)
  BY <1>2, <1>7, <1>9, <1>10 DEF Hears, b
<1> QED BY <1>3, <1>11 DEF e, g

(* Posting a message that is not an event: nothing more is to come. *)
LEMMA HearNew ==
    ASSUME NEW j, NEW h, NEW m \in Seq(Msgs), NEW tl, NEW x \in Messages, Hears(j, h, m, tl)
    PROVE  Hears(j, h, Append(m, x), tl)
BY CarryAppend DEF Hears

(* Posting an event to a listener that has all before. *)
LEMMA HearMore ==
    ASSUME NEW j \in Nat, NEW h \in Seq(Evs), NEW m \in Seq(Msgs), NEW tl \in Seq(Evs),
           NEW e \in Evs, Hears(j, h, m, tl)
    PROVE  Hears(j, h, m \o <<e, Put>>, Append(tl, e))
<1> DEFINE a == j + Len(h) + 1
           ul == Append(tl, e)
<1>1. a \in Nat \ {0} /\ a <= Len(tl) + 1 /\ Carried(a .. Len(tl), m, tl)
  BY DEF Hears
<1>2. ul \in Seq(Evs) /\ Len(ul) = Len(tl) + 1 /\ \A i \in 1 .. Len(tl) : ul[i] = tl[i]
  OBVIOUS
<1>3. \A i \in 1 .. Len(h) : h[i] = tl[j + i]
  BY HearsHeard DEF Hears
<1>4. \A i \in 1 .. Len(h) : j + i \in 1 .. Len(tl)
  BY DEF Hears
<1>5. j + Len(h) <= Len(tl) + 1
  BY <1>1
<1>6. Carried(a .. (Len(tl) + 1), m \o <<e, Put>>, ul)
  <2> HIDE DEF a
  <2> QED BY <1>1, CarryPair
<1> HIDE DEF ul
<1>7. h = SubSeq(ul, j + 1, j + Len(h))
  <2>1. j + Len(h) <= Len(ul) /\ \A i \in 1 .. Len(h) : h[i] = ul[j + i]
    BY <1>2, <1>3, <1>4, <1>5
  <2> QED BY <1>2, <2>1, HearsHeard
<1>8. Hears(j, h, m \o <<e, Put>>, ul)
  BY <1>2, <1>5, <1>6, <1>7 DEF Hears
<1> QED BY <1>8 DEF ul

(* A listener that is listed now is due nothing yet. *)
LEMMA HearNothing ==
    ASSUME NEW tl \in Seq(Evs)
    PROVE  Hears(Len(tl), <<>>, <<>>, tl)
<1> DEFINE n == Len(tl)
           h == <<>>
<1>1. n \in Nat /\ h \in Seq(Evs) /\ Len(h) = 0
  OBVIOUS
<1>2. (n + Len(h) + 1) .. n = {}
  OBVIOUS
<1>3. Carried({}, h, tl)
  <2> DEFINE D == {}
             at == [k \in D |-> 1]
  <2>1. at \in [D -> 1 .. Len(h)] /\ \A i \in 1 .. Len(h) : FALSE
    BY <1>1
  <2>2. \A k \in D : FALSE
    OBVIOUS
  <2> HIDE DEF at, D, h
  <2>3. Carried(D, h, tl)
    BY <2>1, <2>2 DEF Carried
  <2> QED BY <2>3 DEF D
<1>4. h = SubSeq(tl, n + 1, n + Len(h))
  BY HearsHeard
<1> HIDE DEF n, h
<1>5. n + Len(h) <= Len(tl)
  BY <1>1 DEF n
<1>6. Carried((n + Len(h) + 1) .. Len(tl), h, tl)
  BY <1>2, <1>3 DEF n
<1> QED BY <1>4, <1>5, <1>6 DEF Hears, n, h

(* Who has heard of the end has only messages left. *)
LEMMA HeardTheEnd ==
    ASSUME NEW j \in Nat, NEW h \in Seq(Evs), NEW m \in Seq(Msgs), NEW tl \in Seq(Evs),
           h # <<>>, Last(h).type = "done", Hears(j, h, m, tl),
           \A i \in 1 .. Len(tl) : tl[i].type = "done" => i = Len(tl)
    PROVE  tl # <<>> /\ tl[Len(tl)].type = "done" /\ \A i \in 1 .. Len(m) : m[i] \in Messages
<1> DEFINE n == Len(h)
           b == Len(tl)
<1>1. n \in Nat \ {0} /\ b \in Nat /\ Last(h) = h[n] /\ j + n <= b
  BY DEF Hears, Last
<1>2. h[n] = tl[j + n]
  BY <1>1, HearsHeard DEF Hears
<1>3. j + n \in 1 .. b
  BY <1>1
<1>4. j + n = b
  BY <1>1, <1>2, <1>3
<1>5. Carried((b + 1) .. b, m, tl)
  BY <1>4 DEF Hears
<1>6. (b + 1) .. b = {}
  BY <1>1
<1>7. \A i \in 1 .. Len(m) : m[i] \in Messages
  BY <1>5, <1>6 DEF Carried
<1> QED BY <1>1, <1>2, <1>3, <1>4, <1>7

------------------------------------------------------------------------------
(* The parts of the invariant, by what they depend on. *)
LEMMA OwingIs == Owing = Tokens(mail) /\ Owing' = Tokens(mail')
BY DEF Owing, Tokens

(* Counted, before and after a step. *)
LEMMA CountedIs ==
    /\ Counted <=> /\ IsFiniteSet(Tokens(mail))
                   /\ refs = (IF created THEN 1 ELSE 0) + Cardinality(Tokens(mail)) + leaked
                   /\ refs = 0 => list = <<>>
    /\ Counted' <=> /\ IsFiniteSet(Tokens(mail'))
                    /\ refs' = (IF created' THEN 1 ELSE 0) + Cardinality(Tokens(mail')) + leaked'
                    /\ refs' = 0 => list' = <<>>
BY OwingIs DEF Counted

(* The reference count is never below zero. *)
LEMMA RefsAreNat ==
    ASSUME Counted', leaked' \in Nat
    PROVE  refs' \in Nat
<1>1. Cardinality(Tokens(mail')) \in Nat
  BY CountedIs, FS_CardinalityType
<1> QED BY <1>1, CountedIs

PairedIn(s) ==
    \A i \in 1 .. Len(s) : s[i] \notin Messages => i < Len(s) /\ s[i + 1] = Put

(* Paired, mailbox by mailbox. *)
LEMMA PairedIs ==
    /\ Paired <=> \A l \in Listeners : PairedIn(mail[l])
    /\ Paired' <=> \A l \in Listeners : PairedIn(mail'[l])
BY DEF Paired, PairedIn

(* Taking a message, posting one and posting a pair keep the pairs. *)
LEMMA PairedSteps ==
    ASSUME NEW s \in Seq(Msgs), PairedIn(s)
    PROVE  /\ s # <<>> => PairedIn(Tail(s))
           /\ \A x \in Messages : PairedIn(Append(s, x))
           /\ \A e \in Evs : PairedIn(s \o <<e, Put>>)
<1>1. ASSUME s # <<>> PROVE PairedIn(Tail(s))
  <2> DEFINE q == Tail(s)
             n == Len(s)
  <2>1. n \in Nat \ {0} /\ Len(q) = n - 1 /\ \A i \in 1 .. n - 1 : q[i] = s[i + 1]
    BY <1>1, BoxTail
  <2>2. \A i \in 1 .. n : s[i] \notin Messages => i < n /\ s[i + 1] = Put
    BY DEF PairedIn
  <2> HIDE DEF q, n
  <2>3. SUFFICES ASSUME NEW i \in 1 .. n - 1, q[i] \notin Messages
                 PROVE  i < n - 1 /\ q[i + 1] = Put
    BY <2>1 DEF PairedIn, q
  <2>4. i + 1 \in 1 .. n /\ s[i + 1] \notin Messages
    BY <2>1, <2>3
  <2>5. i + 1 < n /\ s[(i + 1) + 1] = Put
    BY <2>2, <2>4
  <2>6. i < n - 1 /\ i + 1 \in 1 .. n - 1
    BY <2>1, <2>5
  <2> QED BY <2>1, <2>5, <2>6
<1>2. ASSUME NEW x \in Messages PROVE PairedIn(Append(s, x))
  <2> DEFINE q == Append(s, x)
             n == Len(s)
  <2>1. /\ n \in Nat /\ Len(q) = n + 1 /\ q[n + 1] = x
        /\ \A i \in 1 .. n : q[i] = s[i]
    BY BoxAppend DEF Msgs
  <2>2. \A i \in 1 .. n : s[i] \notin Messages => i < n /\ s[i + 1] = Put
    BY DEF PairedIn
  <2> HIDE DEF q, n
  <2>3. \A i \in 1 .. n + 1 : q[i] \notin Messages => i < n + 1 /\ q[i + 1] = Put
    BY <2>1, <2>2
  <2> QED BY <2>1, <2>3 DEF PairedIn, q
<1>3. ASSUME NEW e \in Evs PROVE PairedIn(s \o <<e, Put>>)
  <2> DEFINE q == s \o <<e, Put>>
             n == Len(s)
  <2>1. /\ n \in Nat /\ Len(q) = n + 2 /\ q[n + 1] = e /\ q[n + 2] = Put
        /\ \A i \in 1 .. n : q[i] = s[i]
    BY BoxPair DEF Msgs, Messages
  <2>2. \A i \in 1 .. n : s[i] \notin Messages => i < n /\ s[i + 1] = Put
    BY DEF PairedIn
  <2> HIDE DEF q, n
  <2>3. SUFFICES ASSUME NEW i \in 1 .. n + 2, q[i] \notin Messages
                 PROVE  i < n + 2 /\ q[i + 1] = Put
    BY <2>1 DEF PairedIn, q
  <2>4. i \in 1 .. n \/ i = n + 1
    BY <2>1, <2>3 DEF Messages
  <2>5. CASE i \in 1 .. n
    <3>1. i < n /\ s[i + 1] = Put
      BY <2>1, <2>2, <2>3, <2>5
    <3> QED BY <2>1, <2>5, <3>1
  <2>6. CASE i = n + 1
    BY <2>1, <2>6
  <2> QED BY <2>4, <2>5, <2>6
<1> QED BY <1>1, <1>2, <1>3

(* Without a reference owed there is no message. *)
LEMMA NothingOwed ==
    ASSUME NEW m \in [Listeners -> Seq(Msgs)], \A l \in Listeners : PairedIn(m[l]),
           IsFiniteSet(Tokens(m)), Cardinality(Tokens(m)) = 0, NEW l \in Listeners
    PROVE  m[l] = <<>>
<1>1. Tokens(m) = {}
  BY FS_EmptySet
<1>2. \A i \in 1 .. Len(m[l]) : m[l][i] \notin Messages
  BY <1>1, TokensAre
<1>3. PairedIn(m[l]) /\ m[l] \in Seq(Msgs)
  OBVIOUS
<1>4. ASSUME m[l] # <<>> PROVE FALSE
  <2>1. Len(m[l]) \in Nat \ {0}
    BY <1>3, <1>4, EmptySeq
  <2>2. 1 \in 1 .. Len(m[l])
    BY <2>1
  <2>3. 1 < Len(m[l]) /\ m[l][1 + 1] = Put
    BY <1>2, <1>3, <2>2 DEF PairedIn
  <2>4. 1 + 1 \in 1 .. Len(m[l])
    BY <2>1, <2>3
  <2> QED BY <1>2, <2>3, <2>4 DEF Messages
<1> QED BY <1>4

(* A step that leaves the list alone keeps what is known of the handles. *)
LEMMA HandlesStill ==
    ASSUME Handles, UNCHANGED <<list, freed, created>>, adding' \subseteq adding,
           \A l \in Listeners \ (ToSet(list) \union freed) :
              heard'[l] = heard[l] /\ mail'[l] = mail[l]
    PROVE  Handles'
BY DEF Handles

(* A step that leaves task and owner alone keeps the end last. *)
LEMMA EndStill ==
    ASSUME EndIsLast, UNCHANGED <<state, ownq, told>>,
           created' = created \/ state = "TERMINATED"
    PROVE  EndIsLast'
BY DEF EndIsLast

(* A step that posts nothing to a freed handle. *)
LEMMA NoneStill ==
    ASSUME NoneToFreed, hasty' = hasty, state \in Over => state' \in Over,
           \A l \in freed' \ freed : Len(mail'[l]) = 0,
           \A l \in freed : \A i \in 1 .. Len(mail'[l]) :
              \E j \in 1 .. Len(mail[l]) : mail'[l][i] = mail[l][j]
    PROVE  NoneToFreed'
<1> SUFFICES ASSUME NEW l \in freed' \ hasty, NEW i \in 1 .. Len(mail'[l])
             PROVE  mail'[l][i] = Put \/ (mail'[l][i] = Catch /\ state' \in Over)
  <2>1. NoneToFreed' <=> \A l \in freed' \ hasty' : \A i \in 1 .. Len(mail'[l]) :
            mail'[l][i] = Put \/ (mail'[l][i] = Catch /\ state' \in Over)
    BY DEF NoneToFreed, Put, Catch, Event, Over
  <2> QED BY <2>1
<1>1. CASE l \in freed
  BY <1>1 DEF NoneToFreed
<1>2. CASE l \notin freed
  BY <1>2
<1> QED BY <1>1, <1>2

(* A step that changes nothing for some listeners. *)
LEMMA HearsStill ==
    ASSUME HearsAll, ToSet(list') \subseteq ToSet(list),
           \A l \in ToSet(list') :
              \/ joined'[l] = joined[l] /\ heard'[l] = heard[l] /\ mail'[l] = mail[l] /\ told' = told
              \/ Hears(joined'[l], heard'[l], mail'[l], told')
    PROVE  HearsAll'
BY HearsAllIs

(* A handler takes a message; stated of the mailboxes one by one ... *)
LEMMA TakenPointwise ==
    ASSUME Types, Paired, Counted, NEW l \in Listeners, mail[l] # <<>>,
           mail'[l] = Tail(mail[l]), \A k \in Listeners \ {l} : mail'[k] = mail[k]
    PROVE  /\ Len(mail[l]) \in Nat \ {0} /\ Head(mail[l]) = mail[l][1] /\ Head(mail[l]) \in Msgs
           /\ Len(mail'[l]) = Len(mail[l]) - 1
           /\ \A k \in Listeners : \A i \in 1 .. Len(mail'[k]) :
                 \E j \in 1 .. Len(mail[k]) : mail'[k][i] = mail[k][j]
           /\ Paired'
           /\ IsFiniteSet(Tokens(mail'))
           /\ Head(mail[l]) \in Messages =>
                 /\ Cardinality(Tokens(mail)) > 0
                 /\ Cardinality(Tokens(mail')) = Cardinality(Tokens(mail)) - 1
           /\ Head(mail[l]) \notin Messages =>
                 Cardinality(Tokens(mail')) = Cardinality(Tokens(mail))
<1>1. mail \in [Listeners -> Seq(Msgs)] /\ mail[l] \in Seq(Msgs)
  BY DEF Types
<1>2. mail'[l] = Tail(mail[l]) /\ \A k \in Listeners \ {l} : mail'[k] = mail[k]
  OBVIOUS
<1>3. /\ Tail(mail[l]) \in Seq(Msgs)
      /\ Len(mail[l]) \in Nat \ {0} /\ Head(mail[l]) = mail[l][1] /\ Head(mail[l]) \in Msgs
      /\ Len(Tail(mail[l])) = Len(mail[l]) - 1
      /\ \A i \in 1 .. Len(mail[l]) - 1 : Tail(mail[l])[i] = mail[l][i + 1]
  BY <1>1, BoxTail
<1>4. \A k \in Listeners : \A i \in 1 .. Len(mail'[k]) :
         \E j \in 1 .. Len(mail[k]) : mail'[k][i] = mail[k][j]
  <2> SUFFICES ASSUME NEW k \in Listeners, NEW i \in 1 .. Len(mail'[k])
               PROVE  \E j \in 1 .. Len(mail[k]) : mail'[k][i] = mail[k][j]
    OBVIOUS
  <2>1. CASE k = l
    <3> DEFINE n == Len(mail[l])
               s == mail[l]
               q == Tail(s)
    <3>1. n \in Nat /\ Len(q) = n - 1 /\ \A h \in 1 .. n - 1 : q[h] = s[h + 1]
      BY <1>3
    <3>2. i \in 1 .. Len(q) /\ mail'[k] = q
      BY <1>2, <2>1
    <3> HIDE DEF n, s, q
    <3>3. i \in 1 .. n - 1 /\ i + 1 \in 1 .. n
      BY <3>1, <3>2
    <3>4. mail'[k][i] = s[i + 1]
      BY <3>1, <3>2, <3>3
    <3> QED BY <2>1, <3>3, <3>4 DEF n, s
  <2>2. CASE k # l
    BY <1>2, <2>2
  <2> QED BY <2>1, <2>2
<1>5. Paired'
  <2>1. \A k \in Listeners : PairedIn(mail[k])
    BY PairedIs
  <2>2. PairedIn(Tail(mail[l]))
    BY <1>1, <2>1, PairedSteps
  <2> QED BY <1>2, <2>1, <2>2, PairedIs
<1>6. IsFiniteSet(Tokens(mail))
  BY CountedIs
<1>7. /\ IsFiniteSet(Tokens(mail'))
      /\ Head(mail[l]) \in Messages =>
            /\ Cardinality(Tokens(mail)) > 0
            /\ Cardinality(Tokens(mail')) = Cardinality(Tokens(mail)) - 1
      /\ Head(mail[l]) \notin Messages =>
            Cardinality(Tokens(mail')) = Cardinality(Tokens(mail))
  BY <1>1, <1>2, <1>6, TokensTail
<1> QED BY <1>2, <1>3, <1>4, <1>5, <1>7

(* ... and of all of them. *)
LEMMA MailTaken ==
    ASSUME Types, Paired, Counted, NEW l \in Listeners, mail[l] # <<>>,
           mail' = [mail EXCEPT ![l] = Tail(@)]
    PROVE  /\ mail' \in [Listeners -> Seq(Msgs)]
           /\ mail'[l] = Tail(mail[l]) /\ \A k \in Listeners \ {l} : mail'[k] = mail[k]
           /\ Len(mail[l]) \in Nat \ {0} /\ Head(mail[l]) = mail[l][1] /\ Head(mail[l]) \in Msgs
           /\ Len(mail'[l]) = Len(mail[l]) - 1
           /\ \A k \in Listeners : \A i \in 1 .. Len(mail'[k]) :
                 \E j \in 1 .. Len(mail[k]) : mail'[k][i] = mail[k][j]
           /\ Paired'
           /\ IsFiniteSet(Tokens(mail'))
           /\ Head(mail[l]) \in Messages =>
                 /\ Cardinality(Tokens(mail)) > 0
                 /\ Cardinality(Tokens(mail')) = Cardinality(Tokens(mail)) - 1
           /\ Head(mail[l]) \notin Messages =>
                 Cardinality(Tokens(mail')) = Cardinality(Tokens(mail))
<1>1. mail \in [Listeners -> Seq(Msgs)] /\ mail[l] \in Seq(Msgs)
  BY DEF Types
<1>2. mail'[l] = Tail(mail[l]) /\ \A k \in Listeners \ {l} : mail'[k] = mail[k]
  BY <1>1
<1>3. mail' \in [Listeners -> Seq(Msgs)]
  BY <1>1, BoxTail
<1> QED BY <1>2, <1>3, TakenPointwise

(* ytask_put: with the last reference the list is freed, else nothing is. *)
LEMMA DropEffect ==
    ASSUME Types, Handles, Drop, adding' = adding, refs' \in Nat,
           refs = 1 => adding = {}, adding # {} => created',
           \A l \in Listeners \ (ToSet(list) \union freed) : heard'[l] = <<>> /\ mail'[l] = <<>>
    PROVE  /\ Handles' /\ list' \in Seq(Listeners) /\ freed' \subseteq Listeners
           /\ ToSet(list') \subseteq ToSet(list)
           /\ refs' = 0 => list' = <<>>
           /\ refs' # 0 => list' = list /\ freed' = freed
<1>1. refs \in Nat /\ list \in Seq(Listeners) /\ freed \subseteq Listeners
  BY DEF Types, TypeOK
<1>2. ToSet(list) \subseteq Listeners
  BY <1>1 DEF ToSet
<1>3. CASE refs = 1
  <2>1. /\ freed' = freed \union ToSet(list) /\ list' = <<>> /\ refs' = 0 /\ adding' = {}
    BY <1>3 DEF Drop
  <2>2. ToSet(list') = {} /\ Len(list') = 0
    BY <2>1 DEF ToSet
  <2>3. Handles'
    BY <2>1, <2>2 DEF Handles
  <2> QED BY <1>1, <1>2, <2>1, <2>2, <2>3
<1>4. CASE refs # 1
  <2>1. list' = list /\ freed' = freed /\ refs' # 0
    BY <1>1, <1>4 DEF Drop
  <2>2. Handles'
    BY <2>1 DEF Handles
  <2> QED BY <1>1, <2>1, <2>2
<1> QED BY <1>3, <1>4

------------------------------------------------------------------------------
(* The steps of the background thread and of the owner. *)
LEMMA SayStep ==
    ASSUME IInv, NEW from \in {"READY", "STARTED"}, NEW to \in {"STARTED", "DONE"},
           NEW p \in -1 .. MaxProg, NEW ev \in Evs, Say(from, to, p, ev),
           ev.type = "done" => ev = Done /\ to = "DONE"
    PROVE  IInv'
<1> USE DEF progVars, listVars, refVars
<1>1. /\ state = from /\ state' = to /\ prog' = p /\ ownq' = Append(ownq, ev)
      /\ UNCHANGED <<list, freed, adding, mail, refs, created, leaked, heard, told, joined, hasty>>
  BY DEF Say
<1>2. Types'
  BY <1>1 DEF IInv, Types, TypeOK
<1>3. Handles'
  BY <1>1, HandlesStill DEF IInv
<1>4. EndIsLast'
  <2> DEFINE n == Len(ownq)
             q == Append(ownq, ev)
  <2>1. ownq \in Seq(Evs) /\ told \in Seq(Evs) /\ EndIsLast
    BY DEF IInv, Types
  <2>2. /\ n \in Nat /\ Len(q) = n + 1 /\ q[n + 1] = ev
        /\ \A i \in 1 .. n : q[i] = ownq[i]
    BY <2>1, BoxAppend
  <2>3. \A s : ToSet(s) = {s[i] : i \in 1 .. Len(s)}
    BY DEF ToSet
  <2>4. Done.type = "done"
    BY DEF Done, Event
  <2>5. state \notin Over /\ created
    BY <1>1, <2>1 DEF EndIsLast, Over
  <2>6. /\ \A i \in 1 .. n : ownq[i].type # "done"
        /\ \A i \in 1 .. Len(told) : told[i].type # "done"
    BY <2>1, <2>3, <2>5 DEF EndIsLast
  <2> HIDE DEF q, n
  <2>7. \A i \in 1 .. n + 1 : q[i].type = "done" => q[i] = Done /\ i = n + 1 /\ to = "DONE"
    BY <2>2, <2>6
  <2>8. to \notin Over => Done \notin ToSet(q) \union ToSet(told)
    BY <2>2, <2>3, <2>4, <2>6, <2>7 DEF Over
  <2>9. /\ created' = created /\ state' = to /\ ownq' = q /\ told' = told
    BY <1>1 DEF q
  <2>10. /\ ~created' => state' = "TERMINATED"
         /\ state' \notin Over => Done \notin ToSet(ownq') \union ToSet(told')
         /\ state' # "TERMINATED"
    BY <2>5, <2>8, <2>9
  <2>11. /\ \A i \in 1 .. Len(ownq') : ownq'[i].type = "done" => ownq'[i] = Done /\ i = Len(ownq')
         /\ \A i \in 1 .. Len(told') : told'[i].type = "done" =>
               told'[i] = Done /\ i = Len(told') /\ ownq' = <<>>
    BY <2>2, <2>6, <2>7, <2>9
  <2> QED BY <2>10, <2>11 DEF EndIsLast, Done, Event, Over
<1>5. Paired'
  BY <1>1, PairedIs DEF IInv
<1>6. Counted'
  BY <1>1, CountedIs DEF IInv
<1>7. NoneToFreed'
  BY <1>1, NoneStill DEF IInv, Over
<1>8. HearsAll'
  BY <1>1, HearsStill DEF IInv
<1> QED BY <1>2, <1>3, <1>4, <1>5, <1>6, <1>7, <1>8 DEF IInv

(* task_notify_listeners: every listener gets the event and a reference. *)
LEMMA PassOnStep ==
    ASSUME IInv, PassOn
    PROVE  IInv'
<1> USE DEF progVars, listVars, refVars
<1> DEFINE e == Head(ownq)
<1>1. /\ ownq # <<>> /\ ownq' = Tail(ownq) /\ told' = Append(told, e)
      /\ mail' = [l \in Listeners |-> IF l \in ToSet(list) THEN mail[l] \o <<e, Put>> ELSE mail[l]]
      /\ refs' = refs + Len(list)
      /\ UNCHANGED <<state, prog, list, freed, adding, created, leaked, heard, joined, hasty>>
  BY DEF PassOn, Hearers, Taken
<1>2. /\ list \in Seq(Listeners) /\ mail \in [Listeners -> Seq(Msgs)] /\ refs \in Nat /\ leaked \in Nat
      /\ heard \in [Listeners -> Seq(Evs)] /\ joined \in [Listeners -> Nat]
      /\ told \in Seq(Evs) /\ ownq \in Seq(Evs)
  BY DEF IInv, Types, TypeOK
<1>3. /\ ToSet(list) \subseteq Listeners /\ Once(list) /\ ToSet(list) \intersect freed = {}
  BY <1>2 DEF IInv, Handles, Once, ToSet
<1>4. e \in Evs
  BY <1>1, <1>2
<1>5. /\ \A l \in ToSet(list) : mail'[l] = mail[l] \o <<e, Put>>
      /\ \A l \in Listeners \ ToSet(list) : mail'[l] = mail[l]
  BY <1>1, <1>3
<1>6. mail' \in [Listeners -> Seq(Msgs)]
  <2>1. \A l \in Listeners : mail[l] \o <<e, Put>> \in Seq(Msgs)
    BY <1>2, <1>4, BoxPair DEF Msgs, Messages
  <2> HIDE DEF e
  <2> QED BY <1>1, <1>2, <2>1
<1>7. told' \in Seq(Evs) /\ ownq' \in Seq(Evs)
  BY <1>1, <1>2, <1>4
<1>8. EndIsLast'
  <2> DEFINE n == Len(ownq)
             q == Tail(ownq)
             b == Len(told)
             ul == Append(told, e)
  <2>1. EndIsLast
    BY DEF IInv
  <2>2. /\ n \in Nat \ {0} /\ Len(q) = n - 1 /\ e = ownq[1]
        /\ \A i \in 1 .. n - 1 : q[i] = ownq[i + 1]
        /\ q \in Seq(Evs)
    BY <1>1, <1>2, BoxTail
  <2>3. /\ b \in Nat /\ Len(ul) = b + 1 /\ ul[b + 1] = e
        /\ \A i \in 1 .. b : ul[i] = told[i]
    BY <1>2, <1>4, BoxAppend
  <2>4. \A s : ToSet(s) = {s[i] : i \in 1 .. Len(s)}
    BY DEF ToSet
  <2>5. n = 1 => q = <<>>
    <3>1. n = 1 => Len(q) = 0
      BY <2>2
    <3> HIDE DEF q
    <3> QED BY <2>2, <3>1, EmptySeq
  <2>6. /\ \A i \in 1 .. b : told[i].type # "done"
        /\ \A i \in 1 .. n : ownq[i].type = "done" => ownq[i] = Done /\ i = n
    BY <1>1, <2>1 DEF EndIsLast
  <2> HIDE DEF q, n, b, ul, e
  <2>7. \A i \in 1 .. n - 1 : q[i].type = "done" => q[i] = Done /\ i = n - 1
    <3> TAKE i \in 1 .. n - 1
    <3>1. i + 1 \in 1 .. n
      BY <2>2
    <3>2. q[i].type = "done" => q[i] = Done /\ i + 1 = n
      BY <2>2, <2>6, <3>1
    <3> QED BY <2>2, <3>2
  <2>8. \A i \in 1 .. b + 1 : ul[i].type = "done" => ul[i] = Done /\ i = b + 1 /\ q = <<>>
    <3> TAKE i \in 1 .. b + 1
    <3>1. CASE i \in 1 .. b
      BY <2>3, <2>6, <3>1
    <3>2. CASE i = b + 1
      <4>1. 1 \in 1 .. n
        BY <2>2
      <4> QED BY <2>2, <2>3, <2>5, <2>6, <3>2, <4>1
    <3> QED BY <2>3, <3>1, <3>2
  <2>9. ToSet(told) \subseteq ToSet(ul) /\ ToSet(q) \union ToSet(ul) \subseteq ToSet(ownq) \union ToSet(told)
    <3>1. ToSet(told) \subseteq ToSet(ul)
      BY <2>3, <2>4 DEF b
    <3>2. \A i \in 1 .. n - 1 : q[i] \in ToSet(ownq)
      <4> TAKE i \in 1 .. n - 1
      <4>1. i + 1 \in 1 .. n
        BY <2>2
      <4> QED BY <2>2, <2>4, <4>1 DEF n
    <3>3. \A i \in 1 .. b + 1 : ul[i] \in ToSet(ownq) \union ToSet(told)
      <4> TAKE i \in 1 .. b + 1
      <4>1. 1 \in 1 .. n /\ (i \in 1 .. b \/ i = b + 1)
        BY <2>2, <2>3
      <4>2. ul[i] = ownq[1] \/ (i \in 1 .. b /\ ul[i] = told[i])
        BY <2>2, <2>3, <4>1
      <4> QED BY <2>4, <4>1, <4>2 DEF n, b
    <3>4. ToSet(q) = {q[i] : i \in 1 .. n - 1} /\ ToSet(ul) = {ul[i] : i \in 1 .. b + 1}
      BY <2>2, <2>3, <2>4
    <3>5. ToSet(q) \subseteq ToSet(ownq)
      BY <3>2, <3>4
    <3>6. ToSet(ul) \subseteq ToSet(ownq) \union ToSet(told)
      BY <3>3, <3>4
    <3> QED BY <3>1, <3>5, <3>6
  <2>10. created' = created /\ state' = state /\ ownq' = q /\ told' = ul
    BY <1>1 DEF q, ul, e
  <2>11. /\ ~created' => state' = "TERMINATED"
         /\ state' \notin Over => Done \notin ToSet(ownq') \union ToSet(told')
         /\ state' = "TERMINATED" => Done \in ToSet(told')
    BY <2>1, <2>9, <2>10 DEF EndIsLast
  <2>12. /\ \A i \in 1 .. Len(ownq') : ownq'[i].type = "done" => ownq'[i] = Done /\ i = Len(ownq')
         /\ \A i \in 1 .. Len(told') : told'[i].type = "done" =>
               told'[i] = Done /\ i = Len(told') /\ ownq' = <<>>
    BY <2>2, <2>3, <2>7, <2>8, <2>10
  <2> QED BY <2>11, <2>12 DEF EndIsLast, Done, Event, Over
<1> HIDE DEF e
<1>9. Paired'
  <2>1. \A l \in Listeners : PairedIn(mail[l]) /\ mail[l] \in Seq(Msgs)
    BY <1>2, PairedIs DEF IInv
  <2>2. \A l \in Listeners : PairedIn(mail[l] \o <<e, Put>>)
    BY <1>4, <2>1, PairedSteps
  <2> QED BY <1>5, <2>1, <2>2, PairedIs
<1>10. Counted'
  <2>1. Counted
    BY DEF IInv
  <2>2. /\ IsFiniteSet(Tokens(mail))
        /\ refs = (IF created THEN 1 ELSE 0) + Cardinality(Tokens(mail)) + leaked
        /\ refs = 0 => list = <<>>
    BY <2>1, CountedIs
  <2>3. IsFiniteSet(Tokens(mail')) /\ Cardinality(Tokens(mail')) = Cardinality(Tokens(mail)) + Len(list)
    BY <1>2, <1>3, <1>4, <1>5, <2>2, TokensPairs
  <2>4. Cardinality(Tokens(mail)) \in Nat /\ Len(list) \in Nat /\ (Len(list) = 0 => list = <<>>)
    BY <1>2, <2>2, FS_CardinalityType, EmptySeq
  <2>5. /\ refs' = refs + Len(list) /\ created' = created /\ leaked' = leaked /\ list' = list
    BY <1>1
  <2>6. refs' = (IF created' THEN 1 ELSE 0) + Cardinality(Tokens(mail')) + leaked'
    BY <1>2, <2>2, <2>3, <2>4, <2>5
  <2>7. refs' = 0 => list' = <<>>
    BY <1>2, <2>4, <2>5
  <2> QED BY <2>3, <2>6, <2>7, CountedIs
<1>11. Types'
  <2>1. refs' \in Nat
    BY <1>1, <1>2
  <2> QED BY <1>1, <1>6, <1>7, <2>1 DEF IInv, Types, TypeOK
<1>12. Handles'
  BY <1>1, <1>5, HandlesStill DEF IInv
<1>13. NoneToFreed'
  <2>1. \A l \in freed : mail'[l] = mail[l]
    BY <1>3, <1>5 DEF IInv, Types, TypeOK
  <2> QED BY <1>1, <2>1, NoneStill DEF IInv
<1>14. HearsAll'
  <2>1. \A l \in ToSet(list) : Hears(joined[l], heard[l], mail[l], told)
    BY HearsAllIs DEF IInv
  <2>2. \A l \in ToSet(list) : Hears(joined[l], heard[l], mail[l] \o <<e, Put>>, Append(told, e))
    <3> TAKE l \in ToSet(list)
    <3>1. joined[l] \in Nat /\ heard[l] \in Seq(Evs) /\ mail[l] \in Seq(Msgs)
      BY <1>2, <1>3
    <3> QED BY <1>2, <1>4, <2>1, <3>1, HearMore
  <2>3. \A l \in ToSet(list') : Hears(joined'[l], heard'[l], mail'[l], told')
    <3> TAKE l \in ToSet(list')
    <3>1. /\ joined'[l] = joined[l] /\ heard'[l] = heard[l] /\ told' = Append(told, e)
          /\ mail'[l] = mail[l] \o <<e, Put>> /\ l \in ToSet(list)
      BY <1>1, <1>5
    <3> QED BY <2>2, <3>1
  <2> QED BY <2>3, HearsAllIs
<1> QED BY <1>8, <1>9, <1>10, <1>11, <1>12, <1>13, <1>14 DEF IInv

(* The background thread is over; its owner is told. *)
LEMMA TerminateStep ==
    ASSUME IInv, Terminate
    PROVE  IInv'
<1> USE DEF progVars, listVars, refVars
<1>1. /\ state = "DONE" /\ Done \in ToSet(told) /\ state' = "TERMINATED"
      /\ UNCHANGED <<prog, ownq, list, freed, adding, mail, refs, created, leaked, heard, told,
                     joined, hasty>>
  BY DEF Terminate, Done
<1>2. Types'
  BY <1>1 DEF IInv, Types, TypeOK
<1>3. Handles'
  BY <1>1, HandlesStill DEF IInv
<1>4. EndIsLast'
  BY <1>1 DEF IInv, EndIsLast, Over, Done, Event
<1>5. Paired'
  BY <1>1, PairedIs DEF IInv
<1>6. Counted'
  BY <1>1, CountedIs DEF IInv
<1>7. NoneToFreed'
  BY <1>1, NoneStill DEF IInv, Over
<1>8. HearsAll'
  BY <1>1, HearsStill DEF IInv
<1> QED BY <1>2, <1>3, <1>4, <1>5, <1>6, <1>7, <1>8 DEF IInv

------------------------------------------------------------------------------
(* The steps of the listeners and of the creator. *)
LEMMA DropStep ==
    ASSUME IInv, Drop,
           UNCHANGED <<state, prog, ownq, adding, leaked, heard, told, joined, hasty>>,
           created' \in BOOLEAN, created' = created \/ state = "TERMINATED",
           refs = 1 => adding = {}, adding # {} => created',
           mail' \in [Listeners -> Seq(Msgs)], Paired', IsFiniteSet(Tokens(mail')),
           refs' = (IF created' THEN 1 ELSE 0) + Cardinality(Tokens(mail')) + leaked',
           \A l \in Listeners \ (ToSet(list) \union freed) : mail'[l] = <<>>,
           \A k \in Listeners : \A i \in 1 .. Len(mail'[k]) :
              \E j \in 1 .. Len(mail[k]) : mail'[k][i] = mail[k][j],
           \A l \in ToSet(list) : Hears(joined[l], heard[l], mail'[l], told)
    PROVE  IInv'
<1>1. Cardinality(Tokens(mail')) \in Nat /\ leaked \in Nat
  BY FS_CardinalityType DEF IInv, Types, TypeOK
<1>2. refs' \in Nat
  BY <1>1
<1>3. \A l \in Listeners \ (ToSet(list) \union freed) : heard'[l] = <<>> /\ mail'[l] = <<>>
  BY DEF IInv, Handles
<1>4. /\ Handles' /\ list' \in Seq(Listeners) /\ freed' \subseteq Listeners
      /\ ToSet(list') \subseteq ToSet(list)
      /\ refs' = 0 => list' = <<>>
      /\ refs' # 0 => list' = list /\ freed' = freed
  <2>1. Types /\ Handles /\ adding' = adding
    BY DEF IInv
  <2> QED BY <1>2, <1>3, <2>1, DropEffect
<1>5. Types'
  BY <1>2, <1>4 DEF IInv, Types, TypeOK
<1>6. EndIsLast'
  BY EndStill DEF IInv
<1>7. Counted'
  BY <1>4, CountedIs
<1>8. NoneToFreed'
  <2>1. \A l \in freed' \ freed : Len(mail'[l]) = 0
    <3> SUFFICES ASSUME NEW l \in freed' \ freed PROVE mail'[l] = <<>>
      OBVIOUS
    <3>1. refs' = 0 /\ l \in Listeners
      BY <1>4
    <3>2. Cardinality(Tokens(mail')) = 0
      BY <1>1, <3>1
    <3>3. \A k \in Listeners : PairedIn(mail'[k])
      BY PairedIs
    <3> QED BY <3>1, <3>2, <3>3, NothingOwed
  <2>2. \A l \in freed : l \in Listeners
    BY DEF IInv, Types, TypeOK
  <2>3. NoneToFreed /\ hasty' = hasty /\ state' = state
    BY DEF IInv
  <2> QED BY <2>1, <2>2, <2>3, NoneStill
<1>9. HearsAll'
  <2>1. \A l \in ToSet(list') : Hears(joined'[l], heard'[l], mail'[l], told')
    BY <1>4
  <2> QED BY <2>1, HearsAllIs
<1> QED BY <1>4, <1>5, <1>6, <1>7, <1>8, <1>9 DEF IInv

(* The mail of l loses its head, a message: what remains is still heard. *)
LEMMA MessageTaken ==
    ASSUME IInv, NEW l \in Listeners, mail[l] # <<>>, Head(mail[l]) \in Messages,
           mail' = [mail EXCEPT ![l] = Tail(@)]
    PROVE  /\ \A k \in ToSet(list) : Hears(joined[k], heard[k], mail'[k], told)
           /\ \A k \in Listeners \ (ToSet(list) \union freed) : mail'[k] = <<>>
<1>1. /\ list \in Seq(Listeners) /\ mail \in [Listeners -> Seq(Msgs)] /\ told \in Seq(Evs)
      /\ heard \in [Listeners -> Seq(Evs)] /\ joined \in [Listeners -> Nat]
  BY DEF IInv, Types, TypeOK
<1>2. ToSet(list) \subseteq Listeners
  BY <1>1 DEF ToSet
<1>3. \A k \in ToSet(list) : Hears(joined[k], heard[k], mail[k], told)
  BY HearsAllIs DEF IInv
<1>4. mail'[l] = Tail(mail[l]) /\ \A k \in Listeners \ {l} : mail'[k] = mail[k]
  BY <1>1
<1>5. l \in ToSet(list) => Hears(joined[l], heard[l], Tail(mail[l]), told)
  <2>1. mail[l] \in Seq(Msgs) /\ heard[l] \in Seq(Evs) /\ joined[l] \in Nat
    BY <1>1
  <2> QED BY <1>1, <1>3, <2>1, HearMessage
<1>6. \A k \in Listeners \ (ToSet(list) \union freed) : mail[k] = <<>>
  BY DEF IInv, Handles
<1> QED BY <1>2, <1>3, <1>4, <1>5, <1>6

(* Handling a message that drops its reference. *)
LEMMA HearDrops ==
    ASSUME IInv, NEW l \in Listeners, mail[l] # <<>>, Head(mail[l]) \in Messages,
           mail' = [mail EXCEPT ![l] = Tail(@)], Drop,
           UNCHANGED <<state, prog, ownq, adding, created, leaked, heard, told, joined, hasty>>
    PROVE  IInv'
<1>1. Types /\ Paired /\ Counted /\ Handles
  BY DEF IInv
<1>2. /\ mail' \in [Listeners -> Seq(Msgs)] /\ Paired' /\ IsFiniteSet(Tokens(mail'))
      /\ \A k \in Listeners : \A i \in 1 .. Len(mail'[k]) :
            \E j \in 1 .. Len(mail[k]) : mail'[k][i] = mail[k][j]
      /\ Cardinality(Tokens(mail)) > 0
      /\ Cardinality(Tokens(mail')) = Cardinality(Tokens(mail)) - 1
  BY <1>1, MailTaken
<1>3. /\ \A k \in ToSet(list) : Hears(joined[k], heard[k], mail'[k], told)
      /\ \A k \in Listeners \ (ToSet(list) \union freed) : mail'[k] = <<>>
  BY MessageTaken
<1>4. /\ IsFiniteSet(Tokens(mail)) /\ leaked \in Nat /\ created \in BOOLEAN
      /\ refs = (IF created THEN 1 ELSE 0) + Cardinality(Tokens(mail)) + leaked
  BY <1>1, CountedIs DEF Types, TypeOK
<1>5. Cardinality(Tokens(mail)) \in Nat
  BY <1>4, FS_CardinalityType
<1>6. refs' = refs - 1 /\ created' = created /\ leaked' = leaked
  BY DEF Drop
<1>7. refs' = (IF created' THEN 1 ELSE 0) + Cardinality(Tokens(mail')) + leaked'
  BY <1>2, <1>4, <1>5, <1>6
<1>8. refs = 1 => ~created
  BY <1>2, <1>4, <1>5
<1>9. (adding # {} => created') /\ (refs = 1 => adding = {})
  BY <1>1, <1>6, <1>8 DEF Handles
<1>10. created' \in BOOLEAN /\ (created' = created \/ state = "TERMINATED")
  BY <1>4, <1>6
<1> QED BY <1>2, <1>3, <1>7, <1>9, <1>10, DropStep

(* The message that follows every event. *)
LEMMA HearPutStep ==
    ASSUME IInv, NEW l \in Listeners, HearPut(l)
    PROVE  IInv'
BY HearDrops DEF HearPut, progVars, Messages

(* The catch-up of a listener that was added late. *)
LEMMA HearCatchUpStep ==
    ASSUME IInv, NEW l \in Listeners, HearCatchUp(l)
    PROVE  IInv'
<1>1. /\ mail[l] # <<>> /\ Head(mail[l]) \in Messages
      /\ mail' = [mail EXCEPT ![l] = Tail(@)]
      /\ UNCHANGED <<state, prog, ownq, adding, created, heard, told, joined, hasty>>
  BY DEF HearCatchUp, progVars, Messages
<1>2. CASE Running
  BY <1>1, <1>2, HearDrops DEF HearCatchUp
<1>3. CASE ~Running
  <2>1. leaked' = leaked + 1 /\ UNCHANGED <<refs, list, freed>>
    BY <1>3 DEF HearCatchUp
  <2>2. Types /\ Paired /\ Counted /\ Handles /\ NoneToFreed /\ EndIsLast
    BY DEF IInv
  <2>3. /\ mail' \in [Listeners -> Seq(Msgs)] /\ Paired' /\ IsFiniteSet(Tokens(mail'))
        /\ \A k \in Listeners : \A i \in 1 .. Len(mail'[k]) :
              \E j \in 1 .. Len(mail[k]) : mail'[k][i] = mail[k][j]
        /\ Cardinality(Tokens(mail)) > 0
        /\ Cardinality(Tokens(mail')) = Cardinality(Tokens(mail)) - 1
    BY <1>1, <2>2, MailTaken
  <2>4. /\ \A k \in ToSet(list) : Hears(joined[k], heard[k], mail'[k], told)
        /\ \A k \in Listeners \ (ToSet(list) \union freed) : mail'[k] = <<>>
    BY <1>1, MessageTaken
  <2>5. /\ IsFiniteSet(Tokens(mail)) /\ leaked \in Nat
        /\ refs = (IF created THEN 1 ELSE 0) + Cardinality(Tokens(mail)) + leaked
        /\ refs = 0 => list = <<>>
    BY <2>2, CountedIs DEF Types, TypeOK
  <2>6. Cardinality(Tokens(mail)) \in Nat
    BY <2>5, FS_CardinalityType
  <2>7. Counted'
    <3>1. refs' = (IF created' THEN 1 ELSE 0) + Cardinality(Tokens(mail')) + leaked'
      BY <1>1, <2>1, <2>3, <2>5, <2>6
    <3> QED BY <2>1, <2>3, <2>5, <3>1, CountedIs
  <2>8. Types'
    <3>1. /\ UNCHANGED <<state, prog, ownq, adding, created, heard, told, joined, hasty>>
          /\ UNCHANGED <<refs, list, freed>>
      BY <1>1, <2>1
    <3>2. leaked' \in Nat
      BY <2>1, <2>5
    <3> QED BY <2>2, <2>3, <3>1, <3>2 DEF Types, TypeOK
  <2>9. Handles'
    BY <1>1, <2>1, <2>2, <2>4, HandlesStill DEF Handles
  <2>10. EndIsLast'
    BY <1>1, <2>2, EndStill
  <2>11. NoneToFreed'
    <3>1. freed \subseteq Listeners
      BY <2>2 DEF Types, TypeOK
    <3> QED BY <1>1, <2>1, <2>2, <2>3, <3>1, NoneStill
  <2>12. HearsAll'
    <3>1. \A k \in ToSet(list') : Hears(joined'[k], heard'[k], mail'[k], told')
      BY <1>1, <2>1, <2>4
    <3> QED BY <3>1, HearsAllIs
  <2> QED BY <2>3, <2>7, <2>8, <2>9, <2>10, <2>11, <2>12 DEF IInv
<1> QED BY <1>2, <1>3

(* An event reaches its listener. *)
LEMMA HearEventStep ==
    ASSUME IInv, NEW l \in Listeners, HearEvent(l)
    PROVE  IInv'
<1>1. /\ mail[l] # <<>> /\ Head(mail[l]) \notin Messages
      /\ mail' = [mail EXCEPT ![l] = Tail(@)]
      /\ heard' = [heard EXCEPT ![l] = Append(@, Head(mail[l]))]
      /\ UNCHANGED <<state, prog, ownq, list, freed, adding, refs, created, leaked, told, joined, hasty>>
  BY DEF HearEvent, progVars, listVars, refVars, Messages
<1>2. Types /\ Paired /\ Counted /\ Handles /\ NoneToFreed /\ EndIsLast
  BY DEF IInv
<1>3. /\ mail' \in [Listeners -> Seq(Msgs)] /\ Paired' /\ IsFiniteSet(Tokens(mail'))
      /\ mail'[l] = Tail(mail[l]) /\ \A k \in Listeners \ {l} : mail'[k] = mail[k]
      /\ \A k \in Listeners : \A i \in 1 .. Len(mail'[k]) :
            \E j \in 1 .. Len(mail[k]) : mail'[k][i] = mail[k][j]
      /\ Cardinality(Tokens(mail')) = Cardinality(Tokens(mail))
      /\ Head(mail[l]) \in Msgs
  BY <1>1, <1>2, MailTaken
<1>4. /\ list \in Seq(Listeners) /\ mail \in [Listeners -> Seq(Msgs)] /\ told \in Seq(Evs)
      /\ heard \in [Listeners -> Seq(Evs)] /\ joined \in [Listeners -> Nat] /\ freed \subseteq Listeners
  BY <1>2 DEF Types, TypeOK
<1>5. Head(mail[l]) \in Evs
  BY <1>1, <1>3, MessagesAre
<1>6. /\ heard' \in [Listeners -> Seq(Evs)] /\ heard'[l] = Append(heard[l], Head(mail[l]))
      /\ \A k \in Listeners \ {l} : heard'[k] = heard[k]
  BY <1>1, <1>4, <1>5
<1>7. Types'
  BY <1>1, <1>2, <1>3, <1>6 DEF Types, TypeOK
<1>8. Counted'
  BY <1>1, <1>2, <1>3, CountedIs
<1>9. Handles'
  <2>1. l \in ToSet(list) \union freed
    BY <1>1, <1>2 DEF Handles
  <2> QED BY <1>1, <1>2, <1>3, <1>6, <2>1, HandlesStill
<1>10. EndIsLast'
  BY <1>1, <1>2, EndStill
<1>11. NoneToFreed'
  BY <1>1, <1>2, <1>3, <1>4, NoneStill
<1>12. HearsAll'
  <2>1. \A k \in ToSet(list) : Hears(joined[k], heard[k], mail[k], told) /\ k \in Listeners
    <3>1. ToSet(list) \subseteq Listeners
      BY <1>4 DEF ToSet
    <3> QED BY <3>1, HearsAllIs DEF IInv
  <2>2. l \in ToSet(list) => Hears(joined[l], Append(heard[l], Head(mail[l])), Tail(mail[l]), told)
    <3>1. mail[l] \in Seq(Msgs) /\ heard[l] \in Seq(Evs) /\ joined[l] \in Nat
      BY <1>4
    <3> QED BY <1>1, <1>4, <2>1, <3>1, HearOne
  <2>3. \A k \in ToSet(list') : Hears(joined'[k], heard'[k], mail'[k], told')
    <3> TAKE k \in ToSet(list')
    <3>1. k \in ToSet(list) /\ joined' = joined /\ told' = told
      BY <1>1
    <3>2. CASE k = l
      BY <1>3, <1>6, <2>2, <3>1, <3>2
    <3>3. CASE k # l
      BY <1>3, <1>6, <2>1, <3>1, <3>3
    <3> QED BY <3>2, <3>3
  <2> QED BY <2>3, HearsAllIs
<1> QED BY <1>3, <1>7, <1>8, <1>9, <1>10, <1>11, <1>12 DEF IInv

(* ytask_destroy gives up the creator's reference. *)
LEMMA DestroyStep ==
    ASSUME IInv, Destroy
    PROVE  IInv'
<1>1. /\ created /\ adding = {} /\ state = "TERMINATED" /\ created' = FALSE /\ Drop
      /\ UNCHANGED <<state, prog, ownq, adding, mail, leaked, heard, told, joined, hasty>>
  BY DEF Destroy, progVars
<1>2. Types /\ Paired /\ Counted /\ Handles
  BY DEF IInv
<1>3. mail' = mail /\ mail' \in [Listeners -> Seq(Msgs)] /\ leaked \in Nat
  BY <1>1, <1>2 DEF Types, TypeOK
<1>4. Paired'
  BY <1>2, <1>3, PairedIs
<1>5. IsFiniteSet(Tokens(mail)) /\ refs = 1 + Cardinality(Tokens(mail)) + leaked
  BY <1>1, <1>2, CountedIs
<1>6. Cardinality(Tokens(mail)) \in Nat
  BY <1>5, FS_CardinalityType
<1>7. /\ IsFiniteSet(Tokens(mail'))
      /\ refs' = (IF created' THEN 1 ELSE 0) + Cardinality(Tokens(mail')) + leaked'
  BY <1>1, <1>3, <1>5, <1>6 DEF Drop
<1>8. \A l \in Listeners \ (ToSet(list) \union freed) : mail'[l] = <<>>
  BY <1>2, <1>3 DEF Handles
<1>9. \A l \in ToSet(list) : Hears(joined[l], heard[l], mail'[l], told)
  BY <1>3, HearsAllIs DEF IInv
<1> QED BY <1>1, <1>3, <1>4, <1>7, <1>8, <1>9, DropStep

(* ytask_add_event_listener links the handle ... *)
LEMMA AddListStep ==
    ASSUME IInv, NEW l \in Listeners, AddList(l)
    PROVE  IInv'
<1>1. /\ created /\ l \notin ToSet(list) /\ l \notin freed
      /\ list' = Append(list, l) /\ adding' = adding \union {l}
      /\ joined' = [joined EXCEPT ![l] = Len(told)]
      /\ UNCHANGED <<state, prog, ownq, freed, mail, refs, created, leaked, heard, told, hasty>>
  BY DEF AddList, progVars, refVars
<1>2. Types /\ Paired /\ Counted /\ Handles /\ NoneToFreed /\ EndIsLast
  BY DEF IInv
<1>3. /\ list \in Seq(Listeners) /\ told \in Seq(Evs) /\ joined \in [Listeners -> Nat]
      /\ mail \in [Listeners -> Seq(Msgs)] /\ leaked \in Nat /\ refs \in Nat
  BY <1>2 DEF Types, TypeOK
<1>4. Once(list)
  BY <1>2 DEF Handles, Once
<1>5. list' \in Seq(Listeners) /\ ToSet(list') = ToSet(list) \union {l} /\ Once(list')
  BY <1>1, <1>3, <1>4, ListAppend
<1>6. Len(told) \in Nat
  BY <1>3
<1>7. joined' \in [Listeners -> Nat] /\ joined'[l] = Len(told)
      /\ \A k \in Listeners \ {l} : joined'[k] = joined[k]
  BY <1>1, <1>3, <1>6
<1>8. Types'
  BY <1>1, <1>2, <1>5, <1>7 DEF Types, TypeOK
<1>9. Handles'
  <2>1. \A i, j \in 1 .. Len(list') : list'[i] = list'[j] => i = j
    BY <1>5 DEF Once
  <2> QED BY <1>1, <1>2, <1>5, <2>1 DEF Handles
<1>10. EndIsLast'
  BY <1>1, <1>2, EndStill
<1>11. Paired'
  BY <1>1, <1>2, PairedIs
<1>12. Counted'
  <2>1. /\ IsFiniteSet(Tokens(mail))
        /\ refs = (IF created THEN 1 ELSE 0) + Cardinality(Tokens(mail)) + leaked
    BY <1>2, CountedIs
  <2>2. Cardinality(Tokens(mail)) \in Nat
    BY <2>1, FS_CardinalityType
  <2>3. refs # 0
    BY <1>1, <1>3, <2>1, <2>2
  <2> QED BY <1>1, <2>1, <2>3, CountedIs
<1>13. NoneToFreed'
  BY <1>1, <1>2, NoneStill
<1>14. HearsAll'
  <2>1. heard[l] = <<>> /\ mail[l] = <<>>
    BY <1>1, <1>2 DEF Handles
  <2>2. Hears(Len(told), <<>>, <<>>, told)
    BY <1>3, HearNothing
  <2>3. \A k \in ToSet(list) : Hears(joined[k], heard[k], mail[k], told) /\ k \in Listeners
    <3>1. ToSet(list) \subseteq Listeners
      BY <1>3 DEF ToSet
    <3> QED BY <3>1, HearsAllIs DEF IInv
  <2>4. \A k \in ToSet(list') : Hears(joined'[k], heard'[k], mail'[k], told')
    <3> TAKE k \in ToSet(list')
    <3>1. mail' = mail /\ heard' = heard /\ told' = told
      BY <1>1
    <3>2. CASE k = l
      BY <1>7, <2>1, <2>2, <3>1, <3>2
    <3>3. CASE k # l
      BY <1>5, <1>7, <2>3, <3>1, <3>3
    <3> QED BY <3>2, <3>3
  <2> QED BY <2>4, HearsAllIs
<1> QED BY <1>8, <1>9, <1>10, <1>11, <1>12, <1>13, <1>14 DEF IInv

(* ... and posts the catch-up. *)
LEMMA AddCatchUpStep ==
    ASSUME IInv, NEW l \in Listeners, AddCatchUp(l)
    PROVE  IInv'
<1>1. /\ l \in adding /\ adding' = adding \ {l}
      /\ UNCHANGED <<state, prog, ownq, list, freed, created, leaked, heard, told, joined, hasty>>
  BY DEF AddCatchUp, progVars
<1>2. Types /\ Paired /\ Counted /\ Handles /\ NoneToFreed /\ EndIsLast /\ HearsAll
  BY DEF IInv
<1>3. l \in ToSet(list) /\ l \notin freed /\ freed \subseteq Listeners
  BY <1>1, <1>2 DEF Handles, Types, TypeOK
<1>4. EndIsLast'
  BY <1>1, <1>2, EndStill
<1>5. CASE UNCHANGED <<mail, refs>>
  <2>1. Types'
    BY <1>1, <1>2, <1>5 DEF Types, TypeOK
  <2>2. Handles'
    BY <1>1, <1>2, <1>5, HandlesStill
  <2>3. Paired'
    BY <1>2, <1>5, PairedIs
  <2>4. Counted'
    BY <1>1, <1>2, <1>5, CountedIs
  <2>5. NoneToFreed'
    BY <1>1, <1>2, <1>5, NoneStill
  <2>6. HearsAll'
    BY <1>1, <1>2, <1>5, HearsStill
  <2> QED BY <1>4, <2>1, <2>2, <2>3, <2>4, <2>5, <2>6 DEF IInv
<1>6. CASE mail' = [mail EXCEPT ![l] = Append(@, Catch)] /\ refs' = refs + 1
  <2>1. /\ mail \in [Listeners -> Seq(Msgs)] /\ Catch \in Messages /\ Catch \in Msgs
        /\ refs \in Nat /\ leaked \in Nat
    BY <1>2 DEF Types, TypeOK, Messages, Msgs
  <2>2. /\ mail' \in [Listeners -> Seq(Msgs)] /\ mail'[l] = Append(mail[l], Catch)
        /\ \A k \in Listeners \ {l} : mail'[k] = mail[k]
    <3>1. Append(mail[l], Catch) \in Seq(Msgs)
      BY <2>1, BoxAppend
    <3> QED BY <1>6, <2>1, <3>1
  <2>3. Types'
    <3>1. refs' \in Nat
      BY <1>6, <2>1
    <3> QED BY <1>1, <1>2, <2>2, <3>1 DEF Types, TypeOK
  <2>4. Handles'
    BY <1>1, <1>2, <1>3, <2>2, HandlesStill
  <2>5. Paired'
    <3>1. \A k \in Listeners : PairedIn(mail[k]) /\ mail[k] \in Seq(Msgs)
      BY <1>2, <2>1, PairedIs
    <3>2. PairedIn(Append(mail[l], Catch))
      BY <2>1, <3>1, PairedSteps
    <3> QED BY <2>2, <3>1, <3>2, PairedIs
  <2>6. Counted'
    <3>1. /\ IsFiniteSet(Tokens(mail))
          /\ refs = (IF created THEN 1 ELSE 0) + Cardinality(Tokens(mail)) + leaked
      BY <1>2, CountedIs
    <3>2. Cardinality(Tokens(mail)) \in Nat
      BY <3>1, FS_CardinalityType
    <3>3. IsFiniteSet(Tokens(mail')) /\ Cardinality(Tokens(mail')) = Cardinality(Tokens(mail)) + 1
      BY <2>1, <2>2, <3>1, TokensAppend
    <3>4. refs' = refs + 1 /\ created' = created /\ leaked' = leaked
      BY <1>1, <1>6
    <3>5. refs' = (IF created' THEN 1 ELSE 0) + Cardinality(Tokens(mail')) + leaked'
      BY <2>1, <3>1, <3>2, <3>3, <3>4
    <3>6. refs' # 0
      BY <2>1, <3>4
    <3> QED BY <3>3, <3>5, <3>6, CountedIs
  <2>7. NoneToFreed'
    <3>1. \A k \in freed : mail'[k] = mail[k]
      BY <1>3, <2>2
    <3> QED BY <1>1, <1>2, <3>1, NoneStill
  <2>8. HearsAll'
    <3>1. /\ ToSet(list) \subseteq Listeners
          /\ \A k \in ToSet(list) : Hears(joined[k], heard[k], mail[k], told)
      <4>1. list \in Seq(Listeners)
        BY <1>2 DEF Types, TypeOK
      <4> QED BY <1>2, <4>1, HearsAllIs DEF ToSet
    <3>2. Hears(joined[l], heard[l], Append(mail[l], Catch), told)
      <4>1. mail[l] \in Seq(Msgs)
        BY <2>1
      <4> QED BY <1>3, <2>1, <3>1, <4>1, HearNew
    <3>3. \A k \in ToSet(list') : Hears(joined'[k], heard'[k], mail'[k], told')
      BY <1>1, <2>2, <3>1, <3>2
    <3> QED BY <3>3, HearsAllIs
  <2> QED BY <1>4, <2>3, <2>4, <2>5, <2>6, <2>7, <2>8 DEF IInv
<1> QED BY <1>5, <1>6 DEF AddCatchUp

(* A handle is unlinked and freed. *)
LEMMA UnlistStep ==
    ASSUME IInv, NEW l \in ToSet(list) \ adding, Unlist(l),
           hasty \subseteq hasty', hasty' \subseteq hasty \union {l},
           l \notin hasty' => \A i \in 1 .. Len(mail[l]) :
              mail[l][i] = Put \/ (mail[l][i] = Catch /\ state \in Over)
    PROVE  IInv'
<1>1. /\ list' = RemoveFirst(list, l) /\ freed' = freed \union {l}
      /\ UNCHANGED <<state, prog, ownq, adding, mail, refs, created, leaked, heard, told, joined>>
  BY DEF Unlist, progVars, refVars
<1>2. Types /\ Paired /\ Counted /\ Handles /\ NoneToFreed /\ EndIsLast /\ HearsAll
  BY DEF IInv
<1>3. list \in Seq(Listeners) /\ Once(list)
  BY <1>2 DEF Types, TypeOK, Handles, Once
<1>4. ToSet(list) \subseteq Listeners
  BY <1>3 DEF ToSet
<1>5. list' \in Seq(Listeners) /\ ToSet(list') = ToSet(list) \ {l} /\ Once(list')
  BY <1>1, <1>3, ListRemove
<1>6. Types'
  BY <1>1, <1>2, <1>4, <1>5 DEF Types, TypeOK
<1>7. Handles'
  <2>1. \A i, j \in 1 .. Len(list') : list'[i] = list'[j] => i = j
    BY <1>5 DEF Once
  <2> QED BY <1>1, <1>2, <1>5, <2>1 DEF Handles
<1>8. EndIsLast'
  BY <1>1, <1>2, EndStill
<1>9. Paired'
  BY <1>1, <1>2, PairedIs
<1>10. Counted'
  <2>1. list = <<>> => FALSE
    BY DEF ToSet
  <2> QED BY <1>1, <1>2, <2>1, CountedIs
<1>11. NoneToFreed'
  <2>1. NoneToFreed' <=> \A k \in freed' \ hasty' : \A i \in 1 .. Len(mail'[k]) :
            mail'[k][i] = Put \/ (mail'[k][i] = Catch /\ state' \in Over)
    BY DEF NoneToFreed, Put, Catch, Event, Over
  <2>2. ASSUME NEW k \in freed' \ hasty', NEW i \in 1 .. Len(mail[k])
        PROVE  mail[k][i] = Put \/ (mail[k][i] = Catch /\ state \in Over)
    <3>1. CASE k = l
      BY <2>2, <3>1
    <3>2. CASE k # l
      <4>1. k \in freed \ hasty
        BY <1>1, <3>2
      <4> QED BY <1>2, <4>1 DEF NoneToFreed
    <3> QED BY <3>1, <3>2
  <2>3. mail' = mail /\ state' = state
    BY <1>1
  <2> QED BY <2>1, <2>2, <2>3
<1>12. HearsAll'
  BY <1>1, <1>2, <1>5, HearsStill
<1> QED BY <1>6, <1>7, <1>8, <1>9, <1>10, <1>11, <1>12 DEF IInv

(* The listener removes itself when it hears the end, *)
LEMMA RemoveAtEndStep ==
    ASSUME IInv, NEW l \in Listeners, RemoveAtEnd(l)
    PROVE  IInv'
<1>1. /\ l \in ToSet(list) \ adding /\ heard[l] # <<>> /\ Last(heard[l]).type = "done"
      /\ Unlist(l) /\ hasty' = hasty
  BY DEF RemoveAtEnd
<1>2. mail[l] \in Seq(Msgs) /\ heard[l] \in Seq(Evs) /\ joined[l] \in Nat /\ told \in Seq(Evs)
  BY DEF IInv, Types
<1>3. Hears(joined[l], heard[l], mail[l], told)
  BY <1>1, HearsAllIs DEF IInv
<1>4. \A i \in 1 .. Len(told) : told[i].type = "done" => told[i] = Done /\ i = Len(told)
  BY DEF IInv, EndIsLast
<1>5. told # <<>> /\ told[Len(told)].type = "done" /\ \A i \in 1 .. Len(mail[l]) : mail[l][i] \in Messages
  BY <1>1, <1>2, <1>3, <1>4, HeardTheEnd
<1>6. Done \in ToSet(told)
  <2>1. Len(told) \in 1 .. Len(told)
    BY <1>2, <1>5, EmptySeq
  <2> QED BY <1>4, <1>5, <2>1 DEF ToSet
<1>7. state \in Over
  BY <1>6 DEF IInv, EndIsLast
<1>8. \A i \in 1 .. Len(mail[l]) :
         mail[l][i] = Put \/ (mail[l][i] = Catch /\ state \in Over)
  BY <1>5, <1>7 DEF Messages
<1> QED BY <1>1, <1>8, UnlistStep

(* or somebody removes it before. *)
LEMMA RemoveEarlyStep ==
    ASSUME IInv, NEW l \in Listeners, RemoveEarly(l)
    PROVE  IInv'
<1>1. l \in ToSet(list) \ adding /\ Unlist(l) /\ hasty' = hasty \union {l}
  BY DEF RemoveEarly
<1> QED BY <1>1, UnlistStep

(* A step of somebody else. *)
LEMMA StutterStep ==
    ASSUME IInv, UNCHANGED vars
    PROVE  IInv'
<1>1. UNCHANGED <<state, prog, ownq, list, freed, adding, mail, refs, created, leaked, heard, told,
                  joined, hasty>>
  BY DEF vars
<1>2. Types /\ Paired /\ Counted /\ Handles /\ NoneToFreed /\ EndIsLast /\ HearsAll
  BY DEF IInv
<1>3. Types'
  BY <1>1, <1>2 DEF Types, TypeOK
<1>4. Handles'
  BY <1>1, <1>2, HandlesStill
<1>5. EndIsLast'
  BY <1>1, <1>2, EndStill
<1>6. Paired'
  BY <1>1, <1>2, PairedIs
<1>7. Counted'
  BY <1>1, <1>2, CountedIs
<1>8. NoneToFreed'
  BY <1>1, <1>2, NoneStill
<1>9. HearsAll'
  BY <1>1, <1>2, HearsStill
<1> QED BY <1>3, <1>4, <1>5, <1>6, <1>7, <1>8, <1>9 DEF IInv

------------------------------------------------------------------------------
(* ytask_create establishes the invariant, *)
LEMMA Initially ==
    ASSUME Init
    PROVE  IInv
<1>1. Types
  BY TaskEventsAssumption DEF Init, Types, TypeOK
<1>2. Handles
  BY DEF Init, Handles, ToSet
<1>3. EndIsLast
  BY DEF Init, EndIsLast, ToSet, Over
<1>4. Paired
  BY DEF Init, Paired
<1>5. Counted
  <2>1. \A t \in Tokens(mail) : FALSE
    BY TokensAre DEF Init
  <2>2. IsFiniteSet(Tokens(mail)) /\ Cardinality(Tokens(mail)) = 0
    BY <2>1, FS_EmptySet
  <2> QED BY <2>2, CountedIs DEF Init
<1>6. NoneToFreed
  BY DEF Init, NoneToFreed
<1>7. HearsAll
  BY HearsAllIs DEF Init, ToSet
<1> QED BY <1>1, <1>2, <1>3, <1>4, <1>5, <1>6, <1>7 DEF IInv

(* ... every step keeps it, *)
LEMMA Preserved ==
    ASSUME IInv, [Next]_vars
    PROVE  IInv'
<1>1. MaxProg \in Nat \ {0}
  BY TaskEventsAssumption
<1>2. prog \in -1 .. MaxProg
  BY DEF IInv, Types, TypeOK
<1>3. CASE Start
  <2>1. Event("started", 0) \in Evs /\ Event("started", 0).type # "done"
    BY DEF Event, Evs, Kinds
  <2> QED BY <1>2, <1>3, <2>1, SayStep DEF Start
<1>4. CASE PublishInit
  <2>1. /\ Event("progress_init", MaxProg) \in Evs
        /\ Event("progress_init", MaxProg).type # "done"
        /\ 0 \in -1 .. MaxProg
    BY <1>1 DEF Event, Evs, Kinds
  <2> QED BY <1>4, <2>1, SayStep DEF PublishInit
<1>5. CASE Publish
  <2>1. PICK p \in 1 .. MaxProg : Say("STARTED", "STARTED", p, Event("progress", p))
    BY <1>5 DEF Publish
  <2>2. /\ Event("progress", p) \in Evs /\ Event("progress", p).type # "done"
        /\ p \in -1 .. MaxProg
    BY <1>1 DEF Event, Evs, Kinds
  <2> QED BY <2>1, <2>2, SayStep
<1>6. CASE Ends
  <2>1. Event("done", 0) \in Evs /\ Event("done", 0) = Done
    BY DEF Event, Evs, Kinds, Done
  <2> QED BY <1>2, <1>6, <2>1, SayStep DEF Ends
<1>7. CASE PassOn
  BY <1>7, PassOnStep
<1>8. CASE Terminate
  BY <1>8, TerminateStep
<1>9. CASE Destroy
  BY <1>9, DestroyStep
<1>10. ASSUME NEW l \in Listeners,
              AddList(l) \/ AddCatchUp(l) \/ Hear(l) \/ RemoveAtEnd(l) \/ RemoveEarly(l)
       PROVE  IInv'
  BY <1>10, AddListStep, AddCatchUpStep, HearPutStep, HearEventStep, HearCatchUpStep,
     RemoveAtEndStep, RemoveEarlyStep DEF Hear
<1>11. CASE UNCHANGED vars
  BY <1>11, StutterStep
<1> QED BY <1>3, <1>4, <1>5, <1>6, <1>7, <1>8, <1>9, <1>10, <1>11 DEF Next

(* The inductive invariant holds always: the books of the references, of   *)
(* the handles and of the events agree after every step of task.c.         *)
THEOREM Inductive == Spec => []IInv
<1>1. Init => IInv
  BY Initially
<1>2. IInv /\ [Next]_vars => IInv'
  BY Preserved
<1> QED BY <1>1, <1>2, PTL DEF Spec

(* ... and it contains what is promised of lifetimes. *)
LEMMA LifetimeFollows ==
    ASSUME IInv
    PROVE  Lifetime
<1>1. TypeOK
  BY DEF IInv, Types
<1>2. RefsAccounted
  <2>1. /\ IsFiniteSet(Tokens(mail)) /\ leaked \in Nat /\ created \in BOOLEAN
        /\ refs = (IF created THEN 1 ELSE 0) + Cardinality(Tokens(mail)) + leaked
        /\ refs = 0 => list = <<>>
    BY <1>1, CountedIs DEF IInv, TypeOK
  <2>2. Cardinality(Tokens(mail)) \in Nat
    BY <2>1, FS_CardinalityType
  <2>3. refs = 0 => ~created /\ Cardinality(Tokens(mail)) = 0
    BY <2>1, <2>2
  <2>4. ~created => ownq = <<>>
    <3>1. ~created => Done \in ToSet(told)
      BY DEF IInv, EndIsLast
    <3>2. Done \in ToSet(told) => \E i \in 1 .. Len(told) : told[i].type = "done"
      BY DEF ToSet, Done, Event
    <3> QED BY <3>1, <3>2 DEF IInv, EndIsLast
  <2>5. Cardinality(Tokens(mail)) = 0 => \A l \in Listeners : mail[l] = <<>>
    <3>1. mail \in [Listeners -> Seq(Msgs)] /\ \A l \in Listeners : PairedIn(mail[l])
      BY PairedIs DEF IInv, Types
    <3> QED BY <2>1, <3>1, NothingOwed
  <2> QED BY <2>1, <2>3, <2>4, <2>5, OwingIs DEF RefsAccounted
<1>3. HandleAlive
  BY DEF IInv, NoneToFreed, HandleAlive, Running, Over
<1> QED BY <1>1, <1>2, <1>3 DEF Lifetime

(* task.c, gp.c: every reference of a task has one owner, a task that was  *)
(* freed has no message left that leads to it, and no event finds a handle *)
(* that was freed, unless it was removed before the end was heard.         *)
THEOREM EventsOutliveNothing == Spec => []Lifetime
BY Inductive, LifetimeFollows, PTL

(* task.c, listener_stmt: each listener hears all events since it was      *)
(* listed, in the order in which the owner passed them on, none twice.     *)
THEOREM ListenersHearAll == Spec => []HearsAll
<1>1. IInv => HearsAll
  BY DEF IInv
<1> QED BY <1>1, Inductive, PTL

-----------------------------------------------------------------------------
(* User tags. *)
CallTypes ==
    {Idle}
      \union [op : {"add"}, name : Names, yo : Yos]
      \union [op : {"get"}, yo : Yos, asked : Tags]
      \union [op : {"got"}, asked : Tags, got : Tags \union {None}]

TagTypes ==
    /\ tagmap \in [Names -> Yos \union {None}]
    /\ tag \in [Yos -> Tags \union {None}]
    /\ spare \subseteq Yos
    /\ fate \in [Tags -> {"client", "held", "freed"}]
    /\ calls \in [Callers -> CallTypes]

(* What a name of the map, and what an adder, has. *)
NameHas(k, t) == tagmap[k] # None /\ tag[tagmap[k]] = t
AdderHas(c, t) == calls[c].op = "add" /\ tag[calls[c].yo] = t

(* An object that somebody has holds a tag, and is not spare. *)
InUseIsHeld ==
    /\ \A k \in Names : tagmap[k] # None =>
         /\ tagmap[k] \notin spare /\ tag[tagmap[k]] \in Tags
         /\ fate[tag[tagmap[k]]] = "held"
    /\ \A c \in Callers : calls[c].op = "add" =>
         /\ calls[c].yo \notin spare /\ tag[calls[c].yo] \in Tags
         /\ fate[tag[calls[c].yo]] = "held"

(* No tag is had twice, and every tag that is held somebody has. *)
HadOnce ==
    /\ \A k, l \in Names : \A t \in Tags : NameHas(k, t) /\ NameHas(l, t) => k = l
    /\ \A c, d \in Callers : \A t \in Tags : AdderHas(c, t) /\ AdderHas(d, t) => c = d
    /\ \A k \in Names, c \in Callers : \A t \in Tags : ~(NameHas(k, t) /\ AdderHas(c, t))
HeldIsHad ==
    \A t \in Tags : fate[t] = "held" =>
      (\E k \in Names : NameHas(k, t)) \/ (\E c \in Callers : AdderHas(c, t))

(* The object of a get still is what it was found to be, or its tag was     *)
(* freed.                                                                   *)
GetsSeeTags ==
    \A c \in Callers :
      /\ calls[c].op = "get" =>
           \/ fate[calls[c].asked] = "freed"
           \/ \E k \in Names : tagmap[k] = calls[c].yo /\ tag[calls[c].yo] = calls[c].asked
      /\ calls[c].op = "got" =>
           calls[c].got = calls[c].asked \/ fate[calls[c].asked] = "freed"

TagsInv == TagTypes /\ InUseIsHeld /\ HadOnce /\ HeldIsHad /\ GetsSeeTags

(* What the calls are of. *)
LEMMA CallFields ==
    ASSUME TagTypes, NEW c \in Callers
    PROVE  /\ calls[c].op = "add" => calls[c].name \in Names /\ calls[c].yo \in Yos
           /\ calls[c].op = "get" => calls[c].yo \in Yos /\ calls[c].asked \in Tags
           /\ calls[c].op = "got" => calls[c].asked \in Tags
           /\ calls[c] = Idle => calls[c].op \notin {"add", "get", "got"}
<1>1. calls[c] \in CallTypes
  BY DEF TagTypes
<1> QED BY <1>1 DEF CallTypes, Idle

(* task.c: a caller that names a tag begins with the tag in its own hands.  *)
LEMMA AddTagKeeps ==
    ASSUME TagsAssumption, TagsInv,
           NEW c \in Callers, NEW k \in Names, NEW t \in Tags, AddTag(c, k, t)
    PROVE  TagsInv'
<1> DEFINE call(y) == [op |-> "add", name |-> k, yo |-> y]
<1>1. PICK y \in spare :
           /\ tag' = [tag EXCEPT ![y] = t]
           /\ spare' = spare \ {y}
           /\ calls' = [calls EXCEPT ![c] = call(y)]
  BY DEF AddTag
<1>2. /\ calls[c] = Idle /\ fate[t] = "client"
      /\ fate' = [fate EXCEPT ![t] = "held"] /\ tagmap' = tagmap
  BY DEF AddTag
<1>3. /\ tagmap \in [Names -> Yos \union {None}]
      /\ tag \in [Yos -> Tags \union {None}]
      /\ spare \subseteq Yos /\ y \in Yos
      /\ fate \in [Tags -> {"client", "held", "freed"}]
      /\ calls \in [Callers -> CallTypes]
  BY <1>1 DEF TagsInv, TagTypes
<1>4. call(y) \in CallTypes
  BY <1>3 DEF CallTypes
<1>5. /\ calls'[c] = call(y) /\ \A d \in Callers \ {c} : calls'[d] = calls[d]
      /\ tag'[y] = t /\ \A z \in Yos \ {y} : tag'[z] = tag[z]
      /\ fate'[t] = "held" /\ \A u \in Tags \ {t} : fate'[u] = fate[u]
  BY <1>1, <1>2, <1>3
<1>6. TagTypes'
  <2>1. calls' \in [Callers -> CallTypes]
    BY <1>1, <1>3, <1>4
  <2>2. /\ tag' \in [Yos -> Tags \union {None}] /\ spare' \subseteq Yos
        /\ fate' \in [Tags -> {"client", "held", "freed"}]
    BY <1>1, <1>2, <1>3
  <2> QED BY <2>1, <2>2, <1>2, <1>3 DEF TagTypes
<1>7. call(y).op = "add" /\ call(y).yo = y
  OBVIOUS
<1> HIDE DEF call
<1>8. \A l \in Names : tagmap[l] # None =>
        tagmap[l] \in Yos \ {y} /\ tag'[tagmap[l]] = tag[tagmap[l]]
        /\ tag[tagmap[l]] \in Tags \ {t}
  BY <1>1, <1>2, <1>3, <1>5 DEF TagsInv, InUseIsHeld
<1>9. \A d \in Callers : calls[d].op = "add" =>
        /\ d # c /\ calls[d].yo \in Yos \ {y} /\ tag'[calls[d].yo] = tag[calls[d].yo]
        /\ tag[calls[d].yo] \in Tags \ {t}
  <2> SUFFICES ASSUME NEW d \in Callers, calls[d].op = "add"
               PROVE  /\ d # c /\ calls[d].yo \in Yos \ {y}
                      /\ tag'[calls[d].yo] = tag[calls[d].yo]
                      /\ tag[calls[d].yo] \in Tags \ {t}
    OBVIOUS
  <2>1. d # c /\ calls[d].yo \in Yos
    BY <1>2, CallFields DEF TagsInv
  <2> QED BY <2>1, <1>1, <1>2, <1>5 DEF TagsInv, InUseIsHeld
<1>10. \A l \in Names : \A u \in Tags : NameHas(l, u)' <=> NameHas(l, u)
  BY <1>2, <1>8 DEF NameHas
<1>11. \A d \in Callers : \A u \in Tags :
         AdderHas(d, u)' <=> IF d = c THEN u = t ELSE AdderHas(d, u)
  BY <1>5, <1>7, <1>9 DEF AdderHas
<1>12. /\ \A l \in Names : ~NameHas(l, t)
       /\ \A d \in Callers : ~AdderHas(d, t)
  BY <1>8, <1>9 DEF NameHas, AdderHas
<1>13. \A u \in Tags : ~AdderHas(c, u)
  BY <1>9 DEF AdderHas
<1>14. InUseIsHeld'
  <2>1. ASSUME NEW l \in Names, tagmap'[l] # None
        PROVE  tagmap'[l] \notin spare' /\ tag'[tagmap'[l]] \in Tags
               /\ fate'[tag'[tagmap'[l]]] = "held"
    BY <2>1, <1>1, <1>2, <1>5, <1>8 DEF TagsInv, InUseIsHeld
  <2>2. ASSUME NEW d \in Callers, calls'[d].op = "add"
        PROVE  calls'[d].yo \notin spare' /\ tag'[calls'[d].yo] \in Tags
               /\ fate'[tag'[calls'[d].yo]] = "held"
    <3>1. CASE d = c
      BY <3>1, <1>1, <1>5, <1>7
    <3>2. CASE d # c
      BY <3>2, <2>2, <1>1, <1>5, <1>9 DEF TagsInv, InUseIsHeld
    <3> QED BY <3>1, <3>2
  <2> QED BY <2>1, <2>2 DEF InUseIsHeld
<1>15. HadOnce'
  <2>1. \A l, m \in Names : \A u \in Tags : NameHas(l, u)' /\ NameHas(m, u)' => l = m
    BY <1>10 DEF TagsInv, HadOnce
  <2>2. \A d, e \in Callers : \A u \in Tags : AdderHas(d, u)' /\ AdderHas(e, u)' => d = e
    BY <1>11, <1>12 DEF TagsInv, HadOnce
  <2>3. \A l \in Names, d \in Callers : \A u \in Tags : ~(NameHas(l, u)' /\ AdderHas(d, u)')
    BY <1>10, <1>11, <1>12 DEF TagsInv, HadOnce
  <2> QED BY <2>1, <2>2, <2>3 DEF HadOnce
<1>16. HeldIsHad'
  <2> SUFFICES ASSUME NEW u \in Tags, fate'[u] = "held"
               PROVE  \/ \E l \in Names : NameHas(l, u)'
                      \/ \E d \in Callers : AdderHas(d, u)'
    BY DEF HeldIsHad
  <2>1. CASE u = t
    BY <2>1, <1>11
  <2>2. CASE u # t
    BY <2>2, <1>5, <1>10, <1>11, <1>13 DEF TagsInv, HeldIsHad
  <2> QED BY <2>1, <2>2
<1>17. GetsSeeTags'
  <2>1. ASSUME NEW d \in Callers, calls'[d].op = "get"
        PROVE  \/ fate'[calls'[d].asked] = "freed"
               \/ /\ tag'[calls'[d].yo] = calls'[d].asked
                  /\ \E l \in Names : tagmap'[l] = calls'[d].yo
    <3>1. d # c /\ calls'[d] = calls[d]
      BY <2>1, <1>5, <1>7
    <3>2. calls[d].asked \in Tags /\ calls[d].op = "get"
      BY <3>1, <2>1, CallFields DEF TagsInv
    <3>3. CASE fate[calls[d].asked] = "freed"
      BY <3>1, <3>2, <3>3, <1>2, <1>5
    <3>4. ASSUME NEW l \in Names, tagmap[l] = calls[d].yo, tag[calls[d].yo] = calls[d].asked
          PROVE  tagmap'[l] = calls'[d].yo /\ tag'[calls'[d].yo] = calls'[d].asked
      <4>1. calls[d].yo # None
        BY <3>2, CallFields DEF TagsInv, TagsAssumption
      <4> QED BY <3>1, <3>4, <4>1, <1>2, <1>8
    <3> QED BY <3>1, <3>2, <3>3, <3>4 DEF TagsInv, GetsSeeTags
  <2>2. ASSUME NEW d \in Callers, calls'[d].op = "got"
        PROVE  calls'[d].got = calls'[d].asked \/ fate'[calls'[d].asked] = "freed"
    <3>1. d # c /\ calls'[d] = calls[d]
      BY <2>2, <1>5, <1>7
    <3>2. calls[d].asked \in Tags /\ calls[d].op = "got"
      BY <3>1, <2>2, CallFields DEF TagsInv
    <3> QED BY <3>1, <3>2, <1>2, <1>5 DEF TagsInv, GetsSeeTags
  <2> QED BY <2>1, <2>2 DEF GetsSeeTags
<1> QED BY <1>6, <1>14, <1>15, <1>16, <1>17 DEF TagsInv

(* The destructor of what the hash lets go of: the others stay. *)
LEMMA DestroyedFacts ==
    ASSUME TagsAssumption, TagsInv, NEW ys \in SUBSET Mapped, Destroyed(ys)
    PROVE  /\ tag' \in [Yos -> Tags \union {None}] /\ spare' \subseteq Yos
           /\ fate' \in [Tags -> {"client", "held", "freed"}]
           /\ \A l \in Names : tagmap[l] # None /\ tagmap[l] \notin ys =>
                /\ tagmap[l] \notin spare' /\ tag'[tagmap[l]] = tag[tagmap[l]]
                /\ fate'[tag[tagmap[l]]] = "held"
           /\ \A d \in Callers : calls[d].op = "add" =>
                /\ calls[d].yo \notin spare' /\ tag'[calls[d].yo] = tag[calls[d].yo]
                /\ fate'[tag[calls[d].yo]] = "held"
           /\ \A u \in Tags : fate[u] = "freed" => fate'[u] = "freed"
           /\ \A l \in Names : tagmap[l] # None /\ tagmap[l] \in ys =>
                fate'[tag[tagmap[l]]] = "freed"
           /\ \A u \in Tags : fate'[u] = "held" => fate[u] = "held"
<1>1. /\ tagmap \in [Names -> Yos \union {None}]
      /\ tag \in [Yos -> Tags \union {None}]
      /\ spare \subseteq Yos
      /\ fate \in [Tags -> {"client", "held", "freed"}]
  BY DEF TagsInv, TagTypes
<1>2. /\ tag' = [y \in Yos |-> IF y \in ys THEN None ELSE tag[y]]
      /\ fate' = [t \in Tags |-> IF t \in {tag[y] : y \in ys} THEN "freed" ELSE fate[t]]
      /\ spare' = spare \union ys
  BY DEF Destroyed
<1>3. \A y \in ys : y \in Yos /\ \E k \in Names : tagmap[k] = y /\ NameHas(k, tag[y])
                                              /\ tag[y] \in Tags
  BY <1>1 DEF Mapped, NameHas, TagsInv, InUseIsHeld
<1>4. ASSUME NEW l \in Names, tagmap[l] # None, tagmap[l] \notin ys
      PROVE  /\ tagmap[l] \notin spare' /\ tag'[tagmap[l]] = tag[tagmap[l]]
             /\ fate'[tag[tagmap[l]]] = "held"
  <2>1. /\ tagmap[l] \in Yos /\ tagmap[l] \notin spare /\ tag[tagmap[l]] \in Tags
        /\ fate[tag[tagmap[l]]] = "held" /\ NameHas(l, tag[tagmap[l]])
    BY <1>1, <1>4 DEF TagsInv, InUseIsHeld, NameHas
  <2>2. ASSUME NEW y \in ys PROVE tag[y] # tag[tagmap[l]]
    <3>1. PICK k \in Names : tagmap[k] = y /\ NameHas(k, tag[y]) /\ tag[y] \in Tags
      BY <1>3
    <3>2. k # l
      BY <3>1, <1>4
    <3> QED BY <3>1, <3>2, <2>1 DEF TagsInv, HadOnce
  <2> QED BY <1>2, <1>4, <2>1, <2>2
<1>5. ASSUME NEW d \in Callers, calls[d].op = "add"
      PROVE  /\ calls[d].yo \notin spare' /\ tag'[calls[d].yo] = tag[calls[d].yo]
             /\ fate'[tag[calls[d].yo]] = "held"
  <2>1. /\ calls[d].yo \in Yos /\ calls[d].yo \notin spare /\ tag[calls[d].yo] \in Tags
        /\ fate[tag[calls[d].yo]] = "held" /\ AdderHas(d, tag[calls[d].yo])
    BY <1>5, CallFields DEF TagsInv, InUseIsHeld, AdderHas
  <2>2. ASSUME NEW y \in ys PROVE tag[y] # tag[calls[d].yo]
    <3>1. PICK k \in Names : tagmap[k] = y /\ NameHas(k, tag[y]) /\ tag[y] \in Tags
      BY <1>3
    <3> QED BY <3>1, <2>1 DEF TagsInv, HadOnce
  <2> QED BY <1>2, <2>1, <2>2
<1>6. \A u \in Tags : fate[u] = "freed" => fate'[u] = "freed"
  BY <1>2
<1>7. \A l \in Names : tagmap[l] # None /\ tagmap[l] \in ys => fate'[tag[tagmap[l]]] = "freed"
  BY <1>2, <1>3
<1>8. \A u \in Tags : fate'[u] = "held" => fate[u] = "held"
  BY <1>2
<1>9. /\ tag' \in [Yos -> Tags \union {None}] /\ spare' \subseteq Yos
      /\ fate' \in [Tags -> {"client", "held", "freed"}]
  BY <1>1, <1>2, <1>3
<1> QED BY <1>4, <1>5, <1>6, <1>7, <1>8, <1>9

(* A step of the map that only lets go of what it destroys. *)
LEMMA LettingGoKeeps ==
    ASSUME TagsAssumption, TagsInv, NEW ys \in SUBSET Mapped, Destroyed(ys),
           tagmap' \in [Names -> Yos \union {None}],
           \A l \in Names : tagmap'[l] = IF tagmap[l] \in ys THEN None ELSE tagmap[l],
           UNCHANGED calls
    PROVE  TagsInv'
<1>1. /\ tag' \in [Yos -> Tags \union {None}] /\ spare' \subseteq Yos
      /\ fate' \in [Tags -> {"client", "held", "freed"}]
  BY DestroyedFacts
<1>2. \A l \in Names : tagmap[l] # None /\ tagmap[l] \notin ys =>
        /\ tagmap[l] \notin spare' /\ tag'[tagmap[l]] = tag[tagmap[l]]
        /\ fate'[tag[tagmap[l]]] = "held"
  BY DestroyedFacts
<1>3. \A d \in Callers : calls[d].op = "add" =>
        /\ calls[d].yo \notin spare' /\ tag'[calls[d].yo] = tag[calls[d].yo]
        /\ fate'[tag[calls[d].yo]] = "held"
  BY DestroyedFacts
<1>4. /\ \A u \in Tags : fate[u] = "freed" => fate'[u] = "freed"
      /\ \A u \in Tags : fate'[u] = "held" => fate[u] = "held"
  BY DestroyedFacts
<1>5. \A l \in Names : tagmap[l] # None /\ tagmap[l] \in ys => fate'[tag[tagmap[l]]] = "freed"
  BY DestroyedFacts
<1>6. \A l \in Names : tagmap'[l] # None => /\ tagmap'[l] = tagmap[l] /\ tagmap[l] \notin ys
                                            /\ tagmap[l] # None
  OBVIOUS
<1>7. TagTypes'
  BY <1>1 DEF TagsInv, TagTypes
<1>8. InUseIsHeld'
  BY <1>2, <1>3, <1>6 DEF TagsInv, InUseIsHeld
<1>9. \A l \in Names : \A u \in Tags : NameHas(l, u)' => NameHas(l, u) /\ tagmap[l] \notin ys
  BY <1>2, <1>6 DEF NameHas
<1>10. \A d \in Callers : \A u \in Tags : AdderHas(d, u)' <=> AdderHas(d, u)
  BY <1>3 DEF AdderHas
<1>11. HadOnce'
  BY <1>9, <1>10 DEF TagsInv, HadOnce
<1>12. HeldIsHad'
  <2> SUFFICES ASSUME NEW u \in Tags, fate'[u] = "held"
               PROVE  \/ \E l \in Names : NameHas(l, u)'
                      \/ \E d \in Callers : AdderHas(d, u)'
    BY DEF HeldIsHad
  <2>1. ASSUME NEW l \in Names, NameHas(l, u) PROVE NameHas(l, u)'
    <3>1. tagmap[l] # None /\ tag[tagmap[l]] = u
      BY <2>1 DEF NameHas
    <3>2. tagmap[l] \notin ys
      BY <3>1, <1>5
    <3> QED BY <3>1, <3>2, <1>2 DEF NameHas
  <2> QED BY <2>1, <1>4, <1>10 DEF TagsInv, HeldIsHad
<1>13. GetsSeeTags'
  <2>1. ASSUME NEW d \in Callers, calls[d].op = "get"
        PROVE  \/ fate'[calls[d].asked] = "freed"
               \/ /\ tag'[calls[d].yo] = calls[d].asked
                  /\ \E l \in Names : tagmap'[l] = calls[d].yo
    <3>1. calls[d].asked \in Tags /\ calls[d].yo \in Yos /\ calls[d].yo # None
      BY <2>1, CallFields DEF TagsInv, TagsAssumption
    <3>2. CASE fate[calls[d].asked] = "freed"
      BY <3>1, <3>2, <1>4
    <3>3. ASSUME NEW l \in Names, tagmap[l] = calls[d].yo, tag[calls[d].yo] = calls[d].asked
          PROVE  \/ fate'[calls[d].asked] = "freed"
                 \/ tagmap'[l] = calls[d].yo /\ tag'[calls[d].yo] = calls[d].asked
      BY <3>1, <3>3, <1>2, <1>5
    <3> QED BY <2>1, <3>2, <3>3 DEF TagsInv, GetsSeeTags
  <2>2. ASSUME NEW d \in Callers, calls[d].op = "got"
        PROVE  calls[d].got = calls[d].asked \/ fate'[calls[d].asked] = "freed"
    <3>1. calls[d].asked \in Tags
      BY <2>2, CallFields DEF TagsInv
    <3> QED BY <2>2, <3>1, <1>4 DEF TagsInv, GetsSeeTags
  <2> QED BY <2>1, <2>2 DEF GetsSeeTags
<1> QED BY <1>7, <1>8, <1>11, <1>12, <1>13 DEF TagsInv

(* Of two names one has its own object. *)
LEMMA NamesApart ==
    ASSUME TagsInv, NEW k \in Names, NEW l \in Names,
           tagmap[k] # None, tagmap[k] = tagmap[l]
    PROVE  k = l
<1>1. NameHas(k, tag[tagmap[k]]) /\ NameHas(l, tag[tagmap[k]]) /\ tag[tagmap[k]] \in Tags
  BY DEF NameHas, TagsInv, InUseIsHeld
<1> QED BY <1>1 DEF TagsInv, HadOnce

(* Removing a name frees the tag it had, and no other holds it.             *)
LEMMA RemoveTagKeeps ==
    ASSUME TagsAssumption, TagsInv, NEW c \in Callers, NEW k \in Names, RemoveTag(c, k)
    PROVE  TagsInv'
<1>1. /\ tagmap[k] # None /\ tagmap' = [tagmap EXCEPT ![k] = None]
      /\ Destroyed({tagmap[k]}) /\ UNCHANGED calls
  BY DEF RemoveTag
<1>2. tagmap \in [Names -> Yos \union {None}]
  BY DEF TagsInv, TagTypes
<1>3. {tagmap[k]} \in SUBSET Mapped
  BY <1>1 DEF Mapped
<1>4. \A l \in Names : tagmap'[l] = IF tagmap[l] \in {tagmap[k]} THEN None ELSE tagmap[l]
  <2> TAKE l \in Names
  <2>1. tagmap[l] = tagmap[k] => l = k
    BY <1>1, NamesApart
  <2> QED BY <2>1, <1>1, <1>2
<1>5. tagmap' \in [Names -> Yos \union {None}]
  BY <1>1, <1>2
<1> QED BY <1>1, <1>3, <1>4, <1>5, LettingGoKeeps

(* Destroying the map frees the tags of all names.                          *)
LEMMA DestroyTagsKeeps ==
    ASSUME TagsAssumption, TagsInv, DestroyTags
    PROVE  TagsInv'
<1>1. /\ tagmap' = [k \in Names |-> None] /\ Destroyed(Mapped) /\ UNCHANGED calls
  BY DEF DestroyTags
<1>2. \A l \in Names : tagmap'[l] = IF tagmap[l] \in Mapped THEN None ELSE tagmap[l]
  BY <1>1 DEF Mapped
<1>3. tagmap' \in [Names -> Yos \union {None}] /\ Mapped \in SUBSET Mapped
  BY <1>1
<1> QED BY <1>1, <1>2, <1>3, LettingGoKeeps

(* The second half of an add: the object goes from the adder to the name. *)
LEMMA NamingKeeps ==
    ASSUME TagsAssumption, TagsInv, NEW c \in Callers, calls[c].op = "add",
           tagmap' = [tagmap EXCEPT ![calls[c].name] = calls[c].yo],
           Destroyed({tagmap[calls[c].name]} \ {None}),
           calls' = [calls EXCEPT ![c] = Idle]
    PROVE  TagsInv'
<1> DEFINE k == calls[c].name
           y == calls[c].yo
           ys == {tagmap[k]} \ {None}
<1>1. k \in Names /\ y \in Yos /\ y # None
  BY CallFields DEF TagsInv, TagsAssumption
<1>2. /\ tagmap \in [Names -> Yos \union {None}]
      /\ calls \in [Callers -> CallTypes]
  BY DEF TagsInv, TagTypes
<1>3. ys \in SUBSET Mapped
  BY <1>1 DEF Mapped
<1>4. /\ tagmap'[k] = y /\ \A l \in Names \ {k} : tagmap'[l] = tagmap[l]
      /\ tagmap' \in [Names -> Yos \union {None}]
  BY <1>1, <1>2
<1>5. /\ calls'[c] = Idle /\ \A d \in Callers \ {c} : calls'[d] = calls[d]
      /\ calls' \in [Callers -> CallTypes]
      /\ Idle.op \notin {"add", "get", "got"}
  BY <1>2 DEF CallTypes, Idle
<1>6. \A l \in Names : tagmap[l] # None => (tagmap[l] \in ys <=> l = k)
  <2> SUFFICES ASSUME NEW l \in Names, tagmap[l] # None PROVE tagmap[l] \in ys <=> l = k
    OBVIOUS
  <2>1. tagmap[l] = tagmap[k] => l = k
    BY <1>1, NamesApart
  <2> QED BY <2>1
<1>7. Destroyed(ys)
  OBVIOUS
<1> HIDE DEF k, y, ys
<1>8. /\ tag' \in [Yos -> Tags \union {None}] /\ spare' \subseteq Yos
      /\ fate' \in [Tags -> {"client", "held", "freed"}]
  BY <1>3, <1>7, DestroyedFacts
<1>9. \A l \in Names : tagmap[l] # None /\ l # k =>
        /\ tagmap[l] \notin spare' /\ tag'[tagmap[l]] = tag[tagmap[l]]
        /\ fate'[tag[tagmap[l]]] = "held"
  BY <1>3, <1>6, <1>7, DestroyedFacts
<1>10. \A d \in Callers : calls[d].op = "add" =>
        /\ calls[d].yo \notin spare' /\ tag'[calls[d].yo] = tag[calls[d].yo]
        /\ fate'[tag[calls[d].yo]] = "held"
  BY <1>3, <1>7, DestroyedFacts
<1>11. /\ \A u \in Tags : fate[u] = "freed" => fate'[u] = "freed"
       /\ \A u \in Tags : fate'[u] = "held" => fate[u] = "held"
  BY <1>3, <1>7, DestroyedFacts
<1>12. tagmap[k] # None => fate'[tag[tagmap[k]]] = "freed"
  BY <1>1, <1>3, <1>6, <1>7, DestroyedFacts
<1>13. y \notin spare' /\ tag'[y] = tag[y] /\ fate'[tag[y]] = "held" /\ tag[y] \in Tags
  BY <1>10 DEF y, TagsInv, InUseIsHeld
<1>14. AdderHas(c, tag[y])
  BY DEF AdderHas, y
<1>15. TagTypes'
  BY <1>4, <1>5, <1>8 DEF TagTypes
<1>16. InUseIsHeld'
  <2>1. ASSUME NEW l \in Names, tagmap'[l] # None
        PROVE  tagmap'[l] \notin spare' /\ tag'[tagmap'[l]] \in Tags
               /\ fate'[tag'[tagmap'[l]]] = "held"
    <3>1. CASE l = k
      BY <3>1, <1>4, <1>13
    <3>2. CASE l # k
      BY <3>2, <2>1, <1>4, <1>9 DEF TagsInv, InUseIsHeld
    <3> QED BY <3>1, <3>2
  <2>2. ASSUME NEW d \in Callers, calls'[d].op = "add"
        PROVE  calls'[d].yo \notin spare' /\ tag'[calls'[d].yo] \in Tags
               /\ fate'[tag'[calls'[d].yo]] = "held"
    <3>1. calls'[d] = calls[d]
      BY <2>2, <1>5
    <3> QED BY <3>1, <2>2, <1>10 DEF TagsInv, InUseIsHeld
  <2> QED BY <2>1, <2>2 DEF InUseIsHeld
<1>17. \A l \in Names : \A u \in Tags :
         NameHas(l, u)' <=> IF l = k THEN u = tag[y] ELSE NameHas(l, u)
  BY <1>1, <1>4, <1>9, <1>13 DEF NameHas
<1>18. \A d \in Callers : \A u \in Tags : AdderHas(d, u)' <=> d # c /\ AdderHas(d, u)
  BY <1>5, <1>10 DEF AdderHas
<1>19. HadOnce'
  <2>1. ASSUME NEW l \in Names, NEW m \in Names, NEW u \in Tags,
               NameHas(l, u)', NameHas(m, u)'
        PROVE  l = m
    BY <2>1, <1>13, <1>14, <1>17 DEF TagsInv, HadOnce
  <2>2. ASSUME NEW d \in Callers, NEW e \in Callers, NEW u \in Tags,
               AdderHas(d, u)', AdderHas(e, u)'
        PROVE  d = e
    BY <2>2, <1>18 DEF TagsInv, HadOnce
  <2>3. ASSUME NEW l \in Names, NEW d \in Callers, NEW u \in Tags,
               NameHas(l, u)', AdderHas(d, u)'
        PROVE  FALSE
    BY <2>3, <1>13, <1>14, <1>17, <1>18 DEF TagsInv, HadOnce
  <2> QED BY <2>1, <2>2, <2>3 DEF HadOnce
<1>20. HeldIsHad'
  <2> SUFFICES ASSUME NEW u \in Tags, fate'[u] = "held"
               PROVE  \/ \E l \in Names : NameHas(l, u)'
                      \/ \E d \in Callers : AdderHas(d, u)'
    BY DEF HeldIsHad
  <2>1. ASSUME NEW l \in Names, NameHas(l, u) PROVE NameHas(l, u)'
    <3>1. l # k
      BY <2>1, <1>12 DEF NameHas
    <3> QED BY <3>1, <2>1, <1>17
  <2>2. ASSUME NEW d \in Callers, AdderHas(d, u)
        PROVE  \/ \E l \in Names : NameHas(l, u)'
               \/ AdderHas(d, u)'
    <3>1. CASE d = c
      <4>1. u = tag[y]
        BY <3>1, <2>2 DEF AdderHas, y
      <4> QED BY <4>1, <1>1, <1>17
    <3>2. CASE d # c
      BY <3>2, <2>2, <1>18
    <3> QED BY <3>1, <3>2
  <2> QED BY <2>1, <2>2, <1>11 DEF TagsInv, HeldIsHad
<1>21. GetsSeeTags'
  <2>1. ASSUME NEW d \in Callers, calls'[d].op = "get"
        PROVE  \/ fate'[calls'[d].asked] = "freed"
               \/ /\ tag'[calls'[d].yo] = calls'[d].asked
                  /\ \E l \in Names : tagmap'[l] = calls'[d].yo
    <3>1. calls'[d] = calls[d] /\ calls[d].op = "get"
      BY <2>1, <1>5
    <3>2. calls[d].asked \in Tags /\ calls[d].yo \in Yos /\ calls[d].yo # None
      BY <3>1, CallFields DEF TagsInv, TagsAssumption
    <3>3. CASE fate[calls[d].asked] = "freed"
      BY <3>1, <3>2, <3>3, <1>11
    <3>4. ASSUME NEW l \in Names, tagmap[l] = calls[d].yo, tag[calls[d].yo] = calls[d].asked
          PROVE  \/ fate'[calls[d].asked] = "freed"
                 \/ tagmap'[l] = calls[d].yo /\ tag'[calls[d].yo] = calls[d].asked
      BY <3>2, <3>4, <1>4, <1>9, <1>12
    <3> QED BY <3>1, <3>3, <3>4 DEF TagsInv, GetsSeeTags
  <2>2. ASSUME NEW d \in Callers, calls'[d].op = "got"
        PROVE  calls'[d].got = calls'[d].asked \/ fate'[calls'[d].asked] = "freed"
    <3>1. calls'[d] = calls[d] /\ calls[d].op = "got"
      BY <2>2, <1>5
    <3>2. calls[d].asked \in Tags
      BY <3>1, CallFields DEF TagsInv
    <3> QED BY <3>1, <3>2, <1>11 DEF TagsInv, GetsSeeTags
  <2> QED BY <2>1, <2>2 DEF GetsSeeTags
<1> QED BY <1>15, <1>16, <1>19, <1>20, <1>21 DEF TagsInv

(* ... and when it fails, the tag is the client's again. *)
LEMMA GivingBackKeeps ==
    ASSUME TagsAssumption, TagsInv, NEW c \in Callers, calls[c].op = "add",
           fate' = [fate EXCEPT ![tag[calls[c].yo]] = "client"],
           calls' = [calls EXCEPT ![c] = Idle], UNCHANGED <<tagmap, tag, spare>>
    PROVE  TagsInv'
<1> DEFINE t == tag[calls[c].yo]
<1>1. t \in Tags /\ fate[t] = "held" /\ AdderHas(c, t)
  BY DEF TagsInv, InUseIsHeld, AdderHas
<1>2. /\ fate \in [Tags -> {"client", "held", "freed"}]
      /\ calls \in [Callers -> CallTypes]
  BY DEF TagsInv, TagTypes
<1>3. /\ fate'[t] = "client" /\ \A u \in Tags \ {t} : fate'[u] = fate[u]
      /\ fate' \in [Tags -> {"client", "held", "freed"}]
  BY <1>1, <1>2
<1>4. /\ calls'[c] = Idle /\ \A d \in Callers \ {c} : calls'[d] = calls[d]
      /\ calls' \in [Callers -> CallTypes]
      /\ Idle.op \notin {"add", "get", "got"}
  BY <1>2 DEF CallTypes, Idle
<1> HIDE DEF t
<1>5. TagTypes'
  BY <1>3, <1>4 DEF TagsInv, TagTypes
<1>6. \A l \in Names : \A u \in Tags : NameHas(l, u)' <=> NameHas(l, u)
  BY DEF NameHas
<1>7. \A d \in Callers : \A u \in Tags : AdderHas(d, u)' <=> d # c /\ AdderHas(d, u)
  BY <1>4 DEF AdderHas
<1>8. InUseIsHeld'
  <2>1. ASSUME NEW l \in Names, tagmap[l] # None
        PROVE  tagmap[l] \notin spare /\ tag[tagmap[l]] \in Tags
               /\ fate'[tag[tagmap[l]]] = "held"
    <3>1. /\ tagmap[l] \notin spare /\ tag[tagmap[l]] \in Tags
          /\ fate[tag[tagmap[l]]] = "held" /\ NameHas(l, tag[tagmap[l]])
      BY <2>1 DEF TagsInv, InUseIsHeld, NameHas
    <3>2. tag[tagmap[l]] # t
      BY <3>1, <1>1 DEF TagsInv, HadOnce
    <3> QED BY <3>1, <3>2, <1>3
  <2>2. ASSUME NEW d \in Callers, calls'[d].op = "add"
        PROVE  calls'[d].yo \notin spare /\ tag[calls'[d].yo] \in Tags
               /\ fate'[tag[calls'[d].yo]] = "held"
    <3>1. d # c /\ calls'[d] = calls[d] /\ calls[d].op = "add"
      BY <2>2, <1>4
    <3>2. /\ calls[d].yo \notin spare /\ tag[calls[d].yo] \in Tags
          /\ fate[tag[calls[d].yo]] = "held" /\ AdderHas(d, tag[calls[d].yo])
      BY <3>1 DEF TagsInv, InUseIsHeld, AdderHas
    <3>3. tag[calls[d].yo] # t
      BY <3>1, <3>2, <1>1 DEF TagsInv, HadOnce
    <3> QED BY <3>1, <3>2, <3>3, <1>3
  <2> QED BY <2>1, <2>2 DEF InUseIsHeld
<1>9. HadOnce'
  BY <1>6, <1>7 DEF TagsInv, HadOnce
<1>10. HeldIsHad'
  <2> SUFFICES ASSUME NEW u \in Tags, fate'[u] = "held"
               PROVE  \/ \E l \in Names : NameHas(l, u)'
                      \/ \E d \in Callers : AdderHas(d, u)'
    BY DEF HeldIsHad
  <2>1. u # t /\ fate[u] = "held"
    BY <1>1, <1>3
  <2>2. ~AdderHas(c, u)
    BY <2>1 DEF AdderHas, t
  <2> QED BY <2>1, <2>2, <1>6, <1>7 DEF TagsInv, HeldIsHad
<1>11. GetsSeeTags'
  <2>1. ASSUME NEW d \in Callers, calls'[d].op = "get"
        PROVE  \/ fate'[calls'[d].asked] = "freed"
               \/ /\ tag[calls'[d].yo] = calls'[d].asked
                  /\ \E l \in Names : tagmap[l] = calls'[d].yo
    <3>1. calls'[d] = calls[d] /\ calls[d].op = "get" /\ calls[d].asked \in Tags
      BY <2>1, <1>4, CallFields DEF TagsInv
    <3> QED BY <3>1, <1>1, <1>3 DEF TagsInv, GetsSeeTags
  <2>2. ASSUME NEW d \in Callers, calls'[d].op = "got"
        PROVE  calls'[d].got = calls'[d].asked \/ fate'[calls'[d].asked] = "freed"
    <3>1. calls'[d] = calls[d] /\ calls[d].op = "got" /\ calls[d].asked \in Tags
      BY <2>2, <1>4, CallFields DEF TagsInv
    <3> QED BY <3>1, <1>1, <1>3 DEF TagsInv, GetsSeeTags
  <2> QED BY <2>1, <2>2 DEF GetsSeeTags
<1> QED BY <1>5, <1>8, <1>9, <1>10, <1>11 DEF TagsInv

(* A step of one call only, between states that are not an add. *)
LEMMA CallKeeps ==
    ASSUME TagsAssumption, TagsInv, NEW c \in Callers, calls[c].op # "add",
           NEW r \in CallTypes, r.op # "add",
           r.op = "get" => /\ tag[r.yo] = r.asked
                           /\ \E l \in Names : tagmap[l] = r.yo,
           r.op = "got" => r.got = r.asked \/ fate[r.asked] = "freed",
           calls' = [calls EXCEPT ![c] = r], UNCHANGED <<tagmap, tag, spare, fate>>
    PROVE  TagsInv'
<1>1. /\ calls'[c] = r /\ \A d \in Callers \ {c} : calls'[d] = calls[d]
      /\ calls' \in [Callers -> CallTypes]
  BY DEF TagsInv, TagTypes
<1>2. \A d \in Callers : \A u \in Tags : AdderHas(d, u)' <=> AdderHas(d, u)
  BY <1>1 DEF AdderHas
<1>3. \A l \in Names : \A u \in Tags : NameHas(l, u)' <=> NameHas(l, u)
  BY DEF NameHas
<1>4. TagTypes'
  BY <1>1 DEF TagsInv, TagTypes
<1>5. InUseIsHeld'
  BY <1>1 DEF TagsInv, InUseIsHeld
<1>6. HadOnce' /\ HeldIsHad'
  BY <1>2, <1>3 DEF TagsInv, HadOnce, HeldIsHad
<1>7. GetsSeeTags'
  BY <1>1 DEF TagsInv, GetsSeeTags
<1> QED BY <1>4, <1>5, <1>6, <1>7 DEF TagsInv

(* Every step keeps the invariant.                                          *)
LEMMA TagsStep ==
    ASSUME TagsAssumption, TagsInv, [TagsNext]_tagVars
    PROVE  TagsInv'
<1>1. ASSUME NEW c \in Callers, SetTag(c) PROVE TagsInv'
  BY <1>1, NamingKeeps, GivingBackKeeps DEF SetTag
<1>2. ASSUME NEW c \in Callers, NEW k \in Names, GetTag(c, k) PROVE TagsInv'
  <2> DEFINE r == [op |-> "get", yo |-> tagmap[k], asked |-> tag[tagmap[k]]]
  <2>1. /\ calls[c] = Idle /\ tagmap[k] # None /\ calls' = [calls EXCEPT ![c] = r]
        /\ UNCHANGED <<tagmap, tag, spare, fate>>
    BY <1>2 DEF GetTag
  <2>2. tagmap[k] \in Yos /\ tag[tagmap[k]] \in Tags
    BY <2>1 DEF TagsInv, TagTypes, InUseIsHeld
  <2>3. r \in CallTypes /\ r.op = "get" /\ r.yo = tagmap[k] /\ r.asked = tag[tagmap[k]]
    BY <2>2 DEF CallTypes
  <2>4. calls[c].op # "add"
    BY <2>1 DEF Idle
  <2> HIDE DEF r
  <2> QED BY <2>1, <2>3, <2>4, CallKeeps
<1>3. ASSUME NEW c \in Callers, ReadTag(c) PROVE TagsInv'
  <2> DEFINE r == [op |-> "got", asked |-> calls[c].asked, got |-> tag[calls[c].yo]]
  <2>1. /\ calls[c].op = "get" /\ calls' = [calls EXCEPT ![c] = r]
        /\ UNCHANGED <<tagmap, tag, spare, fate>>
    BY <1>3 DEF ReadTag
  <2>2. calls[c].yo \in Yos /\ calls[c].asked \in Tags
        /\ tag[calls[c].yo] \in Tags \union {None}
    BY <2>1, CallFields DEF TagsInv, TagTypes
  <2>3. r \in CallTypes /\ r.op = "got" /\ r.got = tag[calls[c].yo]
        /\ r.asked = calls[c].asked
    BY <2>2 DEF CallTypes
  <2>4. r.got = r.asked \/ fate[r.asked] = "freed"
    BY <2>1, <2>3 DEF TagsInv, GetsSeeTags
  <2> HIDE DEF r
  <2> QED BY <2>1, <2>3, <2>4, CallKeeps
<1>4. ASSUME NEW c \in Callers, TagReturned(c) PROVE TagsInv'
  <2>1. /\ calls[c].op = "got" /\ calls' = [calls EXCEPT ![c] = Idle]
        /\ UNCHANGED <<tagmap, tag, spare, fate>>
    BY <1>4 DEF TagReturned
  <2>2. Idle \in CallTypes /\ Idle.op \notin {"add", "get", "got"}
    BY DEF CallTypes, Idle
  <2> QED BY <2>1, <2>2, CallKeeps
<1>5. CASE UNCHANGED tagVars
  <2>1. UNCHANGED <<tagmap, tag, spare, fate, calls>>
    BY <1>5 DEF tagVars
  <2> QED BY <2>1 DEF TagsInv, TagTypes, InUseIsHeld, HadOnce, HeldIsHad, GetsSeeTags,
                      NameHas, AdderHas
<1> QED BY <1>1, <1>2, <1>3, <1>4, <1>5, AddTagKeeps, RemoveTagKeeps, DestroyTagsKeeps
        DEF TagsNext

(* Without tags there is nothing to hold.                                   *)
LEMMA TagsBegin ==
    ASSUME TagsInit
    PROVE  TagsInv
<1>1. Idle \in CallTypes /\ Idle.op \notin {"add", "get", "got"}
  BY DEF CallTypes, Idle
<1> QED BY <1>1 DEF TagsInit, TagsInv, TagTypes, InUseIsHeld, HadOnce, HeldIsHad,
                    GetsSeeTags, NameHas, AdderHas

(* Names and adders apart, and every tag in hands, leave one holder each.   *)
LEMMA TagsInvImplies ==
    ASSUME TagsInv
    PROVE  TagsExact
<1>1. ASSUME NEW t \in Tags, fate[t] = "held"
      PROVE  Cardinality({k \in Names : tagmap[k] # None /\ tag[tagmap[k]] = t}
               \union {c \in Callers : calls[c].op = "add" /\ tag[calls[c].yo] = t}) = 1
  <2> DEFINE K == {k \in Names : tagmap[k] # None /\ tag[tagmap[k]] = t}
             C == {c \in Callers : calls[c].op = "add" /\ tag[calls[c].yo] = t}
  <2>1. /\ K = {k \in Names : NameHas(k, t)}
        /\ C = {c \in Callers : AdderHas(c, t)}
    BY DEF NameHas, AdderHas
  <2>2. \E x : K \union C = {x}
    <3>1. ASSUME NEW k \in Names, NameHas(k, t) PROVE K = {k} /\ C = {}
      BY <3>1, <2>1 DEF TagsInv, HadOnce
    <3>2. ASSUME NEW c \in Callers, AdderHas(c, t) PROVE C = {c} /\ K = {}
      BY <3>2, <2>1 DEF TagsInv, HadOnce
    <3> HIDE DEF K, C
    <3> QED BY <1>1, <3>1, <3>2 DEF TagsInv, HeldIsHad
  <2> HIDE DEF K, C
  <2>3. Cardinality(K \union C) = 1
    BY <2>2, FS_Singleton
  <2> QED BY <2>3 DEF K, C
<1>2. \A k \in Names : tagmap[k] # None =>
        tagmap[k] \notin spare /\ fate[tag[tagmap[k]]] = "held"
  BY DEF TagsInv, InUseIsHeld
<1>3. \A c \in Callers : calls[c].op = "got" =>
        calls[c].got = calls[c].asked \/ fate[calls[c].asked] = "freed"
  BY DEF TagsInv, GetsSeeTags
<1> QED BY <1>1, <1>2, <1>3 DEF TagsExact

(* task.c and taskmanager.c, tags by name: a tag that was given is held by  *)
(* one object of one name or of one adder until it is freed, and a get      *)
(* returns the tag its name had, or one that was freed meanwhile.           *)
THEOREM TagsHaveOneHolder == TagsSpec => []TagsExact
<1> USE TagsConstants
<1>1. TagsInit => TagsInv
  BY TagsBegin
<1>2. TagsInv /\ [TagsNext]_tagVars => TagsInv'
  BY TagsStep
<1>3. TagsInv => TagsExact
  BY TagsInvImplies
<1> QED BY <1>1, <1>2, <1>3, PTL DEF TagsSpec

==============================================================================
