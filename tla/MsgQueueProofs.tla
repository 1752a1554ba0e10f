--------------------------- MODULE MsgQueueProofs ----------------------------
(***************************************************************************)
(* Proofs about MsgQueue for every finite set of messages and threads,     *)
(* every number of priorities and every capacity.                          *)
(***************************************************************************)
EXTENDS MsgQueue, FiniteSetTheorems, SequenceTheorems, TLAPS

(* A message object is owned exactly while the post or the handling that   *)
(* owns it is under way.                                                   *)
Holding ==
    /\ \A s \in Senders : IF spc[s] \in {"made", "full"}
                          THEN \E m \in Msgs : shold[s] = {m}
                          ELSE shold[s] = {}
    /\ \A r \in Receivers : IF rpc[r] = "handle"
                            THEN \E m \in Msgs : rhold[r] = {m}
                            ELSE rhold[r] = {}

(* Nothing is left of a destroyed queue. *)
Closed ==
    ~open => /\ evfd = 0
             /\ sz = 0
             /\ \A i \in Pri : q[i] = <<>>
             /\ \A s \in Senders : spc[s] = "idle"
             /\ \A r \in Receivers : rpc[r] = "idle"

(* The inductive invariant. *)
IInv ==
    /\ TypeOK
    /\ Holding
    /\ Closed
    /\ OnePlace
    /\ NoneLost
    /\ SizeExact
    /\ TokenAccounting

------------------------------------------------------------------------------
(* Two finite sets that agree everywhere but on x differ by at most one    *)
(* element.                                                                *)
LEMMA CountStep ==
    ASSUME NEW F, IsFiniteSet(F), NEW G, IsFiniteSet(G), NEW x, F \ {x} = G \ {x}
    PROVE  /\ Cardinality(F) \in Nat /\ Cardinality(G) \in Nat
           /\ (x \in F <=> x \in G) => Cardinality(G) = Cardinality(F)
           /\ x \notin F /\ x \in G => Cardinality(G) = Cardinality(F) + 1
           /\ x \in F /\ x \notin G => Cardinality(G) = Cardinality(F) - 1
<1>1. Cardinality(F) \in Nat /\ Cardinality(G) \in Nat
  BY FS_CardinalityType
<1>2. CASE x \in F <=> x \in G
  <2>1. F = G
    BY <1>2
  <2> QED BY <1>1, <1>2, <2>1
<1>3. CASE x \notin F /\ x \in G
  <2>1. G = F \cup {x}
    BY <1>3
  <2> QED BY <1>1, <1>3, <2>1, FS_AddElement
<1>4. CASE x \in F /\ x \notin G
  <2>1. G = F \ {x}
    BY <1>4
  <2> QED BY <1>1, <1>4, <2>1, FS_RemoveElement
<1> QED BY <1>2, <1>3, <1>4

(* The counted sets are finite, so their cardinalities are numbers. *)
LEMMA Counts ==
    ASSUME TypeOK
    PROVE  /\ \A l : Cardinality(In(l)) \in Nat
           /\ \A pos : Cardinality(SendersAt(pos)) \in Nat
           /\ \A pos : Cardinality(ReceiversAt(pos)) \in Nat
<1>1. \A l : IsFiniteSet(In(l))
  BY MsgQueueAssumption, FS_Subset DEF In
<1>2. \A pos : IsFiniteSet(SendersAt(pos)) /\ IsFiniteSet(ReceiversAt(pos))
  BY MsgQueueAssumption, FS_Subset DEF SendersAt, ReceiversAt
<1> QED BY <1>1, <1>2, FS_CardinalityType

(* Moving one sender, one receiver or one message changes the counts by    *)
(* at most one.                                                            *)
LEMMA SenderMoves ==
    ASSUME TypeOK, NEW s \in Senders, NEW new, spc' = [spc EXCEPT ![s] = new], NEW pos
    PROVE  /\ Cardinality(SendersAt(pos)') \in Nat
           /\ spc[s] # pos /\ new # pos
                => Cardinality(SendersAt(pos)') = Cardinality(SendersAt(pos))
           /\ spc[s] # pos /\ new = pos
                => Cardinality(SendersAt(pos)') = Cardinality(SendersAt(pos)) + 1
           /\ spc[s] = pos /\ new # pos
                => Cardinality(SendersAt(pos)') = Cardinality(SendersAt(pos)) - 1
<1>1. IsFiniteSet(SendersAt(pos)) /\ IsFiniteSet(SendersAt(pos)')
  BY MsgQueueAssumption, FS_Subset DEF SendersAt
<1>2. SendersAt(pos) \ {s} = SendersAt(pos)' \ {s}
  BY DEF SendersAt, TypeOK
<1>3. /\ s \in SendersAt(pos) <=> spc[s] = pos
      /\ s \in SendersAt(pos)' <=> new = pos
  BY DEF SendersAt, TypeOK
<1> QED BY <1>1, <1>2, <1>3, CountStep

(* The same of the receivers that have read a token. *)
LEMMA ReceiverMoves ==
    ASSUME TypeOK, NEW r \in Receivers, NEW new, rpc' = [rpc EXCEPT ![r] = new], NEW pos
    PROVE  /\ Cardinality(ReceiversAt(pos)') \in Nat
           /\ rpc[r] # pos /\ new # pos
                => Cardinality(ReceiversAt(pos)') = Cardinality(ReceiversAt(pos))
           /\ rpc[r] # pos /\ new = pos
                => Cardinality(ReceiversAt(pos)') = Cardinality(ReceiversAt(pos)) + 1
           /\ rpc[r] = pos /\ new # pos
                => Cardinality(ReceiversAt(pos)') = Cardinality(ReceiversAt(pos)) - 1
<1>1. IsFiniteSet(ReceiversAt(pos)) /\ IsFiniteSet(ReceiversAt(pos)')
  BY MsgQueueAssumption, FS_Subset DEF ReceiversAt
<1>2. ReceiversAt(pos) \ {r} = ReceiversAt(pos)' \ {r}
  BY DEF ReceiversAt, TypeOK
<1>3. /\ r \in ReceiversAt(pos) <=> rpc[r] = pos
      /\ r \in ReceiversAt(pos)' <=> new = pos
  BY DEF ReceiversAt, TypeOK
<1> QED BY <1>1, <1>2, <1>3, CountStep

(* Moving one message object in or out of a place changes that count only. *)
LEMMA MessageMoves ==
    ASSUME TypeOK, NEW m \in Msgs, NEW new, loc' = [loc EXCEPT ![m] = new], NEW l
    PROVE  /\ Cardinality(In(l)') \in Nat
           /\ loc[m] # l /\ new # l
                => Cardinality(In(l)') = Cardinality(In(l))
           /\ loc[m] # l /\ new = l
                => Cardinality(In(l)') = Cardinality(In(l)) + 1
           /\ loc[m] = l /\ new # l
                => Cardinality(In(l)') = Cardinality(In(l)) - 1
<1>1. IsFiniteSet(In(l)) /\ IsFiniteSet(In(l)')
  BY MsgQueueAssumption, FS_Subset DEF In
<1>2. In(l) \ {m} = In(l)' \ {m}
  BY DEF In, TypeOK
<1>3. /\ m \in In(l) <=> loc[m] = l
      /\ m \in In(l)' <=> new = l
  BY DEF In, TypeOK
<1> QED BY <1>1, <1>2, <1>3, CountStep

(* Releasing messages that are not queued leaves the queued ones alone. *)
LEMMA ReleaseEffect ==
    ASSUME TypeOK, NEW ms \in SUBSET Msgs, Release(ms)
    PROVE  /\ loc' \in [Msgs -> {"heap", "pool", "held", "queued", "taken"}]
           /\ \A m \in ms : loc'[m] \in {"heap", "pool"}
           /\ \A m \in Msgs \ ms : loc'[m] = loc[m]
  BY DEF Release, Kept, Released, TypeOK

------------------------------------------------------------------------------
(* Each action preserves the inductive invariant. *)
LEMMA CreateInv ==
    ASSUME IInv, NEW s \in Senders, NEW m \in Msgs, Create(s, m)
    PROVE  IInv'
<1> USE DEF IInv
<1>0. loc[m] \in {"heap", "pool"} /\ shold[s] = {}
  BY DEF Create, Creatable, In, Holding
<1>1. TypeOK'
  BY DEF Create, TypeOK
<1>2. Holding'
  BY DEF Create, Holding, TypeOK
<1>3. Closed'
  BY DEF Create, Closed
<1>4. OnePlace'
  BY <1>0 DEF Create, OnePlace, TypeOK
<1>5. NoneLost'
  BY <1>0 DEF Create, NoneLost, In, TypeOK
<1>6. SizeExact'
  <2>1. Cardinality(In("queued")') = Cardinality(In("queued"))
    BY <1>0, loc[m] # "queued", "held" # "queued", MessageMoves DEF Create
  <2> QED BY <2>1 DEF Create, SizeExact
<1>7. TokenAccounting'
  <2>1. ReceiversAt("take")' = ReceiversAt("take")
    BY DEF Create, ReceiversAt
  <2>2. Cardinality(SendersAt("write")') = Cardinality(SendersAt("write"))
    BY SenderMoves, spc[s] # "write", "made" # "write" DEF Create
  <2> QED BY <2>1, <2>2 DEF Create, TokenAccounting
<1> QED BY <1>1, <1>2, <1>3, <1>4, <1>5, <1>6, <1>7

(* A refused enqueue changes the sender's position only. *)
LEMMA EnFullInv ==
    ASSUME IInv, NEW s \in Senders, EnFull(s)
    PROVE  IInv'
<1> USE DEF IInv
<1>1. TypeOK'
  BY DEF EnFull, TypeOK
<1>2. Holding'
  BY DEF EnFull, Holding, TypeOK
<1>3. Closed'
  BY DEF EnFull, Closed
<1>4. OnePlace' /\ NoneLost' /\ SizeExact'
  BY DEF EnFull, OnePlace, NoneLost, SizeExact, In
<1>5. TokenAccounting'
  <2>1. ReceiversAt("take")' = ReceiversAt("take")
    BY DEF EnFull, ReceiversAt
  <2>2. Cardinality(SendersAt("write")') = Cardinality(SendersAt("write"))
    BY SenderMoves, spc[s] # "write", "full" # "write" DEF EnFull
  <2> QED BY <2>1, <2>2 DEF EnFull, TokenAccounting
<1> QED BY <1>1, <1>2, <1>3, <1>4, <1>5

(* The enqueued message is appended to one list: the other lists keep      *)
(* their messages and the appended one was in no list before.              *)
LEMMA EnInv ==
    ASSUME IInv, NEW s \in Senders, NEW i \in Pri, En(s, i)
    PROVE  IInv'
<1> USE DEF IInv
<1>1. PICK m \in shold[s] : /\ q' = [q EXCEPT ![i] = Append(@, m)]
                            /\ loc' = [loc EXCEPT ![m] = "queued"]
  BY DEF En
<1>2. m \in Msgs /\ loc[m] = "held" /\ shold[s] = {m}
  BY <1>1 DEF En, TypeOK, OnePlace, Holding
<1>3. /\ Len(q'[i]) = Len(q[i]) + 1
      /\ q'[i][Len(q[i]) + 1] = m
      /\ \A k \in 1 .. Len(q[i]) : q'[i][k] = q[i][k]
      /\ q'[i] \in Seq(Msgs)
      /\ \A j \in Pri : j # i => q'[j] = q[j]
      /\ \A j \in Pri : Len(q[j]) \in Nat
  BY <1>1, <1>2 DEF TypeOK
<1>4. TypeOK'
  BY <1>1, <1>2 DEF En, TypeOK
<1>5. Holding'
  BY DEF En, Holding, TypeOK
<1>6. Closed'
  BY DEF En, Closed
<1>7. OnePlace'
  <2>1. \A j \in Pri : \A k \in 1 .. Len(q[j]) : q[j][k] \in Msgs /\ q[j][k] # m
    BY <1>2 DEF OnePlace, TypeOK
  <2>2. \A j \in Pri : \A k \in 1 .. Len(q'[j]) :
           \/ k \in 1 .. Len(q[j]) /\ q'[j][k] = q[j][k]
           \/ j = i /\ k = Len(q[i]) + 1 /\ q'[j][k] = m
    BY <1>3
  <2>3. \A j \in Pri : \A k \in 1 .. Len(q'[j]) : loc'[q'[j][k]] = "queued"
    BY <1>1, <1>2, <2>1, <2>2 DEF OnePlace, TypeOK
  <2>4. \A j, h \in Pri : \A k \in 1 .. Len(q'[j]), l \in 1 .. Len(q'[h]) :
           q'[j][k] = q'[h][l] => j = h /\ k = l
    BY <2>1, <2>2 DEF OnePlace
  <2>5. \A t \in Senders : t # s => m \notin shold[t]
    BY <1>1 DEF OnePlace
  <2>6. \A t \in Senders : \A n \in shold'[t] : loc'[n] = "held"
    BY <1>1, <1>2, <2>5 DEF En, OnePlace, TypeOK
  <2>7. \A r \in Receivers : \A n \in rhold'[r] : loc'[n] = "taken"
    BY <1>1, <1>2 DEF En, OnePlace, TypeOK
  <2>8. \A t, u \in Senders : t # u => shold'[t] \cap shold'[u] = {}
    BY DEF En, OnePlace, TypeOK
  <2>9. \A t, r \in Receivers : t # r => rhold'[t] \cap rhold'[r] = {}
    BY DEF En, OnePlace
  <2> QED BY <2>3, <2>4, <2>6, <2>7, <2>8, <2>9 DEF OnePlace
<1>8. NoneLost'
  <2>1. ASSUME NEW n \in Msgs, loc'[n] = "queued"
        PROVE  \E j \in Pri : \E k \in 1 .. Len(q'[j]) : q'[j][k] = n
    <3>1. CASE n = m
      BY <1>3, <3>1
    <3>2. CASE n # m
      <4>1. PICK j \in Pri : \E k \in 1 .. Len(q[j]) : q[j][k] = n
        BY <1>1, <2>1, <3>2 DEF NoneLost, In, TypeOK
      <4> QED BY <1>3, <4>1
    <3> QED BY <3>1, <3>2
  <2>2. \A n \in Msgs : loc'[n] = "held" => \E t \in Senders : n \in shold'[t]
    BY <1>1, <1>2 DEF En, NoneLost, In, TypeOK
  <2>3. \A n \in Msgs : loc'[n] = "taken" => \E r \in Receivers : n \in rhold'[r]
    BY <1>1, <1>2 DEF En, NoneLost, In, TypeOK
  <2> QED BY <2>1, <2>2, <2>3 DEF NoneLost, In
<1>9. SizeExact'
  <2>1. Cardinality(In("queued")') = Cardinality(In("queued")) + 1
    BY <1>1, <1>2, MessageMoves
  <2> QED BY <2>1, MsgQueueAssumption DEF En, SizeExact, TypeOK
<1>10. TokenAccounting'
  <2>1. ReceiversAt("take")' = ReceiversAt("take")
    BY DEF En, ReceiversAt
  <2>2. Cardinality(SendersAt("write")') = Cardinality(SendersAt("write")) + 1
    BY SenderMoves DEF En
  <2> QED BY <2>1, <2>2, Counts DEF En, TokenAccounting, TypeOK
<1> QED BY <1>4, <1>5, <1>6, <1>7, <1>8, <1>9, <1>10

(* The written token replaces the sender that owed it. *)
LEMMA WriteInv ==
    ASSUME IInv, NEW s \in Senders, Write(s)
    PROVE  IInv'
<1> USE DEF IInv
<1>1. TypeOK'
  BY DEF Write, TypeOK
<1>2. Holding'
  BY DEF Write, Holding, TypeOK
<1>3. Closed'
  BY DEF Write, Closed
<1>4. OnePlace' /\ NoneLost' /\ SizeExact'
  BY DEF Write, OnePlace, NoneLost, SizeExact, In
<1>5. TokenAccounting'
  <2>1. ReceiversAt("take")' = ReceiversAt("take")
    BY DEF Write, ReceiversAt
  <2>2. Cardinality(SendersAt("write")') = Cardinality(SendersAt("write")) - 1
    BY SenderMoves DEF Write
  <2>3. Cardinality(SendersAt("write")) \in Nat /\ Cardinality(ReceiversAt("take")) \in Nat
    BY Counts
  <2>4. evfd \in Nat /\ evfd' = evfd + 1 /\ sz' = sz
    BY DEF Write, TypeOK
  <2> QED BY <2>1, <2>2, <2>3, <2>4 DEF TokenAccounting
<1> QED BY <1>1, <1>2, <1>3, <1>4, <1>5

(* A refused message that is given up leaves its sender and nothing else.  *)
LEMMA DiscardInv ==
    ASSUME IInv, NEW s \in Senders, Discard(s)
    PROVE  IInv'
<1> USE DEF IInv
<1>1. PICK m \in Msgs : shold[s] = {m} /\ loc[m] = "held"
  BY DEF Discard, Holding, OnePlace
<1>2. /\ loc' \in [Msgs -> {"heap", "pool", "held", "queued", "taken"}]
      /\ loc'[m] \in {"heap", "pool"}
      /\ \A n \in Msgs \ {m} : loc'[n] = loc[n]
  BY <1>1, ReleaseEffect DEF Discard
<1>3. TypeOK'
  BY <1>2 DEF Discard, TypeOK
<1>4. Holding'
  BY DEF Discard, Holding, TypeOK
<1>5. Closed'
  BY DEF Discard, Closed
<1>6. OnePlace'
  <2>1. \A i \in Pri : \A k \in 1 .. Len(q[i]) : q[i][k] \in Msgs \ {m}
    BY <1>1 DEF OnePlace, TypeOK
  <2>2. \A t \in Senders : t # s => m \notin shold[t]
    BY <1>1 DEF OnePlace
  <2>3. \A r \in Receivers : m \notin rhold[r]
    BY <1>1 DEF OnePlace
  <2> QED BY <1>2, <2>1, <2>2, <2>3 DEF Discard, OnePlace, TypeOK
<1>7. NoneLost'
  <2>1. \A n \in Msgs : loc'[n] = "queued" => loc[n] = "queued"
    BY <1>2
  <2>2. \A n \in Msgs : loc'[n] = "held" => \E t \in Senders : n \in shold'[t]
    BY <1>1, <1>2 DEF Discard, NoneLost, In, TypeOK
  <2>3. \A n \in Msgs : loc'[n] = "taken" => \E r \in Receivers : n \in rhold'[r]
    BY <1>2 DEF Discard, NoneLost, In
  <2> QED BY <2>1, <2>2, <2>3 DEF Discard, NoneLost, In
<1>8. SizeExact'
  <2>1. In("queued")' = In("queued")
    BY <1>1, <1>2 DEF In
  <2> QED BY <2>1 DEF Discard, SizeExact
<1>9. TokenAccounting'
  <2>1. ReceiversAt("take")' = ReceiversAt("take")
    BY DEF Discard, ReceiversAt
  <2>2. Cardinality(SendersAt("write")') = Cardinality(SendersAt("write"))
    BY SenderMoves, spc[s] # "write", "idle" # "write" DEF Discard
  <2> QED BY <2>1, <2>2 DEF Discard, TokenAccounting
<1> QED BY <1>3, <1>4, <1>5, <1>6, <1>7, <1>8, <1>9

(* The token that is read becomes the receiver that has read it. *)
LEMMA ReadInv ==
    ASSUME IInv, NEW r \in Receivers, Read(r)
    PROVE  IInv'
<1> USE DEF IInv
<1>1. TypeOK'
  BY DEF Read, TypeOK
<1>2. Holding'
  BY DEF Read, Holding, TypeOK
<1>3. Closed'
  BY DEF Read, Closed
<1>4. OnePlace' /\ NoneLost' /\ SizeExact'
  BY DEF Read, OnePlace, NoneLost, SizeExact, In
<1>5. TokenAccounting'
  <2>1. SendersAt("write")' = SendersAt("write")
    BY DEF Read, SendersAt
  <2>2. Cardinality(ReceiversAt("take")') = Cardinality(ReceiversAt("take")) + 1
    BY ReceiverMoves DEF Read
  <2> QED BY <2>1, <2>2, Counts DEF Read, TokenAccounting, TypeOK
<1> QED BY <1>1, <1>2, <1>3, <1>4, <1>5

(* A receiver between its read and the lists is counted by the tokens, so  *)
(* the size is not zero, so a message is queued, so it is in a list.       *)
LEMMA FoundByTaker ==
    ASSUME IInv, NEW r \in Receivers, rpc[r] = "take"
    PROVE  \E i \in Pri : q[i] # <<>>
<1> USE DEF IInv
<1>1. ReceiversAt("take") # {} /\ IsFiniteSet(ReceiversAt("take"))
  BY MsgQueueAssumption, FS_Subset DEF ReceiversAt
<1>2. Cardinality(ReceiversAt("take")) # 0
  BY <1>1, FS_EmptySet
<1>3. Cardinality(In("queued")) # 0
  BY <1>2, Counts DEF TokenAccounting, SizeExact, TypeOK
<1>4. PICK m : m \in In("queued")
  BY <1>3, FS_EmptySet
<1>5. PICK i \in Pri : \E k \in 1 .. Len(q[i]) : q[i][k] = m
  BY <1>4 DEF NoneLost
<1> QED BY <1>5 DEF TypeOK

(* The taken message is the head of one list: the tail keeps the others in *)
(* order, and by uniqueness none of them is the head.                      *)
LEMMA TakeInv ==
    ASSUME IInv, NEW r \in Receivers, Take(r)
    PROVE  IInv'
<1> USE DEF IInv
<1>1. PICK i \in Pri :
         /\ q[i] # <<>>
         /\ q' = [q EXCEPT ![i] = Tail(@)]
         /\ sz' = sz - 1
         /\ loc' = [loc EXCEPT ![Head(q[i])] = "taken"]
         /\ rhold' = [rhold EXCEPT ![r] = {Head(q[i])}]
         /\ rpc' = [rpc EXCEPT ![r] = "handle"]
  BY FoundByTaker DEF Take
<1>2. rpc[r] = "take" /\ rhold[r] = {} /\ UNCHANGED <<open, evfd, spc, shold>>
  BY DEF Take, Holding
<1> DEFINE m == Head(q[i])
<1>3. /\ m = q[i][1]
      /\ m \in Msgs
      /\ Tail(q[i]) \in Seq(Msgs)
      /\ Len(q[i]) \in Nat \ {0}
      /\ Len(Tail(q[i])) = Len(q[i]) - 1
      /\ \A k \in 1 .. Len(Tail(q[i])) : Tail(q[i])[k] = q[i][k + 1]
  BY <1>1, HeadTailProperties, EmptySeq DEF TypeOK
<1>4. loc[m] = "queued"
  BY <1>3 DEF OnePlace
<1>5. /\ q'[i] = Tail(q[i])
      /\ \A j \in Pri : j # i => q'[j] = q[j]
      /\ loc'[m] = "taken"
      /\ \A n \in Msgs : n # m => loc'[n] = loc[n]
      /\ rhold'[r] = {m}
      /\ \A t \in Receivers : t # r => rhold'[t] = rhold[t]
  BY <1>1, <1>3 DEF TypeOK
<1> HIDE DEF m
<1>6. sz # 0
  <2>1. IsFiniteSet(In("queued")) /\ m \in In("queued")
    BY <1>3, <1>4, MsgQueueAssumption, FS_Subset DEF In
  <2> QED BY <2>1, FS_EmptySet DEF SizeExact
<1>7. TypeOK'
  <2>1. loc' \in [Msgs -> {"heap", "pool", "held", "queued", "taken"}]
    BY <1>1 DEF TypeOK
  <2>2. rhold' \in [Receivers -> SUBSET Msgs]
    BY <1>1, <1>3 DEF TypeOK, m
  <2> QED BY <1>1, <1>2, <1>3, <1>6, <2>1, <2>2 DEF TypeOK
<1>8. Holding'
  <2>1. \A s \in Senders : spc'[s] = spc[s] /\ shold'[s] = shold[s]
    BY <1>2
  <2>2. \A t \in Receivers : t # r => rpc'[t] = rpc[t] /\ rhold'[t] = rhold[t]
    BY <1>1, <1>5 DEF TypeOK
  <2>3. rpc'[r] = "handle" /\ \E n \in Msgs : rhold'[r] = {n}
    BY <1>1, <1>3, <1>5 DEF TypeOK
  <2> QED BY <2>1, <2>2, <2>3 DEF Holding
<1>9. Closed'
  BY <1>2 DEF Closed
<1>10. OnePlace'
  <2> DEFINE old(j, k) == IF j = i THEN k + 1 ELSE k
  <2>1. \A j \in Pri : \A k \in 1 .. Len(q'[j]) :
           /\ old(j, k) \in 1 .. Len(q[j])
           /\ q'[j][k] = q[j][old(j, k)]
           /\ j = i => old(j, k) # 1
    <3> SUFFICES ASSUME NEW j \in Pri, NEW k \in 1 .. Len(q'[j])
                 PROVE  /\ old(j, k) \in 1 .. Len(q[j])
                        /\ q'[j][k] = q[j][old(j, k)]
                        /\ j = i => old(j, k) # 1
      OBVIOUS
    <3>1. CASE j = i
      <4>1. k \in 1 .. Len(Tail(q[i])) /\ q'[j][k] = Tail(q[i])[k]
        BY <1>5, <3>1
      <4>2. Tail(q[i])[k] = q[i][k + 1]
        BY <1>3, <4>1
      <4>3. k \in Nat /\ k + 1 \in 1 .. Len(q[i]) /\ k + 1 # 1
        BY <1>3, <4>1
      <4> QED BY <3>1, <4>1, <4>2, <4>3
    <3>2. CASE j # i
      BY <1>5, <3>2
    <3> QED BY <3>1, <3>2
  <2>a. \A j \in Pri : \A k, l \in Nat : old(j, k) = old(j, l) => k = l
    OBVIOUS
  <2>b. \A j \in Pri : Len(q'[j]) \in Nat
    BY <1>7 DEF TypeOK
  <2> HIDE DEF old
  <2>2. \A j \in Pri : \A k \in 1 .. Len(q'[j]) : 
           q'[j][k] # m /\ q'[j][k] \in Msgs /\ loc[q'[j][k]] = "queued"
    <3> SUFFICES ASSUME NEW j \in Pri, NEW k \in 1 .. Len(q'[j])
                 PROVE  q'[j][k] # m /\ q'[j][k] \in Msgs /\ loc[q'[j][k]] = "queued"
      OBVIOUS
    <3>1. q'[j][k] \in Msgs /\ loc[q'[j][k]] = "queued"
      BY <2>1 DEF OnePlace, TypeOK
    <3>2. q[j][old(j, k)] = q[i][1] => j = i /\ old(j, k) = 1
      BY <1>3, <2>1 DEF OnePlace
    <3> QED BY <1>3, <2>1, <3>1, <3>2
  <2>3. \A j \in Pri : \A k \in 1 .. Len(q'[j]) : loc'[q'[j][k]] = "queued"
    BY <1>5, <2>2
  <2>4. \A j, h \in Pri : \A k \in 1 .. Len(q'[j]), l \in 1 .. Len(q'[h]) :
           q'[j][k] = q'[h][l] => j = h /\ k = l
    <3> SUFFICES ASSUME NEW j \in Pri, NEW h \in Pri,
                        NEW k \in 1 .. Len(q'[j]), NEW l \in 1 .. Len(q'[h]),
                        q'[j][k] = q'[h][l]
                 PROVE  j = h /\ k = l
      OBVIOUS
    <3>1. q[j][old(j, k)] = q[h][old(h, l)]
      BY <2>1
    <3>2. j = h /\ old(j, k) = old(h, l)
      BY <2>1, <3>1 DEF OnePlace
    <3>3. k \in Nat /\ l \in Nat
      BY <2>b
    <3> QED BY <2>a, <3>2, <3>3
  <2>5. \A s \in Senders : \A n \in shold'[s] : loc'[n] = "held"
    BY <1>2, <1>4, <1>5 DEF OnePlace, TypeOK
  <2>6. \A t \in Receivers : \A n \in rhold'[t] : loc'[n] = "taken"
    BY <1>4, <1>5 DEF OnePlace, TypeOK
  <2>7. \A s, t \in Senders : s # t => shold'[s] \cap shold'[t] = {}
    BY <1>2 DEF OnePlace
  <2>8. \A t \in Receivers : m \notin rhold[t]
    BY <1>4 DEF OnePlace
  <2>9. \A t, u \in Receivers : t # u => rhold'[t] \cap rhold'[u] = {}
    BY <1>5, <2>8 DEF OnePlace
  <2> QED BY <2>3, <2>4, <2>5, <2>6, <2>7, <2>9 DEF OnePlace
<1>11. NoneLost'
  <2>1. ASSUME NEW n \in Msgs, loc'[n] = "queued"
        PROVE  \E j \in Pri : \E k \in 1 .. Len(q'[j]) : q'[j][k] = n
    <3>1. n # m /\ loc[n] = "queued"
      BY <1>5, <2>1
    <3>a. PICK j \in Pri : \E k \in 1 .. Len(q[j]) : q[j][k] = n
      BY <3>1 DEF NoneLost, In
    <3>2. PICK k \in 1 .. Len(q[j]) : q[j][k] = n
      BY <3>a
    <3>3. CASE j = i
      <4>1. k # 1
        BY <1>3, <3>1, <3>2, <3>3
      <4>2. k - 1 \in 1 .. Len(q'[i]) /\ q'[i][k - 1] = n
        BY <1>3, <1>5, <3>2, <3>3, <4>1
      <4> QED BY <4>2
    <3>4. CASE j # i
      BY <1>5, <3>2, <3>4
    <3> QED BY <3>3, <3>4
  <2>2. \A n \in Msgs : loc'[n] = "held" => \E s \in Senders : n \in shold'[s]
    BY <1>2, <1>5 DEF NoneLost, In
  <2>3. ASSUME NEW n \in Msgs, loc'[n] = "taken"
        PROVE  \E t \in Receivers : n \in rhold'[t]
    <3>1. CASE n = m
      BY <1>5, <3>1
    <3>2. CASE n # m
      <4>1. PICK t \in Receivers : n \in rhold[t]
        BY <1>5, <2>3, <3>2 DEF NoneLost, In
      <4> QED BY <1>2, <1>5, <4>1
    <3> QED BY <3>1, <3>2
  <2> QED BY <2>1, <2>2, <2>3 DEF NoneLost, In
<1>12. SizeExact'
  <2>1. loc' = [loc EXCEPT ![m] = "taken"]
    BY <1>1 DEF m
  <2>2. Cardinality(In("queued")') = Cardinality(In("queued")) - 1
    <3>1. ASSUME NEW n \in Msgs, loc' = [loc EXCEPT ![n] = "taken"], loc[n] = "queued"
          PROVE  Cardinality(In("queued")') = Cardinality(In("queued")) - 1
      BY ONLY TypeOK, <3>1, "taken" # "queued", MessageMoves
    <3> QED BY <1>3, <1>4, <2>1, <3>1
  <2> QED BY <1>1, <2>2, MsgQueueAssumption DEF SizeExact, TypeOK
<1>13. TokenAccounting'
  <2>1. SendersAt("write")' = SendersAt("write")
    BY <1>2 DEF SendersAt
  <2>2. Cardinality(ReceiversAt("take")') = Cardinality(ReceiversAt("take")) - 1
    BY <1>1, <1>2, "handle" # "take", ReceiverMoves
  <2>3. Cardinality(SendersAt("write")) \in Nat /\ Cardinality(ReceiversAt("take")) \in Nat
    BY Counts
  <2>4. evfd \in Nat /\ evfd' = evfd /\ sz' = sz - 1
    BY <1>1, <1>2 DEF TypeOK
  <2> QED BY <2>1, <2>2, <2>3, <2>4 DEF TokenAccounting
<1> QED BY <1>7, <1>8, <1>9, <1>10, <1>11, <1>12, <1>13

(* A handled message leaves its receiver and nothing else. *)
LEMMA HandleInv ==
    ASSUME IInv, NEW r \in Receivers, Handle(r)
    PROVE  IInv'
<1> USE DEF IInv
<1>1. PICK m \in Msgs : rhold[r] = {m} /\ loc[m] = "taken"
  BY DEF Handle, Holding, OnePlace
<1>2. /\ loc' \in [Msgs -> {"heap", "pool", "held", "queued", "taken"}]
      /\ loc'[m] \in {"heap", "pool"}
      /\ \A n \in Msgs \ {m} : loc'[n] = loc[n]
  BY <1>1, ReleaseEffect DEF Handle
<1>3. TypeOK'
  BY <1>2 DEF Handle, TypeOK
<1>4. Holding'
  BY DEF Handle, Holding, TypeOK
<1>5. Closed'
  BY DEF Handle, Closed
<1>6. OnePlace'
  <2>1. \A i \in Pri : \A k \in 1 .. Len(q[i]) : q[i][k] \in Msgs \ {m}
    BY <1>1 DEF OnePlace, TypeOK
  <2>2. \A t \in Receivers : t # r => m \notin rhold[t]
    BY <1>1 DEF OnePlace
  <2>3. \A s \in Senders : m \notin shold[s]
    BY <1>1 DEF OnePlace
  <2> QED BY <1>2, <2>1, <2>2, <2>3 DEF Handle, OnePlace, TypeOK
<1>7. NoneLost'
  <2>1. \A n \in Msgs : loc'[n] = "queued" => loc[n] = "queued"
    BY <1>2
  <2>2. \A n \in Msgs : loc'[n] = "taken" => \E t \in Receivers : n \in rhold'[t]
    BY <1>1, <1>2 DEF Handle, NoneLost, In, TypeOK
  <2>3. \A n \in Msgs : loc'[n] = "held" => \E s \in Senders : n \in shold'[s]
    BY <1>2 DEF Handle, NoneLost, In
  <2> QED BY <2>1, <2>2, <2>3 DEF Handle, NoneLost, In
<1>8. SizeExact'
  <2>1. In("queued")' = In("queued")
    BY <1>1, <1>2 DEF In
  <2> QED BY <2>1 DEF Handle, SizeExact
<1>9. TokenAccounting'
  <2>1. SendersAt("write")' = SendersAt("write")
    BY DEF Handle, SendersAt
  <2>2. Cardinality(ReceiversAt("take")') = Cardinality(ReceiversAt("take"))
    BY ReceiverMoves, rpc[r] # "take", "idle" # "take" DEF Handle
  <2> QED BY <2>1, <2>2 DEF Handle, TokenAccounting
<1> QED BY <1>3, <1>4, <1>5, <1>6, <1>7, <1>8, <1>9

(* With every thread outside, an emptied queue has no size and no token. *)
LEMMA EmptyInv ==
    ASSUME IInv, open' \in BOOLEAN,
           \A s \in Senders : spc[s] = "idle",
           \A r \in Receivers : rpc[r] = "idle",
           q' = [i \in Pri |-> <<>>], sz' = 0, evfd' = 0,
           UNCHANGED <<spc, shold, rpc, rhold>>,
           loc' \in [Msgs -> {"heap", "pool", "held", "queued", "taken"}],
           \A m \in Msgs : loc[m] = "queued" => loc'[m] \in {"heap", "pool"},
           \A m \in Msgs : loc[m] # "queued" => loc'[m] = loc[m]
    PROVE  IInv'
<1> USE DEF IInv
<1>1. \A i \in Pri : q'[i] = <<>> /\ Len(q'[i]) = 0
  OBVIOUS
<1>2. TypeOK'
  BY DEF TypeOK
<1>3. Holding' /\ Closed'
  BY <1>1 DEF Holding, Closed
<1>4. OnePlace'
  BY <1>1 DEF OnePlace, Holding
<1>5. \A m \in Msgs : loc'[m] \notin {"held", "taken"}
  <2>1. ASSUME NEW m \in Msgs PROVE loc[m] \notin {"held", "taken"}
    BY DEF NoneLost, In, Holding
  <2> QED BY <2>1
<1>6. NoneLost'
  BY <1>5 DEF NoneLost, In
<1>7. SizeExact'
  <2>1. In("queued")' = {}
    BY DEF In
  <2>2. Cardinality(In("queued")') = 0
    BY <2>1, FS_EmptySet
  <2> QED BY <2>2, MsgQueueAssumption DEF SizeExact
<1>8. TokenAccounting'
  <2>1. SendersAt("write")' = {} /\ ReceiversAt("take")' = {}
    BY DEF SendersAt, ReceiversAt
  <2>2. Cardinality(SendersAt("write")') = 0 /\ Cardinality(ReceiversAt("take")') = 0
    BY <2>1, FS_EmptySet
  <2> QED BY <2>2 DEF TokenAccounting
<1> QED BY <1>2, <1>3, <1>4, <1>6, <1>7, <1>8

(* ymsgq_destroy releases the queued messages, and all of them. *)
LEMMA DestroyInv ==
    ASSUME IInv, Destroy
    PROVE  IInv'
<1>1. In("queued") \in SUBSET Msgs
  BY DEF In
<1>2. /\ loc' \in [Msgs -> {"heap", "pool", "held", "queued", "taken"}]
      /\ \A m \in In("queued") : loc'[m] \in {"heap", "pool"}
      /\ \A m \in Msgs \ In("queued") : loc'[m] = loc[m]
  BY <1>1, ReleaseEffect DEF Destroy, IInv
<1>3. /\ \A m \in Msgs : loc[m] = "queued" => loc'[m] \in {"heap", "pool"}
      /\ \A m \in Msgs : loc[m] # "queued" => loc'[m] = loc[m]
  BY <1>2 DEF In
<1> QED BY <1>2, <1>3, EmptyInv DEF Destroy

(* A new queue finds no message queued. *)
LEMMA RecreateInv ==
    ASSUME IInv, Recreate
    PROVE  IInv'
<1>1. \A m \in Msgs : loc[m] # "queued"
  <2>1. \A i \in Pri : Len(q[i]) = 0
    BY DEF Recreate, IInv, Closed
  <2> QED BY <2>1 DEF IInv, NoneLost, In
<1> QED BY <1>1, EmptyInv DEF Recreate, IInv, Closed, TypeOK

------------------------------------------------------------------------------
(* A new queue satisfies the invariant. *)
LEMMA InitInv == Init => IInv
<1> SUFFICES ASSUME Init PROVE IInv
  OBVIOUS
<1>1. TypeOK
  BY DEF Init, TypeOK
<1>2. Holding /\ Closed /\ NoneLost
  BY DEF Init, Holding, Closed, NoneLost, In
<1>3. OnePlace
  BY DEF Init, OnePlace
<1>4. SizeExact
  <2>1. In("queued") = {}
    BY DEF Init, In
  <2>2. Cardinality(In("queued")) = 0
    BY <2>1, FS_EmptySet
  <2> QED BY <2>2, MsgQueueAssumption DEF Init, SizeExact
<1>5. TokenAccounting
  <2>1. SendersAt("write") = {} /\ ReceiversAt("take") = {}
    BY DEF Init, SendersAt, ReceiversAt
  <2>2. Cardinality(SendersAt("write")) = 0 /\ Cardinality(ReceiversAt("take")) = 0
    BY <2>1, FS_EmptySet
  <2> QED BY <2>2 DEF Init, TokenAccounting
<1> QED BY <1>1, <1>2, <1>3, <1>4, <1>5 DEF IInv

(* A stuttering step changes nothing the invariant speaks of. *)
LEMMA StutterInv ==
    ASSUME IInv, UNCHANGED vars
    PROVE  IInv'
  BY DEF vars, IInv, TypeOK, Holding, Closed, OnePlace, NoneLost, SizeExact,
         TokenAccounting, In, SendersAt, ReceiversAt

(* Every step preserves the invariant. *)
LEMMA NextInv == IInv /\ [Next]_vars => IInv'
<1> SUFFICES ASSUME IInv, [Next]_vars PROVE IInv'
  OBVIOUS
<1>1. ASSUME NEW s \in Senders, SenderStep(s) PROVE IInv'
  BY <1>1, CreateInv, EnFullInv, EnInv, WriteInv, DiscardInv DEF SenderStep
<1>2. ASSUME NEW r \in Receivers, ReceiverStep(r) PROVE IInv'
  BY <1>2, ReadInv, TakeInv, HandleInv DEF ReceiverStep
<1> QED BY <1>1, <1>2, DestroyInv, RecreateInv, StutterInv DEF Next

(* The strengthened invariant holds in every reachable state: types, the   *)
(* single place of every message object, the exact size and the tokens.    *)
THEOREM Inductive == Spec => []IInv
  BY InitInv, NextInv, PTL DEF Spec

(* Every variable keeps its type; in particular the size and the eventfd   *)
(* counter never go below zero.                                            *)
THEOREM TypeCorrect == Spec => []TypeOK
<1>1. IInv => TypeOK
  BY DEF IInv
<1> QED BY Inductive, <1>1, PTL

(* The tokens account for the messages: one token in the eventfd, in a     *)
(* sender about to write or in a receiver that has read, for each message. *)
THEOREM TokensAccountForMessages == Spec => [](SizeExact /\ TokenAccounting)
<1>1. IInv => SizeExact /\ TokenAccounting
  BY DEF IInv
<1> QED BY Inductive, <1>1, PTL

(* No message object is ever in two places and none is lost. *)
THEOREM MessagesConserved == Spec => [](OnePlace /\ NoneLost)
<1>1. IInv => OnePlace /\ NoneLost
  BY DEF IInv
<1> QED BY Inductive, <1>1, PTL

(* A receiver that got past the blocking read finds a message: ymsgq_de    *)
(* does not return NULL.                                                   *)
THEOREM DequeueNeverEmptyHanded == Spec => []DequeueFindsMessage
<1>1. IInv => DequeueFindsMessage
  BY FoundByTaker DEF DequeueFindsMessage, ReceiversAt
<1> QED BY Inductive, <1>1, PTL

(* The books of the message objects are right in every reachable state,    *)
(* for any numbers of objects and threads and any capacities.              *)
THEOREM ObjectsAreConserved == Spec => []ObjectsConserved
<1>1. IInv => ObjectsConserved
  BY DEF IInv, ObjectsConserved
<1> QED BY Inductive, <1>1, PTL

(* Every wake-up is for a message and every message has its wake-up,       *)
(* however senders and receivers overtake each other.                      *)
THEOREM WakeUpsAreExact == Spec => []WakeUpsExact
<1>1. IInv => WakeUpsExact
  BY FoundByTaker DEF IInv, WakeUpsExact, DequeueFindsMessage, ReceiversAt
<1> QED BY Inductive, <1>1, PTL

------------------------------------------------------------------------------
(* The refinement: the mailbox holds exactly the queued messages. *)
LEMMA InsideIsQueued ==
    ASSUME IInv
    PROVE  MB!Inside = In("queued")
<1>1. ASSUME NEW m \in MB!Inside PROVE m \in In("queued")
  BY <1>1 DEF MB!Inside, MB!Pri, Pri, IInv, OnePlace, In
<1>2. ASSUME NEW m \in In("queued") PROVE m \in MB!Inside
  BY <1>2 DEF MB!Inside, MB!Pri, Pri, IInv, NoneLost, In
<1> QED BY <1>1, <1>2 DEF MB!Inside, In

(* The mailbox counts with the same operator. *)
LEMMA SameCardinality == \A S : MB!Cardinality(S) = Cardinality(S)
  BY DEF MB!Cardinality, Cardinality, MB!IsFiniteSet, IsFiniteSet

(* An enqueue is an acceptance by the mailbox. *)
LEMMA EnIsAccept ==
    ASSUME IInv, NEW s \in Senders, NEW i \in Pri, En(s, i)
    PROVE  MB!Next
<1> USE DEF IInv
<1>1. PICK m \in Msgs : m \in shold[s] /\ q' = [q EXCEPT ![i] = Append(@, m)]
  BY DEF En, TypeOK
<1>2. loc[m] = "held"
  BY <1>1 DEF OnePlace
<1>3. m \notin MB!Inside /\ \A r \in Receivers : m \notin rhold[r]
  BY <1>2, InsideIsQueued DEF In, OnePlace
<1>4. Cardinality(MB!Inside) < Capacity
  BY InsideIsQueued DEF En, SizeExact
<1>5. ReceiversAt("take")' = ReceiversAt("take") /\ rhold' = rhold
  BY DEF En, ReceiversAt
<1>6. MB!Accept(m, i)
  BY <1>1, <1>3, <1>4, <1>5, SameCardinality DEF MB!Accept
<1> QED BY <1>6 DEF MB!Next, MB!Pri, Pri

(* A token read while every token is accounted for is a granted claim. *)
LEMMA ReadIsClaim ==
    ASSUME IInv, NEW r \in Receivers, Read(r)
    PROVE  MB!Next
<1> USE DEF IInv
<1>1. r \notin ReceiversAt("take") /\ rhold[r] = {}
  BY DEF Read, ReceiversAt, Holding
<1>2. Cardinality(ReceiversAt("take")) < Cardinality(MB!Inside)
  <2>1. /\ Cardinality(SendersAt("write")) \in Nat
        /\ Cardinality(ReceiversAt("take")) \in Nat
    BY Counts
  <2>2. evfd \in Nat /\ evfd > 0
    BY DEF Read, TypeOK
  <2>3. Cardinality(MB!Inside) = sz
    BY InsideIsQueued DEF SizeExact
  <2> QED BY <2>1, <2>2, <2>3 DEF TokenAccounting
<1>3. ReceiversAt("take")' = ReceiversAt("take") \union {r}
  BY DEF Read, ReceiversAt, TypeOK
<1>4. MB!Claim(r)
  BY <1>1, <1>2, <1>3, SameCardinality DEF MB!Claim, Read
<1> QED BY <1>4 DEF MB!Next

(* A dequeue honours a claim. *)
LEMMA TakeIsDeliver ==
    ASSUME IInv, NEW r \in Receivers, Take(r)
    PROVE  MB!Next
<1> USE DEF IInv
<1>1. PICK i \in Pri :
         /\ q[i] # <<>>
         /\ \A j \in Pri : j < i => q[j] = <<>>
         /\ q' = [q EXCEPT ![i] = Tail(@)]
         /\ rhold' = [rhold EXCEPT ![r] = {Head(q[i])}]
         /\ rpc' = [rpc EXCEPT ![r] = "handle"]
  BY FoundByTaker DEF Take
<1>2. r \in ReceiversAt("take") /\ ReceiversAt("take")' = ReceiversAt("take") \ {r}
  BY <1>1 DEF Take, ReceiversAt, TypeOK
<1>3. MB!Deliver(r, i)
  BY <1>1, <1>2 DEF MB!Deliver, MB!Pri, Pri
<1> QED BY <1>3 DEF MB!Next, MB!Pri, Pri

(* The end of the handling is the end of the delivery. *)
LEMMA HandleIsFinish ==
    ASSUME IInv, NEW r \in Receivers, Handle(r)
    PROVE  MB!Next
<1>1. rhold[r] # {}
  BY DEF IInv, Holding, Handle
<1>2. ReceiversAt("take")' = ReceiversAt("take")
  BY DEF IInv, Handle, ReceiversAt, TypeOK
<1>3. MB!Finish(r)
  BY <1>1, <1>2 DEF MB!Finish, Handle
<1> QED BY <1>3 DEF MB!Next

(* The destruction of the queue is the closing of the mailbox. *)
LEMMA DestroyIsClose ==
    ASSUME IInv, Destroy
    PROVE  MB!Next
<1>1. ReceiversAt("take") = {} /\ ReceiversAt("take")' = {}
  BY DEF Destroy, ReceiversAt
<1>2. \A r \in Receivers : rhold[r] = {}
  BY DEF IInv, Holding, Destroy
<1>3. MB!Close
  BY <1>1, <1>2 DEF MB!Close, MB!Pri, Pri, Destroy
<1> QED BY <1>3 DEF MB!Next

(* The other steps change nothing the mailbox shows. *)
LEMMA OtherStepsStutter ==
    ASSUME IInv, UNCHANGED <<rpc, rhold>>,
           q' = q \/ (~open /\ q' = [i \in Pri |-> <<>>])
    PROVE  UNCHANGED MB!vars
<1>1. q' = q
  BY DEF IInv, Closed, TypeOK
<1>2. ReceiversAt("take")' = ReceiversAt("take")
  BY DEF ReceiversAt
<1> QED BY <1>1, <1>2 DEF MB!vars

(* The message queue implements the abstract mailbox: every behaviour of   *)
(* the queue, with its tokens read and written outside the mutex, is one   *)
(* of a mailbox that grants claims only for unclaimed messages and honours *)
(* them in order of priority and acceptance.                               *)
THEOREM Refinement == Spec => ImplementsMailbox
<1>1. Init => MB!Init
  <2> SUFFICES ASSUME Init PROVE MB!Init
    OBVIOUS
  <2>1. ReceiversAt("take") = {}
    BY DEF Init, ReceiversAt
  <2> QED BY <2>1 DEF Init, MB!Init, MB!Pri, Pri
<1>2. IInv /\ [Next]_vars => [MB!Next]_(MB!vars)
  <2> SUFFICES ASSUME IInv, [Next]_vars PROVE MB!Next \/ UNCHANGED MB!vars
    OBVIOUS
  <2>1. ASSUME NEW s \in Senders, SenderStep(s) PROVE MB!Next \/ UNCHANGED MB!vars
    <3>1. ASSUME NEW m \in Msgs, Create(s, m) PROVE UNCHANGED MB!vars
      BY <3>1, OtherStepsStutter DEF Create
    <3>2. CASE EnFull(s)
      BY <3>2, OtherStepsStutter DEF EnFull
    <3>3. ASSUME NEW i \in Pri, En(s, i) PROVE MB!Next
      BY <3>3, EnIsAccept
    <3>4. CASE Write(s)
      BY <3>4, OtherStepsStutter DEF Write
    <3>5. CASE Discard(s)
      BY <3>5, OtherStepsStutter DEF Discard
    <3> QED BY <2>1, <3>1, <3>2, <3>3, <3>4, <3>5 DEF SenderStep
  <2>2. ASSUME NEW r \in Receivers, ReceiverStep(r) PROVE MB!Next
    BY <2>2, ReadIsClaim, TakeIsDeliver, HandleIsFinish DEF ReceiverStep
  <2>3. CASE Recreate
    BY <2>3, OtherStepsStutter DEF Recreate
  <2>4. CASE UNCHANGED vars
    BY <2>4, OtherStepsStutter DEF vars
  <2> QED BY <2>1, <2>2, <2>3, <2>4, DestroyIsClose DEF Next
<1> QED BY <1>1, <1>2, Inductive, PTL DEF Spec, ImplementsMailbox, MB!Spec

==============================================================================
