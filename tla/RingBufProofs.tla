---------------------------- MODULE RingBufProofs -----------------------------
(***************************************************************************)
(* Proofs about RingBuf, for any number of readers, words and slots and    *)
(* any even number of versions: a read that succeeds is of one recent      *)
(* write, and a read that fails was lapped by the writer.                  *)
(***************************************************************************)
EXTENDS RingBuf, TLAPS

(* A slot is being written from its mark to its publication. *)
Written(s) == wpc = "copy" /\ s = wsi

(* Versions are odd exactly while their slot is written. *)
OddWhileWritten == \A s \in Slots : Odd(ver[s]) <=> Written(s)

(* The words of a slot that is not written are of one write, and those     *)
(* already copied into the slot being written are of the present one.      *)
SlotsWhole ==
    /\ \A s \in Slots : ~Written(s) => \A v, w \in Words : data[s][v] = data[s][w]
    /\ wpc = "copy" => \A w \in Words \ todo : data[wsi][w] = writes

(* The version that a reader saw, and how often it has grown since.        *)
Counted ==
    \A r \in Readers : rpc[r] = "copy" =>
        /\ ~Odd(pre[r])
        /\ passed[r] < Versions =>
              ver[rslot[r]] = IF pre[r] + passed[r] < Versions
                              THEN pre[r] + passed[r]
                              ELSE pre[r] + passed[r] - Versions

(* While the version of its slot stands still, a reader copies from a slot *)
(* that is not written.                                                    *)
CopyClean ==
    \A r \in Readers : rpc[r] = "copy" /\ passed[r] = 0 =>
        \A w \in Words \ uncopied[r] : copied[r][w] = data[rslot[r]][w]

(* The writes that are visible through wsi. *)
Visible == IF wpc = "idle" THEN writes ELSE writes - 1

(* The slot that a reader would choose now holds the last visible write;   *)
(* the slot just published holds the present one; no word is ahead.        *)
SlotsCurrent ==
    /\ wpc # "idle" => writes > 0
    /\ \A w \in Words : data[IF wsi = 0 THEN SlotNr - 1 ELSE wsi - 1][w] = Visible
    /\ wpc = "advance" => \A w \in Words : data[wsi][w] = writes
    /\ \A s \in Slots, w \in Words : data[s][w] <= writes

(* What a reader has copied, and what it has still to copy, is not older   *)
(* than what was visible when it chose its slot.                           *)
CopyFresh ==
    \A r \in Readers :
        /\ floor[r] <= since[r] /\ since[r] <= floor[r] + 1 /\ since[r] <= writes
        /\ floor[r] <= Visible
        /\ rpc[r] \in {"ver", "copy"} => \A w \in Words : floor[r] <= data[rslot[r]][w]
        /\ rpc[r] = "copy" => \A w \in Words \ uncopied[r] :
              floor[r] <= copied[r][w] /\ copied[r][w] <= writes

(* Slots from the one of the writer to the one of a reader. *)
Ahead(r) == IF rslot[r] >= wsi THEN rslot[r] - wsi ELSE rslot[r] - wsi + SlotNr

(* The writer comes to the reader's slot only after a whole round. *)
Distance ==
    \A r \in Readers : rpc[r] \in {"ver", "copy"} =>
        /\ writes - floor[r] + Ahead(r) >= IF wpc = "idle" THEN SlotNr - 1 ELSE SlotNr
        /\ rpc[r] = "copy" /\ passed[r] > 0 => writes >= since[r] + SlotNr - 1

UntornInv == OddWhileWritten /\ SlotsWhole /\ Counted /\ CopyClean /\ ReadUntorn
FreshInv == SlotsCurrent /\ CopyFresh /\ ReadFresh
IInv == RingTypeOK /\ UntornInv /\ FreshInv /\ Distance /\ RetryMeansLapped

------------------------------------------------------------------------------
(* The next version, as addition with a carry. *)
LEMMA BumpValue ==
    ASSUME NEW v \in 0 .. Versions - 1
    PROVE  Bump(v) = IF v = Versions - 1 THEN 0 ELSE v + 1
<1>1. Versions \in Nat \ {0}
  BY RingBufAssumption
<1>2. CASE v = Versions - 1
  <2>1. v + 1 = Versions
    BY <1>1, <1>2
  <2>2. Versions % Versions = 0
    BY <1>1
  <2> QED BY <1>2, <2>1, <2>2 DEF Bump
<1>3. CASE v # Versions - 1
  <2>1. v + 1 \in 0 .. Versions - 1
    BY <1>1, <1>3
  <2>2. (v + 1) % Versions = v + 1
    BY <1>1, <2>1
  <2> QED BY <1>3, <2>2 DEF Bump
<1> QED BY <1>2, <1>3

(* An increment turns odd into even and even into odd, also when it wraps. *)
LEMMA BumpParity ==
    ASSUME NEW v \in 0 .. Versions - 1
    PROVE  Bump(v) \in 0 .. Versions - 1 /\ (Odd(Bump(v)) <=> ~Odd(v))
  BY BumpValue, RingBufAssumption DEF Odd

(* The next index, as addition with a carry. *)
LEMMA NextIndex ==
    ASSUME NEW s \in Slots
    PROVE  (s + 1) % SlotNr = IF s = SlotNr - 1 THEN 0 ELSE s + 1
<1>1. SlotNr \in Nat \ {0} /\ s \in 0 .. SlotNr - 1
  BY RingBufAssumption DEF Slots
<1>2. CASE s = SlotNr - 1
  <2>1. s + 1 = SlotNr
    BY <1>1, <1>2
  <2>2. SlotNr % SlotNr = 0
    BY <1>1
  <2> QED BY <1>2, <2>1, <2>2
<1>3. CASE s # SlotNr - 1
  <2>1. s + 1 \in 0 .. SlotNr - 1
    BY <1>1, <1>3
  <2>2. (s + 1) % SlotNr = s + 1
    BY <1>1, <2>1
  <2> QED BY <1>3, <2>2
<1> QED BY <1>2, <1>3

(* What an increment changes. *)
LEMMA IncrementFacts ==
    ASSUME RingTypeOK, Increment
    PROVE  /\ wsi \in Slots /\ ver[wsi] \in 0 .. Versions - 1
           /\ ver' \in [Slots -> 0 .. Versions - 1]
           /\ ver'[wsi] = Bump(ver[wsi])
           /\ \A s \in Slots \ {wsi} : ver'[s] = ver[s]
           /\ passed' \in [Readers -> Nat]
           /\ \A r \in Readers :
                 passed'[r] = IF rslot[r] = wsi THEN passed[r] + 1 ELSE passed[r]
<1>1. wsi \in Slots /\ ver[wsi] \in 0 .. Versions - 1
  BY DEF RingTypeOK
<1>2. Bump(ver[wsi]) \in 0 .. Versions - 1
  BY <1>1, BumpParity
<1>3. /\ ver' \in [Slots -> 0 .. Versions - 1]
      /\ ver'[wsi] = Bump(ver[wsi])
      /\ \A s \in Slots \ {wsi} : ver'[s] = ver[s]
  BY <1>1, <1>2 DEF Increment, RingTypeOK
<1>4. \A r \in Readers : passed[r] + 1 \in Nat
  BY DEF RingTypeOK
<1>5. passed' \in [Readers -> Nat]
  BY <1>4 DEF Increment, RingTypeOK
<1> QED BY <1>1, <1>3, <1>5 DEF Increment

(* An increment keeps what is known of the copies of the readers: those of *)
(* the slot are passed once more.                                          *)
LEMMA IncrementReaders ==
    ASSUME RingTypeOK, Counted, CopyClean, ReadUntorn, Increment,
           UNCHANGED <<data, rpc, readVars>>
    PROVE  Counted' /\ CopyClean' /\ ReadUntorn'
<1>0. UNCHANGED <<data, rpc, rslot, pre, uncopied, copied>>
  BY DEF readVars
<1>1. ASSUME NEW r \in Readers
      PROVE  /\ passed[r] \in Nat /\ passed'[r] \in Nat /\ passed[r] <= passed'[r]
             /\ passed'[r] = 0 => passed[r] = 0
  BY <1>1, IncrementFacts DEF RingTypeOK
<1>2. Counted'
  <2> SUFFICES ASSUME NEW r \in Readers, rpc[r] = "copy"
               PROVE  /\ ~Odd(pre[r])
                      /\ passed'[r] < Versions =>
                            ver'[rslot[r]] = IF pre[r] + passed'[r] < Versions
                                             THEN pre[r] + passed'[r]
                                             ELSE pre[r] + passed'[r] - Versions
    BY <1>0 DEF Counted
  <2>1. rslot[r] \in Slots /\ pre[r] \in 0 .. Versions - 1 /\ Versions \in Nat
    BY RingBufAssumption DEF RingTypeOK
  <2>2. CASE rslot[r] # wsi
    BY <2>1, <2>2, IncrementFacts DEF Counted
  <2>3. CASE rslot[r] = wsi
    <3>1. passed'[r] = passed[r] + 1 /\ ver'[rslot[r]] = Bump(ver[wsi])
      BY <2>3, IncrementFacts
    <3>2. Bump(ver[wsi]) = IF ver[wsi] = Versions - 1 THEN 0 ELSE ver[wsi] + 1
      BY IncrementFacts, BumpValue
    <3>3. ver[wsi] \in 0 .. Versions - 1
      BY IncrementFacts
    <3> QED BY <1>1, <2>1, <2>3, <3>1, <3>2, <3>3 DEF Counted
  <2> QED BY <2>2, <2>3
<1>3. CopyClean'
  BY <1>0, <1>1 DEF CopyClean
<1>4. ReadUntorn'
  <2>1. ASSUME NEW r \in Readers, passed'[r] < Versions PROVE passed[r] < Versions
    BY <1>1, <2>1, RingBufAssumption
  <2> QED BY <1>0, <2>1 DEF ReadUntorn
<1> QED BY <1>2, <1>3, <1>4

(* The writer marks its slot. *)
LEMMA MarkInv ==
    ASSUME IInv, Mark
    PROVE  IInv'
<1> USE RingBufAssumption DEF IInv, UntornInv, FreshInv
<1>0. /\ wpc = "idle" /\ wpc' = "copy" /\ todo' = Words /\ writes \in Nat /\ writes' = writes + 1
      /\ UNCHANGED <<data, wsi, rpc, rslot, pre, uncopied, copied, since, floor>>
      /\ Increment /\ UNCHANGED readVars
  BY DEF Mark, readVars, RingTypeOK
<1>1. RingTypeOK'
  BY <1>0, IncrementFacts DEF RingTypeOK
<1>2. OddWhileWritten'
  BY <1>0, IncrementFacts, BumpParity DEF OddWhileWritten, Written
<1>3. SlotsWhole'
  BY <1>0 DEF SlotsWhole, Written
<1>4. Counted' /\ CopyClean' /\ ReadUntorn'
  BY <1>0, IncrementReaders
<1>5. SlotsCurrent'
  BY <1>0 DEF SlotsCurrent, Visible, RingTypeOK
<1>6. CopyFresh'
  <2>1. Visible' = Visible /\ Visible \in Nat
    BY <1>0 DEF Visible
  <2>2. ASSUME NEW r \in Readers PROVE /\ since[r] \in Nat /\ copied[r] \in [Words -> Nat]
    BY DEF RingTypeOK
  <2> QED BY <1>0, <2>1, <2>2 DEF CopyFresh
<1>7. ReadFresh'
  <2>1. \A r \in Readers : copied[r] \in [Words -> Nat]
    BY DEF RingTypeOK
  <2> QED BY <1>0, <2>1 DEF ReadFresh
<1>8. Distance'
  <2> SUFFICES ASSUME NEW r \in Readers, rpc[r] \in {"ver", "copy"}
               PROVE  /\ writes' - floor[r] + Ahead(r) >= SlotNr
                      /\ rpc[r] = "copy" /\ passed'[r] > 0 => writes' >= since[r] + SlotNr - 1
    BY <1>0 DEF Distance, Ahead
  <2>1. /\ rslot[r] \in Slots /\ wsi \in Slots /\ floor[r] \in Nat /\ since[r] \in Nat
        /\ Ahead(r) \in Nat /\ SlotNr \in Nat
    BY DEF RingTypeOK, Ahead, Slots
  <2>2. writes - floor[r] + Ahead(r) >= SlotNr - 1
    BY <1>0 DEF Distance
  <2>3. CASE rslot[r] = wsi
    <3>1. Ahead(r) = 0
      BY <2>1, <2>3 DEF Ahead, Slots
    <3>2. since[r] <= floor[r] + 1
      BY DEF CopyFresh
    <3> QED BY <1>0, <2>1, <2>2, <3>1, <3>2
  <2>4. CASE rslot[r] # wsi
    <3>1. passed'[r] = passed[r]
      BY <1>0, <2>4, IncrementFacts
    <3>2. rpc[r] = "copy" /\ passed[r] > 0 => writes >= since[r] + SlotNr - 1
      BY DEF Distance
    <3> QED BY <1>0, <2>1, <2>2, <3>1, <3>2
  <2> QED BY <2>3, <2>4
<1>9. RetryMeansLapped'
  <2>1. \A r \in Readers : since[r] \in Nat
    BY DEF RingTypeOK
  <2> QED BY <1>0, <2>1 DEF RetryMeansLapped
<1> QED BY <1>1, <1>2, <1>3, <1>4, <1>5, <1>6, <1>7, <1>8, <1>9

(* The writer copies a word: only the slot it has marked changes. *)
LEMMA CopyInInv ==
    ASSUME NEW w \in Words, IInv, CopyIn(w)
    PROVE  IInv'
<1> USE RingBufAssumption DEF IInv, UntornInv, FreshInv
<1>0. /\ wpc = "copy" /\ wsi \in Slots /\ writes \in Nat /\ writes > 0
      /\ UNCHANGED <<ver, wsi, wpc, writes, rpc, rslot, pre, uncopied, copied, since, floor, passed>>
      /\ data' \in [Slots -> [Words -> Nat]]
      /\ \A s \in Slots, v \in Words :
            data'[s][v] = IF s = wsi /\ v = w THEN writes ELSE data[s][v]
  BY DEF CopyIn, readVars, RingTypeOK, SlotsCurrent
<1>1. RingTypeOK'
  BY <1>0 DEF RingTypeOK, CopyIn
<1>2. OddWhileWritten'
  BY <1>0 DEF OddWhileWritten, Written
<1>3. SlotsWhole'
  BY <1>0 DEF SlotsWhole, Written, CopyIn
<1>4. Counted' /\ ReadUntorn'
  BY <1>0 DEF Counted, ReadUntorn
<1>5. CopyClean'
  <2>1. ASSUME NEW r \in Readers, rpc[r] = "copy", passed[r] = 0 PROVE rslot[r] # wsi
    <3>1. rslot[r] \in Slots /\ pre[r] \in 0 .. Versions - 1 /\ Versions \in Nat /\ Versions > 0
      BY DEF RingTypeOK
    <3>2. ver[rslot[r]] = pre[r] /\ ~Odd(pre[r])
      BY <2>1, <3>1 DEF Counted
    <3> QED BY <1>0, <3>1, <3>2 DEF OddWhileWritten, Written
  <2>2. \A r \in Readers : rslot[r] \in Slots
    BY DEF RingTypeOK
  <2> QED BY <1>0, <2>1, <2>2 DEF CopyClean
<1>6. SlotsCurrent'
  <2>1. Visible' = Visible
    BY <1>0 DEF Visible
  <2>2. \A s \in Slots, v \in Words : data'[s][v] <= writes
    BY <1>0 DEF SlotsCurrent
  <2>3. /\ (IF wsi = 0 THEN SlotNr - 1 ELSE wsi - 1) \in Slots
        /\ (IF wsi = 0 THEN SlotNr - 1 ELSE wsi - 1) # wsi
    BY <1>0 DEF Slots
  <2> QED BY <1>0, <2>1, <2>2, <2>3 DEF SlotsCurrent
<1>7. CopyFresh'
  <2>1. Visible' = Visible /\ Visible = writes - 1
    BY <1>0 DEF Visible
  <2>2. ASSUME NEW r \in Readers, NEW v \in Words, floor[r] <= data[rslot[r]][v]
        PROVE  floor[r] <= data'[rslot[r]][v]
    <3>1. rslot[r] \in Slots /\ floor[r] \in Nat
      BY DEF RingTypeOK
    <3>2. floor[r] <= writes - 1
      BY <2>1 DEF CopyFresh
    <3> QED BY <1>0, <2>2, <3>1, <3>2
  <2> QED BY <1>0, <2>1, <2>2 DEF CopyFresh
<1>8. ReadFresh' /\ Distance' /\ RetryMeansLapped'
  BY <1>0 DEF ReadFresh, Distance, Ahead, RetryMeansLapped
<1> QED BY <1>1, <1>2, <1>3, <1>4, <1>5, <1>6, <1>7, <1>8

(* The writer publishes its slot. *)
LEMMA PublishInv ==
    ASSUME IInv, Publish
    PROVE  IInv'
<1> USE RingBufAssumption DEF IInv, UntornInv, FreshInv
<1>0. /\ wpc = "copy" /\ wpc' = "advance" /\ todo = {} /\ writes \in Nat
      /\ UNCHANGED <<data, wsi, todo, writes, rpc, rslot, pre, uncopied, copied, since, floor>>
      /\ Increment /\ UNCHANGED readVars
  BY DEF Publish, readVars, RingTypeOK
<1>1. RingTypeOK'
  BY <1>0, IncrementFacts DEF RingTypeOK
<1>2. OddWhileWritten'
  BY <1>0, IncrementFacts, BumpParity DEF OddWhileWritten, Written
<1>3. SlotsWhole'
  BY <1>0 DEF SlotsWhole, Written
<1>4. Counted' /\ CopyClean' /\ ReadUntorn'
  BY <1>0, IncrementReaders
<1>5. SlotsCurrent' /\ CopyFresh' /\ ReadFresh'
  BY <1>0 DEF SlotsCurrent, Visible, SlotsWhole, CopyFresh, ReadFresh
<1>6. Distance'
  <2> SUFFICES ASSUME NEW r \in Readers, rpc[r] \in {"ver", "copy"}
               PROVE  /\ writes - floor[r] + Ahead(r) >= SlotNr
                      /\ rpc[r] = "copy" /\ passed'[r] > 0 => writes >= since[r] + SlotNr - 1
    BY <1>0 DEF Distance, Ahead
  <2>1. /\ rslot[r] \in Slots /\ wsi \in Slots /\ floor[r] \in Nat /\ since[r] \in Nat
        /\ SlotNr \in Nat
    BY DEF RingTypeOK
  <2>2. writes - floor[r] + Ahead(r) >= SlotNr
    BY <1>0 DEF Distance
  <2>3. CASE rslot[r] = wsi
    <3>1. Ahead(r) = 0
      BY <2>1, <2>3 DEF Ahead, Slots
    <3>2. since[r] <= floor[r] + 1
      BY DEF CopyFresh
    <3> QED BY <1>0, <2>1, <2>2, <3>1, <3>2
  <2>4. CASE rslot[r] # wsi
    <3>1. passed'[r] = passed[r]
      BY <1>0, <2>4, IncrementFacts
    <3> QED BY <2>2, <3>1 DEF Distance
  <2> QED BY <2>3, <2>4
<1>7. RetryMeansLapped'
  BY <1>0 DEF RetryMeansLapped
<1> QED BY <1>1, <1>2, <1>3, <1>4, <1>5, <1>6, <1>7

(* The writer moves on. *)
LEMMA AdvanceInv ==
    ASSUME IInv, Advance
    PROVE  IInv'
<1> USE RingBufAssumption DEF IInv, UntornInv, FreshInv
<1>0. /\ wpc = "advance" /\ wpc' = "idle" /\ writes \in Nat /\ writes > 0 /\ wsi \in Slots
      /\ wsi' = IF wsi = SlotNr - 1 THEN 0 ELSE wsi + 1
      /\ UNCHANGED <<ver, data, todo, writes, rpc, rslot, pre, uncopied, copied, since, floor, passed>>
  BY NextIndex DEF Advance, readVars, RingTypeOK, SlotsCurrent
<1>1. RingTypeOK'
  BY <1>0 DEF RingTypeOK, Slots
<1>2. OddWhileWritten' /\ SlotsWhole' /\ Counted' /\ CopyClean' /\ ReadUntorn'
  BY <1>0 DEF OddWhileWritten, Written, SlotsWhole, Counted, CopyClean, ReadUntorn
<1>3. SlotsCurrent'
  <2>1. (IF wsi' = 0 THEN SlotNr - 1 ELSE wsi' - 1) = wsi
    BY <1>0 DEF Slots
  <2>2. Visible' = writes
    BY <1>0 DEF Visible
  <2> QED BY <1>0, <2>1, <2>2 DEF SlotsCurrent
<1>4. CopyFresh' /\ ReadFresh'
  <2>1. \A r \in Readers : floor[r] <= writes
    BY <1>0 DEF CopyFresh, Visible, RingTypeOK
  <2>2. Visible' = writes
    BY <1>0 DEF Visible
  <2> QED BY <1>0, <2>1, <2>2 DEF CopyFresh, ReadFresh
<1>5. Distance'
  <2> SUFFICES ASSUME NEW r \in Readers, rpc[r] \in {"ver", "copy"}
               PROVE  writes - floor[r] + Ahead(r)' >= SlotNr - 1
    BY <1>0 DEF Distance, Ahead
  <2>1. rslot[r] \in 0 .. SlotNr - 1 /\ wsi \in 0 .. SlotNr - 1 /\ floor[r] \in Nat /\ SlotNr \in Nat
    BY <1>0 DEF RingTypeOK, Slots
  <2>2. writes - floor[r] + Ahead(r) >= SlotNr
    BY <1>0 DEF Distance
  <2>3. floor[r] <= writes
    BY <1>0, <2>1 DEF CopyFresh, Visible
  <2>4. Ahead(r)' = IF rslot[r] = wsi THEN SlotNr - 1 ELSE Ahead(r) - 1
    BY <1>0, <2>1 DEF Ahead
  <2>5. Ahead(r) \in Nat
    BY <2>1 DEF Ahead
  <2> QED BY <1>0, <2>1, <2>2, <2>3, <2>4, <2>5
<1>6. RetryMeansLapped'
  BY <1>0 DEF RetryMeansLapped
<1> QED BY <1>1, <1>2, <1>3, <1>4, <1>5, <1>6

(* A reader chooses its slot. *)
LEMMA ReadIndexInv ==
    ASSUME NEW r \in Readers, IInv, ReadIndex(r)
    PROVE  IInv'
<1> USE RingBufAssumption DEF IInv, UntornInv, FreshInv
<1> DEFINE before == IF wsi = 0 THEN SlotNr - 1 ELSE wsi - 1
<1>0. /\ writes \in Nat /\ wsi \in Slots /\ Visible \in Nat /\ Visible <= writes /\ writes <= Visible + 1
      /\ before \in Slots
  BY DEF RingTypeOK, Visible, SlotsCurrent, Slots
<1>1. /\ UNCHANGED <<ver, data, wsi, wpc, todo, writes, pre, uncopied, copied, passed>>
      /\ rpc' = [rpc EXCEPT ![r] = "ver"]
      /\ rslot' = [rslot EXCEPT ![r] = before]
      /\ since' = [since EXCEPT ![r] = writes]
      /\ floor' = [floor EXCEPT ![r] = Visible]
  BY DEF ReadIndex, slotVars, writerVars, Visible
<1> HIDE DEF before
<1>2. RingTypeOK'
  BY <1>0, <1>1 DEF RingTypeOK
<1>3. OddWhileWritten' /\ SlotsWhole' /\ Counted' /\ CopyClean' /\ ReadUntorn'
  BY <1>1 DEF RingTypeOK, OddWhileWritten, Written, SlotsWhole, Counted, CopyClean, ReadUntorn
<1>4. SlotsCurrent'
  BY <1>1 DEF SlotsCurrent, Visible
<1>5. CopyFresh'
  <2>1. Visible' = Visible
    BY <1>1 DEF Visible
  <2>2. \A w \in Words : data[before][w] = Visible
    BY DEF SlotsCurrent, before
  <2>3. ASSUME NEW q \in Readers, q # r
        PROVE  /\ floor'[q] = floor[q] /\ since'[q] = since[q] /\ rpc'[q] = rpc[q]
               /\ rslot'[q] = rslot[q]
    BY <1>1, <2>3 DEF RingTypeOK
  <2>4. floor'[r] = Visible /\ since'[r] = writes /\ rpc'[r] = "ver" /\ rslot'[r] = before
    BY <1>1 DEF RingTypeOK
  <2> QED BY <1>0, <1>1, <2>1, <2>2, <2>3, <2>4 DEF CopyFresh
<1>6. ReadFresh' /\ RetryMeansLapped'
  BY <1>1 DEF ReadFresh, RetryMeansLapped, RingTypeOK
<1>7. Distance'
  <2>1. ASSUME NEW q \in Readers, q # r
        PROVE  /\ floor'[q] = floor[q] /\ since'[q] = since[q] /\ rpc'[q] = rpc[q]
               /\ rslot'[q] = rslot[q]
    BY <1>1, <2>1 DEF RingTypeOK
  <2>2. floor'[r] = Visible /\ rpc'[r] = "ver" /\ rslot'[r] = before
    BY <1>1 DEF RingTypeOK
  <2>3. Ahead(r)' = SlotNr - 1
    BY <1>0, <1>1, <2>2 DEF Ahead, before, Slots
  <2>4. writes - Visible = IF wpc = "idle" THEN 0 ELSE 1
    BY <1>0 DEF Visible
  <2>5. writes' - floor'[r] + Ahead(r)' >= IF wpc' = "idle" THEN SlotNr - 1 ELSE SlotNr
    BY <1>0, <1>1, <2>2, <2>3, <2>4
  <2> QED BY <1>1, <2>1, <2>2, <2>5 DEF Distance, Ahead
<1> QED BY <1>2, <1>3, <1>4, <1>5, <1>6, <1>7

(* A reader looks at the version: it starts from an even one, or has been  *)
(* lapped by a writer that is in its slot.                                 *)
LEMMA ReadVerInv ==
    ASSUME NEW r \in Readers, IInv, ReadVer(r)
    PROVE  IInv'
<1> USE RingBufAssumption DEF IInv, UntornInv, FreshInv
<1>0. /\ rpc[r] = "ver" /\ rslot[r] \in Slots /\ wsi \in Slots
      /\ UNCHANGED <<ver, data, wsi, wpc, todo, writes, rslot, copied, since, floor>>
  BY DEF ReadVer, slotVars, writerVars, RingTypeOK
<1>1. CASE Odd(ver[rslot[r]])
  <2>1. UNCHANGED <<pre, uncopied, passed>> /\ rpc' = [rpc EXCEPT ![r] = "again"]
    BY <1>1 DEF ReadVer
  <2>2. RingTypeOK' /\ OddWhileWritten' /\ SlotsWhole' /\ SlotsCurrent'
    BY <1>0, <2>1 DEF RingTypeOK, OddWhileWritten, Written, SlotsWhole, SlotsCurrent, Visible
  <2>3. Counted' /\ CopyClean' /\ ReadUntorn' /\ CopyFresh' /\ ReadFresh' /\ Distance'
    BY <1>0, <2>1
    DEF Counted, CopyClean, ReadUntorn, CopyFresh, ReadFresh, Distance, Ahead, Visible, RingTypeOK
  <2>4. writes >= since[r] + SlotNr - 1
    <3>1. wpc = "copy" /\ rslot[r] = wsi
      BY <1>0, <1>1 DEF OddWhileWritten, Written
    <3>2. Ahead(r) = 0
      BY <1>0, <3>1 DEF Ahead, Slots
    <3>3. writes - floor[r] + Ahead(r) >= SlotNr /\ since[r] <= floor[r] + 1
      BY <1>0, <3>1 DEF Distance, CopyFresh
    <3>4. writes \in Nat /\ floor[r] \in Nat /\ since[r] \in Nat
      BY DEF RingTypeOK
    <3> QED BY <3>2, <3>3, <3>4
  <2>5. RetryMeansLapped'
    BY <1>0, <2>1, <2>4 DEF RetryMeansLapped, RingTypeOK
  <2> QED BY <2>2, <2>3, <2>5
<1>2. CASE ~Odd(ver[rslot[r]])
  <2>1. /\ rpc' = [rpc EXCEPT ![r] = "copy"]
        /\ pre' = [pre EXCEPT ![r] = ver[rslot[r]]]
        /\ uncopied' = [uncopied EXCEPT ![r] = Words]
        /\ passed' = [passed EXCEPT ![r] = 0]
    BY <1>2 DEF ReadVer
  <2>2. /\ rpc'[r] = "copy" /\ pre'[r] = ver[rslot[r]] /\ uncopied'[r] = Words /\ passed'[r] = 0
        /\ ver[rslot[r]] \in 0 .. Versions - 1
        /\ \A q \in Readers \ {r} : /\ rpc'[q] = rpc[q] /\ pre'[q] = pre[q]
                                    /\ uncopied'[q] = uncopied[q] /\ passed'[q] = passed[q]
    BY <1>0, <2>1 DEF RingTypeOK
  <2>3. RingTypeOK'
    <3>1. 0 \in Nat
      OBVIOUS
    <3> QED BY <1>0, <2>1, <2>2, <3>1 DEF RingTypeOK
  <2>4. OddWhileWritten' /\ SlotsWhole' /\ SlotsCurrent'
    BY <1>0 DEF OddWhileWritten, Written, SlotsWhole, SlotsCurrent, Visible
  <2>5. Counted'
    <3>1. ver[rslot[r]] + 0 < Versions /\ ver[rslot[r]] + 0 = ver[rslot[r]]
      BY <2>2
    <3> QED BY <1>0, <1>2, <2>2, <3>1 DEF Counted
  <2>6. CopyClean' /\ ReadUntorn'
    BY <1>0, <2>2 DEF CopyClean, ReadUntorn
  <2>7. CopyFresh' /\ ReadFresh' /\ RetryMeansLapped'
    BY <1>0, <2>2 DEF CopyFresh, ReadFresh, RetryMeansLapped, Visible
  <2>8. Distance'
    BY <1>0, <2>2 DEF Distance, Ahead
  <2> QED BY <2>3, <2>4, <2>5, <2>6, <2>7, <2>8
<1> QED BY <1>1, <1>2

(* A reader copies a word. *)
LEMMA CopyOutInv ==
    ASSUME NEW r \in Readers, NEW w \in Words, IInv, CopyOut(r, w)
    PROVE  IInv'
<1> USE RingBufAssumption DEF IInv, UntornInv, FreshInv
<1>0. /\ rpc[r] = "copy" /\ rslot[r] \in Slots
      /\ UNCHANGED <<ver, data, wsi, wpc, todo, writes, rpc, rslot, pre, since, floor, passed>>
  BY DEF CopyOut, slotVars, writerVars, RingTypeOK
<1>1. data[rslot[r]][w] \in Nat
  BY <1>0 DEF RingTypeOK
<1>2. copied' \in [Readers -> [Words -> Nat]] /\ uncopied' \in [Readers -> SUBSET Words]
  BY <1>1 DEF CopyOut, RingTypeOK
<1>3. /\ uncopied'[r] = uncopied[r] \ {w}
      /\ copied'[r][w] = data[rslot[r]][w]
      /\ \A v \in Words \ {w} : copied'[r][v] = copied[r][v]
      /\ \A q \in Readers \ {r} : uncopied'[q] = uncopied[q] /\ copied'[q] = copied[q]
  BY DEF CopyOut, RingTypeOK
<1>4. RingTypeOK'
  BY <1>0, <1>2 DEF RingTypeOK
<1>5. OddWhileWritten' /\ SlotsWhole' /\ Counted' /\ SlotsCurrent' /\ Distance' /\ RetryMeansLapped'
  BY <1>0 DEF OddWhileWritten, Written, SlotsWhole, Counted, SlotsCurrent, Visible, Distance,
              Ahead, RetryMeansLapped
<1>6. CopyClean'
  BY <1>0, <1>3 DEF CopyClean
<1>7. ReadUntorn' /\ ReadFresh'
  BY <1>0, <1>3 DEF ReadUntorn, ReadFresh
<1>8. CopyFresh'
  <2>1. floor[r] <= data[rslot[r]][w] /\ data[rslot[r]][w] <= writes
    BY <1>0 DEF CopyFresh, SlotsCurrent
  <2> QED BY <1>0, <1>3, <2>1 DEF CopyFresh, Visible
<1> QED BY <1>4, <1>5, <1>6, <1>7, <1>8

(* A reader decides: an unchanged version means that the writer has not    *)
(* passed it, so that its copy is of a slot that nobody wrote meanwhile.   *)
LEMMA CheckInv ==
    ASSUME NEW r \in Readers, IInv, Check(r)
    PROVE  IInv'
<1> USE RingBufAssumption DEF IInv, UntornInv, FreshInv
<1>0. /\ rpc[r] = "copy" /\ uncopied[r] = {} /\ rslot[r] \in Slots
      /\ pre[r] \in 0 .. Versions - 1 /\ passed[r] \in Nat /\ Versions \in Nat /\ Versions > 0
      /\ UNCHANGED <<ver, data, wsi, wpc, todo, writes, rslot, pre, uncopied, copied, since, floor, passed>>
  BY DEF Check, slotVars, writerVars, readVars, RingTypeOK
<1>1. \A q \in Readers \ {r} : rpc'[q] = rpc[q]
  BY DEF Check, RingTypeOK
<1>2. rpc'[r] = IF ver[rslot[r]] = pre[r] THEN "ok" ELSE "again"
  BY DEF Check, RingTypeOK
<1>3. RingTypeOK'
  BY <1>0 DEF Check, RingTypeOK
<1>4. OddWhileWritten' /\ SlotsWhole' /\ SlotsCurrent'
  BY <1>0 DEF OddWhileWritten, Written, SlotsWhole, SlotsCurrent, Visible
<1>5. Counted' /\ CopyClean' /\ CopyFresh' /\ Distance'
  BY <1>0, <1>1, <1>2 DEF Counted, CopyClean, CopyFresh, Distance, Ahead, Visible
<1>6. ReadUntorn'
  <2>1. ASSUME ver[rslot[r]] = pre[r], passed[r] < Versions
        PROVE  \A v, w \in Words : copied[r][v] = copied[r][w]
    <3>1. passed[r] = 0 /\ ~Odd(pre[r])
      BY <1>0, <2>1 DEF Counted
    <3>2. ~Written(rslot[r])
      BY <1>0, <2>1, <3>1 DEF OddWhileWritten
    <3>3. \A v \in Words : copied[r][v] = data[rslot[r]][v]
      BY <1>0, <3>1 DEF CopyClean
    <3> QED BY <1>0, <3>2, <3>3 DEF SlotsWhole
  <2> QED BY <1>0, <1>1, <1>2, <2>1 DEF ReadUntorn
<1>7. ReadFresh'
  BY <1>0, <1>1, <1>2 DEF ReadFresh, CopyFresh
<1>8. RetryMeansLapped'
  <2>1. ASSUME ver[rslot[r]] # pre[r] PROVE writes >= since[r] + SlotNr - 1
    <3>1. passed[r] > 0
      BY <1>0, <2>1 DEF Counted
    <3> QED BY <1>0, <3>1 DEF Distance
  <2> QED BY <1>0, <1>1, <1>2, <2>1 DEF RetryMeansLapped
<1> QED BY <1>3, <1>4, <1>5, <1>6, <1>7, <1>8

(* A reader returns. *)
LEMMA ReturnInv ==
    ASSUME NEW r \in Readers, IInv, Return(r)
    PROVE  IInv'
<1> USE RingBufAssumption DEF IInv, UntornInv, FreshInv
<1>0. /\ UNCHANGED <<ver, data, wsi, wpc, todo, writes, rslot, pre, uncopied, copied, since, floor, passed>>
      /\ rpc' = [rpc EXCEPT ![r] = "idle"]
  BY DEF Return, slotVars, writerVars, readVars
<1>1. RingTypeOK' /\ OddWhileWritten' /\ SlotsWhole' /\ SlotsCurrent'
  BY <1>0 DEF RingTypeOK, OddWhileWritten, Written, SlotsWhole, SlotsCurrent, Visible
<1>2. Counted' /\ CopyClean' /\ ReadUntorn' /\ CopyFresh' /\ ReadFresh'
  BY <1>0 DEF RingTypeOK, Counted, CopyClean, ReadUntorn, CopyFresh, ReadFresh, Visible
<1>3. Distance' /\ RetryMeansLapped'
  BY <1>0 DEF RingTypeOK, Distance, Ahead, RetryMeansLapped
<1> QED BY <1>1, <1>2, <1>3

------------------------------------------------------------------------------
(* An empty ring that nobody reads. *)
LEMMA InitInv == RingInit => IInv
<1> SUFFICES ASSUME RingInit PROVE IInv
  OBVIOUS
<1> USE RingBufAssumption DEF RingInit
<1>1. 0 \in 0 .. Versions - 1 /\ 0 \in Slots /\ SlotNr - 1 \in Slots /\ ~Odd(0)
  BY DEF Slots, Odd
<1>2. RingTypeOK
  BY <1>1 DEF RingTypeOK
<1>3. UntornInv
  BY <1>1 DEF UntornInv, OddWhileWritten, Written, SlotsWhole, Counted, CopyClean, ReadUntorn
<1>4. FreshInv
  BY <1>1 DEF FreshInv, SlotsCurrent, CopyFresh, ReadFresh, Visible
<1>5. Distance /\ RetryMeansLapped
  BY DEF Distance, RetryMeansLapped
<1> QED BY <1>2, <1>3, <1>4, <1>5 DEF IInv

(* Every step preserves the invariant. *)
LEMMA NextInv == IInv /\ [RingNext]_ringVars => IInv'
<1> SUFFICES ASSUME IInv, [RingNext]_ringVars PROVE IInv'
  OBVIOUS
<1>1. ASSUME Writer PROVE IInv'
  BY <1>1, MarkInv, CopyInInv, PublishInv, AdvanceInv DEF Writer
<1>2. ASSUME NEW r \in Readers, Reader(r) PROVE IInv'
  BY <1>2, ReadIndexInv, ReadVerInv, CopyOutInv, CheckInv, ReturnInv DEF Reader
<1>3. ASSUME UNCHANGED ringVars PROVE IInv'
  BY <1>3 DEF ringVars, IInv, RingTypeOK, UntornInv, OddWhileWritten, Written, SlotsWhole, Counted,
      CopyClean, ReadUntorn, FreshInv, SlotsCurrent, Visible, CopyFresh, ReadFresh, Distance,
      Ahead, RetryMeansLapped
<1> QED BY <1>1, <1>2, <1>3 DEF RingNext

(* The strengthened invariant holds in every reachable state. *)
THEOREM Inductive == RingSpec => []IInv
  BY InitInv, NextInv, PTL DEF RingSpec

(* Every variable keeps its type; no index leaves the ring. *)
THEOREM TypeCorrect == RingSpec => []RingTypeOK
<1>1. IInv => RingTypeOK
  BY DEF IInv
<1> QED BY Inductive, <1>1, PTL

(* A read that yringbuf_read reports as good is not a mixture of writes,   *)
(* for any width of the version and any order in which memcpy copies.      *)
THEOREM NoTornRead == RingSpec => []ReadUntorn
<1>1. IInv => ReadUntorn
  BY DEF IInv, UntornInv
<1> QED BY Inductive, <1>1, PTL

(* It is at least as recent as the last write completed when it began. *)
THEOREM NoStaleRead == RingSpec => []ReadFresh
<1>1. IInv => ReadFresh
  BY DEF IInv, FreshInv
<1> QED BY Inductive, <1>1, PTL

(* -EAGAIN is returned only to a reader that the writer has lapped: every  *)
(* slot more gives readers one write more of time.                         *)
THEOREM OnlyLappedRetry == RingSpec => []RetryMeansLapped
<1>1. IInv => RetryMeansLapped
  BY DEF IInv
<1> QED BY Inductive, <1>1, PTL

(* A good read is of one write and of a recent one. *)
THEOREM GoodReadsAreSound == RingSpec => []ReadsAreSound
<1>1. IInv => ReadsAreSound
  BY DEF IInv, UntornInv, FreshInv, ReadsAreSound
<1> QED BY Inductive, <1>1, PTL

==============================================================================
