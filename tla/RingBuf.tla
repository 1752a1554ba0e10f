------------------------------- MODULE RingBuf --------------------------------
(***************************************************************************)
(* ringbuf.c: a ring of slots that one owner writes and anybody reads      *)
(* without a lock.  A version per slot, odd while the slot is written,     *)
(* lets a reader notice that its copy may be mixed.                        *)
(*                                                                         *)
(* A slot is a set of words.  memcpy copies them one at a time and in any  *)
(* order; the accesses of one thread take effect in program order, as the  *)
(* comments of the code assume ("memcpy function works as barrier").  The  *)
(* value of a word is the number of the write that stored it.              *)
(***************************************************************************)
EXTENDS Naturals

CONSTANTS
    Readers,    \* threads that read
    Words,      \* the words of a slot
    SlotNr,     \* slots of the ring
    Versions,   \* versions before the counter wraps, 2^32 in the code
    MaxWrites   \* bound on the writes

(* yringbuf_create refuses a ring of fewer than two slots. *)
ASSUME RingBufAssumption ==
    /\ SlotNr \in Nat /\ SlotNr >= 2
    /\ Versions \in Nat \ {0} /\ Versions % 2 = 0
    /\ MaxWrites \in Nat

VARIABLES
    ver,        \* version of each slot
    data,       \* the words of each slot
    wsi,        \* index of the slot to write or being written
    wpc,        \* position of the writer
    todo,       \* words that the writer has still to copy
    writes,     \* writes begun
    rpc,        \* position of each reader
    rslot,      \* the slot it reads
    pre,        \* the version it saw before its copy
    uncopied,   \* words it has still to copy
    copied,     \* its buffer
    since,      \* writes begun when it chose its slot
    floor,      \* writes visible through wsi when it chose its slot
    passed      \* increments of the slot's version since it looked at it

ringVars == <<ver, data, wsi, wpc, todo, writes, rpc, rslot, pre, uncopied, copied, since,
              floor, passed>>
slotVars == <<ver, data, wsi>>
writerVars == <<wpc, todo, writes>>
readVars == <<rslot, pre, uncopied, copied, since, floor>>

Slots == 0 .. SlotNr - 1
Odd(v) == v % 2 = 1

(* The version is a fixed width integer. *)
Bump(v) == (v + 1) % Versions

------------------------------------------------------------------------------
RingInit ==
    /\ ver = [s \in Slots |-> 0]
    /\ data = [s \in Slots |-> [w \in Words |-> 0]]
    /\ wsi = 0
    /\ wpc = "idle"
    /\ todo = {}
    /\ writes = 0
    /\ rpc = [r \in Readers |-> "idle"]
    /\ rslot = [r \in Readers |-> 0]
    /\ pre = [r \in Readers |-> 0]
    /\ uncopied = [r \in Readers |-> {}]
    /\ copied = [r \in Readers |-> [w \in Words |-> 0]]
    /\ since = [r \in Readers |-> 0]
    /\ floor = [r \in Readers |-> 0]
    /\ passed = [r \in Readers |-> 0]

(* Every increment of a version passes the readers of that slot. *)
Increment ==
    /\ ver' = [ver EXCEPT ![wsi] = Bump(@)]
    /\ passed' = [r \in Readers |-> IF rslot[r] = wsi THEN passed[r] + 1 ELSE passed[r]]

(* A defect: the slot is not marked as being written. *)
MarkNot ==
    /\ wpc = "idle"
    /\ writes < MaxWrites
    /\ writes' = writes + 1
    /\ todo' = Words
    /\ wpc' = "copy"
    /\ UNCHANGED <<slotVars, rpc, readVars, passed>>

(* yringbuf_write: makes the version odd, ... *)
Mark ==
    /\ wpc = "idle"
    /\ writes < MaxWrites
    /\ writes' = writes + 1
    /\ Increment
    /\ todo' = Words
    /\ wpc' = "copy"
    /\ UNCHANGED <<data, wsi, rpc, readVars>>

(* ... copies the data, ... *)
CopyIn(w) ==
    /\ wpc = "copy"
    /\ w \in todo
    /\ data' = [data EXCEPT ![wsi][w] = writes]
    /\ todo' = todo \ {w}
    /\ UNCHANGED <<ver, wsi, wpc, writes, rpc, readVars, passed>>

(* ... makes the version even, ... *)
Publish ==
    /\ wpc = "copy"
    /\ todo = {}
    /\ Increment
    /\ wpc' = "advance"
    /\ UNCHANGED <<data, wsi, todo, writes, rpc, readVars>>

(* ... and moves on to the next slot. *)
Advance ==
    /\ wpc = "advance"
    /\ wsi' = (wsi + 1) % SlotNr
    /\ wpc' = "idle"
    /\ UNCHANGED <<ver, data, todo, writes, rpc, readVars, passed>>

------------------------------------------------------------------------------
(* yringbuf_read: the slot before the one to be written, ... *)
ReadIndex(r) ==
    /\ rpc[r] = "idle"
    /\ rslot' = [rslot EXCEPT ![r] = IF wsi = 0 THEN SlotNr - 1 ELSE wsi - 1]
    /\ since' = [since EXCEPT ![r] = writes]
    /\ floor' = [floor EXCEPT ![r] = IF wpc = "idle" THEN writes ELSE writes - 1]
    /\ rpc' = [rpc EXCEPT ![r] = "ver"]
    /\ UNCHANGED <<slotVars, writerVars, pre, uncopied, copied, passed>>

(* ... its version: -EAGAIN while it is written; ... *)
ReadVer(r) ==
    /\ rpc[r] = "ver"
    /\ IF Odd(ver[rslot[r]])
       THEN /\ rpc' = [rpc EXCEPT ![r] = "again"]
            /\ UNCHANGED <<pre, uncopied, passed>>
       ELSE /\ rpc' = [rpc EXCEPT ![r] = "copy"]
            /\ pre' = [pre EXCEPT ![r] = ver[rslot[r]]]
            /\ uncopied' = [uncopied EXCEPT ![r] = Words]
            /\ passed' = [passed EXCEPT ![r] = 0]
    /\ UNCHANGED <<slotVars, writerVars, rslot, copied, since, floor>>

(* ... a copy of its data; ... *)
CopyOut(r, w) ==
    /\ rpc[r] = "copy"
    /\ w \in uncopied[r]
    /\ copied' = [copied EXCEPT ![r][w] = data[rslot[r]][w]]
    /\ uncopied' = [uncopied EXCEPT ![r] = @ \ {w}]
    /\ UNCHANGED <<slotVars, writerVars, rpc, rslot, pre, since, floor, passed>>

(* A defect: an even version is good enough. *)
CheckEven(r) ==
    /\ rpc[r] = "copy"
    /\ uncopied[r] = {}
    /\ rpc' = [rpc EXCEPT ![r] = IF Odd(ver[rslot[r]]) THEN "again" ELSE "ok"]
    /\ UNCHANGED <<slotVars, writerVars, readVars, passed>>

(* ... and its version again: the copy is good if it has not changed. *)
Check(r) ==
    /\ rpc[r] = "copy"
    /\ uncopied[r] = {}
    /\ rpc' = [rpc EXCEPT ![r] = IF ver[rslot[r]] = pre[r] THEN "ok" ELSE "again"]
    /\ UNCHANGED <<slotVars, writerVars, readVars, passed>>

(* The caller may read again. *)
Return(r) ==
    /\ rpc[r] \in {"ok", "again"}
    /\ rpc' = [rpc EXCEPT ![r] = "idle"]
    /\ UNCHANGED <<slotVars, writerVars, readVars, passed>>

------------------------------------------------------------------------------
Writer == Mark \/ Publish \/ Advance \/ \E w \in Words : CopyIn(w)

Reader(r) ==
    \/ ReadIndex(r) \/ ReadVer(r) \/ Check(r) \/ Return(r)
    \/ \E w \in Words : CopyOut(r, w)

RingNext == Writer \/ \E r \in Readers : Reader(r)

RingSpec == RingInit /\ [][RingNext]_ringVars

------------------------------------------------------------------------------
RingTypeOK ==
    /\ ver \in [Slots -> 0 .. Versions - 1]
    /\ data \in [Slots -> [Words -> Nat]]
    /\ wsi \in Slots
    /\ wpc \in {"idle", "copy", "advance"}
    /\ todo \in SUBSET Words
    /\ writes \in Nat
    /\ rpc \in [Readers -> {"idle", "ver", "copy", "ok", "again"}]
    /\ rslot \in [Readers -> Slots]
    /\ pre \in [Readers -> 0 .. Versions - 1]
    /\ uncopied \in [Readers -> SUBSET Words]
    /\ copied \in [Readers -> [Words -> Nat]]
    /\ since \in [Readers -> Nat]
    /\ floor \in [Readers -> Nat]
    /\ passed \in [Readers -> Nat]

(* A read that succeeds returns the words of one write, unless the version *)
(* went all the way round while the reader copied.                         *)
ReadUntorn ==
    \A r \in Readers :
        rpc[r] = "ok" /\ passed[r] < Versions =>
            \A v, w \in Words : copied[r][v] = copied[r][w]

(* ... and of a write at least as recent as the last one that was complete *)
(* when the read began, although the slot is chosen long before.           *)
ReadFresh ==
    \A r \in Readers :
        rpc[r] = "ok" => \A w \in Words : floor[r] <= copied[r][w] /\ copied[r][w] <= writes

(* A good read is whole and recent: the two above. *)
ReadsAreSound == RingTypeOK /\ ReadUntorn /\ ReadFresh

(* A read fails only if the writer came round the ring meanwhile: that is  *)
(* what more slots are for.                                                *)
RetryMeansLapped ==
    \A r \in Readers : rpc[r] = "again" => writes >= since[r] + SlotNr - 1

==============================================================================
