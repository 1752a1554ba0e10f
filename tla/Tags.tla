---------------------------------- MODULE Tags ----------------------------------
(***************************************************************************)
(* The user tags of a task (task.c) and of the task manager                 *)
(* (taskmanager.c), which are the same code: a hash, under its own lock,    *)
(* from names to objects (yo) that own a tag.  Objects are made before the  *)
(* lock is taken and read after it is released; a destroyed one is recycled.*)
(***************************************************************************)
EXTENDS Naturals, FiniteSets

CONSTANTS
  Callers, Names,
  Tags,         \* the clients' data, each added at most once
  Yos           \* the objects there are memory for

VARIABLES
  tagmap,       \* name -> object, or None
  tag,          \* o0 of every object, or None
  spare,        \* objects in the pool or on the heap
  fate,         \* of a tag: with the client, held by an object, freed
  calls         \* what each caller is in the middle of

tagVars == <<tagmap, tag, spare, fate, calls>>

None == "none"
TagsAssumption == None \notin Tags /\ None \notin Yos
ASSUME TagsConstants == TagsAssumption

Idle == [op |-> "idle"]
Mapped == {tagmap[k] : k \in Names} \ {None}

TagsInit == /\ tagmap = [k \in Names |-> None]
            /\ tag = [y \in Yos |-> None]
            /\ spare = Yos
            /\ fate = [t \in Tags |-> "client"]
            /\ calls = [c \in Callers |-> Idle]

\* yocreate0, the first half of ytask_add_tag: without memory it is refused.
AddTag(c, k, t) ==
  /\ calls[c] = Idle /\ fate[t] = "client"
  /\ \E y \in spare :
       /\ tag' = [tag EXCEPT ![y] = t]
       /\ spare' = spare \ {y}
       /\ calls' = [calls EXCEPT ![c] = [op |-> "add", name |-> k, yo |-> y]]
  /\ fate' = [fate EXCEPT ![t] = "held"]
  /\ UNCHANGED tagmap

\* A defect: the object is recycled without the destructor of its tag.
RecycledOnly(ys) == /\ tag' = [y \in Yos |-> IF y \in ys THEN None ELSE tag[y]]
                    /\ spare' = spare \union ys
                    /\ UNCHANGED fate
\* yodestroy of what the hash lets go of.
Destroyed(ys) == /\ tag' = [y \in Yos |-> IF y \in ys THEN None ELSE tag[y]]
                 /\ fate' = [t \in Tags |-> IF t \in {tag[y] : y \in ys}
                                            THEN "freed" ELSE fate[t]]
                 /\ spare' = spare \union ys

\* yhash_set, the second half, which replaces a tag of the same name.  When it
\* fails the object is lost, and the tag is the client's again.
SetTag(c) ==
  /\ calls[c].op = "add"
  /\ LET k == calls[c].name
         y == calls[c].yo
     IN  \/ /\ tagmap' = [tagmap EXCEPT ![k] = y]
            /\ Destroyed({tagmap[k]} \ {None})
         \/ /\ fate' = [fate EXCEPT ![tag[y]] = "client"]
            /\ UNCHANGED <<tagmap, tag, spare>>
  /\ calls' = [calls EXCEPT ![c] = Idle]

RemoveTag(c, k) ==
  /\ calls[c] = Idle
  /\ tagmap[k] # None
  /\ tagmap' = [tagmap EXCEPT ![k] = None]
  /\ Destroyed({tagmap[k]})
  /\ UNCHANGED calls

\* ytask_get_tag under the lock; it returns NULL when there is no such name.
GetTag(c, k) ==
  /\ calls[c] = Idle
  /\ tagmap[k] # None
  /\ calls' = [calls EXCEPT ![c] =
                 [op |-> "get", yo |-> tagmap[k], asked |-> tag[tagmap[k]]]]
  /\ UNCHANGED <<tagmap, tag, spare, fate>>

\* return o->o0, after the lock.  Of an object that the pool did not keep it
\* reads freed memory; NULL stands for that too.
ReadTag(c) ==
  /\ calls[c].op = "get"
  /\ calls' = [calls EXCEPT ![c] =
                 [op |-> "got", asked |-> calls[c].asked, got |-> tag[calls[c].yo]]]
  /\ UNCHANGED <<tagmap, tag, spare, fate>>

TagReturned(c) == /\ calls[c].op = "got"
                  /\ calls' = [calls EXCEPT ![c] = Idle]
                  /\ UNCHANGED <<tagmap, tag, spare, fate>>

\* yhash_destroy, with nobody inside.
DestroyTags == /\ \A c \in Callers : calls[c] = Idle
               /\ Mapped # {}
               /\ tagmap' = [k \in Names |-> None]
               /\ Destroyed(Mapped)
               /\ UNCHANGED calls

TagsNext ==
  \/ \E c \in Callers, k \in Names :
       RemoveTag(c, k) \/ GetTag(c, k) \/ \E t \in Tags : AddTag(c, k, t)
  \/ \E c \in Callers : SetTag(c) \/ ReadTag(c) \/ TagReturned(c)
  \/ DestroyTags

TagsSpec == TagsInit /\ [][TagsNext]_tagVars

-----------------------------------------------------------------------------

(* A tag that was given is held by exactly one object, which one name or    *)
(* one adder has, until it is freed, whoever adds, replaces and removes     *)
(* tags at once; and a get returns the tag its name had, unless that was    *)
(* freed before the object was read, when it may be another's.              *)
TagsExact ==
  /\ \A t \in Tags : fate[t] = "held" =>
       Cardinality({k \in Names : tagmap[k] # None /\ tag[tagmap[k]] = t}
                   \union {c \in Callers : calls[c].op = "add" /\ tag[calls[c].yo] = t}) = 1
  /\ \A k \in Names : tagmap[k] # None =>
       tagmap[k] \notin spare /\ fate[tag[tagmap[k]]] = "held"
  /\ \A c \in Callers : calls[c].op = "got" =>
       calls[c].got = calls[c].asked \/ fate[calls[c].asked] = "freed"
=============================================================================
