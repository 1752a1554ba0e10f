# Formal specification of ylib

ylib is a C library of data structures and of the threading part of a small
application framework: message queues, loopers and handlers, background
threads with a documented life cycle, reference counted tasks, a task manager
with priorities and slots, and a dependency scheduler on top of it.  This
directory holds TLA+ models of its concurrent core and of its data structures,
the TLC configurations that check them, and TLAPS proofs.  Paths below are
relative to `src/src/` (the library) and `src/test/` (its tests).

## 1. Inventory

The parts, the state each keeps, what changes it, and what makes it correct.

| Part (files) | State | Operations | Hard behaviour | Correct when |
|---|---|---|---|---|
| Message queue (`msgq.c`, with `msg.c`, `pool.c`) | a list per priority, size, capacity, mutex, eventfd | `ymsgq_en`, `ymsgq_de`, create, destroy | the eventfd is written after the mutex is released and read before it is taken; senders and receivers overtake each other | no message lost, doubled or stranded; a receiver that got a token gets a message; priority, then FIFO |
| Looper (`msglooper.c`) | atomic state, control eventfd, epoll set, event data | start thread with hand-shake, loop, stop, add/del fd, destroy | stop overwrites the state whatever it was; TERMINATED is what permits freeing | TERMINATED means the thread is out; every stop takes effect; the starter gets its answer |
| Handler (`msghandler.c`) | a queue watched by a looper, the thread that owns it | create, destroy, post data/exec, exec_on, `on_msgq_event` | one message per event; is freed on sight of TERMINATED | no callback for a freed handler, no blocking callback |
| Background thread (`threadex.c`) | state with mutex, pthread handle, listener, result | start, start_sync, cancel, join, publish progress, destroy; the thread's main and clean-up; on_* callbacks on the owner's handler | state written with and without the mutex by three kinds of threads; callbacks are messages | the documented state diagram and callback sequences; no reference after the end; outcome unique and stable |
| Task (`task.c`, on `threadex.c` and `gp.c`) | reference count, progress, tag, event listeners with a lock | create, destroy, get/put, add/remove listener, notify | listeners are notified by messages that keep a reference and an inner pointer | freed exactly when unreferenced; an end is told once |
| Task manager (`taskmanager.c`) | ready queue per priority, run queue, slots, tags, queue-event listeners, two locks | add, cancel, cancel_all, balance, removal of a finished task, destroy | decisions under the lock, consequences (start, cancel, balance) after it | slots respected and never forgotten; references exact; events in order, to the listeners they concern |
| Task dependency manager (`taskdepman.c`, `graph.c`) | graph of tasks, state, counts | add task, add dependency, start, cancel, destroy | the end of one task injects others, against cancel | a task starts after all it depends on, and exactly once |
| Ring buffer (`ringbuf.c`) | slots with a version, write index | write (one owner), read (anybody, no lock) | readers copy while the writer writes; the version wraps | no torn or stale read is reported as good |
| Smart pointers (`gp.c`, `p.c`, `o.c`) | reference counts | get, put | last put against a new get | freed once |
| Hash maps and sets (`hash.c`, `hashl.c`, `set.c`) | buckets, size | set, get, remove, reset, intersect; the map grows and shrinks | a resize that finds no memory is ignored | the map is the dictionary of its calls |
| LRU (`lru.c`) | list, hash, sizes | put, get, reset | the hash owns the nodes the list links | list and hash agree, size within its limit, the oldest is evicted |
| Memory pool (`mempool.c`) | array of block pointers, an index in every block | get, put, shrink | a put swaps two blocks and both indices | used and free blocks partition the pool |
| Heap (`heap.c`) | array, an index in every node | push, pop, pushpop, poppush, heapify | the same | ordered, and the root leaves |
| Trie (`trie.c`) | nibble tree | insert, remove, copy, iterate, equal, complete | an insert that failed half way | the dictionary; no dead branches |
| Tree and list links (`treel.c`, `ytreel.h`, `list.c`, `ylistl.h`) | pointers | add, remove, replace, five and two iterators | the client removes what an iterator handed it | a forest, a list; iterators visit all of it in order |
| Graph (`graph.c`) | adjacency lists at both ends | add, remove, cycle search | two stacks and a mark per vertex | the search answers right |
| Geometry (`geo/`) | bands of bands | intersect, diff, union | merging neighbours | the set of points, in its one form |
| Dynamic buffer, descriptors (`dynb.c`, `ut.c`) | storage, limit | append, shrink; write, format, read | growth that fails half way, short reads and writes | nothing lost, doubled or past the end |
| Checksum (`crc.c`, `yut.h`) | - | `ycrc16` | a loop entered in its middle | remainder of the division, however the message is cut |
| Start-up (`lib.c`) | list of modules | register, init, exit | a module that fails | all modules or none |
| The rest (`stat*.c`, `rx.c`, `log.c`, `errno.c`, `linux/`) | - | printing, thin wrappers | - | not modelled, see section 8 |

**How the parts interact.**  A *looper* waits on the eventfds of the *queues*
of its *handlers*; a token in an eventfd means one message.  A *threadex*
never calls its listener directly: caller, background thread and owner post
messages to the owner's handler, all with the same priority, so they arrive
in the order of posting.  A *task* is a threadex with event listeners; each
notification is a message to the listener's own handler, followed by a message
that drops the reference taken for it.  The *task manager* is such a listener:
the end of a task frees a slot, which starts the next waiting task, from
whichever thread happens to notice.  The *dependency manager* is a listener of
tasks and a client of a task manager.

`PROJECT.json` lists the hazards of this code line by line, each with the
properties that would catch it going wrong.

## 2. Plan

1. **Core**: `MsgQueue` against the abstract `Mailbox`; `Threadex` against the
   abstract `ThreadexLifecycle`; `MsgLooper`; `TaskManager`; `RingBuf`.
   Modelled, checked and proved about.
2. **On top of the core**: `TaskEvents`, the listeners of a task; `TaskDepMan`
   against the abstract `Workflow`; `QueueEvents` and `Tags`.  Modelled,
   checked and proved about.
3. **Data structures and self-contained parts**: one module each, checked
   together by `MCStructures`; all but `Trie`, `Tree` and `Crc` proved about.

Nothing of the plan is left to write.  Section 7 says what stays with TLC.

Composition: the modules meet at the message queue.  `MsgQueue` proves what
the others assume of it (FIFO within a priority, one token per message, nothing
lost), so `Threadex`, `TaskManager`, `TaskEvents`, `TaskDepMan` and
`QueueEvents` use a sequence of messages and `MsgLooper` the number of tokens.
`TaskManager` and `TaskEvents` use the life cycle of a threadex reduced to its
states, which `Threadex` justifies; `TaskDepMan` uses a task manager reduced to
its waiting and running sets; `Lru` uses the dictionary that `Hash` is shown to
be.

## 3. Modules

| Module | Models | State and actions against the code |
|---|---|---|
| `Mailbox` | what a message queue promises, abstractly | accept, claim, deliver the oldest of the most urgent, finish, close |
| `MsgQueue` | `msgq.c`, and `msg.c`/`pool.c` as moves of an object between heap, pool and owners | a critical section is one action (`En`, `Take`); the `write` after it (`Write`) and the `read` before it (`Read`) are actions of their own, because that is where threads overtake each other |
| `MsgQueueProofs` | theorems about `MsgQueue` | |
| `ThreadexLifecycle` | the state diagram and the callback sequences of `ythreadex.h` | one action per edge of the diagram and per callback |
| `Threadex` | `threadex.c` | `cpc` is the position of each calling thread between two visible effects, `wpc` that of the background thread, `opc` what the owner still has to do for the message it handles, `lock` the state mutex, `mq` the owner's queue |
| `ThreadexProofs` | theorems about `Threadex` | |
| `MsgLooper` | `msglooper.c` with `ymsghandler_create/destroy` | `start`/`result` are the hand-shake, `state` the atomic, `lpc` and `batch` the looper thread inside its loop, `tokens` the eventfds, `watched` epoll, `evds` the event data |
| `TaskManager` | `taskmanager.c`, the references and the manager's listener of `task.c` | a section under `q_lock` is one action; what follows it outside the lock (`Start`, `Cancel`, `Put`, `Balance`) is another, with `pc`/`job` as the thread's position; `mail` is the manager's handler queue, which holds ends, releases of a reference and the queue events of the tasks in `Heard` (`Event`, `Left`), each with a pointer to its task; `seen` are the sizes in the last queue event; a destroy looks at the size (`CheckSize`) and later frees the manager (`Destroy`), wherever the owner is by then; `fate` says how the process ended |
| `TaskManagerProofs` | theorems about `TaskManager` and `QueueEvents` | |
| `TaskEvents` | `task.c`: the event listeners of one task | `ownq` and `mail` are the messages to the task's owner and to each listener's handler; a walk over the listeners under `elh_lock` is one action (`PassOn`), each message handled another; `leaked` and `hasty` record what late catch-ups and early removals do |
| `TaskEventsProofs` | theorems about `TaskEvents` and `Tags` | |
| `QueueEvents` | the queue event listeners of `taskmanager.c` | the walk of `notify_qevent_locked` is one action per listener (`PostEvent`), since additions and removals do not take its lock |
| `Tags` | the user tags of tasks and of the manager | making an object, inserting it under the lock, looking it up under the lock and reading it after are actions of their own |
| `Workflow` | what the user of a dependency manager gets, abstractly | edit the graph, begin, release a task, a task ends, cancel, end |
| `TaskDepMan` | `taskdepman.c` with `graph.c`'s vertex lists and the task manager's two sets | a section under a lock is one action; `starter`, `canceller` and `hand` are the positions of the starting thread, the cancelling thread and the looper, `editor` the call that changes the graph and has already looked at the state; `overtaken` notes a cancel within such a call; `fate` says how the process ended: "refused" by the task manager, "overrun" in the walk of `ytaskdepman_start`, "asserted" in `ytaskdepman_cancel`, "died" in `on_task_finished`, or "wild" in other freed memory |
| `TaskDepManProofs` | theorems about `TaskDepMan` | |
| `RingBuf` | `ringbuf.c` | a version load, a version increment, the copy of one word and the store of the write index are one action each |
| `RingBufProofs` | theorems about `RingBuf` | |
| `Lru`, `Mempool`, `Trie`, `Tree`, `List`, `Graph`, `Dynb` | the file of that name | one action per call; the search of `Graph` and the iterators of `Tree` and `List` take a step at a time, since the client acts between them |
| `Hash` | `hash.c`, `hashl.c`, `set.c` | a bucket is the set of its nodes; one action per call, the resize with its failure included; `yset_intersect` adds an element at a time (`BeginMeet`, `MeetAdd`), since each may fail |
| `Heap` | `heap.c` | a call changes the array; the loops of `down` and `up` after it take one exchange at a time (`Sink`, `Rise`), with `sift` as their position; `popped` is what the caller gets: a node, or the address of a slot |
| `Region` | `geo/rgn.c`, `yband.h`, `rect.c`, `yrect.h` | a region is its rows of bands; every operation on two regions is one action; its two loops, over rows and over the bands of two rows, are functions of the number of turns (`RgnTurn`, `SweepTurn`) |
| `SmartPtr` | `p.c`, `gp.c`, `o.c`, `pool.c` | threads share blocks; the decrement of a put, the check of the block's guards and the free are apart, and `touched` notes an access that found the block freed |
| `Fd` | the descriptor helpers of `ut.c` | every `write` and `read` is an action that moves as many bytes as it likes |
| `Crc` | `ycrc16` and `yut_unroll16` | every execution of the unrolled statement is an action; `label` is the case the loop is at |
| `Startup` | `lib.c` | every call of a module's init or exit is an action |
| `StructureProofs` | theorems about `SmartPtr`, `Dynb`, `List`, `Graph`, `Lru`, `Heap` and `Hash` | |
| `SupportProofs` | theorems about `MsgLooper`, `Mempool`, `Startup`, `Fd` and `Region` | |
| `MCStructures` | all from `Lru` to `Startup`, `RingBuf`, `QueueEvents` and `Tags`, in one instance | `which` picks the part a behaviour exercises |
| `MC...` | the instances for TLC | names of threads, messages, tasks; symmetry sets |

Definitions whose comment begins with "A defect:" are not part of any
specification.  They are variants of an action, each with one plausible
mistake, that show which property notices it; `PROJECT.json` pairs them under
`mutants`.

## 4. What the runs show

Passing runs (distinct states in brackets):

| Run (`module`) | Question | Bounds, and why they are enough |
|---|---|---|
| `msgq` (`MCMsgQueue`) [52 thousand] | Nothing is lost or linked twice (`ObjectsConserved`), tokens account for messages and a woken receiver finds one (`WakeUpsExact`), the queue implements `Mailbox`, and under fairness no message is forgotten (`NoneIsForgotten`) | 2 senders, 2 receivers: both kinds can overtake each other in the gap around the mutex.  3 priorities: a first, a middle, a last.  4 messages, capacity 3, pool 2: full queue and full pool both happen |
| `threadex` (`MCThreadex`) [3 thousand] | Asserted states, stable result, no dangling reference and an outcome that join sees (`ThreadsAgree`), progress exact and told before the end, `ThreadexLifecycle` is implemented, and every run and every accepted cancel ends | 3 callers: a start, a cancel and a join (or destroy) at once; 2 progress events: one before and one after a cancel |
| `looper` (`MCMsgLooper`) [9 thousand] | Callbacks are safe; TERMINATED is over and a stop wakes the looper (`StopIsSafe`); every stop stops and the starter returns (`StartsAndStops`); messages are handled; with writes that may fail and spurious wake-ups | 2 stopping threads (a stop over a stop), 2 handlers (a batch with a control event in any order), 3 messages |
| `taskmanager` (`MCTaskManager`) [1.39 million] | References exact, the owner's assertions, a freed task pointed to by nothing but the event of its leave, a destroyed manager used by nobody but the owner on its way to `balance_taskq` (`TasksAccounted`); slots respected and never forgotten (`SlotsUsedWell`); the last event has the present sizes | 3 tasks of 2 priorities on 2 slots: one must wait; 2 clients and the owner balance concurrently, and one of the clients destroys; a listener on the manager's own handler hears of one task, so that events and ends are in the queue in any order; the clients and the two ordinary tasks are symmetric |
| `taskmanager_live` [114 thousand] | A waiting task is started or cancelled | 3 tasks, 1 slot, 1 client: two wait; apart from the run above because liveness excludes symmetry; a build without assertions, so that a cancel too late does not end the process |
| `task` (`MCTaskEvents`) [426 thousand] | References have one owner and nothing freed is used (`Lifetime`), listeners hear what was passed on since they were listed, in order (`HearsAll`), a destroyed task is freed (`FreedInTheEnd`) | 2 listeners that come and go, one progress step: an event before, during and after each catch-up |
| `taskdepman` (`TaskDepMan`) [1.11 million] | The counters agree with the graph wherever every thread is, and the process ends only as named (`Books`), `Workflow` is implemented, and a started graph ends; the first two until a cancel comes within an edit | 3 tasks and every graph of up to 3 edges (a chain, a fork, a join, a cycle, two last tasks), 2 slots, one edge removed with its prerequisite, at most 2 tasks when a cancel comes within an edit: one behind the walk that cancels, one before |
| `structures` (`MCStructures`) [368 thousand] | Each data structure and self-contained part is the abstract thing it stands for | see below |

The bounds of `structures`:

* `Hash`: 4 keys, of which two collide at every size and a third joins them
  when the map is small; up to 4 buckets, every resize may fail.
* `Lru`: 4 nodes, a limit of 3, data of size 0 to 4: evictions of none, one and
  several, and data that never fits; any key put, present or not, and any
  failure of the hash, up to the put that spoils the cache.
* `Region`: every rectangle of a 3 by 3 grid, and results operated on again.
* `Mempool`: groups of 2 of 6 blocks: three groups, so a put can swap between
  groups; both builds.
* `Heap`: 4 nodes (three levels), 3 ranks, every initial array; every call with
  what it returns.
* `Trie`: keys that are prefixes of each other, share a byte or half of one, with
  copies in both directions, complete or torn; comparisons of either sense.
* `Tree`: 4 links, every forest of them, all five orders, a removal at each step.
  `List`: 3 links, both directions.
* `Graph`: 3 vertices, any edges between them, loops included, a search interrupted by nothing
  but its own failures.
* `Dynb`: limits 1 to 4.  `Fd`: a first read buffer of one byte, doubled twice;
  a format buffer that one of the texts outgrows; 5 bytes in all.
* `SmartPtr`: 2 threads, 3 objects, a pool of one, in a build with guards.
* `Crc`: pieces of 1, 15, 16, 17 and 48 bytes (every way to enter the loop that
  differs) and one longer than the model's INT_MAX; two pieces.
* `Startup`: 3 modules that register in any order, each of which may fail.
* `RingBuf`: 3 slots of 2 words, 8 writes and versions modulo 4: a version wraps
  twice under a sleeping reader.  One reader: readers change nothing anybody
  else looks at.
* `QueueEvents`: 3 listeners, 2 events.  `Tags`: 2 callers, 2 names, 3 tags, 2
  objects, so that an object is recycled under a reader.

In `structures` one constant excludes calls after which the code is known to be
broken: `Resets` of `List` (`ylist_reset` keeps head pointers to freed items,
`list.c:118`).  With it TRUE the run fails.

Runs in which the code does not do what a comment, an assertion or a test of
the repository says; TLC finds the counterexample:

| Run | What it shows |
|---|---|
| `threadex_destroy` | the owner reaches TERMINATED_CANCELLED while `ythreadex_cancel` still holds the mutex; a permitted destroy then finds it locked (`common.h:138`) |
| `taskmanager_start` | a cancel between the move to the run queue and the start makes `ytask_start` fail, and `fatal2` ends the process (`taskmanager.c:411`) |
| `taskdepman_end` | a removed task is still counted by the tasks that depended on it, which then never start: `on_done` is never called (`taskdepman.c:335`, `ytaskdepman.h:78`) |
| `taskdepman_start` | the walk that is to "start all leaf tasks" (`taskdepman.c:487`) takes a task that became a leaf since, because its prerequisite ended, for one of them (line 489); it is injected twice and the `fatali0` at line 213 ends the process: two tasks, one dependency, no cancel |

Other places where the code reaches what nobody wants, or does what a header
does not say, are steps of the models.  The property concerned exempts them by
name, and the notes of `PROJECT.json`'s hazards explain them:

* Threads and looper: progress told after the state is final
  (`threadex.c:553`, `ythreadex.h:73`); a spurious wake-up that reaches an
  assertion (`msglooper.c:358`).
* Task manager: waiting tasks that cannot be cancelled all at once and a
  reference that cancelling one leaves behind (`taskmanager.c:619`, `640`;
  history `lost`); a queue event that points to a task which the put after it
  frees (`taskmanager.c:362`, posted at 456); a cancel of a task that has ended,
  which fails the assertion at `taskmanager.c:231` (`CancelGone`); a destroy
  that frees the manager, its size being 0, while the owner has freed the slot
  and is on its way to `balance_taskq` (`taskmanager.c:459`, `497`; the comment
  at 508 relies on the lock; `test/taskmanager.c:171-177` destroys like that).
  `NobodyUsesFreed` says that this never happens; it is violated in 12 steps
  on the instance of `MCTaskManagerStart.cfg`.
* Tasks and tags: a listener removed under its own message (`task.c:86`) or
  under the walk (`taskmanager.c:346`); a catch-up that keeps its reference
  (`task.c:394`); a tag read after the lock (`taskmanager.c:564`).
* Dependency manager: `ytaskdepman.h:116-118` says that a dependency that makes
  a cycle is refused with -EPERM, but it is accepted and only
  `ytaskdepman_start` refuses the graph (`AddDependency`, `Workflow`'s `Edit`
  and `Begin`); a cancel between the look at the state and the change of the graph
  (`taskdepman.c:313`, `334`, `356`, `375`), after which a task may be in a
  CANCELLED manager, never be cancelled, or have its vertex freed under the
  edit (history `overtaken`); the assertion that no task has been started
  (`taskdepman.c:525`), which fails when a started graph is cancelled; a
  vertex or a manager used after it was freed (`taskdepman.c:489`, `422`).
* Data structures:
  * `ylru_put` of a present key, or one that the hash does not take, leaves a
    node that only the list has (`lru.c:272`; `ylru.h:126-133` restricts the
    key in no way and promises -errno for a failure; history `spoiled`);
  * pushpop and poppush of a heap return the address of the slot and compare
    with it, so that a root may make way to a larger node or stay although it is
    the larger one (`heap.c:373`, `374`, `389`; `yheap.h:139-147` promises the
    popped node; `popped` is then `SlotAddress`);
  * a copy of a trie that loses a subtree or a value returns 0
    (`trie.c:283-298`, `494-497`; `ytrie.h:173` promises -errno; history
    `torn`), and `ytrie_equal` calls two tries equal when the client's function
    returns nonzero, where `ytrie.h:156-158` has it return as `strcmp` does
    (`trie.c:266`; the model takes functions of both senses, `IsSame` and
    `LikeStrcmp`, and says what each amounts to);
  * ypput checks the guards of a block that another thread's put may have freed
    (`p.c:187`; histories `late` and `touched`);
  * a checksum of more than `INT_MAX` bytes reads none (`yut.h:198`;
    `ycrc.h:48-54` says that the result is that of `len` bytes; history `cut`);
  * a short write repeats its beginning (`ut.c:98`), and a `va_list` is used
    twice (`ut.c:126`).

Deadlock is checked for the message queue and the threadex, where a next
object can always be created; the others may stop (destroyed, at an assertion
of the code, or at the bound of posts, tasks, writes or events), so their
configurations switch the check off.

## 5. Fairness and assumptions on the environment

Liveness assumes weak fairness of what the platform schedules and of nothing
else: a thread inside a library call, the background thread, the looper
threads, the owner's handling of its queue, the listeners' handlers, the task
manager's dispatch and the tasks it runs.  User functions and callbacks
return.  No fairness is assumed for *beginning* a call: nobody has to start,
cancel, stop, post or destroy.  Reads and dequeues of a receiver are one fair
action per receiver, since a receiver loops.

Assumptions, each with the place it comes from:

* `QuietDestroy` (`Threadex`): destroy is called when no other call on the object
  is under way.  The run `threadex_destroy` drops it.
* `MsgLooper.DelFd`: an fd is deleted after it is closed and while no event of
  it is due.  The code asks for neither, but a callback with freed event data
  may follow otherwise.
* `MsgLooper.Destroy` and `MsgQueue.Destroy`: called when no stop, post or
  dequeue is under way, as in the tests.
* `TaskManager.CheckSize` and `Destroy`: the client that destroys answers for the
  other clients, not for the owner's thread, which may be anywhere.
  `TaskDepMan.Destroy`: no other call of the user is under way; the handler may
  be anywhere.
* `QueueEvents.FreeListeners` and `Tags.DestroyTags`: nobody is inside; messages
  may still be on their way.
* one user thread edits and starts a dependency manager, another may cancel it.
  The check of the state and the change of the graph are apart; the change of
  the vertex list and of the counts is one step, as nothing else changes the graph
  before a start or a cancel.  `ytaskdepman_verify` and the look at the state
  before it are one step.
* a listener is removed by one thread, once; `on_done` of a dependency manager
  does not call back into it, which would block for ever.
* a data structure of `structures` is used by one thread at a time
  (`mempool.c` locks, `SmartPtr` is concurrent).  The client's comparison
  functions are orders; what `ytrie_equal` calls is either sense of equality.
* one caller joins a threadex (POSIX).
* one thread adds a given task; who cancels a task holds the creator's
  reference; `pthread_create` succeeds when a task is started (otherwise
  `fatal2` ends the process by design).
* a queue-event listener never blocks the poster; in `TaskManager` one listener
  stands for all, represented by the sizes in the last event posted, and
  `QueueEvents` has the list.
* memory: `ymalloc` succeeds except where a module has a failing action
  (`LooperCreateFails`, `CreateFails`, the failing halves of `Hash`, `Trie`,
  `Tree`, `Graph`, `Dynb`, `Mempool`, `Fd` and `Tags`).
* where `yassert` decides, both builds are allowed: `Debug` of `TaskManager`,
  `Guarded` of `SmartPtr`, `Dynamic` of `Mempool`, and either outcome of the
  assertion in `TaskDepMan.CancelTasks`.
* mutex sections are atomic and sequentially consistent.  Atomics outside a
  mutex are interleaved one access at a time; `RingBuf` is the one module
  where the order of plain accesses around them matters, see there.

Simplifications that leave out a step or a value, each with the reason:

* `MsgLooper.CreateHandler`: `ymsghandler_create` ignores a failure of
  `ymsglooper_add_fd` (`msghandler.c:99`); the action has the success only.
* `Threadex.JoinReturns` clears the thread handle, which the code keeps: a second
  join is excluded by the assumption of one joiner.
* `TaskEvents.Publish` lets progress grow only; the code refuses an equal value
  (`task.c:478`), and no step looks at the order of two values.  `PublishInit`
  sets `prog.max` (`task.c:466`) and posts in one step: only the task's own
  thread does either.
* `TaskManager.AddTask` has the unlocked check of `taskmanager.c:600` and the
  section that enqueues in one step, which is exact with one adder per task.
* `Dynb.ShrinkTo` takes n > 0: `ydynb_shrink` to 0 frees the buffer and keeps the
  pointer to it (`dynb.c:111-113`).
* `Region`: the buffer of a result does not move (section 8).

## 6. What is proved

TLAPS proves the following for every value of the constants that satisfies the
modules' `ASSUME`s: any number of threads, messages, priorities, handlers, any
capacity and any bound.

`MsgQueueProofs`
: `TypeCorrect`, `TokensAccountForMessages`, `MessagesConserved`,
  `DequeueNeverEmptyHanded`, together `ObjectsAreConserved` and
  `WakeUpsAreExact`, and `Refinement` (`Spec => ImplementsMailbox`).
  The invariant adds to the checked properties where an object may be at each
  position of its owner, that a list never holds an object twice, and that the
  size is the number of queued objects.  Without the last, that a receiver
  with a token finds a non-empty list does not follow from the token count:
  the count speaks of `sz`, the dequeue looks at the lists.

`ThreadexProofs`
: `TypeCorrect`, `StatesAsAsserted`, `ResultIsStable`, `NoReferenceDangles`,
  `ProgressIsExact`, `NoProgressAfterEnd`, `Refinement`
  (`Spec => ImplementsLifecycle`), and, under `QuietDestroy`,
  `JoinKnowsOutcome`; together `ThreadsDoAgree`.  The invariant says for each state what the background
  thread may be doing, which messages may still be queued, in which order
  (`MayFollow`), and which callbacks the listener has heard.  It is needed
  because the owner's steps depend on messages posted long before: that
  on_done finds the state DONE is a fact about the whole queue.

`RingBufProofs`
: `TypeCorrect`, `NoTornRead` (`ReadUntorn`), `NoStaleRead` (`ReadFresh`), together
  `GoodReadsAreSound`, and `OnlyLappedRetry` (`RetryMeansLapped`), for any number of readers, words and
  slots (at least two) and any even number of versions.  That the number is
  even is needed: with an odd one the version would not stay odd while the slot
  is written after it wraps.  The invariant says that a version is odd exactly
  while its slot is written; that the words of a slot that is not written are
  of one write; that the version of a reader's slot is the one it saw plus the
  increments since; and how many slots the writer is still away from a slot
  that a reader has chosen.  The last is what makes a refused read mean a lap.

`TaskManagerProofs`
: `TasksAreAccounted` (`TasksAccounted`), `SlotsAreUsedWell` (`SlotsUsedWell`)
  and `LastEventCurrent` (`LastEventIsCurrent`), for any number of tasks,
  clients, priorities and slots.  The invariant has two halves.  `TaskInv` says
  where a task is for every mark the manager keeps on it, and where each message
  that points to it is: that it is queued
  once, in the queue of its priority; that a thread about to start or cancel
  one still finds it as it left it; that each message about an end is posted
  once and after the end; and where the owner stands between two steps of a
  removal.  Without the last, that the owner finds tag, listener and run queue
  as it asserts is not inductive, because it puts its references one at a
  time.  Of a manager that is being destroyed it says that no task carries its
  tag and no message leads the owner back into it, so that the owner is idle,
  at its put or at `balance_taskq`.  `NumbersInv` counts: waiting tasks beside free slots are at most as
  many as the threads on their way to `balance_taskq` (`Coming`) can start.
  `EventsAreHeard` (`EventsReachListeners`): listeners before the walk
  have the present event, the others the one before; a removal keeps the
  positions of the others in order, and an addition comes after the walk.

`TaskDepManProofs`
: `BooksAreExact` (`Books`) and `WorkflowImplemented` (`Spec =>
  ImplementsWorkflow`), for any number of tasks and any graph of them.  Both hold
  until a cancel comes within an edit (`overtaken`): then the books are off, and
  a step after it is none of `Workflow`'s.
  The invariant of the books says which prerequisites each task still waits
  for while the looper is in the middle of the release (`Awaited`), which
  edges a removal of a task has lost (`Lost`), that the counter is their
  number, and where each task and message is in its life.  For the refinement
  it adds what the plan that was started says of the vertices left
  (`PlanKept`): an edge of the plan to a task still in the graph is still there
  or its prerequisite is over.  With it, a task that is released has all its
  prerequisites over; a step of the manager maps to the step of `Workflow`
  with its name or to a stutter.  That a graph which `ytaskdepman_verify`
  accepts has no cycle goes by the least set of what stands behind a task
  (`Behind`): a cycle would put a task behind itself, and all tasks stand
  behind the one root.

`TaskEventsProofs`
: `EventsOutliveNothing` (`Lifetime`) and `ListenersHearAll` (`HearsAll`), for
  any number of listeners and progress steps.  References are counted as a set
  of tokens, the places of the messages that owe one (`Tokens`), so that
  posting and taking a message adds and removes one element.  The invariant
  adds that an event is always followed by the message that drops its
  reference, that the end is the last event, that a freed handle has nothing
  to come that touches it, and for each listener a strictly rising map from
  the events it is still due to the places of its mailbox (`Carried`), which is
  what keeps the order when the mailbox moves up.
  `TagsHaveOneHolder` (`TagsExact`): names and adders have their objects and
  tags apart (`HadOnce`), every tag that is held somebody has (`HeldIsHad`), and
  the object a get has found still holds the tag it found, in the map, or that
  tag was freed (`GetsSeeTags`).

`StructureProofs`
: `ReferencesAreExact` (`ReferencesExact`): the references in the hands of threads and in objects
  are counted as finite sets of tokens, without a bound on threads or
  objects; that one put only returns 0 follows because who still has a
  reference keeps the count above that of any put under way.  With guards, the
  one access to a freed block is the check of a put that was overtaken
  (`late`).
  `ArrayKeepsElements` (`KeepsElements`).  `ListIsExact` (`ListExact`): the head and the items in their order are a ring in
  both directions (`Ringed`), which linking, unlinking and replacing keep
  (`LinkKeepsRing`, `UnlinkKeepsRing`, `ReplaceKeepsRing`), and what an
  iterator has still to hand out is the end of the list, apart from what it
  handed out, so that a removal takes nothing from it (`Iterates`, `Ahead`).  It
  assumes `~Resets`, for the reason given in section 4.
  `SearchAnswersRight` (`GraphExact`): the history of the search is a way back
  from the base (`WayBack`); every edge on the stack belongs to a place of it
  and no predecessor of a place is forgotten (`EdgesOf`, `Pursued`); what was
  left behind has only predecessors that were left behind before it
  (`LeftBehind`, by ranks), hence is on no cycle.  The base is not marked when
  the search begins, so it may be met again; then the edge that closes its
  cycle is still on the stack (`BaseAgain`).
  `HashStaysDictionary` (`HashIsDictionary`): the buckets are sets of nodes, no
  key has two, and each node lies in the bucket its key hashes to at the present
  size; a resize keeps the nodes whichever way it goes, and the sizes stay
  powers of two within the limits, so that the mask of the code is a remainder.
  `CacheIsLru` (`IsLruCache`), with `CacheStaysExact`: list and hash have the
  same nodes, the size is the sum of the data of the list, and what an eviction
  takes is a tail of it and no longer than needed.  The sums are over sequences
  (`SumOf`), with lemmas for a front, a tail and a removal.  It holds for every
  sequence of calls and failures until the put that spoils the cache (`spoiled`).
  `HeapIsPriorityQueue` (`IsPriorityQueue`), with `HeapStaysOrdered`: every node
  is where its index says, and the array is ordered everywhere except at the
  node that is being moved, whose children are in order with its parent; while
  `yheap_create2` works through the roots, it is so from the present root on.
  Together with the order, the root is the greatest because every place has the
  root above it; every operation but pushpop and poppush returns it.

`SupportProofs`
: Of the looper, `TypeCorrect`, `TerminatedMeansOver`, `CallbacksAreSafe`,
  `NoStopIsSleptThrough` and `OverMeansTerminated`, together
  `EveryCallbackIsSafe` and `StopsAreSafe`.
  The invariant adds that a stop that has to restore TERMINATED has seen it,
  so that the looper is over; that every fd of the batch is watched and holds
  a token; and that a watched fd belongs to a living handler.
  `PoolIsPartitioned` (`BlocksPartitioned`): every block is at the place of the
  array its index says, the first `fbi` are those in use, for any size of a
  group.
  `LibraryStartsWhole` (`AllOrNothing`): the modules that are up are those of a
  stretch of the list, on one side of the loop's position, in each of the
  loops.
  `DescriptorsGiveBack`
  (`ReadsWhatWasWritten`): as long as nothing was short, formatted twice or
  lost, what was given is what was returned, then the buffer, then the pipe,
  then the text in hand, which is written whole or not begun (`FollowsOn`).
  `RegionStaysExact` (`RegionExact`): every point of the plane is in the result
  of an operation exactly when the operation says so of the operands, and the
  bands of the result are proper, in order and merged.  The argument is the same
  for the loop over the bands of two rows and the loop over the rows: at every
  turn, what the output holds together with what the rest of the operands will
  contribute is what the whole operands contribute (`SweptTo`, `TurnedTo`); the
  output ends where the rest of the operands begins, so that a band or row which
  is added touches at most the last one (`AddBandEffect`); and a turn
  takes a band or row from the operands (`SweepReady`, `TurnReady`), so that as
  many turns as there are bands empty them.  A region stands for a set of points
  (`StandsFor`) from then on, whichever operation and side.

The facts about a loop that is written as a recursive function (powers of two,
sums, the places under a root, the turns of the region loops) go by the least number at which they fail
(`LeastNumber`) and its consequence `UpTo`; these come from the well-founded order
of the naturals.

Constants are restricted only by what the code needs: the client's ranks and
sizes are numbers, the smallest and the first size of a hash map are within its
largest, no coordinate of a region is beyond the band that marks its end
(`GEO_INVALID_MAX_VALUE - 1`), `Mempool`'s groups hold at least one block, the array's first limit and the read buffer at least one
element (`ydynb_create` refuses 0), and the names that stand for "no handle", "no
object", "none" and the head of a list are not names of handles, objects, tags
or links.

Each theorem goes by an inductive invariant, with a lemma for the initial states
and one per action; TLC checked the invariants about `MsgQueue`,
`Threadex`, `MsgLooper`, `RingBuf`, `TaskManager`, `TaskDepMan` and `TaskEvents` on
the runs' instances first.  Where the proofs needed a form
the provers can expand, the model has it: `RemoveFirst` for taking an element
out of a list, `Behind` in `TaskDepMan` and `Before` in `Graph` as least closed
sets, `Owing` and `InHand` as sets of tokens in place
of sums over functions, and `Doublings` of `Dynb` without powers.

## 7. What is only model-checked

* Liveness (`NoneIsForgotten`, `AlwaysEnds`, `StartsAndStops`,
  `PostedIsHandled`, `Served`, `FreedInTheEnd`, `StartedEnds`): the prover does
  not handle fairness and ENABLED.
* `Trie`, `Tree` and `Crc`.  `Crc` computes with `Bitwise`, and the
  orders of `Tree` and the descents of `Trie` are RECURSIVE operators, in both
  cases without a backend of the prover.
* `ylist_reset` of a list with items (see section 4).
* The disagreements of section 4: a counterexample is a behaviour of a small
  instance.

## 8. What is not modelled

* Payloads, names, ids, error numbers, logging: no property depends on
  them.  A refused call is an action that is not enabled.
* Getters and pure queries (`ytaskmanager_contains`, `ytaskmanager_find_task`);
  `ymsghandler_exec_on`, which runs in place or posts; the tags of a looper.
* `on_cancelling` and `on_cancelled` of a task's listeners, which reach them as
  `on_started` and `on_done` do; task progress intervals.
* Deep copies of hash keys and the destructors of LRU data; what `ytrie_reset`
  leaks; the growth of the buffer of a region operation (its result is assumed
  to fit in the first one); block layout and alignment in `mempool.c`; element
  padding in `dynb.c`; the sum of two sizes in `lru.c` and the shift that gives
  the size of a hash map beyond the 32 bits they are computed in.
* `ycrc32`, which is `ycrc16`'s code over a table whose numbers TLC's integers do
  not hold.
* The rest of `ut.c` and `yut.h`: pure functions on strings and numbers.
* `statmath.c`/`statprint.c` (floating point, printing), `rx.c` (a wrapper of
  regcomp), `log.c`, `errno.c`, `linux/proc.c` (output, a table, readers of
  `/proc`): they keep no state.
