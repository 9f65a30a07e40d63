# TinKer in TLA+

TinKer is a small portable kernel for embedded systems: a thread scheduler
(`src/src/tk.c`, `tk_switch.c`), its own message queues and semaphores
(`tk_itc*.c`), and, on top of these, subsets of the POSIX thread
(`pthread_*.c`) and real-time (`semaphore.c`, `mqueue.c`) interfaces.  This
directory holds a TLA+ model of the parts of it that hold state and take
decisions, the TLC configurations that check the model on small instances, and
machine-checked proofs about the scheduler, the ITC semaphores and queues, the
pthread mutex, condition variable and read-write lock, the POSIX message queues
with their pools, and the heaps, for instances of every size.

Most files of the repository are not the kernel: vendored register headers and
drivers of boards under `src/bsp`, start-up code and linker scripts.  What is
modelled is the kernel's own logic in `src/src`.

Paths below are relative to the repository (`tk.c:254` is `src/src/tk.c`,
line 254).

## 1. The system

### 1.1 How it executes

There is one CPU and the kernel is *cooperative*: a thread keeps the CPU until
it calls something that ends in `tk_yield`.  `tk_yield` (`tk_switch.c:53-130`)
does three things: it scans the pool for sleepers that are due and zombies that
may be buried, it asks `_tk_next_runable_thread` for the most urgent READY
thread, and it switches stacks.  The hard behaviour comes from three sources:

* *calls that yield in the middle.*  `tk_create_thread` lets the new thread's
  constructor run before it enters it in the schedule; `pthread_cond_signal`
  lets the woken thread run before it releases the mutex; the read-write lock
  and `mq_receive` are made of several such calls.  Everything that a call
  tested before the yield may be untrue after it;
* *interrupt handlers*, which may come between any two steps of a thread while
  interrupts are enabled, and may call the `_ny` variants of the ITC calls;
* *time-outs*, which compete with the event that was waited for.

Nothing is persistent, nothing is distributed, and there is no second CPU, so
there are no crashes, lost messages or data races to model.

### 1.2 Inventory

| Component | State | Operations | What makes it correct |
|---|---|---|---|
| **SCHED**: `tk.c`, `tk_switch.c` | `__tk_threadPool` (one TCB per thread: valid, state bits, Gid, noChilds, Prio, Idx, \_bon, wakeupEvent), `__tk_schedule`, `procs_at_prio`, `curr_idx`, `__tk_proc_idx`, `__tk_procs_in_use`, `__tk_active_thread` | create, join, detach, delete, return of the start function, sleep, yield, yield\_event, change\_prio, the scan, the dispatch | schedule and pool name each other; the thread count is exact; parents and child counters agree; nobody less urgent runs while somebody is READY; the dead are buried, their joiners woken |
| **ITC semaphores**: `tk_itc.c`, `tk_itcshared.c` | `token`, the ring `blocked_procs` with `in_idx` and `out_idx`; each waiter's state and wakeupEvent | `sm_p` with and without a limit, `sm_v`; FIFO or PRIOR | a counting semaphore: a signal is kept or given to exactly one waiter, the right one |
| **ITC queues**: `tk_itc.c` | the same, and the ring of messages with `min_idx`, `mout_idx` | `q_send`, `q_receive` | bounded FIFO |
| **ITC in handlers**: `tk_itcny.c`, `tk_preemplist` | the list of preempting threads | `sm_v_ny`, `q_send_ny` | the same promises although handlers come in between |
| **ITC object table**: `tk_itc.c` | `__itc_array` | `sm_create`, `sm_delete` | a call reads the object it was made on, or none |
| ITC queues of variable size, `tk_sysqueues.c` | `__itc_idx`, a list of queues | `q_v*`, creation at start | not modelled, see 9 |
| **PTHREAD\_SCHED**: `pthread_sched.c` | none but `pthread_once`'s | wrappers of the SCHED calls, `pthread_once` | as SCHED; the routine has run when `pthread_once` returns |
| **PTHREAD\_SYNC**: `pthread_sync.c`, `pthread_mutex.c`, `pthread_cond.c` | owner and blocked list of every mutex; a condition variable is a mutex `cv_mux` that is always owned, and the mutex `coop_mux` it cooperates with | lock, unlock, wait, signal, broadcast | mutual exclusion, no lost waiter |
| **Read-write lock**: `pthread_rwlock.c` | five counters, a mutex, two condition variables | rdlock, wrlock, unlock | a writer is alone; the counters are true; nobody is left behind |
| **POSIX\_RT semaphores**: `semaphore.c` | an ITC semaphore each | wait, post | as ITC semaphores |
| **POSIX\_RT message queues**: `mqueue.c` | the ring `messArray`, indices, `lastInOrder`, a semaphore of each queue; the pools of queues and descriptors and their semaphore | open, send, receive, close, getattr, setattr | a priority queue; the pools' section holds one thread and is left again; a name has one queue, a descriptor leads to its own |
| **Sorting**: `tk_ansi_search.c` | none | `qsort` | sorts, whatever the pivot |
| **KMEM**: `tk_mem.c` | the table of heaps; of each a counter, an index that rotates, and an int in front of every block | create, destroy, malloct, free, with lock hooks | a block has one owner; the counters are exact; the search for a block ends |
| **FILESYS**: `filesys/` | the tree of inodes in `down` and `next` links, mounts | `mknod`, `mount`, `umount2`, creation by `open` | what was made is found by its path, and nothing else by that path |
| PTIMER, clock, board and CPU support | | | not modelled, see 9 |

### 1.3 How they interact

SCHED is at the bottom.  ITC uses two things of it: a thread blocks by setting
its own state and calling `tk_yield`, and it is made READY by somebody else
setting its state; the time limit of a wait is the scan's business.
PTHREAD\_SYNC is independent of ITC and uses the same two things.  POSIX
semaphores are ITC semaphores, and `mqueue.c` is built from POSIX semaphores and
`qsort`.  KMEM and FILESYS stand by themselves: KMEM meets the scheduler only in
the lock hooks of a heap, which may yield.
The models follow these lines: each module above SCHED has *its own small
kernel* of a few lines (which threads are READY, `Dispatch` picks a most urgent
one, any sleeper may wake), and `TkSched` is where that kernel is modelled in
full, and where `DispatchIsHighest`, the only thing the others rely on, is
proved.

## 2. The modules

| Module | What it is | Extends or instantiates |
|---|---|---|
| `TkSched` | SCHED in full | |
| `TkSchedProofs` | the theorems about `TkSched` | `TkSched`, `TLAPS` |
| `TkItc` | ITC semaphores, the timer, interrupt handlers | refines `Semaphore` |
| `ItcDelete` | a slot of the object table: `sm_create` and `sm_delete` around `TkItc` | `TkItc`; refines `Semaphore` started over |
| `TkItcProofs` | the theorems about `TkItc`, and about its compositions `TkQueue` and `ItcDelete` | `TkQueue`, `ItcDelete`, `TLAPS` |
| `Semaphore` | abstract: a counter and a line of waiters | |
| `TkQueue` | ITC queues, with every access to the ring as a step | `TkItc`; refines `BoundedFifo` |
| `BoundedFifo` | abstract: a sequence, put at the end, taken from the front | |
| `PthreadSync` | the two mutex primitives and the mutex and condition calls, each with a return place | |
| `PthreadCond` | threads that share a mutex and a condition variable | `PthreadSync` |
| `PthreadSyncProofs` | lemmas about those primitives, and the theorems about `PthreadCond` | `PthreadCond`, `TLAPS` |
| `PthreadRwlock` | the read-write lock, written in those calls | `PthreadSync` |
| `PthreadRwlockProofs` | the theorems about `PthreadRwlock` | `PthreadRwlock`, `PthreadSyncProofs` |
| `PosixMq` | `mq_send` and `mq_receive` on one open queue, and the error return of `mq_open` | `AnsiSearch`; refines `PrioQueue` |
| `PosixMqProofs` | the theorems about `PosixMq` | `PosixMq`, `TLAPS` |
| `AnsiSearch` | `qsort` as functions | |
| `PrioQueue` | abstract: the accepted messages; the oldest of the most important leaves | |
| `MqPools` | `mq_open` and the pools of queues and descriptors | |
| `MqPoolsProofs` | the theorems about `MqPools` | `MqPools`, `TLAPS` |
| `Kmem` | heaps of equal blocks | refines `BlockPool` |
| `BlockPool` | abstract: blocks that are free, out, or lost | |
| `KmemProofs` | the theorems about `Kmem`, the refinement among them | `Kmem`, `TLAPS` |
| `FsTree` | the tree of inodes and the search in it | |
| `FsTreeProofs` | the theorems about `FsTree` | `FsTree`, `TLAPS` |
| `MCItc`, `MCItcDelete`, `MCQueue`, `MCCond`, `MCRwlock`, `MCMq`, `MCKmem` | the threads' priorities and symmetry for TLC; `MCMq` also tries `qsort` | the module each is named after |

The order in which they were written is the order of importance: the scheduler
first, because everything relies on it, with its proofs; then ITC and its
queues; then the pthread synchronisation; then the message queues; then the
modules that stand by themselves (`Kmem`, `FsTree`), the life of ITC objects and
the pools of message queues.

Definitions named `X_Something` and marked `Fault:` are plausible bugs in the
code that `X` models.  No specification uses them.  Each property of a passing
run is violated when one of them takes the place of the definition it is named
after, which shows that the property is able to fail.

## 3. How states and actions correspond to the code

### 3.1 `TkSched`

The fields of a TCB are one variable each, as functions of the thread id:
`valid, state, gid, noChilds, prio, idx, bon, event`.  `state` is the set of
bits that are on: `T` (TERM), `S` (SLEEP), `Z` (ZOMBI); READY is the empty set.
`sched`, `procs`, `curr` are `__tk_schedule`, `procs_at_prio`, `curr_idx`;
`procIdx` and `inUse` are the two globals `__tk_proc_idx` and
`__tk_procs_in_use`.  Where a suspended call goes on is kept per thread in
`cont`, with `making` as the local variable of `tk_create_thread`.  `limbo`
holds the threads that are in the pool but not yet in the schedule.

| Action | Code |
|---|---|
| `CreateThread`, `RefuseCreate` | `tk_create_thread` up to the constructor's yield; its limits, which end in `tk_exit` |
| `FinishCreate` | the rest of it, when the caller is dispatched again; it uses the *global* index, as the code does |
| `JoinZombie`, `JoinBlock`, `FinishJoin` | `tk_join` on a dead child, on a living one, and after its yield |
| `DeleteThread`, `DeleteZombie` | `tk_delete_thread` of a living thread and of a zombie |
| `Return`, `RootReturn` | `_tk_destructor`; root's return, which ends the system |
| `SetPrio`, `RefuseSetPrio` | `pthread_setschedparam` with `tk_change_prio`, and the latter's limit |
| `Sleep`, `Yield`, `YieldEvent` | `tk_msleep`, `tk_yield`, `tk_yield_event` |
| `ScanStep(due)` | one round of `_tk_wakeup_timedout_threads`; `due` says whether the sleeper's time has come |
| `Dispatch` | `_tk_next_runable_thread` and the switch |

The schedule is one C array, and two loops in the code (`tk.c:257-261`,
`483-487`) read the cell behind the last one in use.  `Cell` therefore computes
what lies behind a row: the next row, and behind the last one the word
`AfterTable`.  `Renumbered` is the loop's effect on `Idx`, including on the
thread that this extra cell names.

Not in the model: stacks and their CRCs, names, register contents.  The clock
is not there either: a sleep may have any length, so that at any scan a sleeper
may be due or not.  `tk_detach` refuses every thread that has a parent and does
nothing to the others (`tk.c:282`), so it has no action.

### 3.2 `TkItc` and `TkQueue`

`q` is the `itc_t`: `token`, the ring `blocked` with `in` and `out`, and
`prior` for the PRIOR flag.  `token` counts as in the code: positive it is the
semaphore's value, negative it says how many entries the ring has.  `pc` is
where a thread is in `lock_stage` or `unlock_stage`, `mark` the local
`mark_idx`.

`LockFree`, `LockForever`, `LockTimed` are the three ways through
`lock_stage`; `Unblocked`, `InTime`, `TimedOut` what follows their yield.
`TimedOut` includes the removal of the thread's own entry and the sweep
(`Sweep`), which removes the entries of others that timed out as well.
`Unlock` is `unlock_stage` (`SignalFree`, `SignalFifo`, `SignalPrior`), and
`FromHandler` is `sm_v_ny` from an interrupt handler.  A handler may run between
any two steps, also between the end of a waiter's limit and the waiter's next step
(`Late`); `npreempt` counts the threads on `tk_preemplist`.

`TkQueue` adds the message ring.  `q_send` copies, moves `min_idx` and then
signals, all with interrupts enabled: `Send`, `Advance`, `Unlock` are three
steps.  `q_receive` fetches after `lock_stage` has returned: `Fetch` is a step
of its own.  `q_send_ny` runs with interrupts disabled and is one step,
`SendFromHandler`.  The error returns of `q_send_ny` (`tk_itcny.c:367-381`) leave
with interrupts disabled; in a handler they are disabled anyway, and the model has
them as calls that change nothing.

`ItcDelete` puts the object into a slot of `__itc_array` that may be empty
(`exists`).  A call made while the slot is empty returns at once and changes
nothing.  A call that has waited reads the slot again, and does so only after a
time-out: `stale` names the threads whose object has gone since they began to
wait.  `sm_delete` has the condition `Unused`, which is the caller's: the code
looks at nothing.  `sm_create` is the initialisation of the object.

### 3.3 `PthreadSync`, `PthreadCond`, `PthreadRwlock`

A condition variable's name stands for its `cv_mux`, whose owner is the dummy
`One`.  `Locked`, `Unlocked` and `AllWoken` are `_mutex_lock_primitive` and
`_mutex_unlock_primitive` (with BSINGLE and BCAST) as functions on the
synchronisation state.  The calls are operators that take the place they return
to: `MutexLock(m, next)`.  A call that yields half way puts its own rest on top
of the stack `pc[t]`: `<<"release", c>>` is the second half of
`pthread_cond_signal`, `<<"relock", c>>` that of `pthread_cond_wait`.

`PthreadCond` has threads that make any of the five calls when they are inside,
and that know that a signal has released the mutex (see 7).  `PthreadRwlock` writes the three functions with those
calls; each action is the code between two calls that may yield.
`bwriters_prio` is the set of the threads it counts.

### 3.4 `PosixMq`, `AnsiSearch`, `MqPools`

One open queue, so that `poolAccessSem` and the queue's own semaphore are all
the semaphores there are; `sem_wait` and `sem_post` are one step each, with the
blocked threads in a sequence (a FIFO semaphore, as in `TkItc`).  `mq_send` is
`SendCall`, `SendFull` or `Send`, and `SendEnd`: everything between the two
semaphore calls of the pool's section is a step of its own.  `Sorted` is
`sortByPrio` with `compMess`, and the messages are sorted by `AnsiSearch!qsort`,
which is `_tk_quicksort`: the partition with its two scans (`Parted`), and the two
calls of itself.  The downward scan has no end of its own where the pivot comes first;
where it leaves the range, `ScanDown` returns the index in front of it, since
every such place ends the loop alike.  `mq_receive` is `RecvCall`, `RecvTest`, `RecvWait`
and `Fetch`, the last two outside of the section.  `OpenCall` and `OpenRefused`
are the error return of `mq_open` for a NULL attribute.

`MqPools` is what `PosixMq` takes for granted.  `queuePool` and `filePool` are
the two tables; `ring` says how far the creation of a queue has got.  A thread is
in a call that waits for `poolAccessSem`, inside, or in the half of `mq_send`
after its post.  Each return of `mq_open` is an action (`OpenFull`, `OpenExists`,
`OpenNoAttr`, `OpenNoMemory`, `OpenCreate`, `OpenExisting`, `OpenNoEntry`); the
descriptor given at the end of two of them is `Describe`.  The other calls find
their queue by `Accepted`, with any descriptor, their own or not.  `reached` and
`held` record what a thread has got hold of, for the properties.

### 3.5 `Kmem`

`header_pool` holds the `heap_t` of each slot; `header` is the int in front of
each block, of every region of memory that a heap may lie in: the caller's
(`Areas`) or what `malloc` gives.  The region outlives the heap, with its marks.
A heap with lock hooks is used in two steps, because `tk_mem_malloct` and
`tk_mem_free` test the heap *before* they call the hook, and the hook may yield:
`MalloctTest` and `MalloctLocked`, `FreeTest` and `FreeLocked`.  `FreeRefused` is
the release of a block into a full heap.  `IsNextBlock` is the search, which
starts at `indx` and wraps around.  `out` holds the blocks with clients.
`user` is not in the code: it names the thread that allocates from a heap with
hooks (see 8).

### 3.6 `FsTree`

An inode is a number; `kids` is the list that `down` and `next` link together.
`isearch` takes one `Onward` for each name of the path (`Walk`), with the code's order
of tests: the mount first, then, by reading it, the inode itself.  A childless
directory's `down` is the inode itself, so that the search goes on among its
later siblings: `Listed`.  `MkNod` is `mknod`, `imknod` and the creating half of
`fs_open`; `mount` and `umount2` carry the source's names.  `FollowNull` is any
call with a path that makes the search read through NULL: nothing is said of what
comes after (`running`).

## 4. The runs

All runs switch TLC's deadlock check off, for one
reason: the modelled system may legitimately stop.  In `TkSched` root may return
and a limit of `tk_create_thread` ends in `tk_exit` (phase `"exit"`); in `FsTree`
all inodes may be in use; in the other modules all threads may be blocked at
once, with nobody left to signal, which is the clients' doing (the idle thread,
which would go on yielding, has no step of its own there).

| Run | Instance | Shows |
|---|---|---|
| `sched` | 4 threads, 3 priorities, rows of 3; thread 3 may be deleted and thread 2 moved by anybody | `TypeOK`, `ScheduleIntegrity`, `CountOK`, `FamilyOK`, `JoinOK`; the action properties `DispatchIsHighest`, `BuryAssert`, `JoinReturns`, `CleanReuse`; under fairness `ZombiesAreBuried`, `JoinersWake` |
| `sched_race` | 5 threads, overlapping creations | **violated**: `DispatchAssert` |
| `itc_late` | FIFO semaphore with room for 3 waiters, 3 threads at 2 priorities, the most urgent of which may wait with a limit, handlers at any moment | **violated**: `NoStarvation` |
| `itc_delete` | FIFO and PRIOR semaphores created and deleted, 4 threads at 3 priorities, the most urgent sleeps and waits with a limit | `WaitersOK`, `NeverStale`; refines `Semaphore`, started over by each creation |
| `queue` | 2 cells, 2 senders, 2 more urgent receivers | `ConsistencyAssert`; refines `BoundedFifo` |
| `queue_isr` | FIFO or PRIOR queue of 2 cells with room for 2 waiters, 3 receivers, the most urgent of which may wait with a limit, messages from handlers at any moment | `TypeOK`, `WaitersOK`; refines `BoundedFifo` and `Semaphore` |
| `cond` | 4 threads at 2 priorities that know that a signal unlocks | `WaitersOK`, `SyncAsserts`, `InsideOwns` |
| `rw` | 2 readers, 2 writers, one of each at each of 2 priorities | `Exclusive`, `CountersOK` |
| `mq` | 3 cells, one sender, two receivers (one with O\_NONBLOCK), one of which also opens queues | `Announced`, `PoolExclusive`; refines `PrioQueue` |
| `mq_pools` | 2 threads, 2 names, 3 queues, 2 descriptors | `NamesUnique`, `SlotsSpent`, `ReachesOwn`, `SectionKept` |
| `kmem` | 2 heaps of 1 or 3 blocks, one area of the caller's, 2 threads | `HeapsCounted`, `BlocksCounted`, `SearchEnds`; refines `BlockPool` |
| `fs` | 5 inodes, 2 names, 3 modes, paths of up to 3 names | `Findable`, `LookupExact`; the action property `NothingBelowMounts` |

What the less obvious properties say:

* `ScheduleIntegrity`: every thread outside of `limbo` has exactly one cell, at
  its own `Prio` and `Idx`; every cell in use names such a thread; the cells
  behind are zero.  It is what `tk_delete_thread` and `tk_change_prio` have to
  preserve with their loops, and what the dispatcher relies on.
* `CountOK`: `tk_create_thread` looks for a free TCB in a loop that has no other
  end (`tk.c:317-323`); it ends because the count is right.
* `FamilyOK`, `JoinOK`, `CleanReuse`: Gid, noChilds and \_bon are links between
  TCBs that are reused.  A link must never survive its target.
* `JoinReturns`, `JoinersWake`: `tk_join` ends because *the* child died, and then
  it does end.
* `WaitersOK` (ITC): the ring of blocked threads, the counter and the threads'
  own states are three records of the same fact, changed at different moments.
* `IsSemaphore`: `Semaphore` is a counter and a line of waiters in which a signal
  increments the counter if nobody waits and otherwise lets exactly one waiter
  go: the first of the line, or, for PRIOR, the first of the most urgent.  A
  waiter with a time limit may also give up, from wherever it stands in the line.
  Once its time is up it is late: a FIFO signal then passes over it if somebody
  behind it still waits, and serves it if nobody does, as the code's loop has it;
  passed over, it still leaves with ERR\_TIMEOUT, and nobody else's place changes.
* `NoStarvation`: a thread that waits stops waiting if the object goes on being
  signalled.  No passing run claims it: `itc_late` shows that it fails.
* `IsRenewable` adds that the counter starts again with the next object, and
  only with it.  `NeverStale`: a thread whose time is up reads the object that it
  has waited for, which is why the deleter has to look for waiters first.
* `IsFifo`: `BoundedFifo`'s buffer is what nobody has fetched yet: messages that
  the token counts, messages promised to a receiver that has been let go, and
  messages copied but not signalled.
* `SyncAsserts`: the assertions of `pthread_sync.c` and of `pthread_cond_wait`
  as a state property: a free mutex has no waiters, a `cv_mux` is never free.
* `InsideOwns`: whoever has come back from `pthread_mutex_lock` or
  `pthread_cond_wait` owns the mutex, although signalling releases it behind
  the signaller's back and hands it on.
* `Announced`: the number of messages in the ring is the semaphore's token plus
  the receivers that it has let through and that have not fetched.
* `NamesUnique`: `mq_open` marks a slot, looks for the name in the others, and
  only then writes the name; a creation that fails leaves it behind.  Still a
  name is never given twice.  `SlotsSpent` accounts for every slot: one of each
  name, and one of each call that returned EEXIST.
* `ReachesOwn`: `mq_send` and `mq_receive` go through two tables with a number
  that the program passes.  What they accept is the thread's own.
* `SectionKept`: `mq_open` has ten returns inside of the section, and each must
  post exactly once.  The pool's semaphore is 1, or it is 0 and one call is inside.
  One return does not post (see 7); the property says that it is the only one, and
  that nobody is inside after it.  That a caller gets in, in the end, is not claimed:
  the scheduler gives no thread of a priority its turn (7, *Even turns*).
* `SearchEnds`: `tk_mem_malloct` tests for room before it takes the lock, and
  then searches without end for a block that is free.
* `IsBlockPool`: no block is with two clients, none is given that a client still
  has, and a heap goes only when nobody has a block of it.  A block that comes
  back to a full heap is lost, as the code has it.
* `Findable` and `LookupExact` are the two directions of a search: what was made
  is found by its path (or the outermost mounted inode above it is), and what a
  path finds was made by that path, unless the search came through a mounted or
  a childless inode.

### Bounds

* `MaxThreads = 4` in `sched` is root, idle and two more: a thread that
  creates, joins or deletes while a sibling or a child dies, and the reuse of a
  slot, need two.  `sched_race` needs three for two creations to overlap.
  Three priorities give a row above and one below every thread, and rows that
  are passed over.  Rows of 3 fill up (root or idle, and the two others), so that
  the refusals of `tk_create_thread` and `tk_change_prio` happen.  That is one
  cell less than `Discipline` asks for (see 6); here it does no harm, because the
  row behind a full one is empty: the loop's extra cell holds a zero all the same.
* `MaxChilds` bounds a child counter that creeps up when the zombies of living
  parents are deleted again; with `ReCancel` FALSE it is not reached.
* `MaxBlocked` is the size of the ring, of which the code uses all cells but
  one: with 3 cells and 3 threads, or 4 and 4, all sequences wrap around the
  end and reach the limit.  In `queue_isr` the 3 cells are also the most with which
  a handler beside a limited wait does no harm; `itc_late` has 4 (see 7).
* `MaxToken` stops signals at a value that no test in the code distinguishes
  from higher ones, `MaxPreempt = 1` keeps the handlers to what the assertion of
  `tk_yield` allows (see 7, *The list of preempting threads*).
* `Size = 2` and `MaxMsg = 3` are the smallest rings that are neither empty nor
  full with one message in them (the POSIX queue leaves one cell free).
* `MaxOrder` stops `mq_send` after four messages, more than the ring has cells:
  it wraps around.  The ring never holds more than two at once; `MCMq` therefore
  tries `qsort` on every array of up to five keys out of three values, equal ones
  included (`QsortAssumption`), which has all the shapes that a partition and the
  calls on both its sides can take.
* two messages, two priorities: enough to see a swap, a loss or a duplicate.
* `kmem`: a heap of one block is empty or full, one of three has a middle, so that
  the rotating index passes over blocks in use and wraps around; two heaps share
  the caller's area in turns; the proofs do without these bounds.
* `mq_pools`: two names and three slots let a name be used, its slot be leaked,
  and the pool run out; two descriptors run out before the slots do.
* `fs`: five inodes and paths of three names make a directory in a directory, with
  siblings before and behind it, mounted and not.
* `queue_isr`, `itc_delete`: one timed waiter, the most urgent thread (see 7), two or
  three others.  In `queue_isr` the other receivers, and the messages, are alike, and
  TLC takes states that differ only by their exchange for one.

## 5. Fairness

`TkItc!FairSpec` is weak fairness of `Kernel`: what a thread has begun in the
kernel goes on, because a CPU executes.  `NoStarvation` is violated under it in
`itc_late`: the threads and the handlers go on for ever, and the lost waiter is in no
ring.

`TkSched!FairSpec` has the same, and strong fairness of `Yield`.  This is
explicit yielding, which the paper (part 1) asks of every program: a thread that
goes on running user code calls `tk_yield` again and again.  Weak fairness does
not say so, because a thread may call `tk_yield_event`, which takes the CPU from
it, and `Yield` is then disabled for a while; TLC finds the run in which a
thread goes on calling only `tk_yield_event` and no zombie is ever buried.  The idle thread does nothing but `tk_yield`.  No fairness is assumed
of any other call, nor of the clock.

## 6. The proofs

TLAPS checks the proofs for every value of the constants that satisfies the
named assumptions of the modules.  The models that are proved about are the
models that are checked: no configuration replaces a definition.

| Module | Theorem | Statement |
|---|---|---|
| `TkSchedProofs` | `Invariance` | `Discipline` implies `Spec => []IInv` |
| | `TypeCorrect` | ... `Spec => []TypeOK` |
| | `ScheduleSound` | ... `Spec => []ScheduleIntegrity` |
| | `DispatchHighest` | ... `Spec => DispatchIsHighest` |
| | `BuryAsserted` | ... `Spec => BuryAssert` |
| | `CountSound` | `Spec => []CountOK`, without `Discipline` |
| | `FamilyInvariance` | `Discipline` and `~ReCancel` imply `Spec => [](IInv /\ FInv)` |
| | `FamilySound`, `JoinSound`, `CleanReuseHolds` | ... `Spec => []FamilyOK`, `[]JoinOK`, `CleanReuse` |
| | `JoinReturnsHolds` | `Discipline` implies `Spec => JoinReturns` |
| `TkItcProofs` | `Invariance` | `Rules /\ Spec => []IInv` |
| | `TypeCorrect`, `WaitersHold` | ... `[]TypeOK`, `[]WaitersOK` |
| | `Implements` | `Rules /\ Spec => IsSemaphore`: the refinement of `Semaphore` |
| | `DeleteInvariance`, `NeverStaleHolds`, `Renews` | `Rules /\ DSpec => []DInv`, `[](NeverStale /\ WaitersOK)`, `IsRenewable` |
| | `QueueInvariance`, `ConsistencyAsserted` | `Rules /\ QSpec => []IInv`, `ConsistencyAssert` |
| | `RingSound`, `QueueImplements` | `QueueRules /\ QSpec => []QInv`, `IsFifo`: the refinement of `BoundedFifo` |
| | `QTypeCorrect` | ... `QSpec => []QTypeOK` |
| `PthreadSyncProofs` | `CondInvariance` | `CondSpec => []CondInv` |
| | `CondTypeCorrect` | `CondSpec => []CondTypeOK` |
| | `CondWaitersHold`, `AssertsHold`, `InsideOwnsHolds` | `CondSpec => []WaitersOK`, `[]SyncAsserts`, `[]InsideOwns` |
| `PthreadRwlockProofs` | `Invariance` | `Spec => []IInv` |
| | `TypeCorrect`, `ExclusiveHolds`, `CountersHold` | `Spec => []TypeOK`, `[]Exclusive`, `[]CountersOK` |
| | `WaitersHold` | `Spec => [](WaitersOK /\ SyncAsserts)` |
| `PosixMqProofs` | `Invariance` | `Spec => []IInv` |
| | `PoolExclusiveHolds`, `AnnouncedHolds` | `Spec => []PoolExclusive`, `[]Announced` |
| | `FetchesFind` | `Spec => [](At("fetch") => Numb > 0)` |
| | `QsortSorts` | `qsort` of any array of messages is in order and a rearrangement of it |
| | `OrderHolds` | `Spec => []RingOrder` |
| | `TypeCorrect` | `Spec => []TypeOK` |
| | `Implements` | `Spec => IsPrioQueue`: the refinement of `PrioQueue` |
| `KmemProofs` | `Invariance` | `Spec => []IInv` |
| | `HeapsCountedHolds`, `BlocksCountedHolds`, `SearchEndsHolds` | `Spec => []HeapsCounted`, `[]BlocksCounted`, `[]SearchEnds` |
| | `Implements` | `Spec => IsBlockPool`: the refinement of `BlockPool` |
| `MqPoolsProofs` | `Invariance` | `Spec => []IInv` |
| | `NamesAreUnique`, `SlotsAreSpent`, `CallsReachOwn`, `SectionIsKept` | `Spec => []NamesUnique`, `[]SlotsSpent`, `[]ReachesOwn`, `[]SectionKept` |
| `FsTreeProofs` | `Invariance` | `Spec => []IInv` |
| | `WhatIsMadeIsFound`, `SearchIsExact` | `Spec => []Findable`, `[]LookupExact` |
| | `MountsStayCovered` | `Spec => NothingBelowMounts` |

The assumption that `Threads` is finite, which the models of the calls above the
scheduler share, is the size of the kernel's pool (`TK_MAX_THREADS`); what is
counted in the proofs is counted over it.

### 6.1 The scheduler

`Discipline` is what clients have to keep to, and each part of it is needed:

* `SerialCreates`: nobody calls `tk_create_thread` while another call of it is
  waiting for its constructor.  Run `sched_race` shows what happens otherwise;
* root is neither deleted nor moved: the removal loop overwrites root's `Idx`
  (see 7);
* `MaxAtPrio >= MaxThreads`, so that no row fills up: the loop reads past a full
  row (see 7).  The default of `include/tk.h:48-50` satisfies it, that of
  `src/tk_tuning.h:74-82` (10 of 50) does not.

`ScheduleIntegrity` is not inductive.  `IInv` adds:

* `TableOK`: `curr_idx` is 0 at every priority.  (The dispatcher would otherwise
  have to be followed through its wrap-around.)
* `FixedOK`: root and idle stay at priority 0 and at the lowest one.  With rows
  as large as the pool this keeps every row from filling up, since root or idle
  is missing from it (`RowsHaveRoom`), and it makes the cell behind a row's last
  thread a zero.
* `LimboOK`, `CreateOK`: a thread that is not in the schedule yet is the one
  that `__tk_proc_idx` names, and is alive, so that `FinishCreate` enters the
  right one.  They hold because of `SerialCreates`.
* `ActiveOK`: the running thread is in the schedule and alive.

The table is treated apart from the state machine.  `Fits(sch, pr, ix, prc, S)`
is `ScheduleIntegrity` of any table that holds a set `S` of threads.  `Appended`
says that entering a thread at the end of a row preserves it, `Closed` that
taking one out and closing the gap does; `TableWithout` ties `Closed` to the
operators of the model, with the extra cell of the loop.  Each action has a
lemma, most of which only show that the table is left alone (`SameTable`).
`DispatchHighest` follows from `ScheduleIntegrity` and the order in which the
dispatcher visits cells, `BuryAsserted` from the fact that the buried thread is
in the schedule.  `CountSound` has an invariant of its own (`CInv`), because it
holds for all clients.

*Parents, children and joiners.*  `FInv` is `KinOK`, `WaitOK` and `RunOK`.
`KinOK` is `FamilyOK` with the fixed parents of root and idle and with no other
thread its own parent: without that, a thread that dies would be looked for among
its own children.  `WaitOK` says of every thread of the pool whom it waits for in
`tk_join`: a child that is in the pool, whose gid is the waiter; that the dead
wait for nobody; and that a joiner does not sleep at the same time, so that its
wakeupEvent can only be written by the child's death.  `JoinOK` alone is not
inductive, since a burial frees the slot of which `_bon` holds the index.
`CleanReuse` follows: whoever takes a free slot finds no link to it.  The
hypotheses are `Discipline`, whose ban on deleting root is needed because root
counts itself as a child (see 7), and `~ReCancel`, because a zombie that is
deleted again is taken out of the pool without its parent's counter being told
(see 7).  `JoinReturns` needs `Discipline` only.

### 6.2 Mutexes, condition variables and read-write locks

The first part of `PthreadSyncProofs` is about the primitives as functions on a value of `sync`,
for any mutexes and condition variables.  `Lists(s)` says that every list of
blocked threads is without repetition, that a thread is in one list exactly if
its state says QUEUE, that a free mutex has no list, and that no owner of a mutex
is blocked.  `LockedKeeps`, `UnlockedKeeps`, `AllWokenKeeps` and `OwnedKeeps` say
that the primitives preserve `Lists` and what they do to owner and list;
`FavouredIs` that the choice among the waiters exists.  `ListsSuffice` leads from
`Lists` to `WaitersOK`.

The second part, about `PthreadCond`, adds what the clients contribute.  `Lists` alone is not
inductive: that a thread which blocks does not own anything, and that a woken one
is not in a second list, depends on where the threads are.  `ListedAt` says that
whoever waits for the mutex is in `pthread_mutex_lock` (or its return) and whoever
waits for the condition is in the second half of `pthread_cond_wait`; `Owned`,
that the mutex's owner is exactly the thread that is inside, or in the second
half of a signal; `Cooperate`, that these halves find the mutex they began with.
There is a lemma for each of the calls, and one (`Released`) for the release of
the mutex that three of them share.  They are in one module because
`PthreadRwlockProofs` needs them too; the price is that it inherits two constants,
`Mutex` and `Cond`, that the read-write lock has no use for, with the assumption
that they name a mutex and a condition variable.

`PthreadRwlockProofs` uses the same lemmas (`OfThree`, `NextLists`, `Released`,
`Signalled`) for the lock that is built out of these calls.  Two of its releases
are not made by the owner: after `pthread_cond_signal` or `_broadcast` has
released the mutex on the way, `rdlock` (at `back_off`) and `unlock` (at `leave`)
release it again, and take it from the thread it went to.  So the mutex does not
protect the counters, and an invariant that says so would be false.  Exclusion
rests on something else: the five counters are tested and changed between two
calls that may yield, never across one.  `Counted` says what they then mean:
either readers hold the lock or one writer does, and those who wait are where the
counters say.  The lists survive the foreign release because a mutex that is
taken away is handed to the head of its own list: `SInv` keeps `Lists`, and of a
thread that is outside, or has yet to lock again, that it neither owns the mutex
nor waits for it (`Engaged`, `Outside`).  The two halves of `IInv` are proved
apart.

### 6.3 Heaps

`IInv` joins the counters to who holds what:

* `Counts`, `Disjoint`: each heap's counter is the number of its marks, and no two
  heaps lie in one region, so that a mark counts once;
* `Blank`: marks in a caller's area are those of the heap in it.  It is what makes
  KMEM\_KEEP\_UNINITIALIZED sound, whose loop looks at one mark only;
* `OutMarked`, `BackMarked`, `HeldOnce`: blocks with clients and blocks on their
  way back are marked, and each is held once, so that giving one back takes
  exactly one mark away;
* `RoomKept`: whoever has passed the test of malloct is the heap's one allocator,
  so that the room it has seen can only grow until it has the lock.  `SearchEnds`
  follows with `Counts`.

`Implements` maps each action to a step of `BlockPool` or a stutter: `Take` to
`Take`, the release to `Give`, the refused release to `Lose`, creation and
destruction to `Make` and `Drop`; the halves before a lock stutter.

### 6.4 Pools of message queues

`Section` says that at most one thread is in the section of `poolAccessSem`, that
the semaphore is 0 then and only then, whichever way a call returns, and that it is
0 with nobody inside once the system has stopped.  `SectionKept` follows by
counting.  `NamedTaken`: a slot with a
name is taken, so that a free slot brings no name with it, and the search in the
taken slots misses none.  `Spent` keeps with `SlotsSpent` that the used names are
finitely many, for names may be infinitely many.  `FilesHeld` ties the pool of
descriptors to what the threads have opened; `ReachesOwn` follows with the tests
of `Accepted`.

### 6.5 Message queues

A semaphore lets a thread through by taking it out of the list of waiters, and
the thread goes on later: between the two, neither the token nor the thread's
place shows that it has been served.  `Credit(s)` is the sum of the token and the
threads that `s` has let through to the places behind it (`Past`).  A post adds
one to it, whether a waiter takes it or not; a wait leaves it alone; only a step
of a thread that has got through takes one away.  `Credit("pool") <= 1` is mutual
exclusion, and `Credit("queue") = Numb` is `Announced` and more: a receiver copies
from `messArray[mIdxOut]` outside of the section and without a test, and finds a
message there (`FetchesFind`).  The `mq_open` that never posts lets the pool's
credit go to 0 for good; that the credit is at most 1, and not 1, is the form of
the invariant that the code keeps.

`Implements` needs to know what `sortByPrio` does to the ring, hence that `qsort`
sorts (`QsortSorts`).  `_tk_quicksort` and its loop are recursive functions, which
TLA+ defines by CHOOSE: that there is one to choose is `RecursionSolved`, for any
recursion whose depth is bounded (`LoopSolved`, `SortSolved`).  What they compute
is then shown for a state with the least distance between the scans, or the least
range, of those where it is not so.  `Scanned` is the loop's invariant, `Divides`
what it leaves: nothing in front of the pivot belongs behind it, nothing behind it
in front.  `SortJoins` puts two sorted sides together.  That nothing is lost or
doubled is `Rearranged`.  The order is compMess's, of which only asymmetry and
negative transitivity are used, so that equal priorities do no harm; that
messages of one priority leave by age is due to `inOrder`, since a quicksort is not
stable.

`RingOrder` is the invariant: the unread messages, unrolled from `mIdxOut` on, are
sorted and have different `inOrder` below `lastInOrder`; and there is a list of
them by age, which is the only one (`OneList`) and therefore `Arrived`.
`mq_send` appends to that list wherever the sort puts the message (`SendOrder`),
and the cell at `mIdxOut` holds the entry of the list that `PrioQueue` asks for
(`FetchOrder`), although the receiver reads it outside of the section.

### 6.6 ITC semaphores

`Rules` is what the users have to keep to, and it has two parts:

* `TimedFirst`: a thread that waits with a limit is more urgent than every other
  (so that there is one at most);
* `OneBeside`: where interrupt handlers signal the object and somebody waits with a
  limit, the ring has room for two waiters, that one and one more.  Without
  handlers, or without limits, the ring may have any size.

Each part is needed: section 7, *Stale index of a timed wait*, says what happens
otherwise, and run `itc_late` shows it for the second.  Handlers signal at any
moment, and may do so while the entry of a late waiter is in the ring.

The ring is first made a line: `Length(x)`, `EntryOf(x, k)` and `In(x, t)` do away
with wrap-around, and `Closed(x, y, k)` says that `y` is `x` without its entry `k`.
`_itc_removeBlocked` has three cases, and each closes the line (lemma
`RemovedIs`); signals of either order do as well.  The sweep
after a time-out is a fold; it is unrolled to a function on the number of rounds
(`SweptAt`), and since under `TimedFirst` nobody else can be late, it changes
nothing but its own index.

`WaitersOK` is not inductive.  `Seat(t)` ties the four records of a waiter to each
other: its place in `lock_stage` decides what its state may be (`States`); it is
in the ring if its state says QUEUE; in the ring without that bit it is late: its
time is up and it has not run yet; out of the ring it has been granted or is late;
and the index it remembers is that of its entry, if it has one.  The last part is
the one that `TimedFirst` is for: entries move only when another one in front is
removed from the middle, and the thread that would miss it is dispatched before
another thread can do that.  A handler can come before it.  A PRIOR signal then
serves the late waiter itself, the most urgent of all.  A FIFO signal serves it or
passes over its entry; and where it passes over it, the served one was the only
other one in the ring, by `OneBeside`, so that the counter is 0 and the late waiter
leaves without touching the ring (`Late(t) => In(q, t) \/ q.token >= 0`).

`Implements` maps the ring, read from `out_idx` to `in_idx`, to the line of
`Semaphore`, and the positive part of `token` to its value.  A grant serves the
first of the line that is not late, or the first of its most urgent; the end of a
limit makes a waiter late, and its next step takes it out of the line if it is
there; everything else stutters.  `ItcDelete` adds `Spent`: whoever is
still inside of a call on an object that is gone has been served, because
`sm_delete` is called when nobody is counted and nobody, by `TimedFirst`, is late.

### 6.7 ITC queues

`QueueRules` is `TimedFirst`, receivers that are more urgent than the senders, and,
where handlers send, a device that waits for a free cell (`Paced`), no sending
threads beside it, and no receivers with a limit.  With the last part no signal
passes over a late receiver (`LateWaits`), so that a promised message is always
fetched.  It makes the proof simpler and is more than the code needs: `queue_isr`
has such a receiver beside the handlers, and TLC finds `IsFifo` to hold there with
room for two waiters.  The other parts are needed: section 7, *A full queue* and
*`q_send` and `q_send_ny` on one queue*, has what happens without them.

What is invariant of the indices holds between the steps of a send as well.
`Ringed`: `min_idx` is ahead of `mout_idx` by the messages that nobody has fetched,
or by one less while a sender has copied and not advanced; and they are at most
`Size`.  `Unfetched` counts what the token counts, what is promised to receivers,
and what is posted, and every call leaves that sum alone but for a message
accepted and a message fetched (lemmas `...Promises`).  `Moving` says why a sender
may trust the test of the token, which does not count the promised ones: when a
sender runs, nothing is promised, because a receiver with a promise is READY and
more urgent.  `PutAtEnd` and `TakenFromFront` lift the two accesses of the ring to
the abstract buffer, whatever the wrap-around; `QueueImplements` follows.

The constant `Kind` is "S\_QUEUE" in `QInit`, since it is `q_create` that says so, and
the same theorems about `TkItc` serve both kinds.

### 6.8 The tree of inodes

Two recursions have to be brought under control first: `Line`, the inodes that
lead to one, recurs along `belong`, and `Walk` along the path.  `RecursionSolved`
says that a recursion over `0 .. N` in which every number falls back on a smaller
one has a solution, `RecursionsAgree` that two functions which agree at 0 and obey
the same steps agree everywhere.  Both argue with the least number at which they
would fail (`LeastNumber`), so that no induction theorem with an operator as its
parameter is needed.  `LineIs` and `WalkIs` are the recursive
equations: `Line` and the values of `Walk` are chosen, and what is chosen is a
solution because there is one (`LineExists`, `WalkExists`).

`IInv` has three parts:

* `Numbered`: inodes are numbered in the order of their creation;
* `Linked`: an inode is in exactly the list of the inode it belongs to, which is
  older than itself.  So `Line` comes to an end;
* `Named`: no two inodes of one list have the same name, and none is called like
  the root, so that the first of a name is the only one.

`Named` is the part that takes an argument: `imknod` tests whether the *path*
exists, and the search for it may stop early at a mount or wander off among the
siblings of a childless directory.  `Free` shows that the test is enough: if
`Walk` of the whole path finds nothing without having met NULL, then it got to the
end of the list at the directory that the search for the front of the path found,
and that directory has no such name and is not mounted.

`Findable` goes by induction on the inodes that lead to one (`RootLeads`,
`KidLeads`): either the search is stopped at the outermost mounted inode above it
already, or it stands on its parent, which has children and lists it once.
`LookupExact` goes by the length of the path: `Sought` says of a prefix what
`LookupExact` says of the whole, and once a search has come through a mounted or a
childless inode, that prefix is a witness for every longer path.  `NothingBelowMounts`
is `Free` again, with `LineKept`: creation changes the line of no other inode.

### 6.9 Model-checked only

Liveness (`ZombiesAreBuried`, `JoinersWake`) stays
with TLC, because the prover has no means for fairness and ENABLED.  Every safety
property that a passing run checks is the statement of a theorem, for
clients that keep to the hypotheses named above.  Of those hypotheses only the last
part of `QueueRules` leaves out something that a run checks: `IsFifo` with a limited
receiver beside handlers (see 6.7).

## 7. Where the code and its documentation disagree

Two disagreements are runs of their own, each of which violates one property.

* `sched_race`: `tk_create_thread` keeps the new index in `valid_proc_idx`
  (`tk.c:373`) and, after the yield, uses the global (`tk.c:377-379`).  With two
  creations under way one thread gets two cells and the other none, and the
  assertions of the dispatcher (`tk.c:595-599`) fail.
* `itc_late`: a thread whose limit has passed removes the entry at the index that it
  remembered when it blocked (`tk_itc.c:70-83`).  A handler may signal between the
  scan that ends the limit and the thread's next step, and its signal passes over
  the late entry (`tk_itcny.c:172-182`).  With a second waiter served and a third in
  the ring, the remembered index then is not the thread's own any more:
  `_itc_removeBlocked` counts up and shortens the ring, and the third waiter is
  in it no longer.  It is never served, however often the semaphore is signalled.
  The blog says that after such a send from an ISR the waiting thread "will be awaken
  and do it's job" (`MichaelsTinKerBlog.txt:243-245`), the paper that it starts at the
  next entry point (`part1.tex:994`).

The following were met while modelling.  They are the reasons for the bounds and
the client constants of the passing runs; where a change is given, it reproduces
the disagreement.

* *Even turns*.  The paper says that the scheduler hands out turns evenly among
  the threads of one priority with a counter of each priority
  (`part1.tex:648`).  `curr_idx` is read (`tk.c:589`) and reset, never advanced.
* *A signal unlocks*.  The example of `part3.tex:641-657` unlocks after
  `pthread_cond_signal`, which has unlocked already (`pthread_cond.c:61`): the
  mutex is taken from its next owner, and two threads are inside.  The threads of
  `PthreadCond` do not do so.
* *A writer is left behind*.  The last reader to leave a read-write lock signals
  readers only (`pthread_rwlock.c:142-147`): a writer that waits, with no reader
  waiting, waits until another writer has come and gone.

* *Root's index* (`tk.c:257-261`, `483-487`).  The removal loop also copies the
  cell behind the last one, a zero, and sets `Idx` of the thread it names: root.
  With 0 in `Moved` or `Cancelled`, `ScheduleIntegrity` and `BuryAssert` fail:
  root is then removed at the wrong index.
* *A full row* (`tk.c:259`, `308`, `457`).  A row may hold `TK_MAX_THREADS_AT_PRIO`
  threads; the loop then reads the first cell of the next row and renumbers the
  thread there.  With `MaxAtPrio` 2, `BuryAssert` fails.
* *Root is its own child* (`tk.c:171`, `510-519`).  `_tk_detach_children` stops
  when `noChilds` reaches zero and counts root itself as one of its children, so
  that deleting root leaves one child with a parent that is gone, and the
  assertion in `tk.c:530` fails.
* *Deleting a zombie* (`tk.c:240-244`).  `tk_delete_thread` of a thread that is a
  zombie already does not detach it from its parent: noChilds stays too high and
  a parent blocked in `tk_join` is not woken.  With `ReCancel` TRUE `FamilyOK`
  fails; the runs
  delete again only zombies without a parent.
* *The list of preempting threads*.  `tk_yield` asserts that it holds at most one
  thread (`tk_switch.c:109`), although every handler that wakes a FIFO waiter adds one
  (`tk_itcny.c:185`), and nothing keeps two handlers from coming between two yields.
  Hence `MaxPreempt` 1.  `tk_yield_event` never empties it, and what
  `tk_yield` takes from it is overwritten by the ordinary choice
  (`tk_switch.c:108-116`).
* *Stale index of a timed wait* (`tk_itc.c:70-83`).  The entry at the remembered
  index may have gone or moved for other reasons than a handler's signal:
  `WaitersOK` also fails with two timed waiters, and with one that is not strictly
  the most urgent.  `Timed` has one member in `queue_isr` and `itc_delete`, the most urgent
  thread.
* *Deletion* (`tk_itc.c:427`).  `sm_delete` frees the object under its waiters.
  Those without a limit wait for ever; one with a limit reads the slot again when
  its time is up, which is NULL or the next object.  The deleter of `itc_delete`
  makes sure that nobody is counted as waiting, which is enough there; on a FIFO
  semaphore with a timed waiter less urgent than others it would not be, because
  a signal may take a late waiter off the count that has not run yet.
* *A full queue* (`tk_itc.c:372`).  `q_send` tests `token`, which does not count a
  message promised to a receiver that has been woken but has not run.  With
  receivers that are not more urgent than the senders the oldest message is
  overwritten, and `IsFifo` fails; the same happens after a handler has woken
  the receiver.  Hence `ReceiversFirst`, and `Paced`, which says of a device
  that it waits for a free cell.
* *`q_send` and `q_send_ny` on one queue* (`tk_itc.c:377-380`).  A handler that
  comes between the thread's copy and its index writes over the message.  Hence
  no sending threads in `queue_isr`.
* *A reader backs off for nothing* (`pthread_rwlock.c:46-51`).  The reader signals
  a blocked writer, which yields, and afterwards waits without testing again;
  the writer may be through by then.
* *`mq_receive`*: the test for an empty queue is made in a section that is left
  before the wait (`mqueue.c:332-342`), so that a call with O\_NONBLOCK may
  block; the reported priority is read from the slot of the next message to be
  sent (`mqueue.c:348`), and is therefore not in the model.
* *`mq_open`* with O\_CREAT and no attributes returns with the pool's semaphore
  still taken (`mqueue.c:199-202`): every later call of the module blocks
  (`OpenNoAttr`, and `OpenRefused` of `PosixMq`).  O\_CREAT of a name that exists
  is EEXIST, with O\_EXCL or without, and leaks the slot taken for it
  (`mqueue.c:172`).  A creation that fails for lack of memory leaves its name
  behind with a ring that is freed, and O\_NONBLOCK leaves the queue's semaphore
  uninitialised (`mqueue.c:247`); both queues can be opened afterwards.  `MayUse`
  keeps the models from using them.
* *The quicksort's downward scan* (`tk_ansi_search.c:50`) reads the element in
  front of the array where the pivot comes first.  The result does not depend on
  what is there.
* *Heaps.*  `tk_mem_free` tests `blocks >= maxnum` (`tk_mem.c:219`): a block that
  comes back to a full heap is refused and lost (`FreeRefused`).
  Two threads that allocate from one heap with hooks may both see the last free
  block, and the second then searches for ever (`tk_mem.c:178-189`): without
  `MayTake`, `SearchEnds` fails.  With KMEM\_KEEP\_UNINITIALIZED the loop that
  counts the blocks in use reads the first one's mark every time
  (`tk_mem.c:117-124`): a region that still has blocks in use would be
  miscounted, so that clients keep a region only if the last heap in it was
  given up in the regular way.
* *The tree of inodes.*  A search in an empty directory goes on among the
  directory's later siblings (`inode.c:62`): `mknod` of `/a/b` finds `/b` if it was
  made after `/a` and returns EEXIST.  The inode is read before it is compared
  with NULL, so that a path through a missing directory reads NULL
  (`FollowNull`).  ENOTDIR is never returned, since the mode is or-ed, and any
  inode may get children.  `mount` takes directories for block devices.
  `fs_open` of an existing file with O\_CREAT returns EEXIST.
* Read, not modelled: `tk_itc.c:37` and `55` treat the limit of a wait as
  milliseconds and as microseconds; `q_vsend` uses the slot last created
  (`tk_itc.c:280`); a second caller of `pthread_once` does not wait for the first
  (`pthread_sched.c:97`); `fs_ifreg.c:485-497` swaps two arguments; a mutex may be
  unlocked by a thread that does not own it.

## 8. What the models assume

* Clients: those of `TkSched` call any operation in any order, within
  `Discipline`, and pass `tk_delete_thread` and `pthread_setschedparam` only ids
  of `Cancelled` and `Moved`, never that of idle.  A thread that deletes itself
  yields next.  Threads in the pthread modules unlock what they have locked.
* Users of an ITC object keep `Rules` (see 6.6), those of a queue `QueueRules`.
* A thread's user code between two kernel calls is one step and touches nothing
  of the kernel's.
* `PosixMq` takes a semaphore call as one step, which `TkItc` justifies: without
  time limits nothing is visible between the parts of `lock_stage`.
* `q_send`'s copy of a message of four words is one step.
* `PosixMq` and `MqPools` divide `mqueue.c` between them: what happens inside of a
  queue and what happens to the pools.  Threads of `PosixMq` use descriptors that
  `Accepted` of `MqPools` accepts.
* The read in front of an array that is being sorted does no harm (see 7).
* Heaps: with lock hooks one thread allocates, the one that has created the heap
  and will destroy it (`MayTake`), and any thread may release; without hooks
  nothing yields in the middle of a call.  A caller's area is in one heap at a
  time, and only such an area is kept uninitialised.  A client releases a block
  once, and only what it was given.
* A semaphore is deleted by a caller that has seen that nobody waits (`Unused`).
* Nothing removes an inode: the code has no call that does.

## 9. Not modelled

* ITC queues of variable size and their use in the system queues: the control is
  that of `TkQueue` with an allocation per message, except for the index mix-up of
  `q_vsend` (`tk_itc.c:280`), after which there is nothing sound to state.
* The search for a free slot of `__itc_array` and `q_delete`; `ItcDelete` has one
  slot and semaphores.
* `sm_p_ny` and `q_receive_ny`, which are the modelled calls without their yield.
* `pthread_once`: its one caller in the kernel, `mqueue.c`, has a routine that
  does not yield, so that no model meets its race.  Thread attributes, and the
  calls that only return ENOSYS.
* The contents of regular files (`fs_ifreg.c`), and the other `fs_if*.c`, which are
  tables of functions that return ENOSYS.
* `bsearch`, which nothing in the kernel calls.
* The device drivers of `src/bsp/drivers`.  `fifo.c` sends a pointer through a
  message queue, `timr.c` creates a thread and joins it, and the others copy bytes,
  all as clients of calls that are modelled.  The CAN driver (`can/sja1000.c`) shares
  a ring buffer between its interrupt handler and `sja1000_read`; the handler calls
  `sem_post`, which may dispatch in the middle of it, and what happens then depends
  on how a board enters and leaves its handlers.
* PTIMER (no working implementation), clock and tick (they read a counter),
  error texts, and board and CPU support under the rest of `src/bsp` and
  `src/src/arch`: vendored register definitions, start-up code and the assembler
  of the context switch, of which `TkSched` takes the effect as one step.  They are
  most of the repository's lines and hold none of its decisions.

## 10. Plan

Done: the scheduler with its family tree, and its proofs; ITC semaphores with
creation and deletion, and fixed size queues, with proved refinements; the pthread
synchronisation with proofs about the mutex, the condition variable and the
read-write lock; POSIX message queues with a proved refinement, quicksort
included, and proofs about their pools; the heaps with a proved refinement; the
tree of inodes, with proofs that a search finds what was made and nothing else.

What would come next: regular files, the blocks of `fs_ifreg.c`, once its arguments
are in order, and the queues of variable size, once `q_vsend` uses its own slot.
