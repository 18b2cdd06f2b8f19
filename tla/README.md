# Freeway in TLA+

Freeway runs a graph of event nodes in parallel. A node that has an event is
*raised*; the dispatcher makes a *workflow* of everything the raised nodes
reach, one *task* for each node, and hands the tasks to worker threads. The
locks of the nodes make a task see, in every precursor, the value of its own
workflow, while tasks of several workflows run at the same time.

The specifications here model the scheduler that the top-level build compiles,
`src/framework/freeway` with `src/common/DSpscArray.h`, built as its CMake file
says (`_USING_MULTI_LEVEL_WAITTING_LIST`, without
`_USING_MULTI_LEVEL_UNSCHEDULABLE`), and the parts of `src/common` that have a
behaviour of their own. Definitions carry the names of the source.

## The system

| component | state | operations | where it is hard |
|---|---|---|---|
| `Dispatcher` | one queue of raised nodes per thread, the workflow id, the pass's `mPendingTask` | `Enqueue`, `VisitNode`, `Run`, `Stop`, `Join` | any thread raises; a node reached on several paths gets one task; tasks must not run before the whole pass is registered |
| `Worker` | task pool, `mDispatchedTasks`, one `mPendingTasks` queue per worker, ready queue, `mWaittingNodes` | `AllocateTaskFromPool`, `Run`, `CheckLostLamb`, `Start`, `Stop` | the same task can be resumed by a wake-up or by polling; arrays and pool without a test for their size; leaving while others still work |
| `Task` | `mIsAcceptTrigger`, `mWaitingLockCount`, `mWaited`, `mDeferred` | `RunNode`, `Enqueue`, `CompleteDeffered`, `Pending4Lock`, `Suspend4Shared` | other workers accept it and lower its count while it waits or runs |
| `SharedMutex`, one per node | the queue `mWaiters`, `mReaders`, the queue of writers' workflow ids | `Lock`, `LockShared` by the dispatcher; `WaitLock4`, `TryLock4`, `Unlock` (and `Wake`) by the node's tasks; `WaitSharedLock4`, `TrySharedLock4`, `UnlockShared` by the successors' | no mutex protects any of it; a position and a counter are read separately and added up |
| `DSpscArray` | a ring with a read and a write position | `Push`, `consume_all`, `Valid`, `First`, `Skip` | one thread pushes and another takes without a lock |
| `DEventNode`, `LockPtr` | precursors, successors, last task; the task a `LockPtr` last waited for | `Connect`, `Process`, `Raise`, `IsDispatched`, `operator->` | task objects are reused, and both compare them by address or by what they contain now |
| `Context` | the threads | `Init`, `Start`, `WaitStart`, `Stop` | flags without a mutex around a condition variable |
| `DSpscQueue` | holders linked in a store queue and a free queue | `Push`, `Pop`, `consume_all` | the last holder stays linked while its value is taken; two threads write fields of the same holders |
| `WindowedMap`, `IncursiveList` | an array of entries, some of them linked | `insert`, `operator[]`, `erase`, iteration | neighbours are looked for in the array, keys share slots; links left from an earlier stay in the list |
| `DeferredActionCollection` | `mQueue`, `mStatus`, `mHasTaskInRuning`, `mEnabled` | `Add`, `AddAfter`, `Remove`, `Start`, `Stop`, `Suspend`, `Resume` | any thread adds while an action runs; who emits the next object |
| `TimeRangePhase`, `TimeRangeScheduler` | ranges of a day, the range found last, the next time to check | `Add`, `Remove`, `Clear`, `Complete`, `GetCurrent`, `Check` | open and closed bounds, midnight, checks that come late |
| `DTimer`'s engine (`ChapterRing`) | five rings of slots with a hand and a turn each | `AddTimer`, `Tick`, `MainLoop`, `Cancel` | turns that must fit together; the lock is released between rings |

How they interact. A raise goes through a ring to the dispatcher. Its pass calls
`AllocateTaskFromPool`, `LockShared` and `Lock`, then `Worker::Dispatch`, a ring
to the worker. A worker keeps a task in a waiting list until it is schedulable
(accepted, or no precursor of the workflow is left to wait for), resumes it,
and the task goes through `RunNode` on a stack of its own: own lock,
`DoProcess` with shared locks of the precursors it looks at, the remaining
shared locks, `Unlock`, and the shared locks it had to defer. `Unlock` wakes
the next readers, or the next writer, through a ring to their workers and
accepts successors when the node raised them. The containers, the collection,
the time ranges and the timers are used by applications, not by the scheduler,
and not by each other, but for the timers of `DeferredActionCollection`, which
use `boost::asio` in the default build.

### Not modelled

- The stack switching itself (Boost context), the pointers inside `TaskList`,
  `DoOutputWaitingTasks` and logging, `Context`'s thread names and CPU binding.
- The memory of a `LockPtr` for a task object that is reused (LockPtr.cpp:13),
  and what a backlog longer than the task pool does: this needs tasks followed
  from allocation to their end in one model with the pool (see the plan).
- `SmallObjectAllocator`: its use is commented out in Context.cpp.
- `CombineCollection`: a thread reads and clears the vectors of others while they
  push, without a lock; such a race has no defined outcome to model.
  `ProducterConsumerCollection`: one swap under a lock.
- `TimeRange::Intersection`, `GetSpan` and the like, `Pop2`, `First` and `Next` of
  `DSpscQueue`: nothing calls them. The values in a `WindowedMap`.
- Stopping the timer engine and starting it again.
- `src/clock`, `src/utils` (the vendored JSON library is half of the lines of the
  repository together with its copies), value types, and `src/jiazi`, an older
  copy of all this that is not built.

PROJECT.json lists the components with the reasons.

## The modules

- **OrderedAccess**: what a node's lock promises. Accesses are registered in an
  order; an access enters when the earlier ones that conflict with it have left.
- **SharedMutex**: the lock at the grain of its accesses to shared memory, with
  those parts of the callers that decide when it is called: the order of a
  dispatcher's pass, polling by `CheckLostLamb`, wake-ups that `push2ReadyQueue`
  takes without looking at the lock again, deferred readers. A task is named by
  the position of its entry in `mWaiters`. `pc` is where a task is; `phase` says
  what a reader wants the lock for. `Unlock` is the steps `UnlockWalk` (its loop's
  test), `CountFinished`, `PopId` and `SkipOwn`; `Wake` is `WakeValid`, `WakeFirst`,
  then `WakeReader` or `WakeWriter` and `SkipReaders`, then `Enqueue`, and `EndWake`
  at the end: one step for each access, because another writer's release may come
  between any two of them.
- **SharedMutexInv**: the inductive invariant of the lock, in named parts.
  **MCSharedMutex**: the specifications that are checked. **SharedMutexProofs**:
  the proofs, in this order: types; the invariant, order and values; the counts;
  the refinement of OrderedAccess.
- **SpscArray**, **SpscArrayProofs**: the ring, memory access by memory access,
  and the proof that it hands over every element once and in order. **Fifo** is
  what a queue between two threads promises; the ring implements it (a `Skip` or
  `consume_all` is one `Take`), and so does SpscQueue.
- **Dispatcher**, **MCDispatcher**, **DispatcherProofs**: raising and the
  dispatcher's pass on every acyclic graph with every order of the `Connect` calls.
  `VisitNode` calls itself in the code; here `stack` holds the calls under way,
  each with its task and the iterator of its loop, and a step is a call
  (`VisitRaised`, `VisitSuccessor`) or a `Return`. Other threads may raise between
  any two of them. A call of a node that is dispatched already ends in the step
  that makes it, since it changes only its task's counter or flag.
- **WaittingList**, **WaittingListProofs**: one worker: the parts of a turn of
  `Run` (dispatched tasks, wake-ups, `CheckLostLamb`, ready tasks) and a list per
  node. A step of `CheckLostLamb` is one turn of its loop, which packs
  `mWaittingNodes` in place behind the entry it reads (`iNode`, `newCount`);
  `EndCheck` sets the new count. `Erase` unlinks the task wherever it stands, so
  the list that holds it is not named. The locks are seen from outside: any
  attempt may fail or succeed, a node wakes a task once.
- **Lifecycle**, **MCLifecycle**, **LifecycleProofs**: starting and stopping: the
  main thread that becomes the dispatcher, a thread that raises and stops, and
  the workers.
- **Freeway**, **MCFreeway**, **FreewayProofs**: the composition: the dispatcher's passes over a
  graph, `RunNode` of every task, and the locks between them. A lock behaves here
  as OrderedAccess says, which SharedMutex is shown to implement; the order in
  which a pass registers is OwnTaskFirst of Dispatcher.

- **SpscQueue**: `DSpscQueue` store by store, with the fields of the holders.
  `Chain` follows the links; `Stored` are the values along the chain.
- **WindowedMap**: the map with its linked list; `keys` is what it should contain.
- **Chains**: `Follow`, the items found along links; both modules use it.
- **DeferredActions**, **DeferredActionsProofs**: the collection and the thread that runs the actions. What
  the spin lock protects is a step; between the test of `mEnabled` in `Add` and the
  lock, and while an action runs, everything else may happen. `takenAt` remembers how
  many objects had been added at each taking, for what last in first out means.
- **TimeRanges**: ranges, a phase and its scheduler. The helpers are the functions
  of the source on records; an iterator is the start of the range it points to.
- **TimerWheel**: the rings. `Tick` is the whole cascade, which runs under the lock;
  `AddTimer` is a step for each time it takes the lock. The slots and the turn of each
  ring are constants, as the constructor's literals (DTimer.cpp:131) are;
  `RingsAssumption` is what those literals have in common: a turn of one ring takes as
  long as a slot of the next.
- **CommonProofs**: the proofs about SpscQueue, WindowedMap, TimeRanges and TimerWheel:
  that the queue is a Fifo and conserves its holders, that the map stays sorted, that
  the ranges divide the day and the scheduler keeps to them, and that timers go off
  in their tick.
- **MCCommon**: the five together. `subject` says which one a behaviour is about;
  the others stay as they are built, so the state spaces add up.

Every module of the scheduler has a `TypeOK`. That of SharedMutex is checked and
proved, that of SpscArray is part of `RingInv`, those of Dispatcher, Freeway and
WaittingList are part of the invariants proved about them; that of Lifecycle
documents the variables.

Definitions named `X_something` after a definition `X` are mutants: forms of `X`
with a plausible bug. No specification uses them. Each property is violated
when one of them takes the place of the definition (PROJECT.json, "mutants").

### Atomicity and memory

In SharedMutex and SpscArray a step makes one access to memory that another
thread may be writing at the time. Three groupings are larger: `Lock` pushes to
both of its queues at once (the id is pushed first, and no task of the pass runs
before the pass is over); `Valid` and `Empty` read the write position, which only the
dispatcher moves, together with the read position (the entry that a push in between
adds is behind all those that matter to the caller, so that the push may as well come
later; the runs with overlapping releases have no pushes); and `Enqueue` lowers the
receiver's count and queues the wake-up at once (the receiver tests the one and takes
the other in steps of its own). Some positions are plain
integers that two threads access; the models let one thread's loads and stores
take effect in program order and a position be read or written as a whole, which
is what compilers produce for this code on x86. `First` on an empty id queue
reads a slot with an old id or with none: any value (`StaleIds`).

## The runs

| run | what it asks | instance |
|---|---|---|
| lock_serial | order, values, wake-ups counted once, the inductive invariant (exact `mReaders` in it), refinement of OrderedAccess, and every access ends | 4 entries, 2 workflows, 1 successor, `SerialFairSpec`: no overlapping releases, with fairness |
| lock_two_writers | a backlog with overlapping releases: **EachTaskCompletes is violated** | 2 workflows of a writer and a reader, registered beforehand, `FairBacklogSpec`: any interleaving, with fairness |
| lock_overlap | a backlog with overlapping releases: **ObservedValue is violated** | 3 workflows of a writer and a reader, registered beforehand, all tasks accepted, `Next` |
| ring | order, the inductive invariant, refinement of Fifo | capacity 3, 8 pushes: the ring goes round more than twice |
| dispatcher_pass | the dispatcher's pass | every graph of 4 nodes, 2 raising threads, 2 workers, 2 raises in one pass or two, 1 node that always accepts |
| dispatcher_stale | **DispatchedThroughOne is violated** | pool of 3, 4 raises, workers idle in between |
| lifecycle_stop | Stop returns and nothing is left over | 2 workers, 3 raises, `TimelySpec` |
| lifecycle_lost_wakeup | **StopReturns is violated** | 1 worker, 1 raise |
| waitting_list | no task lost or doubled, lists complete and ordered, no list forgotten at any turn of `CheckLostLamb` | 2 nodes, 2 workflows |
| graph | consistency, counts, raises, locks given back, every task ends | every graph of 2 nodes, 2 workflows, passes overlap with tasks, with fairness |
| graph_backlog | values, locks given back, no deadlock | the triangle of 3 nodes, 2 workflows, any raises; tasks start after the passes |
| common_parts | the queue is a Fifo and loses no holder; the map is sorted; objects are handled once, in order, without stalling; a phase partitions the day, finds the current range, and the scheduler follows it; timers go off in their tick | 5 holders, 9 pushes; window of 5, keys to 12; 4 additions, both modes; a day of 8 with 3 ranges, 2 days; 3 rings of 2, 3 and 2 slots, 1 timer, once round the last ring and more |

Why the bounds suffice. A conflict in a lock is between a writer and the entries
next to it; four entries hold a writer between readers, two writers with a
reader between or behind them, and a reader whose workflow passed the node by.
TLC checked the safety properties of lock_serial with three workflows as well, and
the proofs are for any number. When releases overlap, two writers with a reader each
are enough for a Wake to step past a reader (lock_two_writers); six entries are what
lock_overlap needs to step past a writer and wake a reader behind it.
Four nodes make a diamond, a node reached by raise and by precursor, and a node that always accepts. The triangle
is the smallest graph with two paths between the same nodes, and two workflows
on it make every kind of wait between tasks of different nodes. In waitting_list
two tasks wait in one list, for their own lock and for a shared lock. The
pool is small instead of 8192; what dispatcher_stale shows needs only that it is
finite: a pool goes round after as many tasks as it has. `mWaittingNodes` has no
bound in WaittingList (the code has room for 1024 entries and no test).

In common_parts five holders leave the queue full, empty, and with both
threads at the same holder, and nine pushes send every holder round. Keys go
round a window of five more than twice. Four objects put one into the action,
one behind it and two for the mode to choose from. Bounds of ranges are the even
times of a day of eight, so that there are times inside and between ranges,
every relation of two ranges occurs, with one over midnight, and three ranges
have a middle one; the second day is that of the late checks. A ring
of two slots is at its end every other tick, one of three has a slot in the middle;
with three rings a timer comes down twice, and a tick reaches the last ring within
the bound. The engine starts at the beginning of all turns, at their end, or in
between. More timers do not meet: they share slots only.

`CHECK_DEADLOCK FALSE` is set where the system may stop: when no more raises are
allowed by the bound, or after Stop; in common_parts when the time, the pushes or
the additions have come to their bounds. dispatcher_pass checks deadlock (the
dispatcher never stops), and so does graph_backlog, where only a state in which
every task has ended may repeat itself (`AllDone`).

### Assumptions of single runs

- `SerialSpec`: no writer is admitted while another is in `Unlock` or `Wake`.
  The code does not guarantee this; lock_two_writers and lock_overlap show what can
  happen. A writer's admission is delayed, nothing else changes. lock_serial assumes
  it, and so does Freeway, whose locks are OrderedAccess.
- `TimelySpec`: Start does not come between a worker's test and its sleep, and
  Stop only after the workers have seen that they were started.
  lifecycle_lost_wakeup shows that the code needs both.
- `FreshSpec` (no run; the theorems about Dispatcher): a task that the pool hands out
  is not the last task of another node, nor still with its worker. The pool does not
  ask (Worker.cpp:73), and dispatcher_stale shows what happens without it. The pool of
  dispatcher_pass never goes round, so that all its behaviours satisfy FreshSpec; for
  a pool that does, TLC checked the inductive invariant on three nodes with a pool of
  three and reuse.
- `DrainedSpec` (dispatcher_stale): the workers have taken every task before the
  dispatcher consumes a raise, so that what the run shows is not a matter of
  reusing a task that is still running.
- Freeway uses one task object for each task; an effect of reuse is what
  dispatcher_stale shows.
- common_parts: keys in a `WindowedMap` are less than a window apart (`Fits`:
  the class compares no keys). Ranges that are added have more than one time and
  leave no single time between them (`Separate`: Complete would lose it); a phase
  is not changed under a scheduler. A timer is added while it is not in the
  engine (DTimer.h:29), and the engine is started once. `Remove` is called for
  objects in the queue (otherwise it erases `end()`).
- `AcceptedSpec` (lock_overlap), `FairBacklogSpec` (lock_two_writers) and
  `BacklogSpec` (graph_backlog) run the tasks after the passes. An entry added to
  a lock's queue does not change what the entries before it wait for.

### Fairness

Every worker's loop goes round for ever, so a task that is ready runs, a wake-up
in a ring is taken, and an idle worker polls (`CheckLostLamb`): weak fairness of
each of these for every task. Polling happens only when the worker has no ready
task; ready tasks end or wait, so this comes to pass. The dispatcher finishes a
pass it began. `DoProcess` ends (the applications' code). In Lifecycle threads
run, and a task ends in one of infinitely many turns of its worker's loop (strong
fairness of `WorkAll`), which is what lock_serial and graph show of a task whose locks
are not released by two writers at once.
In DeferredActions the thread of the io_service takes its handlers, an action
ends (the application's code), and a thread that is inside `Add` goes on to the
lock, which nobody holds for long (`ActionsFairness`).
Nothing is assumed of raises, of the calls of Stop, Start, Suspend and Resume, of
timers, or of spurious wake-ups.

## What the runs found

1. *Overlapping releases* (lock_overlap). After `mWaiters.Skip` in `Unlock`,
   the next writer finds itself first and, if its worker polls, runs and
   releases while the previous writer is still in `Wake`. The late `Wake` goes
   on with a count that belongs to another part of the queue, steps past a writer
   that has not run and wakes a reader behind it. WorkflowChecker.cpp:100 checks
   that the successors of a node see equal values in a workflow; here they do not.
2. *A reader stepped past* (lock_two_writers). The same overlap with two writers,
   queue w1, r1, w2, r2: w1's `Wake` has counted r1, finds `mReaders` 0 and is about to
   skip r1; w2 runs, walks over r1 and skips both itself and r1; w1's `Skip` then
   goes past r2. w2's `Wake` finds nothing to wake. r2, if no raise accepts it, keeps a
   waiting lock count of 1 and is never schedulable, and `Context::Stop`, which the
   tests expect to return (multiNode/main.cpp:103, 119), waits for it for ever.
3. *A node left out* (dispatcher_stale). `IsDispatched` asks the node's last task
   for its workflow id after the pool has given it to another node.
4. *Lost start* (lifecycle_lost_wakeup). `mIsRuning` is set without the mutex of
   the condition variable.

Behaviour that no text of the repository excludes, met while modelling and listed
as hazards in PROJECT.json: a tick between two rings of `AddTimer` can make all of
them refuse a timer whose time is to come, and the callers drop the result; a
timer for the current tick, or after the last ring's turn, is refused as well;
the scheduler of time ranges reports an empty range at midnight where ranges end
at 24:00 and start at 00:00, and does not return from `FindNextCheckTime` in the
last millisecond of a day whose ranges all end at midnight.

## Proofs

Every theorem holds for every value of the constants that the named assumption
of its module admits, the bounds of the runs included; where a specification is
not `Spec` it is named. The strengthenings are invariants in their own right:
each was checked by TLC on the instance of its run before it was proved. Proofs
go action by action, with one lemma for each.

**SharedMutexProofs.** `TypeCorrect` (`Spec => []TypeOK`), with overlapping
releases. `ConstantsAssumption`: the bounds are numbers, the successors finitely
many. The rest is under `SerialSpec` (lock_overlap shows that `Spec` does not keep
order and values).

*Order and values*: `LockInvariant` (`[]IInv`), and from it
`AccessesAreOrdered` (`[]OrderedAdmission`), `ReadersAgree` (`[]ObservedValue`)
and `ReadersCounted` (`[]ReaderAccounting`). OrderedAdmission is not inductive,
because a task decides on what it read earlier: `TryLock4` adds `mReaders` to a
position that has been read before. Only readers in front of the first unpopped
writer can have finished past the read position, so minus `mReaders` counts them
(`ReaderAccounting`), and a sum of an old position and a new counter is never too
far (`PositionInv`, `LabelsInv`); what a task has read of ids, and what a queued
wake-up grants, stays true (`GrantInv`, `IdsInv`), since what has left stays so;
`Unlock` and `Wake` stand where their counts say (`ReleaseInv`), and only one
writer is there (`ExclusionInv`). Much of the proof is about the cardinality of the
set of finished readers when one ends and when the read position moves past them.

*Wake-ups*: `CountsInvariant` (`[]SerialInv`, which is IInv with `CountsInv`) and
`ReadersToldOnce` (`[]CountedOnce`). A reader's share of its task's
`mWaitingLockCount` is one exactly until the writer of its workflow has reached its
entry in `Wake` (`Told`). This needs that a workflow has one writer, that its
readers are all behind it and are registered before it is dispatched, and that a
walk which is over has passed every reader of its workflow, because the next writer
behind them stops it and not before.

*Refinement*: `LockRefines` (`SerialSpec => ImplementsOrderedAccess`): with
IInv, each of the lock's memory accesses is a step of OrderedAccess or leaves its
state alone. Where a task stands in the abstract queue depends on its label only,
so what is to be shown is that a task that moves inside has nothing before it
that conflicts, and that a reader sees the value the abstract one sees.

**DispatcherProofs**, for every acyclic graph, every order of `Connect` and any
number of threads, workers and raises, under `FreshSpec`. `DispatcherInvariant`
(`[]DispatcherInv`), and from it `PassDispatchesReached` (`[]DispatchedThroughOne`),
`TasksWaitForPrecursors` (`[]WaitingLockCounts`), `LocksHaveOwnTaskFirst`
(`[]OwnTaskFirst`) and `PassRegisteredFirst` (`[]RegisteredBeforeDispatch`). The
properties are about a pass that is over; inductive is what holds in the middle of
the recursion. The calls under way go down an edge each, and what the iterator of a
call has passed is on `mPendingTask` (`StackInv`); a task is put there once, after
all of its successors (`PendingInv`), which makes a node's own task the first that
registers. So at the end the dispatched nodes are closed under successors and, being
reached from what was raised (`ReachInv`), are `Reached(raised)`, the least such set.
The counter of a task is the number of precursors whose call for it has returned
(`PassedOn`, `CountInv`): the set grows by one when an iterator moves on, and is the
set of all dispatched precursors when the stack is empty. `WaitersInv` says where
the tasks registered so far are in the queues of the locks, `HandedInv` that workers
have none of the pass before it dispatches. Freshness is used in one lemma: a new task
takes away neither a node's last task nor one that a worker still has.

**SpscArrayProofs**, for every positive capacity. `RingInvariant` (`[]RingInv`) and
`HandedOverInOrder` (`[]InOrder`). InOrder alone is not inductive: that the next
slot holds the next element needs that the elements between the positions are in
their slots, that a push does not overwrite one of them (positions less than the
capacity apart have different slots: lemma `SlotsDiffer`), and that the local
positions of `consume_all` stay between the shared ones. `RingRefines`
(`Spec => ImplementsFifo`): by the invariant the mapped queue is the numbers from the
last one handed out to the last one published (`ContentsNumbered`), so `Publish`
accepts one, a callback or `Skip` takes from the front, and nothing else shows.

**CommonProofs**, about the queue, for every number of holders, at least two. `QueueInvariant`
(`[]QueueInv`), and from it `HoldersAreConserved` (`[]HoldersConserved`) and
`QueueRefines` (`QueueSpec => ImplementsFifo`). The invariant speaks of two sequences of
holders, neighbours linked, without a common holder, and of the one holder that each
thread may have in its hand (`HoldersInv`); a tail lags behind between the two stores
of a push and may by then be in the other queue. Each action takes such sequences to
such sequences (`Tail`, `Append` or the same), and the lemma `ChainIs` says that a
linked sequence is what following the links finds, so that the step needs no induction along
the chain. The stored values are the last numbers accepted (`ValuesInv`), except that the
first holder may have lost its value: a `Pop` that takes the value of the last holder
while the next is being linked leaves it so, and the holder is dropped without a
value later.

About the map, for every size of the window and every bound on the keys:
`MapInvariant` (`[]MapInv`) and from it `MapIsSorted` (`[]IsSortedMap`). `MapInv` says that
some sequence of slots is the list in both directions (`ListInv`; a slot that is not
in use has empty links, which `push_back` and `push_front` rely on) and holds the keys,
each in its slot, ascending, all within a window (`KeysInv`). Inserting puts an item
at a place of the sequence (`PutAt`), erasing takes one out, and each lemma is about
one of these two invariants only. That the array search stops at the neighbour in the list
(`NearestBelow`, `NearestAbove`) is arithmetic modulo the window: keys with one slot are whole
windows apart (`SameSlot`), so a slot in use on the way would hold a key that is
nearer, or one a window away from the neighbour. For both containers the lemma
`FollowIs` turns a sequence with linked neighbours into what `Follow` finds.

About the time ranges, for a day of any even length and any number of ranges:
`RangesInvariant` (`[]RangesInv`), and from it `CompleteMakesPartition`
(`[]CompletePartitions`), `GetCurrentFinds` (`[]FindsCurrent`), `SchedulerChecksAtEnd`
(`[]ChecksAtEnd`) and `SchedulerReports` (the action property ReportsChange). Ranges are
put on a line of half milliseconds (`From`, `Until`), on which open and closed bounds
are all half-open; `InRange` says that this is what `IsInRange` tests. The argument:

- what AddRange accepts has different starts (`Added`), and if `Complete` finds no
  conflict between neighbours, all ranges lie one after another and only the last
  may pass midnight (`Laid`): the comparison with the next range only is enough
  (`AcceptedIsLaid`), and a refusal means a time in two ranges (`RefusedOverlap`);
- `Complete` inserts exactly the gaps (`CompleteInserts`), which keeps `Laid` and
  makes the ranges cover the day (`Covers`) and each end where the next begins
  (`Tiled`). These are `Ready`, which holds until the phase is cleared;
- a search of `GetCurrent` that starts at any range stops at the one that has the
  time (`CurrentIs`);
- the loop of `FindNextCheckTime` is a function on the numbers up to the number of
  ranges. In a ready phase it stops at once, at the next range, or, just before
  midnight, at the range that starts at 00:00; it goes round for ever only if every
  range ends at midnight (`FoundIs`). The next check falls on the end of that range
  on this day or the next (`EndIs`), and until then the time stays in it
  (`UntilItEnds`).

About the timer engine, for any number of rings with any numbers of slots, any tick,
timers and intervals: `EngineInvariant` (`[]EngineInv`), and from it `TimersOnTime`
(`[]OnTime`), `TimersInOneSlot` (`[]InOneSlot`) and `TimesHaveRings`
(`[]EveryTimeHasARing`). The specification here is `EngineSpec`, the engine alone.
`RingsAssumption` and `TimesAssumption` (times and intervals are natural numbers) are
all that is assumed. The argument:

- the tick is treated as the turn of a ring before the first, so that a slot of each
  ring is a turn of the one before it. The turns under way are nested, each begins at
  a multiple of its length and where the next ring's hand points (`WheelInv`). A tick
  lets exactly the turns that end together begin anew (`EndTogether`, `TickTurns`),
  which keeps this (`TickWheel`). It is all that EveryTimeHasARing needs (`CanInsertIs`:
  a ring takes the times from the end of the turn before it to the end of its own);
- an accepted timer lies in one slot, ahead of the hand (`Lies`, `Waits`), and its
  time is in the slot's part of the turn (`PlaceOf`). Two exceptions make this
  inductive, both for timers that were late when they were accepted: `Insert` does not
  compare with `mStartTime`, so a time that is past may find a slot that is to come
  and goes off then; and a timer that is late by less than a tick goes to the slot of
  the next tick, which may be the first of the next turn;
- what a tick does to a timer depends on its slot: it stays (`StaysInSlot`), goes off
  from the first ring (`FallsOut`), or comes down (`FallsDown`). A slot that the hand
  reaches begins with the new tick (`FallingTime`), so each ring on the way takes the timer
  (`EachTakes`: what `Tick` asserts), up to the first in which its slot is not under the
  hand; there it waits. If there is none, it goes off with its tick.

**FreewayProofs**, for every acyclic graph of any number of nodes and any number of
workflows. `TasksAndLocks` (`[]FreewayInv`), and from it `SeesItsWorkflow`
(`[]Consistent`), `CountIsExact` (`[]CountsPrecursors`), `MissesNoRaise`
(`[]NoRaiseMissed`) and `GivesEverythingBack` (`[]NothingHeldAtEnd`). That a task sees
the value of its workflow needs what was registered when: queues hold the
registered tasks, once, in the order of passes and nodes (`PassInv`, `QueueInv`);
who is inside or has left was admitted, and stays admitted because queues grow at
the end (`GrantInv`); hence a writer of a later workflow has not stored while the
reader is inside, and one of an earlier workflow has left (`DataInv`). The counter
is exact because a precursor lowers it in the step in which it decides
(`CountInv`), and an unaccepted task goes on only at zero (`RaiseInv`).

**LifecycleProofs.** `TasksAccounted` (`[]DrainInv`) and `StopLeavesNone`
(`[]StopDrains`), without the timing that `TimelySpec` adds: whether Stop returns
depends on it, what holds when it has returned does not. The counters agree with
where the tasks are (`TasksInv`), and a worker compares them only after it saw the
dispatcher's end, after which nothing is created (`LeavingInv`).

**WaittingListProofs**, for any number of nodes and workflows. `LoopInvariant`
(`[]LoopInv`), and from it `TasksInOnePlace`, `ListsHoldWaiters`, `NoListIsForgotten`
and `EarliestIsFirst` (the four invariants of waitting_list). InOnePlace counts positions;
inductive is that lists and ready queue have no doubles, that `mWaited` names the
list of a task, and that a task waits exactly if it was handed out and is neither
ready nor finished (`WaitsOrNot`). The lists stay ordered because `Insert` has a
place to end at (the least one is shown to exist) and everything from it on is to
be admitted later. NoListForgotten speaks of the array while it is packed: an entry
that counts is kept already or still to be visited. The lemmas about `RemoveAt`,
`Tail`, `Append` and `Insert` say what they do to members, doubles and order.

**DeferredActionsProofs**, for any number of calls. `ActionsAccounted`
(`[]ActionsInv`), and from it `CollectionNeverStalls` (`[]NeverStalls`) and
`ObjectsHandledOnce` (`[]HandledOnce`). `mHasTaskInRuning` is true exactly when an
object is between the queue and the end of its action, wherever the thread of the
io_service stands (`TakenInv`); the objects added so far are handled, in hand,
queued or removed, one of these each, and queues ascend (`Accounted`). Last in first
out says of an object in hand or handled that those still queued are older or were
added after it was taken; what comes after it in `handled` was queued then or has
been added since (`NewestFirst`, which is what makes it inductive).

**Model-checked only**, and why:

- what holds under fairness (EachTaskCompletes of the lock and of the graph,
  StopReturns, AllHandled): liveness is not for this prover;
- Dispatcher without `FreshSpec`, on instances where the pool does not go round.

## Plan

Done: the ring with its abstract specification, the lock with its own, the
dispatcher's pass, a worker's waiting lists, start and stop, the graph that puts
them together, and the parts of `src/common` with a behaviour of their own; the
proofs above.

Next, in this order:

1. Freeway's registration order as a refinement of Dispatcher: OwnTaskFirst is proved
   of Dispatcher and assumed by Freeway's passes; a theorem should connect the two.
2. The task pool with the tasks' whole life: what a backlog longer than the pool
   does, which bound on unfinished tasks makes reuse safe, and what LockPtr.cpp:13
   asks for (a node's tasks of successive workflows are different objects). With
   it, a bound for the entries of `mWaittingNodes`, which WaittingList leaves free.
3. A repaired lock (admission handed over at the end of `Wake` only) to show that
   SerialSpec's assumption is all that is missing.
4. SpscArray with positions that wrap at 2^w; the timer engine stopped and
   started again.
