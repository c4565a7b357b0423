# Rigel target code: its synchronisation and task runtime in TLA+

The repository holds what runs on the Rigel accelerator: a chip of clusters of
hardware threads in one address space. Threads synchronise with
load-linked/store-conditional loops (`ldl`/`stc`), atomic operations
(`atom.inc`, `atom.xchg`) and a broadcast store (`bcast.u`). These modules model
the parts in which threads interact; paths below are relative to the repository.

## Inventory

| Part | State | Operations | What is hard | Status |
|---|---|---|---|---|
| Full-chip barrier, `lib/libpar/barrier-mt.c`, `barrier.c` | two free-running counters, senses | `EnterFull` | lost increments, early re-entry, wrapping | `RigelBarrier` |
| LTQ ticket lock, `include/rtm-sw.h` | ticket count, called ticket | acquire, release | wrapping, release by load and store | `TicketLock` |
| Task queue, dequeue side, `lib/libpar/rtm-sw-dequeue.c` | local queues, global ring, wait counts and senses on two levels | `Dequeue_FAST`, `Dequeue_SLOW`, `global_swtq_cluster_dequeue` | a barrier detected while others back out of it | `TaskQueue` |
| Task queue, parallel enqueue, `rtm-sw-enqueue.c` | enqueue senses, descriptor pool | `Loop_PARALLEL` | election by try-lock, rounding of shares | `TaskLoop`, `LoopPartition`, `LoopFill` |
| Task queue, sequential enqueue, `rtm-sw-enqueue.c` | tail index | `Loop_SEQUENTIAL`, `Enqueue` | enqueuing while others wait in the barrier | `TaskSequential` |
| newlib locks, `lib/newlib/libgloss/rigel/lock.c`; spin locks, `include/spinlock.h` | lock words, owner, count | acquire, try, release, recursive | owner stored after the count | `RigelLocks` |
| libpthread, `lib/libpthread` | mutexes, once, slots of threads, conditions | lock, once, create, join, wait | two words for one lock, check then act | mutexes in `RigelLocks`, the rest in `Pthreads`; no thread-specific data |
| Start-up, `crt0.c` | init flag | `__start` | threads before the flag | `Pthreads` |
| Memory, `mman.c` and the pools of `nedmalloc.c` | top of the arena, a lock per pool | `mmap`, and `malloc` where it calls it | load and store of the top | `MmapArena`, `Pthreads` |
| x86 task model, `lib/taskmodel-x86` | one queue under a mutex, a barrier | `Loop`, `Enqueue`, `Dequeue`, barrier | indices reset under reservations | `X86TaskModel` |
| Descriptor buffer, `src/benchmarks/common` | ring of ranges | add, empty | full ring | not modelled |

The program uses the parts together as `src/testing/rtm_example` does: in every
interval all threads enqueue a loop, then dequeue and run tasks until a dequeue
returns `TQ_RET_SYNC`, which is the barrier that ends the interval. The programs
of `lib/taskmodel-x86/tests` do the same, with core 0 enqueuing. A program on
libpthread starts on thread 0; the other threads wait in `__rigel_premain` for a
function to be stored in their slot.

## Modules

**Barrier.** `RigelBarrier` has one action per instruction of
`RigelBarrierMT_EnterFull` that touches shared state: `LoadLinked`,
`StoreConditional`/`StoreFails`, `AtomInc`, `Broadcast`, `Leave`. `linked` is the
set of standing reservations. `PhaseBarrier` is the abstract barrier: threads are
held until all have joined and let go at once.

**Ticket lock.** `TicketLock` models `LOCAL_LOCK_ACQUIRE` and
`LOCAL_LOCK_RELEASE` in the same way. `FifoLock` is the abstract lock. `queue` is
a history variable, the threads that have drawn a ticket in their order.

**Task queue.** `TaskQueue` holds the state of `rtm-sw-common.c` and the dequeue
side. A label of `pc` is a place between two accesses of shared state; `frame`
holds the locals of `global_swtq_cluster_dequeue`, among them the `tail_idx` that
is loaded before it is used. `made`, `ran` and `phase` are history. The path for
calls that do not block is unreachable, because `allow_blocking` is computed
after `prefetch_count` was incremented. `TaskLoop` and `TaskSequential` compose
it with the two enqueuers and the program. `LoopPartition` is the arithmetic of
the shares in closed form, `LoopFill` the loops of the code that fill them.

Abstractions of the task queue:
- Memory is coherent: `rtm_example.c:382` says a program "would still work if
  these cache operations were omitted" in the simulator. Incoherent hardware is
  out of scope.
- An LL/SC loop is one step. The LTQ lock blocks, so taking it is one step with
  the first access under it (its implementation is `TicketLock`). The GTQ lock is
  only tried, so holding it is visible and taking and releasing are steps.
- A task group is the sequence of its tasks. The code links the tasks in a list
  and the dequeue side reads only the first pointer of a group.
- `sub d, a, b` is read as `d = b - a`, as `lib/rigel-crt0-mp.S:21` documents.

**Locks.** `RigelLocks` has one action per instruction on a shared word. `kind`
says which lock it is: the word of `spin_lock` and of the NORMAL mutex, the plain
and the recursive lock of newlib, the ERRORCHECK and the RECURSIVE mutex. `depth`
is history: how often each thread has got the lock. `ReentrantLock` is the
abstract lock. The properties are about the kinds in `Sound`; the others are
modelled as they are and do not have them (see below).

**Start-up, threads, memory.** `Pthreads` is `__start`, `__rigel_premain`,
`pthread_create`/`join`, `pthread_once`, the condition variable and the way of
`malloc` to `mmap` (`MmapArena`), under a program that grows
`testing/pthread/pthread_test.c`: rounds of create, broadcast, join. Stores of
`pthread_create` and `premain` are steps of their own; mutexes and pool locks are
taken in one step, which `RigelLocks` justifies. A pool is created with
`threads = -1`, which `FindMSpace` compares with the number of mspaces, so a pool
keeps its single mspace and lock. `malloc` uses the `syspool`,
`incoherent_malloc` the `incoherent_pool`. What the allocator does with the memory
is left out: a call may find enough, or call `mmap`.

**x86 task model.** In `X86TaskModel` a section under `GLOBAL_GTQ_mutex` is one
step. A program is a sequence of intervals with a number of iterations, iterations
per task, iterations that a task enqueues in turn (sobel) and whether a barrier
follows (cg). `unread` and `closed` are history. `TaskPool` is what a program
expects of the queue: a set of tasks, each taken once, and SYNC only when the
interval is closed with no task waiting or running. Its full barrier is shown to be
a `PhaseBarrier`, like the one of the chip.

## Runs

| Run | Instance | States | Shows |
|---|---|---|---|
| `barrier` | 2x2 threads, word 4 | 5418 | counters, early re-entry, refinement, everybody gets out |
| `ticket_lock` | 3 threads, 3 tickets | 5265 | exclusion, order, a drawn ticket is called |
| `loop_2x1` | 2 clusters of 1, 3 iterations, 2 intervals | 3001 | every iteration once; cluster count exact; no task twice; the program ends |
| `loop_2x2` | 2 clusters of 2, 3 iterations, 1 interval | 429043 | both counts exact; work done at the point of no return and at `TQ_RET_SYNC`, which everybody gets together |
| `loop_fill` | up to 20 iterations, 4 per task, 1, 2, 4 clusters | 10025 | shares, iterations in one descriptor, descriptors drawn suffice |
| `locks` | 2 threads, 2 deep, word 4, all kinds | 22799 | exclusion, no waiting for oneself, refinement, the lock comes free |
| `x86` | 3 cores, 5 slots, programs like heat, cg, sobel | 28055 | exact counts, a pool of tasks, a barrier, the program ends |
| `pthreads` | 3 threads, 4 slots, 2 rounds of 3 pthreads, one pool | 151256 | one pthread per slot, join's value, one initialisation, disjoint memory, pthreads end or wait |

**Bounds.** Words are as small as the assumptions allow, so counters and tickets
wrap. Two clusters of two threads is the least in which a cluster waits for its
own threads and for another cluster. Three iterations give one cluster two
groups, and the second goes through the global ring. A second interval at that
size (4193155 states) was checked once for the barrier's invariants, without an
error, and is too slow to keep; `loop_2x1` has two intervals. So was `Terminates`
with two threads per cluster and one interval, which takes nine minutes; in
`loop_2x1` the clusters wait for each other but no try-lock is contended. The ring never wraps
in any run. All task-queue runs that pass use the default
`SWTQ_TASK_GROUP_FETCH` of 1. In `x86` five slots hold the tasks of an interval and
the reservations of the idle cores (tasks + cores - 1), so the head wraps and the
tail does not. In `pthreads` there is one slot more than there are threads: in the
first round a pthread is put into it and never runs, in the second a create returns
`EAGAIN`. The program creates from thread 0 only and joins a round before it creates
the next, as `pthread_test.c` does: two creators may claim the same slot, and a slot
is free for a new pthread before the old one was joined. The shares of a loop are
computed in natural numbers: the end of the last share is below 2^32. The arena has room for a few requests, so that some fail. `locks` has two
threads, enough for every instruction of one to fall between any two of the other;
its safety is proved for any number.

**Fairness.** A hardware thread keeps executing (weak fairness of its steps).
`TaskLoop` adds strong fairness of the steps that take the LTQ lock. That stands
for two things: tickets are served in order, which is proved, and a
store-conditional that is retried succeeds in the end, which is assumed of the
machine. `TicketIsCalled` does not assume it: it speaks of drawn tickets only.
`X86TaskModel` and `Pthreads` need weak fairness only. `ComesFree` of the locks
assumes that a thread which keeps coming to hold the lock once unlocks it in the
end (strong fairness of that call); nothing says which waiting thread gets it.

### Disagreements between the code and what is said of it

- `loop_lost_share`: the thread that ends a barrier still holds the GTQ lock when
  its neighbour tries it for the next loop; the neighbour goes on to `Dequeue` and
  holds the lock there when the first one tries. Nobody enqueues the cluster's
  share. `LoopComplete` is therefore checked with one thread per cluster only.
- `sequential_left_behind`: thread 0 enqueues, or calls `SW_TaskQueue_Enqueue`, while
  its neighbour looks for the barrier. The tail index with which the neighbour
  declares it, and to which it resets the head, was loaded before the cluster was
  counted (`rtm-sw-dequeue.c:313`), and `TQ_RET_SYNC` comes with a task in the ring.
  `rtm_example.c:218` says that the queue is empty then. It takes one cluster of two
  threads and one task. With two clusters of two `RunAtMostOnce` fails too: the slot
  is handed out twice.
- `malloc_two_pools`: `mallocr.c` says that the allocator is thread-safe. `mmap`
  loads the top of the arena and stores it back, and its two callers hold
  different locks: a thread in `malloc` and one in `incoherent_malloc` can be given
  the same region. With one pool in use (`pthreads`) the regions are apart.
- `broadcast_lost`: `broadcast_update` of `pthread_cond.c` gives `bcast.u` the address
  first and the value second; `rigel.h` and `barrier-mt.c` have them the other way
  round. The flag is not stored and who spins in `pthread_cond_wait` does so for ever
  (`BroadcastIsReceived`, 3 threads). A pthread that finds `go` set never waits, so the
  later rounds of `pthreads` are reached all the same, and its property `PthreadsEnd`
  ends at that loop.

Properties that hold in the runs fail with other constants. These are limits of
the code that a user of the modules should know:

- `EveryoneAtSync` with `SWTQ_TASK_GROUP_FETCH = 2` (the benchmarks `march` and
  `fft` set 4 and 2): the second fetch may end in the barrier while the first group
  is still in the local queue. `rigel-tasks.h:163` says that everyone is at the
  same point.
- `WaitCountExact` of `X86TaskModel` with two cores, six slots and a second
  interval of more tasks than the first: a core that has not left the barrier takes
  a new task with its old reservation and counts itself out a second time; the
  assertion at `librtm-x86.c:359` fails.
- `CountExact` with four slots, two tasks and five cores: the reservations of idle
  cores wrap the head. Twice as many slots as tasks, which `rtm-test.c` advises, is
  not enough when there are many cores; tasks + cores - 1 is.
- `pthread_management.c:15` promises `EAGAIN` "if all HW threads are busy". The scan
  goes on to the slots that belong to no thread and `pthread_create` returns 0 for a
  pthread that never runs; its join returns `ESRCH`. `OnePthreadPerSlot` says no more
  than that nobody else is given that slot.
- `MutualExclusion` for the kind `plain`: the loop of `_lock_acquire` goes on while the
  exchange returns 0 and ends when it returns 1, so it lets threads in when the lock
  is taken. `tzlock.c:29` promises exclusion of `__tz_lock`, which is this function.
- `MutualExclusion` for the kind `recursive`: the mutex is taken through its count by
  one path and through its lock word by another. ERRORCHECK lets everybody but its
  owner unlock it.

The comment at `rtm-sw-enqueue.c:316` ("I do not think this check is necessary any
more") is also too hopeful: without the check (`AddTaskUnchecked`) a last task of
fewer than `iters_per_task` iterations runs past the end of the loop, and
`FillIsShare` fails.

## Proofs

Every proof module begins with `USE SMTT(30), ZenonT(30)`: a leaf that names no
prover goes to SMT, then to Zenon, with thirty seconds for each. Nearly all leaves
take the prover well under a second; the margin is for `tlapm` itself, which is
busy for several seconds between two leaves of the larger modules.

`RigelBarrierProofs` proves, for any number of clusters and threads and any word
that both sizes divide (`SizesAssumption`; powers of two on the machine),
`TypeCorrect`, `CountersCorrect`, `BarrierSafe` and `ImplementsBarrier`. That the
broadcast comes last is not inductive: it follows from what the counters say. The
invariant `IInv` says that each counter, modulo its number of parties, is the
number of those that arrived in the current round, that a standing reservation
was made on the current count, and that at most one thread is about to count a
cluster or to broadcast. An arrival steps both sides (`CountStep`), and the broadcast empties the set of those that arrived when
its size is a multiple.

`TicketLockProofs` proves `TicketTypes`, `TicketsCorrect`, `LockExcludes` and
`ImplementsFifo` for any number of threads up to the word (`TicketsAssumption`).
The invariant `TicketsInOrder` gives the i-th thread of the queue the i-th ticket
from the called one; two of them are equal only if there are more tickets out
than the word holds (`ModDistinct`).

`RigelLocksProofs` proves `LocksTypes`, `LocksInvariant`, `MutualExclusionHolds`,
`NeverWaits` and `LocksRefine` for any set of threads, any nesting bound and any word larger than it
(`LocksAssumption`). The invariant `IInv` gives each kind in `Sound` what its words
mean at every instruction: for the word, that it is 1 exactly when somebody has the
lock; for newlib's lock, that the count is the depth of the one thread that has it
(1 while its owner is still to be stored), and that a thread reads its own number
in the owner only if it has the lock. Exclusion alone is not inductive: between the
compare-and-swap and the store of the owner only the count tells that the lock is
taken.

`X86TaskModelProofs` proves that `rtmx86_enter_barrier` is a barrier
(`ImplementsBarrier`) for any number of cores, any ring and any programs. Its
invariant `BarrierInv` says that a core outside has the sense of all, that one which
has flipped and is not yet counted has the other, and that the count is the number
of cores held. It does not mention the queue: no other step touches the barrier
(`Elsewhere`), so the result does not depend on what goes wrong there for other
constants.

The barrier inside `TaskQueue_Dequeue` is safe only in some programs (see
the limits above). The same module proves `WaitCountIsExact` and `X86Types` for those that
keep to the order of `cg.c`: after every SYNC but the last all cores enter the other
barrier (`BarrierAfterSync`). The number of cores, the ring and the loops, inner ones
included, are arbitrary. The wait count alone is not inductive. A core that was let go
still stands in the waiting loop with its old reservation, and if a task came now it
would take it and count itself out twice. `SyncInv` excludes that: while one core comes
out of this barrier (`Syncing`) all do or are at their end, and there are no tasks. Nobody can enqueue before the last of them has entered the other barrier, which
`BarrierInv` then holds to.

`X86RingProofs`, which extends it, proves `CountIsExact` and `ImplementsPool` for such
programs whose tasks enqueue no others (`NoInnerLoops`) and whose intervals leave a slot
for each core (`RingHasRoom`: tasks + cores slots, so that neither index wraps). The
count of tasks is kept by two instructions that do not look at the slots; that it
counts the slots which are full and not yet read rests on `ReserveInv`: no two cores
hold the same reservation, each reservation past the tail is held by a waiting core, and
a task below the head is unread just when its reservation is held. `TailInv` gives the
tail as the number of tasks enqueued so far, which is where `RingHasRoom` enters. For
the pool, two further invariants: a core that runs nothing has no task (`BusyInv`),
and the tasks in the ring are distinct because a loop enqueues its iterations in order
(`ContentInv`). Then an enqueue puts a task into the pool, the read of a slot takes it
out, the last arrival closes an interval with the pool empty and everybody idle, and
all other steps are stutters (`PoolSteps`).

`PthreadsProofs` proves `InitialisedOnce` and `MmapRegionsApart`, and
`PthreadJobProofs`, which extends it, `PthreadsTypes`, `OnePthreadEach` and
`JoinGetsItsValue`, for any number of threads and rounds (at least one pthread per
round and one round, `PthreadsAssumption`) of the program of `Pthreads`, which joins a
round before it creates the next. They rest on `ControlInv`: nobody but
thread 0 runs before `init_flag` is set, thread 0 does not allocate after it, and who is under the
lock of a pool is its holder. `mmap` takes no lock; that nobody stores the top
between another's load and store follows if all threads allocate from one pool
(`OnePool`), because thread 0, which uses the second one, does so before the flag.
`OnePool` is needed: without it `malloc_two_pools` violates the same property. So is
`Fits`, that the top cannot wrap: the machine's arena ends below 2^32 and the
requests are assumed to be smaller than what is left above it. `ArenaInv` then says
that the regions end below the top and that a loaded top is still the current one.

The two theorems about `pthread_create` and `pthread_join` use the inductive invariant
`SlotsInv`. It gives every pthread its place in the life of its slot (`JobInv`): not yet
created, in a slot and at work or about to be (`Working`), finished and not yet joined
(`Finished`), joined. A slot looks free from the worker's last store on, before the
join; that `pthread_create` does not give it away then follows only because no worker
gets past the condition while thread 0 still creates (`GoInv`, `FreeSlot`). That the
value is the right one uses the order of the worker's two stores, the value before the
function pointer.

`LoopFillProofs` proves `FillMakesShare`, `DescriptorsEnough` and
`IterationsInOneTask` for every loop, task size, group size and number of clusters
(`FillAssumption`). The invariant `FillInv` says that the clusters before the current
one have made their shares, and that the current one has made all groups of its share
up to the task it is at (`Filling`). From it the other two follow by arithmetic: a
share has no more groups than were drawn (`ShareFits`), shares are rows of
`PerClusterIters` iterations that end where the next begins (`InOneShare`), a task of
a share is in one place of one group (`OnePlace`, `GroupedTasks`), and all shares
together reach up to a remainder that is smaller than a task (`LeftOver`).

Only model-checked:

- liveness (`AllInAllOut`, `TicketIsCalled`, `Terminates`, `ComesFree`,
  `PthreadsEnd`, `BroadcastIsReceived`), which needs fairness and `ENABLED`;
- the x86 queue outside the conditions above: programs in the shape of `heat.c` and
  `sobel.c`, and a ring of tasks + cores - 1 slots, where the head may wrap once. What
  keeps `heat.c` safe is that the next interval has no more tasks than the last, so
  that an old reservation is never below the tail again;
- the safety of the Rigel task queue (`TaskQueue` with `TaskLoop` and
  `TaskSequential`). Its properties are not separable: that a cluster is let go only
  when it was counted needs the global count, that the global barrier is real needs the
  reservations of all clusters, and those need the senses. A proof has to carry one
  invariant over ring, senses, counts and locks through some thirty instructions, and
  has not been carried out.

## Not modelled

By far most of the repository's lines are newlib, its character-set tables, its
other machines and compiler-rt: third-party sequential code with nothing of this
system in it, of which a state machine of a few threads would say nothing. The
share of all lines that these modules cover is therefore small. Of the code
written for Rigel the following is left out:

- the hardware task queue (`hw-tasks.c`), whose operations are single instructions;
- registers and the stack: the asm block of `Loop_SEQUENTIAL` ends by reloading
  `$20`-`$28` from the stack and adding 44 to `$sp` without having pushed anything
  (`rtm-sw-enqueue.c:122`), which would be its caller's loss;
- event tracking, prefetches and cache operations (memory is coherent here), the
  printing and timing wrappers;
- the numerical kernels of the benchmarks, `graveyard`, linker scripts;
- `Destroy` and `End`, which free memory (`TaskQueue_End` of x86 is modelled);
- thread-specific data (`pthread_tls.c`) and attributes; keys are given out per
  thread there, and what a thread other than 0 creates can collide with the keys
  of the allocator;
- the allocator above `mmap`, and `munmap`, which does nothing;
- the descriptor buffer, a sequential ring private to a core;
- the task queue at its limits: the ring wrapping, the descriptor pool reused,
  data-parallel mode.
