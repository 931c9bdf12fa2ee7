# Verification of RasCode (rascom)

`rascom` compiles RasCode programs to x86-64: lexer, parser, analyzer,
optimizer, code generator, then nasm and gcc (main.c:269-353; an assembler, a
linker and an ELF writer of its own are built and not used). The programs it
makes call a C runtime (`src/runtime/`): threads and their primitives, channels,
thread pools, sockets, files, strings, sorting.

This directory holds TLA+ models of that code, the TLC configurations that
check them on small instances, and TLAPS proofs of what matters most for every
value of the constants. `PROJECT.json` maps every definition to the lines it
stands for, and every property to a mutated definition that breaks it.

## 1. Inventory

### Runtime: where threads meet

| component | state | operations | what is hard | what makes it correct |
|---|---|---|---|---|
| channels `channels.c` | `channel_pool`: per slot a ring buffer, a mutex, two counting semaphores, `in_use`; the pool lock | create, send, recv, empty, full, close, destroy | `in_use` is tested under the pool lock and used after it is released; wait, lock, write and post are four steps; close frees what others still use | values come out once, in order, at most capacity inside; blocked threads are served; indices stay inside the buffer |
| thread pools `threadpool.c` | `pool_pool`: per pool a ring of tasks, `task_available`, `task_done`, `shutdown`, worker handles | create, submit, wait, destroy, the worker loop | wait counts queued tasks and then consumes completion tokens; shutdown races with queued tasks; create joins workers under the pool lock | an accepted task runs once, in order; wait returns only when the work is done; destroy leaves no worker |
| rwlock, barrier, event `concurrency.c` | counters with a mutex and condition variables | read/write lock and unlock, barrier wait, event signal, wait, reset | wake-ups and who gets them; generations of a barrier; a signal and reset before the waiter looks | writers exclude everybody; nobody passes a barrier early or is left behind; nobody sleeps beside a free lock |
| sync pools `sync.c` | pools of mutexes, semaphores, condition variables with `in_use` | create, lock, unlock, wait, post, signal, destroy, atomics | identifiers outlive the object: the test of `in_use` and the call are two sections | exclusion under the identifier a program holds |
| sockets `network.c` | `socket_table`: descriptor, type, state | socket, connect, bind, listen, accept, send, recv, close | the descriptor is read under the lock and used after it | no descriptor leaks or is closed twice; a thread uses the one its handle denotes |
| sorting and searching `sorting.c` | the caller's array | sorts, shuffle, binary and linear search | cells that are overwritten while the key is held in a local; halves that leave a cell out | order, no value lost, right answers, an end |
| errors, processes, memory maps, files, hardware, time, strings, mathematics | little or none | wrappers and pure functions | boundaries of the pure functions | agreement with a reference definition |

### Compiler: a sequential pipeline

| component | state | what is hard | what makes it correct |
|---|---|---|---|
| driver `main.c` | options, file names | a phase failing in the middle | temporary files, exit codes |
| lexer `lexer.c` | position in the text | characters | tokens of the text |
| parser, syntax tree `parser.c`, `ast.c` | the current token, the nesting, trees | ten levels of operators by hand, statements told apart by one token | the tree is the one the source was written from |
| analyzer `analyzer.c` | facts on variables, loops, calls | nothing: its facts are printed | |
| optimizer `optimizer.c` | the tree | rewriting what has an effect, overflow in folding | the meaning of the program stays |
| code generator `codegen.c` | symbol and group tables, stack offset, loop labels, deferred statements, label count | scopes against stack slots, defer on every way out, break and continue, values that wait in registers, loops made over at -O2 and -O3, the hash table of maps | a program does what its source means; two live variables never share a slot |
| builtin registry `builtins.c` | none | numbers of builtins against ranges of categories | a call reaches the routine it names with its arguments |
| advanced optimizer, register allocator, vectorizer, `codegen_optimize.c` | counts, settings | nothing: the code does not depend on them | |
| assembler, linker, elf `assembler.c`, `linker.c`, `elfgen.c` | sections, labels, relocations | not on the path of the driver | |
| packages `packages.c`, memory safety `memory_safety.c` | loaded packages, versioned blocks | no phase calls them | |
| `optimizero.c` | | an older optimizer that is not built | |

### How they interact

The generated program calls the runtime by its C functions with integer
identifiers (`codegen.c`, the builtins section); the runtime's modules share
nothing but the process: each has a static pool and a lock of its own. A
RasCode thread is a pthread, so every operation of one runtime module
interleaves with every other. Inside the compiler the phases hand over whole
data structures and never run concurrently.

`PROJECT.json` lists every component with what is modelled of it, and the
hazards of the code at the lines where they bite.

## 2. Plan

1. `BoundedFifo`, `Channel`, `ChannelProofs` (done): the concurrent core that
   every documented concurrency pattern is built on; its safety invariants and
   its refinement proved.
2. `TaskPool`, `ThreadPool`, `ThreadPoolProofs` (done): what `pool_wait` and
   `pool_destroy` promise against what they do; the safety invariants and the
   refinement proved.
3. `RWLock`, `Barrier`, `Event`, `HandleTable` from `concurrency.c` (done), with
   `BarrierProofs` and, for the other three, `MonitorsProofs`.
4. `SyncPool` (`sync.c`), `SocketTable` (`network.c`) (done): identifiers and
   reuse; `SyncPoolProofs`, `SocketTableProofs`.
5. The compiler from the tokens to the machine (done): `Parser`, `Optimizer`,
   `Generator` with `Builtins`, executed by `Machine` with `Words`; beside them
   `Printer` and `Meaning`, the references they are checked against; composed
   by `MCCompiler`.
6. `MonitorsProofs` (done): every invariant of the run `monitors`, for the six
   modules as that run composes them.
7. `Sorting`, `SortingProofs` (done): the loops of `sorting.c`, every invariant of
   the run proved for arrays of any length.
8. Left: the second slot of the thread pools, whose only new behaviour is waiting
   for `pool_pool_lock`, and the safety of stale threads beyond the bounds of
   their indices. The compiler and all liveness stay with TLC (section 9).

One run asks one question of a subsystem. Modules that share no state are
checked in one run (`MCMonitors.tla`), and the disciplines a program can follow
are initial states of one run (`MCChannelFair.tla`, `MCThreadPoolFair.tla`), as
are the programs that are compiled (`MCCompiler.tla`), so that the whole list
stays short enough to be run before every commit.

## 3. Channels

`Channel.tla` models `src/runtime/channels.c`, slot by slot and step by step.
A thread is at a label (`pc`) with its locals (`frame`: the channel, the value,
the size it read). One action is what happens between two points where another
thread can get in:

| code | actions |
|---|---|
| the `in_use` test under the pool lock, with which every operation begins | `Enter`, `RejectId` |
| `sc_channel_create` | `CreateIn`, `CreateFails` |
| `sc_channel_send`: semaphore, mutex, write, post | `SendWait`, `SendLock`, `SendWrite`, `SendPost` |
| `sc_channel_recv`: semaphore, mutex, take, post | `RecvWait`, `RecvLock`, `RecvTake`, `RecvPost` |
| `sc_channel_empty`, `sc_channel_full` | `ProbeCall`, `Probe` |
| `sc_channel_close`, `sc_channel_destroy` | `CloseCall`, `DestroyLock`, `FreePrimitives`, `MarkFree` |

The environment is every program: any thread calls any operation with any
identifier at any time. `JoinBeforeClose` restricts one thing: when it is TRUE
a channel is closed only while no other thread is inside an operation on it
(the pattern of docs/20-CONCURRENCY.md:306-308). With FALSE a close can come at
any time, and destroyed mutexes and reused slots are part of the behaviour:
`sem_destroy` leaves the counter as it is, `pthread_mutex_destroy` refuses a
held mutex, `pthread_mutex_lock` fails on a destroyed one (glibc on Linux, the
platform the runtime is built for). The size tested inside a critical section
is read once and the new size computed from it, which is what the build's -O2
(Boxfile:6) makes of `size++` and `size--`, and matters only for a stale thread.

`BoundedFifo.tla` is the promise: each open channel is a queue, each operation
takes effect at one instant. `ImplementsFifo` maps `queue` to the cells from
`read_pos` on and each thread's operation to its label.

| run | checks | bounds |
|---|---|---|
| `channel_fifo` | `TokenBalance`, `NothingDropped`, `ImplementsFifo` | 3 threads, 1 slot, capacity 1 or 2, 2 values. Three threads are two on one side of the channel and one on the other; capacity 2 wraps with a queue longer than one; two values tell orders apart |
| `channel_fair` | `JoinedReceiverServed`, `JoinedSenderServed`; `TypeOK`, `HoldersGoOn`, `PoolLockReleased` | 3 threads, capacity 1 or 2. A behaviour follows one of two disciplines, fixed in its initial state (`joined`): channels are closed only when unused, and a thread can be overtaken by another of its side; or two of the threads close at any time, one stale while the other closes and creates with another capacity |
| `channel_stale` | finds a send that returns 0 and stores nothing | 2 threads, capacity 1 or 2, closing at any time |

Close discards what is in the buffer. A program whose sender closes when it is
done, as in docs/20-CONCURRENCY.md:1112-1131, can therefore lose its last values:
a receiver that has not asked for them yet gets -1. That is what the code does
and what `BoundedFifo` says; no property is against it.

`HoldersGoOn` is the safety half of `PoolLockReleased`: a destroy waits for a mutex
with the pool's lock in its hands, and this ends because whoever holds a mutex has
a next step that waits for nothing.

A slot's behaviour does not depend on the other slots except through the pool
lock, so one slot is checked; the proofs cover any number. Symmetry over
threads is used where only safety and step properties are checked.

Fairness: `FairSpec` has weak fairness of each thread's own steps (`Step`) and
none of its calls. A thread at a semaphore or mutex is enabled only while it
could get it, so weak fairness says that an enabled thread runs in the end,
which the kernel's scheduler gives, and leaves open who wins. `ReceiverServed`
and `SenderServed` therefore say that some waiting thread is served, not each.

`CHECK_DEADLOCK FALSE` in these runs: all threads may be blocked (everybody
receives from an empty channel), which is the program's business.

### What is proved

`ChannelProofs.tla`, for any threads, slots, cells and values:

- `TypeCorrect`: `Spec => []TypeOK`, however channels are closed: no index leaves
  its buffer, even under an operation whose channel was closed. `TypeInv` adds to `TypeOK` that a slot in use, or
  under an operation, has a capacity of at least one, so the modulus is never 0.
- `SemaphoresBalance`: `Spec => []TokenBalance` and `NoValueDropped`:
  `Spec => []NothingDropped`, when `JoinBeforeClose`. The invariant `IInv` adds
  to the balance who may stand where: an operation's slot is in use
  (`Attached`), whoever closes is alone on it (`Alone`), the thread inside a
  critical section is the mutex's holder (`LockHeld`), the size it read is still
  the slot's (`SizeRead`). The argument is counting: each step moves one thread
  between two of the sets the balance adds up, or trades a token for one.

- `ChannelsAreQueues`: `Spec => ImplementsFifo`, when `JoinBeforeClose`. `IInv`
  counts tokens and does not say where the values lie: with the positions apart
  by anything but `size`, a send with a token could overwrite a value that was
  not read. `RInv` adds `RingAligned`: in a slot in use the write position is the
  read position plus `size` around the ring. Then a write appends one value to
  the cells from `read_pos` on, and a take removes the first. `CreateIn` maps to
  `Open`, `Enter` to `Begin`, `SendWrite` to `Put`, `RecvTake` to `Get`, the
  posts and probes to the returns, `MarkFree` to `Shut`; every other step
  stutters. Without `JoinBeforeClose` the refinement does not hold: `channel_stale`
  shows the step that breaks it.

- `NoCircleOfLocks`: `Spec => []HoldersGoOn`, however channels are closed. It is
  inductive beside `TypeOK`: the only step that takes a mutex under the pool's lock
  ends at `destroy_free`, which holds both and waits for neither.

Assumed: the constants' assumptions in `Channel.tla` and the meaning of the
semaphores and mutexes. Liveness is model-checked only.

Left out of the channel model: initialisations of primitives that fail (with
these arguments they cannot), a semaphore wait interrupted by a signal handler,
and the semaphore's and mutex's own internals.

## 4. Thread pools

`ThreadPool.tla` models `src/runtime/threadpool.c` for one slot of `pool_pool`.
The slots share `pool_pool_lock` alone, so a second slot would add nothing but
waiting for that lock. Clients are the program's threads (`pc`, `frame`),
workers the pool's own (`wpc`, `wtask`, `wcount`).

| code | actions |
|---|---|
| `pool_worker`: semaphore, test of `shutdown`, mutex, take, run, post | `WorkerWait`, `WorkerCheck`, `WorkerLock`, `WorkerTake`, `WorkerRun`, `WorkerDone` |
| the `in_use` test that begins submit and wait | `Enter`, `Reject` |
| `sc_pool_submit`: mutex, full test and write, post | `SubmitCall`, `SubmitLock`, `SubmitWrite`, `SubmitPost` |
| `sc_pool_wait`: count the queue, take as many completions | `WaitCall`, `WaitCount`, `WaitDone` |
| `sc_pool_create`: slot, workers one by one, clean-up when one fails | `CreateCall`, `CreateFails`, `CreateSpawn`, `CreateDone`; `SpawnFails`, `CreatePost`, `CreateJoin`, `CreateGiveUp` |
| `sc_pool_destroy`: shutdown, posts, joins, the slot given back | `DestroyCall`, `DestroyPost`, `DestroyJoin`, `DestroyFree` |

Create and destroy hold `pool_pool_lock` where the code does: create from its
call to its return, joins of the clean-up included; destroy only up to its
posts and again when it gives the slot back. A destroyed mutex makes `pthread_mutex_lock` fail; submit does
not test that and goes on without the lock (`SubmitLock`).

The environment: `DestroyAlone` (nobody else is inside an operation when the
pool is destroyed, or not), `OneWaiter` (one client in `pool_wait`),
`CreateMayFail` (`pthread_create` may fail). Two clients never destroy one pool
at once, which would join threads twice. Tasks end and call no pool operation.
`MaxUnwaited` bounds the completions that nobody waits for, and the tokens,
both of which only the program's habits bound. `tasks_completed` is left out:
nothing reads it.

`TaskPool.tla` is the promise: accepted tasks are started once each in order,
and a pool goes away when no worker executes one. `ImplementsTaskPool` maps
`pending` to the cells from `head` on, and `running` to what the workers took.

| run | checks | bounds |
|---|---|---|
| `pool_tasks` | `TokenPerTask`, `WorkersGone`, `TokensToExit`, `WaitsForWork`, `ImplementsTaskPool` | 2 clients, 2 workers, 2 cells, 2 tasks, creation of workers failing or not. Two workers race for the queue, a third submit finds it full, a failing create cleans up one worker |
| `pool_fair` | `AloneQueueDrained`, `AloneWaitReturns`, `AloneDestroyReturns`; `TypeOK` | 2 clients, 2 workers, 2 cells; or, fixed in the initial state (`alone`), one client that destroys the pool and creates it again, with one worker, under the submits of the other |
| `pool_tasks_lost` | finds that the documentation's example can say "All tasks completed" with a task that never ran | 1 worker, 2 tasks |
| `pool_create_stuck` | finds a create that never returns | 1 client, 3 workers: the third does not start when two have |

`pool_tasks_lost` needs no rare schedule: the completion of the first task,
which was done before main called `pool_wait`, is taken for that of the second,
which is still queued, and `pool_destroy` throws the second away. The same
program shows that `pool_wait` may return while a task is executing.

Two weaknesses are left to the environment and are hazards of `PROJECT.json`.
Completions belong to whoever takes them, so of two clients in `pool_wait` one
can wait for ever: `AloneWaitReturns` and `WaitsForWork` have one waiter. And when
creating a worker fails, the clean-up posts once and joins the first of the
others, then the next: with two workers already started the token can wake the
one that is not joined, and the create never returns, with `pool_pool_lock` in its
hands (`pool_create_stuck`). With two workers only one has been started, and the
clean-up is checked with that. `TokensToExit` says why a destroy has no such
trouble: it posts all its tokens before the first join.

Fairness (`FairSpec`) is weak fairness of each worker and of each client's
steps, none of calls. Mutexes are not fair: a client may submit for ever and
keep others from the queue, so `QueueDrained` and `WaitReturns` are stated for
behaviours in which the submits end (`NoSubmits`). `DestroyReturns` needs no such
condition, since a pool is destroyed alone.

### What is proved

`ThreadPoolProofs.tla`, for any clients, tasks, workers and cells, and whatever
`OneWaiter` and `CreateMayFail` are:

- `TypeCorrect`: `Spec => []TypeOK`, however pools are destroyed. The type
  invariant is inductive as it stands; it is split into what everybody shares,
  the workers' locals and the clients' locals (`Typed`). It
  says that no position leaves the queue, also for the submit that goes on without its
  lock, since the count it writes is one more than a count it found below the
  size of the queue, and a position moves by one around the ring.
- `NoWorkerLeft`: `Spec => []WorkersGone`, however pools are destroyed. `Keepers`
  says who creates and destroys: a creator holds `pool_pool_lock` and its slot
  is free, and there is at most one destroyer, of a slot in use. `Staffed` says
  which workers there can be: in a pool, those that its destroyer has not joined
  yet; under a creator, those it started; in its clean-up, those between the one
  it joins next and the one that could not be created.
- `EveryTaskHasItsToken`: `Spec => []TokenPerTask` when `DestroyAlone`. To
  `StaffInv` comes that a submit's pool is in use and a destroyer is alone
  (`Attached`), that whoever is inside a critical section holds the mutex and
  knows the count (`LockHeld`), and the balance from the moment the queue is set
  up (`Balanced`). Without `StaffInv` the balance is not inductive: a worker left
  over from an earlier pool would take a token of the new one.

- `PoolsStartTasksInOrder`: `Spec => ImplementsTaskPool` when `DestroyAlone`.
  `PoolInv` adds three facts to the balance. `TailKept`: the tail is `count` cells
  behind the head around the ring, so that a submit appends and does not overwrite.
  `Handed`: only a worker that executes has a task, so that `running` changes when
  one is taken and when one is done, and a submitter has one to write. `Quiet`:
  while a slot is not in use no worker is past the test of `shutdown`, although
  workers may be alive there, started by a create or waiting for the clean-up of
  one that failed. `Quiet` is where the order inside create matters: no token
  before all workers are started, `shutdown` before the tokens of the clean-up.

- `EveryExitHasItsToken`: `Spec => []TokensToExit`, however pools are destroyed.
  `ExitInv` adds to `StaffInv` that a pool under a destroyer is shut down
  (`ShutDown`): from then on a worker that takes a token leaves and takes no
  second one, so with every join still to come the tokens and the workers that
  have yet to take one fall together. A submit that races with the destroy only
  adds tokens.
- `LoneWaitIsServed`: `Spec => []WaitsForWork` when `OneWaiter` and `DestroyAlone`.
  `WaitInv` adds to the balance of tokens that there is one waiter
  (`SoleWaiter`): what a wait has yet to take is at most the completions posted,
  the tasks queued and those with a worker, and a step of a worker moves one of
  these into the next. With two waiters a completion counted by one is taken by
  the other, and the bound fails.

Assumed: the constants' assumptions in `ThreadPool.tla` and the meaning of the
semaphores, mutexes and joins. Liveness is model-checked only.

## 5. Locks, barriers, events, sync pools and sockets

`RWLock.tla`, `Barrier.tla`, `Event.tla` model the three primitives of
`src/runtime/concurrency.c`. Each is a few integers under one mutex with
condition variables. Nothing inside a critical section waits, except
`pthread_cond_wait`, which lets the mutex go, so what a thread does from taking
the mutex to its wait or unlock is one action. A condition variable is the set
of the threads asleep on it: signal takes one out, broadcast all, and
`SpuriousWakeup` any one at any time. Who is out is awake and tests again.

| code | actions |
|---|---|
| `sc_rwlock_read`, `_read_unlock` | `ReadCall`, `ReadAgain` (the loop), `ReadUnlock` |
| `sc_rwlock_write`, `_write_unlock` | `WriteCall`, `WriteAgain`, `WriteUnlock` |
| `sc_barrier_wait` | `Arrive` (`Join` or `Open`), `Recheck` |
| `sc_event_signal`, `_wait`, `_reset` | `Signal`, `WaitCall` and `WaitAgain` (`WaitTest`), `Reset` |
| the three create functions | `HandleTable`: `CreateCall`, `Malloc`, `MallocFails`, `Store`, `CountUp` |

A thread holds one lock at a time and unlocks what it holds: reading again
while holding the read lock deadlocks with a waiting writer, by design of the
lock. `target` of a barrier is any of the values an `int` can be left with after
`num_threads > 0` was tested as a `long`, 0 among them.

The create functions touch a table and a counter without a lock. The counter is
read once, before `malloc`, and the register is used after it (the build is -O2;
`HandleTable.tla`). `CreateAlone` says that the program creates its objects from
one thread at a time.

`SyncPool.tla` models `src/runtime/sync.c`: mutexes, semaphores and condition
variables by number, each kind in a pool with a lock. Nothing waits while it
holds a pool's lock, so create and destroy are one action, and so is the test of
`in_use` with which every other operation begins. The operation itself comes
later, when the slot may have been given away.

| code | actions |
|---|---|
| `sc_mutex_create`, `_destroy` | `MutexCreate`, `MutexDestroy` |
| `sc_mutex_lock`, `_trylock`, `_unlock` | `LockCall`, `TrylockCall`, `UnlockCall` (the test), then `Lock`, `Trylock`, `Unlock` |
| `sc_semaphore_create`, `_wait`, `_signal` | `SemaphoreCreate`; `WaitCall`, `SignalCall`, then `Wait`, `Signal` |
| `sc_cond_create`, `_wait`, `_signal`, `_broadcast` | `CondCreate`; `CondWaitCall` (the mutex), `CondTest` (the condition), `CondSleep`, `CondRelock`; `CondSignalCall`, `CondBroadcastCall`, then `CondSignal`, `CondBroadcast`; `SpuriousWakeup` |

The program unlocks and waits with what it holds, locks nothing twice, signals a
semaphore it passed, and destroys no mutex that is held or slept with
(`MayRelease`, `MayLock`, `MayDestroy`). It may destroy one between another
thread's test and its lock: the lock is then refused, or takes the mutex that
was created in the slot since. `MaxCount` bounds the initial count of a
semaphore. The three atomic operations are single instructions without state of
their own and are left out.

`SocketTable.tla` models `src/runtime/network.c`: a table from handles to
descriptors and the kernel's set of open descriptors. What is done under the
table's lock is one action, a call of the kernel another, and the kernel may
refuse any (`KernelAnswers`).

| code | actions |
|---|---|
| `sc_socket` | `Socket` (the kernel), `SocketInsert` (the table, or the close when it is full) |
| `sc_connect`, `sc_listen` | `ConnectCall`, `ListenCall` (the copy of the descriptor), `Connect`, `Listen` (the kernel), `Note` (the new state) |
| `sc_bind`, `sc_send`, `sc_recv` | `BindCall`, `SendCall`, `RecvCall`, `KernelAnswers` |
| `sc_accept` | `AcceptCall`, `Accept`, `AcceptInsert` |
| `sc_close` | `CloseCall` (the entry), `KernelCloses` (the descriptor) |

The kernel gives the smallest descriptor that is not in use, so a closed number
comes back at once. The program closes no socket that another thread is at work
on (`AtWork`): a descriptor copied before such a close denotes whatever was
opened since, against which the code has no defence.

| run | checks | bounds |
|---|---|---|
| `monitors` | all six modules, below | 4 threads: two readers and two writers, or a barrier for 4, 3, 2 or 0 of them with 3 rounds (`MaxRounds`: a thread in the third round while others have not woken from the first), or an event; a table of 3 for 4 objects; 3 threads on one mutex slot, which is reused, one semaphore of 0 to 2 (full, empty and contended) and one condition variable; 2 threads on 2 entries and 3 descriptors, so that both the table and the process run out |
| `handles_race` | finds one identifier given for two objects | 2 threads |

`MCMonitors.tla` puts the six beside each other and lets a behaviour use one
(`monitor`); they share no state, so each property says what it says of the
module alone. What is checked:

- the lock's counters count the threads they are named for; a writer is alone;
  no reader is asleep unless a writer has or wants the lock, and when nobody has
  it some writer is awake; once nobody asks any more everybody is served. The
  condition is needed: readers yield to waiting writers, and a stream of writers
  starves them;
- nobody comes back from the r-th barrier wait before everybody has called it r
  times, when there are as many threads as the barrier is for; with more or
  fewer, whoever belongs to an earlier generation comes back (that the count is that
  of the present generation alone, and that nobody of an earlier one is asleep, is
  proved below);
- nobody sleeps beside a signalled event, and who waits when it is signalled
  comes back unless a reset comes first;
- an identifier means its object ever after, with creates one at a time;
- no two threads are told that they hold one mutex, and one that is held is not
  given out again, whatever is created and destroyed between a test and its
  lock (`MutexExclusion`); the threads a semaphore let in and its value make up
  its initial count (`PermitsKept`);
- an open descriptor has one keeper, an entry or a thread about to store or
  close it, and a closed one has none: none leaks when the table is full, none is
  closed twice (`DescriptorsAccounted`); a thread at work has the descriptor its
  handle denotes (`OwnDescriptor`).

A signal that is followed by a reset at once (docs/20-CONCURRENCY.md:1081-1082)
may wake nobody for good; `EventSignalReceived` excludes it by its condition.

Fairness: an awake thread runs in the end, and who holds a lock gives it back
(`Step` holds the unlocks); nothing is assumed of calls.

### What is proved

For any finite number of threads:

- `MonitorsProofs.tla`, the lock by itself. `LockTyped`: `Spec => [](TypeOK /\ CountersExact)`, and
  `WritersAlone`: `Spec => []Exclusion`. The invariant `Inv` adds to both that while
  there is a writer it is the only one and `readers` is 0 (`Guarded`); exclusion follows from it and
  from the counters being exact, and is not inductive without them.
  `WakeUpsSuffice`: `Spec => []NobodyForgotten`. It is inductive beside `Inv`: who
  unlocks last decides whom to wake by `waiting_writers`, and that this counter is
  exact is what makes the decision right.
- `BarrierProofs.tla`. `GenerationsApart`: `Spec => [](TypeOK /\
  GenerationOfTarget)`, for any target, and `NobodyPassesEarly`:
  `Spec => []NobodyEarly`. The second needs `InStep`: with as many threads as the
  barrier is for, a thread outside has come back once for each generation that is
  over, and one that waits is in the present generation or the last, so that the
  thread that opens the barrier finds all the others waiting in its own round.
- `SyncPoolProofs.tla`. `PoolsSafe`: the types, one holder of a mutex, the permits
  of a semaphore. `HoldersKnown` ties what threads were told to the mutex itself:
  the slots not given out are the destroyed mutexes, and who was told to hold one
  is its holder. `AllPlaced` says what a number still denotes in the second half
  of an operation: a lock may find another mutex than the one it tested, an unlock
  or a signal cannot, since what is held or passed is not destroyed. The permits
  are a sum over threads that moves by one (`CountChange`).
- `SocketTableProofs.tla`. `SocketsSafe`: every open descriptor is kept by one
  entry or one thread that carries it (`KeptIsOpen`, `KeptOnce`, `OpenIsKept`, which
  say in quantifiers what `DescriptorsAccounted` says by counting), and a thread at
  work has the descriptor of its handle. A number that the kernel gives again is
  new to all because nobody keeps a closed one.
- `MonitorsProofs.tla`, all of them. One theorem for each invariant of the run `monitors`
  and one for the generations of the barrier (`BarrierCounts`),
  about `MonitorsSpec`: a step of the composed program is a step of one monitor and
  leaves the variables of the other five alone (`EachSteps`), so the conjunction
  of the six invariants is kept (`MonitorsInv`). The invariants of `Event` (its type
  invariant and `NobodyForgotten`, inductive together) and of `HandleTable`
  (`TableInv`: one thread creates at a time, the count it read is still the
  table's, and what was given out lies below the count and means its object) are
  proved there too.
- `CountsAndRings.tla` holds what the proofs share: a set that changes in one
  element changes its size by one (`CountChange`), and what writing to and taking
  from a ring buffer does to the sequence of its cells (`RingPut`, `RingGet`), for
  the refinements of sections 3 and 4.

Assumed, in the statement of each theorem since the modules are instantiated
side by side (`Assumptions` in `MonitorsProofs.tla`): the threads are finitely
many, targets are integers, `MaxRounds`, `MAX_HANDLES` and `MaxCount` are natural
numbers, `MAX_SOCKETS` is at least 1, the marks of a mutex that nobody holds are
two and no threads. The discipline of the program, on which some invariants
depend (creates one at a time, no mutex destroyed that is held, no socket closed
under another thread), is in the models' guards as described above. Liveness is
model-checked only.

## 6. Sorting and searching

`Sorting.tla` models `src/runtime/sorting.c` on the array of a caller, `arr` with
`count` cells: a state machine of which one action is a call (`BubbleCall`, ...), one
turn of a loop (`BubbleStep`, `SelectScan`, `InsertShift`, `ShuffleStep`,
`BSearchStep`, `SearchStep`, `FindStep`) or a return. `pc` is the loop that runs,
and the locals keep their names. `Qsort` is the C library's sort by its
specification, and `rand() % (i + 1)` any number up to `i`. A program calls one
routine after another on the same array, so a search also meets arrays that a
shuffle left.

| run | checks | bounds |
|---|---|---|
| `sorting` | `SortsSort`, `ValuesKept`, `SearchesFind`, `CallsReturn` | every array of up to 4 cells of 3 values: equal neighbours, a binary search with two halvings on either side, an insertion over three cells |

`FairSpec` has weak fairness of the steps inside a call, which says that a call goes
on executing, and none of the calls. With it `CallsReturn` is the termination of
every loop. `SortsSort` alone would be kept by a sort that fills the array with one
value; `ValuesKept` says that the array stays a rearrangement of what the call was
given (`Permuted`).

### What is proved

`SortingProofs.tla`, for arrays of any length (`MAX_COUNT` is any number) and any
integers: `LocalsStayInRange`, `EverySortSorts`, `NothingIsLost`,
`SearchesMissNothing`: the types and the invariants of the run. They
follow from one invariant, `Inv`, whose parts are the invariants of the loops:

- bubble sort: cell `j` is the greatest up to itself, and the last `i` cells are in
  order with nothing greater before them (`Bubbled`);
- selection sort: the first `i` cells are in order with nothing smaller behind them,
  and `min_idx` is the smallest of those scanned (`Selected`, `Scanned`);
- insertion sort: the first cells are in order but for a hole at `j + 1`, behind
  which everything is greater than the key (`Inserted`, `Shifted`);
- binary search: in an array in order the value is between `left` and `right` or
  nowhere (`Halved`); scans: `Searched`, `Found`.

`Kept` says that nothing is lost, and is inductive only of the array with its hole
filled (`Filled`): while a key is moved, the array itself holds one value twice and
the key not at all. A shift then is a swap of the filled array, and a swap keeps a
rearrangement (`SwapKeeps`, by composing the bijection with the swap).

Assumed: that cells are integers and that the sum `left + right` does not overflow,
which holds for every array that fits in memory. Termination stays with TLC.

## 7. The compiler

| module | code | form |
|---|---|---|
| `Parser.tla` | `parser.c` | one operator per `parse_` function, from a state of the parser (tokens, place, nesting, tree, error) to the next; the functions reach each other through `Parse`, by the name of a rule |
| `Optimizer.tla` | `optimizer.c` | the three passes that change a tree, folding, simplification and dead code, where `optimize_ast` applies them |
| `Generator.tla` | `codegen.c` | one operator per `codegen_` function, from the state of the generator (stack offset, symbols, labels, deferred statements) and a node to the items that take its place; `Expand` replaces nodes until only instructions are left |
| `Builtins.tla` | `builtins.c`, `builtins.h`, `codegen_builtin_call` | the enumeration with its numbers, the registry with its arities, the category computed from the number, and what each category writes for which builtin |
| `Machine.tla` | the instructions `codegen.c` writes | a state machine with one step per instruction: registers, memory by bytes, flags, the recursion counter, what was written |
| `Words.tla` | the widths of those instructions | words that overflow, are cut and are sign-extended |
| `Printer.tla` | none: the reference for the parser | a tree written down by docs/02-SYNTAX-RULES.md and the operator table of docs/06-OPERATORS.md, with the fewest parentheses or with all |
| `Meaning.tla` | none: the reference for the rest | what a program means, said with scopes, signals (break, continue, return) and values, without stack, registers or labels |
| `MCCompiler.tla` | the order of phases in `main.c` | the sources, and the composition: printed, parsed, optimised, generated, run |

The models of the compiler are functions, and the running program is the state
machine: a behaviour picks a source, compiles it in its initial state and then
takes one step per instruction. `meant` is what the source should write and
`same` whether the parser gave back the tree.

`Generator` and `Parser` keep the control of the code, including what is wrong
with it: which register a value waits in, how much the stack pointer is moved on
each way out, which label `continue` gets. They leave out messages, the text of
the printing routines, prefetch and vector hints, and how digits become numbers.
Where no program comes out, because the generator gives up or because nasm refuses
an instruction or a jump to a label that is never defined (`Linked`), the machine is
`refused` from the start, which no source of `MeansTheSame` may be.
A routine of the runtime or a system call is the instruction `native`, which
records its name and its arguments and overwrites the registers the call may
overwrite; whether the right arguments are in the right registers is the question.

| run | checks | sources |
|---|---|---|
| `compiler` | `ParsedBack`, `MeansTheSame`, `VariablesAreSafe`, `DepthIsReturned`, `EveryProgramEnds` | some 200: below |
| `compiler_defers` | finds deferred statements that do not run | a block with a `defer` left by `return` from an `if` inside it, a loop body with a `defer` left by `continue` |

What the properties say:

- `ParsedBack`: a source gives back the tree it was written from, in both styles,
  and a source that has none is refused. It is about the ten levels of operators,
  what groups from the left, the statements that start with the same token, and
  the counter of nesting at its limit.
- `MeansTheSame`: at every moment the program has written a beginning of what it
  means to write, and in the end all of it. It covers scopes, shadowing, defers,
  calls with up to seven arguments and default values, recursion, arrays with
  bounds checks, nested groups, overflow checks, conversions of one value and of
  several, regular and tiled loops, builtins.
- `VariablesAreSafe`: at the end of every statement the stack pointer is at or
  below the last variable the generator placed, so that no push overwrites one.
- `DepthIsReturned`: the counter of the recursion limit, changed by callers and
  callees on different paths, is 0 when the program is over, and the stack is empty.
- `EveryProgramEnds`: under weak fairness of the processor's step, which only says
  that it goes on executing, no jump goes to a label that makes the loop endless.

The sources of `compiler`: 28 statements, each alone with itself and
before five others, in `main` after a prelude that declares a variable of every
kind and before an epilogue that shows them; levels 0 and 1 and the checks on and
off in turn; each block of the enumeration of builtins, called with as many
arguments as the registry asks for; an access outside an array; three nests of
loops at levels 2 and 3, which are tiled, left in their first run; three
sources that are only parsed; seven that have no tree. Pairs are what the hazards
need: what one statement leaves in registers, on the stack and in the generator's
state meets the next.

Bounds, each named in its module or cfg: `WordBits` 12 (a dword keeps 10, a byte
8, so that results overflow and are cut), `StackTop` 1000, `MaxRecursion` 12 and
`WarnRecursion` 10 (1000 and 900 in the code), `MaxDepth` 5 (1000), `Scale` 100
for folded decis (1000000), `Buckets` 16, `Followers` 5. A deci is a whole number moved by
`DeciBias` and a string the name of its contents, so that taking one for the
other shows; memory and registers that were never written hold `Junk`.

What the sources of the passing run keep away from, because the code does
something else there:

- leaving a block with deferred statements from a block inside it
  (`compiler_defers`);
- a deci operation on the right of another: the left operand waits in a register
  that the right one uses (codegen.c:760), and `d * (2.0 + d)` writes 10 for 15;
- builtins whose number leads to other code (`Astray`), since the category is
  computed from ranges the enumeration has outgrown (builtins.c:281): `@pad` calls
  `pow`, and the sorts of section 6 are reached from C alone; and those that lose
  an argument (`Apart`);
- calling a function above the place where it is generated: the call becomes
  `runtime_unimplemented_func` (codegen.c:1337), against
  docs/01-PROGRAM-STRUCTURE.md:183;
- using maps: no stack is reserved for the buckets and the probing loop reads the
  key once too often (codegen.c:3060), so maps are only parsed;
- at -O2 and -O3, nests of `i`, `j`, `k`: the interchanged loops leave for labels
  with the numbers of their starts (codegen.c:2164, 2180, 2196), and the labels
  have those of their ends (2219, 2231, 2243), so that nasm refuses the program;
  a loop is unrolled in such a nest only, and so in no program;
- other nests that go on beyond their first run: the tiled form (codegen.c:1942)
  counts registers to 512, and neither declares the variables of the loops nor
  tests their conditions; and loops that are not three deep (2473 follows a null pointer);
- products of two deci literals, which folding does not scale back
  (optimizer.c:68-72);
- dividing a negative number: the upper half of the dividend is cleared and not
  sign-extended (codegen.c:864-876).

All modules of the compiler are model-checked only: they are recursive over trees.

## 8. What the findings say

| run | place | consequence |
|---|---|---|
| `channel_stale` | channels.c:125 | a send on a channel that was closed and created anew returns 0 and drops its value |
| `pool_tasks_lost` | threadpool.c:259 | stale completions: wait returns early, destroy drops tasks |
| `pool_create_stuck` | threadpool.c:172 | a create whose third worker fails joins a worker nobody wakes, with the lock of all pools held |
| `handles_race` | concurrency.c:39 | concurrent creates give out one identifier twice |
| `compiler_defers` | codegen.c:1542 | return runs the innermost block's deferred statements only; break and continue run none |

## 9. Not modelled

`PROJECT.json` gives the reason for each component. They fall into four groups.

- Nothing to check: wrappers of one C or system call without state (errors,
  processes, memory maps, files, hardware, time), the atomic operations, and pure
  functions that unit tests reach (strings, mathematics; sum, average and
  count_val of `sorting.c`).
- No effect: analyzer, advanced optimizer, register allocator, vectorizer and
  `codegen_optimize.c` gather facts or settings that no later phase acts on.
- Not on the path: `optimizero.c` and the pure runtime are not built; assembler,
  linker and ELF writer are built and the driver uses nasm and gcc; no phase
  calls packages or the memory safety layer.
- Characters: the lexer, and the parsing of digits in `read`. The models start
  from tokens and values.

The driver's own files, options and exit codes are left out; the release of trees
is too. The code generator is listed as partly modelled for the tables of routines
and messages it writes around a program.

Every invariant and refinement that a passing run checks of the runtime is also
proved. Model-checked only are:

- liveness, of channels, pools, monitors, sorts and compiled programs: fairness and
  ENABLED are out of the prover's reach;
- the compiler, whose operators are recursive over trees and whose words use
  bitwise operators: neither the recursion nor the induction over programs that
  such a proof needs can be given to the provers.
