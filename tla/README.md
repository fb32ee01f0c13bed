# Verification of the event loop core of temu (QEMU 2.3 with the temu plugin)

The repository is QEMU with a small analysis plugin that records network packets
and block I/O of the guest. Nearly everything in it is driven by an event loop:
device models, block drivers, the monitor and the plugin run in callbacks that
some thread's `aio_poll` or the main loop calls. This project models that core,
its locks, timers, coroutines, worker threads and RCU, and the plugin, checks the models
with TLC, and proves with TLAPS every safety invariant, action property and refinement
that the runs check.

## 1. Inventory

| component | state | operations | interacts with |
|---|---|---|---|
| **Thread pool** (`thread-pool.c`) | `request_list`, four thread counters, `stopping`, counting semaphore, two bottom halves, list `head` of requests | submit, cancel, worker loop, completion bottom half, creation of threads, `thread_pool_free` | block drivers submit; completion runs as a bottom half of an AioContext; workers are detached threads |
| **RFifoLock** (`util/rfifolock.c`) | `head`, `tail`, `owner_thread`, `nesting` | lock, unlock, contention callback | the lock of every AioContext |
| **AioContext** (`async.c`, `aio-posix.c`, `util/event_notifier-posix.c`) | list of bottom halves, `walking_bh`, `dispatching`, event notifier, handlers | create, schedule, schedule idle, cancel, delete a bottom half; `aio_notify`; `aio_poll` (also nested) | called from every thread |
| **IOThread** (`iothread.c`) | `stopping`, the thread's loop | `iothread_run`, finalize | polls its AioContext with the RFifoLock held; a waiter's contention callback interrupts the poll |
| **Main loop** (`main-loop.c`, `cpus.c`) | big QEMU lock (BQL), spin counter, glib source | `main_loop_wait`, BQL hand-over | polls the main AioContext through glib, without the BQL while it blocks; vCPU threads take the BQL meanwhile |
| **temu plugin** (`plugin.c`, `plugins/main.c`, hooks in `hw/net/e1000.c`, `dma-helpers.c`, `monitor.c`, `vl.c`) | `plugin` pointer, filters, `PDU_bytes`, toggles, list of files, capture file | load, `plugin_set`, `plugin_reset`, `plugin_toggle`, packet and block I/O hooks | monitor commands configure it, devices call it |
| **Handlers of a context** (`aio-posix.c`) | list of handlers, `walking_handlers`, `deleted` and `revents` of each | `aio_set_fd_handler`, the walk of `aio_dispatch` (also nested) | handlers add and remove handlers and poll again |
| **Timers** (`qemu-timer.c`) | sorted list, `timers_done_ev`, `enabled` of the clock | arm, anticipate, delete, run the list, enable and disable the clock | the deadline bounds `aio_poll`, arming interrupts it |
| **RCU** (`util/rcu.c`, `include/qemu/rcu.h`, QemuEvent in `util/qemu-thread-posix.c`) | registry, grace period counter, a counter per reader, queue of callbacks and its count, two events | read lock and unlock, registration, `synchronize_rcu`, `call_rcu1`, the call_rcu thread | memory map, device deletion |
| **Coroutines** (`qemu-coroutine*.c`) | `caller` and wake-up list of each coroutine, CoQueue, CoMutex, CoRwlock | create, enter, yield, queue and lock operations | the block layer; entered from the event loop and from each other |
| Network queue (`net/queue.c`), DMA helpers, block jobs, migration | lists and small state machines | | called from the event loop |
| Monitor, block layer and image formats, CPU emulation, device models | | | users of the above |

What is hard here: threads that schedule work while another one decides to sleep
(`aio_notify` against `aio_poll`); callbacks that poll again, so that a list is
walked by several stack frames; threads created and destroyed on demand while
requests come, are cancelled and complete; a lock that must be taken from a thread
that sleeps with it held; a main loop that gives its lock away while it sleeps;
a grace period that ends when the last of several readers leaves, told by flags
and an event without a lock; woken coroutines that run inside calls made for
other ones; a clock that is stopped while its timers run.
`PROJECT.json` lists these hazards at the line where they bite. The repository
has Promela models of one of them (`docs/aio_notify.promela`,
`docs/aio_notify_bug.promela`): one notifier and one poller, without nesting,
without deletion and without a second poller.

Correctness, per component: a pool loses no request, no token and no completion
and is freed only without workers; the lock is exclusive, FIFO and never stuck;
a context runs every scheduled bottom half and touches no freed one; an IOThread
stops when told to and yields its context; the main loop does not sleep through
work and does not starve vCPUs; a removed handler is not called and its node is
freed, later; a runner does not sleep past a timer and a stopped clock is quiet;
RCU callbacks run, and only after the readers that were there before; coroutine
locks exclude, are handed over and lose no waiter; the plugin writes readable captures and reports
the files asked for, and no other ones.

## 2. Modules

| module | what it is |
|---|---|
| `AsyncWork` | abstract specification of what a pool promises about each request |
| `ThreadPool` | the thread pool, with its refinement of `AsyncWork` |
| `ThreadPoolProofs` | its inductive invariant, theorems and the proof of the refinement |
| `FifoMutex` | abstract recursive FIFO lock |
| `RFifoLock` | the ticket lock, with its refinement of `FifoMutex` |
| `RFifoLockProofs` | its inductive invariant, theorems and the proof of the refinement |
| `AioContext` | bottom halves, notifier and `aio_poll`: actions of a thread, without a `Next` of its own |
| `IoThread` | extends `AioContext`: the thread of an IOThread, clients that acquire the context, threads that only schedule |
| `IoThreadProofs` | inductive invariant and theorems of `AioContext` and `IoThread`; the context's lock refines `FifoMutex` |
| `MainLoop` | extends `AioContext`: main thread, vCPUs, BQL |
| `AioHandlers` | the list of handlers and the walks of `aio_dispatch` |
| `AioHandlersProofs` | its inductive invariant and theorems |
| `Timers` | a timer list, its clock, and the thread that runs it |
| `TimersProofs` | its inductive invariant and theorems |
| `Rcu` | readers, `call_rcu1` and the call_rcu thread, with QemuEvent |
| `RcuProofs` | its inductive invariant and theorems |
| `CoLock` | coroutines, CoQueue, CoMutex, CoRwlock |
| `CoLockProofs` | its inductive invariant and theorems |
| `TemuPlugin` | plugin, loader and hooks |
| `BigLockProofs` | inductive invariants and theorems of what runs under the BQL: `MainLoop` and `TemuPlugin` |
| `MCIoThread`, `MCTemuPlugin` | symmetry sets and constants for TLC; the other configurations use their module directly |

Definitions named `MUTANT` in their comment are deliberately wrong versions of the
definition that follows; they document which mistake a property would catch and
are not used by any specification.

### ThreadPool

Variables carry the names of the fields of `ThreadPool`. A critical section of
`pool->lock` is one action. The semaphore, the unlocked write of `THREAD_DONE`
and every step of `thread_pool_completion_bh` are actions of their own, so a
worker may be between its wakeup and the lock (`pc = "got"` or `"timedout"`),
and a submission may be between `QTAILQ_INSERT_TAIL` and `qemu_sem_post`
(`unposted = 1`). The home thread's stack of completion callbacks is `cbs`: a
callback may poll until another request completes (`CallbackWait`), which puts
the home thread back in its event loop and lets the bottom half run nested.
`aio_poll` itself is abstract here: `completion_bh` and `new_thread_bh` are the
`scheduled` flags of the two bottom halves. `ret` is left out, and with it the
memory barriers that order it against `state`; memory is sequentially consistent.

`AsyncWork` is the pool as its users see it: a request is queued, started in the order
of submission, finished or cancelled before it was started, its callback runs, and its
memory is reused. Workers, tokens, bottom halves and nesting are gone. The mapping
(`Life`) takes `state` for where a request is, except that a finished request which is
no longer in the list `head` is in its callback.

### RFifoLock

One action per way through `rfifolock_lock` (nested, free, contended), per return
from `qemu_cond_wait` (our turn, too early, spurious) and per way through
`rfifolock_unlock`. Tickets wrap at `Wrap`. `ticket`, `pc`, `held` are per thread;
`kicked` records the contention callback. `FifoMutex` has a holder, a depth and
a queue of waiting threads; the mapping lists the waiting threads by their
distance from `head`.

### AioContext, IoThread

A thread has a stack of `aio_poll` frames (`was_dispatching`, timeout, position
in the list of bottom halves, progress) and possibly a call in progress
(`call`): `qemu_bh_schedule` is four steps (clear `idle`, `atomic_xchg`, read
`dispatching`, write the notifier), because the poller may do anything between
them. The walk of `aio_bh_poll` is one action per element plus one to call and
one to return from a callback; a callback may create, delete, cancel and
schedule bottom halves and poll again. The last walk to end takes out what was
deleted (`Undeleted`, the loop of `async.c:95-103`). All descriptors other than the notifier
are one (`io`), whose handler may do what a bottom half may; `AioHandlers` has
their list, `Timers` the timers.

`IoThread` adds the loops of `iothread_run` statement by statement and the
context's lock as a queue of threads (which is shown to implement the same
`FifoMutex` as the tickets of `RFifoLock`), keeping the contention callback because it is what wakes a
poller that holds the lock.

### MainLoop

`os_host_main_loop_wait` with glib's prepare / query / poll / check / dispatch
for the one source that matters, the main context's. `Fill` is prepare, query
and the release of the BQL; `glib_pollfds_poll` is check and the start of
dispatch. glib itself is external: only the contract the code relies on is used
(a source is dispatched if prepare or check returned true). `deadline` stands for
all other timers. vCPUs take the BQL and call the bottom half API and, if they
are in `Pollers`, `aio_poll` (synchronous block I/O from a device model).

### AioHandlers

One thread, the one that has acquired the context. `stack` is the nest of
`aio_dispatch` calls; each visit of a node is four steps (top of the loop, read
handler, write handler, bottom of the loop), and the caller's code, a bottom half
or a handler may call `aio_set_fd_handler` and `aio_poll`. The kernel reports any
of the events asked for, or none, in which case old `revents` stay. Freed memory
may be allocated again for another handler. `registered` is a history variable.

### Timers

One list, polled by `Runner`; `Modders` and the callbacks arm, anticipate and
delete timers, `Clocker` enables and disables the clock under the big lock.
`aio_notify` is two steps as in `AioContext`, the deadline is computed between
clearing `dispatching` and blocking, and the test of `enabled` in
`timerlist_run_timers` is a step after the reset of `timers_done_ev`. Time is a
counter that stops at `MaxTime`; whether the runner takes the big lock
(`RunnerNeedsBql`: the main loop does, an IOThread does not) is a parameter. The module
has one list; in the program every clock has one list in the main loop and one per
AioContext, and `qemu_clock_enable` waits for each of them in turn.

### Rcu

One access to shared memory per step: a reader between its read of `rcu_gp_ctr`
and the `atomic_xchg` that publishes it, between leaving and looking at `waiting`,
a `qemu_event_set` between its exchange and the futex wakeup, a `call_rcu1` between
the exchange on the tail, the link from its predecessor and the count are all
states. The grace period counter is read through an `unsigned` (`UintMod`). `pre[m]`
is history: the threads that have been in the same critical section since `m`
was handed over; a reader whose `atomic_xchg` is still to come is not in a section.
The big lock around callbacks is left out, since nobody the call_rcu thread waits
for needs it.

### CoLock

One thread. `stack` is the nest of `qemu_coroutine_enter` calls, with what the
switch returned; a call whose coroutine yielded or ended enters the coroutines
its own one has woken (`qemu_co_queue_run_restart`) before it returns. A coroutine
in the loop of a lock operation looks at the lock again whenever it is entered.
`coroutine_delete` puts the memory into a pool, where a call that still has the
coroutine may read it, or frees it (`freed`, if `PoolFull`). A call at the top of the
stack whose coroutine was freed has no further step: what the program does after it has
read freed memory is not modelled. A
coroutine that yields for I/O may be entered by the event loop only, which is the
callers' obligation.

### TemuPlugin

Everything runs under the BQL, so each call is one action. `Caplen` keeps the
comparison of `size_t` with `int`. A lookup (`set_target_file_name`) asks one program and,
if `atoi` makes -1000 of what it printed, a second one. What they print is external: a
number of any size, or nothing, after which `atoi` finds any int in the buffer
(`Leftovers`). The answer goes through `int`, `uint64_t` and `int` (`ToInt`, `ToU64`) and is
converted to `uint64_t` once more for the comparison in `get_blockio`; a failed `popen` ends
the program (`LookupExits`). The head node of the file list is allocated
but not initialised before the first lookup that gives anything but 0; reading it before
(`WalkUninitialised`) is a nondeterministic choice. `answered`, `silent` and `last` are
history variables: what the lookups printed for each file, the files with a lookup that
printed nothing, and the reports of the last block I/O. File names are those a node has
room for. Text output and the two toggles the code never reads are
left out.

## 3. Runs

| run | instance | shows |
|---|---|---|
| `thread_pool` | 2 requests, 2 workers, fair | token, counter (with `TypeOK`) and ownership invariants; refinement of `AsyncWork`; requests are served, completions delivered, `thread_pool_free` returns |
| `rfifolock` | 3 threads, 4 tickets, nesting 2, fair | invariants, refinement of `FifoMutex`, no starvation |
| `aio_nested` | IOThread + 1 scheduler, 2 bottom halves, `aio_poll` nested twice | no dangling pointer, no lost wakeup |
| `iothread` | IOThread, 2 clients, 1 scheduler | `IoThreadSafe`: one poller; kicks and stop requests are not lost |
| `iothread_live` | IOThread, 1 client, 1 scheduler, fair | the thread stops, runs bottom halves and grants its context |
| `main_loop` | main, 1 vCPU that polls, 1 scheduler, depth 2, fair | `MainLoopSafe`: BQL discipline, no dangling pointer; the BQL is given away; bottom halves run unless the vCPU polls |
| `main_loop_sync_poll` | as before, depth 1, without the escape | **violated**: the finding of section 4 |
| `aio_handlers` | 2 descriptors, 3 nodes, walks nested twice, fair | `HandlersSafe`: no dangling pointer, one node per descriptor; removed handlers are not called; deleted nodes are freed |
| `timers` | 2 timers, 1 thread that uses them, times 0 to 2, fair | `TimersSafe`: sorted list, no oversleeping; a stopped clock is quiet, due timers run, the wait for a list that needs no big lock ends |
| `rcu` | main and a registered reader, callers main and a callback, 2 objects, fair | `RcuSafe`: no abort, no lost wakeup; callbacks run, after the readers that were there |
| `coroutine_locks` | 3 coroutines, fair | `CoroutinesSafe`: one list per coroutine, no recursive entry; locks exclude and are handed over; who is woken runs |
| `temu_plugin` | 1 filter, 2 files, ints of 12 and 16 bits, sizes around `PDU_bytes`, negative ones included | captures well formed; reports exact for lookups that print what an int holds, whatever the others give |

### Bounds and why they are enough

* `ThreadPool`: two requests over two workers give a full pool, a backlog of
  threads to create, a walk that stands at one request while the other completes,
  and a nested walk. Request slots are reused, so behaviours are unbounded in
  length. What depends on counting is proved for any number (section 5).
* `Wrap = 4` is the smallest number of tickets above three threads, so every run
  wraps around; `MaxNesting = 2` has both an outer and a nested unlock.
* `MaxDepth` bounds nested `aio_poll` calls: 2 is one outer and one nested walk,
  which is what `walking_bh` and `was_dispatching` distinguish. With two bottom
  halves a nested walk can delete the outer walk's current and next element.
* `ClientModes` says whether clients poll with or without blocking. In the
  liveness run they do not block: a client that blocks in `aio_poll` waits for an
  event of its own that need not come.
* `MaxSpin = 1` instead of 1000: the counter reaches its limit, and one step past it.
* `Pollers`, `IdleCallers` select what device models do. In `main_loop` the vCPU may poll,
  and `BhExecutedUnlessPolled` says nothing of behaviours in which it does so even once;
  `IdleCallers` is empty in both runs, so that no vCPU schedules an idle bottom half there,
  for the reason section 4 gives.
* `AioHandlers`: with three nodes for two descriptors a deleted node, a new node of the
  same descriptor and one of another are in the list together; depth 2 has an
  outer walk between nodes, at a node and in a handler while the inner one runs.
* `Timers`: two timers have an order, `MaxMods = 3` calls rearm both and move one;
  after the last tick everything armed is due. `MaxDepth = 1`: callbacks do not poll, and
  `RunnerNeedsBql = FALSE`: the list is one of an IOThread, both for the reasons section 4
  gives.
* `Rcu`: two objects make the queue grow, wrap around its dummy node and be counted
  in one or in two grace periods; `RCU_CALL_MIN_SIZE = 2` and `MaxTries = 1` (30 and 5)
  keep both ways out of the loop that waits for more; `UintMod = 64` is above every
  value the counter takes. The reader may enter and leave for ever.
* `CoLock`: three coroutines are a holder, one that was woken and one that takes the
  lock in between. `MaxStack` stops coroutines from entering others beyond the
  bound; what was woken is still run beyond it. `PoolFull = FALSE`: three coroutines do not
  fill pools that take 128 and 64; section 4 has the other case.
* `MaxRecords`, `MaxFiles` cap the capture file and the list. Records do not depend
  on each other; three nodes exercise the head and two insertions behind it, with
  failed lookups before and in between. `IntLimit = 2^11` and `U64Mod = 2^16` stand for 2^31
  and 2^64; the programs print 7, 7 + 2^12, which becomes the same int, -1000 or nothing,
  the buffer then holds 0 or -1, and the guest accesses 0, 7, 7 + 2^12 and 2^16 - 1, which is
  what -1 becomes.

### Fairness

Every thread that can take a step eventually does (weak fairness per thread: the
host schedules all threads). A function given to the pool returns, and so does
every callback, whatever it does before (strong fairness of the return, since
other choices are enabled in between). `aio_bh_poll` calls every bottom half that
is scheduled, so in `ThreadPool` both bottom halves are strongly fair. Holders
of a lock release it. In `MainLoop`, `Relock` is strongly fair, as a mutex that is
released again and again is granted in the end. In `Rcu` critical sections end
(strong fairness of the outermost unlock, which entering a nested one disables
in between), in `CoLock` the running coroutine yields or ends, in `Timers` time
passes, in `AioHandlers` the thread polls again. Signals that end a futex wait need
not come. No fairness is assumed for
descriptors becoming ready, new requests, cancellation or scheduling.

Four liveness properties have an escape that is part of the code's design:
`QueuedServed` and `CompletionDelivered` allow an endless stream of completion
callbacks (`goto restart` keeps the home thread in the walk, where it creates
no threads), `ContextGranted` an endless stream of callbacks in the IOThread, which
keeps the lock as long as `aio_poll` makes progress, and `BqlYielded` an endless stream
of the main thread's own callbacks that poll. `BhExecutedUnlessPolled` is
`BhExecuted` for the behaviours in which no vCPU ever polls the main context.

## 4. Findings

`main_loop_sync_poll`. `aio_poll` sets `ctx->dispatching` while it dispatches and
`aio_notify` then skips the notifier, on the ground that everything is
re-evaluated before the next blocking poll. In the main context another
thread's poll is blocking already: the main thread sits in `qemu_poll_ns` without
the BQL while a vCPU calls `aio_poll`. A bottom half scheduled by a third thread
after the vCPU's walk passed it is run only when something else wakes the main
loop.

### What the passing runs leave out, and what happens there

In these cases the code does not do what a property or a comment says. Each can
be seen by changing the named constants of a configuration; the passing runs
stay within the conditions under which the properties hold.

* **Idle bottom halves** (`MCMainLoop.cfg`, `MaxDepth = 1`, `Pollers = {}`, `IdleCallers = {v1}`,
  property `IdlePolled`). `qemu_bh_schedule_idle` does not notify, so an idle bottom half
  that a vCPU schedules (`DMA_run` in `hw/dma/i8257.c`) while the main thread blocks is not
  "polled at least every 10ms" (`async.c:163`).
* **No plugin** (`MCTemuPlugin.cfg`, invariant `RunsWithoutPlugin`). The hooks in `e1000.c` and
  `dma-helpers.c` and the monitor commands call through `plugin` without a test, while
  start-up (`vl.c:4331`) treats a missing plugin as legal.
* **Readers that are not registered** (`MCRcu.cfg`, `Registering = {main}`, `CallbackAfterReaders`).
  `rcu.h` asks every thread with critical sections to register; in the program only
  the main thread is registered, by `rcu_init_complete`. Callbacks need not wait for the
  critical sections of other threads.
* **The width of the grace period counter** (`MCRcu.cfg`, `UintMod = 4`, `CallbackInvoked`).
  `rcu_read_lock` keeps `rcu_gp_ctr`, an `unsigned long`, in an `unsigned`. Beyond 2^32 every
  reader looks as if it had entered before the current grace period, and readers that
  overlap or come back keep it open.
* **A timer callback that polls** (`MCTimers.cfg`, `MaxDepth = 2`, `DisabledQuiet`). The inner
  `timerlist_run_timers` sets `timers_done_ev` while the outer one still runs callbacks, so
  `qemu_clock_enable(type, false)` returns too early.
* **A clock that is disabled before its list was ever run** (`MCTimers.cfg`,
  `RunnerNeedsBql = TRUE`, `DisableTerminates`). `timers_done_ev` starts reset, so the caller
  waits although nobody is "executing qemu_run_timers" (`timer.h:200-201`), with the big lock
  held (`timer.h:205`), for a runner that needs it; TLC reports the deadlock. Every clock has
  such a list, that of the main loop. `ListWaitEnds`, which the run checks, excludes the case
  and holds with `RunnerNeedsBql = TRUE`, too, where only the deadlock must be allowed.
* **A coroutine that is freed under a call** (`MCCoLock.cfg`, `PoolFull = TRUE`, `FramesAllocated`).
  A coroutine wakes a second one and waits on a queue; `qemu_coroutine_enter` runs the
  second one in `qemu_co_queue_run_restart`, which wakes the first; a nested call runs that
  to its end and deletes it. The outer call then reads `co_queue_wakeup` of the deleted
  coroutine (`qemu-coroutine-lock.c:57`). In a pool the list is there and empty; once both
  pools are full, or in a build without them, `coroutine_delete` has freed it.
* **A lookup that fails** (`MCTemuPlugin.cfg`, `NoFalseReport`). `get_sectornum` does not look at
  the result of `fgets` (`plugins/main.c:421`, `440`): if the program prints nothing, an
  uninitialised buffer is taken for the sector, and a file may be reported at any sector.
  A sector of 2^31 or more is cut to an `int`: the file is reported at another sector, or,
  if the `int` is negative, at one near 2^64, and never at its own.

## 5. Proofs

Every safety invariant that a run checks is proved for any size of its instance, and so
are the action property of `AioHandlers`, the two refinements that runs check (`FifoMutex`
by the ticket lock, `AsyncWork` by the thread pool) and a third, of `FifoMutex` by the lock
of `IoThread`. Each proof has an inductive invariant (`IndInv`; `PluginInv` for the plugin),
a lemma per action or group of actions, and theorems that take a conjunct out or show
that each step is a step of the abstract specification. TLC finds each inductive invariant
true of the instance of the component's run, too; for `BigLockProofs`, which is about two
specifications, its definitions were checked over `MainLoop` and over `TemuPlugin` alone.

| module | theorems | holds for |
|---|---|---|
| `ThreadPoolProofs` | `TypeOK`, `TokenAccounting`, `NeverDequeueEmpty`, `ThreadAccounting`, `SpawnNotLost`, `FreedQuiescent`, `Ownership`, `ImplementsAsyncWork` | any requests, any finite set of workers with enough names for `MaxThreads > 0` |
| `RFifoLockProofs` | `TypeOK`, `TicketsConsistent`, `MutualExclusion`, `TurnSignalled`, `ContentionReported`, `ImplementsFifoMutex` | any finite set of threads smaller than the number of tickets |
| `IoThreadProofs` | `IoThreadSafe`, `NoDanglingBh`, `NoLostWakeup`, refinement of `FifoMutex` (`ContextIsFifo`) | any clients, workers, bottom halves and depth of nested polls |
| `AioHandlersProofs` | `HandlersSafe`, `RemovedNotCalled` | any descriptors, nodes and depth of nested walks |
| `TimersProofs` | `TimersSafe`; `DisabledQuiet` if `MaxDepth = 1` | any timers and threads that use them, any bounds, with or without the big lock |
| `RcuProofs` | `RcuSafe`; `CallbackAfterReaders` if `Readers \subseteq Registering` | any finite set of threads, any objects, any even `UintMod` |
| `CoLockProofs` | `Exclusion`, `HandedOver`, `CoroutinesSafe` | any coroutines and bound on the stack; if the pools may be full, until freed memory is read (section 4) |
| `BigLockProofs` | `MainLoopSafe`, `NoLostWakeup`; `MainLoopWoken` if `[]VcpusKeepOff` | any vCPUs, workers, bottom halves and depth of nested polls, whoever polls |
| `BigLockProofs` | `PcapWellFormed`, `ReportsExact` | any filters, files, packet sizes and values of `PDU_bytes`; any answers of the lookup programs, any content of unwritten buffers, any width of `int` and a `uint64_t` at least as wide |

The assumptions are the `ASSUME`s of the modules, which say that sets of names are
disjoint and bounds positive, and three hypotheses that a theorem states itself because
the property is false without them (section 4): timer callbacks do not poll, every
thread with read-side sections registers, and no vCPU polls the main context or schedules
an idle bottom half in it. The second is what `rcu.h` asks of callers, not what the
program does; the third is what the finding of section 4 says the program does not keep.

### The inductive invariants

**ThreadPool.** A bound on `idle_threads` needs the fact that it counts threads, a
nonempty list when a worker has a token needs the token count, and `FreedQuiescent` needs
that `cur_threads = 0` means no live thread. `IndInv` is their common strengthening: the
shape of the variables, the three counters as cardinalities of sets of workers, one
token per queued request, what each phase of `thread_pool_free` implies, and the
backlog. The proof rests on `CountUpdate` (what one thread's change of state does to a
count). `Ownership` is inductive relative to it as `Owned`, which says the same with
"x is in the list" instead of sets of elements and adds that the frames of nested
callbacks belong to different requests that are done and no longer listed. The refinement
of `AsyncWork` rests on `Owned`: a request that a worker finishes, or that is cancelled, is
still in `head`, so it becomes `"DONE"` and not `"CALLBACK"`; the request of a callback that
returns is in `head` no more, so it is freed once; and the request a worker takes with
its token is the first of the queue, which is there by the token count.

**RFifoLock.** The invariant places the tickets on the circle: those out are distinct
and lie between `head` and `tail`, there are as many as threads that wait or own, and
the owner has the one at `head`. `TurnSignalled` and `ContentionReported` are inductive
relative to it. For the refinement, `WaitsAt(k)` is the set of threads that wait with
the k-th ticket after `head`; it has one element for every k up to the length of the
queue, so the abstract queue is a well defined sequence. Taking a ticket appends to
it, moving `head` removes its first element, and every other step leaves it alone:
each action is mapped to one action of `FifoMutex` or to a stutter. Fairness is no
part of `FifoMutex`, so the theorem is the whole property that the run checks.

**IoThread and AioContext.** Nine parts. The lock: the queue holds who wants the lock
or has it, the owner first. The stacks: only the owner polls, and all calls but the
innermost are in a callback. The calls: a bottom half on its way to `atomic_xchg` is
linked and not deleted. `dispatching`: it is clear when nobody polls and when a frame
may block, because the outermost frame found it clear; a second thread that polls the
same context breaks this, which is the finding about the main loop. Wakeups: a frame
that blocks without a timeout while something is scheduled has a notice, set or about to be (`Noted`). Stopping and kicks: where the
thread is about to sleep (`Region`), a request to stop and a client whose own kick is
over have left such a notice too, which makes `KickInv` the invariant behind the
contention callback. Walks: `walking_bh` counts the frames in a walk, and the elements
they stand at are linked, since only a walk that is alone unlinks. The removal of
deleted bottom halves is a recursive function (`Undeleted`); `UndeletedIs` shows by
induction over a set of numbers (`UpTo`) that it keeps exactly what is not deleted.
For `ContextIsFifo` the holder is the head of the queue if it owns the lock and the
waiters are the rest: acquiring takes a free lock or joins the queue, a waiter that is
woken in its turn is granted the lock, and kicks and early wakeups stutter.

**MainLoop.** The parts about stacks, calls, `dispatching`, wakeups and walks are those of
`IoThread` with the BQL in place of the queue: a thread that polls has the BQL, so that
the walks of main thread and vCPUs alternate although the main thread blocks without it
(`LoopInv` says where it has it). Two things are new. The main loop's own dispatch
(`aio_ctx_dispatch`) enters the list without touching `dispatching`, so its frame need
not find or leave the flag as `aio_poll` does; `GlibInv` says that this frame is the
outermost one and past poll, and that the first `aio_poll` above it found the flag clear
and so restores it. And the main thread must have no call of the bottom half API in
progress while it is in poll, relocks or checks, because such a call belongs to code that
runs under the BQL. `MainLoopWoken` is about the poll of the main loop, which is outside of
`aio_poll`: while it blocks and something is scheduled, the notifier is set or about to
be. Its inductive form (`MainWakeInv`) needs `dispatching` to be clear and an idle bottom
half not to appear while the main thread blocks; a vCPU that polls breaks the first, one
that calls `qemu_bh_schedule_idle` the second, and TLC shows that either puts the main
loop to sleep. `VcpusKeepOff` excludes exactly these two states of a vCPU.

**AioHandlers.** `walking_handlers` is the number of frames that visit a node
(`Counted`), all frames but the innermost are in a handler and so visit one (`Walks`),
the list has no repetition, and the live node of a descriptor is the one last
registered. So when the count is 0 nobody is at a node, and it may be freed.
`RemovedNotCalled` follows for every step: the node that is called is live.

**Timers.** The list is sorted, without repetition, and has the timers whose
`expire_time` is not -1; `dispatching` is clear from the reading of the deadline until
the runner wakes up; the runner notifies itself from callbacks only. `DisabledQuiet`
needs in addition that the event stays reset while the loop may run a callback, and
that a clock that is being disabled stays so: the runner reads `enabled` after it has
reset the event.

**Rcu.** `RcuSafe` needs the length of the queue (the dummy, what the thread has taken,
what is counted, and what is linked but not counted yet), the two lists of readers,
and a chain for the wakeup: a reader told to report has not left its section, or is
between leaving and `qemu_event_set`, or the event is set; a sleeper whose event is
set has somebody about to wake it. `CallbackAfterReaders` needs that the readers a taken
callback must wait for are on the registry during the grace period, with an older
counter, and that there are none afterwards.

**CoLock.** `ListInv` says which frames of the stack are running and which have
returned, and that a coroutine in the loop of a lock is in that lock's queue or in the
wake-up list of a coroutine that still has a frame, never in both; `LockInv` that
the counters of the locks count finite sets of holders. With both, `HandedOver` is
inductive: unlocking moves a waiter to a wake-up list, and whoever takes the lock in
between hands it over again.

**TemuPlugin.** Every printed number that fits into an `int` and is not 0 is on the list
with its file, and every node comes from a printed number, through the three conversions
(`Stored`), or belongs to a file with a silent lookup (`ListKept`). `Conversions` shows that
they leave alone what fits and is not negative, which is why `ReportsExact` can compare the
guest's sector with what was printed and not with what was stored. Its two exceptions, a
silent lookup and a number that does not fit, are the file's own: no lookup of another
file can add or lose a report.

### Only model-checked

* Liveness, which is out of the prover's reach: `QueuedServed`, `CompletionDelivered`,
  `FreeTerminates`, `NoStarvation`, `StopTerminates`, `BhServed`, `ContextGranted`,
  `BhExecutedUnlessPolled`, `BqlYielded`, `CallbackInvoked`, `WokenRuns`, `DueTimerRuns`,
  `ListWaitEnds`, `DeletedFreed`. What they rest on, that no wakeup, token or turn is
  lost, is proved.
* The finding and the cases of section 4, which TLC refutes.

## 6. Not modelled

* Weak memory: every model is sequentially consistent.
* Windows variants (`aio-win32.c`, the second half of `main-loop.c`).
* The value a request returns, wording of output, tracing.
* RCU on hosts with 32-bit longs (a grace period in two phases) and after `fork`.
* The order and sizes of the pools of coroutines, the stack switching back ends, coroutines across threads.
* Several timer lists of a clock, icount and the virtual clock, scales.
* Network queue, DMA helpers, block jobs, migration, monitor: small state machines
  that run under the big lock; the next candidates, in that order.
* TCG's kick of the BQL (`qemu_mutex_lock_iothread` with `tcg_enabled`), vCPU scheduling.
* CPU emulation, image formats, device models: data, not control, dominates them.

## 7. What is left

1. Modules: `NetQueue` (re-entrancy and purge), `DmaHelpers` (cancellation and the life of
   the scatter list), `BlockJob`, `Migration`.
2. One module of lemmas about lists without repetition (`Inj`, `Has`, `Adds`, `Drops`), which
   three proof modules state for themselves.
