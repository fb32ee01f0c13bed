------------------------------ MODULE MainLoop ------------------------------
(***************************************************************************)
(* The main loop (main-loop.c) with the glib source of the main AioContext *)
(* (async.c), the big QEMU lock, and virtual CPUs that run device models   *)
(* under that lock.  Unlike an IOThread, the main thread releases the lock *)
(* while it blocks in poll.  Timers and the descriptors of                 *)
(* qemu_set_fd_handler appear only as a deadline that may have come and as *)
(* calls that the main thread makes between two iterations.                *)
(***************************************************************************)
EXTENDS AioContext

CONSTANTS Main, VCpus,
          Workers,     \* threads that never take the lock
          Nobody,      \* the lock is free
          MaxSpin,     \* MAX_MAIN_LOOP_SPIN
          Pollers,     \* threads whose device models call aio_poll
          IdleCallers  \* virtual CPUs whose device models call
                       \* qemu_bh_schedule_idle

ASSUME MainLoopAssumption ==
  /\ Threads = {Main} \cup VCpus \cup Workers
  /\ Main \notin VCpus \cup Workers /\ VCpus \cap Workers = {}
  /\ Nobody \notin Threads
  /\ MaxSpin \in Nat
  /\ Pollers \subseteq {Main} \cup VCpus /\ IdleCallers \subseteq VCpus

VARIABLES
  bql,            \* owner of qemu_global_mutex
  main,           \* "fill", "poll", "relock", "check" or "dispatch"
  timeout,        \* of qemu_poll_ns
  ready,          \* aio_ctx_prepare returned true
  polled,         \* what poll found
  spin_counter

loopVars == <<bql, main, timeout, ready, polled, spin_counter>>
vars == <<aioVars, loopVars>>

TypeOK ==
  /\ AioTypeOK
  /\ bql \in Threads \cup {Nobody}
  /\ main \in {"fill", "poll", "relock", "check", "dispatch"}
  /\ timeout \in Timeout
  /\ ready \in BOOLEAN
  /\ polled \in SUBSET Fds
  /\ spin_counter \in 0 .. MaxSpin + 1

Init ==
  /\ AioInit
  /\ bql = Main /\ main = "fill" /\ timeout = "none" /\ ready = FALSE
  /\ polled = {} /\ spin_counter = 0

-----------------------------------------------------------------------------
(* main_loop_wait.                                                         *)

\* qemu_soonest_timeout.
Soonest(a, b) == CASE a = "zero" \/ b = "zero" -> "zero"
                   [] a = "idle" \/ b = "idle" -> "idle"
                   [] OTHER -> "none"

\* The fake timeout of a loop that has spun for too long.
SpinLimit(t) == IF t = "zero" /\ spin_counter > MaxSpin THEN "idle" ELSE t

\* MUTANT: the lock is kept while poll blocks.
FillKeepsLock(deadline) ==
  /\ main = "fill" /\ call[Main] = Quiet /\ ~InPoll(Main)
  /\ ready' = (aio_compute_timeout = "zero")
  /\ timeout' = SpinLimit(Soonest(aio_compute_timeout, deadline))
  /\ spin_counter' = IF timeout' = "zero" THEN spin_counter + 1 ELSE 0
  /\ main' = "poll"
  /\ UNCHANGED <<aioVars, bql, polled>>

\* MUTANT: iterations that do not block are not counted.
FillUncounted(deadline) ==
  /\ main = "fill" /\ call[Main] = Quiet /\ ~InPoll(Main)
  /\ ready' = (aio_compute_timeout = "zero")
  /\ timeout' = SpinLimit(Soonest(aio_compute_timeout, deadline))
  /\ IF timeout' = "zero"
     THEN UNCHANGED <<bql, spin_counter>>
     ELSE bql' = Nobody /\ spin_counter' = 0
  /\ main' = "poll"
  /\ UNCHANGED <<aioVars, polled>>

\* glib_pollfds_fill asks the source for its timeout, and the lock is released
\* unless poll is not going to block.  `deadline' is what the other timers, or
\* a nonblocking call, ask for.
Fill(deadline) ==
  /\ main = "fill" /\ call[Main] = Quiet /\ ~InPoll(Main)
  /\ ready' = (aio_compute_timeout = "zero")
  /\ timeout' = SpinLimit(Soonest(aio_compute_timeout, deadline))
  /\ IF timeout' = "zero"
     THEN UNCHANGED bql /\ spin_counter' = spin_counter + 1
     ELSE bql' = Nobody /\ spin_counter' = 0
  /\ main' = "poll"
  /\ UNCHANGED <<aioVars, polled>>

\* qemu_poll_ns returns.
MainPoll ==
  /\ main = "poll"
  /\ Ready # {} \/ timeout # "none"
  /\ polled' = Ready
  /\ main' = IF timeout = "zero" THEN "check" ELSE "relock"
  /\ UNCHANGED <<aioVars, bql, timeout, ready, spin_counter>>

\* qemu_mutex_lock_iothread.
Relock ==
  /\ main = "relock" /\ bql = Nobody
  /\ bql' = Main
  /\ main' = "check"
  /\ UNCHANGED <<aioVars, timeout, ready, polled, spin_counter>>

\* MUTANT: aio_ctx_check looks at the descriptors only.
CheckNoBh == ready \/ polled # {}

\* The source is dispatched if it said so before poll, or if aio_ctx_check
\* does after it.
aio_ctx_check == ready \/ Scheduled # {} \/ polled # {}

\* g_main_context_check copies the revents and g_main_context_dispatch calls
\* aio_ctx_dispatch, which does not touch ctx->dispatching.
glib_pollfds_poll ==
  /\ main = "check"
  /\ revents' = polled
  /\ polled' = {}
  /\ IF aio_ctx_check
     THEN /\ main' = "dispatch"
          /\ walking_bh' = walking_bh + 1
          /\ stack' = [stack EXCEPT ![Main] =
                         <<[NewFrame(FALSE) EXCEPT !.pc = "bh",
                                                   !.next = FirstOf(first_bh)]>>]
     ELSE main' = "fill" /\ UNCHANGED <<walking_bh, stack>>
  /\ UNCHANGED <<first_bh, scheduled, idle, deleted, notifier, io, dispatching,
                 call, bql, timeout, ready, spin_counter>>

DispatchEnd ==
  /\ main = "dispatch" /\ Depth(Main) = 1
  /\ At(Main, "handlers") /\ revents = {}
  /\ stack' = [stack EXCEPT ![Main] = <<>>]
  /\ main' = "fill"
  /\ UNCHANGED <<bhVars, fdVars, dispatching, call, bql, timeout, ready, polled,
                 spin_counter>>

MainStep == \/ \E deadline \in {"zero", "none"} : Fill(deadline)
            \/ MainPoll \/ Relock \/ glib_pollfds_poll \/ DispatchEnd

\* Between two iterations the main thread runs other handlers and timers.
MainCall ==
  /\ main = "fill" /\ ~InPoll(Main)
  /\ \/ AnyCall(Main) \/ OwnerCall(Main)
     \/ Main \in Pollers /\ aio_poll(Main, TRUE)
  /\ UNCHANGED loopVars

-----------------------------------------------------------------------------
(* The other threads.                                                      *)

VcpuLock(v) ==
  /\ bql = Nobody /\ call[v] = Quiet
  /\ bql' = v
  /\ UNCHANGED <<aioVars, main, timeout, ready, polled, spin_counter>>
VcpuUnlock(v) ==
  /\ bql = v /\ ~InPoll(v) /\ call[v] = Quiet
  /\ bql' = Nobody
  /\ UNCHANGED <<aioVars, main, timeout, ready, polled, spin_counter>>
VcpuCall(v) ==
  /\ bql = v /\ ~InPoll(v)
  /\ \/ AnyCall(v)
     \/ \E b \in BHs : \/ qemu_bh_cancel(v, b) \/ qemu_bh_delete(v, b)
                       \/ v \in IdleCallers /\ qemu_bh_schedule_idle(v, b)
     \/ v \in Pollers /\ aio_poll(v, TRUE)
  /\ UNCHANGED loopVars

WorkerCall(w) == AnyCall(w) /\ UNCHANGED loopVars

CallbackCall(t) ==
  /\ InCallback(t)
  /\ AnyCall(t) \/ OwnerCall(t) \/ \E b \in BOOLEAN : aio_poll(t, b)
  /\ UNCHANGED loopVars

\* aio_poll returns to whoever called it.
AioPollEnd(t) ==
  /\ Depth(t) > 1 \/ t # Main \/ main = "fill"
  /\ PollEnd(t)
  /\ UNCHANGED loopVars

ThreadStep(t) ==
  \/ (CallStep(t) \/ PollStep(t)) /\ UNCHANGED loopVars
  \/ AioPollEnd(t)
Callback(t) == CallbackReturns(t) /\ UNCHANGED loopVars

Next ==
  \/ MainStep \/ MainCall
  \/ \E t \in Threads : ThreadStep(t) \/ Callback(t) \/ CallbackCall(t)
  \/ \E v \in VCpus : VcpuLock(v) \/ VcpuUnlock(v) \/ VcpuCall(v)
  \/ \E w \in Workers : WorkerCall(w)
  \/ IoReady /\ UNCHANGED loopVars

\* Every thread runs, callbacks return, and the main thread and the virtual
\* CPUs get on with their loops, whatever they do before.  The lock is
\* granted in the end.
Fairness ==
  /\ WF_vars(MainStep) /\ SF_vars(Relock) /\ SF_vars(\E d \in {"zero", "none"} : Fill(d))
  /\ \A t \in Threads : WF_vars(ThreadStep(t))
  /\ \A t \in {Main} \cup VCpus : SF_vars(Callback(t))
  /\ \A v \in VCpus : SF_vars(VcpuUnlock(v))

Spec == Init /\ [][Next]_vars
FairSpec == Spec /\ Fairness

-----------------------------------------------------------------------------
(* Properties.                                                             *)

\* The BQL takes the place of the context's lock: only its owner is inside
\* aio_poll or aio_dispatch, and the main thread does not hold it while it
\* blocks in poll (main-loop.c:232-243).
BqlProtects ==
  /\ \A t \in Threads : InPoll(t) => bql = t
  /\ main \in {"fill", "check", "dispatch"} => bql = Main
  /\ main = "poll" /\ bql = Main => timeout = "zero"

\* Main thread and virtual CPUs walk the list of bottom halves in turns, and no
\* walk holds a pointer to memory that another one freed.
MainLoopSafe == TypeOK /\ NoDanglingBh /\ BqlProtects

\* "Scheduling a bottom half interrupts the main loop and causes the execution
\* of the callback" (include/block/aio.h:173): it runs, or it is cancelled.
BhExecuted == \A b \in BHs : scheduled[b] ~> ~scheduled[b]

\* The same as long as no virtual CPU polls the main context, which would set
\* ctx->dispatching behind the back of the main thread's own poll: calls of
\* aio_poll by the main thread, nested ones too, lose no bottom half.
BhExecutedUnlessPolled == [](\A v \in VCpus : ~InPoll(v)) => BhExecuted

\* "idle bottom halves will be polled at least every 10ms" (async.c:163): they
\* do not wait for an event that may never come.
IdlePolled ==
  \A b \in BHs : (scheduled[b] /\ idle[b]) ~> ~(scheduled[b] /\ idle[b])

\* The comment at main-loop.c:213-218: a main loop that finds something to do
\* all the time still gives the virtual CPUs a chance to run, unless it calls
\* aio_poll itself, which keeps the lock.
BqlYielded ==
  []<>(bql # Main \/ (InPoll(Main) /\ (main = "fill" \/ Depth(Main) > 1)))
=============================================================================
