------------------------------ MODULE IoThread ------------------------------
(***************************************************************************)
(* An IOThread (iothread.c), the other threads that acquire its            *)
(* AioContext, and the threads that only schedule bottom halves in it.     *)
(* The context's lock is the FIFO lock of module RFifoLock without its     *)
(* nesting; what matters here is the contention callback, which interrupts *)
(* the poll of the owner.                                                  *)
(***************************************************************************)
EXTENDS AioContext

CONSTANTS Home,          \* the thread that runs iothread_run
          Clients,       \* threads that call aio_context_acquire
          Workers,       \* threads that schedule bottom halves, and end Home
          ClientModes    \* how clients call aio_poll: a subset of BOOLEAN

ASSUME IoThreadAssumption ==
  /\ Threads = {Home} \cup Clients \cup Workers
  /\ Home \notin Clients \cup Workers /\ Clients \cap Workers = {}
  /\ ClientModes \subseteq BOOLEAN

VARIABLES
  stopping,      \* iothread->stopping
  blocking,      \* the local variable of iothread_run
  pc,            \* "out", in rfifolock_lock "kicking" or "waiting", then "in";
                 \* Home has "call" (before aio_poll), "polling", "leave" and
                 \* "exited" too
  queue,         \* whose tickets are out, in order: the first owns the lock
                 \* or is next to own it
  signalled      \* woken from qemu_cond_wait

loopVars == <<stopping, blocking, pc, queue, signalled>>
vars == <<aioVars, loopVars>>

TypeOK ==
  /\ AioTypeOK
  /\ stopping \in BOOLEAN /\ blocking \in BOOLEAN
  /\ pc \in [Threads -> {"out", "kicking", "waiting", "in", "call", "polling",
                         "leave", "exited"}]
  /\ queue \in Seq({Home} \cup Clients)
  /\ signalled \in SUBSET Threads

\* iothread_complete, and the beginning of iothread_run.
Init ==
  /\ AioInit
  /\ stopping = FALSE /\ blocking = TRUE
  /\ pc = [t \in Threads |-> "out"]
  /\ queue = <<>> /\ signalled = {}

-----------------------------------------------------------------------------
(* The lock.  A thread that runs the callback holds the mutex inside.      *)

MutexFree == \A t \in Threads : pc[t] # "kicking"
Owns(t)   == pc[t] \in {"in", "call", "polling"}
Goto(t, p) == pc' = [pc EXCEPT ![t] = p]

\* rfifolock_lock calls aio_rfifolock_cb.
Kick(t) ==
  /\ Goto(t, "kicking")
  /\ call' = [call EXCEPT ![t] = [step |-> "notify", bh |-> NoBH]]

\* aio_context_acquire.
Acquire(t) ==
  /\ MutexFree /\ call[t] = Quiet
  /\ queue' = Append(queue, t)
  /\ IF queue = <<>> THEN Goto(t, "in") /\ UNCHANGED call ELSE Kick(t)
  /\ UNCHANGED <<bhVars, fdVars, dispatching, stack, stopping, blocking, signalled>>

\* The callback returned: qemu_cond_wait.
StartWait(t) ==
  /\ pc[t] = "kicking" /\ call[t] = Quiet
  /\ Goto(t, "waiting")
  /\ signalled' = signalled \ {t}
  /\ UNCHANGED <<aioVars, stopping, blocking, queue>>

\* MUTANT: a thread that is woken too early just waits again.
WakeNoKick(t) ==
  /\ pc[t] = "waiting" /\ t \in signalled /\ MutexFree
  /\ IF Head(queue) = t THEN Goto(t, "in") ELSE UNCHANGED pc
  /\ signalled' = signalled \ {t}
  /\ UNCHANGED <<aioVars, stopping, blocking, queue>>

\* qemu_cond_wait returns: it is our turn, or we kick the new owner.
Wake(t) ==
  /\ pc[t] = "waiting" /\ t \in signalled /\ MutexFree
  /\ IF Head(queue) = t THEN Goto(t, "in") /\ UNCHANGED call ELSE Kick(t)
  /\ signalled' = signalled \ {t}
  /\ UNCHANGED <<bhVars, fdVars, dispatching, stack, stopping, blocking, queue>>

\* aio_context_release.
Release(t) ==
  /\ MutexFree /\ call[t] = Quiet
  /\ Goto(t, "out")
  /\ queue' = Tail(queue)
  /\ signalled' = {u \in Threads : pc[u] = "waiting"}
  /\ UNCHANGED <<aioVars, stopping>>

-----------------------------------------------------------------------------
(* iothread_run.                                                           *)

\* while (!iothread->stopping) aio_context_acquire ...
LoopAcquire == pc[Home] = "out" /\ ~stopping /\ Acquire(Home)

LoopExit ==
  /\ pc[Home] = "out" /\ stopping
  /\ Goto(Home, "exited")
  /\ UNCHANGED <<aioVars, stopping, blocking, queue, signalled>>

\* The first half of the condition of the inner loop.
InnerTest ==
  /\ pc[Home] = "in"
  /\ Goto(Home, IF stopping THEN "leave" ELSE "call")
  /\ UNCHANGED <<aioVars, stopping, blocking, queue, signalled>>

LoopPoll ==
  /\ pc[Home] = "call"
  /\ aio_poll(Home, blocking)
  /\ Goto(Home, "polling")
  /\ UNCHANGED <<stopping, blocking, queue, signalled>>

\* MUTANT: the loop polls again after progress, and blocks.
LoopPollEndBlocks ==
  /\ pc[Home] = "polling" /\ Depth(Home) = 1
  /\ PollEnd(Home)
  /\ Goto(Home, IF Top(Home).progress THEN "in" ELSE "leave")
  /\ UNCHANGED <<stopping, blocking, queue, signalled>>

\* aio_poll returns: once more, without blocking, if it made progress.
LoopPollEnd ==
  /\ pc[Home] = "polling" /\ Depth(Home) = 1
  /\ PollEnd(Home)
  /\ Goto(Home, IF Top(Home).progress THEN "in" ELSE "leave")
  /\ blocking' = (blocking /\ ~Top(Home).progress)
  /\ UNCHANGED <<stopping, queue, signalled>>

\* The context is released; the next round starts with blocking = true.
LoopRelease ==
  /\ pc[Home] = "leave"
  /\ Release(Home)
  /\ blocking' = TRUE

LoopStep == LoopAcquire \/ LoopExit \/ InnerTest \/ LoopPoll \/ LoopPollEnd
            \/ LoopRelease

\* MUTANT: Home is told to stop, and not woken.
FinalizeNoNotify(t) ==
  /\ call[t] = Quiet /\ ~stopping
  /\ stopping' = TRUE
  /\ UNCHANGED <<aioVars, blocking, pc, queue, signalled>>

\* iothread_instance_finalize up to qemu_thread_join.
iothread_instance_finalize(t) ==
  /\ call[t] = Quiet /\ ~stopping
  /\ stopping' = TRUE
  /\ call' = [call EXCEPT ![t] = [step |-> "notify", bh |-> NoBH]]
  /\ UNCHANGED <<bhVars, fdVars, dispatching, stack, blocking, pc, queue, signalled>>

-----------------------------------------------------------------------------
(* The other threads, and what callbacks do.                               *)

ClientAcquire(c) == pc[c] = "out" /\ Acquire(c)
ClientPoll(c) ==
  /\ pc[c] = "in" /\ ~InPoll(c)
  /\ \E b \in ClientModes : aio_poll(c, b)
  /\ UNCHANGED loopVars
ClientPollEnd(c) ==
  /\ pc[c] = "in" /\ Depth(c) = 1
  /\ PollEnd(c)
  /\ UNCHANGED loopVars
ClientCall(c) ==
  /\ pc[c] = "in" /\ ~InPoll(c)
  /\ AnyCall(c) \/ OwnerCall(c)
  /\ UNCHANGED loopVars
ClientRelease(c) ==
  /\ pc[c] = "in" /\ ~InPoll(c)
  /\ Release(c)
  /\ UNCHANGED blocking

WorkerCall(w) == AnyCall(w) /\ UNCHANGED loopVars

CallbackCall(t) ==
  /\ InCallback(t)
  /\ AnyCall(t) \/ OwnerCall(t)
  /\ UNCHANGED loopVars
NestedPoll(t) ==
  /\ InCallback(t)
  /\ \E b \in BOOLEAN : aio_poll(t, b)
  /\ UNCHANGED loopVars
NestedPollEnd(t) ==
  /\ Depth(t) > 1
  /\ PollEnd(t)
  /\ UNCHANGED loopVars

LockStep(t) == StartWait(t) \/ Wake(t)
\* What t does next without a choice of its own.
ThreadStep(t) ==
  \/ (CallStep(t) \/ PollStep(t)) /\ UNCHANGED loopVars
  \/ NestedPollEnd(t)
  \/ LockStep(t)
Callback(t) == CallbackReturns(t) /\ UNCHANGED loopVars

\* Home has exited; the others may go on or not.
Terminated == pc[Home] = "exited" /\ UNCHANGED vars

Next ==
  \/ LoopStep
  \/ \E t \in Threads : ThreadStep(t) \/ Callback(t) \/ CallbackCall(t) \/ NestedPoll(t)
  \/ \E c \in Clients : \/ ClientAcquire(c) \/ ClientRelease(c) \/ ClientCall(c)
                        \/ ClientPoll(c) \/ ClientPollEnd(c)
  \/ \E w \in Workers : WorkerCall(w) \/ iothread_instance_finalize(w)
  \/ IoReady /\ UNCHANGED loopVars
  \/ Terminated

\* Every thread runs; callbacks return and clients release the context in the
\* end, whatever else they do before.  Descriptors need not become ready.
Fairness ==
  /\ WF_vars(LoopStep)
  /\ \A t \in Threads : WF_vars(ThreadStep(t))
  /\ \A t \in {Home} \cup Clients : SF_vars(Callback(t))
  /\ \A c \in Clients : WF_vars(ClientPollEnd(c)) /\ SF_vars(ClientRelease(c))

Spec == Init /\ [][Next]_vars
FairSpec == Spec /\ Fairness

-----------------------------------------------------------------------------
(* Properties.                                                             *)

\* "Multiple occurrences of aio_bh_poll cannot be called concurrently"
\* (async.c:62): a poll other than a nested one needs the lock, and the lock
\* lets one thread in.
OnePoller ==
  /\ \A t, u \in Threads : InPoll(t) /\ InPoll(u) => t = u
  /\ \A t \in Threads : InPoll(t) => pc[t] \in {"in", "polling"} /\ Head(queue) = t

\* "Kick owner thread in case they are blocked in aio_poll()" (async.c:286):
\* Home does not sit in poll while somebody waits for the context and no kick
\* is on its way, although a kick during dispatch is dropped and the owner that
\* was kicked may not be the one that blocks.  (A callback that polls again
\* waits for an event of its own.)
KickNotLost ==
  BlockedForever(Home) /\ Depth(Home) = 1
    => \A t \in Threads : pc[t] = "waiting" => t \in signalled \/ Notifying # {}

\* iothread_instance_finalize (iothread.c:60-61): Home does not sleep through
\* the request to stop, which races with its test of `stopping'.
StopNotLost ==
  BlockedForever(Home) /\ Depth(Home) = 1 /\ stopping => Notifying # {}

\* With any number of threads that acquire the context: what the wakeups and
\* the lock of lines 41-51 of iothread.c guarantee together.
IoThreadSafe == TypeOK /\ OnePoller /\ KickNotLost /\ StopNotLost

\* qemu_thread_join returns: the thread leaves both loops.
StopTerminates == stopping ~> pc[Home] = "exited"

\* A bottom half that was scheduled, from any thread, with or without
\* qemu_bh_schedule_idle, is taken out of the scheduled state: it ran or was
\* cancelled, unless the thread is told to stop.
BhServed == \A b \in BHs : scheduled[b] ~> (~scheduled[b] \/ stopping)

\* Whoever waits for the context gets it, unless callbacks run forever: Home
\* keeps the lock as long as its polls make progress (iothread.c:44-47).
ContextGranted ==
  \A c \in Clients :
    [](pc[c] = "waiting" => <>(pc[c] = "in") \/ []<>InCallback(Home))
=============================================================================
