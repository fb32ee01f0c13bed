----------------------------- MODULE AioContext -----------------------------
(***************************************************************************)
(* The event loop core of async.c and aio-posix.c: bottom halves, the      *)
(* event notifier that interrupts a blocking poll, and aio_poll, which may *)
(* be called again from the callbacks it calls.  The module defines what   *)
(* each thread does; IoThread and MainLoop say which threads there are and *)
(* which lock serialises them.                                             *)
(*                                                                         *)
(* Memory is sequentially consistent, one access to shared memory per      *)
(* step, except that a walk over the list that only reads is one step and  *)
(* so is a critical section of bh_lock.  All other file descriptors and    *)
(* their handlers are one, "io"; timers are left out.                      *)
(***************************************************************************)
EXTENDS Integers, Sequences, FiniteSets, SequencesExt

CONSTANTS Threads,
          BHs,         \* memory for QEMUBHs
          NoBH,        \* NULL
          MaxDepth     \* bound on aio_poll calls on the stack of a thread

ASSUME AioAssumption ==
  NoBH \notin BHs /\ MaxDepth \in Nat \ {0}

VARIABLES
  \* AioContext.
  first_bh,        \* the list of bottom halves
  walking_bh, dispatching,
  notifier,        \* the eventfd of the context is readable
  revents,         \* handlers whose pfd.revents is set: "io", "notifier"
  \* QEMUBH.
  scheduled, idle, deleted,
  \* The world.
  io,              \* some other descriptor is ready
  \* The threads.
  stack,           \* aio_poll calls, innermost last
  call             \* what is left of a call that is not one step

bhVars  == <<first_bh, walking_bh, scheduled, idle, deleted>>
fdVars  == <<notifier, revents, io>>
aioVars == <<bhVars, fdVars, dispatching, stack, call>>

Fds     == {"io", "notifier"}
Timeout == {"zero",    \* poll does not block
            "idle",    \* ten milliseconds
            "none"}    \* until a descriptor is ready
FramePc == {"compute",   \* before aio_compute_timeout
            "poll",      \* in qemu_poll_ns
            "dispatch",  \* before aio_dispatch
            "bh",        \* in the loop of aio_bh_poll
            "claimed",   \* after its atomic_xchg
            "cb",        \* in the callback of a bottom half
            "handlers",  \* walking the handlers
            "iocb"}      \* in the callback of a descriptor
Frame   == [pc : FramePc, was : BOOLEAN, timeout : Timeout,
            bh : BHs \cup {NoBH}, next : BHs \cup {NoBH}, progress : BOOLEAN]
Quiet   == [step |-> "none", bh |-> NoBH]
Call    == [step : {"none",
                    "xchg",     \* qemu_bh_schedule, before atomic_xchg
                    "mb_set",   \* qemu_bh_schedule_idle, before atomic_mb_set
                    "notify",   \* aio_notify, before reading dispatching
                    "set"},     \* aio_notify, before event_notifier_set
            bh : BHs \cup {NoBH}]

AioTypeOK ==
  /\ first_bh \in Seq(BHs)
  /\ walking_bh \in Nat
  /\ dispatching \in BOOLEAN
  /\ notifier \in BOOLEAN /\ io \in BOOLEAN
  /\ revents \in SUBSET Fds
  /\ scheduled \in [BHs -> BOOLEAN]
  /\ idle \in [BHs -> BOOLEAN]
  /\ deleted \in [BHs -> BOOLEAN]
  /\ stack \in [Threads -> Seq(Frame)]
  /\ call \in [Threads -> Call]

\* aio_context_new.  The aio_notify of its aio_set_event_notifier makes the
\* first poll return.
AioInit ==
  /\ first_bh = <<>> /\ walking_bh = 0
  /\ dispatching = FALSE
  /\ notifier = TRUE /\ revents = {} /\ io = FALSE
  /\ scheduled = [b \in BHs |-> FALSE]
  /\ idle = [b \in BHs |-> FALSE]
  /\ deleted = [b \in BHs |-> FALSE]
  /\ stack = [t \in Threads |-> <<>>]
  /\ call = [t \in Threads |-> Quiet]

-----------------------------------------------------------------------------
(* Bottom halves.  A thread t that is not in the middle of a call makes    *)
(* one.                                                                    *)

Linked == ToSet(first_bh)
\* What a caller may name: a bottom half that it did not delete yet.
Live   == {b \in Linked : ~deleted[b]}

aio_bh_new(t, b) ==
  /\ call[t] = Quiet
  /\ b \notin Linked
  /\ first_bh' = <<b>> \o first_bh
  /\ scheduled' = [scheduled EXCEPT ![b] = FALSE]
  /\ idle' = [idle EXCEPT ![b] = FALSE]
  /\ deleted' = [deleted EXCEPT ![b] = FALSE]
  /\ UNCHANGED <<walking_bh, fdVars, dispatching, stack, call>>

\* qemu_bh_schedule, up to its atomic_xchg.
qemu_bh_schedule(t, b) ==
  /\ call[t] = Quiet
  /\ b \in Live
  /\ idle' = [idle EXCEPT ![b] = FALSE]
  /\ call' = [call EXCEPT ![t] = [step |-> "xchg", bh |-> b]]
  /\ UNCHANGED <<first_bh, walking_bh, scheduled, deleted, fdVars, dispatching,
                 stack>>

\* MUTANT: nobody is notified.
XchgNoNotify(t) ==
  /\ call[t].step = "xchg"
  /\ scheduled' = [scheduled EXCEPT ![call[t].bh] = TRUE]
  /\ call' = [call EXCEPT ![t] = Quiet]
  /\ UNCHANGED <<first_bh, walking_bh, idle, deleted, fdVars, dispatching, stack>>

\* atomic_xchg: whoever schedules the bottom half first has to notify.
ScheduleXchg(t) ==
  /\ call[t].step = "xchg"
  /\ scheduled' = [scheduled EXCEPT ![call[t].bh] = TRUE]
  /\ call' = [call EXCEPT ![t] = IF scheduled[call[t].bh] THEN Quiet
                                 ELSE [step |-> "notify", bh |-> NoBH]]
  /\ UNCHANGED <<first_bh, walking_bh, idle, deleted, fdVars, dispatching, stack>>

\* aio_notify reads ctx->dispatching ...
NotifyRead(t) ==
  /\ call[t].step = "notify"
  /\ call' = [call EXCEPT ![t] = IF dispatching THEN Quiet
                                 ELSE [step |-> "set", bh |-> NoBH]]
  /\ UNCHANGED <<bhVars, fdVars, dispatching, stack>>

\* ... and calls event_notifier_set.
NotifySet(t) ==
  /\ call[t].step = "set"
  /\ notifier' = TRUE
  /\ call' = [call EXCEPT ![t] = Quiet]
  /\ UNCHANGED <<bhVars, revents, io, dispatching, stack>>

\* qemu_bh_schedule_idle, up to its atomic_mb_set ...
qemu_bh_schedule_idle(t, b) ==
  /\ call[t] = Quiet
  /\ b \in Live
  /\ idle' = [idle EXCEPT ![b] = TRUE]
  /\ call' = [call EXCEPT ![t] = [step |-> "mb_set", bh |-> b]]
  /\ UNCHANGED <<first_bh, walking_bh, scheduled, deleted, fdVars, dispatching,
                 stack>>

\* ... which ends it: there is no aio_notify.
ScheduleIdleSet(t) ==
  /\ call[t].step = "mb_set"
  /\ scheduled' = [scheduled EXCEPT ![call[t].bh] = TRUE]
  /\ call' = [call EXCEPT ![t] = Quiet]
  /\ UNCHANGED <<first_bh, walking_bh, idle, deleted, fdVars, dispatching, stack>>

qemu_bh_cancel(t, b) ==
  /\ call[t] = Quiet
  /\ b \in Live
  /\ scheduled' = [scheduled EXCEPT ![b] = FALSE]
  /\ UNCHANGED <<first_bh, walking_bh, idle, deleted, fdVars, dispatching, stack,
                 call>>

\* qemu_bh_delete.  Its caller makes sure that nobody is about to touch the
\* bottom half; a thread that only has its aio_notify before it does not.
qemu_bh_delete(t, b) ==
  /\ call[t] = Quiet
  /\ b \in Live
  /\ \A u \in Threads : call[u].bh # b
  /\ scheduled' = [scheduled EXCEPT ![b] = FALSE]
  /\ deleted' = [deleted EXCEPT ![b] = TRUE]
  /\ UNCHANGED <<first_bh, walking_bh, idle, fdVars, dispatching, stack, call>>

\* What is left of t's call runs.
CallStep(t) ==
  ScheduleXchg(t) \/ NotifyRead(t) \/ NotifySet(t) \/ ScheduleIdleSet(t)

-----------------------------------------------------------------------------
(* aio_poll.                                                               *)

Depth(t)   == Len(stack[t])
Top(t)     == stack[t][Depth(t)]
InPoll(t)  == stack[t] # <<>>
At(t, p)   == InPoll(t) /\ Top(t).pc = p /\ call[t] = Quiet
\* The innermost aio_poll of t goes on as frame f.
Becomes(t, f) == stack' = [stack EXCEPT ![t][Depth(t)] = f]
\* Code that an aio_poll of t called is running.
InCallback(t) == At(t, "cb") \/ At(t, "iocb")

NewFrame(blocking) ==
  [pc |-> "compute", was |-> dispatching,
   timeout |-> IF blocking THEN "none" ELSE "zero", bh |-> NoBH, next |-> NoBH, progress |-> FALSE]

\* MUTANT: a nested call does not clear `dispatching'.
PollKeepsDispatching(t, blocking) ==
  /\ call[t] = Quiet
  /\ Depth(t) < MaxDepth
  /\ stack' = [stack EXCEPT ![t] = Append(@, NewFrame(blocking))]
  /\ dispatching' = (dispatching \/ ~blocking)
  /\ UNCHANGED <<bhVars, fdVars, call>>

\* aio_poll up to the end of the loop that fills pollfds.
aio_poll(t, blocking) ==
  /\ call[t] = Quiet
  /\ Depth(t) < MaxDepth
  /\ stack' = [stack EXCEPT ![t] = Append(@, NewFrame(blocking))]
  /\ dispatching' = ~blocking
  /\ UNCHANGED <<bhVars, fdVars, call>>

Scheduled == {b \in Live : scheduled[b]}

aio_compute_timeout ==
  IF \E b \in Scheduled : ~idle[b] THEN "zero"
  ELSE IF Scheduled # {} THEN "idle" ELSE "none"

\* The timeout is computed, and qemu_poll_ns is called.
PollStart(t) ==
  /\ At(t, "compute")
  /\ Becomes(t, [Top(t) EXCEPT !.pc = "poll",
                   !.timeout = IF @ = "zero" THEN "zero" ELSE aio_compute_timeout])
  /\ UNCHANGED <<bhVars, fdVars, dispatching, call>>

Ready == {fd \in Fds : IF fd = "io" THEN io ELSE notifier}

\* qemu_poll_ns returns, and revents are copied if it found any.
PollReturn(t) ==
  /\ At(t, "poll")
  /\ Ready # {} \/ Top(t).timeout # "none"
  /\ revents' = IF Ready # {} THEN Ready ELSE revents
  /\ Becomes(t, [Top(t) EXCEPT !.pc = "dispatch", !.timeout = "zero"])
  /\ UNCHANGED <<bhVars, notifier, io, dispatching, call>>

FirstOf(bhs) == IF bhs = <<>> THEN NoBH ELSE Head(bhs)
\* bh->next.
NextOf(b) == LET i == CHOOSE i \in DOMAIN first_bh : first_bh[i] = b
             IN  IF i = Len(first_bh) THEN NoBH ELSE first_bh[i + 1]

\* `dispatching' is set and aio_bh_poll starts its walk.
DispatchStart(t) ==
  /\ At(t, "dispatch")
  /\ dispatching' = TRUE
  /\ walking_bh' = walking_bh + 1
  /\ Becomes(t, [Top(t) EXCEPT !.pc = "bh", !.next = FirstOf(first_bh)])
  /\ UNCHANGED <<first_bh, scheduled, idle, deleted, fdVars, call>>

\* One bottom half: remember its successor, take it if it is scheduled.
BhVisit(t) ==
  /\ At(t, "bh") /\ Top(t).next # NoBH
  /\ LET b    == Top(t).next
         run  == ~deleted[b] /\ scheduled[b]
     IN  /\ scheduled' = [scheduled EXCEPT ![b] = @ /\ deleted[b]]
         /\ Becomes(t, [Top(t) EXCEPT !.next = NextOf(b),
                          !.pc = IF run THEN "claimed" ELSE "bh",
                          !.bh = IF run THEN b ELSE NoBH])
  /\ UNCHANGED <<first_bh, walking_bh, idle, deleted, fdVars, dispatching, call>>

\* Its callback is called.
BhCall(t) ==
  /\ At(t, "claimed")
  /\ Becomes(t, [Top(t) EXCEPT !.pc = "cb",
                   !.progress = @ \/ ~idle[Top(t).bh]])
  /\ idle' = [idle EXCEPT ![Top(t).bh] = FALSE]
  /\ UNCHANGED <<first_bh, walking_bh, scheduled, deleted, fdVars, dispatching,
                 call>>

BhReturn(t) ==
  /\ At(t, "cb")
  /\ Becomes(t, [Top(t) EXCEPT !.pc = "bh", !.bh = NoBH])
  /\ UNCHANGED <<bhVars, fdVars, dispatching, call>>

\* What is left of the list when what was deleted is unlinked and freed.
Undeleted ==
  LET kept[i \in 0 .. Len(first_bh)] ==
        IF i = 0 THEN <<>>
        ELSE IF deleted[first_bh[i]] THEN kept[i - 1]
        ELSE Append(kept[i - 1], first_bh[i])
  IN  kept[Len(first_bh)]

\* MUTANT: a nested walk frees what an outer walk still refers to.
BhEndAlwaysFrees(t) ==
  /\ At(t, "bh") /\ Top(t).next = NoBH
  /\ walking_bh' = walking_bh - 1
  /\ first_bh' = Undeleted
  /\ Becomes(t, [Top(t) EXCEPT !.pc = "handlers"])
  /\ UNCHANGED <<scheduled, idle, deleted, fdVars, dispatching, call>>

\* The walk ends; the outermost one frees what was deleted.
BhEnd(t) ==
  /\ At(t, "bh") /\ Top(t).next = NoBH
  /\ walking_bh' = walking_bh - 1
  /\ first_bh' = IF walking_bh' = 0 THEN Undeleted ELSE first_bh
  /\ Becomes(t, [Top(t) EXCEPT !.pc = "handlers"])
  /\ UNCHANGED <<scheduled, idle, deleted, fdVars, dispatching, call>>

\* A handler other than the notifier's: it consumes what it was called for.
HandleIo(t) ==
  /\ At(t, "handlers") /\ "io" \in revents
  /\ revents' = revents \ {"io"}
  /\ io' = FALSE
  /\ Becomes(t, [Top(t) EXCEPT !.pc = "iocb", !.progress = TRUE])
  /\ UNCHANGED <<bhVars, notifier, dispatching, call>>

IoReturn(t) ==
  /\ At(t, "iocb")
  /\ Becomes(t, [Top(t) EXCEPT !.pc = "handlers"])
  /\ UNCHANGED <<bhVars, fdVars, dispatching, call>>

\* event_notifier_test_and_clear, the last handler of the list; "aio_notify()
\* does not count as progress".
HandleNotifier(t) ==
  /\ At(t, "handlers") /\ revents = {"notifier"}
  /\ revents' = {}
  /\ notifier' = FALSE
  /\ UNCHANGED <<bhVars, io, dispatching, stack, call>>

\* aio_poll restores `dispatching' and returns Top(t).progress.
PollEnd(t) ==
  /\ At(t, "handlers") /\ revents = {}
  /\ dispatching' = Top(t).was
  /\ stack' = [stack EXCEPT ![t] = SubSeq(@, 1, Depth(t) - 1)]
  /\ UNCHANGED <<bhVars, fdVars, call>>

\* What aio_poll does by itself between its call and its return.
PollStep(t) ==
  \/ PollStart(t) \/ PollReturn(t) \/ DispatchStart(t)
  \/ BhVisit(t) \/ BhCall(t) \/ BhEnd(t)
  \/ HandleIo(t) \/ HandleNotifier(t)

CallbackReturns(t) == BhReturn(t) \/ IoReturn(t)

\* The calls that need the lock of the context, or to be one of its callbacks.
OwnerCall(t) ==
  \/ \E b \in BHs : \/ qemu_bh_schedule_idle(t, b)
                    \/ qemu_bh_cancel(t, b)
                    \/ qemu_bh_delete(t, b)
\* The calls that any thread may make at any time.
AnyCall(t) == \E b \in BHs : aio_bh_new(t, b) \/ qemu_bh_schedule(t, b)

\* A descriptor becomes ready.
IoReady ==
  /\ ~io
  /\ io' = TRUE
  /\ UNCHANGED <<bhVars, notifier, revents, dispatching, stack, call>>

-----------------------------------------------------------------------------
(* Properties of the context, whatever lock its users take.                *)

Frames == {<<t, i>> : t \in Threads, i \in 1 .. MaxDepth}
WalkingFrames ==
  {f \in Frames : f[2] <= Depth(f[1])
                  /\ stack[f[1]][f[2]].pc \in {"bh", "claimed", "cb"}}

\* Lines 70-106 of async.c: no walk over the list, outer or nested, holds a
\* pointer to a bottom half that has been freed, although callbacks delete
\* bottom halves, create new ones and poll recursively.
NoDanglingBh ==
  /\ walking_bh = Cardinality(WalkingFrames)
  /\ \A f \in WalkingFrames :
        /\ stack[f[1]][f[2]].next \in Linked \cup {NoBH}
        /\ stack[f[1]][f[2]].bh \in Linked \cup {NoBH}

\* Threads that will still write the notifier.
Notifying == {t \in Threads : \/ call[t].step = "set"
                              \/ call[t].step = "notify" /\ ~dispatching}

\* The thread is blocked in poll until a descriptor is ready.
BlockedForever(t) == At(t, "poll") /\ Top(t).timeout = "none" /\ Ready = {}

\* aio_set_dispatching, aio_notify and aio_compute_timeout together: whoever
\* blocks without a timeout while a bottom half is scheduled is going to be
\* woken, however the scheduling thread and nested polls interleave.
NoLostWakeup ==
  \A t \in Threads : BlockedForever(t) /\ Scheduled # {} => Notifying # {}
=============================================================================
