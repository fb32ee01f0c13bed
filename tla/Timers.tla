------------------------------- MODULE Timers -------------------------------
(***************************************************************************)
(* Timers (qemu-timer.c): one list of timers, attached to the AioContext   *)
(* of one thread, the runner, which polls with the deadline of the list as *)
(* its timeout and then runs the expired timers.  Any thread may arm and   *)
(* delete timers; one thread disables and enables the clock.               *)
(*                                                                         *)
(* A critical section of active_timers_lock is one step, and so is a write *)
(* or read of any other shared variable.  timers_done_ev is a Boolean:     *)
(* module Rcu has the steps of a QemuEvent.  A timeout of poll is the time *)
(* at which it expires.  Bottom halves and other descriptors are left out  *)
(* (AioContext has them), and so are icount and the scales of timers.      *)
(***************************************************************************)
EXTENDS Integers, Sequences, FiniteSets, SequencesExt

CONSTANTS Timers,
          Runner,       \* the thread of the AioContext
          Modders,      \* other threads that arm and delete timers
          Clocker,      \* the thread that calls qemu_clock_enable
          MaxTime,      \* bound on the clock
          MaxMods,      \* bound on the number of timers armed
          MaxDepth,     \* bound on nested calls of aio_poll
          RunnerNeedsBql   \* the list is one of the main loop, which runs its
                           \* timers with the big lock held

ASSUME TimersAssumption ==
  /\ Runner \notin Modders /\ Clocker \notin Modders /\ Clocker # Runner
  /\ MaxTime \in Nat /\ MaxMods \in Nat /\ MaxDepth \in Nat \ {0}
  /\ RunnerNeedsBql \in BOOLEAN

VARIABLES
  now,             \* qemu_clock_get_ns
  enabled,         \* clock->enabled
  active_timers,   \* the list, soonest first
  expire_time,     \* of each timer, -1 if it is not in the list
  timers_done_ev,
  dispatching, notifier,   \* AioContext
  bql,             \* the big lock is held by the Clocker
  stack,           \* aio_poll calls of the runner, innermost last
  pc,              \* aio_notify in progress, in each thread
  clockerPc,       \* qemu_clock_enable in progress
  mods             \* timers armed so far

vars == <<now, enabled, active_timers, expire_time, timers_done_ev,
          dispatching, notifier, bql, stack, pc, clockerPc, mods>>
listVars == <<active_timers, expire_time, mods>>

Procs == Modders \cup {Runner, Clocker}
Never == MaxTime + 1
Times == -1 .. MaxTime

FramePc == {"enabled", "head",    \* aio_compute_timeout
            "poll", "dispatch",   \* in qemu_poll_ns, after it
            "clear",              \* the handler of the notifier
            "reset", "check",     \* timerlist_run_timers before its loop
            "loop", "cb",         \* in its loop, in a callback
            "done"}               \* before qemu_event_set
Frame == [pc : FramePc, blocking : BOOLEAN, was : BOOLEAN,
          deadline : 0 .. Never, woken : BOOLEAN, current_time : 0 .. MaxTime]

TypeOK ==
  /\ now \in 0 .. MaxTime /\ enabled \in BOOLEAN
  /\ active_timers \in Seq(Timers)
  /\ expire_time \in [Timers -> Times]
  /\ timers_done_ev \in BOOLEAN /\ dispatching \in BOOLEAN
  /\ notifier \in BOOLEAN /\ bql \in BOOLEAN
  /\ stack \in Seq(Frame)
  /\ pc \in [Procs -> {"idle", "notify", "set"}]
  /\ clockerPc \in {"idle", "wait", "disabled"}
  /\ mods \in 0 .. MaxMods

\* timerlist_new and aio_context_new: the context is created notified.
Init ==
  /\ now = 0 /\ enabled = TRUE
  /\ active_timers = <<>> /\ expire_time = [t \in Timers |-> -1]
  /\ timers_done_ev = FALSE
  /\ dispatching = FALSE /\ notifier = TRUE /\ bql = FALSE
  /\ stack = <<>>
  /\ pc = [p \in Procs |-> "idle"]
  /\ clockerPc = "idle" /\ mods = 0

Top == Last(stack)

\* The runner is at this point of its innermost aio_poll.
RunnerAt(where) == stack # <<>> /\ Top.pc = where /\ pc[Runner] = "idle"

Goto(where) == stack' = [stack EXCEPT ![Len(stack)].pc = where]

-----------------------------------------------------------------------------
(* The list.                                                               *)

\* timer_del_locked.
Without(list, t) == RemoveFirst(list, t)

\* timer_mod_ns_locked: the position at which a timer is inserted, before the
\* first that expires later.
Position(list, e) ==
  LET k == SelectInSeq(list, LAMBDA u : expire_time[u] > e)
  IN  IF k = 0 THEN Len(list) + 1 ELSE k

\* MUTANT: only the first timer of an empty list interrupts the runner.
PutNoRearm(p, list, t, e) ==
  LET k == Position(list, e) IN
  /\ active_timers' = InsertAt(list, k, t)
  /\ expire_time' = [expire_time EXCEPT ![t] = IF e < 0 THEN 0 ELSE e]
  /\ pc' = IF list = <<>> THEN [pc EXCEPT ![p] = "notify"] ELSE pc

\* Insert the timer, and have the runner notified if it is the first now:
\* the end of timer_mod_ns and timer_mod_anticipate_ns in thread p.
Put(p, list, t, e) ==
  LET k == Position(list, e) IN
  /\ active_timers' = InsertAt(list, k, t)
  /\ expire_time' = [expire_time EXCEPT ![t] = IF e < 0 THEN 0 ELSE e]
  /\ pc' = IF k = 1 THEN [pc EXCEPT ![p] = "notify"] ELSE pc

\* Threads use timers at any time, the runner does in callbacks.
MayUse(p) == pc[p] = "idle" /\ (p = Runner => RunnerAt("cb"))

timer_mod_ns(p, t, e) ==
  /\ MayUse(p) /\ mods < MaxMods
  /\ Put(p, Without(active_timers, t), t, e)
  /\ mods' = mods + 1
  /\ UNCHANGED <<now, enabled, timers_done_ev, dispatching, notifier, bql,
                 stack, clockerPc>>

timer_mod_anticipate_ns(p, t, e) ==
  /\ MayUse(p) /\ mods < MaxMods
  /\ \/ /\ expire_time[t] = -1 \/ expire_time[t] > e
        /\ Put(p, Without(active_timers, t), t, e)
     \/ /\ expire_time[t] # -1 /\ expire_time[t] <= e
        /\ UNCHANGED <<active_timers, expire_time, pc>>
  /\ mods' = mods + 1
  /\ UNCHANGED <<now, enabled, timers_done_ev, dispatching, notifier, bql,
                 stack, clockerPc>>

timer_del(p, t) ==
  /\ MayUse(p) /\ expire_time[t] # -1
  /\ active_timers' = Without(active_timers, t)
  /\ expire_time' = [expire_time EXCEPT ![t] = -1]
  /\ UNCHANGED <<now, enabled, timers_done_ev, dispatching, notifier, bql,
                 stack, pc, clockerPc, mods>>

\* timerlist_notify: aio_notify reads dispatching and sets the notifier.
Notify(p) ==
  /\ \/ /\ pc[p] = "notify"
        /\ pc' = [pc EXCEPT ![p] = IF dispatching THEN "idle" ELSE "set"]
        /\ UNCHANGED notifier
     \/ /\ pc[p] = "set"
        /\ notifier' = TRUE
        /\ pc' = [pc EXCEPT ![p] = "idle"]
  /\ UNCHANGED <<now, enabled, listVars, timers_done_ev, dispatching, bql,
                 stack, clockerPc>>

-----------------------------------------------------------------------------
(* The runner: aio_poll.                                                   *)

\* The thread calls aio_poll, from its loop or from the callback of a timer.
aio_poll(blocking) ==
  /\ pc[Runner] = "idle"
  /\ stack = <<>> \/ RunnerAt("cb")
  /\ Len(stack) < MaxDepth
  /\ stack = <<>> => blocking
  /\ dispatching' = ~blocking
  /\ stack' = Append(stack, [pc |-> IF blocking THEN "enabled" ELSE "poll",
                             blocking |-> blocking, was |-> dispatching,
                             deadline |-> IF blocking THEN Never ELSE 0,
                             woken |-> FALSE, current_time |-> 0])
  /\ UNCHANGED <<now, enabled, listVars, timers_done_ev, notifier, bql, pc,
                 clockerPc>>

\* timerlist_deadline_ns, the read of clock->enabled and the look at the list.
timerlist_deadline_ns ==
  /\ \/ /\ RunnerAt("enabled")
        /\ Goto(IF enabled THEN "head" ELSE "poll")
     \/ /\ RunnerAt("head")
        /\ stack' = [stack EXCEPT ![Len(stack)].pc = "poll",
             ![Len(stack)].deadline = IF active_timers = <<>> THEN Never
                                      ELSE expire_time[Head(active_timers)]]
  /\ UNCHANGED <<now, enabled, listVars, timers_done_ev, dispatching, notifier,
                 bql, pc, clockerPc>>

\* qemu_poll_ns returns.  A callback polls for some other event, which happens.
\* The main loop, which polls without the big lock, takes it again.
PollReturns ==
  /\ RunnerAt("poll")
  /\ notifier \/ Top.deadline <= now \/ Len(stack) > 1
  /\ RunnerNeedsBql /\ Len(stack) = 1 => ~bql
  /\ stack' = [stack EXCEPT ![Len(stack)].pc = "dispatch",
                            ![Len(stack)].woken = notifier]
  /\ UNCHANGED <<now, enabled, listVars, timers_done_ev, dispatching, notifier,
                 bql, pc, clockerPc>>

\* aio_set_dispatching, then aio_dispatch: the handler of the notifier clears
\* it.
Dispatch ==
  /\ \/ /\ RunnerAt("dispatch")
        /\ dispatching' = TRUE
        /\ Goto(IF Top.woken THEN "clear" ELSE "reset")
        /\ UNCHANGED notifier
     \/ /\ RunnerAt("clear")
        /\ notifier' = FALSE
        /\ Goto("reset")
        /\ UNCHANGED dispatching
  /\ UNCHANGED <<now, enabled, listVars, timers_done_ev, bql, pc, clockerPc>>

\* MUTANT: the event is reset after clock->enabled was read.
RunTimersResetLate ==
  /\ \/ /\ RunnerAt("reset")
        /\ Goto(IF enabled THEN "check" ELSE "done")
        /\ UNCHANGED timers_done_ev
     \/ /\ RunnerAt("check")
        /\ timers_done_ev' = FALSE
        /\ stack' = [stack EXCEPT ![Len(stack)].pc = "loop",
                                  ![Len(stack)].current_time = now]
  /\ UNCHANGED <<now, enabled, listVars, dispatching, notifier, bql, pc,
                 clockerPc>>

\* MUTANT: timerlist_run_timers returns at once when the clock is disabled.
RunTimersReturns ==
  /\ \/ /\ RunnerAt("reset")
        /\ timers_done_ev' = FALSE
        /\ Goto("check")
        /\ UNCHANGED dispatching
     \/ /\ RunnerAt("check") /\ enabled
        /\ stack' = [stack EXCEPT ![Len(stack)].pc = "loop",
                                  ![Len(stack)].current_time = now]
        /\ UNCHANGED <<timers_done_ev, dispatching>>
     \/ /\ RunnerAt("check") /\ ~enabled
        /\ stack' = Front(stack) /\ dispatching' = Top.was
        /\ UNCHANGED timers_done_ev
  /\ UNCHANGED <<now, enabled, listVars, notifier, bql, pc, clockerPc>>

\* timerlist_run_timers up to its loop.
RunTimers ==
  /\ \/ /\ RunnerAt("reset")
        /\ timers_done_ev' = FALSE
        /\ Goto("check")
     \/ /\ RunnerAt("check")
        /\ stack' = [stack EXCEPT ![Len(stack)].pc = IF enabled THEN "loop"
                                                     ELSE "done",
                                  ![Len(stack)].current_time = now]
        /\ UNCHANGED timers_done_ev
  /\ UNCHANGED <<now, enabled, listVars, dispatching, notifier, bql, pc,
                 clockerPc>>

Expired == active_timers # <<>>
           /\ expire_time[Head(active_timers)] <= Top.current_time

\* The loop of timerlist_run_timers; the timer is removed before its callback
\* is called.
RunNext ==
  /\ RunnerAt("loop")
  /\ \/ /\ Expired
        /\ expire_time' = [expire_time EXCEPT ![Head(active_timers)] = -1]
        /\ active_timers' = Tail(active_timers)
        /\ Goto("cb")
     \/ /\ ~Expired
        /\ Goto("done")
        /\ UNCHANGED <<active_timers, expire_time>>
  /\ UNCHANGED <<now, enabled, timers_done_ev, dispatching, notifier, bql, pc,
                 clockerPc, mods>>

CallbackReturns ==
  /\ RunnerAt("cb")
  /\ Goto("loop")
  /\ UNCHANGED <<now, enabled, listVars, timers_done_ev, dispatching, notifier,
                 bql, pc, clockerPc>>

\* qemu_event_set, and the end of aio_poll.
Finish ==
  /\ RunnerAt("done")
  /\ timers_done_ev' = TRUE
  /\ dispatching' = Top.was
  /\ stack' = Front(stack)
  /\ UNCHANGED <<now, enabled, listVars, notifier, bql, pc, clockerPc>>

-----------------------------------------------------------------------------
(* qemu_clock_enable.                                                      *)

\* The runner of a list of the main loop holds the big lock, except in the poll
\* of the loop itself.
BqlFree == /\ ~bql
           /\ RunnerNeedsBql /\ stack # <<>> =>
                Len(stack) = 1 /\ Top.pc \in {"enabled", "head", "poll"}

\* qemu_clock_enable(type, false) up to qemu_event_wait, with the big lock held.
Disable ==
  /\ clockerPc = "idle" /\ pc[Clocker] = "idle" /\ enabled /\ BqlFree
  /\ bql' = TRUE
  /\ enabled' = FALSE /\ clockerPc' = "wait"
  /\ UNCHANGED <<now, listVars, timers_done_ev, dispatching, notifier, stack,
                 pc>>

\* qemu_event_wait returns, and the caller releases the big lock.
DisableReturn ==
  /\ clockerPc = "wait" /\ timers_done_ev
  /\ clockerPc' = "disabled" /\ bql' = FALSE
  /\ UNCHANGED <<now, enabled, listVars, timers_done_ev, dispatching, notifier,
                 stack, pc>>

\* MUTANT: the runner is not told that the clock runs again.
EnableNoNotify ==
  /\ clockerPc = "disabled" /\ BqlFree
  /\ enabled' = TRUE /\ clockerPc' = "idle"
  /\ UNCHANGED <<now, listVars, timers_done_ev, dispatching, notifier, bql,
                 stack, pc>>

\* qemu_clock_enable(type, true), up to qemu_clock_notify.
Enable ==
  /\ clockerPc = "disabled" /\ BqlFree
  /\ enabled' = TRUE /\ clockerPc' = "idle"
  /\ pc' = [pc EXCEPT ![Clocker] = "notify"]
  /\ UNCHANGED <<now, listVars, timers_done_ev, dispatching, notifier, bql,
                 stack>>

-----------------------------------------------------------------------------
Tick == /\ now < MaxTime /\ now' = now + 1
        /\ UNCHANGED <<enabled, listVars, timers_done_ev, dispatching, notifier,
                       bql, stack, pc, clockerPc>>

RunnerStep == \/ timerlist_deadline_ns \/ PollReturns \/ Dispatch \/ RunTimers
              \/ RunNext \/ CallbackReturns \/ Finish \/ Notify(Runner)
              \/ stack = <<>> /\ aio_poll(TRUE)

UseTimers(p) == \E t \in Timers :
                  \/ timer_del(p, t)
                  \/ \E e \in Times : \/ timer_mod_ns(p, t, e)
                                      \/ timer_mod_anticipate_ns(p, t, e)

Next == \/ RunnerStep \/ Tick
        \/ Disable \/ DisableReturn \/ Enable
        \/ \E blocking \in BOOLEAN : aio_poll(blocking)
        \/ \E p \in Modders \cup {Runner} : UseTimers(p)
        \/ \E p \in Modders \cup {Clocker} : Notify(p)

Spec == Init /\ [][Next]_vars

\* Threads run and time passes; timers need not be used, nor the clock.
Fairness ==
  /\ WF_vars(RunnerStep) /\ WF_vars(Tick) /\ WF_vars(DisableReturn)
  /\ \A p \in Modders \cup {Clocker} : WF_vars(Notify(p))

FairSpec == Spec /\ Fairness

-----------------------------------------------------------------------------
(* Properties.                                                             *)

\* The list holds the pending timers, each once, soonest first; timers are
\* moved, anticipated and deleted by several threads and by callbacks.
ListSorted ==
  /\ \A t \in Timers : (expire_time[t] # -1) <=> Contains(active_timers, t)
  /\ \A i, j \in DOMAIN active_timers : i < j =>
       /\ active_timers[i] # active_timers[j]
       /\ expire_time[active_timers[i]] <= expire_time[active_timers[j]]

\* The comment of timerlist_deadline_ns: the list may change before the caller
\* uses the deadline, but then the runner is notified, so that it never sleeps
\* past the first timer of an enabled clock.
NoOversleep ==
  RunnerAt("poll") /\ Top.blocking /\ enabled /\ active_timers # <<>> =>
    \/ Top.deadline <= expire_time[Head(active_timers)]
    \/ notifier
    \/ \E p \in Procs : pc[p] \in {"notify", "set"}

\* Both, with the types of the state.
TimersSafe == TypeOK /\ ListSorted /\ NoOversleep

\* Once qemu_clock_enable(type, false) has returned no callback of a timer of
\* that clock runs, until the clock is enabled again, provided that callbacks do
\* not poll (MaxDepth = 1): the run of the list in a callback's aio_poll sets
\* timers_done_ev while the outer run goes on.
DisabledQuiet ==
  clockerPc = "disabled" => \A i \in DOMAIN stack : stack[i].pc \notin {"loop", "cb"}

\* A timer that is due on an enabled clock is run, or deleted or postponed.
DueTimerRuns ==
  \A t \in Timers :
    (expire_time[t] \in 0 .. now /\ enabled)
      ~> (expire_time[t] \notin 0 .. now \/ ~enabled)

\* The wait of qemu_clock_enable(type, false) for one list ends, although the
\* runner resets the event over and over, if the runner does not need the big
\* lock, which the caller keeps, or has run the list before: every way out of
\* timerlist_run_timers sets the event.
ListWaitEnds ==
  clockerPc = "wait" /\ (~RunnerNeedsBql \/ timers_done_ev) ~> clockerPc = "disabled"

\* What the contract of qemu_clock_enable (timer.h:200-203) leads to expect, called
\* outside of a timer's callback it returns.  It does not hold for a list of the
\* main loop that was never run: timers_done_ev starts reset.
DisableTerminates == clockerPc = "wait" ~> clockerPc = "disabled"
=============================================================================
