-------------------------------- MODULE Rcu --------------------------------
(***************************************************************************)
(* Read-copy-update as in util/rcu.c and include/qemu/rcu.h, on top of the *)
(* QemuEvent of util/qemu-thread-posix.c.  Threads enter and leave read-   *)
(* side critical sections and hand objects to call_rcu1; the call_rcu      *)
(* thread waits for a grace period and then calls the callbacks.           *)
(*                                                                         *)
(* Memory is sequentially consistent, one access to memory shared by two   *)
(* threads per step.  The queue of callbacks is the sequence of its nodes  *)
(* in the order of their atomic_xchg on the tail; `linked' holds the nodes *)
(* the `next' pointer of their predecessor points to already.  The big     *)
(* lock under which the callbacks run is left out: nobody the call_rcu     *)
(* thread waits for needs it to make progress.  Longs have 64 bits, so a   *)
(* grace period has one phase.                                             *)
(***************************************************************************)
EXTENDS Integers, Sequences, FiniteSets, SequencesExt

CONSTANTS Threads,        \* the threads of the program
          Main,           \* the one rcu_init registers
          Registering,    \* the threads that call rcu_register_thread
          Readers,        \* the threads with read-side critical sections
          Callers,        \* the threads that call call_rcu1
          RcuThread,      \* call_rcu_thread
          Nodes,          \* objects with an rcu_head, each queued once
          Dummy,          \* the node that keeps the queue non-empty
          NoNode,         \* NULL
          MaxNesting,     \* bound on the nesting of critical sections
          UintMod,        \* 2^w, w the width of an unsigned
          RCU_CALL_MIN_SIZE, MaxTries   \* 30 and 5 in the code

ASSUME RcuAssumption ==
  /\ IsFiniteSet(Threads)
  /\ Main \in Registering /\ Registering \subseteq Threads
  /\ Readers \subseteq Threads /\ Callers \subseteq Threads \cup {RcuThread}
  /\ RcuThread \notin Threads
  /\ Dummy \notin Nodes /\ NoNode \notin Nodes \cup {Dummy}
  /\ MaxNesting \in Nat \ {0} /\ UintMod \in Nat \ {0} /\ UintMod % 2 = 0
  /\ RCU_CALL_MIN_SIZE \in Nat /\ MaxTries \in Nat

VARIABLES
  rcu_gp_ctr,
  registry, qsreaders,   \* the two lists wait_for_readers moves readers between
  event,                 \* QemuEvent.value of rcu_gp_event ("gp") and of
                         \* rcu_call_ready_event ("call")
  \* rcu_reader of each thread.
  ctr, waiting, depth,
  \* The queue.
  queue, linked, rcu_call_count,
  \* The threads.
  pc, local,             \* local: the ctr rcu_read_lock has read
  node,                  \* the argument of call_rcu1
  \* The call_rcu thread.
  rpc, n, tries, todo,   \* todo: what is left of a walk over the registry
  why,                   \* which qemu_event_wait it is in
  cur,                   \* the node whose callback runs, or the reader visited
  \* History.
  called, invoked,       \* arguments of call_rcu1, of the callbacks
  pre                    \* the threads that have been in the same critical
                         \* section since the node was handed to call_rcu1

gpVars     == <<rcu_gp_ctr, registry, qsreaders>>
readerVars == <<ctr, waiting, depth, local>>
queueVars  == <<queue, linked, rcu_call_count, called, invoked, node>>
threadVars == <<rpc, n, tries, todo, why, cur>>
vars == <<gpVars, event, readerVars, queueVars, pc, threadVars, pre>>

Procs == Threads \cup {RcuThread}

Pc  == {"run",                      \* elsewhere
        "xchg",                     \* rcu_read_lock, ctr is read
        "check", "clear",           \* before reading, clearing waiting
        "link", "count",            \* call_rcu1, in enqueue and after it
        "set", "set_xchg", "wake"}  \* qemu_event_set
Rpc == {"top", "test", "reset", "recheck", "recount", "sub",
        "lock", "gp_reset", "gp_mark", "gp_walk", "gp_clear",
        "wait", "futex", "asleep", "drain", "d_reset", "d_try", "func",
        "abort"}
Why == {"idle", "gp", "drain"}

TypeOK ==
  /\ rcu_gp_ctr \in Nat /\ rcu_gp_ctr % 2 = 1
  /\ registry \subseteq Threads /\ qsreaders \subseteq Threads
  /\ event \in [{"gp", "call"} -> {"set", "free", "busy"}]
  /\ ctr \in [Threads -> Nat] /\ local \in [Threads -> Nat]
  /\ waiting \in [Threads -> BOOLEAN]
  /\ depth \in [Threads -> 0 .. MaxNesting]
  /\ queue \in Seq(Nodes \cup {Dummy}) /\ linked \subseteq Nodes \cup {Dummy}
  /\ rcu_call_count \in Nat
  /\ pc \in [Procs -> Pc]
  /\ node \in [Procs -> Nodes \cup {NoNode}]
  /\ rpc \in Rpc /\ n \in Nat /\ tries \in 0 .. MaxTries
  /\ todo \subseteq Threads /\ why \in Why
  /\ cur \in Nodes \cup Threads \cup {NoNode}
  /\ called \subseteq Nodes /\ invoked \subseteq called
  /\ pre \in [Nodes -> SUBSET Threads]

\* rcu_init_complete: both events and the thread are created, and the thread
\* that runs the constructors is registered.
Init ==
  /\ rcu_gp_ctr = 1
  /\ registry = {Main} /\ qsreaders = {}
  /\ event = [gp |-> "set", call |-> "free"]
  /\ ctr = [t \in Threads |-> 0] /\ local = [t \in Threads |-> 0]
  /\ waiting = [t \in Threads |-> FALSE]
  /\ depth = [t \in Threads |-> 0]
  /\ queue = <<Dummy>> /\ linked = {} /\ rcu_call_count = 0
  /\ pc = [p \in Procs |-> "run"]
  /\ node = [p \in Procs |-> NoNode]
  /\ rpc = "top" /\ n = 0 /\ tries = 0 /\ todo = {} /\ why = "idle"
  /\ cur = NoNode
  /\ called = {} /\ invoked = {} /\ pre = [m \in Nodes |-> {}]

-----------------------------------------------------------------------------
(* QemuEvent.                                                              *)

\* What a qemu_event_set in progress is about.
EventOf(p) == IF node[p] = NoNode THEN "gp" ELSE "call"
Awaited    == IF why = "gp" THEN "gp" ELSE "call"

\* Where the call_rcu thread goes on after qemu_event_wait.
Resume == CASE why = "idle"  -> "recount"
            [] why = "gp"    -> "gp_reset"
            [] why = "drain" -> "drain"

\* qemu_event_reset.  The OR leaves a free or busy event alone, so that the
\* read before it can be folded into it.
Reset(e) == event' = IF event[e] = "set" THEN [event EXCEPT ![e] = "free"]
                                         ELSE event

\* qemu_event_wait up to futex_wait; the read before the compare-and-swap is
\* folded into it.
Wait ==
  /\ rpc = "wait"
  /\ \/ /\ event[Awaited] = "set"
        /\ rpc' = Resume
        /\ UNCHANGED event
     \/ /\ event[Awaited] # "set"
        /\ event' = [event EXCEPT ![Awaited] = "busy"]
        /\ rpc' = "futex"

\* futex_wait sleeps only if the event is busy still.
FutexWait ==
  /\ rpc = "futex"
  /\ rpc' = IF event[Awaited] = "busy" THEN "asleep" ELSE Resume
  /\ UNCHANGED event

\* A signal ends futex_wait early.
SpuriousWakeup ==
  /\ rpc = "asleep" /\ rpc' = Resume
  /\ UNCHANGED event

WaitStep == /\ Wait \/ FutexWait \/ SpuriousWakeup
            /\ UNCHANGED <<gpVars, readerVars, queueVars, pc, n, tries, todo,
                           why, cur, pre>>

EndSet(p) == /\ pc' = [pc EXCEPT ![p] = "run"]
             /\ node' = [node EXCEPT ![p] = NoNode]

\* qemu_event_set, before and after its atomic_xchg.
EventSet(p) ==
  LET e == EventOf(p) IN
  /\ \/ /\ pc[p] = "set" /\ event[e] = "set"
        /\ EndSet(p) /\ UNCHANGED <<event, rpc>>
     \/ /\ pc[p] = "set" /\ event[e] # "set"
        /\ pc' = [pc EXCEPT ![p] = "set_xchg"]
        /\ UNCHANGED <<event, rpc, node>>
     \/ /\ pc[p] = "set_xchg"
        /\ event' = [event EXCEPT ![e] = "set"]
        /\ IF event[e] = "busy"
           THEN pc' = [pc EXCEPT ![p] = "wake"] /\ UNCHANGED node
           ELSE EndSet(p)
        /\ UNCHANGED rpc
     \/ /\ pc[p] = "wake"
        /\ rpc' = IF rpc = "asleep" /\ Awaited = e THEN Resume ELSE rpc
        /\ EndSet(p) /\ UNCHANGED event
  /\ UNCHANGED <<gpVars, readerVars, queue, linked, rcu_call_count, called,
                 invoked, n, tries, todo, why, cur, pre>>

-----------------------------------------------------------------------------
(* Readers.                                                                *)

GpLockFree == rpc \notin {"gp_reset", "gp_mark", "gp_walk", "gp_clear"}
              /\ (rpc \in {"wait", "futex", "asleep"} => why # "gp")

\* rcu_register_thread; its critical section of rcu_gp_lock is one step.
rcu_register_thread(t) ==
  /\ t \in Registering /\ pc[t] = "run" /\ depth[t] = 0
  /\ t \notin registry \cup qsreaders
  /\ GpLockFree
  /\ registry' = registry \cup {t}
  /\ UNCHANGED <<rcu_gp_ctr, qsreaders, event, readerVars, queueVars, pc,
                 threadVars, pre>>

rcu_unregister_thread(t) ==
  /\ t # Main /\ t \in registry /\ pc[t] = "run" /\ depth[t] = 0
  /\ GpLockFree
  /\ registry' = registry \ {t}
  /\ UNCHANGED <<rcu_gp_ctr, qsreaders, event, readerVars, queueVars, pc,
                 threadVars, pre>>

\* rcu_read_lock up to its read of rcu_gp_ctr.
rcu_read_lock(t) ==
  /\ t \in Readers /\ pc[t] = "run"
  /\ t \in Registering => t \in registry \cup qsreaders
  /\ depth[t] < MaxNesting
  /\ depth' = [depth EXCEPT ![t] = @ + 1]
  /\ \/ /\ depth[t] > 0
        /\ UNCHANGED <<pc, local>>
     \/ /\ depth[t] = 0
        /\ local' = [local EXCEPT ![t] = rcu_gp_ctr % UintMod]
        /\ pc' = [pc EXCEPT ![t] = "xchg"]
  /\ UNCHANGED <<gpVars, event, ctr, waiting, queueVars, threadVars, pre>>

\* The atomic_xchg of rcu_read_lock.
Publish(t) ==
  /\ pc[t] = "xchg"
  /\ ctr' = [ctr EXCEPT ![t] = local[t]]
  /\ local' = [local EXCEPT ![t] = 0]
  /\ pc' = [pc EXCEPT ![t] = "check"]
  /\ UNCHANGED <<gpVars, event, waiting, depth, queueVars, threadVars, pre>>

rcu_read_unlock(t) ==
  /\ pc[t] = "run" /\ depth[t] > 0
  /\ depth' = [depth EXCEPT ![t] = @ - 1]
  /\ \/ /\ depth[t] > 1
        /\ UNCHANGED <<ctr, pc, pre>>
     \/ /\ depth[t] = 1
        /\ ctr' = [ctr EXCEPT ![t] = 0]
        /\ pc' = [pc EXCEPT ![t] = "check"]
        /\ pre' = [m \in Nodes |-> pre[m] \ {t}]
  /\ UNCHANGED <<gpVars, event, waiting, local, queueVars, threadVars>>

\* The end of both: tell a waiting writer.
CheckWaiting(t) ==
  /\ pc[t] = "check"
  /\ pc' = [pc EXCEPT ![t] = IF waiting[t] THEN "clear" ELSE "run"]
  /\ UNCHANGED <<gpVars, event, readerVars, queueVars, threadVars, pre>>

ClearWaiting(t) ==
  /\ pc[t] = "clear"
  /\ waiting' = [waiting EXCEPT ![t] = FALSE]
  /\ pc' = [pc EXCEPT ![t] = "set"]
  /\ UNCHANGED <<gpVars, event, ctr, depth, local, queueVars, threadVars, pre>>

-----------------------------------------------------------------------------
(* call_rcu1, called by threads and by callbacks.                          *)

InSection(t) == depth[t] > 0 /\ pc[t] # "xchg"

\* Up to the atomic_xchg of enqueue.
call_rcu1(p) ==
  \E m \in Nodes \ called :
    /\ p \in Callers /\ pc[p] = "run" /\ (p = RcuThread => rpc = "func")
    /\ called' = called \cup {m}
    /\ node' = [node EXCEPT ![p] = m]
    /\ queue' = Append(queue, m)
    /\ pc' = [pc EXCEPT ![p] = "link"]
    /\ pre' = [pre EXCEPT ![m] = {t \in Threads : InSection(t)}]
    /\ UNCHANGED <<gpVars, event, readerVars, linked, rcu_call_count, invoked,
                   threadVars>>

Link(p) ==
  /\ pc[p] = "link"
  /\ linked' = linked \cup {node[p]}
  /\ pc' = [pc EXCEPT ![p] = "count"]
  /\ UNCHANGED <<gpVars, event, readerVars, queue, rcu_call_count, called,
                 invoked, node, threadVars, pre>>

Count(p) ==
  /\ pc[p] = "count"
  /\ rcu_call_count' = rcu_call_count + 1
  /\ pc' = [pc EXCEPT ![p] = "set"]
  /\ UNCHANGED <<gpVars, event, readerVars, queue, linked, called, invoked,
                 node, threadVars, pre>>

-----------------------------------------------------------------------------
(* call_rcu_thread: how many callbacks to take.                            *)

calmVars == <<gpVars, readerVars, queue, linked, called, invoked, node, pc, pre,
              todo, cur>>

\* The reads of rcu_call_count.
ReadCount ==
  /\ rpc \in {"top", "recount"}
  /\ n' = rcu_call_count
  /\ tries' = IF rpc = "top" THEN 0 ELSE tries
  /\ rpc' = "test"
  /\ UNCHANGED <<calmVars, rcu_call_count, event, why>>

\* The condition of the loop that waits for callbacks to pile up.
TestCount ==
  /\ rpc = "test"
  /\ \/ /\ n = 0
        /\ rpc' = "reset" /\ UNCHANGED tries
     \/ /\ n > 0 /\ n < RCU_CALL_MIN_SIZE /\ tries < MaxTries
        /\ rpc' = "recount" /\ tries' = tries + 1
     \/ /\ n > 0 /\ (n >= RCU_CALL_MIN_SIZE \/ tries = MaxTries)
        /\ rpc' = "sub" /\ UNCHANGED tries
  /\ UNCHANGED <<calmVars, rcu_call_count, event, n, why>>

ResetCallEvent ==
  /\ rpc \in {"reset", "d_reset"}
  /\ Reset("call")
  /\ rpc' = IF rpc = "reset" THEN "recheck" ELSE "d_try"
  /\ UNCHANGED <<calmVars, rcu_call_count, n, tries, why>>

\* MUTANT: the call_rcu thread sleeps without looking again.
NoRecheck ==
  /\ rpc = "recheck"
  /\ rpc' = "wait" /\ why' = "idle"
  /\ UNCHANGED <<calmVars, rcu_call_count, event, n, tries>>

RecheckCount ==
  /\ rpc = "recheck"
  /\ n' = rcu_call_count
  /\ rpc' = IF rcu_call_count = 0 THEN "wait" ELSE "recount"
  /\ why' = IF rcu_call_count = 0 THEN "idle" ELSE why
  /\ UNCHANGED <<calmVars, rcu_call_count, event, tries>>

TakeCount ==
  /\ rpc = "sub"
  /\ rcu_call_count' = rcu_call_count - n
  /\ rpc' = "lock"
  /\ UNCHANGED <<calmVars, event, n, tries, why>>

-----------------------------------------------------------------------------
(* synchronize_rcu and wait_for_readers, with rcu_gp_lock held.            *)

syncVars == <<readerVars, queueVars, pc, n, tries, pre>>

synchronize_rcu ==
  /\ rpc = "lock"
  /\ \/ /\ registry = {}
        /\ rpc' = "drain" /\ UNCHANGED rcu_gp_ctr
     \/ /\ registry # {}
        /\ rcu_gp_ctr' = rcu_gp_ctr + 2
        /\ rpc' = "gp_reset"
  /\ UNCHANGED <<syncVars, registry, qsreaders, event, todo, why, cur>>

ResetGpEvent ==
  /\ rpc = "gp_reset"
  /\ Reset("gp")
  /\ todo' = registry /\ rpc' = "gp_mark"
  /\ UNCHANGED <<syncVars, gpVars, why, cur>>

\* MUTANT: the event is reset after the readers were told to set it.
MarkThenReset ==
  /\ rpc = "gp_mark"
  /\ \/ /\ todo = {}
        /\ todo' = registry /\ rpc' = "gp_walk"
        /\ Reset("gp")
        /\ UNCHANGED waiting
     \/ \E t \in todo : /\ waiting' = [waiting EXCEPT ![t] = TRUE]
                        /\ todo' = todo \ {t}
                        /\ UNCHANGED <<rpc, event>>
  /\ UNCHANGED <<gpVars, ctr, depth, local, queueVars, pc, n, tries, why,
                 cur, pre>>

MarkReaders ==
  /\ rpc = "gp_mark"
  /\ \/ /\ todo = {}
        /\ todo' = registry /\ rpc' = "gp_walk"
        /\ UNCHANGED waiting
     \/ \E t \in todo : /\ waiting' = [waiting EXCEPT ![t] = TRUE]
                        /\ todo' = todo \ {t}
                        /\ UNCHANGED rpc
  /\ UNCHANGED <<gpVars, event, ctr, depth, local, queueVars, pc, n, tries, why,
                 cur, pre>>

rcu_gp_ongoing(t) == ctr[t] # 0 /\ ctr[t] # rcu_gp_ctr

WalkReaders ==
  /\ rpc = "gp_walk"
  /\ \E t \in todo :
       /\ todo' = todo \ {t}
       /\ \/ /\ rcu_gp_ongoing(t)
             /\ UNCHANGED <<registry, qsreaders, rpc, cur>>
          \/ /\ ~rcu_gp_ongoing(t)
             /\ registry' = registry \ {t} /\ qsreaders' = qsreaders \cup {t}
             /\ cur' = t /\ rpc' = "gp_clear"
  /\ UNCHANGED <<syncVars, rcu_gp_ctr, event, why>>

ClearQuiescent ==
  /\ rpc = "gp_clear"
  /\ waiting' = [waiting EXCEPT ![cur] = FALSE]
  /\ cur' = NoNode /\ rpc' = "gp_walk"
  /\ UNCHANGED <<gpVars, event, ctr, depth, local, queueVars, pc, n, tries,
                 todo, why, pre>>

\* The end of a walk: the grace period is over, or wait and walk again.
EndWalk ==
  /\ rpc = "gp_walk" /\ todo = {}
  /\ \/ /\ registry = {}
        /\ registry' = qsreaders /\ qsreaders' = {}
        /\ rpc' = "drain" /\ UNCHANGED why
     \/ /\ registry # {}
        /\ rpc' = "wait" /\ why' = "gp"
        /\ UNCHANGED <<registry, qsreaders>>
  /\ UNCHANGED <<syncVars, rcu_gp_ctr, event, todo, cur>>

-----------------------------------------------------------------------------
(* call_rcu_thread: the callbacks.                                         *)

\* try_dequeue; it returns NULL by going to `retry'.  The dummy node goes to
\* the end of the queue, linked, in the step that removes it.
try_dequeue(retry) ==
  \/ /\ queue = <<Dummy>>
     /\ rpc' = "abort" /\ UNCHANGED <<queue, linked, cur, n>>
  \/ /\ Len(queue) > 1 /\ queue[2] \notin linked
     /\ rpc' = retry /\ UNCHANGED <<queue, linked, cur, n>>
  \/ /\ Len(queue) > 1 /\ queue[2] \in linked /\ Head(queue) = Dummy
     /\ queue' = Append(Tail(queue), Dummy)
     /\ linked' = linked \cup {Dummy}
     /\ UNCHANGED <<rpc, cur, n>>
  \/ /\ Len(queue) > 1 /\ queue[2] \in linked /\ Head(queue) # Dummy
     /\ queue' = Tail(queue) /\ cur' = Head(queue)
     /\ n' = n - 1 /\ rpc' = "func"
     /\ UNCHANGED linked

\* MUTANT: callbacks that arrived during the grace period are taken as well.
DrainAll ==
  /\ rpc = "drain"
  /\ \/ /\ queue = <<Dummy>>
        /\ rpc' = "top" /\ UNCHANGED <<queue, linked, cur, n, why>>
     \/ queue # <<Dummy>> /\ try_dequeue("d_reset") /\ UNCHANGED why
  /\ UNCHANGED <<gpVars, event, readerVars, rcu_call_count, called, invoked,
                 node, pc, tries, todo, pre>>

\* The loop over the n callbacks.
Drain ==
  /\ \/ /\ rpc = "drain" /\ n = 0
        /\ rpc' = "top" /\ UNCHANGED <<queue, linked, cur, n, why>>
     \/ rpc = "drain" /\ n > 0 /\ try_dequeue("d_reset") /\ UNCHANGED why
     \/ rpc = "d_try" /\ try_dequeue("wait") /\ why' = "drain"
  /\ UNCHANGED <<gpVars, event, readerVars, rcu_call_count, called, invoked,
                 node, pc, tries, todo, pre>>

\* The callback returns.
Func ==
  /\ rpc = "func" /\ pc[RcuThread] = "run"
  /\ invoked' = invoked \cup {cur}
  /\ cur' = NoNode /\ rpc' = "drain"
  /\ UNCHANGED <<gpVars, event, readerVars, queue, linked, rcu_call_count,
                 called, node, pc, n, tries, todo, why, pre>>

-----------------------------------------------------------------------------
call_rcu_thread ==
  \/ ReadCount \/ TestCount \/ ResetCallEvent \/ RecheckCount \/ TakeCount
  \/ synchronize_rcu \/ ResetGpEvent \/ MarkReaders \/ WalkReaders
  \/ ClearQuiescent \/ EndWalk \/ Drain \/ Func

\* What a thread that has begun an operation does next.
Continue(p) ==
  \/ /\ p \in Threads
     /\ Publish(p) \/ CheckWaiting(p) \/ ClearWaiting(p)
  \/ Link(p) \/ Count(p) \/ EventSet(p)

Begin(p) ==
  \/ /\ p \in Threads
     /\ \/ rcu_register_thread(p) \/ rcu_unregister_thread(p)
        \/ rcu_read_lock(p) \/ rcu_read_unlock(p)
  \/ call_rcu1(p)

Next == \/ call_rcu_thread \/ WaitStep
        \/ \E p \in Procs : Begin(p) \/ Continue(p)

Spec == Init /\ [][Next]_vars

\* Threads run, except that a signal need not arrive; critical sections end.
Fairness ==
  /\ WF_vars(call_rcu_thread)
  /\ WF_vars(WaitStep /\ rpc # "asleep")
  /\ \A p \in Procs : WF_vars(Continue(p))
  /\ \A t \in Readers : /\ WF_vars(rcu_read_unlock(t))
                         /\ SF_vars(rcu_read_unlock(t) /\ depth[t] = 1)

FairSpec == Spec /\ Fairness

-----------------------------------------------------------------------------
(* Properties.                                                             *)

\* When the callback of an object runs, every critical section that was under
\* way when the object was handed to call_rcu1 has ended: "This function
\* invokes func(head) after all pre-existing RCU read-side critical sections
\* on all threads have completed" (docs/rcu.txt).  The call_rcu thread takes
\* as many callbacks as it had counted before the grace period, from a queue
\* others add to meanwhile.
CallbackAfterReaders == rpc = "func" => pre[cur] = {}

\* try_dequeue never finds the queue empty, which it answers with abort():
\* whoever is counted has been in the queue since before it was counted.
NeverAborts == rpc # "abort"

\* While the call_rcu thread sleeps in wait_for_readers, it is going to be woken:
\* some reader it waits for is in its critical section, or past its end, and is
\* going to find the flag that tells it to report, or somebody is about to set
\* the event, or has set it and is about to wake the thread.
ReaderWillWake ==
  rpc = "asleep" /\ why = "gp" =>
    \/ /\ event["gp"] = "busy"
       /\ \/ \E t \in registry : /\ waiting[t]
                                 /\ InSection(t) \/ pc[t] \in {"check", "clear"}
          \/ \E t \in Threads : /\ pc[t] \in {"set", "set_xchg"}
                                /\ EventOf(t) = "gp"
    \/ \E t \in Threads : pc[t] = "wake" /\ EventOf(t) = "gp"

\* The two together, with the types of the state: the queue keeps up with its
\* counter and no wakeup of the writer is lost.
RcuSafe == TypeOK /\ NeverAborts /\ ReaderWillWake

\* Every object handed to call_rcu1 is reclaimed eventually, although readers
\* may enter new critical sections for ever ("critical sections that are started
\* _after_ the beginning of the wait do not extend the wait", docs/rcu.txt) and
\* the thread sleeps whenever it finds no callback.
CallbackInvoked == \A m \in Nodes : m \in called ~> m \in invoked
=============================================================================
