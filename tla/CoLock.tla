------------------------------- MODULE CoLock -------------------------------
(***************************************************************************)
(* Coroutines (qemu-coroutine.c) and their queues, mutexes and read-write  *)
(* locks (qemu-coroutine-lock.c), in one thread.  Entering a coroutine     *)
(* pushes a call of qemu_coroutine_enter on the stack of the thread; when  *)
(* the coroutine yields or terminates that call first runs the coroutines  *)
(* its coroutine has woken, and then returns.  Woken coroutines therefore  *)
(* run inside calls made for other coroutines, to any depth.               *)
(*                                                                         *)
(* There is one mutex, one read-write lock and one plain CoQueue, and a    *)
(* coroutine holds one lock at a time.  The two pools of free coroutines   *)
(* are one, without an order: the memory of a coroutine that terminated    *)
(* stays readable in a pool or, if the pools are full or not built in, is  *)
(* freed; in both cases it may become another coroutine.  What the program *)
(* does once it has read freed memory is not modelled.                     *)
(***************************************************************************)
EXTENDS Integers, Sequences, FiniteSets, SequencesExt

CONSTANTS Coroutines,   \* memory for Coroutines
          MaxStack,     \* bound on calls of qemu_coroutine_enter beyond which
                        \* coroutines neither enter others nor wait on a queue
          PoolFull      \* whether the pools may have no room for a coroutine

ASSUME CoAssumption == MaxStack \in Nat \ {0} /\ PoolFull \in BOOLEAN

VARIABLES
  freed,      \* memory that is neither a coroutine nor in a pool
  stack,      \* calls of qemu_coroutine_enter, innermost last
  called,     \* co->caller # NULL
  wakeup,     \* co->co_queue_wakeup
  entries,    \* CoQueue.entries of the mutex, of the rwlock and of the queue
  locked,     \* CoMutex
  writer, reader,   \* CoRwlock
  \* Coroutines.
  at,         \* where a coroutine is
  holds,      \* the lock it holds
  aborted     \* a coroutine was entered recursively

vars == <<freed, stack, called, wakeup, entries, locked, writer, reader, at, holds,
          aborted>>
lockVars == <<locked, writer, reader>>

Queues == {"mutex", "rw", "queue"}
At     == {"none",             \* not created, or deleted
           "run",              \* in its own code
           "io",               \* yielded until the event loop enters it
           "mutex", "rd", "wr",  \* in the loop of a lock operation
           "queue"}            \* in qemu_co_queue_wait
Call   == [co : Coroutines,
           ret : {"none", "yield", "terminate"}]   \* "none": co is running

TypeOK ==
  /\ freed \in SUBSET Coroutines
  /\ stack \in Seq(Call)
  /\ called \in [Coroutines -> BOOLEAN]
  /\ wakeup \in [Coroutines -> Seq(Coroutines)]
  /\ entries \in [Queues -> Seq(Coroutines)]
  /\ locked \in BOOLEAN /\ writer \in BOOLEAN /\ reader \in Nat
  /\ at \in [Coroutines -> At]
  /\ holds \in [Coroutines -> {"none", "mutex", "rd", "wr"}]
  /\ aborted \in BOOLEAN

Init ==
  /\ freed = {}
  /\ stack = <<>>
  /\ called = [c \in Coroutines |-> FALSE]
  /\ wakeup = [c \in Coroutines |-> <<>>]
  /\ entries = [q \in Queues |-> <<>>]
  /\ locked = FALSE /\ writer = FALSE /\ reader = 0
  /\ at = [c \in Coroutines |-> "none"]
  /\ holds = [c \in Coroutines |-> "none"]
  /\ aborted = FALSE

Top == Last(stack)

\* c is the running coroutine, qemu_coroutine_self().
Self(c) == stack # <<>> /\ Top.co = c /\ Top.ret = "none" /\ ~aborted

InLoop == stack = <<>> /\ ~aborted

-----------------------------------------------------------------------------
(* qemu-coroutine.c                                                        *)

\* qemu_coroutine_enter up to qemu_coroutine_switch.
Enter(c) ==
  \/ /\ called[c]
     /\ aborted' = TRUE /\ UNCHANGED <<stack, called>>
  \/ /\ ~called[c]
     /\ called' = [called EXCEPT ![c] = TRUE]
     /\ stack' = Append(stack, [co |-> c, ret |-> "none"])
     /\ UNCHANGED aborted

\* The running coroutine switches back to its caller; a yield clears
\* co->caller, and the end of a coroutine leaves it to coroutine_delete.
SwitchBack(c, ret) ==
  /\ stack' = [stack EXCEPT ![Len(stack)].ret = ret]
  /\ called' = IF ret = "yield" THEN [called EXCEPT ![c] = FALSE] ELSE called
  /\ UNCHANGED aborted

\* qemu_coroutine_create and qemu_coroutine_enter, from the event loop or from
\* a coroutine.
Create(c) ==
  /\ at[c] = "none"
  /\ InLoop \/ (Len(stack) < MaxStack /\ \E s \in Coroutines : Self(s))
  /\ Enter(c)
  /\ at' = [at EXCEPT ![c] = "run"]
  /\ wakeup' = [wakeup EXCEPT ![c] = <<>>]
  /\ freed' = freed \ {c}
  /\ UNCHANGED <<entries, lockVars, holds>>

\* qemu_coroutine_yield for a reason the event loop knows: I/O or a timer.
YieldForIo(c) ==
  /\ Self(c) /\ at[c] = "run"
  /\ SwitchBack(c, "yield")
  /\ at' = [at EXCEPT ![c] = "io"]
  /\ UNCHANGED <<freed, wakeup, entries, lockVars, holds>>

\* An I/O or timer callback of the event loop enters the coroutine.
IoDone(c) ==
  /\ InLoop /\ at[c] = "io"
  /\ Enter(c)
  /\ at' = [at EXCEPT ![c] = "run"]
  /\ UNCHANGED <<freed, wakeup, entries, lockVars, holds>>

Terminate(c) ==
  /\ Self(c) /\ at[c] = "run" /\ holds[c] = "none"
  /\ SwitchBack(c, "terminate")
  /\ UNCHANGED <<freed, wakeup, entries, lockVars, at, holds>>

\* MUTANT: a coroutine that terminates is deleted before its woken ones run.
ReturnEarly ==
  /\ stack # <<>> /\ Top.ret # "none"
  /\ wakeup[Top.co] = <<>> \/ Top.ret = "terminate"
  /\ stack' = Front(stack)
  /\ IF Top.ret = "terminate"
     THEN /\ called' = [called EXCEPT ![Top.co] = FALSE]
          /\ at' = [at EXCEPT ![Top.co] = "none"]
     ELSE UNCHANGED <<called, at>>
  /\ UNCHANGED <<freed, wakeup, entries, lockVars, holds, aborted>>

\* MUTANT: the woken coroutine stays in the list.
RestartNotRemoved ==
  /\ stack # <<>> /\ Top.ret # "none" /\ ~aborted
  /\ wakeup[Top.co] # <<>>
  /\ Enter(Head(wakeup[Top.co]))
  /\ UNCHANGED <<freed, wakeup, entries, lockVars, at, holds>>

\* qemu_co_queue_run_restart, in the call that entered the coroutine.
qemu_co_queue_run_restart ==
  /\ stack # <<>> /\ Top.ret # "none" /\ ~aborted /\ Top.co \notin freed
  /\ wakeup[Top.co] # <<>>
  /\ wakeup' = [wakeup EXCEPT ![Top.co] = Tail(@)]
  /\ Enter(Head(wakeup[Top.co]))
  /\ UNCHANGED <<freed, entries, lockVars, at, holds>>

\* The rest of qemu_coroutine_enter, with coroutine_delete.
Return ==
  /\ stack # <<>> /\ Top.ret # "none" /\ Top.co \notin freed
  /\ wakeup[Top.co] = <<>>
  /\ stack' = Front(stack)
  /\ \/ /\ Top.ret = "terminate"
        /\ called' = [called EXCEPT ![Top.co] = FALSE]
        /\ at' = [at EXCEPT ![Top.co] = "none"]
        /\ \/ UNCHANGED freed                            \* into a pool
           \/ PoolFull /\ freed' = freed \cup {Top.co}   \* qemu_coroutine_delete
     \/ /\ Top.ret = "yield"
        /\ UNCHANGED <<called, at, freed>>
  /\ UNCHANGED <<wakeup, entries, lockVars, holds, aborted>>

-----------------------------------------------------------------------------
(* CoQueue.                                                                *)

\* qemu_co_queue_wait of the running coroutine.
QueueWait(c, q) ==
  /\ entries' = [entries EXCEPT ![q] = Append(@, c)]
  /\ SwitchBack(c, "yield")
  /\ UNCHANGED wakeup

\* qemu_co_queue_do_restart: the waiters move to the list of the running
\* coroutine, or one of them does.
qemu_co_queue_do_restart(c, q, single) ==
  LET k == IF single /\ entries[q] # <<>> THEN 1 ELSE Len(entries[q]) IN
  /\ wakeup' = [wakeup EXCEPT ![c] = @ \o SubSeq(entries[q], 1, k)]
  /\ entries' = [entries EXCEPT ![q] = SubSeq(@, k + 1, Len(@))]

qemu_co_queue_wait(c) ==
  /\ Self(c)
  /\ \/ /\ at[c] = "run" /\ holds[c] = "none" /\ Len(stack) <= MaxStack
        /\ QueueWait(c, "queue")
        /\ at' = [at EXCEPT ![c] = "queue"]
     \/ /\ at[c] = "queue"     \* it was entered again
        /\ at' = [at EXCEPT ![c] = "run"]
        /\ UNCHANGED <<entries, stack, called, aborted, wakeup>>
  /\ UNCHANGED <<freed, lockVars, holds>>

qemu_co_queue_next(c) ==
  /\ Self(c) /\ at[c] = "run" /\ entries["queue"] # <<>>
  /\ qemu_co_queue_do_restart(c, "queue", TRUE)
  /\ UNCHANGED <<freed, stack, called, lockVars, at, holds, aborted>>

qemu_co_queue_restart_all(c) ==
  /\ Self(c) /\ at[c] = "run" /\ entries["queue"] # <<>>
  /\ qemu_co_queue_do_restart(c, "queue", FALSE)
  /\ UNCHANGED <<freed, stack, called, lockVars, at, holds, aborted>>

\* The event loop runs the next coroutine itself.
qemu_co_enter_next ==
  /\ InLoop /\ entries["queue"] # <<>>
  /\ entries' = [entries EXCEPT !["queue"] = Tail(@)]
  /\ Enter(Head(entries["queue"]))
  /\ UNCHANGED <<freed, wakeup, lockVars, at, holds>>

-----------------------------------------------------------------------------
(* CoMutex.                                                                *)

\* The coroutine asks for a lock, or has been woken in the loop that does.
Wants(c, where) == Self(c) /\ \/ at[c] = "run" /\ holds[c] = "none"
                              \/ at[c] = where

Take(c, lock) == /\ holds' = [holds EXCEPT ![c] = lock]
                 /\ at' = [at EXCEPT ![c] = "run"]
                 /\ UNCHANGED <<freed, stack, called, aborted, wakeup, entries>>

Block(c, where, q) == /\ QueueWait(c, q)
                      /\ at' = [at EXCEPT ![c] = where]
                      /\ UNCHANGED <<freed, lockVars, holds>>

qemu_co_mutex_lock(c) ==
  /\ Wants(c, "mutex")
  /\ \/ locked /\ Block(c, "mutex", "mutex")
     \/ /\ ~locked
        /\ locked' = TRUE /\ Take(c, "mutex") /\ UNCHANGED <<writer, reader>>

qemu_co_mutex_unlock(c) ==
  /\ Self(c) /\ at[c] = "run" /\ holds[c] = "mutex"
  /\ locked' = FALSE /\ holds' = [holds EXCEPT ![c] = "none"]
  /\ qemu_co_queue_do_restart(c, "mutex", TRUE)
  /\ UNCHANGED <<freed, stack, called, writer, reader, at, aborted>>

-----------------------------------------------------------------------------
(* CoRwlock.                                                               *)

qemu_co_rwlock_rdlock(c) ==
  /\ Wants(c, "rd")
  /\ \/ writer /\ Block(c, "rd", "rw")
     \/ /\ ~writer
        /\ reader' = reader + 1 /\ Take(c, "rd") /\ UNCHANGED <<locked, writer>>

\* MUTANT: a writer that was woken looks for writers only.
WrlockIgnoresReaders(c) ==
  /\ Wants(c, "wr")
  /\ \/ (writer \/ (reader > 0 /\ at[c] = "run")) /\ Block(c, "wr", "rw")
     \/ /\ ~writer /\ (reader = 0 \/ at[c] = "wr")
        /\ writer' = TRUE /\ Take(c, "wr") /\ UNCHANGED <<locked, reader>>

qemu_co_rwlock_wrlock(c) ==
  /\ Wants(c, "wr")
  /\ \/ (writer \/ reader > 0) /\ Block(c, "wr", "rw")
     \/ /\ ~writer /\ reader = 0
        /\ writer' = TRUE /\ Take(c, "wr") /\ UNCHANGED <<locked, reader>>

\* MUTANT: a writer wakes one waiter, as a reader does.
RwUnlockWakesOne(c) ==
  /\ Self(c) /\ at[c] = "run" /\ holds[c] \in {"rd", "wr"}
  /\ holds' = [holds EXCEPT ![c] = "none"]
  /\ \/ /\ writer
        /\ writer' = FALSE /\ UNCHANGED reader
        /\ qemu_co_queue_do_restart(c, "rw", TRUE)
     \/ /\ ~writer
        /\ reader' = reader - 1 /\ UNCHANGED writer
        /\ IF reader = 1 THEN qemu_co_queue_do_restart(c, "rw", TRUE)
                         ELSE UNCHANGED <<wakeup, entries>>
  /\ UNCHANGED <<freed, stack, called, locked, at, aborted>>

qemu_co_rwlock_unlock(c) ==
  /\ Self(c) /\ at[c] = "run" /\ holds[c] \in {"rd", "wr"}
  /\ holds' = [holds EXCEPT ![c] = "none"]
  /\ \/ /\ writer
        /\ writer' = FALSE /\ UNCHANGED reader
        /\ qemu_co_queue_do_restart(c, "rw", FALSE)
     \/ /\ ~writer
        /\ reader' = reader - 1 /\ UNCHANGED writer
        /\ IF reader = 1 THEN qemu_co_queue_do_restart(c, "rw", TRUE)
                         ELSE UNCHANGED <<wakeup, entries>>
  /\ UNCHANGED <<freed, stack, called, locked, at, aborted>>

-----------------------------------------------------------------------------
\* What the running coroutine or the call that entered it does next.
Step ==
  \/ qemu_co_queue_run_restart \/ Return
  \/ \E c \in Coroutines :
       \/ Create(c) \/ YieldForIo(c) \/ IoDone(c) \/ Terminate(c)
       \/ qemu_co_queue_wait(c)
       \/ qemu_co_queue_next(c) \/ qemu_co_queue_restart_all(c)
       \/ qemu_co_mutex_lock(c) \/ qemu_co_mutex_unlock(c)
       \/ qemu_co_rwlock_rdlock(c) \/ qemu_co_rwlock_wrlock(c)
       \/ qemu_co_rwlock_unlock(c)

Next == Step \/ qemu_co_enter_next

Spec == Init /\ [][Next]_vars

\* What the thread does next when its coroutine has no choice: the rest of
\* qemu_coroutine_enter, and the loop a woken coroutine is in.
Forced ==
  \/ qemu_co_queue_run_restart \/ Return
  \/ \E c \in Coroutines :
       /\ at[c] # "run"
       /\ \/ qemu_co_queue_wait(c) \/ qemu_co_mutex_lock(c)
          \/ qemu_co_rwlock_rdlock(c) \/ qemu_co_rwlock_wrlock(c)

\* The thread runs, and no coroutine keeps it for ever.
Fairness ==
  /\ WF_vars(Forced)
  /\ \A c \in Coroutines : SF_vars(YieldForIo(c) \/ Terminate(c))

FairSpec == Spec /\ Fairness

-----------------------------------------------------------------------------
(* Properties.                                                             *)

Holders(lock) == {c \in Coroutines : holds[c] = lock}

\* The mutex has one holder, and a writer excludes readers and other writers,
\* although the lock stays up for grabs between an unlock and the moment the
\* woken coroutine runs.
Exclusion ==
  /\ Cardinality(Holders("mutex")) = (IF locked THEN 1 ELSE 0)
  /\ Cardinality(Holders("wr")) = (IF writer THEN 1 ELSE 0)
  /\ Cardinality(Holders("rd")) = reader
  /\ writer => reader = 0

\* Woken and on its way to look at the lock again.
Woken(c) == \/ \E d \in Coroutines : Contains(wakeup[d], c)
            \/ called[c]

\* A free lock with waiters has woken one of them, and as long as there is no
\* writer no reader is left in the queue: the hand-over of qemu_co_mutex_unlock
\* and qemu_co_rwlock_unlock loses nobody, whoever gets the lock in between.
HandedOver ==
  /\ ~locked /\ entries["mutex"] # <<>> =>
       \E c \in Coroutines : at[c] = "mutex" /\ Woken(c)
  /\ ~writer /\ reader = 0 /\ entries["rw"] # <<>> =>
       \E c \in Coroutines : at[c] \in {"rd", "wr"} /\ Woken(c)
  /\ ~writer => \A c \in Coroutines : at[c] = "rd" => Woken(c)

\* Every list of woken coroutines belongs to a coroutine on the stack, whose
\* qemu_coroutine_enter is going to run it; a deleted coroutine has none.
WokenOnStack ==
  \A c \in Coroutines : wakeup[c] # <<>> =>
    /\ at[c] # "none"
    /\ \E i \in DOMAIN stack : stack[i].co = c

Occurrences(c, s) == Cardinality({i \in DOMAIN s : s[i] = c})

\* A coroutine is in one list at a time, which is all its co_queue_next links
\* allow, and it is not running while it is in one.
OneList ==
  \A c \in Coroutines :
    LET inQueues  == [q \in Queues |-> Occurrences(c, entries[q])]
        inWakeups == [d \in Coroutines |-> Occurrences(c, wakeup[d])]
        lists     == {q \in Queues : inQueues[q] > 0}
                     \cup {d \in Coroutines : inWakeups[d] > 0}
    IN /\ Cardinality(lists) <= 1
       /\ \A q \in Queues : inQueues[q] <= 1
       /\ \A d \in Coroutines : inWakeups[d] <= 1
       /\ lists # {} => ~called[c] /\ at[c] \notin {"none", "run", "io"}

\* qemu_coroutine_enter never finds the coroutine entered already, which it
\* answers with abort(): although a woken coroutine runs inside the call of
\* another one, nobody can enter it a second time.
NotReentered == ~aborted

\* The lists of coroutines and the nesting of their calls stay sound together.
CoroutinesSafe == TypeOK /\ WokenOnStack /\ OneList /\ NotReentered

\* No call of qemu_coroutine_enter is left with a coroutine that was freed, whose
\* list qemu_co_queue_run_restart reads before the call returns.  It does not hold
\* if the pools are full: a coroutine that yielded inside such a call may be woken,
\* run to its end and be deleted by a call nested in it.
FramesAllocated == \A i \in DOMAIN stack : stack[i].co \notin freed

\* A woken coroutine gets to run, however deep the calls nest.
WokenRuns ==
  \A c \in Coroutines : (\E d \in Coroutines : Contains(wakeup[d], c)) ~> called[c]
=============================================================================
