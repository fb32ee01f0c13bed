------------------------------ MODULE RFifoLock ------------------------------
(***************************************************************************)
(* util/rfifolock.c: a recursive ticket lock.  Every critical section of   *)
(* r->lock is one step; qemu_cond_wait is the boundary between two.        *)
(* Tickets are unsigned integers that wrap around.                         *)
(***************************************************************************)
EXTENDS Integers, FiniteSets

CONSTANTS Threads,
          None,        \* no thread (owner_thread before the first lock)
          Wrap,        \* number of tickets: 2^32 for an unsigned int
          MaxNesting   \* bound on recursive locking

ASSUME LockAssumption ==
  /\ IsFiniteSet(Threads)
  /\ None \notin Threads
  /\ Wrap \in Nat /\ Cardinality(Threads) < Wrap
  /\ MaxNesting \in Nat \ {0}

VARIABLES
  head, tail,       \* RFifoLock.head and .tail
  owner_thread, nesting,
  ticket,           \* the local variable of rfifolock_lock, per thread
  pc,               \* "out", "waiting" (in qemu_cond_wait), "in" (the call
                    \* returned and the thread has not unlocked as often)
  held,             \* how often the thread has to unlock
  signalled,        \* the condition was broadcast since the thread waits
  kicked            \* the contention callback was called since `head' moved

vars == <<head, tail, owner_thread, nesting, ticket, pc, held, signalled, kicked>>

TypeOK ==
  /\ head \in 0 .. Wrap - 1 /\ tail \in 0 .. Wrap - 1
  /\ owner_thread \in Threads \cup {None}
  /\ nesting \in 0 .. MaxNesting
  /\ ticket \in [Threads -> 0 .. Wrap - 1]
  /\ pc \in [Threads -> {"out", "waiting", "in"}]
  /\ held \in [Threads -> 0 .. MaxNesting]
  /\ signalled \in SUBSET Threads
  /\ kicked \in BOOLEAN

\* rfifolock_init.
Init ==
  /\ head = 0 /\ tail = 0 /\ nesting = 0 /\ owner_thread = None
  /\ ticket = [t \in Threads |-> 0]
  /\ pc = [t \in Threads |-> "out"]
  /\ held = [t \in Threads |-> 0]
  /\ signalled = {} /\ kicked = FALSE

\* MUTANT: tickets do not wrap around.
IncUnbounded(x) == x + 1

\* Unsigned increment.
Inc(x) == IF x = Wrap - 1 THEN 0 ELSE x + 1

\* Lines 63-64: the thread becomes the owner.
Own(t) ==
  /\ owner_thread' = t
  /\ nesting' = nesting + 1
  /\ held' = [held EXCEPT ![t] = @ + 1]
  /\ pc' = [pc EXCEPT ![t] = "in"]

\* MUTANT: a nested lock keeps the ticket it took.
NestKeepsTicket(t) ==
  /\ nesting > 0 /\ owner_thread = t
  /\ nesting < MaxNesting
  /\ tail' = Inc(tail)
  /\ Own(t)
  /\ UNCHANGED <<head, ticket, signalled, kicked>>

\* MUTANT: owner_thread alone decides whether the call nests.
NestStaleOwner(t) ==
  /\ owner_thread = t
  /\ nesting < MaxNesting
  /\ Own(t)
  /\ UNCHANGED <<head, tail, ticket, signalled, kicked>>

\* rfifolock_lock by the owner: the ticket is put back.
LockNested(t) ==
  /\ nesting > 0 /\ owner_thread = t
  /\ nesting < MaxNesting
  /\ Own(t)
  /\ UNCHANGED <<head, tail, ticket, signalled, kicked>>

NotNesting(t) == ~(nesting > 0 /\ owner_thread = t)

\* MUTANT: a lock that nobody owns is taken, whoever waits for it.
LockBarges(t) ==
  /\ pc[t] = "out" /\ NotNesting(t)
  /\ nesting = 0
  /\ ticket' = [ticket EXCEPT ![t] = tail]
  /\ tail' = Inc(tail)
  /\ Own(t)
  /\ UNCHANGED <<head, signalled, kicked>>

\* rfifolock_lock when the ticket drawn is the active one.
LockFree(t) ==
  /\ pc[t] = "out" /\ NotNesting(t)
  /\ tail = head
  /\ ticket' = [ticket EXCEPT ![t] = tail]
  /\ tail' = Inc(tail)
  /\ Own(t)
  /\ UNCHANGED <<head, signalled, kicked>>

\* MUTANT: the callback is not called before the first wait.
LockContendedQuiet(t) ==
  /\ pc[t] = "out" /\ NotNesting(t)
  /\ tail # head
  /\ ticket' = [ticket EXCEPT ![t] = tail]
  /\ tail' = Inc(tail)
  /\ pc' = [pc EXCEPT ![t] = "waiting"]
  /\ signalled' = signalled \ {t}
  /\ UNCHANGED <<head, owner_thread, nesting, held, kicked>>

\* rfifolock_lock up to qemu_cond_wait, when somebody is before us.
LockContended(t) ==
  /\ pc[t] = "out" /\ NotNesting(t)
  /\ tail # head
  /\ ticket' = [ticket EXCEPT ![t] = tail]
  /\ tail' = Inc(tail)
  /\ kicked' = TRUE
  /\ pc' = [pc EXCEPT ![t] = "waiting"]
  /\ signalled' = signalled \ {t}
  /\ UNCHANGED <<head, owner_thread, nesting, held>>

\* qemu_cond_wait returns and the ticket is up.
WakeOwn(t) ==
  /\ pc[t] = "waiting" /\ t \in signalled
  /\ ticket[t] = head
  /\ Own(t)
  /\ signalled' = signalled \ {t}
  /\ UNCHANGED <<head, tail, ticket, kicked>>

\* qemu_cond_wait returns too early: callback, and wait again.
WakeEarly(t) ==
  /\ pc[t] = "waiting" /\ t \in signalled
  /\ ticket[t] # head
  /\ kicked' = TRUE
  /\ signalled' = signalled \ {t}
  /\ UNCHANGED <<head, tail, owner_thread, nesting, ticket, pc, held>>

\* A condition variable may wake a thread for no reason.
SpuriousWakeup(t) ==
  /\ pc[t] = "waiting"
  /\ signalled' = signalled \cup {t}
  /\ UNCHANGED <<head, tail, owner_thread, nesting, ticket, pc, held, kicked>>

\* MUTANT: qemu_cond_signal instead of qemu_cond_broadcast.
UnlockSignalsOne(t) ==
  /\ pc[t] = "in" /\ nesting = 1 /\ owner_thread = t
  /\ nesting' = 0
  /\ head' = Inc(head)
  /\ held' = [held EXCEPT ![t] = @ - 1]
  /\ pc' = [pc EXCEPT ![t] = "out"]
  /\ \/ \E u \in Threads \ signalled : /\ pc[u] = "waiting"
                                       /\ signalled' = signalled \cup {u}
     \/ /\ \A u \in Threads \ signalled : pc[u] # "waiting"
        /\ UNCHANGED signalled
  /\ kicked' = FALSE
  /\ UNCHANGED <<tail, owner_thread, ticket>>

\* rfifolock_unlock, outermost: pass the lock on and wake everybody.
UnlockLast(t) ==
  /\ pc[t] = "in" /\ nesting = 1 /\ owner_thread = t
  /\ nesting' = 0
  /\ head' = Inc(head)
  /\ held' = [held EXCEPT ![t] = @ - 1]
  /\ pc' = [pc EXCEPT ![t] = "out"]
  /\ signalled' = {u \in Threads : pc[u] = "waiting"}
  /\ kicked' = FALSE
  /\ UNCHANGED <<tail, owner_thread, ticket>>

\* rfifolock_unlock, nested.
UnlockNested(t) ==
  /\ pc[t] = "in" /\ nesting > 1 /\ owner_thread = t
  /\ nesting' = nesting - 1
  /\ held' = [held EXCEPT ![t] = @ - 1]
  /\ UNCHANGED <<head, tail, owner_thread, ticket, pc, signalled, kicked>>

rfifolock_lock(t) == LockNested(t) \/ LockFree(t) \/ LockContended(t)
Wakeup(t)         == WakeOwn(t) \/ WakeEarly(t)
rfifolock_unlock(t) == UnlockLast(t) \/ UnlockNested(t)

Next == \E t \in Threads :
  rfifolock_lock(t) \/ Wakeup(t) \/ SpuriousWakeup(t) \/ rfifolock_unlock(t)

\* A thread that was woken runs, and whoever holds the lock unlocks it as often
\* as it locked it, in the end.
Fairness == \A t \in Threads : /\ WF_vars(Wakeup(t))
                               /\ SF_vars(UnlockLast(t))
                               /\ SF_vars(UnlockNested(t))

Spec == Init /\ [][Next]_vars
FairSpec == Spec /\ Fairness

-----------------------------------------------------------------------------
\* How far b is ahead of a, in tickets.
Ahead(a, b) == IF b >= a THEN b - a ELSE b - a + Wrap

\* The threads that hold a ticket which is not served yet.
Queued == {t \in Threads : pc[t] # "out"}

\* Tickets: as many are out as threads wait or own, they are all different, they
\* lie between head and tail even when those have wrapped around, and the owner
\* has the active one.
TicketsConsistent ==
  /\ Ahead(head, tail) = Cardinality(Queued)
  /\ \A t \in Queued : Ahead(head, ticket[t]) < Ahead(head, tail)
  /\ \A t, u \in Queued : ticket[t] = ticket[u] => t = u
  /\ \A t \in Threads : pc[t] = "in" => ticket[t] = head

\* Lines 44-66 hand the lock to one thread at a time: two threads whose call
\* returned and who still have to unlock are the same thread, and it is the one
\* that the assertions of rfifolock_unlock (lines 71-72) expect.
MutualExclusion ==
  \A t \in Threads : held[t] > 0 =>
    /\ owner_thread = t /\ nesting = held[t]
    /\ \A u \in Threads : held[u] > 0 => u = t

\* A thread whose turn it is will be woken: no signal is lost between the
\* broadcast of line 75 and the wait of line 59.
TurnSignalled ==
  \A t \in Threads : pc[t] = "waiting" /\ ticket[t] = head /\ nesting = 0
    => t \in signalled

\* "Contention callback - optional, called when thread must wait": since the
\* lock was last passed on, the callback was called, or somebody is about to
\* wake up, for every owner that others wait for.
ContentionReported ==
  \A t \in Threads : pc[t] = "waiting" => kicked \/ t \in signalled

\* Who waits with the k-th ticket after head, and the waiting threads in the
\* order of their tickets; the one at head is served already when somebody owns
\* the lock.
WaitsAt(k) == {t \in Threads : pc[t] = "waiting" /\ Ahead(head, ticket[t]) = k}
Served == IF nesting > 0 THEN 1 ELSE 0
WaitingQueue ==
  [i \in 1 .. Ahead(head, tail) - Served |->
     LET there == WaitsAt(i - 1 + Served)
     IN  IF there = {} THEN None ELSE CHOOSE t \in there : TRUE]

\* "Fairness - enforces FIFO order" and "Nesting - can be taken recursively":
\* the ticket lock implements the abstract recursive FIFO lock.
Abstract == INSTANCE FifoMutex
              WITH holder <- IF nesting > 0 THEN owner_thread ELSE None,
                   depth  <- nesting,
                   queue  <- WaitingQueue
ImplementsFifoMutex == Abstract!Spec

\* Everybody who waits gets the lock.
NoStarvation == \A t \in Threads : pc[t] = "waiting" ~> pc[t] = "in"
=============================================================================
