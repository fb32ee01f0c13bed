------------------------------ MODULE FifoMutex ------------------------------
(***************************************************************************)
(* What a recursive FIFO lock promises: one holder at a time, which may    *)
(* lock again, and the lock is given to those who asked in the order they  *)
(* asked.                                                                  *)
(***************************************************************************)
EXTENDS Integers, Sequences

CONSTANTS Threads,    \* the threads that use the lock
          None        \* nobody

VARIABLES holder, depth, queue

Init == holder = None /\ depth = 0 /\ queue = <<>>

Holds(t) == holder = t /\ depth > 0

\* A thread asks for the lock and joins the queue.
Ask(t) == /\ ~Holds(t)
          /\ queue' = Append(queue, t)
          /\ UNCHANGED <<holder, depth>>

\* The lock is free and goes to the thread that asked first.
Grant == /\ holder = None
         /\ queue # <<>>
         /\ holder' = Head(queue)
         /\ depth' = 1
         /\ queue' = Tail(queue)

\* A free lock is taken on the spot.
Take(t) == /\ holder = None
           /\ queue = <<>>
           /\ holder' = t
           /\ depth' = 1
           /\ UNCHANGED queue

\* The holder locks once more.
Nest(t) == Holds(t) /\ depth' = depth + 1 /\ UNCHANGED <<holder, queue>>

\* The holder unlocks; after the outermost unlock the lock is free.
Release(t) == /\ Holds(t)
              /\ depth' = depth - 1
              /\ holder' = IF depth = 1 THEN None ELSE holder
              /\ UNCHANGED queue

Next == \/ \E t \in Threads : Ask(t) \/ Take(t) \/ Nest(t) \/ Release(t)
        \/ Grant

Spec == Init /\ [][Next]_<<holder, depth, queue>>
=============================================================================
