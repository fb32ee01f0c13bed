----------------------------- MODULE RcuProofs -----------------------------
(***************************************************************************)
(* Safety of RCU, for any number of threads, objects and nested critical   *)
(* sections: callbacks run after the readers that were there before, the   *)
(* queue never runs dry, and the call_rcu thread is always going to be     *)
(* woken.  The invariant has three parts: what readers publish, what the   *)
(* queue and its counter count, and what a grace period has established    *)
(* about the readers and the callbacks it is for.                          *)
(***************************************************************************)
EXTENDS Rcu, TLAPS, FiniteSetTheorems, SequenceTheorems

\* The call_rcu thread waits for an event; it waits for readers.
Waiting   == rpc \in {"wait", "futex", "asleep"}
WaitingGp == Waiting /\ why = "gp"
\* A grace period is under way; its callbacks are being called; the count has
\* been taken.
InGp     == rpc \in {"gp_reset", "gp_mark", "gp_walk", "gp_clear"} \/ WaitingGp
Draining == \/ rpc \in {"drain", "d_reset", "d_try", "func"}
            \/ Waiting /\ why = "drain"
Taken    == rpc = "lock" \/ InGp \/ Draining

\* Where the threads are.
Control ==
  /\ \A p \in Procs : pc[p] \in {"link", "count"} => node[p] \in Nodes
  /\ \A p \in Procs : pc[p] \in {"run", "xchg", "check", "clear"}
                        => node[p] = NoNode
  /\ pc[RcuThread] \notin {"xchg", "check", "clear"}
  /\ pc[RcuThread] # "run" => rpc = "func" /\ node[RcuThread] \in Nodes

\* What readers publish: a counter that is no newer than the global one, from
\* the atomic_xchg of the outermost rcu_read_lock to its rcu_read_unlock.
Published ==
  \A t \in Threads :
    /\ ctr[t] # 0 <=> InSection(t)
    /\ ctr[t] <= rcu_gp_ctr /\ local[t] <= rcu_gp_ctr
    /\ pc[t] = "xchg" => local[t] # 0 /\ depth[t] = 1

\* The two lists of readers.
Lists ==
  /\ registry \cap qsreaders = {}
  /\ GpLockFree => qsreaders = {}
  /\ rpc \in {"gp_mark", "gp_walk", "gp_clear"} => todo \subseteq registry
  /\ WaitingGp => registry # {}
  /\ rpc = "gp_clear" => cur \in qsreaders

\* The nodes of the queue are different, and the dummy is one of them.
QueueShape ==
  /\ \A i, j \in 1 .. Len(queue) : queue[i] = queue[j] => i = j
  /\ \E i \in 1 .. Len(queue) : queue[i] = Dummy
  /\ \A i \in 1 .. Len(queue) : queue[i] # Dummy => queue[i] \in called
  /\ rpc = "func" => cur \in called

\* Who has put a node into the queue and not counted it yet.
Uncounted == {p \in Procs : pc[p] \in {"link", "count"}}

\* Every node but the dummy is counted, or taken, or going to be counted.
Counted ==
  /\ Len(queue) = 1 + (IF Taken THEN n ELSE 0) + rcu_call_count
                    + Cardinality(Uncounted)
  /\ rpc \in {"test", "sub"} => n <= rcu_call_count
  /\ rpc \in {"d_reset", "d_try"} => n > 0

\* The nodes that were taken: the first n of the queue but for the dummy.
TakenNodes ==
  {m \in Nodes : \E i \in 1 .. Len(queue) :
     /\ queue[i] = m
     /\ i <= n \/ (i = n + 1 /\ \E d \in 1 .. n : queue[d] = Dummy)}

\* A reader that a callback has to wait for is in its critical section; during
\* the grace period it is still on the list, with an older counter; afterwards
\* there is none.
PreInSection == \A m \in Nodes : \A t \in pre[m] : InSection(t)
GracePeriod ==
  /\ InGp => \A m \in TakenNodes : \A t \in pre[m] :
               t \in registry /\ ctr[t] < rcu_gp_ctr
  /\ Draining => \A m \in TakenNodes : pre[m] = {}
  /\ rpc = "func" => cur \in Nodes /\ pre[cur] = {}

\* Readers are registered, as rcu.h asks for.
ReadersRegistered == Readers \subseteq Registering
Registered ==
  \A t \in Threads : depth[t] > 0 => t \in registry \cup qsreaders

\* Somebody is about to set rcu_gp_event.
Setting == \E u \in Threads : pc[u] \in {"set", "set_xchg"} /\ EventOf(u) = "gp"

\* The readers that were told to report, and those of them that were found in
\* a critical section afterwards.
Marked  == {t \in registry : \/ rpc = "gp_mark" /\ t \notin todo
                             \/ rpc \in {"gp_walk", "gp_clear"} \/ WaitingGp}
Visited == {t \in registry : \/ /\ rpc \in {"gp_walk", "gp_clear"}
                                /\ t \notin todo
                             \/ WaitingGp}

\* A reader that was told to report has not done so yet, or has; if not, it is
\* going to, once it was found in a critical section.
Told    == \A t \in Marked : waiting[t] \/ event["gp"] = "set" \/ Setting
Reports == \A t \in Visited : waiting[t] => InSection(t) \/ pc[t] \in {"check", "clear"}
\* The call_rcu thread sleeps on an event that is busy, or was set by somebody
\* who has still to wake it.
Sleeps  ==
  /\ rpc \in {"futex", "asleep"} => event[Awaited] # "free"
  /\ rpc = "asleep" /\ event[Awaited] = "set" =>
       \E p \in Procs : pc[p] = "wake" /\ EventOf(p) = Awaited
Wakeups == Told /\ Reports /\ Sleeps

SafeInv == /\ TypeOK /\ NeverAborts /\ Control /\ Published /\ Lists
           /\ QueueShape /\ Counted /\ Wakeups
IndInv  == SafeInv /\ Registered /\ PreInSection /\ GracePeriod
-----------------------------------------------------------------------------
\* A step of the program is a step of one of its operations.
LEMMA NextCases ==
  ASSUME [Next]_vars
  PROVE  \/ ReadCount \/ TestCount \/ ResetCallEvent \/ RecheckCount
         \/ TakeCount \/ synchronize_rcu \/ ResetGpEvent \/ MarkReaders
         \/ WalkReaders \/ ClearQuiescent \/ EndWalk \/ Drain \/ Func
         \/ WaitStep
         \/ \E t \in Threads :
              \/ rcu_register_thread(t) \/ rcu_unregister_thread(t)
              \/ rcu_read_lock(t) \/ Publish(t) \/ rcu_read_unlock(t)
              \/ CheckWaiting(t) \/ ClearWaiting(t)
         \/ \E p \in Procs : call_rcu1(p) \/ Link(p) \/ Count(p) \/ EventSet(p)
         \/ UNCHANGED vars
BY DEF Next, call_rcu_thread, Begin, Continue

\* An odd counter stays odd, and not zero, when an unsigned is made of it.
LEMMA OddNotZero ==
  ASSUME NEW x \in Nat, x % 2 = 1
  PROVE  /\ x % UintMod # 0 /\ x % UintMod \in Nat /\ x % UintMod <= x
         /\ (x + 2) % 2 = 1
<1>1. UintMod \in Nat \ {0} /\ UintMod % 2 = 0 BY RcuAssumption
<1>2. PICK k \in Nat : UintMod = 2 * k BY <1>1
<1> DEFINE q == x \div UintMod
           r == x % UintMod
<1>3. x = UintMod * q + r /\ q \in Nat /\ r \in Nat BY <1>1
<1>4. r # 0
  <2>1. SUFFICES ASSUME r = 0 PROVE FALSE OBVIOUS
  <2>2. x = 2 * (k * q) BY <1>2, <1>3, <2>1
  <2>3. k * q \in Nat BY <1>2, <1>3
  <2> HIDE DEF q
  <2>4. QED BY <2>2, <2>3
<1>5. UintMod * q \in Nat BY <1>1, <1>3
<1>6. r <= x 
  <2> HIDE DEF q, r
  <2>1. QED BY <1>3, <1>5
<1>7. QED BY <1>3, <1>4, <1>6

-----------------------------------------------------------------------------
(* The invariant is kept, part by part.                                    *)

USE DEF vars, gpVars, readerVars, queueVars, threadVars, calmVars, syncVars

\* What try_dequeue does to the queue: a node leaves, and the dummy comes back.
LEMMA TailOf ==
  ASSUME NEW S, NEW s \in Seq(S), Len(s) > 1
  PROVE  /\ Tail(s) \in Seq(S) /\ Len(Tail(s)) = Len(s) - 1
         /\ \A i \in 1 .. Len(s) - 1 : Tail(s)[i] = s[i + 1]
         /\ Head(s) = s[1] /\ Head(s) \in S
OBVIOUS

\* The first element of a queue goes, another one is appended.
LEMMA Rotated ==
  ASSUME NEW S, NEW s \in Seq(S), Len(s) > 1, NEW d \in S
  PROVE  LET r == Append(Tail(s), d)
         IN  /\ r \in Seq(S) /\ Len(r) = Len(s) /\ r[Len(s)] = d
             /\ \A i \in 1 .. Len(s) - 1 : r[i] = s[i + 1]
<1>1. Tail(s) \in Seq(S) /\ Len(Tail(s)) = Len(s) - 1 /\ Len(s) \in Nat
      /\ \A i \in 1 .. Len(s) - 1 : Tail(s)[i] = s[i + 1]
  BY TailOf
<1>2. QED BY <1>1

\* The number of those who have not counted their node.
LEMMA UncountedNat == IsFiniteSet(Uncounted) /\ Cardinality(Uncounted) \in Nat
<1>1. IsFiniteSet(Procs)
  BY RcuAssumption, FS_Union, FS_Singleton DEF Procs
<1>2. Uncounted \subseteq Procs BY DEF Uncounted
<1>3. IsFiniteSet(Uncounted) BY <1>1, <1>2, FS_Subset
<1>4. QED BY <1>3, FS_CardinalityType

\* The three things the loop over the callbacks does: it ends, or has to wait
\* for a node to be linked; it takes the dummy round; it takes a node out.
Stays ==
  /\ UNCHANGED <<queue, linked, cur, n>>
  /\ \/ rpc = "drain" /\ n = 0 /\ rpc' = "top" /\ UNCHANGED why
     \/ rpc = "drain" /\ n > 0 /\ rpc' = "d_reset" /\ UNCHANGED why
     \/ rpc = "d_try" /\ rpc' = "wait" /\ why' = "drain"
Rotates ==
  /\ Len(queue) > 1 /\ n > 0 /\ queue[1] = Dummy
  /\ rpc \in {"drain", "d_try"} /\ UNCHANGED <<rpc, cur, n>>
  /\ why' \in {why, "drain"} /\ linked' = linked \cup {Dummy}
  /\ queue' \in Seq(Nodes \cup {Dummy}) /\ Len(queue') = Len(queue)
  /\ \A i \in 1 .. Len(queue) - 1 : queue'[i] = queue[i + 1]
  /\ queue'[Len(queue)] = Dummy
Pops ==
  /\ Len(queue) > 1 /\ n > 0 /\ queue[1] # Dummy /\ queue[1] \in Nodes
  /\ rpc \in {"drain", "d_try"} /\ rpc' = "func"
  /\ cur' = queue[1] /\ n' = n - 1 /\ why' \in {why, "drain"}
  /\ UNCHANGED linked
  /\ queue' \in Seq(Nodes \cup {Dummy}) /\ Len(queue') = Len(queue) - 1
  /\ \A i \in 1 .. Len(queue) - 1 : queue'[i] = queue[i + 1]

\* try_dequeue fails, moves the dummy node behind the others, or takes a callback.
LEMMA DrainCases ==
  ASSUME SafeInv, Drain
  PROVE  /\ Stays \/ Rotates \/ Pops
         /\ UNCHANGED <<gpVars, event, readerVars, rcu_call_count, called,
                        invoked, node, pc, tries, todo, pre>>
<1> SUFFICES Stays \/ Rotates \/ Pops BY DEF Drain
<1>1. /\ queue \in Seq(Nodes \cup {Dummy}) /\ n \in Nat
      /\ why \in Why /\ rcu_call_count \in Nat
  BY DEF SafeInv, TypeOK
<1>2. rpc \in {"drain", "d_try"} BY DEF Drain
<1>3. rpc = "d_try" => n > 0 BY DEF SafeInv, Counted
<1>4. n > 0 => Len(queue) > 1 /\ queue # <<Dummy>>
  <2>1. Len(queue) = 1 + n + rcu_call_count + Cardinality(Uncounted)
    BY <1>2 DEF SafeInv, Counted, Taken, Draining
  <2>2. QED BY <1>1, <2>1, UncountedNat
<1>5. CASE n = 0
  BY <1>1, <1>3, <1>5 DEF Drain, Stays
<1>6. CASE n > 0
  <2> DEFINE wait == IF rpc = "drain" THEN "d_reset" ELSE "wait"
  <2>1. /\ try_dequeue(wait)
        /\ why' = IF rpc = "drain" THEN why ELSE "drain"
    BY <1>1, <1>2, <1>6 DEF Drain
  <2>2. Len(queue) > 1 /\ Head(queue) = queue[1] /\ queue[1] \in Nodes \cup {Dummy}
    BY <1>1, <1>4, <1>6, TailOf
  <2>3. CASE queue[2] \notin linked
    BY <2>1, <2>2, <2>3, <1>4, <1>6, <1>2 DEF try_dequeue, Stays
  <2>4. CASE queue[2] \in linked /\ queue[1] = Dummy
    <3>1. /\ queue' = Append(Tail(queue), Dummy) /\ linked' = linked \cup {Dummy}
          /\ UNCHANGED <<rpc, cur, n>>
      BY <2>1, <2>2, <2>4, <1>4, <1>6 DEF try_dequeue
    <3>2. /\ queue' \in Seq(Nodes \cup {Dummy}) /\ Len(queue') = Len(queue)
          /\ \A i \in 1 .. Len(queue) - 1 : queue'[i] = queue[i + 1]
          /\ queue'[Len(queue)] = Dummy
      BY <1>1, <2>2, <3>1, Rotated
    <3>3. QED BY <1>2, <1>6, <2>1, <2>2, <2>4, <3>1, <3>2 DEF Rotates
  <2>5. CASE queue[2] \in linked /\ queue[1] # Dummy
    <3>1. /\ queue' = Tail(queue) /\ cur' = queue[1] /\ n' = n - 1
          /\ rpc' = "func" /\ UNCHANGED linked
      BY <2>1, <2>2, <2>5, <1>4, <1>6 DEF try_dequeue
    <3>2. /\ queue' \in Seq(Nodes \cup {Dummy}) /\ Len(queue') = Len(queue) - 1
          /\ \A i \in 1 .. Len(queue) - 1 : queue'[i] = queue[i + 1]
      BY <1>1, <2>2, <3>1, TailOf
    <3>3. QED BY <1>2, <1>6, <2>1, <2>2, <2>5, <3>1, <3>2 DEF Pops
  <2>6. QED BY <2>3, <2>4, <2>5
<1>7. QED BY <1>1, <1>5, <1>6

\* Where the call_rcu thread goes on from qemu_event_wait.
LEMMA ResumeCases ==
  ASSUME why \in Why
  PROVE  \/ why = "idle" /\ Resume = "recount" /\ Awaited = "call"
         \/ why = "gp" /\ Resume = "gp_reset" /\ Awaited = "gp"
         \/ why = "drain" /\ Resume = "drain" /\ Awaited = "call"
BY DEF Why, Resume, Awaited

\* The state keeps its types.
LEMMA TypeStep ==
  ASSUME SafeInv, [Next]_vars
  PROVE  TypeOK'
<1>0. TypeOK BY DEF SafeInv
<1>1. CASE ReadCount
  BY <1>1, <1>0, RcuAssumption DEF TypeOK, Rpc, Pc, Why, Procs, ReadCount
<1>2. CASE TestCount
  BY <1>2, <1>0, RcuAssumption DEF TypeOK, Rpc, Pc, Why, Procs, TestCount
<1>3. CASE ResetCallEvent
  BY <1>3, <1>0 DEF TypeOK, Rpc, Pc, Why, Procs, ResetCallEvent, Reset
<1>4. CASE RecheckCount
  BY <1>4, <1>0 DEF TypeOK, Rpc, Pc, Why, Procs, RecheckCount
<1>5. CASE TakeCount
  BY <1>5, <1>0 DEF TypeOK, Rpc, Pc, Why, Procs, TakeCount, SafeInv, Counted
<1>6. CASE synchronize_rcu
  BY <1>6, <1>0, OddNotZero DEF TypeOK, Rpc, Pc, Why, Procs, synchronize_rcu
<1>7. CASE ResetGpEvent
  BY <1>7, <1>0 DEF TypeOK, Rpc, Pc, Why, Procs, ResetGpEvent, Reset
<1>8. CASE MarkReaders
  BY <1>8, <1>0 DEF TypeOK, Rpc, Pc, Why, Procs, MarkReaders
<1>9. CASE WalkReaders
  BY <1>9, <1>0 DEF TypeOK, Rpc, Pc, Why, Procs, WalkReaders,
      rcu_gp_ongoing, SafeInv, Lists
<1>10. CASE ClearQuiescent
  BY <1>10, <1>0 DEF TypeOK, Rpc, Pc, Why, Procs, ClearQuiescent
<1>11. CASE EndWalk
  BY <1>11, <1>0 DEF TypeOK, Rpc, Pc, Why, Procs, EndWalk
<1>12. CASE Drain
  BY <1>12, <1>0, DrainCases
     DEF TypeOK, Rpc, Why, Stays, Rotates, Pops
<1>13. CASE Func
  BY <1>13, <1>0 DEF TypeOK, Rpc, Pc, Why, Procs, Func, SafeInv, QueueShape,
      Control
<1>14. CASE WaitStep
  BY <1>14, <1>0, ResumeCases DEF TypeOK, Rpc, Pc, Why, Procs, WaitStep,
      Wait, FutexWait, SpuriousWakeup
<1>15. ASSUME NEW t \in Threads, rcu_register_thread(t) PROVE TypeOK'
  BY <1>15, <1>0 DEF TypeOK, Rpc, Pc, Why, Procs, rcu_register_thread
<1>16. ASSUME NEW t \in Threads, rcu_unregister_thread(t) PROVE TypeOK'
  BY <1>16, <1>0 DEF TypeOK, Rpc, Pc, Why, Procs, rcu_unregister_thread
<1>17. ASSUME NEW t \in Threads, rcu_read_lock(t) PROVE TypeOK'
  <2>1. local' \in [Threads -> Nat] 
    BY <1>17, <1>0, OddNotZero DEF TypeOK, rcu_read_lock
  <2>2. depth' \in [Threads -> 0 .. MaxNesting]
    BY <1>17, <1>0, RcuAssumption DEF TypeOK, rcu_read_lock
  <2>3. pc' \in [Procs -> Pc]
    BY <1>17, <1>0 DEF TypeOK, rcu_read_lock, Pc, Procs
  <2>4. QED BY <1>17, <1>0, <2>1, <2>2, <2>3 DEF TypeOK, rcu_read_lock
<1>18. ASSUME NEW t \in Threads, Publish(t) PROVE TypeOK'
  BY <1>18, <1>0 DEF TypeOK, Rpc, Pc, Why, Procs, Publish
<1>19. ASSUME NEW t \in Threads, rcu_read_unlock(t) PROVE TypeOK'
  BY <1>19, <1>0, RcuAssumption DEF TypeOK, Rpc, Pc, Why, Procs,
      rcu_read_unlock
<1>20. ASSUME NEW t \in Threads, CheckWaiting(t) PROVE TypeOK'
  BY <1>20, <1>0 DEF TypeOK, Rpc, Pc, Why, Procs, CheckWaiting
<1>21. ASSUME NEW t \in Threads, ClearWaiting(t) PROVE TypeOK'
  BY <1>21, <1>0 DEF TypeOK, Rpc, Pc, Why, Procs, ClearWaiting
<1>22. ASSUME NEW p \in Procs, call_rcu1(p) PROVE TypeOK'
  BY <1>22, <1>0 DEF TypeOK, Rpc, Pc, Why, Procs, call_rcu1
<1>23. ASSUME NEW p \in Procs, Link(p) PROVE TypeOK'
  BY <1>23, <1>0 DEF TypeOK, Rpc, Pc, Why, Procs, Link, SafeInv, Control
<1>24. ASSUME NEW p \in Procs, Count(p) PROVE TypeOK'
  BY <1>24, <1>0 DEF TypeOK, Rpc, Pc, Why, Procs, Count
<1>25. ASSUME NEW p \in Procs, EventSet(p) PROVE TypeOK'
  <2>1. /\ pc \in [Procs -> Pc] /\ node \in [Procs -> Nodes \cup {NoNode}]
        /\ event \in [{"gp", "call"} -> {"set", "free", "busy"}]
        /\ rpc \in Rpc /\ why \in Why /\ EventOf(p) \in {"gp", "call"}
    BY <1>0 DEF TypeOK, EventOf
  <2>2. pc' \in [Procs -> Pc] /\ node' \in [Procs -> Nodes \cup {NoNode}]
    BY <1>25, <2>1 DEF EventSet, EndSet, Pc
  <2>3. event' \in [{"gp", "call"} -> {"set", "free", "busy"}]
    BY <1>25, <2>1 DEF EventSet
  <2>4. Resume \in Rpc BY <2>1, ResumeCases DEF Rpc
  <2>5. rpc' \in Rpc BY <1>25, <2>1, <2>4 DEF EventSet
  <2>6. UNCHANGED <<gpVars, readerVars, queue, linked, rcu_call_count, called,
                    invoked, n, tries, todo, why, cur, pre>>
    BY <1>25 DEF EventSet
  <2>7. QED
    BY <1>0, <2>2, <2>3, <2>5, <2>6 DEF TypeOK, gpVars, readerVars
<1>26. CASE UNCHANGED vars
  BY <1>26, <1>0 DEF TypeOK, Rpc, Pc, Why, Procs
<1>27. QED
  BY <1>1, <1>2, <1>3, <1>4, <1>5, <1>6, <1>7, <1>8, <1>9, <1>10, <1>11,
      <1>12, <1>13, <1>14, <1>15, <1>16, <1>17, <1>18, <1>19, <1>20, <1>21,
      <1>22, <1>23, <1>24, <1>25, <1>26, NextCases

\* Nobody is in two operations, and the call_rcu thread never aborts.
LEMMA ControlStep ==
  ASSUME SafeInv, [Next]_vars
  PROVE  NeverAborts' /\ Control'
<1>0. why \in Why /\ TypeOK /\ NeverAborts /\ Control /\ RcuThread \notin Threads
  BY RcuAssumption DEF SafeInv, TypeOK
<1>1. CASE ReadCount
  BY <1>1, <1>0 DEF NeverAborts, Control, TypeOK, Procs, ReadCount
<1>2. CASE TestCount
  BY <1>2, <1>0 DEF NeverAborts, Control, TypeOK, Procs, TestCount
<1>3. CASE ResetCallEvent
  BY <1>3, <1>0 DEF NeverAborts, Control, TypeOK, Procs, ResetCallEvent,
      Reset
<1>4. CASE RecheckCount
  BY <1>4, <1>0 DEF NeverAborts, Control, TypeOK, Procs, RecheckCount
<1>5. CASE TakeCount
  BY <1>5, <1>0 DEF NeverAborts, Control, TypeOK, Procs, TakeCount
<1>6. CASE synchronize_rcu
  BY <1>6, <1>0 DEF NeverAborts, Control, TypeOK, Procs, synchronize_rcu
<1>7. CASE ResetGpEvent
  BY <1>7, <1>0 DEF NeverAborts, Control, TypeOK, Procs, ResetGpEvent, Reset
<1>8. CASE MarkReaders
  BY <1>8, <1>0 DEF NeverAborts, Control, TypeOK, Procs, MarkReaders
<1>9. CASE WalkReaders
  BY <1>9, <1>0 DEF NeverAborts, Control, TypeOK, Procs, WalkReaders,
      rcu_gp_ongoing
<1>10. CASE ClearQuiescent
  BY <1>10, <1>0 DEF NeverAborts, Control, TypeOK, Procs, ClearQuiescent
<1>11. CASE EndWalk
  BY <1>11, <1>0 DEF NeverAborts, Control, TypeOK, Procs, EndWalk
<1>12. CASE Drain
  BY <1>12, <1>0, DrainCases, RcuAssumption
     DEF SafeInv, NeverAborts, Control, Procs, TypeOK, Stays, Rotates, Pops
<1>13. CASE Func
  BY <1>13, <1>0 DEF NeverAborts, Control, TypeOK, Procs, Func
<1>14. CASE WaitStep
  BY <1>14, <1>0, ResumeCases DEF NeverAborts, Control, TypeOK, Procs,
      WaitStep, Wait, FutexWait, SpuriousWakeup
<1>15. ASSUME NEW t \in Threads, rcu_register_thread(t) PROVE NeverAborts' /\ Control'
  BY <1>15, <1>0 DEF NeverAborts, Control, TypeOK, Procs,
      rcu_register_thread
<1>16. ASSUME NEW t \in Threads, rcu_unregister_thread(t) PROVE NeverAborts' /\ Control'
  BY <1>16, <1>0 DEF NeverAborts, Control, TypeOK, Procs,
      rcu_unregister_thread
<1>17. ASSUME NEW t \in Threads, rcu_read_lock(t) PROVE NeverAborts' /\ Control'
  BY <1>17, <1>0 DEF NeverAborts, Control, TypeOK, Procs, rcu_read_lock
<1>18. ASSUME NEW t \in Threads, Publish(t) PROVE NeverAborts' /\ Control'
  BY <1>18, <1>0 DEF NeverAborts, Control, TypeOK, Procs, Publish
<1>19. ASSUME NEW t \in Threads, rcu_read_unlock(t) PROVE NeverAborts' /\ Control'
  BY <1>19, <1>0 DEF NeverAborts, Control, TypeOK, Procs, rcu_read_unlock
<1>20. ASSUME NEW t \in Threads, CheckWaiting(t) PROVE NeverAborts' /\ Control'
  BY <1>20, <1>0 DEF NeverAborts, Control, TypeOK, Procs, CheckWaiting
<1>21. ASSUME NEW t \in Threads, ClearWaiting(t) PROVE NeverAborts' /\ Control'
  BY <1>21, <1>0 DEF NeverAborts, Control, TypeOK, Procs, ClearWaiting
<1>22. ASSUME NEW p \in Procs, call_rcu1(p) PROVE NeverAborts' /\ Control'
  BY <1>22, <1>0 DEF NeverAborts, Control, TypeOK, Procs, call_rcu1
<1>23. ASSUME NEW p \in Procs, Link(p) PROVE NeverAborts' /\ Control'
  BY <1>23, <1>0 DEF NeverAborts, Control, TypeOK, Procs, Link
<1>24. ASSUME NEW p \in Procs, Count(p) PROVE NeverAborts' /\ Control'
  BY <1>24, <1>0 DEF NeverAborts, Control, TypeOK, Procs, Count
<1>25. ASSUME NEW p \in Procs, EventSet(p) PROVE NeverAborts' /\ Control'
  <2>1. \/ UNCHANGED rpc
        \/ rpc = "asleep" /\ rpc' \in {"recount", "gp_reset", "drain"}
    BY <1>25, <1>0, ResumeCases DEF EventSet
  <2>2. \/ /\ pc' = [pc EXCEPT ![p] = "run"]
           /\ node' = [node EXCEPT ![p] = NoNode]
        \/ /\ \E v \in {"set_xchg", "wake"} : pc' = [pc EXCEPT ![p] = v]
           /\ pc[p] # "run" /\ UNCHANGED node
    BY <1>25, <1>0 DEF EventSet, EndSet
  <2>3. NeverAborts' BY <1>0, <2>1 DEF NeverAborts
  <2>4. Control'
    <3>1. CASE UNCHANGED rpc
      BY <1>0, <2>2, <3>1 DEF Control, TypeOK, Procs
    <3>2. CASE rpc = "asleep"
      BY <1>0, <2>2, <3>2 DEF Control, TypeOK, Procs
    <3>3. QED BY <2>1, <3>1, <3>2
  <2>5. QED BY <2>3, <2>4
<1>26. CASE UNCHANGED vars
  BY <1>26, <1>0 DEF NeverAborts, Control, TypeOK, Procs
<1>27. QED
  BY <1>1, <1>2, <1>3, <1>4, <1>5, <1>6, <1>7, <1>8, <1>9, <1>10, <1>11,
      <1>12, <1>13, <1>14, <1>15, <1>16, <1>17, <1>18, <1>19, <1>20, <1>21,
      <1>22, <1>23, <1>24, <1>25, <1>26, NextCases

\* What readers publish.
LEMMA PublishedStep ==
  ASSUME SafeInv, [Next]_vars
  PROVE  Published'
<1>0. why \in Why /\ TypeOK /\ Published /\ Control /\ RcuThread \notin Threads
  BY RcuAssumption DEF SafeInv, TypeOK
<1>1. CASE ReadCount
  BY <1>1, <1>0 DEF Published, TypeOK, InSection, Control, Procs, ReadCount
<1>2. CASE TestCount
  BY <1>2, <1>0 DEF Published, TypeOK, InSection, Control, Procs, TestCount
<1>3. CASE ResetCallEvent
  BY <1>3, <1>0 DEF Published, TypeOK, InSection, Control, Procs,
      ResetCallEvent, Reset
<1>4. CASE RecheckCount
  BY <1>4, <1>0 DEF Published, TypeOK, InSection, Control, Procs,
      RecheckCount
<1>5. CASE TakeCount
  BY <1>5, <1>0 DEF Published, TypeOK, InSection, Control, Procs, TakeCount
<1>6. CASE synchronize_rcu
  BY <1>6, <1>0 DEF Published, TypeOK, InSection, Control, Procs,
      synchronize_rcu
<1>7. CASE ResetGpEvent
  BY <1>7, <1>0 DEF Published, TypeOK, InSection, Control, Procs,
      ResetGpEvent, Reset
<1>8. CASE MarkReaders
  BY <1>8, <1>0 DEF Published, TypeOK, InSection, Control, Procs,
      MarkReaders
<1>9. CASE WalkReaders
  BY <1>9, <1>0 DEF Published, TypeOK, InSection, Control, Procs,
      WalkReaders, rcu_gp_ongoing
<1>10. CASE ClearQuiescent
  BY <1>10, <1>0 DEF Published, TypeOK, InSection, Control, Procs,
      ClearQuiescent
<1>11. CASE EndWalk
  BY <1>11, <1>0 DEF Published, TypeOK, InSection, Control, Procs, EndWalk
<1>12. CASE Drain
  BY <1>12, <1>0, DrainCases DEF Published, InSection
<1>13. CASE Func
  BY <1>13, <1>0 DEF Published, TypeOK, InSection, Control, Procs, Func
<1>14. CASE WaitStep
  BY <1>14, <1>0, ResumeCases DEF Published, TypeOK, InSection, Control,
      Procs, WaitStep, Wait, FutexWait, SpuriousWakeup
<1>15. ASSUME NEW t \in Threads, rcu_register_thread(t) PROVE Published'
  BY <1>15, <1>0 DEF Published, TypeOK, InSection, Control, Procs,
      rcu_register_thread
<1>16. ASSUME NEW t \in Threads, rcu_unregister_thread(t) PROVE Published'
  BY <1>16, <1>0 DEF Published, TypeOK, InSection, Control, Procs,
      rcu_unregister_thread
<1>17. ASSUME NEW t \in Threads, rcu_read_lock(t) PROVE Published'
  BY <1>17, <1>0, OddNotZero DEF Published, TypeOK, InSection, Control,
      Procs, rcu_read_lock
<1>18. ASSUME NEW t \in Threads, Publish(t) PROVE Published'
  BY <1>18, <1>0 DEF Published, TypeOK, InSection, Control, Procs, Publish
<1>19. ASSUME NEW t \in Threads, rcu_read_unlock(t) PROVE Published'
  BY <1>19, <1>0 DEF Published, TypeOK, InSection, Control, Procs,
      rcu_read_unlock
<1>20. ASSUME NEW t \in Threads, CheckWaiting(t) PROVE Published'
  BY <1>20, <1>0 DEF Published, TypeOK, InSection, Control, Procs,
      CheckWaiting
<1>21. ASSUME NEW t \in Threads, ClearWaiting(t) PROVE Published'
  BY <1>21, <1>0 DEF Published, TypeOK, InSection, Control, Procs,
      ClearWaiting
<1>22. ASSUME NEW p \in Procs, call_rcu1(p) PROVE Published'
  BY <1>22, <1>0 DEF Published, TypeOK, InSection, Control, Procs, call_rcu1
<1>23. ASSUME NEW p \in Procs, Link(p) PROVE Published'
  BY <1>23, <1>0 DEF Published, TypeOK, InSection, Control, Procs, Link
<1>24. ASSUME NEW p \in Procs, Count(p) PROVE Published'
  BY <1>24, <1>0 DEF Published, TypeOK, InSection, Control, Procs, Count
<1>25. ASSUME NEW p \in Procs, EventSet(p) PROVE Published'
  BY <1>25, <1>0, ResumeCases DEF Published, TypeOK, InSection, Control,
      Procs, EventSet, EndSet, EventOf
<1>26. CASE UNCHANGED vars
  BY <1>26, <1>0 DEF Published, TypeOK, InSection, Control, Procs
<1>27. QED
  BY <1>1, <1>2, <1>3, <1>4, <1>5, <1>6, <1>7, <1>8, <1>9, <1>10, <1>11,
      <1>12, <1>13, <1>14, <1>15, <1>16, <1>17, <1>18, <1>19, <1>20, <1>21,
      <1>22, <1>23, <1>24, <1>25, <1>26, NextCases

\* The lists of readers.
LEMMA ListsStep ==
  ASSUME SafeInv, [Next]_vars
  PROVE  Lists'
<1>0. why \in Why /\ TypeOK /\ Lists BY DEF SafeInv, TypeOK
<1>1. CASE ReadCount
  BY <1>1, <1>0 DEF Lists, TypeOK, GpLockFree, WaitingGp, Waiting, ReadCount
<1>2. CASE TestCount
  BY <1>2, <1>0 DEF Lists, TypeOK, GpLockFree, WaitingGp, Waiting, TestCount
<1>3. CASE ResetCallEvent
  BY <1>3, <1>0 DEF Lists, TypeOK, GpLockFree, WaitingGp, Waiting,
      ResetCallEvent, Reset
<1>4. CASE RecheckCount
  BY <1>4, <1>0 DEF Lists, TypeOK, GpLockFree, WaitingGp, Waiting,
      RecheckCount
<1>5. CASE TakeCount
  BY <1>5, <1>0 DEF Lists, TypeOK, GpLockFree, WaitingGp, Waiting, TakeCount
<1>6. CASE synchronize_rcu
  BY <1>6, <1>0 DEF Lists, TypeOK, GpLockFree, WaitingGp, Waiting,
      synchronize_rcu
<1>7. CASE ResetGpEvent
  BY <1>7, <1>0 DEF Lists, TypeOK, GpLockFree, WaitingGp, Waiting,
      ResetGpEvent, Reset
<1>8. CASE MarkReaders
  BY <1>8, <1>0 DEF Lists, TypeOK, GpLockFree, WaitingGp, Waiting,
      MarkReaders
<1>9. CASE WalkReaders
  BY <1>9, <1>0 DEF Lists, TypeOK, GpLockFree, WaitingGp, Waiting,
      WalkReaders, rcu_gp_ongoing
<1>10. CASE ClearQuiescent
  BY <1>10, <1>0 DEF Lists, TypeOK, GpLockFree, WaitingGp, Waiting,
      ClearQuiescent
<1>11. CASE EndWalk
  BY <1>11, <1>0 DEF Lists, TypeOK, GpLockFree, WaitingGp, Waiting, EndWalk
<1>12. CASE Drain
  BY <1>12, <1>0, DrainCases
     DEF Lists, TypeOK, GpLockFree, WaitingGp, Waiting, Stays, Rotates, Pops
<1>13. CASE Func
  BY <1>13, <1>0 DEF Lists, TypeOK, GpLockFree, WaitingGp, Waiting, Func
<1>14. CASE WaitStep
  BY <1>14, <1>0, ResumeCases DEF Lists, TypeOK, GpLockFree, WaitingGp,
      Waiting, WaitStep, Wait, FutexWait, SpuriousWakeup
<1>15. ASSUME NEW t \in Threads, rcu_register_thread(t) PROVE Lists'
  BY <1>15, <1>0 DEF Lists, TypeOK, GpLockFree, WaitingGp, Waiting,
      rcu_register_thread
<1>16. ASSUME NEW t \in Threads, rcu_unregister_thread(t) PROVE Lists'
  BY <1>16, <1>0 DEF Lists, TypeOK, GpLockFree, WaitingGp, Waiting,
      rcu_unregister_thread
<1>17. ASSUME NEW t \in Threads, rcu_read_lock(t) PROVE Lists'
  BY <1>17, <1>0 DEF Lists, TypeOK, GpLockFree, WaitingGp, Waiting,
      rcu_read_lock
<1>18. ASSUME NEW t \in Threads, Publish(t) PROVE Lists'
  BY <1>18, <1>0 DEF Lists, TypeOK, GpLockFree, WaitingGp, Waiting, Publish
<1>19. ASSUME NEW t \in Threads, rcu_read_unlock(t) PROVE Lists'
  BY <1>19, <1>0 DEF Lists, TypeOK, GpLockFree, WaitingGp, Waiting,
      rcu_read_unlock
<1>20. ASSUME NEW t \in Threads, CheckWaiting(t) PROVE Lists'
  BY <1>20, <1>0 DEF Lists, TypeOK, GpLockFree, WaitingGp, Waiting,
      CheckWaiting
<1>21. ASSUME NEW t \in Threads, ClearWaiting(t) PROVE Lists'
  BY <1>21, <1>0 DEF Lists, TypeOK, GpLockFree, WaitingGp, Waiting,
      ClearWaiting
<1>22. ASSUME NEW p \in Procs, call_rcu1(p) PROVE Lists'
  BY <1>22, <1>0 DEF Lists, TypeOK, GpLockFree, WaitingGp, Waiting,
      call_rcu1
<1>23. ASSUME NEW p \in Procs, Link(p) PROVE Lists'
  BY <1>23, <1>0 DEF Lists, TypeOK, GpLockFree, WaitingGp, Waiting, Link
<1>24. ASSUME NEW p \in Procs, Count(p) PROVE Lists'
  BY <1>24, <1>0 DEF Lists, TypeOK, GpLockFree, WaitingGp, Waiting, Count
<1>25. ASSUME NEW p \in Procs, EventSet(p) PROVE Lists'
  BY <1>25, <1>0, ResumeCases DEF Lists, TypeOK, GpLockFree, WaitingGp,
      Waiting, EventSet, EndSet, EventOf
<1>26. CASE UNCHANGED vars
  BY <1>26, <1>0 DEF Lists, TypeOK, GpLockFree, WaitingGp, Waiting
<1>27. QED
  BY <1>1, <1>2, <1>3, <1>4, <1>5, <1>6, <1>7, <1>8, <1>9, <1>10, <1>11,
      <1>12, <1>13, <1>14, <1>15, <1>16, <1>17, <1>18, <1>19, <1>20, <1>21,
      <1>22, <1>23, <1>24, <1>25, <1>26, NextCases

\* A node is added to the end.
LEMMA Appended ==
  ASSUME NEW S, NEW s \in Seq(S), NEW d \in S
  PROVE  LET r == Append(s, d)
         IN  /\ r \in Seq(S) /\ Len(r) = Len(s) + 1 /\ r[Len(s) + 1] = d
             /\ \A i \in 1 .. Len(s) : r[i] = s[i]
OBVIOUS

\* The nodes of the queue stay different.
LEMMA QueueStep ==
  ASSUME SafeInv, [Next]_vars
  PROVE  QueueShape'
<1>0. TypeOK /\ QueueShape /\ why \in Why BY DEF SafeInv, TypeOK
<1>1. CASE Drain
  <2>1. UNCHANGED called BY <1>1, DrainCases
  <2>2. CASE Stays BY <1>0, <2>1, <2>2 DEF Stays, QueueShape
  <2>3. CASE Rotates
    <3>1. /\ rpc' # "func" /\ Len(queue) \in Nat /\ Len(queue) > 1
          /\ Len(queue') = Len(queue) /\ queue[1] = Dummy
          /\ queue'[Len(queue)] = Dummy
          /\ \A i \in 1 .. Len(queue) - 1 : queue'[i] = queue[i + 1]
      BY <1>0, <2>3 DEF Rotates, TypeOK
    <3>2. \A i \in 1 .. Len(queue) - 1 : queue[i + 1] # Dummy
      BY <1>0, <3>1 DEF QueueShape
    <3>3. QED BY <1>0, <2>1, <3>1, <3>2 DEF QueueShape
  <2>4. CASE Pops
    <3>1. /\ cur' = queue[1] /\ queue[1] # Dummy
          /\ Len(queue) \in Nat /\ Len(queue) > 1
          /\ Len(queue') = Len(queue) - 1
          /\ \A i \in 1 .. Len(queue) - 1 : queue'[i] = queue[i + 1]
      BY <1>0, <2>4 DEF Pops, TypeOK
    <3>2. PICK d \in 1 .. Len(queue) : queue[d] = Dummy
      BY <1>0 DEF QueueShape
    <3>3. d - 1 \in 1 .. Len(queue') /\ queue'[d - 1] = Dummy
      BY <3>1, <3>2
    <3>4. \A i, j \in 1 .. Len(queue') : queue'[i] = queue'[j] => i = j
      <4>1. TAKE i, j \in 1 .. Len(queue')
      <4>2. /\ i + 1 \in 1 .. Len(queue) /\ j + 1 \in 1 .. Len(queue)
            /\ queue'[i] = queue[i + 1] /\ queue'[j] = queue[j + 1]
        BY <3>1
      <4>3. queue[i + 1] = queue[j + 1] => i + 1 = j + 1
        BY <1>0, <4>2 DEF QueueShape
      <4>4. QED BY <3>1, <4>2, <4>3
    <3>5. \A i \in 1 .. Len(queue') : queue'[i] # Dummy => queue'[i] \in called
      BY <1>0, <3>1 DEF QueueShape
    <3>6. cur' \in called BY <1>0, <3>1 DEF QueueShape
    <3>7. QED BY <2>1, <3>3, <3>4, <3>5, <3>6 DEF QueueShape
  <2>5. QED BY <1>1, <2>2, <2>3, <2>4, DrainCases
<1>2. CASE Func
  BY <1>2, <1>0 DEF QueueShape, Func
<1>3. CASE WaitStep
  BY <1>3, <1>0, ResumeCases DEF QueueShape, WaitStep, Wait, FutexWait,
      SpuriousWakeup
<1>4. ASSUME NEW p \in Procs, call_rcu1(p) PROVE QueueShape'
  <2>1. PICK m \in Nodes \ called : /\ queue' = Append(queue, m)
                                    /\ called' = called \cup {m}
    BY <1>4 DEF call_rcu1
  <2>2. /\ Len(queue') = Len(queue) + 1 /\ queue'[Len(queue) + 1] = m
        /\ \A i \in 1 .. Len(queue) : queue'[i] = queue[i]
    BY <1>0, <2>1, Appended DEF TypeOK
  <2>3. m # Dummy /\ \A i \in 1 .. Len(queue) : queue[i] # m
    BY <1>0, <2>1, RcuAssumption DEF QueueShape
  <2>4. Len(queue) \in Nat BY <1>0 DEF TypeOK
  <2>5. rpc' = rpc /\ cur' = cur BY <1>4 DEF call_rcu1
  <2>6. QED BY <1>0, <2>1, <2>2, <2>3, <2>4, <2>5 DEF QueueShape
<1>5. ASSUME NEW p \in Procs, EventSet(p) PROVE QueueShape'
  BY <1>5, <1>0, ResumeCases DEF QueueShape, EventSet, EndSet, EventOf
<1>6. CASE ReadCount \/ TestCount \/ ResetCallEvent \/ RecheckCount \/
    TakeCount \/ synchronize_rcu \/ ResetGpEvent \/ MarkReaders \/ WalkReaders
    \/ ClearQuiescent \/ EndWalk
  BY <1>6, <1>0 DEF QueueShape, ReadCount, TestCount, ResetCallEvent, Reset,
      RecheckCount, TakeCount, synchronize_rcu, ResetGpEvent, MarkReaders,
      WalkReaders, ClearQuiescent, EndWalk
<1>7. ASSUME NEW t \in Threads, rcu_register_thread(t) \/
    rcu_unregister_thread(t) \/ rcu_read_lock(t) \/ Publish(t) \/
    rcu_read_unlock(t) \/ CheckWaiting(t) \/ ClearWaiting(t) PROVE QueueShape'
  BY <1>7, <1>0 DEF QueueShape, rcu_register_thread, rcu_unregister_thread,
      rcu_read_lock, Publish, rcu_read_unlock, CheckWaiting, ClearWaiting
<1>8. ASSUME NEW p \in Procs, Link(p) \/ Count(p) PROVE QueueShape'
  BY <1>8, <1>0 DEF QueueShape, Link, Count
<1>9. CASE UNCHANGED vars
  BY <1>9, <1>0 DEF QueueShape
<1>10. QED
  BY <1>1, <1>2, <1>3, <1>4, <1>5, <1>6, <1>7, <1>8, <1>9, NextCases

\* What a thread's step does to the number of uncounted nodes.
LEMMA UncountedUpdate ==
  ASSUME TypeOK, NEW p \in Procs, NEW v, pc' = [pc EXCEPT ![p] = v]
  PROVE  LET c == Cardinality(Uncounted)
             d == Cardinality(Uncounted')
             U == {"link", "count"}
         IN  /\ (pc[p] \in U <=> v \in U) => d = c
             /\ pc[p] \in U /\ v \notin U => d = c - 1
             /\ pc[p] \notin U /\ v \in U => d = c + 1
<1> DEFINE U == {"link", "count"}
<1>1. IsFiniteSet(Uncounted) BY UncountedNat
<1>2. Uncounted' = {x \in Procs : (IF x = p THEN v ELSE pc[x]) \in U}
  BY DEF Uncounted, TypeOK
<1>3. CASE pc[p] \in U <=> v \in U
  <2>1. Uncounted' = Uncounted BY <1>2, <1>3 DEF Uncounted
  <2>2. QED BY <1>3, <2>1
<1>4. CASE pc[p] \in U /\ v \notin U
  <2>1. Uncounted' = Uncounted \ {p} /\ p \in Uncounted
    BY <1>2, <1>4 DEF Uncounted
  <2>2. QED BY <1>1, <1>4, <2>1, FS_RemoveElement
<1>5. CASE pc[p] \notin U /\ v \in U
  <2>1. Uncounted' = Uncounted \cup {p} /\ p \notin Uncounted
    BY <1>2, <1>5 DEF Uncounted
  <2>2. QED BY <1>1, <1>5, <2>1, FS_AddElement
<1>6. QED BY <1>3, <1>4, <1>5

\* The counter counts the nodes of the queue.
LEMMA CountedStep ==
  ASSUME SafeInv, [Next]_vars
  PROVE  Counted'
<1>0. /\ TypeOK /\ Counted /\ Control /\ why \in Why /\ n \in Nat
      /\ rcu_call_count \in Nat /\ Cardinality(Uncounted) \in Nat
  BY UncountedNat DEF SafeInv, TypeOK
<1>u. UNCHANGED pc => Cardinality(Uncounted') = Cardinality(Uncounted)
  BY DEF Uncounted
<1>1. CASE ReadCount
  BY <1>1, <1>0, <1>u DEF Counted, Taken, InGp, Draining, WaitingGp,
      Waiting, ReadCount, TypeOK
<1>2. CASE TestCount
  BY <1>2, <1>0, <1>u DEF Counted, Taken, InGp, Draining, WaitingGp,
      Waiting, TestCount
<1>3. CASE ResetCallEvent
  BY <1>3, <1>0, <1>u DEF Counted, Taken, InGp, Draining, WaitingGp,
      Waiting, ResetCallEvent, Reset
<1>4. CASE RecheckCount
  BY <1>4, <1>0, <1>u DEF Counted, Taken, InGp, Draining, WaitingGp,
      Waiting, RecheckCount, TypeOK
<1>5. CASE TakeCount
  BY <1>5, <1>0, <1>u DEF Counted, Taken, InGp, Draining, WaitingGp,
      Waiting, TakeCount, TypeOK
<1>6. CASE synchronize_rcu
  BY <1>6, <1>0, <1>u DEF Counted, Taken, InGp, Draining, WaitingGp,
      Waiting, synchronize_rcu
<1>7. CASE ResetGpEvent
  BY <1>7, <1>0, <1>u DEF Counted, Taken, InGp, Draining, WaitingGp,
      Waiting, ResetGpEvent, Reset
<1>8. CASE MarkReaders
  BY <1>8, <1>0, <1>u DEF Counted, Taken, InGp, Draining, WaitingGp,
      Waiting, MarkReaders
<1>9. CASE WalkReaders
  BY <1>9, <1>0, <1>u DEF Counted, Taken, InGp, Draining, WaitingGp,
      Waiting, WalkReaders, rcu_gp_ongoing
<1>10. CASE ClearQuiescent
  BY <1>10, <1>0, <1>u DEF Counted, Taken, InGp, Draining, WaitingGp,
      Waiting, ClearQuiescent
<1>11. CASE EndWalk
  BY <1>11, <1>0, <1>u DEF Counted, Taken, InGp, Draining, WaitingGp,
      Waiting, EndWalk
<1>12. CASE Drain
  <2>1. /\ UNCHANGED <<rcu_call_count, pc>> /\ Len(queue) \in Nat
        /\ rcu_call_count \in Nat
    BY <1>12, <1>0, DrainCases DEF TypeOK
  <2>2. CASE Stays
    BY <1>0, <1>u, <2>1, <2>2
       DEF Stays, Counted, Taken, InGp, Draining, WaitingGp, Waiting
  <2>3. CASE Rotates
    BY <1>0, <1>u, <2>1, <2>3
       DEF Rotates, Counted, Taken, InGp, Draining, WaitingGp, Waiting
  <2>4. CASE Pops
    BY <1>0, <1>u, <2>1, <2>4
       DEF Pops, Counted, Taken, InGp, Draining, WaitingGp, Waiting
  <2>5. QED BY <1>12, <2>2, <2>3, <2>4, DrainCases
<1>13. CASE Func
  BY <1>13, <1>0, <1>u DEF Counted, Taken, InGp, Draining, WaitingGp,
      Waiting, Func
<1>14. CASE WaitStep
  BY <1>14, <1>0, <1>u, ResumeCases DEF Counted, Taken, InGp, Draining,
      WaitingGp, Waiting, WaitStep, Wait, FutexWait, SpuriousWakeup
<1>15. ASSUME NEW t \in Threads, rcu_register_thread(t) PROVE Counted'
  BY <1>15, <1>0, <1>u DEF Counted, Taken, InGp, Draining, WaitingGp,
      Waiting, rcu_register_thread
<1>16. ASSUME NEW t \in Threads, rcu_unregister_thread(t) PROVE Counted'
  BY <1>16, <1>0, <1>u DEF Counted, Taken, InGp, Draining, WaitingGp,
      Waiting, rcu_unregister_thread
<1>17. ASSUME NEW t \in Threads, rcu_read_lock(t) PROVE Counted'
  BY <1>17, <1>0, <1>u, UncountedUpdate DEF Counted, Taken, InGp, Draining,
      WaitingGp, Waiting, rcu_read_lock, Procs, TypeOK
<1>18. ASSUME NEW t \in Threads, Publish(t) PROVE Counted'
  BY <1>18, <1>0, <1>u, UncountedUpdate DEF Counted, Taken, InGp, Draining,
      WaitingGp, Waiting, Publish, Procs, TypeOK
<1>19. ASSUME NEW t \in Threads, rcu_read_unlock(t) PROVE Counted'
  BY <1>19, <1>0, <1>u, UncountedUpdate DEF Counted, Taken, InGp, Draining,
      WaitingGp, Waiting, rcu_read_unlock, Procs, TypeOK
<1>20. ASSUME NEW t \in Threads, CheckWaiting(t) PROVE Counted'
  <2>1. \E v \in {"run", "clear"} : pc' = [pc EXCEPT ![t] = v]
    BY <1>20 DEF CheckWaiting
  <2>2. Cardinality(Uncounted') = Cardinality(Uncounted)
    BY <1>20, <1>0, <2>1, UncountedUpdate DEF CheckWaiting, Procs
  <2>3. QED
    BY <1>20, <1>0, <2>2
       DEF CheckWaiting, Counted, Taken, InGp, Draining, WaitingGp, Waiting
<1>21. ASSUME NEW t \in Threads, ClearWaiting(t) PROVE Counted'
  BY <1>21, <1>0, <1>u, UncountedUpdate DEF Counted, Taken, InGp, Draining,
      WaitingGp, Waiting, ClearWaiting, Procs, TypeOK
<1>22. ASSUME NEW p \in Procs, call_rcu1(p) PROVE Counted'
  <2>1. PICK m \in Nodes \ called : queue' = Append(queue, m)
    BY <1>22 DEF call_rcu1
  <2>2. Len(queue') = Len(queue) + 1
    BY <1>0, <2>1, Appended DEF TypeOK
  <2>3. Cardinality(Uncounted') = Cardinality(Uncounted) + 1
    BY <1>22, <1>0, UncountedUpdate DEF call_rcu1
  <2>4. Len(queue) \in Nat /\ n \in Nat /\ rcu_call_count \in Nat
    BY <1>0 DEF TypeOK
  <2>5. UNCHANGED <<rpc, why, n, rcu_call_count>> BY <1>22 DEF call_rcu1
  <2>6. QED
    BY <1>0, <2>2, <2>3, <2>4, <2>5
       DEF Counted, Taken, InGp, Draining, WaitingGp, Waiting
<1>23. ASSUME NEW p \in Procs, Link(p) PROVE Counted'
  BY <1>23, <1>0, <1>u, UncountedUpdate DEF Counted, Taken, InGp, Draining,
      WaitingGp, Waiting, Link, Procs, TypeOK
<1>24. ASSUME NEW p \in Procs, Count(p) PROVE Counted'
  <2>1. Cardinality(Uncounted') = Cardinality(Uncounted) - 1
    <3>1. pc[p] = "count" /\ pc' = [pc EXCEPT ![p] = "set"] BY <1>24 DEF Count
    <3>2. pc[p] \in {"link", "count"} /\ "set" \notin {"link", "count"}
      BY <3>1
    <3>3. QED BY <1>0, <3>1, <3>2, UncountedUpdate
  <2>2. /\ rcu_call_count' = rcu_call_count + 1
        /\ UNCHANGED <<queue, rpc, why, n>>
    BY <1>24 DEF Count
  <2>3. Len(queue) \in Nat BY <1>0 DEF TypeOK
  <2>4. QED
    BY <1>0, <2>1, <2>2, <2>3
       DEF Counted, Taken, InGp, Draining, WaitingGp, Waiting
<1>25. ASSUME NEW p \in Procs, EventSet(p) PROVE Counted'
  <2>1. \E v \in {"run", "set_xchg", "wake"} : pc' = [pc EXCEPT ![p] = v]
    BY <1>25 DEF EventSet, EndSet
  <2>2. Cardinality(Uncounted') = Cardinality(Uncounted)
    BY <1>25, <1>0, <2>1, UncountedUpdate DEF EventSet
  <2>3. /\ \/ UNCHANGED rpc
           \/ rpc = "asleep" /\ rpc' = Resume
        /\ UNCHANGED <<why, n, queue, rcu_call_count>>
    BY <1>25 DEF EventSet
  <2>4. QED
    BY <1>0, <2>2, <2>3, ResumeCases
       DEF Counted, Taken, InGp, Draining, WaitingGp, Waiting
<1>26. CASE UNCHANGED vars
  BY <1>26, <1>0, <1>u DEF Counted, Taken, InGp, Draining, WaitingGp, Waiting
<1>27. QED
  BY <1>1, <1>2, <1>3, <1>4, <1>5, <1>6, <1>7, <1>8, <1>9, <1>10, <1>11,
      <1>12, <1>13, <1>14, <1>15, <1>16, <1>17, <1>18, <1>19, <1>20, <1>21,
      <1>22, <1>23, <1>24, <1>25, <1>26, NextCases

\* What a step of qemu_event_set does: it returns at once; it goes on to its
\* atomic_xchg; it sets the event and goes on to wake the sleeper, or has none to
\* wake; it wakes the sleeper.
LEMMA EventSetCases ==
  ASSUME NEW p \in Procs, EventSet(p)
  PROVE  LET e == EventOf(p) IN
         /\ \/ pc[p] = "set" /\ event[e] = "set" /\ EndSet(p) /\ UNCHANGED <<event, rpc>>
            \/ /\ pc[p] = "set" /\ pc' = [pc EXCEPT ![p] = "set_xchg"]
               /\ UNCHANGED <<event, rpc, node>>
            \/ /\ pc[p] = "set_xchg" /\ event[e] = "busy"
               /\ event' = [event EXCEPT ![e] = "set"]
               /\ pc' = [pc EXCEPT ![p] = "wake"] /\ UNCHANGED <<rpc, node>>
            \/ /\ pc[p] = "set_xchg" /\ event[e] # "busy"
               /\ event' = [event EXCEPT ![e] = "set"]
               /\ EndSet(p) /\ UNCHANGED rpc
            \/ /\ pc[p] = "wake" /\ EndSet(p) /\ UNCHANGED event
               /\ IF rpc = "asleep" /\ Awaited = e THEN rpc' = Resume
                                                   ELSE UNCHANGED rpc
         /\ UNCHANGED <<gpVars, readerVars, queue, linked, rcu_call_count,
                        called, invoked, n, tries, todo, why, cur, pre>>
BY DEF EventSet

\* The readers that were told to report do.
LEMMA ToldStep ==
  ASSUME SafeInv, [Next]_vars
  PROVE  Told'
<1>0. /\ TypeOK /\ Control /\ Lists /\ Told /\ why \in Why
      /\ RcuThread \notin Threads /\ NoNode \notin Nodes
  BY RcuAssumption DEF SafeInv, Wakeups, TypeOK
<1>1. CASE ReadCount
  BY <1>1, <1>0 DEF Told, Marked, Setting, EventOf, WaitingGp, Waiting,
      TypeOK, Procs, ReadCount
<1>2. CASE TestCount
  BY <1>2, <1>0 DEF Told, Marked, Setting, EventOf, WaitingGp, Waiting,
      TypeOK, Procs, TestCount
<1>3. CASE ResetCallEvent
  BY <1>3, <1>0 DEF Told, Marked, Setting, EventOf, WaitingGp, Waiting,
      TypeOK, Procs, ResetCallEvent, Reset
<1>4. CASE RecheckCount
  BY <1>4, <1>0 DEF Told, Marked, Setting, EventOf, WaitingGp, Waiting,
      TypeOK, Procs, RecheckCount
<1>5. CASE TakeCount
  BY <1>5, <1>0 DEF Told, Marked, Setting, EventOf, WaitingGp, Waiting,
      TypeOK, Procs, TakeCount
<1>6. CASE synchronize_rcu
  BY <1>6, <1>0 DEF Told, Marked, Setting, EventOf, WaitingGp, Waiting,
      TypeOK, Procs, synchronize_rcu
<1>7. CASE ResetGpEvent
  BY <1>7, <1>0 DEF Told, Marked, Setting, EventOf, WaitingGp, Waiting,
      TypeOK, Procs, ResetGpEvent, Reset
<1>8. CASE MarkReaders
  BY <1>8, <1>0 DEF Told, Marked, Setting, EventOf, WaitingGp, Waiting,
      TypeOK, Procs, MarkReaders
<1>9. CASE WalkReaders
  BY <1>9, <1>0 DEF Told, Marked, Setting, EventOf, WaitingGp, Waiting,
      TypeOK, Procs, WalkReaders, rcu_gp_ongoing, Lists
<1>10. CASE ClearQuiescent
  BY <1>10, <1>0 DEF Told, Marked, Setting, EventOf, WaitingGp, Waiting,
      TypeOK, Procs, ClearQuiescent, Lists
<1>11. CASE EndWalk
  BY <1>11, <1>0 DEF Told, Marked, Setting, EventOf, WaitingGp, Waiting,
      TypeOK, Procs, EndWalk
<1>12. CASE Drain
  BY <1>12, <1>0, DrainCases
    DEF Told, Marked, Setting, EventOf, WaitingGp, Waiting, Stays, Rotates, Pops
<1>13. CASE Func
  BY <1>13, <1>0 DEF Told, Marked, Setting, EventOf, WaitingGp, Waiting,
      TypeOK, Procs, Func, Control
<1>14. CASE WaitStep
  BY <1>14, <1>0, ResumeCases DEF Told, Marked, Setting, EventOf, WaitingGp,
      Waiting, TypeOK, Procs, WaitStep, Wait, FutexWait, SpuriousWakeup
<1>15. ASSUME NEW t \in Threads, rcu_register_thread(t) PROVE Told'
  BY <1>15, <1>0 DEF Told, Marked, Setting, EventOf, WaitingGp, Waiting,
      TypeOK, Procs, rcu_register_thread, GpLockFree
<1>16. ASSUME NEW t \in Threads, rcu_unregister_thread(t) PROVE Told'
  BY <1>16, <1>0 DEF Told, Marked, Setting, EventOf, WaitingGp, Waiting,
      TypeOK, Procs, rcu_unregister_thread, GpLockFree
<1>17. ASSUME NEW t \in Threads, rcu_read_lock(t) PROVE Told'
  BY <1>17, <1>0 DEF Told, Marked, Setting, EventOf, WaitingGp, Waiting,
      TypeOK, Procs, rcu_read_lock, Control
<1>18. ASSUME NEW t \in Threads, Publish(t) PROVE Told'
  BY <1>18, <1>0 DEF Told, Marked, Setting, EventOf, WaitingGp, Waiting,
      TypeOK, Procs, Publish, Control
<1>19. ASSUME NEW t \in Threads, rcu_read_unlock(t) PROVE Told'
  BY <1>19, <1>0 DEF Told, Marked, Setting, EventOf, WaitingGp, Waiting,
      TypeOK, Procs, rcu_read_unlock, Control
<1>20. ASSUME NEW t \in Threads, CheckWaiting(t) PROVE Told'
  BY <1>20, <1>0 DEF Told, Marked, Setting, EventOf, WaitingGp, Waiting,
      TypeOK, Procs, CheckWaiting, Control
<1>21. ASSUME NEW t \in Threads, ClearWaiting(t) PROVE Told'
  BY <1>21, <1>0 DEF Told, Marked, Setting, EventOf, WaitingGp, Waiting,
      TypeOK, Procs, ClearWaiting, Control
<1>22. ASSUME NEW p \in Procs, call_rcu1(p) PROVE Told'
  <2>1. PICK m \in Nodes : /\ node' = [node EXCEPT ![p] = m]
                           /\ pc' = [pc EXCEPT ![p] = "link"]
    BY <1>22 DEF call_rcu1
  <2>2. /\ pc[p] = "run" /\ UNCHANGED <<gpVars, event, readerVars, rpc, todo, why>>
    BY <1>22 DEF call_rcu1
  <2>3. QED
    BY <1>0, <2>1, <2>2
       DEF Told, Marked, Setting, EventOf, WaitingGp, Waiting,
           TypeOK, Procs
<1>23. ASSUME NEW p \in Procs, Link(p) PROVE Told'
  BY <1>23, <1>0 DEF Told, Marked, Setting, EventOf, WaitingGp, Waiting,
      TypeOK, Procs, Link, Control
<1>24. ASSUME NEW p \in Procs, Count(p) PROVE Told'
  BY <1>24, <1>0 DEF Told, Marked, Setting, EventOf, WaitingGp, Waiting,
      TypeOK, Procs, Count, Control
<1>25. ASSUME NEW p \in Procs, EventSet(p) PROVE Told'
  <2>1. CASE UNCHANGED <<event, rpc>>
    BY <1>25, <1>0, <2>1, EventSetCases
       DEF Told, Marked, Setting, EventOf, WaitingGp, Waiting,
           TypeOK, Procs, EndSet
  <2>2. CASE pc[p] = "set_xchg" /\ event' = [event EXCEPT ![EventOf(p)] = "set"]
    BY <1>25, <1>0, <2>2, EventSetCases
       DEF Told, Marked, Setting, EventOf, WaitingGp, Waiting,
           TypeOK, Procs, EndSet
  <2>3. CASE pc[p] = "wake" /\ rpc = "asleep" /\ rpc' = Resume
    BY <1>25, <1>0, <2>3, EventSetCases, ResumeCases
       DEF Told, Marked, Setting, EventOf, WaitingGp, Waiting,
           TypeOK, Procs, EndSet
  <2>4. QED BY <1>25, <2>1, <2>2, <2>3, EventSetCases
<1>26. CASE UNCHANGED vars
  BY <1>26, <1>0 DEF Told, Marked, Setting, EventOf, WaitingGp, Waiting, TypeOK,
      Procs
<1>27. QED
  BY <1>1, <1>2, <1>3, <1>4, <1>5, <1>6, <1>7, <1>8, <1>9, <1>10, <1>11,
      <1>12, <1>13, <1>14, <1>15, <1>16, <1>17, <1>18, <1>19, <1>20, <1>21,
      <1>22, <1>23, <1>24, <1>25, <1>26, NextCases

\* A reader that was found in a critical section reports at its end.
LEMMA ReportsStep ==
  ASSUME SafeInv, [Next]_vars
  PROVE  Reports'
<1>0. /\ TypeOK /\ Control /\ Lists /\ Published /\ Reports /\ why \in Why
      /\ RcuThread \notin Threads /\ NoNode \notin Nodes
  BY RcuAssumption DEF SafeInv, Wakeups, TypeOK
<1>1. CASE ReadCount
  BY <1>1, <1>0 DEF Reports, Visited, InSection, WaitingGp, Waiting, TypeOK,
      Procs, ReadCount
<1>2. CASE TestCount
  BY <1>2, <1>0 DEF Reports, Visited, InSection, WaitingGp, Waiting, TypeOK,
      Procs, TestCount
<1>3. CASE ResetCallEvent
  BY <1>3, <1>0 DEF Reports, Visited, InSection, WaitingGp, Waiting, TypeOK,
      Procs, ResetCallEvent, Reset
<1>4. CASE RecheckCount
  BY <1>4, <1>0 DEF Reports, Visited, InSection, WaitingGp, Waiting, TypeOK,
      Procs, RecheckCount
<1>5. CASE TakeCount
  BY <1>5, <1>0 DEF Reports, Visited, InSection, WaitingGp, Waiting, TypeOK,
      Procs, TakeCount
<1>6. CASE synchronize_rcu
  BY <1>6, <1>0 DEF Reports, Visited, InSection, WaitingGp, Waiting, TypeOK,
      Procs, synchronize_rcu
<1>7. CASE ResetGpEvent
  BY <1>7, <1>0 DEF Reports, Visited, InSection, WaitingGp, Waiting, TypeOK,
      Procs, ResetGpEvent, Reset
<1>8. CASE MarkReaders
  BY <1>8, <1>0 DEF Reports, Visited, InSection, WaitingGp, Waiting, TypeOK,
      Procs, MarkReaders
<1>9. CASE WalkReaders
  BY <1>9, <1>0 DEF Reports, Visited, InSection, WaitingGp, Waiting, TypeOK,
      Procs, WalkReaders, rcu_gp_ongoing, Lists, Published
<1>10. CASE ClearQuiescent
  BY <1>10, <1>0 DEF Reports, Visited, InSection, WaitingGp, Waiting,
      TypeOK, Procs, ClearQuiescent, Lists
<1>11. CASE EndWalk
  BY <1>11, <1>0 DEF Reports, Visited, InSection, WaitingGp, Waiting,
      TypeOK, Procs, EndWalk
<1>12. CASE Drain
  BY <1>12, <1>0, DrainCases
    DEF Reports, Visited, InSection, WaitingGp, Waiting, Stays, Rotates, Pops
<1>13. CASE Func
  BY <1>13, <1>0 DEF Reports, Visited, InSection, WaitingGp, Waiting,
      TypeOK, Procs, Func, Control
<1>14. CASE WaitStep
  BY <1>14, <1>0, ResumeCases DEF Reports, Visited, InSection, WaitingGp,
      Waiting, TypeOK, Procs, WaitStep, Wait, FutexWait, SpuriousWakeup
<1>15. ASSUME NEW t \in Threads, rcu_register_thread(t) PROVE Reports'
  BY <1>15, <1>0 DEF Reports, Visited, InSection, WaitingGp, Waiting,
      TypeOK, Procs, rcu_register_thread, GpLockFree
<1>16. ASSUME NEW t \in Threads, rcu_unregister_thread(t) PROVE Reports'
  BY <1>16, <1>0 DEF Reports, Visited, InSection, WaitingGp, Waiting,
      TypeOK, Procs, rcu_unregister_thread, GpLockFree
<1>17. ASSUME NEW t \in Threads, rcu_read_lock(t) PROVE Reports'
  BY <1>17, <1>0 DEF Reports, Visited, InSection, WaitingGp, Waiting,
      TypeOK, Procs, rcu_read_lock, Control
<1>18. ASSUME NEW t \in Threads, Publish(t) PROVE Reports'
  BY <1>18, <1>0 DEF Reports, Visited, InSection, WaitingGp, Waiting,
      TypeOK, Procs, Publish, Control
<1>19. ASSUME NEW t \in Threads, rcu_read_unlock(t) PROVE Reports'
  BY <1>19, <1>0 DEF Reports, Visited, InSection, WaitingGp, Waiting,
      TypeOK, Procs, rcu_read_unlock, Control
<1>20. ASSUME NEW t \in Threads, CheckWaiting(t) PROVE Reports'
  BY <1>20, <1>0 DEF Reports, Visited, InSection, WaitingGp, Waiting,
      TypeOK, Procs, CheckWaiting, Control
<1>21. ASSUME NEW t \in Threads, ClearWaiting(t) PROVE Reports'
  BY <1>21, <1>0 DEF Reports, Visited, InSection, WaitingGp, Waiting,
      TypeOK, Procs, ClearWaiting, Control
<1>22. ASSUME NEW p \in Procs, call_rcu1(p) PROVE Reports'
  <2>1. PICK m \in Nodes : /\ node' = [node EXCEPT ![p] = m]
                           /\ pc' = [pc EXCEPT ![p] = "link"]
    BY <1>22 DEF call_rcu1
  <2>2. /\ pc[p] = "run" /\ UNCHANGED <<gpVars, event, readerVars, rpc, todo, why>>
    BY <1>22 DEF call_rcu1
  <2>3. QED
    BY <1>0, <2>1, <2>2
       DEF Reports, Visited, InSection, WaitingGp, Waiting,
           TypeOK, Procs
<1>23. ASSUME NEW p \in Procs, Link(p) PROVE Reports'
  BY <1>23, <1>0 DEF Reports, Visited, InSection, WaitingGp, Waiting,
      TypeOK, Procs, Link, Control
<1>24. ASSUME NEW p \in Procs, Count(p) PROVE Reports'
  BY <1>24, <1>0 DEF Reports, Visited, InSection, WaitingGp, Waiting,
      TypeOK, Procs, Count, Control
<1>25. ASSUME NEW p \in Procs, EventSet(p) PROVE Reports'
  <2>1. CASE UNCHANGED <<event, rpc>>
    BY <1>25, <1>0, <2>1, EventSetCases
       DEF Reports, Visited, InSection, WaitingGp, Waiting,
           TypeOK, Procs, EndSet
  <2>2. CASE pc[p] = "set_xchg" /\ event' = [event EXCEPT ![EventOf(p)] = "set"]
    BY <1>25, <1>0, <2>2, EventSetCases
       DEF Reports, Visited, InSection, WaitingGp, Waiting,
           TypeOK, Procs, EndSet
  <2>3. CASE pc[p] = "wake" /\ rpc = "asleep" /\ rpc' = Resume
    BY <1>25, <1>0, <2>3, EventSetCases, ResumeCases
       DEF Reports, Visited, InSection, WaitingGp, Waiting,
           TypeOK, Procs, EndSet
  <2>4. QED BY <1>25, <2>1, <2>2, <2>3, EventSetCases
<1>26. CASE UNCHANGED vars
  BY <1>26, <1>0 DEF Reports, Visited, InSection, WaitingGp, Waiting, TypeOK,
      Procs
<1>27. QED
  BY <1>1, <1>2, <1>3, <1>4, <1>5, <1>6, <1>7, <1>8, <1>9, <1>10, <1>11,
      <1>12, <1>13, <1>14, <1>15, <1>16, <1>17, <1>18, <1>19, <1>20, <1>21,
      <1>22, <1>23, <1>24, <1>25, <1>26, NextCases

\* The call_rcu thread is woken.
LEMMA SleepsStep ==
  ASSUME SafeInv, [Next]_vars
  PROVE  Sleeps'
<1>0. /\ TypeOK /\ Control /\ Lists /\ Sleeps /\ why \in Why
      /\ RcuThread \notin Threads /\ NoNode \notin Nodes
  BY RcuAssumption DEF SafeInv, Wakeups, TypeOK
<1>1. CASE ReadCount
  BY <1>1, <1>0 DEF Sleeps, Awaited, EventOf, TypeOK, Procs, Why, ReadCount
<1>2. CASE TestCount
  BY <1>2, <1>0 DEF Sleeps, Awaited, EventOf, TypeOK, Procs, Why, TestCount
<1>3. CASE ResetCallEvent
  BY <1>3, <1>0 DEF Sleeps, Awaited, EventOf, TypeOK, Procs, Why,
      ResetCallEvent, Reset
<1>4. CASE RecheckCount
  BY <1>4, <1>0 DEF Sleeps, Awaited, EventOf, TypeOK, Procs, Why,
      RecheckCount
<1>5. CASE TakeCount
  BY <1>5, <1>0 DEF Sleeps, Awaited, EventOf, TypeOK, Procs, Why, TakeCount
<1>6. CASE synchronize_rcu
  BY <1>6, <1>0 DEF Sleeps, Awaited, EventOf, TypeOK, Procs, Why,
      synchronize_rcu
<1>7. CASE ResetGpEvent
  BY <1>7, <1>0 DEF Sleeps, Awaited, EventOf, TypeOK, Procs, Why,
      ResetGpEvent, Reset
<1>8. CASE MarkReaders
  BY <1>8, <1>0 DEF Sleeps, Awaited, EventOf, TypeOK, Procs, Why,
      MarkReaders
<1>9. CASE WalkReaders
  BY <1>9, <1>0 DEF Sleeps, Awaited, EventOf, TypeOK, Procs, Why,
      WalkReaders, rcu_gp_ongoing
<1>10. CASE ClearQuiescent
  BY <1>10, <1>0 DEF Sleeps, Awaited, EventOf, TypeOK, Procs, Why,
      ClearQuiescent
<1>11. CASE EndWalk
  BY <1>11, <1>0 DEF Sleeps, Awaited, EventOf, TypeOK, Procs, Why, EndWalk
<1>12. CASE Drain
  BY <1>12, <1>0, DrainCases
    DEF Sleeps, Awaited, EventOf, Stays, Rotates, Pops
<1>13. CASE Func
  BY <1>13, <1>0 DEF Sleeps, Awaited, EventOf, TypeOK, Procs, Why, Func,
      Control
<1>14. CASE WaitStep
  BY <1>14, <1>0, ResumeCases DEF Sleeps, Awaited, EventOf, TypeOK, Procs,
      Why, WaitStep, Wait, FutexWait, SpuriousWakeup
<1>15. ASSUME NEW t \in Threads, rcu_register_thread(t) PROVE Sleeps'
  BY <1>15, <1>0 DEF Sleeps, Awaited, EventOf, TypeOK, Procs, Why,
      rcu_register_thread, Control
<1>16. ASSUME NEW t \in Threads, rcu_unregister_thread(t) PROVE Sleeps'
  BY <1>16, <1>0 DEF Sleeps, Awaited, EventOf, TypeOK, Procs, Why,
      rcu_unregister_thread, Control
<1>17. ASSUME NEW t \in Threads, rcu_read_lock(t) PROVE Sleeps'
  BY <1>17, <1>0 DEF Sleeps, Awaited, EventOf, TypeOK, Procs, Why,
      rcu_read_lock, Control
<1>18. ASSUME NEW t \in Threads, Publish(t) PROVE Sleeps'
  BY <1>18, <1>0 DEF Sleeps, Awaited, EventOf, TypeOK, Procs, Why, Publish,
      Control
<1>19. ASSUME NEW t \in Threads, rcu_read_unlock(t) PROVE Sleeps'
  BY <1>19, <1>0 DEF Sleeps, Awaited, EventOf, TypeOK, Procs, Why,
      rcu_read_unlock, Control
<1>20. ASSUME NEW t \in Threads, CheckWaiting(t) PROVE Sleeps'
  BY <1>20, <1>0 DEF Sleeps, Awaited, EventOf, TypeOK, Procs, Why,
      CheckWaiting, Control
<1>21. ASSUME NEW t \in Threads, ClearWaiting(t) PROVE Sleeps'
  BY <1>21, <1>0 DEF Sleeps, Awaited, EventOf, TypeOK, Procs, Why,
      ClearWaiting, Control
<1>22. ASSUME NEW p \in Procs, call_rcu1(p) PROVE Sleeps'
  <2>1. PICK m \in Nodes : /\ node' = [node EXCEPT ![p] = m]
                           /\ pc' = [pc EXCEPT ![p] = "link"]
    BY <1>22 DEF call_rcu1
  <2>2. /\ pc[p] = "run" /\ UNCHANGED <<gpVars, event, readerVars, rpc, todo, why>>
    BY <1>22 DEF call_rcu1
  <2>3. QED
    BY <1>0, <2>1, <2>2
       DEF Sleeps, Awaited, EventOf, TypeOK, Procs
<1>23. ASSUME NEW p \in Procs, Link(p) PROVE Sleeps'
  BY <1>23, <1>0 DEF Sleeps, Awaited, EventOf, TypeOK, Procs, Why, Link,
      Control
<1>24. ASSUME NEW p \in Procs, Count(p) PROVE Sleeps'
  BY <1>24, <1>0 DEF Sleeps, Awaited, EventOf, TypeOK, Procs, Why, Count,
      Control
<1>25. ASSUME NEW p \in Procs, EventSet(p) PROVE Sleeps'
  <2>1. \A q \in Procs \ {p} : pc'[q] = pc[q] /\ EventOf(q)' = EventOf(q)
    BY <1>25, <1>0, EventSetCases DEF EndSet, EventOf, TypeOK
  <2>2. Awaited' = Awaited /\ Awaited \in {"gp", "call"}
    BY <1>25, EventSetCases DEF Awaited
  <2>3. EventOf(p) \in {"gp", "call"} BY DEF EventOf
  <2>4. CASE pc[p] = "set" /\ UNCHANGED <<event, rpc>>
    BY <1>0, <2>1, <2>2, <2>4 DEF Sleeps
  <2>5. CASE pc[p] = "set_xchg" /\ event' = [event EXCEPT ![EventOf(p)] = "set"]
    <3>1. UNCHANGED rpc BY <1>25, <2>5, EventSetCases
    <3>2. CASE EventOf(p) # Awaited \/ event[Awaited] = "set"
      <4>1. event'[Awaited] = event[Awaited]
        BY <1>0, <2>2, <2>3, <2>5, <3>2 DEF TypeOK
      <4>2. QED BY <1>0, <2>1, <2>2, <2>5, <3>1, <4>1 DEF Sleeps
    <3>3. CASE EventOf(p) = Awaited /\ event[Awaited] = "free"
      BY <1>0, <2>2, <3>1, <3>3 DEF Sleeps
    <3>4. CASE EventOf(p) = Awaited /\ event[Awaited] = "busy"
      <4>1. pc' = [pc EXCEPT ![p] = "wake"] /\ UNCHANGED node
        BY <1>25, <2>5, <3>4, EventSetCases
      <4>2. pc'[p] = "wake" /\ EventOf(p)' = EventOf(p)
        BY <1>0, <4>1 DEF TypeOK, EventOf
      <4>3. event'[Awaited'] = "set" BY <1>0, <2>2, <2>5, <3>4 DEF TypeOK
      <4>4. QED BY <2>2, <3>4, <4>2, <4>3 DEF Sleeps
    <3>5. event[Awaited] \in {"set", "free", "busy"} BY <1>0, <2>2 DEF TypeOK
    <3>6. QED BY <3>2, <3>3, <3>4, <3>5
  <2>6. CASE pc[p] = "wake"
    <3>1. /\ UNCHANGED event
          /\ IF rpc = "asleep" /\ Awaited = EventOf(p) THEN rpc' = Resume
                                                       ELSE UNCHANGED rpc
      BY <1>25, <2>6, EventSetCases
    <3>2. Resume \notin {"futex", "asleep"} BY <1>0, ResumeCases
    <3>3. QED BY <1>0, <2>1, <2>2, <3>1, <3>2 DEF Sleeps
  <2>7. QED BY <1>25, <2>4, <2>5, <2>6, EventSetCases
<1>26. CASE UNCHANGED vars
  BY <1>26, <1>0 DEF Sleeps, Awaited, EventOf, TypeOK, Procs, Why
<1>27. QED
  BY <1>1, <1>2, <1>3, <1>4, <1>5, <1>6, <1>7, <1>8, <1>9, <1>10, <1>11,
      <1>12, <1>13, <1>14, <1>15, <1>16, <1>17, <1>18, <1>19, <1>20, <1>21,
      <1>22, <1>23, <1>24, <1>25, <1>26, NextCases

\* SafeInv is inductive.
LEMMA InitSafeInv == Init => SafeInv
<1> SUFFICES ASSUME Init PROVE SafeInv OBVIOUS
<1>1. TypeOK
  BY RcuAssumption DEF Init, TypeOK, Rpc, Pc, Why, Procs
<1>2. NeverAborts /\ Control /\ Published /\ Lists
  BY RcuAssumption
     DEF Init, NeverAborts, Control, Published, Lists, InSection, GpLockFree,
         WaitingGp, Waiting, Procs
<1>3. QueueShape BY DEF Init, QueueShape
<1>4. Counted
  <2>1. Uncounted = {} BY DEF Init, Uncounted
  <2>2. Cardinality(Uncounted) = 0 BY <2>1, FS_EmptySet
  <2>3. QED
    BY <2>2 DEF Init, Counted, Taken, InGp, Draining, WaitingGp, Waiting
<1>5. Wakeups
  BY DEF Init, Wakeups, Told, Reports, Sleeps, Marked, Visited, WaitingGp, Waiting
<1>6. QED BY <1>1, <1>2, <1>3, <1>4, <1>5 DEF SafeInv

\* Every step preserves SafeInv.
LEMMA SafeInvStep == SafeInv /\ [Next]_vars => SafeInv'
BY TypeStep, ControlStep, PublishedStep, ListsStep, QueueStep, CountedStep,
   ToldStep, ReportsStep, SleepsStep DEF SafeInv, Wakeups

\* While the call_rcu thread sleeps in wait_for_readers somebody wakes it.
LEMMA SomebodyWakes == SafeInv => ReaderWillWake
<1> SUFFICES ASSUME SafeInv, rpc = "asleep", why = "gp"
             PROVE  \/ /\ event["gp"] = "busy"
                       /\ \/ \E t \in registry : /\ waiting[t]
                                                 /\ InSection(t) \/ pc[t] \in {"check", "clear"}
                          \/ Setting
                    \/ \E t \in Threads : pc[t] = "wake" /\ EventOf(t) = "gp"
  BY DEF ReaderWillWake, Setting
<1>1. Awaited = "gp" /\ WaitingGp BY DEF Awaited, WaitingGp, Waiting
<1>2. pc[RcuThread] = "run" BY DEF SafeInv, Control
<1>3. CASE event["gp"] = "set"
  BY <1>1, <1>2, <1>3 DEF SafeInv, Wakeups, Sleeps, Procs
<1>4. CASE event["gp"] = "busy"
  <2>1. PICK t \in registry : TRUE BY <1>1 DEF SafeInv, Lists
  <2>2. t \in Marked /\ t \in Visited BY <1>1 DEF Marked, Visited
  <2>3. waiting[t] \/ Setting
    BY <1>4, <2>2 DEF SafeInv, Wakeups, Told
  <2>4. waiting[t] => InSection(t) \/ pc[t] \in {"check", "clear"}
    BY <2>2 DEF SafeInv, Wakeups, Reports
  <2>5. QED BY <1>4, <2>3, <2>4
<1>5. event["gp"] \in {"set", "busy"}
  BY <1>1 DEF SafeInv, TypeOK, Wakeups, Sleeps
<1>6. QED BY <1>3, <1>4, <1>5

\* The queue never runs dry under the call_rcu thread, and no wakeup of the
\* thread is lost in wait_for_readers, whatever readers and callers do.
THEOREM RcuSafety == Spec => []RcuSafe
<1>1. Init => SafeInv BY InitSafeInv
<1>2. SafeInv /\ [Next]_vars => SafeInv' BY SafeInvStep
<1>3. SafeInv => RcuSafe BY SomebodyWakes DEF SafeInv, RcuSafe
<1>4. QED BY <1>1, <1>2, <1>3, PTL DEF Spec

-----------------------------------------------------------------------------
(* The grace period.                                                       *)

\* Whoever is in a critical section is on one of the lists.
LEMMA RegisteredStep ==
  ASSUME ReadersRegistered, SafeInv, Registered, [Next]_vars
  PROVE  Registered'
<1>0. TypeOK /\ Registered BY DEF SafeInv
<1>1. CASE ReadCount
  BY <1>1, <1>0 DEF Registered, TypeOK, ReadCount
<1>2. CASE TestCount
  BY <1>2, <1>0 DEF Registered, TypeOK, TestCount
<1>3. CASE ResetCallEvent
  BY <1>3, <1>0 DEF Registered, TypeOK, ResetCallEvent, Reset
<1>4. CASE RecheckCount
  BY <1>4, <1>0 DEF Registered, TypeOK, RecheckCount
<1>5. CASE TakeCount
  BY <1>5, <1>0 DEF Registered, TypeOK, TakeCount
<1>6. CASE synchronize_rcu
  BY <1>6, <1>0 DEF Registered, TypeOK, synchronize_rcu
<1>7. CASE ResetGpEvent
  BY <1>7, <1>0 DEF Registered, TypeOK, ResetGpEvent, Reset
<1>8. CASE MarkReaders
  BY <1>8, <1>0 DEF Registered, TypeOK, MarkReaders
<1>9. CASE WalkReaders
  BY <1>9, <1>0 DEF Registered, TypeOK, WalkReaders, rcu_gp_ongoing
<1>10. CASE ClearQuiescent
  BY <1>10, <1>0 DEF Registered, TypeOK, ClearQuiescent
<1>11. CASE EndWalk
  BY <1>11, <1>0 DEF Registered, TypeOK, EndWalk
<1>12. CASE Drain
  BY <1>12, <1>0, DrainCases DEF Registered
<1>13. CASE Func
  BY <1>13, <1>0 DEF Registered, TypeOK, Func
<1>14. CASE WaitStep
  BY <1>14, <1>0 DEF Registered, TypeOK, WaitStep, Wait, FutexWait,
      SpuriousWakeup
<1>15. ASSUME NEW t \in Threads, rcu_register_thread(t) PROVE Registered'
  BY <1>15, <1>0 DEF Registered, TypeOK, rcu_register_thread
<1>16. ASSUME NEW t \in Threads, rcu_unregister_thread(t) PROVE Registered'
  BY <1>16, <1>0 DEF Registered, TypeOK, rcu_unregister_thread
<1>17. ASSUME NEW t \in Threads, rcu_read_lock(t) PROVE Registered'
  BY <1>17, <1>0 DEF Registered, TypeOK, rcu_read_lock, ReadersRegistered
<1>18. ASSUME NEW t \in Threads, Publish(t) PROVE Registered'
  BY <1>18, <1>0 DEF Registered, TypeOK, Publish
<1>19. ASSUME NEW t \in Threads, rcu_read_unlock(t) PROVE Registered'
  BY <1>19, <1>0 DEF Registered, TypeOK, rcu_read_unlock
<1>20. ASSUME NEW t \in Threads, CheckWaiting(t) PROVE Registered'
  BY <1>20, <1>0 DEF Registered, TypeOK, CheckWaiting
<1>21. ASSUME NEW t \in Threads, ClearWaiting(t) PROVE Registered'
  BY <1>21, <1>0 DEF Registered, TypeOK, ClearWaiting
<1>22. ASSUME NEW p \in Procs, call_rcu1(p) PROVE Registered'
  BY <1>22, <1>0 DEF Registered, TypeOK, call_rcu1
<1>23. ASSUME NEW p \in Procs, Link(p) PROVE Registered'
  BY <1>23, <1>0 DEF Registered, TypeOK, Link
<1>24. ASSUME NEW p \in Procs, Count(p) PROVE Registered'
  BY <1>24, <1>0 DEF Registered, TypeOK, Count
<1>25. ASSUME NEW p \in Procs, EventSet(p) PROVE Registered'
  BY <1>25, <1>0 DEF Registered, TypeOK, EventSet, EndSet, EventOf
<1>26. CASE UNCHANGED vars
  BY <1>26, <1>0 DEF Registered, TypeOK
<1>27. QED
  BY <1>1, <1>2, <1>3, <1>4, <1>5, <1>6, <1>7, <1>8, <1>9, <1>10, <1>11,
      <1>12, <1>13, <1>14, <1>15, <1>16, <1>17, <1>18, <1>19, <1>20, <1>21,
      <1>22, <1>23, <1>24, <1>25, <1>26, NextCases

\* A reader that a callback has to wait for is in its critical section.
LEMMA InSectionStep ==
  ASSUME SafeInv, PreInSection, [Next]_vars
  PROVE  PreInSection'
<1>0. TypeOK /\ Control /\ PreInSection BY DEF SafeInv
<1>1. CASE ReadCount
  BY <1>1, <1>0 DEF PreInSection, TypeOK, InSection, Control, Procs,
      ReadCount
<1>2. CASE TestCount
  BY <1>2, <1>0 DEF PreInSection, TypeOK, InSection, Control, Procs,
      TestCount
<1>3. CASE ResetCallEvent
  BY <1>3, <1>0 DEF PreInSection, TypeOK, InSection, Control, Procs,
      ResetCallEvent, Reset
<1>4. CASE RecheckCount
  BY <1>4, <1>0 DEF PreInSection, TypeOK, InSection, Control, Procs,
      RecheckCount
<1>5. CASE TakeCount
  BY <1>5, <1>0 DEF PreInSection, TypeOK, InSection, Control, Procs,
      TakeCount
<1>6. CASE synchronize_rcu
  BY <1>6, <1>0 DEF PreInSection, TypeOK, InSection, Control, Procs,
      synchronize_rcu
<1>7. CASE ResetGpEvent
  BY <1>7, <1>0 DEF PreInSection, TypeOK, InSection, Control, Procs,
      ResetGpEvent, Reset
<1>8. CASE MarkReaders
  BY <1>8, <1>0 DEF PreInSection, TypeOK, InSection, Control, Procs,
      MarkReaders
<1>9. CASE WalkReaders
  BY <1>9, <1>0 DEF PreInSection, TypeOK, InSection, Control, Procs,
      WalkReaders, rcu_gp_ongoing
<1>10. CASE ClearQuiescent
  BY <1>10, <1>0 DEF PreInSection, TypeOK, InSection, Control, Procs,
      ClearQuiescent
<1>11. CASE EndWalk
  BY <1>11, <1>0 DEF PreInSection, TypeOK, InSection, Control, Procs,
      EndWalk
<1>12. CASE Drain
  BY <1>12, <1>0, DrainCases DEF PreInSection, InSection
<1>13. CASE Func
  BY <1>13, <1>0 DEF PreInSection, TypeOK, InSection, Control, Procs, Func
<1>14. CASE WaitStep
  BY <1>14, <1>0 DEF PreInSection, TypeOK, InSection, Control, Procs,
      WaitStep, Wait, FutexWait, SpuriousWakeup
<1>15. ASSUME NEW t \in Threads, rcu_register_thread(t) PROVE PreInSection'
  BY <1>15, <1>0 DEF PreInSection, TypeOK, InSection, Control, Procs,
      rcu_register_thread
<1>16. ASSUME NEW t \in Threads, rcu_unregister_thread(t) PROVE PreInSection'
  BY <1>16, <1>0 DEF PreInSection, TypeOK, InSection, Control, Procs,
      rcu_unregister_thread
<1>17. ASSUME NEW t \in Threads, rcu_read_lock(t) PROVE PreInSection'
  BY <1>17, <1>0 DEF PreInSection, TypeOK, InSection, Control, Procs,
      rcu_read_lock
<1>18. ASSUME NEW t \in Threads, Publish(t) PROVE PreInSection'
  BY <1>18, <1>0 DEF PreInSection, TypeOK, InSection, Control, Procs,
      Publish
<1>19. ASSUME NEW t \in Threads, rcu_read_unlock(t) PROVE PreInSection'
  BY <1>19, <1>0 DEF PreInSection, TypeOK, InSection, Control, Procs,
      rcu_read_unlock
<1>20. ASSUME NEW t \in Threads, CheckWaiting(t) PROVE PreInSection'
  BY <1>20, <1>0 DEF PreInSection, TypeOK, InSection, Control, Procs,
      CheckWaiting
<1>21. ASSUME NEW t \in Threads, ClearWaiting(t) PROVE PreInSection'
  BY <1>21, <1>0 DEF PreInSection, TypeOK, InSection, Control, Procs,
      ClearWaiting
<1>22. ASSUME NEW p \in Procs, call_rcu1(p) PROVE PreInSection'
  BY <1>22, <1>0 DEF PreInSection, TypeOK, InSection, Control, Procs,
      call_rcu1
<1>23. ASSUME NEW p \in Procs, Link(p) PROVE PreInSection'
  BY <1>23, <1>0 DEF PreInSection, TypeOK, InSection, Control, Procs, Link
<1>24. ASSUME NEW p \in Procs, Count(p) PROVE PreInSection'
  BY <1>24, <1>0 DEF PreInSection, TypeOK, InSection, Control, Procs, Count
<1>25. ASSUME NEW p \in Procs, EventSet(p) PROVE PreInSection'
  BY <1>25, <1>0, EventSetCases
     DEF PreInSection, TypeOK, InSection, Control, Procs, EndSet
<1>26. CASE UNCHANGED vars
  BY <1>26, <1>0 DEF PreInSection, TypeOK, InSection, Control, Procs
<1>27. QED
  BY <1>1, <1>2, <1>3, <1>4, <1>5, <1>6, <1>7, <1>8, <1>9, <1>10, <1>11,
      <1>12, <1>13, <1>14, <1>15, <1>16, <1>17, <1>18, <1>19, <1>20, <1>21,
      <1>22, <1>23, <1>24, <1>25, <1>26, NextCases

\* The nodes that were taken are in the queue.
LEMMA TakenNodesQueued ==
  ASSUME SafeInv
  PROVE  TakenNodes \subseteq called
BY RcuAssumption DEF SafeInv, QueueShape, TakenNodes

\* No step but the taking itself adds a node to those that were taken.
LEMMA TakenNodesStep ==
  ASSUME SafeInv, Taken, Taken', [Next]_vars
  PROVE  TakenNodes' \subseteq TakenNodes
<1>1. /\ n \in Nat /\ Len(queue) \in Nat /\ Len(queue) >= n + 1
      /\ queue \in Seq(Nodes \cup {Dummy})
  <2>1. /\ n \in Nat /\ Len(queue) \in Nat /\ rcu_call_count \in Nat
        /\ queue \in Seq(Nodes \cup {Dummy})
    BY DEF SafeInv, TypeOK
  <2>2. Len(queue) = 1 + n + rcu_call_count + Cardinality(Uncounted)
    BY DEF SafeInv, Counted
  <2>3. QED BY <2>1, <2>2, UncountedNat
<1>2. CASE UNCHANGED <<queue, n>>
  BY <1>2 DEF TakenNodes
<1>3. ASSUME NEW p \in Procs, call_rcu1(p) PROVE TakenNodes' \subseteq TakenNodes
  <2>1. PICK m \in Nodes : queue' = Append(queue, m) BY <1>3 DEF call_rcu1
  <2>2. n' = n BY <1>3 DEF call_rcu1
  <2>3. /\ Len(queue') = Len(queue) + 1
        /\ \A i \in 1 .. Len(queue) : queue'[i] = queue[i]
    BY <1>1, <2>1, Appended
  <2>4. SUFFICES ASSUME NEW k \in TakenNodes' PROVE k \in TakenNodes OBVIOUS
  <2>5. PICK i \in 1 .. Len(queue') :
          /\ queue'[i] = k
          /\ i <= n \/ (i = n + 1 /\ \E d \in 1 .. n : queue'[d] = Dummy)
    BY <2>2 DEF TakenNodes
  <2>6. i \in 1 .. Len(queue) /\ queue[i] = k BY <1>1, <2>3, <2>5
  <2>7. \A d \in 1 .. n : queue'[d] = queue[d] BY <1>1, <2>3
  <2>8. k \in Nodes BY DEF TakenNodes
  <2>9. QED BY <2>5, <2>6, <2>7, <2>8 DEF TakenNodes
<1>4. CASE Drain
  <2>1. CASE Stays BY <1>2, <2>1 DEF Stays
  <2> SUFFICES ASSUME Rotates \/ Pops, NEW k \in TakenNodes'
               PROVE  k \in TakenNodes
    BY <1>4, <2>1, DrainCases
  <2>2. k \in Nodes /\ k # Dummy BY RcuAssumption DEF TakenNodes
  <2>3. PICK i \in 1 .. Len(queue') :
          /\ queue'[i] = k
          /\ i <= n' \/ (i = n' + 1 /\ \E d \in 1 .. n' : queue'[d] = Dummy)
    BY DEF TakenNodes
  <2>4. SUFFICES /\ i + 1 \in 1 .. Len(queue) /\ queue[i + 1] = k
                 /\ \/ i + 1 <= n
                    \/ i + 1 = n + 1 /\ \E d \in 1 .. n : queue[d] = Dummy
    BY <2>2 DEF TakenNodes
  <2>5. CASE Rotates
    <3>1. /\ n' = n /\ Len(queue') = Len(queue) /\ queue[1] = Dummy /\ n > 0
          /\ \A j \in 1 .. Len(queue) - 1 : queue'[j] = queue[j + 1]
          /\ queue'[Len(queue)] = Dummy
      BY <2>5 DEF Rotates
    <3>2. i # Len(queue) BY <2>2, <2>3, <3>1
    <3>3. \A d \in 1 .. n : queue'[d] # Dummy
      <4>1. \A d \in 1 .. n : queue'[d] = queue[d + 1] BY <1>1, <3>1
      <4>2. \A d \in 1 .. n : d + 1 \in 1 .. Len(queue) /\ d + 1 # 1 BY <1>1
      <4>3. \A j \in 1 .. Len(queue) : queue[j] = Dummy => j = 1
        BY <1>1, <3>1 DEF SafeInv, QueueShape
      <4>4. QED BY <4>1, <4>2, <4>3
    <3>4. i <= n BY <2>3, <3>1, <3>3
    <3>5. QED BY <1>1, <2>3, <3>1, <3>2, <3>4
  <2>6. CASE Pops
    <3>1. /\ n' = n - 1 /\ Len(queue') = Len(queue) - 1 /\ n > 0
          /\ \A j \in 1 .. Len(queue) - 1 : queue'[j] = queue[j + 1]
      BY <2>6 DEF Pops
    <3>2. i + 1 \in 1 .. Len(queue) /\ queue[i + 1] = k BY <1>1, <2>3, <3>1
    <3>3. CASE i <= n' BY <1>1, <3>1, <3>2, <3>3
    <3>4. CASE i = n' + 1 /\ \E d \in 1 .. n' : queue'[d] = Dummy
      <4>1. PICK d \in 1 .. n' : queue'[d] = Dummy BY <3>4
      <4>2. d + 1 \in 1 .. n /\ queue[d + 1] = Dummy BY <1>1, <3>1, <4>1
      <4>3. i + 1 = n + 1 BY <1>1, <3>1, <3>4
      <4>4. QED BY <3>2, <4>2, <4>3
    <3>5. QED BY <2>3, <3>3, <3>4
  <2>7. QED BY <2>5, <2>6
<1>5. CASE ReadCount \/ TakeCount \/ RecheckCount
  BY <1>5 DEF ReadCount, TakeCount, RecheckCount, Taken, InGp, Draining,
              WaitingGp, Waiting
<1>6. CASE TestCount \/ ResetCallEvent \/ synchronize_rcu \/ ResetGpEvent
             \/ MarkReaders \/ WalkReaders \/ ClearQuiescent \/ EndWalk \/ Func
             \/ WaitStep
  BY <1>2, <1>6 DEF TestCount, ResetCallEvent, synchronize_rcu, ResetGpEvent,
     MarkReaders, WalkReaders, ClearQuiescent, EndWalk, Func, WaitStep
<1>7. ASSUME NEW t \in Threads,
             \/ rcu_register_thread(t) \/ rcu_unregister_thread(t)
             \/ rcu_read_lock(t) \/ Publish(t) \/ rcu_read_unlock(t)
             \/ CheckWaiting(t) \/ ClearWaiting(t)
      PROVE  UNCHANGED <<queue, n>>
  BY <1>7 DEF rcu_register_thread, rcu_unregister_thread, rcu_read_lock, Publish,
     rcu_read_unlock, CheckWaiting, ClearWaiting
<1>8. ASSUME NEW p \in Procs, Link(p) \/ Count(p) \/ EventSet(p)
      PROVE  UNCHANGED <<queue, n>>
  BY <1>8 DEF Link, Count, EventSet
<1>9. CASE UNCHANGED vars BY <1>2, <1>9
<1>10. QED
  BY <1>2, <1>3, <1>4, <1>5, <1>6, <1>7, <1>8, <1>9, NextCases

\* What a grace period establishes.
LEMMA GraceStep ==
  ASSUME IndInv, [Next]_vars
  PROVE  GracePeriod'
<1>0. /\ SafeInv /\ TypeOK /\ Control /\ Published /\ Lists /\ Registered
      /\ PreInSection /\ GracePeriod /\ why \in Why
  BY DEF IndInv, SafeInv, TypeOK
<1>a. Taken /\ Taken' => TakenNodes' \subseteq TakenNodes
  BY <1>0, TakenNodesStep
<1>b. TakenNodes \subseteq called /\ TakenNodes \subseteq Nodes
  BY <1>0, TakenNodesQueued DEF TypeOK
<1>1. CASE ReadCount
  BY <1>1, <1>0, <1>a DEF GracePeriod, Taken, InGp, Draining, WaitingGp,
      Waiting, ReadCount
<1>2. CASE TestCount
  BY <1>2, <1>0, <1>a DEF GracePeriod, Taken, InGp, Draining, WaitingGp,
      Waiting, TestCount
<1>3. CASE ResetCallEvent
  BY <1>3, <1>0, <1>a DEF GracePeriod, Taken, InGp, Draining, WaitingGp,
      Waiting, ResetCallEvent, Reset
<1>4. CASE RecheckCount
  BY <1>4, <1>0, <1>a DEF GracePeriod, Taken, InGp, Draining, WaitingGp,
      Waiting, RecheckCount
<1>5. CASE TakeCount
  BY <1>5, <1>0, <1>a DEF GracePeriod, Taken, InGp, Draining, WaitingGp,
      Waiting, TakeCount
<1>6. CASE synchronize_rcu
  <2>1. rpc = "lock" /\ qsreaders = {}
    BY <1>6, <1>0 DEF synchronize_rcu, Lists, GpLockFree
  <2>2. /\ UNCHANGED <<pre, ctr, registry>> /\ Taken /\ Taken' /\ rpc' # "func"
    BY <1>6 DEF synchronize_rcu, Taken, InGp, Draining
  <2>3. \A m \in TakenNodes : \A t \in pre[m] :
          t \in registry /\ ctr[t] <= rcu_gp_ctr /\ ctr[t] \in Nat
    BY <1>0, <1>b, <2>1
       DEF PreInSection, InSection, Registered, Published, TypeOK
  <2>4. CASE registry = {}
    <3>1. ~InGp' BY <1>6, <2>4
      DEF synchronize_rcu, InGp, WaitingGp, Waiting
    <3>2. \A m \in TakenNodes' : pre'[m] = {} BY <1>a, <2>2, <2>3, <2>4
    <3>3. QED BY <2>2, <3>1, <3>2 DEF GracePeriod
  <2>5. CASE registry # {}
    <3>1. ~Draining' /\ rcu_gp_ctr' = rcu_gp_ctr + 2 /\ rcu_gp_ctr \in Nat
      BY <1>6, <1>0, <2>5 DEF synchronize_rcu, Draining, Waiting, TypeOK
    <3>2. \A m \in TakenNodes' : \A t \in pre'[m] :
            t \in registry' /\ ctr'[t] < rcu_gp_ctr'
      BY <1>a, <2>2, <2>3, <3>1
    <3>3. QED BY <2>2, <3>1, <3>2 DEF GracePeriod
  <2>6. QED BY <2>4, <2>5
<1>7. CASE ResetGpEvent
  BY <1>7, <1>0, <1>a DEF GracePeriod, Taken, InGp, Draining, WaitingGp,
      Waiting, ResetGpEvent, Reset
<1>8. CASE MarkReaders
  BY <1>8, <1>0, <1>a DEF GracePeriod, Taken, InGp, Draining, WaitingGp,
      Waiting, MarkReaders
<1>9. CASE WalkReaders
  <2>1. PICK t \in todo :
          \/ UNCHANGED <<registry, qsreaders, rpc, cur>>
          \/ ~rcu_gp_ongoing(t) /\ registry' = registry \ {t} /\ rpc' = "gp_clear"
    BY <1>9 DEF WalkReaders
  <2>2. /\ rpc = "gp_walk" /\ UNCHANGED <<pre, ctr, rcu_gp_ctr, why>>
        /\ rpc' \in {"gp_walk", "gp_clear"}
    BY <1>9 DEF WalkReaders
  <2>3. InGp /\ Taken /\ Taken' /\ ~Draining' /\ rpc' # "func"
    BY <2>2 DEF InGp, Taken, Draining, Waiting
  <2>4. \A m \in TakenNodes : \A u \in pre[m] :
          u \in registry /\ rcu_gp_ongoing(u) /\ ctr[u] < rcu_gp_ctr
    <3>1. TAKE m \in TakenNodes
    <3>2. TAKE u \in pre[m]
    <3>3. u \in registry /\ ctr[u] < rcu_gp_ctr BY <1>0, <2>3 DEF GracePeriod
    <3>4. u \in Threads /\ InSection(u) BY <1>0, <1>b DEF PreInSection, TypeOK
    <3>5. ctr[u] # 0 BY <1>0, <3>4 DEF Published
    <3>6. ctr[u] \in Nat /\ rcu_gp_ctr \in Nat BY <1>0, <3>4 DEF TypeOK
    <3>7. QED BY <3>3, <3>5, <3>6 DEF rcu_gp_ongoing
  <2>5. \A m \in TakenNodes' : \A u \in pre'[m] :
          u \in registry' /\ ctr'[u] < rcu_gp_ctr'
    BY <1>a, <2>1, <2>2, <2>3, <2>4
  <2>6. QED BY <2>3, <2>5 DEF GracePeriod
<1>10. CASE ClearQuiescent
  BY <1>10, <1>0, <1>a DEF GracePeriod, Taken, InGp, Draining, WaitingGp,
      Waiting, ClearQuiescent
<1>11. CASE EndWalk
  BY <1>11, <1>0, <1>a DEF GracePeriod, Taken, InGp, Draining, WaitingGp,
      Waiting, EndWalk
<1>12. CASE Drain
  <2>1. UNCHANGED pre BY <1>12, DrainCases DEF IndInv
  <2>2. Draining /\ Taken /\ rpc # "func" BY <1>12 DEF Drain, Draining, Taken
  <2>3. ~InGp' BY <1>12, DrainCases
    DEF IndInv, InGp, WaitingGp, Waiting, Stays, Rotates, Pops
  <2>4. Draining' => \A m \in TakenNodes' : pre'[m] = {}
    BY <1>0, <1>a, <2>1, <2>2 DEF GracePeriod, Taken
  <2>5. rpc' = "func" => cur' \in Nodes /\ pre'[cur'] = {}
    <3>1. SUFFICES ASSUME rpc' = "func" PROVE cur' \in TakenNodes
      BY <1>0, <2>1, <2>2 DEF GracePeriod, TakenNodes
    <3>2. Pops BY <1>12, <2>2, <3>1, DrainCases DEF IndInv, Stays, Rotates
    <3>3. 1 \in 1 .. Len(queue) /\ 1 <= n /\ cur' = queue[1] /\ queue[1] \in Nodes
      BY <1>0, <3>2 DEF Pops, TypeOK
    <3>4. QED BY <3>3 DEF TakenNodes
  <2>6. QED BY <2>3, <2>4, <2>5 DEF GracePeriod
<1>13. CASE Func
  BY <1>13, <1>0, <1>a DEF GracePeriod, Taken, InGp, Draining, WaitingGp,
      Waiting, Func
<1>14. CASE WaitStep
  BY <1>14, <1>0, <1>a, ResumeCases DEF GracePeriod, Taken, InGp, Draining,
      WaitingGp, Waiting, WaitStep, Wait, FutexWait, SpuriousWakeup
<1>15. ASSUME NEW t \in Threads, rcu_register_thread(t) PROVE GracePeriod'
  BY <1>15, <1>0, <1>a DEF GracePeriod, Taken, InGp, Draining, WaitingGp,
      Waiting, rcu_register_thread, GpLockFree
<1>16. ASSUME NEW t \in Threads, rcu_unregister_thread(t) PROVE GracePeriod'
  BY <1>16, <1>0, <1>a DEF GracePeriod, Taken, InGp, Draining, WaitingGp,
      Waiting, rcu_unregister_thread, GpLockFree
<1>17. ASSUME NEW t \in Threads, rcu_read_lock(t) PROVE GracePeriod'
  BY <1>17, <1>0, <1>a DEF GracePeriod, Taken, InGp, Draining, WaitingGp,
      Waiting, rcu_read_lock
<1>18. ASSUME NEW t \in Threads, Publish(t) PROVE GracePeriod'
  <2>1. UNCHANGED <<pre, rpc, why, cur, registry, rcu_gp_ctr>>
    BY <1>18 DEF Publish
  <2>2. \A m \in TakenNodes : \A u \in pre[m] : ctr'[u] = ctr[u]
    BY <1>18, <1>0, <1>b DEF Publish, PreInSection, InSection, TypeOK
  <2>3. QED
    BY <1>0, <1>a, <2>1, <2>2
       DEF GracePeriod, Taken, InGp, Draining, WaitingGp, Waiting
<1>19. ASSUME NEW t \in Threads, rcu_read_unlock(t) PROVE GracePeriod'
  <2>1. UNCHANGED <<rpc, why, cur, registry, rcu_gp_ctr>>
    BY <1>19 DEF rcu_read_unlock
  <2>2. \A m \in Nodes : /\ pre'[m] \subseteq pre[m]
                         /\ \A u \in pre'[m] : ctr'[u] = ctr[u]
    BY <1>19, <1>0 DEF rcu_read_unlock, TypeOK
  <2>3. QED
    BY <1>0, <1>a, <1>b, <2>1, <2>2
       DEF GracePeriod, Taken, InGp, Draining, WaitingGp, Waiting
<1>20. ASSUME NEW t \in Threads, CheckWaiting(t) PROVE GracePeriod'
  BY <1>20, <1>0, <1>a DEF GracePeriod, Taken, InGp, Draining, WaitingGp,
      Waiting, CheckWaiting
<1>21. ASSUME NEW t \in Threads, ClearWaiting(t) PROVE GracePeriod'
  BY <1>21, <1>0, <1>a DEF GracePeriod, Taken, InGp, Draining, WaitingGp,
      Waiting, ClearWaiting
<1>22. ASSUME NEW p \in Procs, call_rcu1(p) PROVE GracePeriod'
  <2>1. PICK m \in Nodes \ called :
          pre' = [pre EXCEPT ![m] = {t \in Threads : InSection(t)}]
    BY <1>22 DEF call_rcu1
  <2>2. UNCHANGED <<rpc, why, cur, registry, ctr, rcu_gp_ctr>>
    BY <1>22 DEF call_rcu1
  <2>3. \A k \in TakenNodes : pre'[k] = pre[k]
    BY <1>0, <1>b, <2>1 DEF TypeOK
  <2>4. rpc = "func" => pre'[cur] = pre[cur]
    BY <1>0, <2>1 DEF SafeInv, QueueShape, GracePeriod, TypeOK
  <2>5. QED
    BY <1>0, <1>a, <2>2, <2>3, <2>4
       DEF GracePeriod, Taken, InGp, Draining, WaitingGp, Waiting
<1>23. ASSUME NEW p \in Procs, Link(p) PROVE GracePeriod'
  BY <1>23, <1>0, <1>a DEF GracePeriod, Taken, InGp, Draining, WaitingGp,
      Waiting, Link
<1>24. ASSUME NEW p \in Procs, Count(p) PROVE GracePeriod'
  BY <1>24, <1>0, <1>a DEF GracePeriod, Taken, InGp, Draining, WaitingGp,
      Waiting, Count
<1>25. ASSUME NEW p \in Procs, EventSet(p) PROVE GracePeriod'
  BY <1>25, <1>0, <1>a, ResumeCases DEF GracePeriod, Taken, InGp, Draining,
      WaitingGp, Waiting, EventSet, EndSet, EventOf
<1>26. CASE UNCHANGED vars
  BY <1>26, <1>0, <1>a DEF GracePeriod, Taken, InGp, Draining, WaitingGp, Waiting
<1>27. QED
  BY <1>1, <1>2, <1>3, <1>4, <1>5, <1>6, <1>7, <1>8, <1>9, <1>10, <1>11,
      <1>12, <1>13, <1>14, <1>15, <1>16, <1>17, <1>18, <1>19, <1>20, <1>21,
      <1>22, <1>23, <1>24, <1>25, <1>26, NextCases

\* Every callback runs after the critical sections that were under way when its
\* object was handed to call_rcu1, provided that threads are registered before
\* they enter critical sections, as docs/rcu.txt asks for.
THEOREM CallbacksWait ==
  ASSUME ReadersRegistered
  PROVE  Spec => []CallbackAfterReaders
<1>1. Init => IndInv
  <2>1. ASSUME Init PROVE Registered /\ PreInSection /\ GracePeriod
    BY <2>1 DEF Init, Registered, PreInSection, GracePeriod, InGp, Draining,
       WaitingGp, Waiting
  <2>2. QED BY <2>1, InitSafeInv DEF IndInv
<1>2. IndInv /\ [Next]_vars => IndInv'
  <2>1. ASSUME IndInv, [Next]_vars PROVE IndInv'
    BY <2>1, SafeInvStep, RegisteredStep, InSectionStep, GraceStep DEF IndInv
  <2>2. QED BY <2>1
<1>3. IndInv => CallbackAfterReaders
  BY DEF IndInv, GracePeriod, CallbackAfterReaders
<1>4. QED BY <1>1, <1>2, <1>3, PTL DEF Spec
=============================================================================
