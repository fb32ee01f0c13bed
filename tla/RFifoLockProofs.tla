--------------------------- MODULE RFifoLockProofs ---------------------------
(***************************************************************************)
(* Mutual exclusion of the recursive ticket lock, for any number of        *)
(* threads that is smaller than the number of tickets.  The invariant says *)
(* where the tickets that are out lie on the circle of ticket numbers.     *)
(***************************************************************************)
EXTENDS RFifoLock, SequenceTheorems, FiniteSetTheorems, TLAPS

\* The position of a queued thread, counted from head; the number of queued
\* threads is the number of tickets that are out.
Tickets ==
  /\ Ahead(head, tail) = Cardinality(Queued)
  /\ \A t \in Queued : Ahead(head, ticket[t]) < Ahead(head, tail)
  /\ \A t, u \in Queued : ticket[t] = ticket[u] => t = u
  /\ \A t \in Threads : pc[t] = "in" => ticket[t] = head

\* The lock's own idea of its owner is the threads' idea.
Owner ==
  /\ \A t \in Threads : pc[t] = "in" <=> (owner_thread = t /\ nesting > 0)
  /\ \A t \in Threads : held[t] = IF pc[t] = "in" THEN nesting ELSE 0

\* A lock that is held is held by a thread.
HasOwner == nesting > 0 => owner_thread \in Threads

IndInv == TypeOK /\ Tickets /\ Owner /\ HasOwner

\* Arithmetic of tickets: one more is out after Inc(tail), one less after
\* Inc(head), and what was out stays out.
LEMMA AheadArith ==
  ASSUME NEW h \in 0 .. Wrap - 1, NEW k \in 0 .. Wrap - 1
  PROVE  /\ Ahead(h, k) \in 0 .. Wrap - 1
         /\ Inc(k) \in 0 .. Wrap - 1
         /\ Ahead(h, k) = 0 <=> h = k
         /\ Ahead(h, k) < Wrap - 1 => Ahead(h, Inc(k)) = Ahead(h, k) + 1
         /\ Ahead(h, k) > 0 => Ahead(Inc(h), k) = Ahead(h, k) - 1
BY LockAssumption DEF Ahead, Inc

\* Two tickets at the same distance are the same.
LEMMA AheadInjective ==
  ASSUME NEW h \in 0 .. Wrap - 1, NEW j \in 0 .. Wrap - 1, NEW k \in 0 .. Wrap - 1,
         Ahead(h, j) = Ahead(h, k)
  PROVE  j = k
BY LockAssumption DEF Ahead

\* Finitely many threads are queued, and a thread that is not leaves a ticket
\* to draw.
LEMMA QueuedFinite ==
  /\ IsFiniteSet(Queued) /\ Cardinality(Queued) \in Nat
  /\ \A t \in Threads \ Queued : Cardinality(Queued) < Wrap - 1
<1>0. Queued \subseteq Threads BY DEF Queued
<1>1. IsFiniteSet(Queued) /\ Cardinality(Queued) \in Nat
  BY <1>0, LockAssumption, FS_Subset, FS_CardinalityType
<1>2. ASSUME NEW t \in Threads \ Queued PROVE Cardinality(Queued) < Wrap - 1
  <2>1. Queued \cup {t} \subseteq Threads BY <1>0
  <2>2. IsFiniteSet(Queued \cup {t}) BY <2>1, LockAssumption, FS_Subset
  <2>3. Cardinality(Queued \cup {t}) = Cardinality(Queued) + 1
    BY <1>1, FS_AddElement
  <2>4. Cardinality(Queued \cup {t}) <= Cardinality(Threads)
    BY <2>1, LockAssumption, FS_Subset
  <2>5. Cardinality(Threads) \in Nat BY LockAssumption, FS_CardinalityType
  <2>6. QED BY <1>1, <2>3, <2>4, <2>5, LockAssumption
<1>3. QED BY <1>1, <1>2

\* rfifolock_init establishes the invariant.
LEMMA InitInd == Init => IndInv
<1> SUFFICES ASSUME Init PROVE IndInv OBVIOUS
<1>1. TypeOK
  <2>1. Cardinality(Threads) \in Nat BY LockAssumption, FS_CardinalityType
  <2>2. 0 \in 0 .. Wrap - 1 BY <2>1, LockAssumption
  <2>3. ticket \in [Threads -> 0 .. Wrap - 1] BY <2>2 DEF Init
  <2>4. pc \in [Threads -> {"out", "waiting", "in"}] BY DEF Init
  <2>5. 0 \in 0 .. MaxNesting BY LockAssumption
  <2>6. held \in [Threads -> 0 .. MaxNesting] BY <2>5 DEF Init
  <2>7. kicked \in BOOLEAN /\ signalled \in SUBSET Threads BY DEF Init
  <2>8. QED BY <2>2, <2>3, <2>4, <2>5, <2>6, <2>7 DEF Init, TypeOK
<1>2. Queued = {} BY DEF Init, Queued
<1>3. Cardinality(Queued) = 0 BY <1>2, FS_EmptySet
<1>4. Tickets BY <1>2, <1>3 DEF Init, Tickets, Ahead
<1>5. Owner BY LockAssumption DEF Init, Owner
<1>6. HasOwner BY DEF Init, HasOwner
<1>7. QED BY <1>1, <1>4, <1>5, <1>6 DEF IndInv

\* Drawing a ticket: the effect on the queued threads.
LEMMA DrawTicket ==
  ASSUME IndInv, NEW t \in Threads, pc[t] = "out",
         NEW s \in {"waiting", "in"}, s = "in" => tail = head,
         head' = head, tail' = Inc(tail),
         ticket' = [ticket EXCEPT ![t] = tail],
         pc' = [pc EXCEPT ![t] = s]
  PROVE  Tickets'
<1>0. TypeOK /\ Tickets BY DEF IndInv
<1>1. t \in Threads \ Queued BY DEF Queued
<1>2. Queued' = Queued \cup {t} BY <1>0 DEF Queued, TypeOK
<1>3. Cardinality(Queued') = Cardinality(Queued) + 1
  BY <1>1, <1>2, QueuedFinite, FS_AddElement
<1>4. head \in 0 .. Wrap - 1 /\ tail \in 0 .. Wrap - 1
      /\ \A u \in Threads : ticket[u] \in 0 .. Wrap - 1
  BY <1>0 DEF TypeOK
<1>5. Ahead(head, tail) < Wrap - 1 BY <1>0, <1>1, QueuedFinite DEF Tickets
<1>6. Ahead(head, Inc(tail)) = Ahead(head, tail) + 1
      /\ Ahead(head, tail) \in 0 .. Wrap - 1
  BY <1>4, <1>5, AheadArith
<1>7. ticket'[t] = tail /\ \A u \in Threads : u # t => ticket'[u] = ticket[u]
  BY <1>0 DEF TypeOK
<1>8. Ahead(head', tail') = Cardinality(Queued')
  BY <1>0, <1>3, <1>6 DEF Tickets
<1>9. \A u \in Queued' : Ahead(head', ticket'[u]) < Ahead(head', tail')
  <2> SUFFICES ASSUME NEW u \in Queued'
               PROVE  Ahead(head', ticket'[u]) < Ahead(head', tail')
    OBVIOUS
  <2>1. CASE u = t BY <1>6, <1>7, <2>1, LockAssumption
  <2>2. CASE u # t
    <3>1. u \in Queued /\ u \in Threads BY <1>2, <2>2 DEF Queued
    <3>2. Ahead(head, ticket[u]) < Ahead(head, tail) BY <1>0, <3>1 DEF Tickets
    <3>3. Ahead(head, ticket[u]) \in 0 .. Wrap - 1 BY <1>4, <3>1, AheadArith
    <3>4. QED BY <1>6, <1>7, <2>2, <3>1, <3>2, <3>3, LockAssumption
  <2>3. QED BY <2>1, <2>2
<1>10. \A u, v \in Queued' : ticket'[u] = ticket'[v] => u = v
  <2>1. \A u \in Queued : ticket[u] # tail
    <3> SUFFICES ASSUME NEW u \in Queued, ticket[u] = tail PROVE FALSE OBVIOUS
    <3>1. Ahead(head, tail) < Ahead(head, tail) BY <1>0 DEF Tickets
    <3>2. QED BY <1>6, <3>1, LockAssumption
  <2>2. Queued \subseteq Threads BY DEF Queued
  <2>3. QED BY <1>0, <1>2, <1>7, <2>1, <2>2 DEF Tickets
<1>11. \A u \in Threads : pc'[u] = "in" => ticket'[u] = head'
  BY <1>0, <1>7 DEF Tickets, TypeOK
<1>12. QED BY <1>8, <1>9, <1>10, <1>11 DEF Tickets

\* Steps that draw no ticket and pass nothing on keep the tickets.
LEMMA SameTickets ==
  ASSUME Tickets, UNCHANGED <<head, tail, ticket>>, Queued' = Queued,
         \A t \in Threads : pc'[t] = "in" => pc[t] = "in" \/ ticket[t] = head
  PROVE  Tickets'
BY DEF Tickets, Ahead

\* Taking possession: the lock had no owner and the thread was not inside.
LEMMA TakeOwnership ==
  ASSUME TypeOK, Owner, NEW t \in Threads, Own(t), nesting = 0
  PROVE  /\ Owner' /\ nesting' \in 0 .. MaxNesting /\ owner_thread' \in Threads
         /\ held' \in [Threads -> 0 .. MaxNesting]
         /\ pc' \in [Threads -> {"out", "waiting", "in"}]
<1>1. nesting' = 1 /\ owner_thread' = t BY DEF Own
<1>2. \A u \in Threads : pc[u] # "in" /\ held[u] = 0 BY LockAssumption DEF Owner
<1>3. held' = [held EXCEPT ![t] = 1]
  <2>1. held' = [held EXCEPT ![t] = held[t] + 1] BY DEF Own
  <2>2. held[t] + 1 = 1 BY <1>2
  <2>3. QED BY <2>1, <2>2
<1>4. pc' = [pc EXCEPT ![t] = "in"] BY DEF Own
<1>5. Owner'
  <2>1. \A u \in Threads : pc'[u] = "in" <=> u = t BY <1>2, <1>4 DEF TypeOK
  <2>2. \A u \in Threads : held'[u] = IF u = t THEN 1 ELSE 0
    BY <1>2, <1>3 DEF TypeOK
  <2>3. QED BY <1>1, <2>1, <2>2 DEF Owner
<1>6. QED BY <1>1, <1>3, <1>4, <1>5, LockAssumption DEF TypeOK

\* A ticket that is up means that nobody owns the lock.
LEMMA TurnMeansFree ==
  ASSUME IndInv, NEW t \in Threads, pc[t] = "waiting", ticket[t] = head
  PROVE  nesting = 0
<1> SUFFICES ASSUME nesting # 0 PROVE FALSE OBVIOUS
<1>0. TypeOK /\ Tickets /\ Owner BY DEF IndInv
<1>1. nesting > 0 BY <1>0 DEF TypeOK
<1>2. CASE owner_thread \in Threads
  <2>1. pc[owner_thread] = "in" BY <1>0, <1>1, <1>2 DEF Owner
  <2>2. ticket[owner_thread] = head BY <1>0, <1>2, <2>1 DEF Tickets
  <2>3. t \in Queued /\ owner_thread \in Queued BY <1>2, <2>1 DEF Queued
  <2>4. t = owner_thread BY <1>0, <2>2, <2>3 DEF Tickets
  <2>5. QED BY <2>1, <2>4
<1>3. CASE owner_thread \notin Threads
  BY <1>0, <1>1, <1>3 DEF IndInv, HasOwner
<1>4. QED BY <1>2, <1>3

\* No ticket out means that nobody owns the lock.
LEMMA EmptyMeansFree ==
  ASSUME IndInv, tail = head
  PROVE  nesting = 0
<1> SUFFICES ASSUME nesting # 0 PROVE FALSE OBVIOUS
<1>0. TypeOK /\ Tickets /\ Owner /\ HasOwner BY DEF IndInv
<1>1. nesting > 0 /\ owner_thread \in Threads BY <1>0 DEF TypeOK, HasOwner
<1>2. owner_thread \in Queued BY <1>0, <1>1 DEF Owner, Queued
<1>3. Ahead(head, ticket[owner_thread]) < Ahead(head, tail)
  BY <1>0, <1>2 DEF Tickets
<1>4. Ahead(head, tail) = 0 BY <1>0, AheadArith DEF TypeOK
<1>5. Ahead(head, ticket[owner_thread]) \in 0 .. Wrap - 1
  BY <1>0, <1>1, AheadArith DEF TypeOK
<1>6. QED BY <1>3, <1>4, <1>5, LockAssumption

\* The three ways through rfifolock_lock preserve the invariant.
LEMMA LockSteps ==
  ASSUME IndInv, NEW t \in Threads, rfifolock_lock(t)
  PROVE  IndInv'
<1>0. TypeOK /\ Tickets /\ Owner /\ HasOwner BY DEF IndInv
<1>1. CASE LockNested(t)
  <2>1. pc[t] = "in" /\ held[t] = nesting BY <1>0, <1>1 DEF LockNested, Owner
  <2>2. pc' = pc BY <1>0, <1>1, <2>1 DEF LockNested, Own, TypeOK
  <2>3. nesting' = nesting + 1 /\ owner_thread' = t /\ nesting + 1 \in 0 .. MaxNesting
    BY <1>0, <1>1, LockAssumption DEF LockNested, Own, TypeOK
  <2>4. held' = [held EXCEPT ![t] = nesting + 1]
    BY <1>1, <2>1 DEF LockNested, Own
  <2>5. TypeOK' BY <1>0, <1>1, <2>2, <2>3, <2>4 DEF LockNested, TypeOK
  <2>6. Queued' = Queued BY <2>2 DEF Queued
  <2>7. Tickets' BY <1>0, <1>1, <2>2, <2>6, SameTickets DEF LockNested
  <2>8. Owner'
    <3>1. \A u \in Threads : pc[u] = "in" <=> u = t BY <1>0, <1>1 DEF LockNested, Owner
    <3>2. \A u \in Threads : held'[u] = IF u = t THEN nesting + 1 ELSE 0
      BY <1>0, <2>4, <3>1 DEF Owner, TypeOK
    <3>3. QED BY <1>0, <2>2, <2>3, <3>1, <3>2 DEF Owner, TypeOK
  <2>9. HasOwner' BY <2>3 DEF HasOwner
  <2>10. QED BY <2>5, <2>7, <2>8, <2>9 DEF IndInv
<1>2. CASE LockFree(t)
  <2>1. nesting = 0 BY <1>2, EmptyMeansFree DEF LockFree
  <2>2. /\ Owner' /\ nesting' \in 0 .. MaxNesting /\ owner_thread' \in Threads
        /\ held' \in [Threads -> 0 .. MaxNesting]
        /\ pc' \in [Threads -> {"out", "waiting", "in"}]
    BY <1>0, <1>2, <2>1, TakeOwnership DEF LockFree
  <2>3. tail' \in 0 .. Wrap - 1 /\ ticket' \in [Threads -> 0 .. Wrap - 1]
    BY <1>0, <1>2, AheadArith DEF LockFree, TypeOK
  <2>4. TypeOK' BY <1>0, <1>2, <2>2, <2>3 DEF LockFree, TypeOK
  <2>5. Tickets'
    <3>1. /\ pc[t] = "out" /\ tail = head /\ head' = head /\ tail' = Inc(tail)
          /\ ticket' = [ticket EXCEPT ![t] = tail] /\ pc' = [pc EXCEPT ![t] = "in"]
      BY <1>2 DEF LockFree, Own
    <3>2. QED BY <3>1, DrawTicket
  <2>6. QED BY <2>2, <2>4, <2>5 DEF IndInv, HasOwner
<1>3. CASE LockContended(t)
  <2>1. /\ pc[t] = "out" /\ head' = head /\ tail' = Inc(tail)
        /\ ticket' = [ticket EXCEPT ![t] = tail] /\ pc' = [pc EXCEPT ![t] = "waiting"]
        /\ UNCHANGED <<owner_thread, nesting, held>>
    BY <1>3 DEF LockContended
  <2>2. Tickets' BY <2>1, DrawTicket
  <2>3. /\ tail' \in 0 .. Wrap - 1 /\ ticket' \in [Threads -> 0 .. Wrap - 1]
        /\ pc' \in [Threads -> {"out", "waiting", "in"}]
    BY <1>0, <2>1, AheadArith DEF TypeOK
  <2>4. kicked' \in BOOLEAN /\ signalled' \in SUBSET Threads
    BY <1>0, <1>3 DEF LockContended, TypeOK
  <2>5. TypeOK' BY <1>0, <2>1, <2>3, <2>4 DEF TypeOK
  <2>6. Owner' /\ HasOwner' BY <1>0, <2>1 DEF Owner, HasOwner, TypeOK
  <2>7. QED BY <2>2, <2>5, <2>6 DEF IndInv
<1>4. QED BY <1>1, <1>2, <1>3 DEF rfifolock_lock

\* The returns from qemu_cond_wait preserve the invariant.
LEMMA WakeSteps ==
  ASSUME IndInv, NEW t \in Threads, Wakeup(t) \/ SpuriousWakeup(t)
  PROVE  IndInv'
<1>0. TypeOK /\ Tickets /\ Owner /\ HasOwner BY DEF IndInv
<1>1. CASE WakeOwn(t)
  <2>1. nesting = 0 BY <1>1, TurnMeansFree DEF WakeOwn
  <2>2. /\ Owner' /\ nesting' \in 0 .. MaxNesting /\ owner_thread' \in Threads
        /\ held' \in [Threads -> 0 .. MaxNesting]
        /\ pc' \in [Threads -> {"out", "waiting", "in"}]
    BY <1>0, <1>1, <2>1, TakeOwnership DEF WakeOwn
  <2>3. TypeOK' BY <1>0, <1>1, <2>2 DEF WakeOwn, TypeOK
  <2>4. Queued' = Queued BY <1>0, <1>1 DEF WakeOwn, Own, Queued, TypeOK
  <2>5. \A u \in Threads : pc'[u] = "in" => pc[u] = "in" \/ ticket[u] = head
    BY <1>0, <1>1 DEF WakeOwn, Own, TypeOK
  <2>6. Tickets' BY <1>0, <1>1, <2>4, <2>5, SameTickets DEF WakeOwn
  <2>7. QED BY <2>2, <2>3, <2>6 DEF IndInv, HasOwner
<1>2. CASE WakeEarly(t) \/ SpuriousWakeup(t)
  <2>1. UNCHANGED <<head, tail, owner_thread, nesting, ticket, pc, held>>
    BY <1>2 DEF WakeEarly, SpuriousWakeup
  <2>2. kicked' \in {kicked, TRUE} /\ signalled' \in SUBSET Threads
    BY <1>0, <1>2 DEF WakeEarly, SpuriousWakeup, TypeOK
  <2>3. kicked' \in BOOLEAN BY <1>0, <2>2 DEF TypeOK
  <2>4. TypeOK' BY <1>0, <2>1, <2>2, <2>3 DEF TypeOK
  <2>5. Queued' = Queued BY <2>1 DEF Queued
  <2>6. Tickets' BY <1>0, <2>1, <2>5, SameTickets
  <2>7. Owner' /\ HasOwner' BY <1>0, <2>1 DEF Owner, HasOwner
  <2>8. QED BY <2>4, <2>6, <2>7 DEF IndInv
<1>3. QED BY <1>1, <1>2 DEF Wakeup

\* The two ways through rfifolock_unlock preserve the invariant.
LEMMA UnlockSteps ==
  ASSUME IndInv, NEW t \in Threads, rfifolock_unlock(t)
  PROVE  IndInv'
<1>0. TypeOK /\ Tickets /\ Owner /\ HasOwner BY DEF IndInv
<1>1. pc[t] = "in" /\ held[t] = nesting /\ owner_thread = t
      /\ nesting \in 0 .. MaxNesting
  BY <1>0 DEF rfifolock_unlock, UnlockLast, UnlockNested, Owner, TypeOK
<1>2. \A u \in Threads : pc[u] = "in" => u = t BY <1>0, <1>1 DEF Owner
<1>3. CASE UnlockNested(t)
  <2>1. /\ UNCHANGED <<head, tail, owner_thread, ticket, pc, signalled, kicked>>
        /\ nesting > 1 /\ nesting' = nesting - 1
        /\ held' = [held EXCEPT ![t] = nesting - 1]
    BY <1>1, <1>3 DEF UnlockNested
  <2>2. nesting - 1 \in 0 .. MaxNesting /\ nesting - 1 > 0
    BY <1>1, <2>1, LockAssumption
  <2>3. TypeOK' BY <1>0, <2>1, <2>2 DEF TypeOK
  <2>4. Queued' = Queued BY <2>1 DEF Queued
  <2>5. Tickets' BY <1>0, <2>1, <2>4, SameTickets
  <2>6. Owner'
    <3>1. \A u \in Threads : held'[u] = IF u = t THEN nesting - 1 ELSE 0
      BY <1>0, <1>2, <2>1 DEF Owner, TypeOK
    <3>2. QED BY <1>0, <1>1, <1>2, <2>1, <2>2, <3>1 DEF Owner
  <2>7. owner_thread' \in Threads BY <1>1, <2>1
  <2>8. HasOwner' BY <2>7 DEF HasOwner
  <2>9. QED BY <2>3, <2>5, <2>6, <2>8 DEF IndInv
<1>4. CASE UnlockLast(t)
  <2>1. /\ UNCHANGED <<tail, owner_thread, ticket>>
        /\ nesting = 1 /\ nesting' = 0 /\ head' = Inc(head)
        /\ held' = [held EXCEPT ![t] = 0]
        /\ pc' = [pc EXCEPT ![t] = "out"]
        /\ signalled' \in SUBSET Threads /\ kicked' = FALSE
    BY <1>1, <1>4 DEF UnlockLast
  <2>2. /\ head \in 0 .. Wrap - 1 /\ tail \in 0 .. Wrap - 1
        /\ \A u \in Threads : ticket[u] \in 0 .. Wrap - 1
    BY <1>0 DEF TypeOK
  <2>3. TypeOK'
    <3>1. kicked' \in BOOLEAN BY <2>1
    <3>2. head' \in 0 .. Wrap - 1 BY <2>1, <2>2, AheadArith
    <3>3. held' \in [Threads -> 0 .. MaxNesting]
          /\ pc' \in [Threads -> {"out", "waiting", "in"}]
          /\ nesting' \in 0 .. MaxNesting
      BY <1>0, <2>1, LockAssumption DEF TypeOK
    <3>4. QED BY <1>0, <2>1, <3>1, <3>2, <3>3 DEF TypeOK
  <2>4. t \in Queued /\ Queued' = Queued \ {t} BY <1>0, <1>1, <2>1 DEF Queued, TypeOK
  <2>5. Cardinality(Queued') = Cardinality(Queued) - 1
    BY <2>4, QueuedFinite, FS_RemoveElement
  <2>6. ticket[t] = head BY <1>0, <1>1 DEF Tickets
  <2>7. \A u \in Queued' : Ahead(head, ticket[u]) > 0
    <3> SUFFICES ASSUME NEW u \in Queued' PROVE Ahead(head, ticket[u]) > 0 OBVIOUS
    <3>1. u \in Queued /\ u # t /\ u \in Threads BY <2>4 DEF Queued
    <3>2. ticket[u] # head BY <1>0, <2>4, <2>6, <3>1 DEF Tickets
    <3>3. ticket[u] \in 0 .. Wrap - 1 /\ head \in 0 .. Wrap - 1 BY <2>2, <3>1
    <3>4. /\ Ahead(head, ticket[u]) \in 0 .. Wrap - 1
          /\ Ahead(head, ticket[u]) = 0 <=> head = ticket[u]
      BY <3>3, AheadArith
    <3>5. Ahead(head, ticket[u]) # 0 BY <3>2, <3>4
    <3>6. QED BY <3>4, <3>5, LockAssumption
  <2>8. Ahead(head, ticket[t]) = 0 BY <2>2, <2>6, AheadArith
  <2>9. Ahead(head, tail) > 0 BY <1>0, <2>4, <2>8 DEF Tickets
  <2>10. Ahead(head', tail) = Ahead(head, tail) - 1 BY <2>1, <2>2, <2>9, AheadArith
  <2>11. Ahead(head', tail') = Cardinality(Queued')
    BY <1>0, <2>1, <2>5, <2>10 DEF Tickets
  <2>12. \A u \in Queued' : Ahead(head', ticket'[u]) < Ahead(head', tail')
    <3> SUFFICES ASSUME NEW u \in Queued'
                 PROVE  Ahead(head', ticket'[u]) < Ahead(head', tail')
      OBVIOUS
    <3>1. u \in Queued /\ u \in Threads BY <2>4 DEF Queued
    <3>2. Ahead(head, ticket[u]) < Ahead(head, tail) BY <1>0, <3>1 DEF Tickets
    <3>3. Ahead(head', ticket[u]) = Ahead(head, ticket[u]) - 1
      BY <2>1, <2>2, <2>7, <3>1, AheadArith
    <3>4. Ahead(head, ticket[u]) \in 0 .. Wrap - 1 /\ Ahead(head, tail) \in 0 .. Wrap - 1
      BY <2>2, <3>1, AheadArith
    <3>5. QED BY <2>1, <2>10, <3>2, <3>3, <3>4, LockAssumption
  <2>13. \A u, v \in Queued' : ticket'[u] = ticket'[v] => u = v
    BY <1>0, <2>1, <2>4 DEF Tickets
  <2>14. \A u \in Threads : pc'[u] # "in" BY <1>0, <1>2, <2>1 DEF TypeOK
  <2>15. Tickets' BY <2>11, <2>12, <2>13, <2>14 DEF Tickets
  <2>16. Owner'
    <3>1. \A u \in Threads : held'[u] = 0 BY <1>0, <1>2, <2>1 DEF Owner, TypeOK
    <3>2. QED BY <2>1, <2>14, <3>1 DEF Owner
  <2>17. HasOwner' BY <2>1 DEF HasOwner
  <2>18. QED BY <2>3, <2>15, <2>16, <2>17 DEF IndInv
<1>5. QED BY <1>3, <1>4 DEF rfifolock_unlock

\* Every step preserves the invariant.
LEMMA NextInd == IndInv /\ [Next]_vars => IndInv'
<1> SUFFICES ASSUME IndInv, [Next]_vars PROVE IndInv' OBVIOUS
<1>1. CASE Next BY <1>1, LockSteps, WakeSteps, UnlockSteps DEF Next
<1>2. CASE UNCHANGED vars
  <2>1. Queued' = Queued BY <1>2 DEF vars, Queued
  <2>2. Tickets' BY <1>2, <2>1, SameTickets DEF vars, IndInv
  <2>3. QED BY <1>2, <2>2 DEF vars, IndInv, TypeOK, Owner, HasOwner
<1>3. QED BY <1>1, <1>2

\* The ticket invariant holds in every reachable state.
THEOREM Inductive == Spec => []IndInv
<1>1. QED BY InitInd, NextInd, PTL DEF Spec

\* Type correctness: tickets stay in range although they wrap around.
THEOREM LockTypes == Spec => []TypeOK
<1>1. IndInv => TypeOK BY DEF IndInv
<1>2. QED BY <1>1, Inductive, PTL

\* The tickets that are out are distinct and lie between head and tail.
THEOREM TicketsAlwaysConsistent == Spec => []TicketsConsistent
<1>1. IndInv => TicketsConsistent BY DEF IndInv, Tickets, TicketsConsistent
<1>2. QED BY <1>1, Inductive, PTL

\* At most one thread is inside, the lock knows which one, and how often it has
\* locked.
THEOREM Exclusion == Spec => []MutualExclusion
<1>1. IndInv => MutualExclusion
  <2> SUFFICES ASSUME IndInv, NEW t \in Threads, held[t] > 0
               PROVE  /\ owner_thread = t /\ nesting = held[t]
                      /\ \A u \in Threads : held[u] > 0 => u = t
    BY DEF MutualExclusion
  <2>1. \A u \in Threads : held[u] > 0 => pc[u] = "in"
    BY DEF IndInv, Owner
  <2>2. QED BY <2>1 DEF IndInv, Owner
<1>2. QED BY <1>1, Inductive, PTL

\* Nobody sleeps through his turn: the broadcast reaches every thread that
\* waits, and a thread that begins to wait is not the next one.
THEOREM NoLostTurn == Spec => []TurnSignalled
<1>1. Init => TurnSignalled BY DEF Init, TurnSignalled
<1>2. IndInv /\ TurnSignalled /\ [Next]_vars => TurnSignalled'
  <2> SUFFICES ASSUME IndInv, TurnSignalled, [Next]_vars,
                      NEW u \in Threads, pc'[u] = "waiting", ticket'[u] = head',
                      nesting' = 0
               PROVE  u \in signalled'
    BY DEF TurnSignalled
  <2>0. TypeOK /\ Tickets BY DEF IndInv
  <2>1. CASE UNCHANGED vars BY <2>1 DEF vars, TurnSignalled
  <2>2. ASSUME NEW t \in Threads,
               LockNested(t) \/ LockFree(t) \/ WakeOwn(t) \/ UnlockNested(t)
        PROVE  FALSE
    BY <2>0, <2>2
    DEF LockNested, LockFree, WakeOwn, UnlockNested, Own, TypeOK
  <2>3. ASSUME NEW t \in Threads, LockContended(t) PROVE u \in signalled'
    <3>1. CASE u = t
      <4>1. ticket'[u] = tail /\ tail # head /\ head' = head
        BY <2>0, <2>3, <3>1 DEF LockContended, TypeOK
      <4>2. QED BY <4>1
    <3>2. CASE u # t
      BY <2>0, <2>3, <3>2 DEF LockContended, TurnSignalled, TypeOK
    <3>3. QED BY <3>1, <3>2
  <2>4. ASSUME NEW t \in Threads, WakeEarly(t) \/ SpuriousWakeup(t)
        PROVE  u \in signalled'
    BY <2>4 DEF WakeEarly, SpuriousWakeup, TurnSignalled
  <2>5. ASSUME NEW t \in Threads, UnlockLast(t) PROVE u \in signalled'
    BY <2>0, <2>5 DEF UnlockLast, TypeOK
  <2>6. QED
    BY <2>1, <2>2, <2>3, <2>4, <2>5
    DEF Next, rfifolock_lock, rfifolock_unlock, Wakeup
<1>3. QED BY <1>1, <1>2, Inductive, PTL DEF Spec

\* Whoever waits has called the contention callback since the lock was last
\* passed on, or is about to wake up and to call it.
THEOREM CallbackCalled == Spec => []ContentionReported
<1>1. Init => ContentionReported BY DEF Init, ContentionReported
<1>2. IndInv /\ ContentionReported /\ [Next]_vars => ContentionReported'
  <2> SUFFICES ASSUME IndInv, ContentionReported, [Next]_vars,
                      NEW u \in Threads, pc'[u] = "waiting"
               PROVE  kicked' \/ u \in signalled'
    BY DEF ContentionReported
  <2>0. TypeOK BY DEF IndInv
  <2>1. CASE UNCHANGED vars BY <2>1 DEF vars, ContentionReported
  <2>2. ASSUME NEW t \in Threads, LockNested(t) \/ LockFree(t) \/ UnlockNested(t)
        PROVE  kicked' \/ u \in signalled'
    <3>1. pc[u] = "waiting" /\ kicked' = kicked /\ signalled' = signalled
      BY <2>0, <2>2 DEF LockNested, LockFree, UnlockNested, Own, TypeOK
    <3>2. QED BY <3>1 DEF ContentionReported
  <2>3. ASSUME NEW t \in Threads, LockContended(t) \/ WakeEarly(t)
        PROVE  kicked' \/ u \in signalled'
    BY <2>3 DEF LockContended, WakeEarly
  <2>4. ASSUME NEW t \in Threads, WakeOwn(t) PROVE kicked' \/ u \in signalled'
    <3>1. /\ pc[u] = "waiting" /\ u # t /\ kicked' = kicked
          /\ signalled' = signalled \ {t}
      BY <2>0, <2>4 DEF WakeOwn, Own, TypeOK
    <3>2. QED BY <3>1 DEF ContentionReported
  <2>5. ASSUME NEW t \in Threads, SpuriousWakeup(t) PROVE kicked' \/ u \in signalled'
    BY <2>5 DEF SpuriousWakeup, ContentionReported
  <2>6. ASSUME NEW t \in Threads, UnlockLast(t) PROVE kicked' \/ u \in signalled'
    BY <2>0, <2>6 DEF UnlockLast, TypeOK
  <2>7. QED
    BY <2>1, <2>2, <2>3, <2>4, <2>5, <2>6
    DEF Next, rfifolock_lock, rfifolock_unlock, Wakeup
<1>3. QED BY <1>1, <1>2, Inductive, PTL DEF Spec

-----------------------------------------------------------------------------
(***************************************************************************)
(* The ticket lock implements the abstract FIFO lock.  The queue of the    *)
(* abstract lock is the one sequence of waiting threads in which the       *)
(* thread at each place has the ticket that many places behind head.       *)
(***************************************************************************)

\* s lists the waiting threads in the order of their tickets, from the n-th
\* ticket after h up to k.
Lists(s, h, k, n, p, q) ==
  /\ s \in Seq(Threads)
  /\ Len(s) = Ahead(h, k) - n
  /\ \A i \in 1 .. Len(s) : p[s[i]] = "waiting" /\ Ahead(h, q[s[i]]) = i - 1 + n

QueueLists == Lists(WaitingQueue, head, tail, Served, pc, ticket)
OnlyQueue == \A s : Lists(s, head, tail, Served, pc, ticket) => s = WaitingQueue

\* The tickets that are out leave no gap.
LEMMA NoGap ==
  ASSUME IndInv, NEW k \in 0 .. Ahead(head, tail) - 1
  PROVE  \E t \in Queued : Ahead(head, ticket[t]) = k
<1>0. TypeOK /\ Tickets BY DEF IndInv
<1> DEFINE n == Ahead(head, tail)
<1> DEFINE place == [t \in Queued |-> Ahead(head, ticket[t])]
<1>1. /\ head \in 0 .. Wrap - 1 /\ tail \in 0 .. Wrap - 1
      /\ \A t \in Queued : ticket[t] \in 0 .. Wrap - 1
  BY <1>0 DEF TypeOK, Queued
<1>2. n \in Nat /\ \A t \in Queued : Ahead(head, ticket[t]) \in Nat
  <2>1. Ahead(head, tail) \in 0 .. Wrap - 1 BY <1>1, AheadArith
  <2>2. \A t \in Queued : Ahead(head, ticket[t]) \in 0 .. Wrap - 1
    BY <1>1, AheadArith
  <2>3. QED BY <2>1, <2>2
<1>3. \A t \in Queued : Ahead(head, ticket[t]) \in 0 .. n - 1
  BY <1>0, <1>2 DEF Tickets
<1>4. place \in [Queued -> 0 .. n - 1] BY <1>3
<1>5. \A t, u \in Queued : place[t] = place[u] => t = u
  <2> SUFFICES ASSUME NEW t \in Queued, NEW u \in Queued, place[t] = place[u]
               PROVE  t = u
    OBVIOUS
  <2>1. Ahead(head, ticket[t]) = Ahead(head, ticket[u]) OBVIOUS
  <2>2. ticket[t] = ticket[u] BY <1>1, <2>1, AheadInjective
  <2>3. QED BY <1>0, <2>2 DEF Tickets
<1>6. place \in Injection(Queued, 0 .. n - 1)
  BY <1>4, <1>5 DEF Injection, IsInjective
<1>7. IsFiniteSet(0 .. n - 1) /\ Cardinality(0 .. n - 1) = n
  <2>1. 0 \in Int /\ n - 1 \in Int BY <1>2
  <2>2. /\ IsFiniteSet(0 .. n - 1)
        /\ Cardinality(0 .. n - 1) = IF 0 > n - 1 THEN 0 ELSE n - 1 - 0 + 1
    BY <2>1, FS_Interval
  <2>3. QED BY <1>2, <2>2
<1>8. IsFiniteSet(Queued) /\ Cardinality(Queued) = n
  BY <1>0, QueuedFinite DEF Tickets
<1>9. place \in Surjection(Queued, 0 .. n - 1)
  BY <1>6, <1>7, <1>8, FS_Injection
<1>10. PICK t \in Queued : place[t] = k BY <1>9 DEF Surjection
<1>11. QED BY <1>10

\* The owner is the only queued thread that does not wait, and it is at head.
LEMMA WaitersBehind ==
  ASSUME IndInv, NEW t \in Queued
  PROVE  pc[t] = "waiting" <=> Ahead(head, ticket[t]) >= Served
<1>0. TypeOK /\ Tickets /\ Owner BY DEF IndInv
<1>1. /\ t \in Threads /\ head \in 0 .. Wrap - 1 /\ ticket[t] \in 0 .. Wrap - 1
      /\ nesting \in Nat /\ pc[t] \in {"waiting", "in"}
  BY <1>0 DEF TypeOK, Queued
<1>2. Ahead(head, ticket[t]) \in Nat /\ (Ahead(head, ticket[t]) = 0 <=> head = ticket[t])
  <2>1. /\ Ahead(head, ticket[t]) \in 0 .. Wrap - 1
        /\ Ahead(head, ticket[t]) = 0 <=> head = ticket[t]
    BY <1>1, AheadArith
  <2>2. QED BY <2>1
<1>3. CASE pc[t] = "in"
  <2>1. nesting > 0 /\ ticket[t] = head BY <1>0, <1>1, <1>3 DEF Owner, Tickets
  <2>2. QED BY <1>2, <1>3, <2>1 DEF Served
<1>4. CASE pc[t] = "waiting"
  <2>1. CASE nesting > 0
    <3>1. ticket[t] # head BY <1>1, <1>4, <2>1, TurnMeansFree
    <3>2. QED BY <1>2, <1>4, <2>1, <3>1 DEF Served
  <2>2. CASE ~(nesting > 0) BY <1>2, <1>4, <2>2 DEF Served
  <2>3. QED BY <2>1, <2>2
<1>5. QED BY <1>1, <1>3, <1>4

\* The owner's ticket is out, so there are not fewer tickets out than served.
LEMMA ServedOut ==
  ASSUME IndInv
  PROVE  /\ Served \in {0, 1} /\ Ahead(head, tail) \in Nat
         /\ Served <= Ahead(head, tail)
<1>0. TypeOK /\ HasOwner /\ Owner BY DEF IndInv
<1>1. Ahead(head, tail) \in Nat /\ (Ahead(head, tail) = 0 <=> head = tail)
  BY <1>0, AheadArith DEF TypeOK
<1>2. nesting > 0 => tail # head BY EmptyMeansFree
<1>3. QED BY <1>1, <1>2 DEF Served

\* The mapping's queue lists the waiting threads.
LEMMA MappedQueue == IndInv => QueueLists
<1> SUFFICES ASSUME IndInv PROVE QueueLists OBVIOUS
<1> DEFINE n == Ahead(head, tail) - Served
<1>1. n \in Nat /\ Served \in {0, 1} /\ Ahead(head, tail) \in Nat BY ServedOut
<1>2. \A i \in 1 .. n : \E t \in Threads : /\ pc[t] = "waiting"
                                           /\ Ahead(head, ticket[t]) = i - 1 + Served
  <2> SUFFICES ASSUME NEW i \in 1 .. n
               PROVE  \E t \in Threads : /\ pc[t] = "waiting"
                                         /\ Ahead(head, ticket[t]) = i - 1 + Served
    OBVIOUS
  <2>1. i - 1 + Served \in 0 .. Ahead(head, tail) - 1 BY <1>1
  <2>2. PICK t \in Queued : Ahead(head, ticket[t]) = i - 1 + Served BY <2>1, NoGap
  <2>3. i - 1 + Served >= Served BY <1>1
  <2>4. pc[t] = "waiting" BY <2>2, <2>3, WaitersBehind
  <2>5. t \in Threads BY DEF Queued
  <2>6. QED BY <2>2, <2>4, <2>5
<1>3. \A i \in 1 .. n : /\ WaitingQueue[i] \in Threads
                        /\ pc[WaitingQueue[i]] = "waiting"
                        /\ Ahead(head, ticket[WaitingQueue[i]]) = i - 1 + Served
  <2> SUFFICES ASSUME NEW i \in 1 .. n
               PROVE  WaitingQueue[i] \in WaitsAt(i - 1 + Served)
    BY DEF WaitsAt
  <2>1. WaitsAt(i - 1 + Served) # {} BY <1>2 DEF WaitsAt
  <2>2. WaitingQueue[i] = CHOOSE t \in WaitsAt(i - 1 + Served) : TRUE
    BY <2>1 DEF WaitingQueue
  <2>3. QED BY <2>1, <2>2
<1>4. WaitingQueue = [i \in 1 .. n |-> WaitingQueue[i]] BY DEF WaitingQueue
<1>5. WaitingQueue \in Seq(Threads) /\ Len(WaitingQueue) = n
  <2>1. WaitingQueue \in [1 .. n -> Threads] BY <1>3, <1>4
  <2>2. QED BY <1>1, <2>1
<1>6. QED BY <1>3, <1>5 DEF QueueLists, Lists

\* There is only one such sequence: a place determines the thread.
LEMMA OneQueue == IndInv => OnlyQueue
<1> SUFFICES ASSUME IndInv, NEW s, Lists(s, head, tail, Served, pc, ticket)
             PROVE  s = WaitingQueue
  BY DEF OnlyQueue
<1>0. TypeOK /\ Tickets BY DEF IndInv
<1>1. Lists(WaitingQueue, head, tail, Served, pc, ticket)
  BY MappedQueue DEF QueueLists
<1>2. /\ s \in Seq(Threads) /\ WaitingQueue \in Seq(Threads)
      /\ Len(s) = Len(WaitingQueue)
  BY <1>1 DEF Lists
<1>3. ASSUME NEW i \in 1 .. Len(s) PROVE s[i] = WaitingQueue[i]
  <2>1. /\ s[i] \in Threads /\ WaitingQueue[i] \in Threads
        /\ pc[s[i]] = "waiting" /\ pc[WaitingQueue[i]] = "waiting"
        /\ Ahead(head, ticket[s[i]]) = Ahead(head, ticket[WaitingQueue[i]])
    BY <1>1, <1>2 DEF Lists
  <2>2. s[i] \in Queued /\ WaitingQueue[i] \in Queued BY <2>1 DEF Queued
  <2>3. ticket[s[i]] = ticket[WaitingQueue[i]]
    BY <1>0, <2>1, AheadInjective DEF TypeOK
  <2>4. QED BY <1>0, <2>2, <2>3 DEF Tickets
<1>4. QED BY <1>2, <1>3, SeqEqual

\* What the mapped lock can do: the facts that each step's case uses.
LEMMA Mapped ==
  ASSUME IndInv, IndInv'
  PROVE  /\ Lists(WaitingQueue, head, tail, Served, pc, ticket)
         /\ \A s : Lists(s, head', tail', Served', pc', ticket') => s = WaitingQueue'
<1>1. IndInv' => OnlyQueue' BY OneQueue, PTL
<1>2. OnlyQueue' BY <1>1
<1>3. QED BY <1>2, MappedQueue DEF QueueLists, OnlyQueue

\* A step that moves no ticket and lets nobody in or out keeps the queue.
LEMMA SameQueue ==
  ASSUME IndInv, IndInv', UNCHANGED <<head, tail, ticket>>, Served' = Served,
         \A t \in Threads : pc[t] = "waiting" => pc'[t] = "waiting"
  PROVE  WaitingQueue' = WaitingQueue
<1>1. Lists(WaitingQueue, head, tail, Served, pc, ticket) BY Mapped
<1>2. Lists(WaitingQueue, head', tail', Served', pc', ticket')
  <2>1. \A i \in 1 .. Len(WaitingQueue) : WaitingQueue[i] \in Threads
    BY <1>1 DEF Lists
  <2>2. QED BY <1>1, <2>1 DEF Lists
<1>3. QED BY <1>2, Mapped

\* rfifolock_lock without contention takes a free lock, and nested it nests.
LEMMA LockRefines ==
  ASSUME IndInv, IndInv', NEW t \in Threads, LockNested(t) \/ LockFree(t)
  PROVE  Abstract!Next
<1>0. TypeOK /\ Tickets /\ Owner BY DEF IndInv
<1>1. CASE LockNested(t)
  <2>1. nesting > 0 /\ owner_thread = t /\ nesting' = nesting + 1 /\ owner_thread' = t
        /\ nesting' > 0
    BY <1>0, <1>1 DEF LockNested, Own, TypeOK
  <2>2. pc[t] = "in" BY <1>0, <2>1 DEF Owner
  <2>3. pc' = pc BY <1>0, <1>1, <2>2 DEF LockNested, Own, TypeOK
  <2>4. Served' = Served BY <2>1 DEF Served
  <2>5. WaitingQueue' = WaitingQueue BY <1>1, <2>3, <2>4, SameQueue DEF LockNested
  <2>6. Abstract!Nest(t) BY <2>1, <2>5 DEF Abstract!Nest, Abstract!Holds
  <2>7. QED BY <2>6 DEF Abstract!Next
<1>2. CASE LockFree(t)
  <2>1. nesting = 0 BY <1>2, EmptyMeansFree DEF LockFree
  <2>2. nesting' = 1 /\ owner_thread' = t BY <1>2, <2>1 DEF LockFree, Own
  <2>3. /\ head \in 0 .. Wrap - 1 /\ tail \in 0 .. Wrap - 1 /\ head' = head
        /\ tail = head /\ tail' = Inc(tail)
    BY <1>0, <1>2 DEF LockFree, TypeOK
  <2>4. Ahead(head, tail) = 0 BY <2>3, AheadArith
  <2>5. Ahead(head', tail') = 1
    <3>1. t \in Threads \ Queued BY <1>2 DEF LockFree, Queued
    <3>2. Ahead(head, tail) < Wrap - 1 BY <1>0, <3>1, QueuedFinite DEF Tickets
    <3>3. QED BY <2>3, <2>4, <3>2, AheadArith
  <2>6. WaitingQueue = <<>>
    <3>1. /\ WaitingQueue \in Seq(Threads) /\ Len(WaitingQueue) = Ahead(head, tail) - Served
      BY Mapped DEF Lists
    <3>2. Len(WaitingQueue) = 0 BY <2>1, <2>4, <3>1 DEF Served
    <3>3. QED BY <3>1, <3>2, EmptySeq
  <2>7. Served' = 1 BY <2>2 DEF Served
  <2>8. Lists(<<>>, head', tail', Served', pc', ticket')
    <3>1. <<>> \in Seq(Threads) /\ Len(<<>>) = 0 OBVIOUS
    <3>2. QED BY <2>5, <2>7, <3>1 DEF Lists
  <2>9. WaitingQueue' = <<>> BY <2>8, Mapped
  <2>10. Abstract!Take(t) BY <2>1, <2>2, <2>6, <2>9 DEF Abstract!Take
  <2>11. QED BY <2>10 DEF Abstract!Next
<1>3. QED BY <1>1, <1>2

\* A contended rfifolock_lock joins the queue at its end.
LEMMA ContendedRefines ==
  ASSUME IndInv, IndInv', NEW t \in Threads, LockContended(t)
  PROVE  Abstract!Next
<1>0. TypeOK /\ Tickets BY DEF IndInv
<1>1. /\ head' = head /\ tail' = Inc(tail) /\ pc[t] = "out"
      /\ ticket' = [ticket EXCEPT ![t] = tail]
      /\ pc' = [pc EXCEPT ![t] = "waiting"]
      /\ nesting' = nesting /\ owner_thread' = owner_thread
      /\ ~(nesting > 0 /\ owner_thread = t)
  BY DEF LockContended, NotNesting
<1>2. Served' = Served BY <1>1 DEF Served
<1>3. Ahead(head', tail') = Ahead(head, tail) + 1
  <2>1. t \in Threads \ Queued BY <1>1 DEF Queued
  <2>2. Ahead(head, tail) < Wrap - 1 BY <1>0, <2>1, QueuedFinite DEF Tickets
  <2>3. QED BY <1>0, <1>1, <2>2, AheadArith DEF TypeOK
<1> DEFINE s == Append(WaitingQueue, t)
<1>4. /\ WaitingQueue \in Seq(Threads) /\ Len(WaitingQueue) = Ahead(head, tail) - Served
      /\ \A i \in 1 .. Len(WaitingQueue) :
           /\ pc[WaitingQueue[i]] = "waiting"
           /\ Ahead(head, ticket[WaitingQueue[i]]) = i - 1 + Served
  BY Mapped DEF Lists
<1>5. Served \in {0, 1} /\ Ahead(head, tail) \in Nat BY ServedOut
<1>6. /\ s \in Seq(Threads) /\ Len(s) = Len(WaitingQueue) + 1
      /\ s[Len(WaitingQueue) + 1] = t
      /\ \A i \in 1 .. Len(WaitingQueue) : s[i] = WaitingQueue[i]
  BY <1>4
<1>7. Lists(s, head', tail', Served', pc', ticket')
  <2>1. Len(s) = Ahead(head', tail') - Served' BY <1>2, <1>3, <1>4, <1>5, <1>6
  <2>2. ASSUME NEW i \in 1 .. Len(s)
        PROVE  pc'[s[i]] = "waiting" /\ Ahead(head', ticket'[s[i]]) = i - 1 + Served'
    <3>1. CASE i = Len(s)
      <4>1. s[i] = t BY <1>6, <3>1
      <4>2. pc'[t] = "waiting" /\ ticket'[t] = tail BY <1>0, <1>1 DEF TypeOK
      <4>3. Ahead(head, tail) = i - 1 + Served
        <5>1. Len(s) - 1 = Ahead(head, tail) - Served BY <1>4, <1>5, <1>6
        <5>2. QED BY <1>5, <3>1, <5>1
      <4>4. QED BY <1>1, <1>2, <4>1, <4>2, <4>3
    <3>2. CASE i # Len(s)
      <4>1. i \in 1 .. Len(WaitingQueue) BY <1>4, <1>6, <3>2
      <4>2. s[i] = WaitingQueue[i] /\ WaitingQueue[i] \in Threads
        BY <1>4, <1>6, <4>1
      <4>3. /\ pc[s[i]] = "waiting" /\ Ahead(head, ticket[s[i]]) = i - 1 + Served
        BY <1>4, <4>1, <4>2
      <4>4. s[i] # t BY <1>1, <4>3
      <4>5. pc'[s[i]] = pc[s[i]] /\ ticket'[s[i]] = ticket[s[i]]
        BY <1>0, <1>1, <4>2, <4>4 DEF TypeOK
      <4>6. QED BY <1>1, <1>2, <4>3, <4>5
    <3>3. QED BY <3>1, <3>2
  <2>3. QED BY <1>6, <2>1, <2>2 DEF Lists
<1>8. WaitingQueue' = Append(WaitingQueue, t) BY <1>7, Mapped
<1>9. Abstract!Ask(t)
  <2>1. ~Abstract!Holds(t) BY <1>1, LockAssumption DEF Abstract!Holds
  <2>2. QED BY <1>1, <1>8, <2>1 DEF Abstract!Ask
<1>10. QED BY <1>9 DEF Abstract!Next

\* The thread whose turn it is is the first of the queue.
LEMMA WakeRefines ==
  ASSUME IndInv, IndInv', NEW t \in Threads, WakeOwn(t)
  PROVE  Abstract!Next
<1>0. TypeOK /\ Tickets BY DEF IndInv
<1>1. nesting = 0 BY TurnMeansFree DEF WakeOwn
<1>2. /\ UNCHANGED <<head, tail, ticket>> /\ nesting' = 1 /\ owner_thread' = t
      /\ pc' = [pc EXCEPT ![t] = "in"] /\ pc[t] = "waiting" /\ ticket[t] = head
  BY <1>1 DEF WakeOwn, Own
<1>3. Served = 0 /\ Served' = 1 BY <1>1, <1>2 DEF Served
<1>4. /\ WaitingQueue \in Seq(Threads) /\ Len(WaitingQueue) = Ahead(head, tail)
      /\ \A i \in 1 .. Len(WaitingQueue) :
           /\ WaitingQueue[i] \in Threads
           /\ pc[WaitingQueue[i]] = "waiting"
           /\ Ahead(head, ticket[WaitingQueue[i]]) = i - 1
  <2>1. /\ WaitingQueue \in Seq(Threads) /\ Len(WaitingQueue) = Ahead(head, tail) - 0
        /\ \A i \in 1 .. Len(WaitingQueue) :
             /\ pc[WaitingQueue[i]] = "waiting"
             /\ Ahead(head, ticket[WaitingQueue[i]]) = i - 1 + 0
    BY <1>3, Mapped DEF Lists
  <2>2. Ahead(head, tail) \in Nat BY ServedOut
  <2>3. QED BY <2>1, <2>2
<1>5. /\ head \in 0 .. Wrap - 1 /\ \A u \in Threads : ticket[u] \in 0 .. Wrap - 1
  BY <1>0 DEF TypeOK
<1>6. t \in Queued BY <1>2 DEF Queued
<1>7. Ahead(head, ticket[t]) = 0 BY <1>2, <1>5, AheadArith
<1>8. Len(WaitingQueue) \in Nat /\ Len(WaitingQueue) > 0
  BY <1>0, <1>4, <1>6, <1>7 DEF Tickets
<1>9. WaitingQueue[1] = t
  <2>1. 1 \in 1 .. Len(WaitingQueue) BY <1>8
  <2>2. WaitingQueue[1] \in Queued /\ Ahead(head, ticket[WaitingQueue[1]]) = 0
    BY <1>4, <2>1 DEF Queued
  <2>3. ticket[WaitingQueue[1]] = head
    <3>1. ticket[WaitingQueue[1]] \in 0 .. Wrap - 1 BY <1>4, <1>5, <2>1
    <3>2. QED BY <1>5, <2>2, <3>1, AheadArith
  <2>4. QED BY <1>0, <1>2, <1>6, <2>2, <2>3 DEF Tickets
<1>10. WaitingQueue # <<>> /\ Head(WaitingQueue) = t
  BY <1>4, <1>8, <1>9
<1> DEFINE s == Tail(WaitingQueue)
<1>11. /\ s \in Seq(Threads) /\ Len(s) = Len(WaitingQueue) - 1
       /\ \A i \in 1 .. Len(s) : s[i] = WaitingQueue[i + 1]
  BY <1>4, <1>8, <1>10
<1>12. Lists(s, head', tail', Served', pc', ticket')
  <2>1. ASSUME NEW i \in 1 .. Len(s)
        PROVE  pc'[s[i]] = "waiting" /\ Ahead(head', ticket'[s[i]]) = i - 1 + Served'
    <3>1. i + 1 \in 1 .. Len(WaitingQueue) BY <1>8, <1>11
    <3>2. s[i] = WaitingQueue[i + 1] BY <1>11
    <3>3. s[i] \in Threads /\ pc[s[i]] = "waiting" /\ Ahead(head, ticket[s[i]]) = i
      BY <1>4, <3>1, <3>2
    <3>4. s[i] # t BY <1>7, <3>3
    <3>5. pc'[s[i]] = pc[s[i]] BY <1>0, <1>2, <3>3, <3>4 DEF TypeOK
    <3>6. i - 1 + Served' = i BY <1>3
    <3>7. QED BY <1>2, <3>3, <3>5, <3>6
  <2>2. Len(s) = Ahead(head', tail') - Served' BY <1>2, <1>3, <1>4, <1>11
  <2>3. QED BY <1>11, <2>1, <2>2 DEF Lists
<1>13. WaitingQueue' = Tail(WaitingQueue) BY <1>12, Mapped
<1>14. Abstract!Grant BY <1>1, <1>2, <1>10, <1>13 DEF Abstract!Grant
<1>15. QED BY <1>14 DEF Abstract!Next

\* rfifolock_unlock releases: the outermost one moves head, and every waiting
\* thread one place towards it.
LEMMA UnlockRefines ==
  ASSUME IndInv, IndInv', NEW t \in Threads, rfifolock_unlock(t)
  PROVE  Abstract!Next
<1>0. TypeOK /\ Tickets BY DEF IndInv
<1>1. CASE UnlockNested(t)
  <2>1. /\ UNCHANGED <<head, tail, owner_thread, ticket, pc>>
        /\ nesting > 1 /\ nesting' = nesting - 1 /\ owner_thread = t
        /\ nesting > 0 /\ nesting' > 0 /\ nesting # 1
    BY <1>0, <1>1 DEF UnlockNested, TypeOK
  <2>2. Served' = Served BY <2>1 DEF Served
  <2>3. WaitingQueue' = WaitingQueue BY <2>1, <2>2, SameQueue
  <2>4. Abstract!Release(t) BY <2>1, <2>3 DEF Abstract!Release, Abstract!Holds
  <2>5. QED BY <2>4 DEF Abstract!Next
<1>2. CASE UnlockLast(t)
  <2>1. /\ UNCHANGED <<tail, ticket>> /\ head' = Inc(head) /\ pc[t] = "in"
        /\ pc' = [pc EXCEPT ![t] = "out"]
        /\ nesting = 1 /\ nesting' = 0 /\ owner_thread = t
    BY <1>2 DEF UnlockLast
  <2>2. Served = 1 /\ Served' = 0 BY <2>1 DEF Served
  <2>3. /\ WaitingQueue \in Seq(Threads) /\ Len(WaitingQueue) = Ahead(head, tail) - 1
        /\ \A i \in 1 .. Len(WaitingQueue) :
             /\ pc[WaitingQueue[i]] = "waiting"
             /\ Ahead(head, ticket[WaitingQueue[i]]) = i - 1 + 1
    BY <2>2, Mapped DEF Lists
  <2>4. /\ head \in 0 .. Wrap - 1 /\ tail \in 0 .. Wrap - 1
        /\ \A u \in Threads : ticket[u] \in 0 .. Wrap - 1
    BY <1>0 DEF TypeOK
  <2>5. Ahead(head, tail) \in Nat /\ 1 <= Ahead(head, tail) BY <2>2, ServedOut
  <2>6. Ahead(head', tail') = Ahead(head, tail) - 1 BY <2>1, <2>4, <2>5, AheadArith
  <2>7. Lists(WaitingQueue, head', tail', Served', pc', ticket')
    <3>1. ASSUME NEW i \in 1 .. Len(WaitingQueue)
          PROVE  /\ pc'[WaitingQueue[i]] = "waiting"
                 /\ Ahead(head', ticket'[WaitingQueue[i]]) = i - 1 + Served'
      <4>1. /\ WaitingQueue[i] \in Threads /\ pc[WaitingQueue[i]] = "waiting"
            /\ Ahead(head, ticket[WaitingQueue[i]]) = i
        BY <2>3
      <4>2. pc'[WaitingQueue[i]] = "waiting" BY <1>0, <2>1, <4>1 DEF TypeOK
      <4>3. Ahead(Inc(head), ticket[WaitingQueue[i]]) = i - 1
        <5>1. ticket[WaitingQueue[i]] \in 0 .. Wrap - 1 BY <2>4, <4>1
        <5>2. Ahead(head, ticket[WaitingQueue[i]]) > 0 BY <4>1
        <5>3. Ahead(Inc(head), ticket[WaitingQueue[i]])
                = Ahead(head, ticket[WaitingQueue[i]]) - 1
          BY <2>4, <5>1, <5>2, AheadArith
        <5>4. QED BY <4>1, <5>3
      <4>4. i - 1 + Served' = i - 1 BY <2>2
      <4>5. QED BY <2>1, <4>2, <4>3, <4>4
    <3>2. Len(WaitingQueue) = Ahead(head', tail') - Served'
      BY <2>2, <2>3, <2>5, <2>6
    <3>3. QED BY <2>3, <3>1, <3>2 DEF Lists
  <2>8. WaitingQueue' = WaitingQueue BY <2>7, Mapped
  <2>9. Abstract!Release(t) BY <2>1, <2>8 DEF Abstract!Release, Abstract!Holds
  <2>10. QED BY <2>9 DEF Abstract!Next
<1>3. QED BY <1>1, <1>2 DEF rfifolock_unlock

\* The state of the abstract lock.
AbstractVars ==
  <<IF nesting > 0 THEN owner_thread ELSE None, nesting, WaitingQueue>>

\* Waking up too early, and every step outside the lock, is invisible.
LEMMA Stutter ==
  ASSUME IndInv, IndInv',
         UNCHANGED <<head, tail, owner_thread, nesting, ticket, pc>>
  PROVE  UNCHANGED AbstractVars
<1>1. Served' = Served BY DEF Served
<1>2. WaitingQueue' = WaitingQueue BY <1>1, SameQueue
<1>3. QED BY <1>2 DEF AbstractVars

\* Every step of the ticket lock is a step of the abstract lock or invisible.
LEMMA StepRefines ==
  ASSUME IndInv, IndInv', [Next]_vars
  PROVE  [Abstract!Next]_AbstractVars
<1>1. CASE UNCHANGED vars BY <1>1, Stutter DEF vars
<1>2. ASSUME NEW t \in Threads, rfifolock_lock(t) PROVE Abstract!Next
  BY <1>2, LockRefines, ContendedRefines DEF rfifolock_lock
<1>3. ASSUME NEW t \in Threads, WakeOwn(t) PROVE Abstract!Next
  BY <1>3, WakeRefines
<1>4. ASSUME NEW t \in Threads, WakeEarly(t) \/ SpuriousWakeup(t)
      PROVE  UNCHANGED AbstractVars
  BY <1>4, Stutter DEF WakeEarly, SpuriousWakeup
<1>5. ASSUME NEW t \in Threads, rfifolock_unlock(t) PROVE Abstract!Next
  BY <1>5, UnlockRefines
<1>6. QED BY <1>1, <1>2, <1>3, <1>4, <1>5 DEF Next, Wakeup

\* An unlocked ticket lock maps to an unlocked lock that nobody waits for.
LEMMA InitRefines == Init => Abstract!Init
<1> SUFFICES ASSUME Init PROVE Abstract!Init OBVIOUS
<1>0. IndInv BY InitInd
<1>1. nesting = 0 /\ head = 0 /\ tail = 0 BY DEF Init
<1>2. Ahead(head, tail) = 0 /\ Served = 0 BY <1>1 DEF Ahead, Served
<1>3. WaitingQueue \in Seq(Threads) /\ Len(WaitingQueue) = 0
  BY <1>0, <1>2, MappedQueue DEF QueueLists, Lists
<1>4. WaitingQueue = <<>> BY <1>3, EmptySeq
<1>5. QED BY <1>1, <1>4 DEF Abstract!Init

\* "Fairness - enforces FIFO order" and "Nesting - can be taken recursively":
\* the ticket lock implements the abstract recursive FIFO lock, for every number
\* of threads below the number of tickets, however often the tickets wrap around.
THEOREM FifoOrder == Spec => ImplementsFifoMutex
<1>1. IndInv /\ IndInv' /\ [Next]_vars => [Abstract!Next]_AbstractVars
  BY StepRefines
<1>2. QED
  BY <1>1, InitRefines, Inductive, PTL
  DEF Spec, ImplementsFifoMutex, Abstract!Spec, AbstractVars
=============================================================================
