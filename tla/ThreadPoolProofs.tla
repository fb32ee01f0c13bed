-------------------------- MODULE ThreadPoolProofs --------------------------
(***************************************************************************)
(* Proofs about ThreadPool, for any number of requests, workers and any    *)
(* thread limit.  The inductive invariant is the bookkeeping that makes    *)
(* the pool work: one token per queued request, and counters that count    *)
(* the threads they are named after.                                       *)
(***************************************************************************)
EXTENDS ThreadPool, TLAPS, FiniteSetTheorems, SequenceTheorems

LiveStates == WorkerState \ {"none"}
IdleStates == {"waiting", "got", "timedout"}

\* How many workers are in a state of S when the threads are as in p.
Count(p, S) == Cardinality({w \in Workers : p[w] \in S})

\* Count is a natural number.
LEMMA CountNat ==
  ASSUME NEW p, NEW S
  PROVE  /\ Count(p, S) \in Nat
         /\ IsFiniteSet({w \in Workers : p[w] \in S})
<1>1. IsFiniteSet(Workers) BY PoolAssumption
<1>2. {w \in Workers : p[w] \in S} \subseteq Workers OBVIOUS
<1>3. IsFiniteSet({w \in Workers : p[w] \in S}) BY <1>1, <1>2, FS_Subset
<1>4. QED BY <1>3, FS_CardinalityType DEF Count

\* What moving one thread to another state does to a count.
LEMMA CountUpdate ==
  ASSUME NEW p \in [Workers -> WorkerState], NEW w \in Workers,
         NEW v \in WorkerState, NEW S
  PROVE  LET c == Count(p, S)
             d == Count([p EXCEPT ![w] = v], S)
         IN  /\ p[w] \in S /\ v \in S => d = c
             /\ p[w] \notin S /\ v \notin S => d = c
             /\ p[w] \in S /\ v \notin S => d = c - 1
             /\ p[w] \notin S /\ v \in S => d = c + 1
<1> DEFINE A == {x \in Workers : p[x] \in S}
           q == [p EXCEPT ![w] = v]
           B == {x \in Workers : q[x] \in S}
<1>1. IsFiniteSet(A) /\ IsFiniteSet(B) BY CountNat
<1>2. Cardinality(A) \in Nat /\ Cardinality(B) \in Nat
  BY <1>1, FS_CardinalityType
<1>a. Count(p, S) = Cardinality(A) /\ Count(q, S) = Cardinality(B)
  BY DEF Count
<1>b. \A x \in Workers : q[x] = IF x = w THEN v ELSE p[x] OBVIOUS
<1>3. CASE p[w] \in S /\ v \in S
  <2>1. A = B BY <1>3, <1>b
  <2>2. Cardinality(A) = Cardinality(B) BY <2>1
  <2> HIDE DEF A, B
  <2>3. QED BY <1>2, <1>3, <1>a, <2>2
<1>4. CASE p[w] \notin S /\ v \notin S
  <2>1. A = B BY <1>4, <1>b
  <2>2. Cardinality(A) = Cardinality(B) BY <2>1
  <2> HIDE DEF A, B
  <2>3. QED BY <1>2, <1>4, <1>a, <2>2
<1>5. CASE p[w] \in S /\ v \notin S
  <2>1. B = A \ {w} /\ w \in A BY <1>5, <1>b
  <2>2. Cardinality(B) = Cardinality(A) - 1
    BY <1>1, <2>1, FS_RemoveElement
  <2> HIDE DEF A, B
  <2>3. QED BY <1>2, <1>5, <1>a, <2>2
<1>6. CASE p[w] \notin S /\ v \in S
  <2>1. B = A \cup {w} /\ w \notin A BY <1>6, <1>b
  <2>2. Cardinality(B) = Cardinality(A) + 1
    BY <1>1, <2>1, FS_AddElement
  <2> HIDE DEF A, B
  <2>3. QED BY <1>2, <1>6, <1>a, <2>2
<1>7. QED BY <1>3, <1>4, <1>5, <1>6

\* A thread that is in a state of S is counted.
LEMMA CountPositive ==
  ASSUME NEW p, NEW w \in Workers, NEW S, p[w] \in S
  PROVE  Count(p, S) > 0
<1> DEFINE A == {x \in Workers : p[x] \in S}
<1>1. w \in A OBVIOUS
<1>2. IsFiniteSet(A) /\ Cardinality(A) \in Nat BY CountNat DEF Count
<1>3. A # {} BY <1>1
<1>4. Cardinality(A) # 0 BY <1>2, <1>3, FS_EmptySet
<1>5. QED BY <1>2, <1>4 DEF Count

\* Fewer states, fewer threads.
LEMMA CountMonotone ==
  ASSUME NEW p, NEW S, NEW T, S \subseteq T
  PROVE  Count(p, S) <= Count(p, T)
<1>1. {w \in Workers : p[w] \in S} \subseteq {w \in Workers : p[w] \in T}
  OBVIOUS
<1>2. IsFiniteSet({w \in Workers : p[w] \in T}) BY CountNat
<1>3. Cardinality({w \in Workers : p[w] \in S})
        <= Cardinality({w \in Workers : p[w] \in T})
  BY <1>1, <1>2, FS_Subset
<1>4. QED BY <1>3 DEF Count

\* No thread, no count.
LEMMA CountNone ==
  ASSUME NEW p, NEW S, \A w \in Workers : p[w] \notin S
  PROVE  Count(p, S) = 0
<1>1. {w \in Workers : p[w] \in S} = {} OBVIOUS
<1>2. QED BY <1>1, FS_EmptySet DEF Count

-----------------------------------------------------------------------------
\* TypeOK without the upper bounds on the counters, which follow from what the
\* counters count.
Shape ==
  /\ request_list \in Seq(Reqs)
  /\ cur_threads \in Nat /\ idle_threads \in Nat
  /\ new_threads \in Nat /\ pending_threads \in Nat
  /\ stopping \in BOOLEAN
  /\ sem \in Nat
  /\ completion_bh \in BOOLEAN /\ new_thread_bh \in BOOLEAN
  /\ head \in Seq(Reqs)
  /\ st \in [Reqs -> ReqState]
  /\ hasCb \in [Reqs -> BOOLEAN]
  /\ mode \in Mode
  /\ cursor \in 1 .. Len(head) + 1
  /\ cbs \in Seq(Frame)
  /\ unposted \in {0, 1}
  /\ woken \in BOOLEAN
  /\ pc \in [Workers -> WorkerState]
  /\ req \in [Workers -> Reqs \cup {NoReq}]

\* The counters, in terms of Count.
Counters ==
  /\ cur_threads = new_threads + Count(pc, LiveStates)
  /\ pending_threads = Count(pc, {"pending"})
  /\ idle_threads = Count(pc, IdleStates)
  /\ cur_threads <= MaxThreads

Tokens ==
  ~stopping => Len(request_list) = sem + Count(pc, {"got"}) + unposted

\* thread_pool_free is the last thing the home thread does with the pool, and
\* it ends only when every thread is gone.
Phases ==
  /\ stopping <=> mode \in {"freeing", "freed"}
  /\ stopping => new_threads = 0
  /\ mode = "freed" => cur_threads = 0

IndInv == Shape /\ Counters /\ Tokens /\ Phases /\ SpawnNotLost

\* The invariant holds of a new pool.
LEMMA InitIndInv == Init => IndInv
<1> SUFFICES ASSUME Init PROVE IndInv OBVIOUS
<1>1. Shape
  <2>1. request_list \in Seq(Reqs) /\ head \in Seq(Reqs) /\ cbs \in Seq(Frame)
    BY DEF Init
  <2>2. st \in [Reqs -> ReqState] /\ hasCb \in [Reqs -> BOOLEAN]
    BY DEF Init, ReqState
  <2>3. pc \in [Workers -> WorkerState] /\ req \in [Workers -> Reqs \cup {NoReq}]
    BY DEF Init, WorkerState
  <2>4. cursor \in 1 .. Len(head) + 1 BY DEF Init
  <2>5. QED BY <2>1, <2>2, <2>3, <2>4 DEF Init, Shape, Mode
<1>2. Count(pc, LiveStates) = 0 /\ Count(pc, {"pending"}) = 0
      /\ Count(pc, IdleStates) = 0 /\ Count(pc, {"got"}) = 0
  BY CountNone DEF Init, LiveStates, IdleStates
<1>3. Counters BY <1>2, PoolAssumption DEF Init, Counters
<1>4. Tokens BY <1>2 DEF Init, Tokens
<1>5. Phases /\ SpawnNotLost BY DEF Init, Phases, SpawnNotLost
<1>6. QED BY <1>1, <1>3, <1>4, <1>5 DEF IndInv

\* How much the number of threads in S grows when one moves from u to v.
Delta(u, v, S) ==
  (IF v \in S THEN 1 ELSE 0) - (IF u \in S THEN 1 ELSE 0)

\* The threads were as in p, one moved from u to v, and now they are as in q.
Moved(p, q, u, v) ==
  /\ q \in [Workers -> WorkerState]
  /\ Count(q, LiveStates) = Count(p, LiveStates) + Delta(u, v, LiveStates)
  /\ Count(q, {"pending"}) = Count(p, {"pending"}) + Delta(u, v, {"pending"})
  /\ Count(q, IdleStates) = Count(p, IdleStates) + Delta(u, v, IdleStates)
  /\ Count(q, {"got"}) = Count(p, {"got"}) + Delta(u, v, {"got"})

\* What one move of a thread does to the four counts of the invariant.
LEMMA FourCounts ==
  ASSUME NEW p \in [Workers -> WorkerState], NEW w \in Workers,
         NEW v \in WorkerState, NEW q, q = [p EXCEPT ![w] = v]
  PROVE  Moved(p, q, p[w], v)
<1>1. q \in [Workers -> WorkerState] OBVIOUS
<1>2. \A S : /\ p[w] \in S /\ v \in S => Count(q, S) = Count(p, S)
             /\ p[w] \notin S /\ v \notin S => Count(q, S) = Count(p, S)
             /\ p[w] \in S /\ v \notin S => Count(q, S) = Count(p, S) - 1
             /\ p[w] \notin S /\ v \in S => Count(q, S) = Count(p, S) + 1
  BY CountUpdate
<1>3. \A S : Count(q, S) = Count(p, S) + Delta(p[w], v, S)
  <2> TAKE S
  <2>1. Count(p, S) \in Nat BY CountNat
  <2>2. CASE p[w] \in S /\ v \in S
    <3>1. Count(q, S) = Count(p, S) BY <1>2, <2>2
    <3>2. QED BY <2>1, <2>2, <3>1 DEF Delta
  <2>3. CASE p[w] \notin S /\ v \notin S
    <3>1. Count(q, S) = Count(p, S) BY <1>2, <2>3
    <3>2. QED BY <2>1, <2>3, <3>1 DEF Delta
  <2>4. CASE p[w] \in S /\ v \notin S
    <3>1. Count(q, S) = Count(p, S) - 1 BY <1>2, <2>4
    <3>2. QED BY <2>1, <2>4, <3>1 DEF Delta
  <2>5. CASE p[w] \notin S /\ v \in S
    <3>1. Count(q, S) = Count(p, S) + 1 BY <1>2, <2>5
    <3>2. QED BY <2>1, <2>5, <3>1 DEF Delta
  <2>6. QED BY <2>2, <2>3, <2>4, <2>5
<1>4. QED BY <1>1, <1>3 DEF Moved

\* The counts are naturals.
LEMMA FourNats ==
  ASSUME NEW p
  PROVE  /\ Count(p, LiveStates) \in Nat /\ Count(p, {"pending"}) \in Nat
         /\ Count(p, IdleStates) \in Nat /\ Count(p, {"got"}) \in Nat
<1>1. QED BY CountNat

\* Removing the element at a position of a sequence.
LEMMA RemoveAtIs ==
  ASSUME NEW S, NEW s \in Seq(S), NEW i \in 1 .. Len(s)
  PROVE  /\ RemoveAt(s, i) \in Seq(S) /\ Len(RemoveAt(s, i)) = Len(s) - 1
         /\ \A j \in 1 .. i - 1 : RemoveAt(s, i)[j] = s[j]
         /\ \A j \in i .. Len(s) - 1 : RemoveAt(s, i)[j] = s[j + 1]
<1> DEFINE a == SubSeq(s, 1, i - 1)
           b == SubSeq(s, i + 1, Len(s))
<1>1. a \in Seq(S) /\ Len(a) = i - 1 OBVIOUS
<1>2. b \in Seq(S) /\ Len(b) = Len(s) - i OBVIOUS
<1>3. \A j \in 1 .. i - 1 : a[j] = s[j] OBVIOUS
<1>4. \A j \in 1 .. Len(s) - i : b[j] = s[i + j] OBVIOUS
<1>5. RemoveAt(s, i) = a \o b BY DEF RemoveAt
<1>6. Len(s) \in Nat /\ i \in Nat OBVIOUS
<1> HIDE DEF a, b
<1>7. /\ a \o b \in Seq(S) /\ Len(a \o b) = (i - 1) + (Len(s) - i)
      /\ \A j \in 1 .. (i - 1) + (Len(s) - i) :
           (a \o b)[j] = IF j <= i - 1 THEN a[j] ELSE b[j - (i - 1)]
  <2>1. /\ a \o b \in Seq(S) /\ Len(a \o b) = Len(a) + Len(b)
        /\ \A j \in 1 .. Len(a) + Len(b) :
             (a \o b)[j] = IF j <= Len(a) THEN a[j] ELSE b[j - Len(a)]
    BY <1>1, <1>2, ConcatProperties
  <2>2. QED BY <1>1, <1>2, <2>1
<1>8. (i - 1) + (Len(s) - i) = Len(s) - 1 BY <1>6
<1>9. ASSUME NEW j \in 1 .. i - 1 PROVE (a \o b)[j] = s[j]
  <2>1. j \in 1 .. (i - 1) + (Len(s) - i) /\ j <= i - 1 BY <1>6
  <2>2. QED BY <1>3, <1>7, <2>1
<1>10. ASSUME NEW j \in i .. Len(s) - 1 PROVE (a \o b)[j] = s[j + 1]
  <2>1. /\ j \in 1 .. (i - 1) + (Len(s) - i) /\ ~(j <= i - 1)
        /\ j - (i - 1) \in 1 .. Len(s) - i /\ i + (j - (i - 1)) = j + 1
    BY <1>6
  <2>2. (a \o b)[j] = b[j - (i - 1)] BY <1>7, <2>1
  <2>3. b[j - (i - 1)] = s[i + (j - (i - 1))] BY <1>4, <2>1
  <2>4. QED BY <2>1, <2>2, <2>3
<1>11. QED BY <1>5, <1>7, <1>8, <1>9, <1>10

\* Steps of the home thread that neither move a thread nor touch the counters,
\* the request list or the semaphore.
LEMMA QuietStep ==
  ASSUME IndInv, Shape',
         UNCHANGED <<lockVars, sem, new_thread_bh, unposted, pc>>,
         mode' = mode \/ {mode, mode'} \subseteq {"loop", "walk", "cb"}
  PROVE  IndInv'
<1>1. Counters' /\ Tokens' /\ SpawnNotLost'
  BY DEF IndInv, Counters, Tokens, SpawnNotLost, lockVars
<1>2. Phases' BY DEF IndInv, Phases, lockVars
<1>3. QED BY <1>1, <1>2 DEF IndInv

\* The steps of the completion bottom half and of the callbacks it calls.
LEMMA CompletionSteps ==
  ASSUME IndInv,
         \/ CompletionStart \/ CompletionSkip \/ CompletionNoCb \/ CompletionCb
         \/ CallbackWaitOver \/ CompletionEnd \/ CallbackReturn
         \/ \E r \in Reqs : CallbackWait(r)
  PROVE  IndInv'
<1> USE DEF lockVars, bhVars, elemVars, mainVars, workerVars
<1>0. Shape BY DEF IndInv
<1>1. CASE CompletionStart
  <2>0. completion_bh' \in BOOLEAN BY <1>1 DEF CompletionStart
  <2>1. Shape' BY <1>0, <1>1, <2>0 DEF CompletionStart, Shape, Mode
  <2>2. QED BY <1>1, <2>1, QuietStep DEF CompletionStart
<1>2. CASE CompletionSkip
  <2>1. Shape' BY <1>0, <1>2 DEF CompletionSkip, Walking, Shape
  <2>2. QED BY <1>2, <2>1, QuietStep DEF CompletionSkip
<1>3. CASE CompletionNoCb
  <2>1. cursor \in 1 .. Len(head) BY <1>0, <1>3 DEF CompletionNoCb, Walking, Shape
  <2>2. head' \in Seq(Reqs) /\ Len(head') = Len(head) - 1
    BY <1>0, <1>3, <2>1, RemoveAtIs DEF CompletionNoCb, Shape
  <2>3. Shape' BY <1>0, <1>3, <2>1, <2>2 DEF CompletionNoCb, Shape, ReqState
  <2>4. QED BY <1>3, <2>3, QuietStep DEF CompletionNoCb
<1>4. CASE CompletionCb
  <2>1. cursor \in 1 .. Len(head) BY <1>0, <1>4 DEF CompletionCb, Walking, Shape
  <2>2. head' \in Seq(Reqs) /\ Len(head') = Len(head) - 1
    BY <1>0, <1>4, <2>1, RemoveAtIs DEF CompletionCb, Shape
  <2>3. head[cursor] \in Reqs BY <1>0, <2>1 DEF Shape
  <2>4. Notified(head[cursor]) \in Seq(Frame)
    <3>1. cbs \in Seq(Frame) BY <1>0 DEF Shape
    <3>2. \A i \in 1 .. Len(cbs) : cbs[i] \in Frame BY <3>1
    <3>3. \A i \in 1 .. Len(cbs) : [cbs[i] EXCEPT !.awaited = NoReq] \in Frame
      BY <3>2 DEF Frame
    <3>4. DOMAIN cbs = 1 .. Len(cbs) /\ Len(cbs) \in Nat BY <3>1
    <3>5. \A i \in DOMAIN cbs : Notified(head[cursor])[i] \in Frame
      BY <3>2, <3>3, <3>4 DEF Notified
    <3>6. Notified(head[cursor]) \in [1 .. Len(cbs) -> Frame]
      BY <3>4, <3>5 DEF Notified
    <3>7. QED BY <3>4, <3>6, IsASeq
  <2>5. [req |-> head[cursor], awaited |-> NoReq] \in Frame BY <2>3 DEF Frame
  <2>6. cbs' \in Seq(Frame) BY <1>4, <2>4, <2>5 DEF CompletionCb
  <2>7. Shape' BY <1>0, <1>4, <2>2, <2>6 DEF CompletionCb, Shape, Mode
  <2>8. QED BY <1>4, <2>7, QuietStep DEF CompletionCb, Walking
<1>5. CASE CallbackWaitOver
  <2>1. Shape' BY <1>0, <1>5 DEF CallbackWaitOver, Shape, Mode
  <2>2. QED BY <1>5, <2>1, QuietStep DEF CallbackWaitOver
<1>6. CASE CompletionEnd
  <2>1. Shape' BY <1>0, <1>6 DEF CompletionEnd, Shape, Mode
  <2>2. QED BY <1>6, <2>1, QuietStep DEF CompletionEnd
<1>7. CASE CallbackReturn
  <2>1. cbs' \in Seq(Frame) BY <1>0, <1>7 DEF CallbackReturn, Shape
  <2>a. st' \in [Reqs -> ReqState] BY <1>0, <1>7 DEF CallbackReturn, Shape, ReqState
  <2>2. Shape' BY <1>0, <1>7, <2>1, <2>a DEF CallbackReturn, Shape, Mode
  <2>3. QED BY <1>7, <2>2, QuietStep DEF CallbackReturn
<1>8. ASSUME NEW r \in Reqs, CallbackWait(r) PROVE IndInv'
  <2>1. cbs' \in Seq(Frame)
    <3>1. cbs \in Seq(Frame) BY <1>0 DEF Shape
    <3>2. \A f \in Frame : [f EXCEPT !.awaited = r] \in Frame BY DEF Frame
    <3>3. CASE cbs = <<>>
      <4>1. cbs' = <<>> BY <1>8, <3>3 DEF CallbackWait
      <4>2. QED BY <4>1
    <3>4. CASE cbs # <<>>
      <4>1. Len(cbs) \in 1 .. Len(cbs) /\ cbs[Len(cbs)] \in Frame BY <3>1, <3>4
      <4>2. cbs' = [cbs EXCEPT ![Len(cbs)] = [cbs[Len(cbs)] EXCEPT !.awaited = r]]
        BY <1>8 DEF CallbackWait
      <4>3. QED BY <3>1, <3>2, <4>1, <4>2, ExceptSeq
    <3>5. QED BY <3>3, <3>4
  <2>2. Shape' BY <1>0, <1>8, <2>1 DEF CallbackWait, Shape, Mode
  <2>3. QED BY <1>8, <2>2, QuietStep DEF CallbackWait
<1>9. QED BY <1>1, <1>2, <1>3, <1>4, <1>5, <1>6, <1>7, <1>8

\* The calls into the pool: submission, cancellation and thread_pool_free.
LEMMA CallerSteps ==
  ASSUME IndInv,
         \/ SubmitPost \/ FreeWake \/ thread_pool_free
         \/ \E r \in Reqs, cb \in BOOLEAN : thread_pool_submit_aio(r, cb)
         \/ \E r \in Reqs : thread_pool_cancel(r)
  PROVE  IndInv'
<1> USE DEF lockVars, bhVars, elemVars, mainVars, workerVars
<1>0. Shape /\ Counters /\ Tokens /\ Phases /\ SpawnNotLost BY DEF IndInv
<1>n. /\ Count(pc, LiveStates) \in Nat /\ Count(pc, {"pending"}) \in Nat
      /\ Count(pc, IdleStates) \in Nat /\ Count(pc, {"got"}) \in Nat
  BY FourNats
<1>1. CASE SubmitPost
  <2>1. Shape' BY <1>0, <1>1 DEF SubmitPost, Shape
  <2>2. Counters' BY <1>0, <1>1 DEF SubmitPost, Counters
  <2>3. Tokens' BY <1>0, <1>n, <1>1 DEF SubmitPost, Tokens, Shape
  <2>4. Phases' /\ SpawnNotLost' BY <1>0, <1>1 DEF SubmitPost, Phases, SpawnNotLost
  <2>5. QED BY <2>1, <2>2, <2>3, <2>4 DEF IndInv
<1>2. CASE FreeWake
  <2>0. stopping BY <1>0, <1>2 DEF FreeWake, Phases
  <2>a. sem' \in Nat /\ mode' \in Mode BY <1>0, <1>2 DEF FreeWake, Shape, Mode
  <2>b. completion_bh' \in {completion_bh, FALSE} BY <1>2 DEF FreeWake
  <2>c. completion_bh \in BOOLEAN BY <1>0 DEF Shape
  <2>1. completion_bh' \in BOOLEAN /\ sem' \in Nat /\ mode' \in Mode
    BY <2>a, <2>b, <2>c
  <2>2. Shape' BY <1>0, <1>2, <2>1 DEF FreeWake, Shape
  <2>3. Counters' /\ SpawnNotLost' BY <1>0, <1>2 DEF FreeWake, Counters, SpawnNotLost
  <2>4. Tokens' BY <1>2, <2>0 DEF FreeWake, Tokens
  <2>5. Phases' BY <1>0, <1>2, <2>0 DEF FreeWake, Phases, Shape
  <2>6. QED BY <2>2, <2>3, <2>4, <2>5 DEF IndInv
<1>3. CASE thread_pool_free
  <2>0. cur_threads' = Count(pc, LiveStates) /\ new_threads' = 0 /\ pc' = pc
    BY <1>0, <1>n, <1>3 DEF thread_pool_free, Counters, Shape
  <2>a. sem' \in Nat /\ mode' \in Mode
    BY <1>0, <1>3 DEF thread_pool_free, Shape, Mode
  <2>b. completion_bh' \in {completion_bh, FALSE} /\ new_thread_bh' = FALSE
        /\ stopping' = TRUE
    BY <1>3 DEF thread_pool_free
  <2>c. completion_bh \in BOOLEAN BY <1>0 DEF Shape
  <2>1. completion_bh' \in BOOLEAN /\ sem' \in Nat /\ mode' \in Mode
        /\ new_thread_bh' \in BOOLEAN /\ stopping' \in BOOLEAN
    BY <2>a, <2>b, <2>c
  <2>2. Shape' BY <1>0, <1>n, <1>3, <2>0, <2>1 DEF thread_pool_free, Shape
  <2>3. Counters'
    BY <1>0, <1>n, <1>3, <2>0, PoolAssumption DEF thread_pool_free, Counters, Shape
  <2>4. Tokens' /\ SpawnNotLost'
    BY <1>3, <2>0 DEF thread_pool_free, Tokens, SpawnNotLost
  <2>5. Phases' BY <1>3, <1>n, <2>0 DEF thread_pool_free, Phases
  <2>6. QED BY <2>2, <2>3, <2>4, <2>5 DEF IndInv
<1>4. ASSUME NEW r \in Reqs, NEW cb \in BOOLEAN, thread_pool_submit_aio(r, cb)
      PROVE IndInv'
  <2>1. request_list' \in Seq(Reqs) /\ Len(request_list') = Len(request_list) + 1
    BY <1>0, <1>4 DEF thread_pool_submit_aio, Shape
  <2>2. head' \in Seq(Reqs) /\ Len(head') = Len(head) + 1
    BY <1>0, <1>4 DEF thread_pool_submit_aio, Shape
  <2>3. st' \in [Reqs -> ReqState] /\ hasCb' \in [Reqs -> BOOLEAN]
    BY <1>0, <1>4 DEF thread_pool_submit_aio, Shape, ReqState
  <2>4. cursor' \in 1 .. Len(head') + 1
    BY <1>0, <1>4, <2>2 DEF thread_pool_submit_aio, Shape
  <2>5. /\ cur_threads' \in Nat /\ new_threads' \in Nat
        /\ new_thread_bh' \in BOOLEAN
        /\ cur_threads' - new_threads' = cur_threads - new_threads
        /\ cur_threads' <= MaxThreads
        /\ new_threads' > 0 => new_threads > 0 \/ new_thread_bh' \/ pending_threads > 0
    <3>1. CASE MaySpawn
      <4>1. /\ cur_threads' = cur_threads + 1 /\ new_threads' = new_threads + 1
            /\ new_thread_bh' = (new_thread_bh \/ pending_threads = 0)
        BY <1>4, <3>1 DEF thread_pool_submit_aio, spawn_thread
      <4>2. /\ cur_threads < MaxThreads /\ MaxThreads \in Nat
            /\ cur_threads \in Nat /\ new_threads \in Nat /\ pending_threads \in Nat
        BY <1>0, <3>1, PoolAssumption DEF MaySpawn, Shape
      <4>3. pending_threads > 0 \/ new_thread_bh'
        <5>1. CASE pending_threads = 0 BY <4>1, <5>1
        <5>2. CASE pending_threads # 0 BY <4>2, <5>2
        <5>3. QED BY <5>1, <5>2
      <4>4. new_thread_bh' \in BOOLEAN BY <4>1
      <4>5. QED BY <4>1, <4>2, <4>3, <4>4
    <3>2. CASE ~MaySpawn
      BY <1>0, <1>4, <3>2, PoolAssumption
      DEF thread_pool_submit_aio, spawn_thread, Shape, Counters
    <3>3. QED BY <3>1, <3>2
  <2>6. Shape'
    BY <1>0, <1>4, <2>1, <2>2, <2>3, <2>4, <2>5 DEF thread_pool_submit_aio, Shape
  <2>7. Counters'
    <3>1. pc' = pc /\ pending_threads' = pending_threads /\ idle_threads' = idle_threads
      BY <1>4 DEF thread_pool_submit_aio
    <3>2. cur_threads \in Nat /\ new_threads \in Nat BY <1>0 DEF Shape
    <3>3. QED BY <1>0, <1>n, <2>5, <3>1, <3>2 DEF Counters
  <2>8. Tokens'
    BY <1>0, <1>n, <1>4, <2>1 DEF thread_pool_submit_aio, InCaller, Shape, Tokens
  <2>9. Phases'
    BY <1>0, <1>4 DEF thread_pool_submit_aio, InCaller, Phases
  <2>10. SpawnNotLost'
    BY <1>0, <1>4, <2>5
    DEF thread_pool_submit_aio, spawn_thread, SpawnNotLost, Shape
  <2>11. QED BY <2>6, <2>7, <2>8, <2>9, <2>10 DEF IndInv
<1>5. ASSUME NEW r \in Reqs, thread_pool_cancel(r) PROVE IndInv'
  <2>1. PICK i \in DOMAIN request_list : request_list' = RemoveAt(request_list, i)
    BY <1>5 DEF thread_pool_cancel
  <2>2. i \in 1 .. Len(request_list) /\ request_list \in Seq(Reqs)
    BY <1>0 DEF Shape
  <2>3. request_list' \in Seq(Reqs) /\ Len(request_list') = Len(request_list) - 1
    BY <2>1, <2>2, RemoveAtIs
  <2>4. st' \in [Reqs -> ReqState] /\ completion_bh' \in BOOLEAN /\ sem' \in Nat
    BY <1>0, <1>5 DEF thread_pool_cancel, Shape, ReqState
  <2>5. Shape' BY <1>0, <1>5, <2>3, <2>4 DEF thread_pool_cancel, Shape
  <2>6. Counters' /\ Phases' /\ SpawnNotLost'
    BY <1>0, <1>5 DEF thread_pool_cancel, Counters, Phases, SpawnNotLost
  <2>7. Tokens'
    <3>1. sem' = sem - 1 /\ unposted' = unposted /\ pc' = pc
      BY <1>5 DEF thread_pool_cancel
    <3>2. sem \in Nat /\ unposted \in Nat /\ Len(request_list) \in Nat
      BY <1>0 DEF Shape
    <3>3. Len(request_list) = sem + Count(pc, {"got"}) + unposted
      BY <1>0, <1>5 DEF thread_pool_cancel, InCaller, Tokens
    <3>4. Len(request_list') = sem' + Count(pc', {"got"}) + unposted'
      BY <1>n, <2>3, <3>1, <3>2, <3>3
    <3>5. QED BY <3>4 DEF Tokens
  <2>8. QED BY <2>5, <2>6, <2>7 DEF IndInv
<1>6. QED BY <1>1, <1>2, <1>3, <1>4, <1>5


\* Threads are handed to the system by the bottom half and by new workers:
\* whatever the caller did to the threads and to the pending count, one more
\* thread is created if there is a backlog.
LEMMA SpawnEffect ==
  ASSUME NEW pending \in Nat, NEW threads \in [Workers -> WorkerState],
         new_threads \in Nat, do_spawn_thread(pending, threads)
  PROVE  /\ pc' \in [Workers -> WorkerState]
         /\ new_threads' \in Nat /\ pending_threads' \in Nat
         /\ new_threads' + Count(pc', LiveStates)
              = new_threads + Count(threads, LiveStates)
         /\ pending_threads' - Count(pc', {"pending"})
              = pending - Count(threads, {"pending"})
         /\ Count(pc', IdleStates) = Count(threads, IdleStates)
         /\ Count(pc', {"got"}) = Count(threads, {"got"})
         /\ new_threads' > 0 => pending_threads' > 0
         /\ new_threads' <= new_threads
         /\ new_threads = 0 => pc' = threads
<1>n. \A p : /\ Count(p, LiveStates) \in Nat /\ Count(p, {"pending"}) \in Nat
             /\ Count(p, IdleStates) \in Nat /\ Count(p, {"got"}) \in Nat
  BY FourNats
<1>1. CASE new_threads = 0
  <2>1. pc' = threads /\ pending_threads' = pending /\ new_threads' = new_threads
    BY <1>1 DEF do_spawn_thread
  <2>2. QED BY <1>1, <1>n, <2>1
<1>2. CASE new_threads # 0
  <2>1. PICK t \in Workers : threads[t] = "none"
                             /\ pc' = [threads EXCEPT ![t] = "pending"]
    BY <1>2 DEF do_spawn_thread
  <2>2. new_threads' = new_threads - 1 /\ pending_threads' = pending + 1
    BY <1>2 DEF do_spawn_thread
  <2>3. "pending" \in WorkerState BY DEF WorkerState
  <2>4. /\ pc' \in [Workers -> WorkerState]
        /\ Count(pc', LiveStates) = Count(threads, LiveStates) + 1
        /\ Count(pc', {"pending"}) = Count(threads, {"pending"}) + 1
        /\ Count(pc', IdleStates) = Count(threads, IdleStates)
        /\ Count(pc', {"got"}) = Count(threads, {"got"})
    <3>1. Moved(threads, pc', "none", "pending") BY <2>1, <2>3, FourCounts
    <3>2. /\ Delta("none", "pending", LiveStates) = 1
          /\ Delta("none", "pending", {"pending"}) = 1
          /\ Delta("none", "pending", IdleStates) = 0
          /\ Delta("none", "pending", {"got"}) = 0
      BY DEF Delta, LiveStates, IdleStates, WorkerState
    <3>3. QED BY <1>n, <3>1, <3>2 DEF Moved
  <2>5. QED BY <1>2, <1>n, <2>2, <2>4
<1>3. QED BY <1>1, <1>2


\* The bottom half that creates a thread.
LEMMA SpawnBhStep == ASSUME IndInv, spawn_thread_bh_fn PROVE IndInv'
<1> USE DEF elemVars, mainVars
<1>0. Shape /\ Counters /\ Tokens /\ Phases BY DEF IndInv
<1>1. pending_threads \in Nat /\ pc \in [Workers -> WorkerState] /\ new_threads \in Nat
  BY <1>0 DEF Shape
<1>2. /\ pc' \in [Workers -> WorkerState]
      /\ new_threads' \in Nat /\ pending_threads' \in Nat
      /\ new_threads' + Count(pc', LiveStates) = new_threads + Count(pc, LiveStates)
      /\ pending_threads' - Count(pc', {"pending"})
           = pending_threads - Count(pc, {"pending"})
      /\ Count(pc', IdleStates) = Count(pc, IdleStates)
      /\ Count(pc', {"got"}) = Count(pc, {"got"})
      /\ new_threads' > 0 => pending_threads' > 0
      /\ new_threads' <= new_threads
  <2>1. do_spawn_thread(pending_threads, pc) BY DEF spawn_thread_bh_fn
  <2>2. QED BY <1>1, <2>1, SpawnEffect
<1>n. /\ Count(pc, LiveStates) \in Nat /\ Count(pc', {"pending"}) \in Nat
  BY FourNats
<1>3. new_thread_bh' \in BOOLEAN BY DEF spawn_thread_bh_fn
<1>4. Shape' BY <1>0, <1>2, <1>3 DEF spawn_thread_bh_fn, Shape
<1>5. Counters'
  BY <1>0, <1>n, <1>1, <1>2 DEF spawn_thread_bh_fn, Counters, Shape
<1>6. Tokens'
  <2>1. ~stopping BY <1>0 DEF spawn_thread_bh_fn, Phases
  <2>2. QED BY <1>0, <1>2, <2>1 DEF spawn_thread_bh_fn, Tokens
<1>7. Phases' BY <1>0, <1>1, <1>2 DEF spawn_thread_bh_fn, Phases
<1>8. SpawnNotLost' BY <1>2 DEF SpawnNotLost
<1>9. QED BY <1>4, <1>5, <1>6, <1>7, <1>8 DEF IndInv


\* A worker that exists is counted, so the pool has not been freed.
LEMMA WorkerCounted ==
  ASSUME IndInv, NEW w \in Workers, pc[w] # "none"
  PROVE  /\ cur_threads > 0 /\ mode # "freed"
         /\ Count(pc, LiveStates) > 0
         /\ pc[w] = "pending" => pending_threads > 0
         /\ pc[w] \in IdleStates => idle_threads > 0
         /\ pc[w] = "got" => Count(pc, {"got"}) > 0
<1>0. Shape /\ Counters /\ Phases BY DEF IndInv
<1>1. pc[w] \in LiveStates BY <1>0 DEF Shape, LiveStates
<1>2. Count(pc, LiveStates) > 0 BY <1>1, CountPositive
<1>3. Count(pc, LiveStates) \in Nat BY FourNats
<1>4. cur_threads > 0 BY <1>0, <1>2, <1>3 DEF Counters, Shape
<1>5. mode # "freed" BY <1>0, <1>4 DEF Phases
<1>6. pc[w] = "pending" => Count(pc, {"pending"}) > 0 BY CountPositive
<1>7. pc[w] \in IdleStates => Count(pc, IdleStates) > 0 BY CountPositive
<1>8. pc[w] = "got" => Count(pc, {"got"}) > 0 BY CountPositive
<1>9. QED BY <1>0, <1>2, <1>4, <1>5, <1>6, <1>7, <1>8 DEF Counters

\* A new worker takes the lock for the first time.
LEMMA WorkerStartStep ==
  ASSUME IndInv, NEW w \in Workers, WorkerStart(w) PROVE IndInv'
<1> USE DEF bhVars, elemVars
<1> DEFINE threads == [pc EXCEPT ![w] = LoopState]
<1>0. Shape /\ Counters /\ Tokens /\ Phases BY DEF IndInv
<1>1. pc[w] = "pending" /\ do_spawn_thread(pending_threads - 1, threads)
  BY DEF WorkerStart
<1>2. /\ pending_threads \in Nat /\ new_threads \in Nat /\ cur_threads \in Nat
      /\ idle_threads \in Nat /\ pc \in [Workers -> WorkerState]
      /\ sem \in Nat /\ unposted \in Nat /\ Len(request_list) \in Nat
  BY <1>0 DEF Shape
<1>3. pending_threads > 0 /\ cur_threads > 0 /\ mode # "freed"
  BY <1>1, WorkerCounted
<1>4. LoopState \in WorkerState BY DEF LoopState, WorkerState
<1>5. Moved(pc, threads, "pending", LoopState) BY <1>1, <1>2, <1>4, FourCounts
<1>6. threads \in [Workers -> WorkerState] BY <1>5 DEF Moved
<1>n. \A p : /\ Count(p, LiveStates) \in Nat /\ Count(p, {"pending"}) \in Nat
             /\ Count(p, IdleStates) \in Nat /\ Count(p, {"got"}) \in Nat
  BY FourNats
<1>7. pending_threads - 1 \in Nat BY <1>2, <1>3
<1> HIDE DEF threads
<1>8. /\ pc' \in [Workers -> WorkerState]
      /\ new_threads' \in Nat /\ pending_threads' \in Nat
      /\ new_threads' + Count(pc', LiveStates)
           = new_threads + Count(threads, LiveStates)
      /\ pending_threads' - Count(pc', {"pending"})
           = (pending_threads - 1) - Count(threads, {"pending"})
      /\ Count(pc', IdleStates) = Count(threads, IdleStates)
      /\ Count(pc', {"got"}) = Count(threads, {"got"})
      /\ new_threads' > 0 => pending_threads' > 0
      /\ new_threads' <= new_threads
  BY <1>1, <1>2, <1>6, <1>7, SpawnEffect
<1>9. CASE stopping
  <2>1. /\ cur_threads' = cur_threads - 1 /\ idle_threads' = idle_threads
        /\ woken' \in BOOLEAN /\ LoopState = "none"
    BY <1>9 DEF WorkerStart, ExitIfStopping, ExitCounts, LoopState
  <2>2. /\ Delta("pending", LoopState, LiveStates) = -1
        /\ Delta("pending", LoopState, {"pending"}) = -1
        /\ Delta("pending", LoopState, IdleStates) = 0
    BY <2>1 DEF Delta, LiveStates, IdleStates, WorkerState
  <2>3. Shape' BY <1>0, <1>2, <1>3, <1>8, <2>1 DEF WorkerStart, Shape
  <2>4. Counters'
    <3>1. /\ Count(threads, LiveStates) = Count(pc, LiveStates) - 1
          /\ Count(threads, {"pending"}) = Count(pc, {"pending"}) - 1
          /\ Count(threads, IdleStates) = Count(pc, IdleStates)
      BY <1>5, <1>n, <2>2 DEF Moved
    <3>2. /\ Count(pc, LiveStates) \in Nat /\ Count(pc', LiveStates) \in Nat
          /\ Count(pc, {"pending"}) \in Nat /\ Count(pc', {"pending"}) \in Nat
          /\ Count(threads, LiveStates) \in Nat
          /\ Count(threads, {"pending"}) \in Nat
          /\ MaxThreads \in Nat
      BY <1>n, PoolAssumption
    <3>3. /\ cur_threads = new_threads + Count(pc, LiveStates)
          /\ pending_threads = Count(pc, {"pending"})
          /\ idle_threads = Count(pc, IdleStates) /\ cur_threads <= MaxThreads
      BY <1>0 DEF Counters
    <3>a. /\ new_threads' + Count(pc', LiveStates)
               = new_threads + Count(threads, LiveStates)
          /\ pending_threads' - Count(pc', {"pending"})
               = (pending_threads - 1) - Count(threads, {"pending"})
          /\ pending_threads' \in Nat /\ new_threads' \in Nat
      BY <1>8
    <3>4. cur_threads' = new_threads' + Count(pc', LiveStates)
      <4>1. \A n, m \in Nat : (n + m) - 1 = n + (m - 1) OBVIOUS
      <4>2. cur_threads' = (new_threads + Count(pc, LiveStates)) - 1 BY <2>1, <3>3
      <4>3. new_threads' + Count(pc', LiveStates)
              = new_threads + (Count(pc, LiveStates) - 1)
        BY <3>1, <3>a
      <4>4. QED BY <1>2, <3>2, <4>1, <4>2, <4>3
    <3>5. pending_threads' = Count(pc', {"pending"})
      <4>1. pending_threads' - Count(pc', {"pending"}) = 0
        BY <1>2, <3>1, <3>2, <3>3, <3>a
      <4>2. QED BY <3>2, <3>a, <4>1
    <3>6. idle_threads' = Count(pc', IdleStates) /\ cur_threads' <= MaxThreads
      BY <1>2, <1>8, <2>1, <3>1, <3>2, <3>3
    <3>7. QED BY <3>4, <3>5, <3>6 DEF Counters
  <2>5. Tokens' BY <1>9 DEF WorkerStart, Tokens
  <2>6. Phases' BY <1>0, <1>2, <1>3, <1>8, <1>9 DEF WorkerStart, Phases
  <2>7. QED BY <1>8, <2>3, <2>4, <2>5, <2>6 DEF IndInv, SpawnNotLost
<1>10. CASE ~stopping
  <2>1. /\ cur_threads' = cur_threads /\ idle_threads' = idle_threads + 1
        /\ woken' = woken /\ LoopState = "waiting"
    BY <1>10 DEF WorkerStart, ExitIfStopping, LoopState
  <2>2. /\ Delta("pending", LoopState, LiveStates) = 0
        /\ Delta("pending", LoopState, {"pending"}) = -1
        /\ Delta("pending", LoopState, IdleStates) = 1
        /\ Delta("pending", LoopState, {"got"}) = 0
    BY <2>1 DEF Delta, LiveStates, IdleStates, WorkerState
  <2>3. Shape' BY <1>0, <1>2, <1>8, <2>1 DEF WorkerStart, Shape
  <2>4. Counters'
    <3>1. /\ Count(threads, LiveStates) = Count(pc, LiveStates)
          /\ Count(threads, {"pending"}) = Count(pc, {"pending"}) - 1
          /\ Count(threads, IdleStates) = Count(pc, IdleStates) + 1
      BY <1>5, <1>n, <2>2 DEF Moved
    <3>2. /\ Count(pc, LiveStates) \in Nat /\ Count(pc', LiveStates) \in Nat
          /\ Count(pc, {"pending"}) \in Nat /\ Count(pc', {"pending"}) \in Nat
          /\ Count(threads, LiveStates) \in Nat
          /\ Count(threads, {"pending"}) \in Nat
          /\ MaxThreads \in Nat
      BY <1>n, PoolAssumption
    <3>3. /\ cur_threads = new_threads + Count(pc, LiveStates)
          /\ pending_threads = Count(pc, {"pending"})
          /\ idle_threads = Count(pc, IdleStates) /\ cur_threads <= MaxThreads
      BY <1>0 DEF Counters
    <3>a. /\ new_threads' + Count(pc', LiveStates)
               = new_threads + Count(threads, LiveStates)
          /\ pending_threads' - Count(pc', {"pending"})
               = (pending_threads - 1) - Count(threads, {"pending"})
          /\ pending_threads' \in Nat /\ new_threads' \in Nat
      BY <1>8
    <3>4. cur_threads' = new_threads' + Count(pc', LiveStates)
      BY <1>2, <2>1, <3>1, <3>2, <3>3, <3>a
    <3>5. pending_threads' = Count(pc', {"pending"})
      <4>1. pending_threads' - Count(pc', {"pending"}) = 0
        BY <1>2, <3>1, <3>2, <3>3, <3>a
      <4>2. QED BY <3>2, <3>a, <4>1
    <3>6. idle_threads' = Count(pc', IdleStates) /\ cur_threads' <= MaxThreads
      BY <1>2, <1>8, <2>1, <3>1, <3>2, <3>3
    <3>7. QED BY <3>4, <3>5, <3>6 DEF Counters
  <2>5. Tokens'
    <3>1. Count(pc', {"got"}) = Count(pc, {"got"})
      BY <1>5, <1>8, <1>n, <2>2 DEF Moved
    <3>2. QED BY <1>0, <1>10, <3>1 DEF WorkerStart, Tokens
  <2>6. Phases' BY <1>0, <1>10, <2>1 DEF WorkerStart, Phases
  <2>7. QED BY <1>8, <2>3, <2>4, <2>5, <2>6 DEF IndInv, SpawnNotLost
<1>11. QED BY <1>9, <1>10


\* A worker that already ran moves, and the counters follow it.
LEMMA MoveCounters ==
  ASSUME IndInv, NEW w \in Workers, NEW v \in WorkerState,
         pc' = [pc EXCEPT ![w] = v],
         UNCHANGED <<new_threads, pending_threads>>,
         cur_threads' = cur_threads + Delta(pc[w], v, LiveStates),
         idle_threads' = idle_threads + Delta(pc[w], v, IdleStates),
         Delta(pc[w], v, LiveStates) \in {0, -1},
         Delta(pc[w], v, IdleStates) \in {0, 1, -1},
         Delta(pc[w], v, {"pending"}) = 0
  PROVE  /\ Counters'
         /\ cur_threads' \in Nat /\ idle_threads' \in Nat
         /\ pc' \in [Workers -> WorkerState]
         /\ Count(pc', {"got"}) = Count(pc, {"got"}) + Delta(pc[w], v, {"got"})
<1>0. Shape /\ Counters BY DEF IndInv
<1>1. pc \in [Workers -> WorkerState] /\ cur_threads \in Nat /\ new_threads \in Nat
  BY <1>0 DEF Shape
<1>2. Moved(pc, pc', pc[w], v) BY <1>1, FourCounts
<1>3. /\ Count(pc, LiveStates) \in Nat /\ Count(pc, IdleStates) \in Nat
      /\ Count(pc, {"pending"}) \in Nat
      /\ Count(pc', LiveStates) \in Nat /\ Count(pc', IdleStates) \in Nat
      /\ Count(pc', {"pending"}) \in Nat /\ MaxThreads \in Nat
  BY FourNats, PoolAssumption
<1>4. cur_threads' = new_threads' + Count(pc', LiveStates) /\ cur_threads' <= MaxThreads
  BY <1>0, <1>1, <1>2, <1>3 DEF Counters, Moved
<1>5. pending_threads' = Count(pc', {"pending"}) /\ idle_threads' = Count(pc', IdleStates)
  BY <1>0, <1>2, <1>3 DEF Counters, Moved
<1>6. cur_threads' \in Nat /\ idle_threads' \in Nat BY <1>1, <1>3, <1>4, <1>5
<1>7. QED BY <1>2, <1>4, <1>5, <1>6 DEF Counters, Moved

\* Back from the semaphore with a token: the list is not empty.
LEMMA GotHasRequest ==
  ASSUME IndInv, NEW w \in Workers, pc[w] = "got", ~stopping
  PROVE  request_list # <<>>
<1>1. Count(pc, {"got"}) > 0 BY WorkerCounted
<1>2. Count(pc, {"got"}) \in Nat BY FourNats
<1>3. Len(request_list) > 0
  BY <1>1, <1>2 DEF IndInv, Tokens, Shape
<1>4. QED BY <1>3

\* The other steps of a worker.
LEMMA WorkerSteps ==
  ASSUME IndInv, NEW w \in Workers,
         \/ WorkerAcquire(w) \/ WorkerTimeout(w)
         \/ WorkerGot(w) \/ WorkerTimedout(w)
         \/ WorkerDone(w) \/ WorkerComplete(w)
  PROVE  IndInv'
<1> USE DEF lockVars, bhVars, elemVars, mainVars
<1>0. Shape /\ Counters /\ Tokens /\ Phases /\ SpawnNotLost BY DEF IndInv
<1>a. /\ sem \in Nat /\ unposted \in Nat /\ Len(request_list) \in Nat
      /\ Count(pc, {"got"}) \in Nat /\ cur_threads \in Nat /\ idle_threads \in Nat
      /\ request_list \in Seq(Reqs)
  BY <1>0, FourNats DEF Shape
<1>1. CASE WorkerAcquire(w)
  <2>0. pc[w] = "waiting" /\ "got" \in WorkerState BY <1>1 DEF WorkerAcquire, WorkerState
  <2>1. /\ Delta(pc[w], "got", LiveStates) = 0
        /\ Delta(pc[w], "got", IdleStates) = 0
        /\ Delta(pc[w], "got", {"pending"}) = 0
        /\ Delta(pc[w], "got", {"got"}) = 1
    BY <2>0 DEF Delta, LiveStates, IdleStates, WorkerState
  <2>2. /\ pc' = [pc EXCEPT ![w] = "got"]
        /\ UNCHANGED <<new_threads, pending_threads>>
        /\ cur_threads' = cur_threads + Delta(pc[w], "got", LiveStates)
        /\ idle_threads' = idle_threads + Delta(pc[w], "got", IdleStates)
    BY <1>1, <1>a, <2>1 DEF WorkerAcquire
  <2>3. /\ Counters' /\ pc' \in [Workers -> WorkerState]
        /\ cur_threads' \in Nat /\ idle_threads' \in Nat
        /\ Count(pc', {"got"}) = Count(pc, {"got"}) + 1
    BY <2>0, <2>1, <2>2, MoveCounters
  <2>a. sem' = sem - 1 /\ sem' \in Nat BY <1>1, <1>a DEF WorkerAcquire
  <2>4. Shape' BY <1>0, <1>1, <2>3, <2>a DEF WorkerAcquire, Shape
  <2>5. Tokens' BY <1>0, <1>1, <1>a, <2>3 DEF WorkerAcquire, Tokens
  <2>6. Phases' /\ SpawnNotLost'
    BY <1>0, <1>1 DEF WorkerAcquire, Phases, SpawnNotLost
  <2>7. QED BY <2>3, <2>4, <2>5, <2>6 DEF IndInv
<1>2. CASE WorkerTimeout(w)
  <2>0. pc[w] = "waiting" /\ "timedout" \in WorkerState
    BY <1>2 DEF WorkerTimeout, WorkerState
  <2>1. /\ Delta(pc[w], "timedout", LiveStates) = 0
        /\ Delta(pc[w], "timedout", IdleStates) = 0
        /\ Delta(pc[w], "timedout", {"pending"}) = 0
        /\ Delta(pc[w], "timedout", {"got"}) = 0
    BY <2>0 DEF Delta, LiveStates, IdleStates, WorkerState
  <2>2. /\ pc' = [pc EXCEPT ![w] = "timedout"]
        /\ UNCHANGED <<new_threads, pending_threads>>
        /\ cur_threads' = cur_threads + Delta(pc[w], "timedout", LiveStates)
        /\ idle_threads' = idle_threads + Delta(pc[w], "timedout", IdleStates)
    BY <1>2, <1>a, <2>1 DEF WorkerTimeout
  <2>3. /\ Counters' /\ pc' \in [Workers -> WorkerState]
        /\ cur_threads' \in Nat /\ idle_threads' \in Nat
        /\ Count(pc', {"got"}) = Count(pc, {"got"}) + 0
    BY <2>0, <2>1, <2>2, MoveCounters
  <2>4. Shape' BY <1>0, <1>2, <2>3 DEF WorkerTimeout, Shape
  <2>5. Tokens' BY <1>0, <1>2, <1>a, <2>3 DEF WorkerTimeout, Tokens
  <2>6. Phases' /\ SpawnNotLost'
    BY <1>0, <1>2 DEF WorkerTimeout, Phases, SpawnNotLost
  <2>7. QED BY <2>3, <2>4, <2>5, <2>6 DEF IndInv
<1>3. CASE WorkerGot(w) /\ stopping
  <2>0. pc[w] = "got" /\ "none" \in WorkerState BY <1>3 DEF WorkerGot, WorkerState
  <2>1. /\ Delta(pc[w], "none", LiveStates) = -1
        /\ Delta(pc[w], "none", IdleStates) = -1
        /\ Delta(pc[w], "none", {"pending"}) = 0
        /\ Delta(pc[w], "none", {"got"}) = -1
    BY <2>0 DEF Delta, LiveStates, IdleStates, WorkerState
  <2>2. /\ pc' = [pc EXCEPT ![w] = "none"]
        /\ UNCHANGED <<new_threads, pending_threads>>
        /\ cur_threads' = cur_threads + Delta(pc[w], "none", LiveStates)
        /\ idle_threads' = idle_threads + Delta(pc[w], "none", IdleStates)
    BY <1>3, <1>a, <2>1 DEF WorkerGot, ExitCounts
  <2>3. /\ Counters' /\ pc' \in [Workers -> WorkerState]
        /\ cur_threads' \in Nat /\ idle_threads' \in Nat
        /\ Count(pc', {"got"}) = Count(pc, {"got"}) + -1
    BY <2>0, <2>1, <2>2, MoveCounters
  <2>a. mode # "freed" /\ cur_threads > 0 BY <2>0, WorkerCounted
  <2>b. woken' \in BOOLEAN BY <1>3 DEF WorkerGot, ExitCounts
  <2>4. Shape' BY <1>0, <1>3, <2>3, <2>b DEF WorkerGot, ExitCounts, Shape
  <2>5. Tokens' BY <1>0, <1>3, <1>a, <2>3 DEF WorkerGot, ExitCounts, Tokens
  <2>6. Phases' BY <1>0, <1>3, <2>a DEF WorkerGot, ExitCounts, Phases
  <2>7. SpawnNotLost' BY <1>0, <1>3 DEF WorkerGot, ExitCounts, SpawnNotLost
  <2>8. QED BY <2>3, <2>4, <2>5, <2>6, <2>7 DEF IndInv
<1>4. CASE WorkerGot(w) /\ ~stopping
  <2>0. pc[w] = "got" /\ "run" \in WorkerState BY <1>4 DEF WorkerGot, WorkerState
  <2>1. /\ Delta(pc[w], "run", LiveStates) = 0
        /\ Delta(pc[w], "run", IdleStates) = -1
        /\ Delta(pc[w], "run", {"pending"}) = 0
        /\ Delta(pc[w], "run", {"got"}) = -1
    BY <2>0 DEF Delta, LiveStates, IdleStates, WorkerState
  <2>2. /\ pc' = [pc EXCEPT ![w] = "run"]
        /\ UNCHANGED <<new_threads, pending_threads>>
        /\ cur_threads' = cur_threads + Delta(pc[w], "run", LiveStates)
        /\ idle_threads' = idle_threads + Delta(pc[w], "run", IdleStates)
    BY <1>4, <1>a, <2>1 DEF WorkerGot
  <2>3. /\ Counters' /\ pc' \in [Workers -> WorkerState]
        /\ cur_threads' \in Nat /\ idle_threads' \in Nat
        /\ Count(pc', {"got"}) = Count(pc, {"got"}) + -1
    BY <2>0, <2>1, <2>2, MoveCounters
  <2>a. request_list # <<>> BY <1>4, <2>0, GotHasRequest
  <2>b. Head(request_list) \in Reqs /\ request_list' \in Seq(Reqs)
        /\ Len(request_list') = Len(request_list) - 1
    <3>1. request_list' = Tail(request_list) BY <1>4 DEF WorkerGot
    <3>2. QED BY <1>a, <2>a, <3>1, HeadTailProperties
  <2>c. st' \in [Reqs -> ReqState] /\ req' \in [Workers -> Reqs \cup {NoReq}]
    BY <1>0, <1>4, <2>b DEF WorkerGot, Shape, ReqState
  <2>4. Shape' BY <1>0, <1>4, <2>3, <2>b, <2>c DEF WorkerGot, Shape
  <2>5. Tokens'
    <3>1. Len(request_list) = sem + Count(pc, {"got"}) + unposted
      BY <1>0, <1>4 DEF Tokens
    <3>2. sem' = sem /\ unposted' = unposted BY <1>4 DEF WorkerGot
    <3>3. Len(request_list') = sem' + Count(pc', {"got"}) + unposted'
      BY <1>a, <2>3, <2>b, <3>1, <3>2
    <3>4. QED BY <3>3 DEF Tokens
  <2>6. Phases' /\ SpawnNotLost'
    BY <1>0, <1>4 DEF WorkerGot, Phases, SpawnNotLost
  <2>7. QED BY <2>3, <2>4, <2>5, <2>6 DEF IndInv
<1>5. CASE WorkerTimedout(w) /\ request_list # <<>>
  <2>0. pc[w] = "timedout" /\ "waiting" \in WorkerState
    BY <1>5 DEF WorkerTimedout, WorkerState
  <2>1. /\ Delta(pc[w], "waiting", LiveStates) = 0
        /\ Delta(pc[w], "waiting", IdleStates) = 0
        /\ Delta(pc[w], "waiting", {"pending"}) = 0
        /\ Delta(pc[w], "waiting", {"got"}) = 0
    BY <2>0 DEF Delta, LiveStates, IdleStates, WorkerState
  <2>2. /\ pc' = [pc EXCEPT ![w] = "waiting"]
        /\ UNCHANGED <<new_threads, pending_threads>>
        /\ cur_threads' = cur_threads + Delta(pc[w], "waiting", LiveStates)
        /\ idle_threads' = idle_threads + Delta(pc[w], "waiting", IdleStates)
    BY <1>5, <1>a, <2>1 DEF WorkerTimedout
  <2>3. /\ Counters' /\ pc' \in [Workers -> WorkerState]
        /\ cur_threads' \in Nat /\ idle_threads' \in Nat
        /\ Count(pc', {"got"}) = Count(pc, {"got"}) + 0
    BY <2>0, <2>1, <2>2, MoveCounters
  <2>4. Shape' BY <1>0, <1>5, <2>3 DEF WorkerTimedout, Shape
  <2>5. Tokens' BY <1>0, <1>5, <1>a, <2>3 DEF WorkerTimedout, Tokens
  <2>6. Phases' /\ SpawnNotLost'
    BY <1>0, <1>5 DEF WorkerTimedout, Phases, SpawnNotLost
  <2>7. QED BY <2>3, <2>4, <2>5, <2>6 DEF IndInv
<1>6. CASE WorkerTimedout(w) /\ request_list = <<>>
  <2>0. pc[w] = "timedout" /\ "none" \in WorkerState BY <1>6 DEF WorkerTimedout, WorkerState
  <2>1. /\ Delta(pc[w], "none", LiveStates) = -1
        /\ Delta(pc[w], "none", IdleStates) = -1
        /\ Delta(pc[w], "none", {"pending"}) = 0
        /\ Delta(pc[w], "none", {"got"}) = 0
    BY <2>0 DEF Delta, LiveStates, IdleStates, WorkerState
  <2>2. /\ pc' = [pc EXCEPT ![w] = "none"]
        /\ UNCHANGED <<new_threads, pending_threads>>
        /\ cur_threads' = cur_threads + Delta(pc[w], "none", LiveStates)
        /\ idle_threads' = idle_threads + Delta(pc[w], "none", IdleStates)
    BY <1>6, <1>a, <2>1 DEF WorkerTimedout, ExitCounts
  <2>3. /\ Counters' /\ pc' \in [Workers -> WorkerState]
        /\ cur_threads' \in Nat /\ idle_threads' \in Nat
        /\ Count(pc', {"got"}) = Count(pc, {"got"}) + 0
    BY <2>0, <2>1, <2>2, MoveCounters
  <2>a. mode # "freed" /\ cur_threads > 0 BY <2>0, WorkerCounted
  <2>b. woken' \in BOOLEAN BY <1>6 DEF WorkerTimedout, ExitCounts
  <2>4. Shape' BY <1>0, <1>6, <2>3, <2>b DEF WorkerTimedout, ExitCounts, Shape
  <2>5. Tokens' BY <1>0, <1>6, <1>a, <2>3 DEF WorkerTimedout, ExitCounts, Tokens
  <2>6. Phases' BY <1>0, <1>6, <2>a DEF WorkerTimedout, ExitCounts, Phases
  <2>7. SpawnNotLost' BY <1>0, <1>6 DEF WorkerTimedout, ExitCounts, SpawnNotLost
  <2>8. QED BY <2>3, <2>4, <2>5, <2>6, <2>7 DEF IndInv
<1>7. CASE WorkerDone(w)
  <2>0. pc[w] = "run" /\ "done" \in WorkerState BY <1>7 DEF WorkerDone, WorkerState
  <2>1. /\ Delta(pc[w], "done", LiveStates) = 0
        /\ Delta(pc[w], "done", IdleStates) = 0
        /\ Delta(pc[w], "done", {"pending"}) = 0
        /\ Delta(pc[w], "done", {"got"}) = 0
    BY <2>0 DEF Delta, LiveStates, IdleStates, WorkerState
  <2>2. /\ pc' = [pc EXCEPT ![w] = "done"]
        /\ UNCHANGED <<new_threads, pending_threads>>
        /\ cur_threads' = cur_threads + Delta(pc[w], "done", LiveStates)
        /\ idle_threads' = idle_threads + Delta(pc[w], "done", IdleStates)
    BY <1>7, <1>a, <2>1 DEF WorkerDone
  <2>3. /\ Counters' /\ pc' \in [Workers -> WorkerState]
        /\ cur_threads' \in Nat /\ idle_threads' \in Nat
        /\ Count(pc', {"got"}) = Count(pc, {"got"}) + 0
    BY <2>0, <2>1, <2>2, MoveCounters
  <2>a. st' \in [Reqs -> ReqState] /\ req' \in [Workers -> Reqs \cup {NoReq}]
    BY <1>0, <1>7 DEF WorkerDone, Shape, ReqState
  <2>4. Shape' BY <1>0, <1>7, <2>3, <2>a DEF WorkerDone, Shape
  <2>5. Tokens' BY <1>0, <1>7, <1>a, <2>3 DEF WorkerDone, Tokens
  <2>6. Phases' /\ SpawnNotLost'
    BY <1>0, <1>7 DEF WorkerDone, Phases, SpawnNotLost
  <2>7. QED BY <2>3, <2>4, <2>5, <2>6 DEF IndInv
<1>8. CASE WorkerComplete(w) /\ stopping
  <2>0. pc[w] = "done" /\ "none" \in WorkerState BY <1>8 DEF WorkerComplete, WorkerState
  <2>1. /\ Delta(pc[w], "none", LiveStates) = -1
        /\ Delta(pc[w], "none", IdleStates) = 0
        /\ Delta(pc[w], "none", {"pending"}) = 0
        /\ Delta(pc[w], "none", {"got"}) = 0
    BY <2>0 DEF Delta, LiveStates, IdleStates, WorkerState
  <2>2. /\ pc' = [pc EXCEPT ![w] = "none"]
        /\ UNCHANGED <<new_threads, pending_threads>>
        /\ cur_threads' = cur_threads + Delta(pc[w], "none", LiveStates)
        /\ idle_threads' = idle_threads + Delta(pc[w], "none", IdleStates)
    BY <1>8, <1>a, <2>1 DEF WorkerComplete, ExitIfStopping, ExitCounts, LoopState
  <2>3. /\ Counters' /\ pc' \in [Workers -> WorkerState]
        /\ cur_threads' \in Nat /\ idle_threads' \in Nat
        /\ Count(pc', {"got"}) = Count(pc, {"got"}) + 0
    BY <2>0, <2>1, <2>2, MoveCounters
  <2>a. mode # "freed" /\ cur_threads > 0 BY <2>0, WorkerCounted
  <2>b. woken' \in BOOLEAN /\ completion_bh' \in BOOLEAN
    BY <1>8 DEF WorkerComplete, ExitIfStopping, ExitCounts, LoopState
  <2>4. Shape'
    BY <1>0, <1>8, <2>3, <2>b DEF WorkerComplete, ExitIfStopping, ExitCounts, LoopState, Shape
  <2>5. Tokens'
    BY <1>0, <1>8, <1>a, <2>3 DEF WorkerComplete, ExitIfStopping, ExitCounts, LoopState, Tokens
  <2>6. Phases'
    BY <1>0, <1>8, <2>a DEF WorkerComplete, ExitIfStopping, ExitCounts, LoopState, Phases
  <2>7. SpawnNotLost'
    BY <1>0, <1>8 DEF WorkerComplete, ExitIfStopping, ExitCounts, LoopState, SpawnNotLost
  <2>8. QED BY <2>3, <2>4, <2>5, <2>6, <2>7 DEF IndInv
<1>9. CASE WorkerComplete(w) /\ ~stopping
  <2>0. pc[w] = "done" /\ "waiting" \in WorkerState BY <1>9 DEF WorkerComplete, WorkerState
  <2>1. /\ Delta(pc[w], "waiting", LiveStates) = 0
        /\ Delta(pc[w], "waiting", IdleStates) = 1
        /\ Delta(pc[w], "waiting", {"pending"}) = 0
        /\ Delta(pc[w], "waiting", {"got"}) = 0
    BY <2>0 DEF Delta, LiveStates, IdleStates, WorkerState
  <2>2. /\ pc' = [pc EXCEPT ![w] = "waiting"]
        /\ UNCHANGED <<new_threads, pending_threads>>
        /\ cur_threads' = cur_threads + Delta(pc[w], "waiting", LiveStates)
        /\ idle_threads' = idle_threads + Delta(pc[w], "waiting", IdleStates)
    BY <1>9, <1>a, <2>1 DEF WorkerComplete, ExitIfStopping, LoopState
  <2>3. /\ Counters' /\ pc' \in [Workers -> WorkerState]
        /\ cur_threads' \in Nat /\ idle_threads' \in Nat
        /\ Count(pc', {"got"}) = Count(pc, {"got"}) + 0
    BY <2>0, <2>1, <2>2, MoveCounters
  <2>a. completion_bh' \in BOOLEAN BY <1>9 DEF WorkerComplete
  <2>4. Shape'
    BY <1>0, <1>9, <2>3, <2>a DEF WorkerComplete, ExitIfStopping, LoopState, Shape
  <2>5. Tokens'
    BY <1>0, <1>9, <1>a, <2>3 DEF WorkerComplete, ExitIfStopping, LoopState, Tokens
  <2>6. Phases' /\ SpawnNotLost'
    BY <1>0, <1>9 DEF WorkerComplete, ExitIfStopping, LoopState, Phases, SpawnNotLost
  <2>7. QED BY <2>3, <2>4, <2>5, <2>6 DEF IndInv
<1>10. QED BY <1>1, <1>2, <1>3, <1>4, <1>5, <1>6, <1>7, <1>8, <1>9

\* Every step keeps the invariant.
LEMMA NextIndInv == IndInv /\ [Next]_vars => IndInv'
<1> SUFFICES ASSUME IndInv, [Next]_vars PROVE IndInv' OBVIOUS
<1>1. CASE HomeStep
  BY <1>1, CallerSteps, CompletionSteps, SpawnBhStep DEF HomeStep
<1>2. ASSUME NEW r \in Reqs, NEW cb \in BOOLEAN, thread_pool_submit_aio(r, cb)
      PROVE IndInv'
  BY <1>2, CallerSteps
<1>3. ASSUME NEW r \in Reqs, thread_pool_cancel(r) \/ CallbackWait(r)
      PROVE IndInv'
  BY <1>3, CallerSteps, CompletionSteps
<1>4. CASE CallbackReturn \/ thread_pool_free
  BY <1>4, CallerSteps, CompletionSteps
<1>5. ASSUME NEW w \in Workers, WorkerStep(w) PROVE IndInv'
  BY <1>5, WorkerStartStep, WorkerSteps DEF WorkerStep
<1>6. CASE Terminated \/ UNCHANGED vars
  <2>1. UNCHANGED vars BY <1>6 DEF Terminated
  <2>2. QED
    BY <2>1 DEF vars, lockVars, bhVars, elemVars, mainVars, workerVars, IndInv,
       Shape, Counters, Tokens, Phases, SpawnNotLost
<1>7. QED BY <1>1, <1>2, <1>3, <1>4, <1>5, <1>6 DEF Next

\* The bookkeeping invariant holds in every reachable state.
THEOREM Bookkeeping == Spec => []IndInv
<1>1. QED BY InitIndInv, NextIndInv, PTL DEF Spec

-----------------------------------------------------------------------------
\* The invariant implies the properties that the runs check.
LEMMA Consequences ==
  IndInv => /\ TypeOK /\ TokenAccounting /\ NeverDequeueEmpty
            /\ ThreadAccounting /\ FreedQuiescent
<1> SUFFICES ASSUME IndInv
             PROVE  /\ TypeOK /\ TokenAccounting /\ NeverDequeueEmpty
                    /\ ThreadAccounting /\ FreedQuiescent
  OBVIOUS
<1>0. Shape /\ Counters /\ Tokens /\ Phases BY DEF IndInv
<1>1. /\ Count(pc, LiveStates) \in Nat /\ Count(pc, {"pending"}) \in Nat
      /\ Count(pc, IdleStates) \in Nat /\ MaxThreads \in Nat
  BY FourNats, PoolAssumption
<1>2. TypeOK
  <2>1. {"pending"} \subseteq LiveStates /\ IdleStates \subseteq LiveStates
    BY DEF LiveStates, IdleStates, WorkerState
  <2>2. Count(pc, {"pending"}) <= Count(pc, LiveStates)
        /\ Count(pc, IdleStates) <= Count(pc, LiveStates)
    BY <2>1, CountMonotone
  <2>3. /\ cur_threads \in 0 .. MaxThreads /\ idle_threads \in 0 .. MaxThreads
        /\ new_threads \in 0 .. MaxThreads /\ pending_threads \in 0 .. MaxThreads
    BY <1>0, <1>1, <2>2 DEF Counters, Shape
  <2>4. QED BY <1>0, <2>3 DEF TypeOK, Shape
<1>3. TokenAccounting BY <1>0 DEF TokenAccounting, Tokens, At, Count
<1>4. NeverDequeueEmpty BY GotHasRequest DEF NeverDequeueEmpty
<1>5. ThreadAccounting
  BY <1>0, <1>2 DEF ThreadAccounting, Counters, At, Count, LiveStates, IdleStates
<1>6. FreedQuiescent
  <2>1. SUFFICES ASSUME mode = "freed", NEW w \in Workers PROVE pc[w] = "none"
    BY <1>0 DEF FreedQuiescent, At, Shape
  <2>2. QED BY <2>1, WorkerCounted
<1>7. QED BY <1>2, <1>3, <1>4, <1>5, <1>6

\* Type correctness, the thread limit included: there are never more than
\* max_threads threads, created or on order.
THEOREM TypeCorrect == Spec => []TypeOK
<1>1. QED BY Bookkeeping, Consequences, PTL

\* Every queued request has exactly one token, for every interleaving of
\* submission, cancellation, wakeup and timeout.
THEOREM TokensAccounted == Spec => []TokenAccounting
<1>1. QED BY Bookkeeping, Consequences, PTL

\* A worker that was given a token never finds the request list empty, so
\* QTAILQ_REMOVE at line 101 is never applied to NULL.
THEOREM DequeueSafe == Spec => []NeverDequeueEmpty
<1>1. QED BY Bookkeeping, Consequences, PTL

\* cur_threads, pending_threads and idle_threads count the threads they name, and
\* none of them is above max_threads.
THEOREM CountersCorrect == Spec => []ThreadAccounting
<1>1. QED BY Bookkeeping, Consequences, PTL

\* A backlog of threads to create is never forgotten.
THEOREM BacklogNotLost == Spec => []SpawnNotLost
<1>1. IndInv => SpawnNotLost BY DEF IndInv
<1>2. QED BY <1>1, Bookkeeping, PTL

\* No worker outlives the pool.
THEOREM FreeSafe == Spec => []FreedQuiescent
<1>1. QED BY Bookkeeping, Consequences, PTL

-----------------------------------------------------------------------------
(* Who owns a request.                                                     *)

Inj(s) == \A i, j \in 1 .. Len(s) : s[i] = s[j] => i = j

Has(s, r) == \E i \in 1 .. Len(s) : s[i] = r

\* The requests whose callbacks are on the stack.
Owners(c) == [i \in 1 .. Len(c) |-> c[i].req]

\* A request is queued when it is in the list q, alive when it is in the list h
\* of requests or in a callback o, never in both, and done when it is in o.
Lists(q, h, o, s) ==
  /\ Inj(q) /\ Inj(h) /\ Inj(o)
  /\ \A r \in Reqs : /\ Has(q, r) <=> s[r] = "QUEUED"
                     /\ Has(h, r) \/ Has(o, r) <=> s[r] # "free"
                     /\ ~(Has(h, r) /\ Has(o, r))
                     /\ Has(o, r) => s[r] = "DONE"

\* A request is active when one worker runs it.
Runs(q, p, s) ==
  /\ \A r \in Reqs : s[r] = "ACTIVE" <=> \E w \in Workers : q[w] = r
  /\ \A v, w \in Workers : q[v] = q[w] /\ q[v] # NoReq => v = w
  /\ \A w \in Workers : p[w] = "run" <=> q[w] # NoReq

InCb == mode = "cb" => cbs # <<>>

\* What makes Ownership inductive: the lists name a request once, and a callback
\* runs for a request that is done.
Owned ==
  Lists(request_list, head, Owners(cbs), st) /\ Runs(req, pc, st) /\ InCb

\* t is s with x added, or with x taken out.
Adds(t, s, x) ==
  /\ Inj(s) /\ ~Has(s, x) => Inj(t)
  /\ \A y : Has(t, y) <=> (Has(s, y) \/ y = x)
Drops(t, s, x) ==
  Inj(s) => Inj(t) /\ \A y : Has(t, y) <=> (Has(s, y) /\ y # x)

\* One element more at the end.
LEMMA AppendAdds ==
  ASSUME NEW S, NEW s \in Seq(S), NEW x \in S PROVE Adds(Append(s, x), s, x)
<1> DEFINE t == Append(s, x)
<1>1. /\ t \in Seq(S) /\ Len(t) = Len(s) + 1 /\ Len(s) \in Nat
      /\ t[Len(s) + 1] = x /\ \A i \in 1 .. Len(s) : t[i] = s[i]
  BY AppendProperties, LenProperties
<1> HIDE DEF t
<1>2. \A i \in 1 .. Len(t) : i \in 1 .. Len(s) \/ i = Len(s) + 1 BY <1>1
<1>3. \A i \in 1 .. Len(s) : i \in 1 .. Len(t) BY <1>1
<1>4. Len(s) + 1 \in 1 .. Len(t) BY <1>1
<1>5. Inj(s) /\ ~Has(s, x) => Inj(t) BY <1>1, <1>2 DEF Inj, Has
<1>6. \A y : Has(t, y) <=> (Has(s, y) \/ y = x) BY <1>1, <1>2, <1>3, <1>4 DEF Has
<1>7. QED BY <1>5, <1>6 DEF Adds, t

\* One element more at the front.
LEMMA PushAdds ==
  ASSUME NEW S, NEW s \in Seq(S), NEW x \in S PROVE Adds(<<x>> \o s, s, x)
<1> DEFINE t == <<x>> \o s
<1>1. /\ t \in Seq(S) /\ Len(t) = 1 + Len(s) /\ Len(s) \in Nat
      /\ t[1] = x /\ \A i \in 2 .. Len(t) : t[i] = s[i - 1]
  <2>1. <<x>> \in Seq(S) /\ Len(<<x>>) = 1 /\ <<x>>[1] = x OBVIOUS
  <2>2. /\ t \in Seq(S) /\ Len(t) = 1 + Len(s)
        /\ \A i \in 1 .. 1 + Len(s) : t[i] = IF i <= 1 THEN <<x>>[i] ELSE s[i - 1]
    BY <2>1, ConcatProperties
  <2>3. Len(s) \in Nat BY LenProperties
  <2> HIDE DEF t
  <2>4. QED BY <2>1, <2>2, <2>3
<1> HIDE DEF t
<1>2. \A i \in 1 .. Len(t) : i = 1 \/ (i \in 2 .. Len(t) /\ i - 1 \in 1 .. Len(s)) BY <1>1
<1>3. \A i \in 1 .. Len(s) : i + 1 \in 1 .. Len(t) /\ t[i + 1] = s[i]
  <2> SUFFICES ASSUME NEW i \in 1 .. Len(s) PROVE i + 1 \in 1 .. Len(t) /\ t[i + 1] = s[i]
    OBVIOUS
  <2>1. i + 1 \in 1 .. Len(t) /\ i + 1 \in 2 .. Len(t) /\ (i + 1) - 1 = i BY <1>1
  <2>2. t[i + 1] = s[(i + 1) - 1] BY <1>1, <2>1
  <2>3. QED BY <2>1, <2>2
<1>4. 1 \in 1 .. Len(t) BY <1>1
<1>5. ASSUME Inj(s), ~Has(s, x) PROVE Inj(t)
  <2> SUFFICES ASSUME NEW i \in 1 .. Len(t), NEW j \in 1 .. Len(t), t[i] = t[j] PROVE i = j
    BY DEF Inj
  <2>1. CASE i = 1 /\ j = 1 BY <2>1
  <2>2. CASE i = 1 /\ j # 1 BY <1>1, <1>2, <1>5, <2>2 DEF Has
  <2>3. CASE i # 1 /\ j = 1 BY <1>1, <1>2, <1>5, <2>3 DEF Has
  <2>4. CASE i # 1 /\ j # 1
    <3>1. i - 1 = j - 1 BY <1>1, <1>2, <1>5, <2>4 DEF Inj
    <3>2. QED BY <3>1
  <2>5. QED BY <2>1, <2>2, <2>3, <2>4
<1>6. ASSUME NEW y PROVE Has(t, y) <=> (Has(s, y) \/ y = x)
  <2>1. Has(t, y) => Has(s, y) \/ y = x BY <1>1, <1>2 DEF Has
  <2>2. Has(s, y) \/ y = x => Has(t, y) BY <1>1, <1>3, <1>4 DEF Has
  <2>3. QED BY <2>1, <2>2
<1>7. QED BY <1>5, <1>6 DEF Adds, t

\* One element less.
LEMMA RemoveDrops ==
  ASSUME NEW S, NEW s \in Seq(S), NEW k \in 1 .. Len(s)
  PROVE  Drops(RemoveAt(s, k), s, s[k])
<1> DEFINE t == RemoveAt(s, k)
           f(i) == IF i < k THEN i ELSE i + 1
<1>1. /\ t \in Seq(S) /\ Len(t) = Len(s) - 1
      /\ \A j \in 1 .. k - 1 : t[j] = s[j]
      /\ \A j \in k .. Len(s) - 1 : t[j] = s[j + 1]
  BY RemoveAtIs
<1>2. Len(s) \in Nat BY LenProperties
<1> HIDE DEF t
<1>3. \A i \in 1 .. Len(t) : f(i) \in 1 .. Len(s) /\ f(i) # k /\ t[i] = s[f(i)]
  <2> SUFFICES ASSUME NEW i \in 1 .. Len(t)
               PROVE  f(i) \in 1 .. Len(s) /\ f(i) # k /\ t[i] = s[f(i)]
    OBVIOUS
  <2>1. CASE i < k
    <3>1. i \in 1 .. k - 1 /\ i \in 1 .. Len(s) /\ f(i) = i BY <1>1, <1>2, <2>1
    <3>2. QED BY <1>1, <2>1, <3>1
  <2>2. CASE ~(i < k)
    <3>1. i \in k .. Len(s) - 1 /\ f(i) = i + 1 /\ i + 1 \in 1 .. Len(s) /\ i + 1 # k
      BY <1>1, <1>2, <2>2
    <3>2. QED BY <1>1, <3>1
  <2>3. QED BY <2>1, <2>2
<1>4. \A i, j \in 1 .. Len(t) : f(i) = f(j) => i = j BY <1>1, <1>2
<1>5. \A i \in 1 .. Len(s) : i # k => \E j \in 1 .. Len(t) : t[j] = s[i]
  <2> SUFFICES ASSUME NEW i \in 1 .. Len(s), i # k PROVE \E j \in 1 .. Len(t) : t[j] = s[i]
    OBVIOUS
  <2>1. CASE i < k
    <3>1. i \in 1 .. k - 1 /\ i \in 1 .. Len(t) BY <1>1, <1>2, <2>1
    <3>2. QED BY <1>1, <3>1
  <2>2. CASE ~(i < k)
    <3>1. i - 1 \in k .. Len(s) - 1 /\ i - 1 \in 1 .. Len(t) /\ (i - 1) + 1 = i
      BY <1>1, <1>2, <2>2
    <3>2. t[i - 1] = s[(i - 1) + 1] BY <1>1, <3>1
    <3>3. QED BY <3>1, <3>2
  <2>3. QED BY <2>1, <2>2
<1> HIDE DEF f
<1>6. ASSUME Inj(s) PROVE Inj(t)
  <2> SUFFICES ASSUME NEW i \in 1 .. Len(t), NEW j \in 1 .. Len(t), t[i] = t[j] PROVE i = j
    BY DEF Inj
  <2>1. f(i) = f(j) BY <1>3, <1>6 DEF Inj
  <2>2. QED BY <1>4, <2>1
<1>7. ASSUME Inj(s), NEW y PROVE Has(t, y) <=> (Has(s, y) /\ y # s[k])
  <2>1. ASSUME Has(t, y) PROVE Has(s, y) /\ y # s[k]
    <3>1. PICK i \in 1 .. Len(t) : t[i] = y BY <2>1 DEF Has
    <3>2. f(i) \in 1 .. Len(s) /\ f(i) # k /\ y = s[f(i)] BY <1>3, <3>1
    <3>3. QED BY <1>7, <3>2 DEF Has, Inj
  <2>2. ASSUME Has(s, y), y # s[k] PROVE Has(t, y)
    <3>1. PICK i \in 1 .. Len(s) : s[i] = y BY <2>2 DEF Has
    <3>2. QED BY <1>5, <2>2, <3>1 DEF Has
  <2>3. QED BY <2>1, <2>2
<1>8. QED BY <1>6, <1>7 DEF Drops, t

\* The first element leaves.
LEMMA TailDrops ==
  ASSUME NEW S, NEW s \in Seq(S), s # <<>> PROVE Drops(Tail(s), s, Head(s))
<1>1. Len(s) \in Nat \ {0} /\ Head(s) = s[1] BY EmptySeq, LenProperties
<1> DEFINE t == Tail(s)
<1>2. /\ t \in Seq(S) /\ Len(t) = Len(s) - 1 /\ \A i \in 1 .. Len(t) : t[i] = s[i + 1]
  BY HeadTailProperties
<1> HIDE DEF t
<1>3. \A i \in 1 .. Len(t) : i + 1 \in 1 .. Len(s) /\ i + 1 # 1 BY <1>1, <1>2
<1>4. \A i \in 1 .. Len(s) : i # 1 => i - 1 \in 1 .. Len(t) /\ t[i - 1] = s[i]
  <2> SUFFICES ASSUME NEW i \in 1 .. Len(s), i # 1
               PROVE  i - 1 \in 1 .. Len(t) /\ t[i - 1] = s[i]
    OBVIOUS
  <2>1. i - 1 \in 1 .. Len(t) /\ (i - 1) + 1 = i BY <1>1, <1>2
  <2>2. t[i - 1] = s[(i - 1) + 1] BY <1>2, <2>1
  <2>3. QED BY <2>1, <2>2
<1>5. 1 \in 1 .. Len(s) BY <1>1
<1>6. ASSUME Inj(s) PROVE Inj(t)
  <2> SUFFICES ASSUME NEW i \in 1 .. Len(t), NEW j \in 1 .. Len(t), t[i] = t[j] PROVE i = j
    BY DEF Inj
  <2>1. i + 1 = j + 1 BY <1>2, <1>3, <1>6 DEF Inj
  <2>2. QED BY <2>1
<1>7. ASSUME Inj(s), NEW y PROVE Has(t, y) <=> (Has(s, y) /\ y # s[1])
  <2>1. ASSUME Has(t, y) PROVE Has(s, y) /\ y # s[1]
    <3>1. PICK i \in 1 .. Len(t) : t[i] = y BY <2>1 DEF Has
    <3>2. i + 1 \in 1 .. Len(s) /\ i + 1 # 1 /\ y = s[i + 1] BY <1>2, <1>3, <3>1
    <3>3. QED BY <1>5, <1>7, <3>2 DEF Has, Inj
  <2>2. ASSUME Has(s, y), y # s[1] PROVE Has(t, y)
    BY <1>4, <2>2 DEF Has
  <2>3. QED BY <2>1, <2>2
<1>8. QED BY <1>1, <1>6, <1>7 DEF Drops, t

\* The last element leaves.
LEMMA FrontDrops ==
  ASSUME NEW S, NEW s \in Seq(S), NEW t \in Seq(S), Len(s) > 0, Len(t) = Len(s) - 1,
         \A i \in 1 .. Len(t) : t[i] = s[i]
  PROVE  Drops(t, s, s[Len(s)])
<1>1. Len(s) \in Nat /\ Len(s) \in 1 .. Len(s) BY LenProperties
<1>2. \A i \in 1 .. Len(t) : i \in 1 .. Len(s) /\ i # Len(s) BY <1>1
<1>3. \A i \in 1 .. Len(s) : i # Len(s) => i \in 1 .. Len(t) BY <1>1
<1>4. Inj(s) => Inj(t) BY <1>2 DEF Inj
<1>5. ASSUME Inj(s), NEW y PROVE Has(t, y) <=> (Has(s, y) /\ y # s[Len(s)])
  <2>1. Has(t, y) => Has(s, y) /\ y # s[Len(s)] BY <1>1, <1>2, <1>5 DEF Has, Inj
  <2>2. Has(s, y) /\ y # s[Len(s)] => Has(t, y) BY <1>3 DEF Has
  <2>3. QED BY <2>1, <2>2
<1>6. QED BY <1>4, <1>5 DEF Drops

\* Which requests own a frame does not depend on what the frames wait for.
LEMMA OwnersType ==
  ASSUME NEW c \in Seq(Frame)
  PROVE  /\ Owners(c) \in Seq(Reqs) /\ Len(Owners(c)) = Len(c)
         /\ \A i \in 1 .. Len(c) : Owners(c)[i] = c[i].req
<1>1. Len(c) \in Nat /\ \A i \in 1 .. Len(c) : c[i].req \in Reqs
  <2>1. Len(c) \in Nat /\ \A i \in 1 .. Len(c) : c[i] \in Frame
    BY LenProperties, ElementOfSeq
  <2>2. \A f \in Frame : f.req \in Reqs BY DEF Frame
  <2>3. QED BY <2>1, <2>2
<1>2. Owners(c) \in [1 .. Len(c) -> Reqs] BY <1>1 DEF Owners
<1>3. QED BY <1>1, <1>2, IsASeq, LenProperties DEF Owners

\* Who is being called back depends on the requests of the frames only.
LEMMA SameOwners ==
  ASSUME NEW c \in Seq(Frame), NEW d \in Seq(Frame), Len(d) = Len(c),
         \A i \in 1 .. Len(c) : d[i].req = c[i].req
  PROVE  Owners(d) = Owners(c)
BY DEF Owners

\* A new pool owns no request.
LEMMA InitOwned == Init => Owned
<1> SUFFICES ASSUME Init PROVE Owned OBVIOUS
<1>1. request_list = <<>> /\ head = <<>> /\ cbs = <<>> /\ mode = "loop" BY DEF Init
<1>2. Owners(cbs) = <<>> BY <1>1 DEF Owners
<1>3. \A r : ~Has(<<>>, r) BY DEF Has
<1>4. Inj(<<>>) BY DEF Inj
<1>5. \A r \in Reqs : st[r] = "free" BY DEF Init
<1>6. Lists(request_list, head, Owners(cbs), st)
  BY <1>1, <1>2, <1>3, <1>4, <1>5 DEF Lists
<1>7. Runs(req, pc, st) BY <1>5, PoolAssumption DEF Init, Runs
<1>8. QED BY <1>1, <1>6, <1>7 DEF Owned, InCb

\* A step that leaves the requests, their lists and those who run them alone.
LEMMA KeepOwned ==
  ASSUME Owned, UNCHANGED <<request_list, head, st, req>>,
         Owners(cbs') = Owners(cbs),
         \A v \in Workers : pc'[v] = "run" <=> pc[v] = "run",
         mode' = "cb" => cbs' # <<>>
  PROVE  Owned'
<1>1. Lists(request_list', head', Owners(cbs'), st') BY DEF Owned
<1>2. Runs(req', pc', st') BY DEF Owned, Runs
<1>3. InCb' BY DEF InCb
<1>4. QED BY <1>1, <1>2, <1>3 DEF Owned

\* A step that changes one request, r, which no worker runs.
LEMMA KeepRuns ==
  ASSUME Owned, UNCHANGED <<req, pc>>, NEW r \in Reqs, st[r] # "ACTIVE",
         st' = st \/ (st \in [Reqs -> ReqState] /\ \E x \in ReqState \ {"ACTIVE"} :
                        st' = [st EXCEPT ![r] = x])
  PROVE  Runs(req', pc', st')
<1>1. \A q \in Reqs : st'[q] = "ACTIVE" <=> st[q] = "ACTIVE" OBVIOUS
<1>2. QED BY <1>1 DEF Owned, Runs

\* The calls into the pool.
LEMMA SubmitOwned ==
  ASSUME IndInv, Owned, NEW r \in Reqs, NEW cb, thread_pool_submit_aio(r, cb)
  PROVE  Owned'
<1>0. /\ request_list \in Seq(Reqs) /\ head \in Seq(Reqs) /\ st \in [Reqs -> ReqState]
      /\ st[r] = "free"
  BY DEF IndInv, Shape, thread_pool_submit_aio
<1>1. Adds(request_list', request_list, r) BY <1>0, AppendAdds DEF thread_pool_submit_aio
<1>2. Adds(head', head, r) BY <1>0, PushAdds DEF thread_pool_submit_aio
<1>3. /\ st' = [st EXCEPT ![r] = "QUEUED"] /\ cbs' = cbs /\ mode' = mode
      /\ UNCHANGED <<req, pc>>
  BY DEF thread_pool_submit_aio, workerVars
<1>4. /\ \A q \in Reqs : st'[q] = IF q = r THEN "QUEUED" ELSE st[q] BY <1>0, <1>3
<1>5. Lists(request_list, head, Owners(cbs), st) BY DEF Owned
<1>6. ~Has(request_list, r) /\ ~Has(head, r) /\ ~Has(Owners(cbs), r) BY <1>0, <1>5 DEF Lists
<1>7. Lists(request_list', head', Owners(cbs'), st')
  BY <1>1, <1>2, <1>3, <1>4, <1>5, <1>6 DEF Lists, Adds
<1>8. Runs(req', pc', st') BY <1>0, <1>3, KeepRuns DEF ReqState
<1>9. QED BY <1>3, <1>7, <1>8 DEF Owned, InCb

\* thread_pool_cancel takes a request out of the queue and leaves it to the completion walk.
LEMMA CancelOwned ==
  ASSUME IndInv, Owned, NEW r \in Reqs, thread_pool_cancel(r)
  PROVE  Owned'
<1>0. /\ request_list \in Seq(Reqs) /\ st \in [Reqs -> ReqState] /\ st[r] = "QUEUED"
  BY DEF IndInv, Shape, thread_pool_cancel
<1>1. PICK i \in DOMAIN request_list : /\ request_list[i] = r
                                       /\ request_list' = RemoveAt(request_list, i)
  BY DEF thread_pool_cancel
<1>2. i \in 1 .. Len(request_list) BY <1>0, LenProperties
<1>3. Drops(request_list', request_list, r) BY <1>0, <1>1, <1>2, RemoveDrops
<1>4. /\ st' = [st EXCEPT ![r] = "DONE"] /\ UNCHANGED <<cbs, mode, head, req, pc>>
  BY DEF thread_pool_cancel, mainVars, workerVars
<1>5. \A q \in Reqs : st'[q] = IF q = r THEN "DONE" ELSE st[q] BY <1>0, <1>4
<1>6. Lists(request_list, head, Owners(cbs), st) BY DEF Owned
<1>7. Lists(request_list', head', Owners(cbs'), st')
  BY <1>0, <1>3, <1>4, <1>5, <1>6 DEF Lists, Drops
<1>8. Runs(req', pc', st') BY <1>0, <1>4, KeepRuns DEF ReqState
<1>9. QED BY <1>4, <1>7, <1>8 DEF Owned, InCb

\* The walk of the completion bottom half takes a finished request.
LEMMA NoCbOwned == ASSUME IndInv, Owned, CompletionNoCb PROVE Owned'
<1> DEFINE r == head[cursor]
<1>0. /\ head \in Seq(Reqs) /\ st \in [Reqs -> ReqState] /\ cursor \in 1 .. Len(head)
      /\ st[r] = "DONE"
  BY DEF IndInv, Shape, CompletionNoCb, Walking
<1>1. r \in Reqs /\ Has(head, r) BY <1>0, ElementOfSeq DEF Has
<1>2. Drops(head', head, r) BY <1>0, RemoveDrops DEF CompletionNoCb
<1>3. /\ st' = [st EXCEPT ![r] = "free"] /\ UNCHANGED <<cbs, mode, request_list, req, pc>>
  BY DEF CompletionNoCb, mainVars, workerVars, lockVars
<1> HIDE DEF r
<1>4. \A q \in Reqs : st'[q] = IF q = r THEN "free" ELSE st[q] BY <1>0, <1>3
<1>5. Lists(request_list, head, Owners(cbs), st) BY DEF Owned
<1>6. Lists(request_list', head', Owners(cbs'), st')
  BY <1>0, <1>1, <1>2, <1>3, <1>4, <1>5 DEF Lists, Drops
<1>7. Runs(req', pc', st') BY <1>0, <1>1, <1>3, KeepRuns DEF ReqState
<1>8. QED BY <1>3, <1>6, <1>7 DEF Owned, InCb

\* A request leaves the list and its completion callback begins.
LEMMA CbOwned == ASSUME IndInv, Owned, CompletionCb PROVE Owned'
<1> DEFINE r == head[cursor]
           n == Notified(r)
           f == [req |-> r, awaited |-> NoReq]
<1>0. /\ head \in Seq(Reqs) /\ st \in [Reqs -> ReqState] /\ cursor \in 1 .. Len(head)
      /\ st[r] = "DONE" /\ cbs \in Seq(Frame)
  BY DEF IndInv, Shape, CompletionCb, Walking
<1>1. r \in Reqs /\ Has(head, r) BY <1>0, ElementOfSeq DEF Has
<1>2. Drops(head', head, r) BY <1>0, RemoveDrops DEF CompletionCb
<1>3. /\ UNCHANGED <<st, request_list, req, pc>> /\ cbs' = Append(n, f)
  BY DEF CompletionCb, workerVars, lockVars
<1>4. /\ n \in Seq(Frame) /\ Len(n) = Len(cbs)
      /\ \A i \in 1 .. Len(cbs) : n[i].req = cbs[i].req
  <2>1. DOMAIN cbs = 1 .. Len(cbs) /\ Len(cbs) \in Nat /\ \A i \in 1 .. Len(cbs) : cbs[i] \in Frame
    BY <1>0, LenProperties, ElementOfSeq
  <2>2. \A g \in Frame : /\ [g EXCEPT !.awaited = NoReq] \in Frame
                         /\ [g EXCEPT !.awaited = NoReq].req = g.req
    BY DEF Frame
  <2>3. \A i \in 1 .. Len(cbs) : n[i] \in Frame /\ n[i].req = cbs[i].req
    BY <2>1, <2>2 DEF Notified
  <2>4. n \in [1 .. Len(cbs) -> Frame] BY <2>1, <2>3 DEF Notified
  <2>5. QED BY <2>1, <2>3, <2>4, IsASeq, LenProperties
<1>5. f \in Frame /\ f.req = r BY <1>1 DEF Frame
<1> HIDE DEF n, f, r
<1>6. Owners(cbs') = Append(Owners(cbs), r) /\ cbs' # <<>>
  <2>1. /\ cbs' \in Seq(Frame) /\ Len(cbs') = Len(cbs) + 1 /\ cbs'[Len(cbs) + 1] = f
        /\ \A i \in 1 .. Len(cbs) : cbs'[i] = n[i]
    BY <1>3, <1>4, <1>5, AppendProperties
  <2>2. /\ Owners(cbs) \in Seq(Reqs) /\ Len(Owners(cbs)) = Len(cbs) /\ Len(cbs) \in Nat
        /\ \A i \in 1 .. Len(cbs) : Owners(cbs)[i] = cbs[i].req
    BY <1>0, OwnersType, LenProperties
  <2>3. /\ Owners(cbs') \in Seq(Reqs) /\ Len(Owners(cbs')) = Len(cbs) + 1
        /\ \A i \in 1 .. Len(cbs) + 1 : Owners(cbs')[i] = cbs'[i].req
    BY <2>1, OwnersType
  <2> DEFINE a == Append(Owners(cbs), r)
  <2>4. /\ a \in Seq(Reqs) /\ Len(a) = Len(cbs) + 1 /\ a[Len(cbs) + 1] = r
        /\ \A i \in 1 .. Len(cbs) : a[i] = Owners(cbs)[i]
    BY <1>1, <2>2, AppendProperties
  <2> HIDE DEF a
  <2>5. \A i \in 1 .. Len(cbs) + 1 : i \in 1 .. Len(cbs) \/ i = Len(cbs) + 1 BY <2>2
  <2>6. \A i \in 1 .. Len(cbs) + 1 : Owners(cbs')[i] = a[i]
    BY <1>4, <1>5, <2>1, <2>2, <2>3, <2>4, <2>5
  <2>7. Owners(cbs') = a BY <2>3, <2>4, <2>6, SeqEqual
  <2>8. cbs' # <<>> BY <2>1, <2>2, EmptySeq
  <2>9. QED BY <2>7, <2>8 DEF a
<1>7. Owners(cbs) \in Seq(Reqs) BY <1>0, OwnersType
<1>8. Adds(Owners(cbs'), Owners(cbs), r) BY <1>1, <1>6, <1>7, AppendAdds
<1>9. Lists(request_list, head, Owners(cbs), st) BY DEF Owned
<1>10. Lists(request_list', head', Owners(cbs'), st')
  BY <1>0, <1>1, <1>2, <1>3, <1>8, <1>9 DEF Lists, Drops, Adds
<1>11. Runs(req', pc', st') BY <1>3 DEF Owned
<1>12. QED BY <1>6, <1>10, <1>11 DEF Owned, InCb

\* A callback returns and its request is freed.
LEMMA ReturnOwned == ASSUME IndInv, Owned, CallbackReturn PROVE Owned'
<1> DEFINE r == cbs[Len(cbs)].req
<1>0. /\ st \in [Reqs -> ReqState] /\ cbs \in Seq(Frame) /\ cbs # <<>>
  BY DEF IndInv, Shape, CallbackReturn, Owned, InCb
<1>1. Len(cbs) \in Nat \ {0} BY <1>0, EmptySeq, LenProperties
<1>2. /\ Owners(cbs) \in Seq(Reqs) /\ Len(Owners(cbs)) = Len(cbs)
      /\ \A i \in 1 .. Len(cbs) : Owners(cbs)[i] = cbs[i].req
  BY <1>0, OwnersType
<1>3. r = Owners(cbs)[Len(cbs)] /\ Len(cbs) \in 1 .. Len(cbs) BY <1>1, <1>2
<1>4. r \in Reqs /\ Has(Owners(cbs), r) BY <1>2, <1>3, ElementOfSeq DEF Has
<1>5. /\ cbs' \in Seq(Frame) /\ Len(cbs') = Len(cbs) - 1
      /\ \A i \in 1 .. Len(cbs) - 1 : cbs'[i] = cbs[i]
  <2> DEFINE k == Len(cbs) - 1
  <2>1. cbs' = SubSeq(cbs, 1, k) BY DEF CallbackReturn
  <2>2. k \in Nat /\ k <= Len(cbs) BY <1>1
  <2> HIDE DEF k
  <2>3. SubSeq(cbs, 1, k) \in Seq(Frame) /\ Len(SubSeq(cbs, 1, k)) = k
    BY <1>0, <1>1, <2>2
  <2>4. \A i \in 1 .. k : SubSeq(cbs, 1, k)[i] = cbs[i] BY <1>0, <1>1, <2>2
  <2>5. QED BY <2>1, <2>3, <2>4 DEF k
<1>6. /\ Owners(cbs') \in Seq(Reqs) /\ Len(Owners(cbs')) = Len(cbs')
      /\ \A i \in 1 .. Len(cbs') : Owners(cbs')[i] = cbs'[i].req
  BY <1>5, OwnersType
<1>7. Drops(Owners(cbs'), Owners(cbs), r)
  <2>1. \A i \in 1 .. Len(cbs') : i \in 1 .. Len(cbs) /\ i \in 1 .. Len(cbs) - 1
    BY <1>1, <1>5
  <2>2. \A i \in 1 .. Len(Owners(cbs')) : Owners(cbs')[i] = Owners(cbs)[i]
    BY <1>2, <1>5, <1>6, <2>1
  <2>3. Len(Owners(cbs)) > 0 /\ Len(Owners(cbs')) = Len(Owners(cbs)) - 1
    BY <1>1, <1>2, <1>5, <1>6
  <2>4. QED BY <1>2, <1>3, <1>6, <2>2, <2>3, FrontDrops
<1>8. /\ st' = [st EXCEPT ![r] = "free"] /\ mode' = "walk"
      /\ UNCHANGED <<head, request_list, req, pc>>
  BY DEF CallbackReturn, workerVars, lockVars
<1> HIDE DEF r
<1>9. \A q \in Reqs : st'[q] = IF q = r THEN "free" ELSE st[q] BY <1>0, <1>8
<1>10. Lists(request_list, head, Owners(cbs), st) BY DEF Owned
<1>11. st[r] = "DONE" BY <1>4, <1>10 DEF Lists
<1>12. Lists(request_list', head', Owners(cbs'), st')
  BY <1>4, <1>7, <1>8, <1>9, <1>10, <1>11 DEF Lists, Drops
<1>13. Runs(req', pc', st') BY <1>0, <1>4, <1>8, <1>11, KeepRuns DEF ReqState
<1>14. QED BY <1>8, <1>12, <1>13 DEF Owned, InCb

\* Waiting for another request does not change whose callback it is.
LEMMA WaitOwned ==
  ASSUME IndInv, Owned, NEW r \in Reqs, CallbackWait(r) PROVE Owned'
<1>0. cbs \in Seq(Frame) /\ cbs # <<>> /\ cbs' \in Seq(Frame)
  <2>1. cbs \in Seq(Frame) /\ cbs # <<>>
    BY DEF IndInv, Shape, CallbackWait, Owned, InCb
  <2>2. IndInv' BY CompletionSteps
  <2>3. QED BY <2>1, <2>2 DEF IndInv, Shape
<1>1. Len(cbs) \in 1 .. Len(cbs) /\ DOMAIN cbs = 1 .. Len(cbs) /\ Len(cbs) \in Nat
  BY <1>0, EmptySeq, LenProperties
<1>2. cbs' = [cbs EXCEPT ![Len(cbs)] = [cbs[Len(cbs)] EXCEPT !.awaited = r]]
  BY DEF CallbackWait
<1>3. [cbs[Len(cbs)] EXCEPT !.awaited = r].req = cbs[Len(cbs)].req
  <2>1. cbs[Len(cbs)] \in Frame BY <1>0, <1>1, ElementOfSeq
  <2>2. QED BY <2>1 DEF Frame
<1>4. \A i \in 1 .. Len(cbs) : cbs'[i].req = cbs[i].req BY <1>1, <1>2, <1>3
<1>5. Len(cbs') = Len(cbs) BY <1>0, <1>1, <1>2, LenProperties
<1>6. Owners(cbs') = Owners(cbs) BY <1>0, <1>4, <1>5, SameOwners
<1>7. /\ UNCHANGED <<request_list, head, st, req, pc>> /\ mode' = "loop"
  BY DEF CallbackWait, lockVars, elemVars, workerVars
<1>8. QED BY <1>6, <1>7, KeepOwned

\* A worker takes the first request, or leaves.
LEMMA GotOwned ==
  ASSUME IndInv, Owned, NEW w \in Workers, WorkerGot(w) PROVE Owned'
<1>0. /\ request_list \in Seq(Reqs) /\ st \in [Reqs -> ReqState]
      /\ pc \in [Workers -> WorkerState] /\ req \in [Workers -> Reqs \cup {NoReq}]
      /\ pc[w] = "got" /\ UNCHANGED <<head, cbs, mode>>
  BY DEF IndInv, Shape, WorkerGot
<1>1. CASE stopping
  <2>1. UNCHANGED <<request_list, st, req>> /\ pc' = [pc EXCEPT ![w] = "none"]
    BY <1>1 DEF WorkerGot
  <2>2. \A v \in Workers : pc'[v] = "run" <=> pc[v] = "run" BY <1>0, <2>1
  <2>3. QED BY <1>0, <2>1, <2>2, KeepOwned DEF Owned, InCb
<1>2. CASE ~stopping
  <2> DEFINE r == Head(request_list)
  <2>1. /\ pc' = [pc EXCEPT ![w] = "run"] /\ req' = [req EXCEPT ![w] = r]
        /\ request_list' = Tail(request_list) /\ st' = [st EXCEPT ![r] = "ACTIVE"]
    BY <1>2 DEF WorkerGot
  <2>2. request_list # <<>> BY <1>0, <1>2, GotHasRequest
  <2>3. r \in Reqs /\ Has(request_list, r)
    <3>1. 1 \in 1 .. Len(request_list) /\ r = request_list[1]
      BY <1>0, <2>2, EmptySeq, LenProperties
    <3>2. QED BY <1>0, <3>1, ElementOfSeq DEF Has
  <2>4. Drops(request_list', request_list, r) BY <1>0, <2>1, <2>2, TailDrops
  <2> HIDE DEF r
  <2>5. \A q \in Reqs : st'[q] = IF q = r THEN "ACTIVE" ELSE st[q] BY <1>0, <2>1
  <2>6. Lists(request_list, head, Owners(cbs), st) /\ Runs(req, pc, st) BY DEF Owned
  <2>7. st[r] = "QUEUED" BY <2>3, <2>6 DEF Lists
  <2>8. Lists(request_list', head', Owners(cbs'), st')
    BY <1>0, <2>3, <2>4, <2>5, <2>6, <2>7 DEF Lists, Drops
  <2>9. Runs(req', pc', st')
    <3>1. /\ \A v \in Workers : req'[v] = IF v = w THEN r ELSE req[v]
          /\ \A v \in Workers : pc'[v] = IF v = w THEN "run" ELSE pc[v]
      BY <1>0, <2>1
    <3>2. req[w] = NoReq /\ r # NoReq /\ \A v \in Workers : req[v] # r
      BY <1>0, <2>3, <2>6, <2>7, PoolAssumption DEF Runs
    <3>3. \A q \in Reqs : st'[q] = "ACTIVE" <=> \E v \in Workers : req'[v] = q
      <4> SUFFICES ASSUME NEW q \in Reqs
                   PROVE  st'[q] = "ACTIVE" <=> \E v \in Workers : req'[v] = q
        OBVIOUS
      <4>1. CASE q = r BY <2>5, <3>1, <4>1
      <4>2. CASE q # r
        <5>1. q # NoReq BY PoolAssumption
        <5>2. \A v \in Workers : req'[v] = q <=> req[v] = q BY <3>1, <3>2, <4>2, <5>1
        <5>3. QED BY <2>5, <2>6, <4>2, <5>2 DEF Runs
      <4>3. QED BY <4>1, <4>2
    <3>4. \A u, v \in Workers : req'[u] = req'[v] /\ req'[u] # NoReq => u = v
      BY <2>6, <3>1, <3>2 DEF Runs
    <3>5. \A v \in Workers : pc'[v] = "run" <=> req'[v] # NoReq
      BY <2>6, <3>1, <3>2 DEF Runs
    <3>6. QED BY <3>3, <3>4, <3>5 DEF Runs
  <2>10. QED BY <1>0, <2>8, <2>9 DEF Owned, InCb
<1>3. QED BY <1>0, <1>1, <1>2

\* A worker's function returns: the request is done and no worker runs it.
LEMMA DoneOwned ==
  ASSUME IndInv, Owned, NEW w \in Workers, WorkerDone(w) PROVE Owned'
<1> DEFINE r == req[w]
<1>0. /\ st \in [Reqs -> ReqState]
      /\ pc \in [Workers -> WorkerState] /\ req \in [Workers -> Reqs \cup {NoReq}]
      /\ pc[w] = "run" /\ UNCHANGED <<request_list, head, cbs, mode>>
  BY DEF IndInv, Shape, WorkerDone, lockVars, mainVars
<1>1. /\ pc' = [pc EXCEPT ![w] = "done"] /\ req' = [req EXCEPT ![w] = NoReq]
      /\ st' = [st EXCEPT ![r] = "DONE"]
  BY DEF WorkerDone
<1>2. Lists(request_list, head, Owners(cbs), st) /\ Runs(req, pc, st) BY DEF Owned
<1>3. r \in Reqs /\ st[r] = "ACTIVE" /\ r # NoReq BY <1>0, <1>2 DEF Runs
<1>4. r = req[w] OBVIOUS
<1> HIDE DEF r
<1>5. \A q \in Reqs : st'[q] = IF q = r THEN "DONE" ELSE st[q] BY <1>0, <1>1
<1>6. Lists(request_list', head', Owners(cbs'), st')
  BY <1>0, <1>2, <1>3, <1>5 DEF Lists
<1>7. Runs(req', pc', st')
  <2>1. /\ \A v \in Workers : req'[v] = IF v = w THEN NoReq ELSE req[v]
        /\ \A v \in Workers : pc'[v] = IF v = w THEN "done" ELSE pc[v]
    BY <1>0, <1>1
  <2>2. \A v \in Workers : req[v] = r => v = w BY <1>2, <1>3, <1>4 DEF Runs
  <2>3. \A q \in Reqs : st'[q] = "ACTIVE" <=> \E v \in Workers : req'[v] = q
    <3> SUFFICES ASSUME NEW q \in Reqs
                 PROVE  st'[q] = "ACTIVE" <=> \E v \in Workers : req'[v] = q
      OBVIOUS
    <3>1. q # NoReq BY PoolAssumption
    <3>2. CASE q = r BY <1>5, <2>1, <2>2, <3>1, <3>2
    <3>3. CASE q # r
      <4>1. \A v \in Workers : req'[v] = q <=> req[v] = q BY <1>4, <2>1, <3>1, <3>3
      <4>2. QED BY <1>2, <1>5, <3>3, <4>1 DEF Runs
    <3>4. QED BY <3>2, <3>3
  <2>4. \A u, v \in Workers : req'[u] = req'[v] /\ req'[u] # NoReq => u = v
    BY <1>2, <2>1 DEF Runs
  <2>5. \A v \in Workers : pc'[v] = "run" <=> req'[v] # NoReq BY <1>2, <2>1 DEF Runs
  <2>6. QED BY <2>3, <2>4, <2>5 DEF Runs
<1>8. QED BY <1>0, <1>6, <1>7 DEF Owned, InCb

\* The creation of threads starts none in a request.
LEMMA SpawnKeepsRun ==
  ASSUME NEW pending, NEW threads \in [Workers -> WorkerState],
         do_spawn_thread(pending, threads)
  PROVE  \A v \in Workers : pc'[v] = "run" <=> threads[v] = "run"
<1>1. CASE pc' = threads BY <1>1
<1>2. ASSUME NEW t \in Workers, threads[t] = "none", pc' = [threads EXCEPT ![t] = "pending"]
      PROVE  \A v \in Workers : pc'[v] = "run" <=> threads[v] = "run"
  BY <1>2
<1>3. QED BY <1>1, <1>2 DEF do_spawn_thread

\* The other steps of workers.
LEMMA OtherWorkerOwned ==
  ASSUME IndInv, Owned, NEW w \in Workers,
         \/ WorkerStart(w) \/ WorkerAcquire(w) \/ WorkerTimeout(w)
         \/ WorkerTimedout(w) \/ WorkerComplete(w)
  PROVE  Owned'
<1> USE DEF lockVars, bhVars, elemVars, mainVars, workerVars
<1>0. pc \in [Workers -> WorkerState] BY DEF IndInv, Shape
<1>1. UNCHANGED <<request_list, head, st, req, cbs, mode>>
  BY DEF WorkerStart, WorkerAcquire, WorkerTimeout, WorkerTimedout, WorkerComplete
<1>2. LoopState \in {"none", "waiting"} BY DEF LoopState
<1>3. \A v \in Workers : pc'[v] = "run" <=> pc[v] = "run"
  <2>1. CASE WorkerStart(w)
    <3> DEFINE threads == [pc EXCEPT ![w] = LoopState]
    <3>1. threads \in [Workers -> WorkerState] BY <1>0, <1>2 DEF WorkerState
    <3>2. \A v \in Workers : threads[v] = "run" <=> pc[v] = "run"
      BY <1>0, <1>2, <2>1 DEF WorkerStart
    <3>3. do_spawn_thread(pending_threads - 1, threads) BY <2>1 DEF WorkerStart
    <3> HIDE DEF threads
    <3>4. QED BY <3>1, <3>2, <3>3, SpawnKeepsRun
  <2>2. CASE WorkerAcquire(w) \/ WorkerTimeout(w)
    BY <1>0, <2>2 DEF WorkerAcquire, WorkerTimeout
  <2>3. CASE WorkerTimedout(w)
    <3>1. pc[w] = "timedout" /\ \E x \in {"none", "waiting"} : pc' = [pc EXCEPT ![w] = x]
      BY <2>3 DEF WorkerTimedout
    <3>2. QED BY <1>0, <3>1
  <2>4. CASE WorkerComplete(w) BY <1>0, <1>2, <2>4 DEF WorkerComplete
  <2>5. QED BY <2>1, <2>2, <2>3, <2>4
<1>4. QED BY <1>1, <1>3, KeepOwned DEF Owned, InCb

\* The other steps of the home thread.
LEMMA OtherHomeOwned ==
  ASSUME IndInv, Owned,
         \/ SubmitPost \/ spawn_thread_bh_fn \/ CompletionStart \/ CompletionSkip
         \/ CallbackWaitOver \/ CompletionEnd \/ FreeWake \/ thread_pool_free
         \/ UNCHANGED vars
  PROVE  Owned'
<1> USE DEF lockVars, bhVars, elemVars, mainVars, workerVars
<1>1. UNCHANGED <<request_list, head, st, req, cbs>>
  BY DEF SubmitPost, spawn_thread_bh_fn, CompletionStart, CompletionSkip,
         CallbackWaitOver, CompletionEnd, FreeWake, thread_pool_free, vars
<1>2. mode' = "cb" => cbs # <<>>
  BY DEF SubmitPost, spawn_thread_bh_fn, CompletionStart, CompletionSkip,
         CallbackWaitOver, CompletionEnd, FreeWake, thread_pool_free, vars, Owned, InCb
<1>3. \A v \in Workers : pc'[v] = "run" <=> pc[v] = "run"
  <2>1. CASE spawn_thread_bh_fn
    <3>1. pc \in [Workers -> WorkerState] BY DEF IndInv, Shape
    <3>2. QED BY <2>1, <3>1, SpawnKeepsRun DEF spawn_thread_bh_fn
  <2>2. CASE ~spawn_thread_bh_fn
    <3>1. UNCHANGED pc
      BY <2>2 DEF SubmitPost, CompletionStart, CompletionSkip,
                  CallbackWaitOver, CompletionEnd, FreeWake, thread_pool_free, vars
    <3>2. QED BY <3>1
  <2>3. QED BY <2>1, <2>2
<1>4. QED BY <1>1, <1>2, <1>3, KeepOwned

\* Every step keeps the ownership.
LEMMA NextOwned == IndInv /\ Owned /\ [Next]_vars => Owned'
<1> SUFFICES ASSUME IndInv, Owned, [Next]_vars PROVE Owned' OBVIOUS
<1>1. CASE HomeStep BY <1>1, OtherHomeOwned, NoCbOwned, CbOwned DEF HomeStep
<1>2. ASSUME NEW r \in Reqs, NEW cb \in BOOLEAN, thread_pool_submit_aio(r, cb)
      PROVE  Owned'
  BY <1>2, SubmitOwned
<1>3. ASSUME NEW r \in Reqs, thread_pool_cancel(r) \/ CallbackWait(r) PROVE Owned'
  BY <1>3, CancelOwned, WaitOwned
<1>4. CASE CallbackReturn \/ thread_pool_free BY <1>4, ReturnOwned, OtherHomeOwned
<1>5. ASSUME NEW w \in Workers, WorkerStep(w) PROVE Owned'
  BY <1>5, GotOwned, DoneOwned, OtherWorkerOwned DEF WorkerStep
<1>6. CASE Terminated \/ UNCHANGED vars BY <1>6, OtherHomeOwned DEF Terminated
<1>7. QED BY <1>1, <1>2, <1>3, <1>4, <1>5, <1>6 DEF Next

\* What the run checks, in terms of the lists.
LEMMA OwnedIs == IndInv /\ Owned => Ownership
<1> SUFFICES ASSUME IndInv, Owned PROVE Ownership OBVIOUS
<1>0. /\ request_list \in Seq(Reqs) /\ head \in Seq(Reqs) /\ cbs \in Seq(Frame)
      /\ Lists(request_list, head, Owners(cbs), st) /\ Runs(req, pc, st)
  BY DEF IndInv, Shape, Owned
<1>1. ASSUME NEW s \in Seq(Reqs)
      PROVE  ToSet(s) \subseteq Reqs /\ \A r : r \in ToSet(s) <=> Has(s, r)
  <2>1. DOMAIN s = 1 .. Len(s) /\ \A i \in 1 .. Len(s) : s[i] \in Reqs
    BY LenProperties, ElementOfSeq
  <2>2. QED BY <2>1 DEF ToSet, Has
<1>2. ToSet(request_list) = {r \in Reqs : st[r] = "QUEUED"} BY <1>0, <1>1 DEF Lists
<1>3. \A i, j \in DOMAIN request_list : request_list[i] = request_list[j] => i = j
  BY <1>0, LenProperties DEF Lists, Inj
<1>4. {cbs[i].req : i \in DOMAIN cbs} = {r \in Reqs : Has(Owners(cbs), r)}
  <2>1. /\ DOMAIN cbs = 1 .. Len(cbs) /\ Owners(cbs) \in Seq(Reqs)
        /\ Len(Owners(cbs)) = Len(cbs)
        /\ \A i \in 1 .. Len(cbs) : Owners(cbs)[i] = cbs[i].req
    BY <1>0, OwnersType, LenProperties
  <2>2. \A i \in 1 .. Len(cbs) : Owners(cbs)[i] \in Reqs BY <2>1, ElementOfSeq
  <2>3. QED BY <2>1, <2>2 DEF Has
<1>5. ToSet(head) \cup {cbs[i].req : i \in DOMAIN cbs} = {r \in Reqs : st[r] # "free"}
  <2>1. ToSet(head) = {r \in Reqs : Has(head, r)} BY <1>0, <1>1
  <2>2. \A r \in Reqs : Has(head, r) \/ Has(Owners(cbs), r) <=> st[r] # "free"
    BY <1>0 DEF Lists
  <2>3. QED BY <1>4, <2>1, <2>2
<1>6. QED BY <1>0, <1>2, <1>3, <1>5 DEF Ownership, Runs

\* A request is on the lists its state says, run by one worker at most, and its
\* memory is not freed while a list, a worker or a callback refers to it
\* (thread-pool.c:99-115, 163-196 and 256-262), for any number of requests and
\* threads.
THEOREM RequestsOwned == Spec => []Ownership
<1>1. Init => Owned BY InitOwned
<1>2. IndInv /\ Owned /\ [Next]_vars => Owned' BY NextOwned
<1>3. IndInv /\ Owned => Ownership BY OwnedIs
<1>4. QED BY <1>1, <1>2, <1>3, Bookkeeping, PTL DEF Spec

-----------------------------------------------------------------------------
(* The pool implements AsyncWork.                                          *)

LifeVars == <<Life, request_list, hasCb>>

\* Where a request is, in terms of the list.
LEMMA LifeIs ==
  ASSUME head \in Seq(Reqs)
  PROVE  \A q \in Reqs : Life[q] = IF st[q] = "DONE" /\ ~Has(head, q) THEN "CALLBACK"
                                                                      ELSE st[q]
<1>1. DOMAIN head = 1 .. Len(head) BY LenProperties
<1>2. \A q : q \in ToSet(head) <=> Has(head, q) BY <1>1 DEF ToSet, Has
<1>3. QED BY <1>2 DEF Life

\* One request is somewhere else.
LEMMA LifeMoves ==
  ASSUME head \in Seq(Reqs), head' \in Seq(Reqs), NEW r \in Reqs, NEW x,
         \A q \in Reqs : q # r => st'[q] = st[q] /\ (Has(head', q) <=> Has(head, q)),
         x = IF st'[r] = "DONE" /\ ~Has(head', r) THEN "CALLBACK" ELSE st'[r]
  PROVE  Life' = [Life EXCEPT ![r] = x]
<1> DEFINE L(s, h) == [q \in Reqs |-> IF s[q] = "DONE" /\ ~Has(h, q) THEN "CALLBACK"
                                                                     ELSE s[q]]
<1>1. ASSUME NEW h \in Seq(Reqs) PROVE \A q : q \in ToSet(h) <=> Has(h, q)
  <2>1. DOMAIN h = 1 .. Len(h) BY LenProperties
  <2>2. QED BY <2>1 DEF ToSet, Has
<1>2. Life = L(st, head) BY <1>1 DEF Life
<1>3. Life' = L(st', head') BY <1>1 DEF Life
<1>4. L(st', head') = [L(st, head) EXCEPT ![r] = x] OBVIOUS
<1>5. QED BY <1>2, <1>3, <1>4

\* thread_pool_submit_aio submits.
LEMMA SubmitRefines ==
  ASSUME IndInv, Owned, IndInv', NEW r \in Reqs, NEW cb \in BOOLEAN,
         thread_pool_submit_aio(r, cb)
  PROVE  Abstract!Next
<1>0. /\ head \in Seq(Reqs) /\ head' \in Seq(Reqs) /\ st \in [Reqs -> ReqState]
      /\ st[r] = "free"
  BY DEF IndInv, Shape, thread_pool_submit_aio
<1>1. Adds(head', head, r) BY <1>0, PushAdds DEF thread_pool_submit_aio
<1>2. /\ st' = [st EXCEPT ![r] = "QUEUED"] /\ hasCb' = [hasCb EXCEPT ![r] = cb]
      /\ request_list' = Append(request_list, r)
  BY DEF thread_pool_submit_aio
<1>3. \A q \in Reqs : st'[q] = IF q = r THEN "QUEUED" ELSE st[q] BY <1>0, <1>2
<1>4. Life' = [Life EXCEPT ![r] = "QUEUED"] BY <1>0, <1>1, <1>3, LifeMoves DEF Adds
<1>5. Life[r] = "free" BY <1>0, LifeIs
<1>6. Abstract!Submit(r, cb) BY <1>2, <1>4, <1>5 DEF Abstract!Submit
<1>7. QED BY <1>6 DEF Abstract!Next

\* thread_pool_cancel cancels.
LEMMA CancelRefines ==
  ASSUME IndInv, Owned, IndInv', NEW r \in Reqs, thread_pool_cancel(r)
  PROVE  Abstract!Next
<1>0. /\ head \in Seq(Reqs) /\ head' = head /\ st \in [Reqs -> ReqState]
      /\ st[r] = "QUEUED" /\ hasCb' = hasCb /\ st' = [st EXCEPT ![r] = "DONE"]
  BY DEF IndInv, Shape, thread_pool_cancel
<1>1. Lists(request_list, head, Owners(cbs), st) BY DEF Owned
<1>2. Has(head, r) BY <1>0, <1>1 DEF Lists
<1>3. \A q \in Reqs : st'[q] = IF q = r THEN "DONE" ELSE st[q] BY <1>0
<1>4. Life' = [Life EXCEPT ![r] = "DONE"] BY <1>0, <1>2, <1>3, LifeMoves
<1>5. Life[r] = "QUEUED" BY <1>0, LifeIs
<1>6. Abstract!Cancel(r)
  <2>1. \E i \in DOMAIN request_list : /\ request_list[i] = r
                                      /\ request_list' = Abstract!RemoveAt(request_list, i)
    BY DEF thread_pool_cancel, RemoveAt, Abstract!RemoveAt
  <2>2. QED BY <1>0, <1>4, <1>5, <2>1 DEF Abstract!Cancel
<1>7. QED BY <1>6 DEF Abstract!Next

\* The walk frees a request without a callback.
LEMMA NoCbRefines ==
  ASSUME IndInv, Owned, IndInv', CompletionNoCb PROVE Abstract!Next
<1> DEFINE r == head[cursor]
<1>0. /\ head \in Seq(Reqs) /\ head' \in Seq(Reqs) /\ st \in [Reqs -> ReqState]
      /\ cursor \in 1 .. Len(head) /\ st[r] = "DONE" /\ ~hasCb[r]
      /\ st' = [st EXCEPT ![r] = "free"] /\ UNCHANGED <<request_list, hasCb>>
  BY DEF IndInv, Shape, CompletionNoCb, Walking, lockVars
<1>1. r \in Reqs /\ Has(head, r) BY <1>0, ElementOfSeq DEF Has
<1>2. Drops(head', head, r) BY <1>0, RemoveDrops DEF CompletionNoCb
<1> HIDE DEF r
<1>3. Inj(head) BY DEF Owned, Lists
<1>4. \A q \in Reqs : st'[q] = IF q = r THEN "free" ELSE st[q] BY <1>0
<1>5. Life' = [Life EXCEPT ![r] = "free"]
  BY <1>0, <1>1, <1>2, <1>3, <1>4, LifeMoves DEF Drops
<1>6. Life[r] = "DONE" BY <1>0, <1>1, LifeIs
<1>7. Abstract!Reclaim(r) BY <1>0, <1>5, <1>6 DEF Abstract!Reclaim
<1>8. QED BY <1>1, <1>7 DEF Abstract!Next

\* The walk calls a callback.
LEMMA CbRefines ==
  ASSUME IndInv, Owned, IndInv', CompletionCb PROVE Abstract!Next
<1> DEFINE r == head[cursor]
<1>0. /\ head \in Seq(Reqs) /\ head' \in Seq(Reqs) /\ st \in [Reqs -> ReqState]
      /\ cursor \in 1 .. Len(head) /\ st[r] = "DONE" /\ hasCb[r]
      /\ UNCHANGED <<st, request_list, hasCb>>
  BY DEF IndInv, Shape, CompletionCb, Walking, lockVars
<1>1. r \in Reqs /\ Has(head, r) BY <1>0, ElementOfSeq DEF Has
<1>2. Drops(head', head, r) BY <1>0, RemoveDrops DEF CompletionCb
<1> HIDE DEF r
<1>3. Inj(head) BY DEF Owned, Lists
<1>4. Life' = [Life EXCEPT ![r] = "CALLBACK"]
  BY <1>0, <1>1, <1>2, <1>3, LifeMoves DEF Drops
<1>5. Life[r] = "DONE" BY <1>0, <1>1, LifeIs
<1>6. Abstract!Deliver(r) BY <1>0, <1>4, <1>5 DEF Abstract!Deliver
<1>7. QED BY <1>1, <1>6 DEF Abstract!Next

\* A callback returns, and its request is freed.
LEMMA ReturnRefines ==
  ASSUME IndInv, Owned, IndInv', CallbackReturn PROVE Abstract!Next
<1> DEFINE r == cbs[Len(cbs)].req
<1>0. /\ st \in [Reqs -> ReqState] /\ cbs \in Seq(Frame) /\ cbs # <<>>
      /\ head \in Seq(Reqs) /\ head' = head
      /\ st' = [st EXCEPT ![r] = "free"] /\ UNCHANGED <<request_list, hasCb>>
  BY DEF IndInv, Shape, CallbackReturn, Owned, InCb, lockVars
<1>1. /\ Owners(cbs) \in Seq(Reqs) /\ Len(Owners(cbs)) = Len(cbs)
      /\ Len(cbs) \in 1 .. Len(cbs) /\ r = Owners(cbs)[Len(cbs)]
  BY <1>0, OwnersType, EmptySeq, LenProperties
<1>2. r \in Reqs /\ Has(Owners(cbs), r) BY <1>1, ElementOfSeq DEF Has
<1> HIDE DEF r
<1>3. Lists(request_list, head, Owners(cbs), st) BY DEF Owned
<1>4. st[r] = "DONE" /\ ~Has(head, r) BY <1>2, <1>3 DEF Lists
<1>5. \A q \in Reqs : st'[q] = IF q = r THEN "free" ELSE st[q] BY <1>0
<1>6. Life' = [Life EXCEPT ![r] = "free"] BY <1>0, <1>2, <1>5, LifeMoves
<1>7. Life[r] = "CALLBACK" BY <1>0, <1>2, <1>4, LifeIs
<1>8. Abstract!Reclaim(r) BY <1>0, <1>6, <1>7 DEF Abstract!Reclaim
<1>9. QED BY <1>2, <1>8 DEF Abstract!Next

\* A worker takes the first request.
LEMMA GotRefines ==
  ASSUME IndInv, Owned, IndInv', NEW w \in Workers, WorkerGot(w)
  PROVE  Abstract!Next \/ UNCHANGED LifeVars
<1>0. /\ request_list \in Seq(Reqs) /\ head \in Seq(Reqs) /\ st \in [Reqs -> ReqState]
      /\ pc[w] = "got" /\ UNCHANGED <<head, hasCb>>
  BY DEF IndInv, Shape, WorkerGot
<1>1. CASE stopping
  <2>1. UNCHANGED <<st, request_list>> BY <1>1 DEF WorkerGot
  <2>2. QED BY <1>0, <2>1 DEF LifeVars, Life
<1>2. CASE ~stopping
  <2> DEFINE r == Head(request_list)
  <2>1. request_list' = Tail(request_list) /\ st' = [st EXCEPT ![r] = "ACTIVE"]
    BY <1>2 DEF WorkerGot
  <2>2. request_list # <<>> BY <1>0, <1>2, GotHasRequest
  <2>3. r \in Reqs BY <1>0, <2>2
  <2>4. \A q \in Reqs : st'[q] = IF q = r THEN "ACTIVE" ELSE st[q] BY <1>0, <2>1
  <2>5. Life' = [Life EXCEPT ![r] = "ACTIVE"] BY <1>0, <2>3, <2>4, LifeMoves
  <2>6. Abstract!Start BY <1>0, <2>1, <2>2, <2>5 DEF Abstract!Start
  <2>7. QED BY <2>6 DEF Abstract!Next
<1>3. QED BY <1>1, <1>2

\* A worker's function returns.
LEMMA DoneRefines ==
  ASSUME IndInv, Owned, IndInv', NEW w \in Workers, WorkerDone(w) PROVE Abstract!Next
<1> DEFINE r == req[w]
<1>0. /\ st \in [Reqs -> ReqState] /\ head \in Seq(Reqs) /\ head' = head
      /\ pc[w] = "run" /\ req \in [Workers -> Reqs \cup {NoReq}]
      /\ UNCHANGED <<request_list, hasCb>> /\ st' = [st EXCEPT ![r] = "DONE"]
  BY DEF IndInv, Shape, WorkerDone, lockVars
<1>1. Lists(request_list, head, Owners(cbs), st) /\ Runs(req, pc, st) BY DEF Owned
<1>2. r \in Reqs /\ st[r] = "ACTIVE" BY <1>0, <1>1 DEF Runs
<1> HIDE DEF r
<1>3. Has(head, r) BY <1>1, <1>2 DEF Lists
<1>4. \A q \in Reqs : st'[q] = IF q = r THEN "DONE" ELSE st[q] BY <1>0
<1>5. Life' = [Life EXCEPT ![r] = "DONE"] BY <1>0, <1>2, <1>3, <1>4, LifeMoves
<1>6. Life[r] = "ACTIVE" BY <1>0, <1>2, LifeIs
<1>7. Abstract!Finish(r) BY <1>0, <1>5, <1>6 DEF Abstract!Finish
<1>8. QED BY <1>2, <1>7 DEF Abstract!Next

\* Steps that leave the requests and the lists alone are invisible.
LEMMA OtherRefines ==
  ASSUME \/ SubmitPost \/ spawn_thread_bh_fn \/ CompletionStart \/ CompletionSkip
         \/ CallbackWaitOver \/ CompletionEnd \/ FreeWake \/ thread_pool_free
         \/ UNCHANGED vars
         \/ \E r \in Reqs : CallbackWait(r)
         \/ \E w \in Workers : \/ WorkerStart(w) \/ WorkerAcquire(w) \/ WorkerTimeout(w)
                               \/ WorkerTimedout(w) \/ WorkerComplete(w)
  PROVE  UNCHANGED LifeVars
<1>1. UNCHANGED <<request_list, head, st, hasCb>>
  BY DEF SubmitPost, spawn_thread_bh_fn, CompletionStart, CompletionSkip,
         CallbackWaitOver, CompletionEnd, FreeWake, thread_pool_free, vars, CallbackWait,
         WorkerStart, WorkerAcquire, WorkerTimeout, WorkerTimedout, WorkerComplete,
         lockVars, elemVars
<1>2. QED BY <1>1 DEF LifeVars, Life

\* Every step of the pool is a step of AsyncWork, or invisible.
LEMMA StepRefines ==
  ASSUME IndInv, Owned, [Next]_vars PROVE [Abstract!Next]_LifeVars
<1>0. IndInv' BY NextIndInv
<1>1. CASE HomeStep
  BY <1>0, <1>1, OtherRefines, NoCbRefines, CbRefines DEF HomeStep
<1>2. ASSUME NEW r \in Reqs, NEW cb \in BOOLEAN, thread_pool_submit_aio(r, cb)
      PROVE  Abstract!Next
  BY <1>0, <1>2, SubmitRefines
<1>3. ASSUME NEW r \in Reqs, thread_pool_cancel(r) PROVE Abstract!Next
  BY <1>0, <1>3, CancelRefines
<1>4. CASE CallbackReturn BY <1>0, <1>4, ReturnRefines
<1>5. ASSUME NEW w \in Workers, WorkerStep(w) PROVE Abstract!Next \/ UNCHANGED LifeVars
  BY <1>0, <1>5, GotRefines, DoneRefines, OtherRefines DEF WorkerStep
<1>6. CASE thread_pool_free \/ Terminated \/ UNCHANGED vars
  BY <1>6, OtherRefines DEF Terminated
<1>7. CASE \E r \in Reqs : CallbackWait(r) BY <1>7, OtherRefines
<1>8. QED BY <1>1, <1>2, <1>3, <1>4, <1>5, <1>6, <1>7 DEF Next

\* The promise of the pool (thread-pool.c:99-110, 163-196, 206-219 and 240-258), for
\* any number of requests and threads: requests are started in the order in which
\* they were submitted, each is executed once or was cancelled before it was
\* started, its callback is called once, after that, and only then is its memory
\* used again, with nested calls of aio_poll in callbacks and workers that time out.
THEOREM PoolKeepsPromise == Spec => ImplementsAsyncWork
<1>1. Init => Abstract!Init
  <2> SUFFICES ASSUME Init PROVE Abstract!Init OBVIOUS
  <2>1. Life = [r \in Reqs |-> "free"] BY DEF Init, Life
  <2>2. QED BY <2>1 DEF Init, Abstract!Init
<1>2. Init => Owned BY InitOwned
<1>3. IndInv /\ Owned /\ [Next]_vars => Owned' BY NextOwned
<1>4. IndInv /\ Owned /\ [Next]_vars => [Abstract!Next]_LifeVars BY StepRefines
<1>5. QED
  BY <1>1, <1>2, <1>3, <1>4, Bookkeeping, PTL
  DEF Spec, ImplementsAsyncWork, Abstract!Spec, LifeVars
=============================================================================
