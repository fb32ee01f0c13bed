----------------------------- MODULE ThreadPool -----------------------------
(***************************************************************************)
(* The worker pool of thread-pool.c: requests are submitted, cancelled and *)
(* completed in the thread that owns the AioContext ("the home thread"),   *)
(* and executed by detached worker threads which are created on demand, up *)
(* to max_threads, and which exit after an idle timeout.                   *)
(*                                                                         *)
(* A critical section of pool->lock is one step.  What the code does       *)
(* outside of the lock is a step of its own: the semaphore operations, the *)
(* worker's write of THREAD_DONE, and every step of the completion bottom  *)
(* half.  Memory is sequentially consistent: the barriers at lines 109 and *)
(* 180 order `state' and `ret', and `ret' is abstracted away.              *)
(***************************************************************************)
EXTENDS Integers, Sequences, FiniteSets, SequencesExt

CONSTANTS Reqs,         \* request slots (ThreadPoolElement allocations)
          Workers,      \* names for the threads qemu_thread_create makes
          MaxThreads,   \* pool->max_threads (64 in thread_pool_init_one)
          NoReq         \* a NULL ThreadPoolElement pointer

ASSUME PoolAssumption ==
  /\ IsFiniteSet(Workers)
  /\ MaxThreads \in Nat \ {0}
  /\ Cardinality(Workers) >= MaxThreads
  /\ NoReq \notin Reqs

VARIABLES
  \* Protected by pool->lock.
  request_list, cur_threads, idle_threads, new_threads, pending_threads,
  stopping,
  sem,             \* value of the counting semaphore pool->sem
  completion_bh,   \* the bottom half is scheduled
  new_thread_bh,   \* the bottom half is scheduled
  \* Requests.
  head,            \* every request whose callback has not been called yet
  st,              \* ThreadPoolElement.state, or "free" before/after its life
  hasCb,           \* common.cb # NULL
  \* The home thread.
  mode,            \* "loop" (event loop or nested aio_poll), "walk"
                   \* (thread_pool_completion_bh), "cb" (a completion callback
                   \* runs), "freeing" (cond_wait in thread_pool_free), "freed"
  cursor,          \* position in head of the element being examined
  cbs,             \* the callbacks on the stack, innermost last
  unposted,        \* 1 between QTAILQ_INSERT_TAIL and qemu_sem_post
  woken,           \* worker_stopped was signalled while freeing
  \* The workers.
  pc, req

lockVars   == <<request_list, cur_threads, idle_threads, new_threads,
                pending_threads, stopping>>
bhVars     == <<completion_bh, new_thread_bh>>
elemVars   == <<head, st, hasCb>>
mainVars   == <<mode, cursor, cbs, unposted, woken>>
workerVars == <<pc, req>>
vars == <<lockVars, sem, bhVars, elemVars, mainVars, workerVars>>

ReqState    == {"free", "QUEUED", "ACTIVE", "DONE"}
WorkerState == {"none",      \* no such thread
                "pending",   \* created, has not taken the lock yet
                "waiting",   \* in qemu_sem_timedwait
                "got",       \* timedwait returned 0, lock not retaken yet
                "timedout",  \* timedwait returned -1, lock not retaken yet
                "run",       \* in req->func
                "done"}      \* wrote THREAD_DONE, lock not retaken yet
Mode        == {"loop", "walk", "cb", "freeing", "freed"}
Frame       == [req : Reqs, awaited : Reqs \cup {NoReq}]

TypeOK ==
  /\ request_list \in Seq(Reqs)
  /\ cur_threads \in 0 .. MaxThreads
  /\ idle_threads \in 0 .. MaxThreads
  /\ new_threads \in 0 .. MaxThreads
  /\ pending_threads \in 0 .. MaxThreads
  /\ stopping \in BOOLEAN
  /\ sem \in Nat
  /\ completion_bh \in BOOLEAN
  /\ new_thread_bh \in BOOLEAN
  /\ head \in Seq(Reqs)
  /\ st \in [Reqs -> ReqState]
  /\ hasCb \in [Reqs -> BOOLEAN]
  /\ mode \in Mode
  /\ cursor \in 1 .. Len(head) + 1
  /\ cbs \in Seq(Frame)
  /\ unposted \in {0, 1}
  /\ woken \in BOOLEAN
  /\ pc \in [Workers -> WorkerState]
  /\ req \in [Workers -> Reqs \cup {NoReq}]

\* thread_pool_new / thread_pool_init_one.
Init ==
  /\ request_list = <<>> /\ head = <<>>
  /\ cur_threads = 0 /\ idle_threads = 0
  /\ new_threads = 0 /\ pending_threads = 0
  /\ stopping = FALSE /\ sem = 0
  /\ completion_bh = FALSE /\ new_thread_bh = FALSE
  /\ st = [r \in Reqs |-> "free"] /\ hasCb = [r \in Reqs |-> FALSE]
  /\ mode = "loop" /\ cursor = 1 /\ cbs = <<>> /\ unposted = 0
  /\ woken = FALSE
  /\ pc = [w \in Workers |-> "none"] /\ req = [w \in Workers |-> NoReq]

-----------------------------------------------------------------------------
(* Thread creation.                                                        *)

\* do_spawn_thread, with the pending count and the threads as its caller left
\* them: hands one thread of the backlog to qemu_thread_create.
do_spawn_thread(pending, threads) ==
  \/ /\ new_threads = 0
     /\ pc' = threads
     /\ pending_threads' = pending
     /\ UNCHANGED new_threads
  \/ /\ new_threads > 0
     /\ new_threads' = new_threads - 1
     /\ pending_threads' = pending + 1
     /\ \E t \in Workers : /\ threads[t] = "none"
                           /\ pc' = [threads EXCEPT ![t] = "pending"]

\* MUTANT: one thread more than max_threads.
MaySpawnOffByOne == idle_threads = 0 /\ cur_threads <= MaxThreads

MaySpawn == idle_threads = 0 /\ cur_threads < MaxThreads

\* The test of thread_pool_submit_aio, and spawn_thread: the backlog grows; the
\* bottom half is needed only if no thread is on its way that will look at it.
spawn_thread ==
  /\ cur_threads' = IF MaySpawn THEN cur_threads + 1 ELSE cur_threads
  /\ new_threads' = IF MaySpawn THEN new_threads + 1 ELSE new_threads
  /\ new_thread_bh' = (new_thread_bh \/ (MaySpawn /\ pending_threads = 0))

-----------------------------------------------------------------------------
(* The home thread.                                                        *)

\* The home thread runs code that may call into the pool: its event loop, or a
\* completion callback.
InCaller == mode \in {"loop", "cb"} /\ unposted = 0 /\ ~stopping

\* thread_pool_submit_aio up to the unlock (cb: TRUE), thread_pool_submit
\* (cb: FALSE); thread_pool_submit_co is the former with a coroutine to enter.
thread_pool_submit_aio(r, cb) ==
  /\ InCaller
  /\ st[r] = "free"
  /\ st' = [st EXCEPT ![r] = "QUEUED"]
  /\ hasCb' = [hasCb EXCEPT ![r] = cb]
  /\ head' = <<r>> \o head
  /\ spawn_thread
  /\ request_list' = Append(request_list, r)
  /\ unposted' = 1
  /\ UNCHANGED <<idle_threads, pending_threads, stopping, sem, completion_bh,
                 mode, cursor, cbs, woken, workerVars>>

\* ... and its qemu_sem_post, after the unlock.
SubmitPost ==
  /\ unposted = 1
  /\ unposted' = 0
  /\ sem' = sem + 1
  /\ UNCHANGED <<lockVars, bhVars, elemVars, mode, cursor, cbs, woken,
                 workerVars>>

\* MUTANT: cancellation does not take the request's token.
CancelKeepsToken(r) ==
  /\ InCaller
  /\ st[r] = "QUEUED"
  /\ \E i \in DOMAIN request_list : /\ request_list[i] = r
                                    /\ request_list' = RemoveAt(request_list, i)
  /\ completion_bh' = TRUE
  /\ st' = [st EXCEPT ![r] = "DONE"]
  /\ UNCHANGED <<cur_threads, idle_threads, new_threads, pending_threads,
                 stopping, sem, new_thread_bh, head, hasCb, mainVars, workerVars>>

\* MUTANT: cancellation does not look at the state of the request.
CancelActive(r) ==
  /\ InCaller
  /\ st[r] \in {"QUEUED", "ACTIVE"}
  /\ sem > 0
  /\ sem' = sem - 1
  /\ request_list' = SelectSeq(request_list, LAMBDA q : q # r)
  /\ completion_bh' = TRUE
  /\ st' = [st EXCEPT ![r] = "DONE"]
  /\ UNCHANGED <<cur_threads, idle_threads, new_threads, pending_threads,
                 stopping, new_thread_bh, head, hasCb, mainVars, workerVars>>

\* thread_pool_cancel steals a queued request if it can also take its token.
thread_pool_cancel(r) ==
  /\ InCaller
  /\ st[r] = "QUEUED"
  /\ sem > 0
  /\ sem' = sem - 1
  /\ \E i \in DOMAIN request_list : /\ request_list[i] = r
                                    /\ request_list' = RemoveAt(request_list, i)
  /\ completion_bh' = TRUE
  /\ st' = [st EXCEPT ![r] = "DONE"]
  /\ UNCHANGED <<cur_threads, idle_threads, new_threads, pending_threads,
                 stopping, new_thread_bh, head, hasCb, mainVars, workerVars>>

\* The event loop clears `scheduled' and calls spawn_thread_bh_fn.
spawn_thread_bh_fn ==
  /\ mode = "loop" /\ unposted = 0
  /\ new_thread_bh
  /\ new_thread_bh' = FALSE
  /\ do_spawn_thread(pending_threads, pc)
  /\ UNCHANGED <<request_list, cur_threads, idle_threads, stopping, sem,
                 completion_bh, elemVars, mainVars, req>>

\* The event loop clears `scheduled' and calls thread_pool_completion_bh, which
\* starts at the head of the list.
CompletionStart ==
  /\ mode = "loop" /\ unposted = 0
  /\ completion_bh
  /\ completion_bh' = FALSE
  /\ mode' = "walk"
  /\ cursor' = 1
  /\ UNCHANGED <<lockVars, sem, new_thread_bh, elemVars, cbs, unposted, woken,
                 workerVars>>

Walking == mode = "walk" /\ cursor <= Len(head)

\* An element that is not done is left for a later call.
CompletionSkip ==
  /\ Walking /\ st[head[cursor]] # "DONE"
  /\ cursor' = cursor + 1
  /\ UNCHANGED <<lockVars, sem, bhVars, elemVars, mode, cbs, unposted, woken,
                 workerVars>>

\* An element without a callback is removed and freed, and the walk goes on.
CompletionNoCb ==
  /\ Walking /\ st[head[cursor]] = "DONE" /\ ~hasCb[head[cursor]]
  /\ head' = RemoveAt(head, cursor)
  /\ st' = [st EXCEPT ![head[cursor]] = "free"]
  /\ UNCHANGED <<lockVars, sem, bhVars, hasCb, mainVars, workerVars>>

\* The frames after r's callback has been called: whoever waited for it stops.
Notified(r) == [i \in DOMAIN cbs |->
                  IF cbs[i].awaited = r THEN [cbs[i] EXCEPT !.awaited = NoReq]
                                        ELSE cbs[i]]

\* MUTANT: the bottom half is not scheduled again before the callback.
CompletionCbNoResched ==
  /\ Walking /\ st[head[cursor]] = "DONE" /\ hasCb[head[cursor]]
  /\ head' = RemoveAt(head, cursor)
  /\ mode' = "cb" /\ cursor' = 1
  /\ cbs' = Append(Notified(head[cursor]),
                   [req |-> head[cursor], awaited |-> NoReq])
  /\ UNCHANGED <<lockVars, sem, bhVars, st, hasCb, unposted, woken, workerVars>>

\* MUTANT: the element is left in the list while its callback runs.
CompletionCbListed ==
  /\ Walking /\ st[head[cursor]] = "DONE" /\ hasCb[head[cursor]]
  /\ completion_bh' = TRUE
  /\ mode' = "cb" /\ cursor' = 1
  /\ cbs' = Append(Notified(head[cursor]),
                   [req |-> head[cursor], awaited |-> NoReq])
  /\ UNCHANGED <<lockVars, sem, new_thread_bh, elemVars, unposted, woken,
                 workerVars>>

\* An element with a callback is removed, the bottom half schedules itself
\* again, and the callback is called.
CompletionCb ==
  /\ Walking /\ st[head[cursor]] = "DONE" /\ hasCb[head[cursor]]
  /\ head' = RemoveAt(head, cursor)
  /\ completion_bh' = TRUE
  /\ mode' = "cb" /\ cursor' = 1
  /\ cbs' = Append(Notified(head[cursor]),
                   [req |-> head[cursor], awaited |-> NoReq])
  /\ UNCHANGED <<lockVars, sem, new_thread_bh, st, hasCb, unposted, woken,
                 workerVars>>

\* A callback calls aio_poll until another request's callback has been called
\* (a synchronous request, or bdrv_aio_cancel).
CallbackWait(r) ==
  /\ mode = "cb" /\ unposted = 0
  /\ r \in ToSet(head) /\ hasCb[r]
  /\ cbs' = [cbs EXCEPT ![Len(cbs)].awaited = r]
  /\ mode' = "loop"
  /\ UNCHANGED <<lockVars, sem, bhVars, elemVars, cursor, unposted, woken,
                 workerVars>>

\* The nested aio_poll loop ends: the callback goes on.
CallbackWaitOver ==
  /\ mode = "loop" /\ unposted = 0
  /\ cbs # <<>> /\ cbs[Len(cbs)].awaited = NoReq
  /\ mode' = "cb"
  /\ UNCHANGED <<lockVars, sem, bhVars, elemVars, cursor, cbs, unposted, woken,
                 workerVars>>

\* The callback returns: the element is freed, and `goto restart'.
CallbackReturn ==
  /\ mode = "cb" /\ unposted = 0
  /\ st' = [st EXCEPT ![cbs[Len(cbs)].req] = "free"]
  /\ cbs' = SubSeq(cbs, 1, Len(cbs) - 1)
  /\ mode' = "walk" /\ cursor' = 1
  /\ UNCHANGED <<lockVars, sem, bhVars, head, hasCb, unposted, woken,
                 workerVars>>

\* The walk reached the end of the list: back to whoever polled.
CompletionEnd ==
  /\ mode = "walk" /\ cursor > Len(head)
  /\ mode' = "loop" /\ cursor' = 1
  /\ UNCHANGED <<lockVars, sem, bhVars, elemVars, cbs, unposted, woken,
                 workerVars>>

\* MUTANT: threads that were never created are still counted when freeing.
FreeKeepsBacklog ==
  /\ mode = "loop" /\ cbs = <<>> /\ unposted = 0 /\ head = <<>>
  /\ new_thread_bh' = FALSE
  /\ new_threads' = 0
  /\ stopping' = TRUE
  /\ IF cur_threads > 0
     THEN sem' = sem + 1 /\ mode' = "freeing" /\ UNCHANGED completion_bh
     ELSE UNCHANGED sem /\ mode' = "freed" /\ completion_bh' = FALSE
  /\ UNCHANGED <<request_list, cur_threads, idle_threads, pending_threads,
                 elemVars, cursor, cbs, unposted, woken, workerVars>>

\* thread_pool_free up to the first qemu_cond_wait (or to the end, without
\* threads).  The assertion of line 322 is a precondition on its caller.
thread_pool_free ==
  /\ mode = "loop" /\ cbs = <<>> /\ unposted = 0 /\ head = <<>>
  /\ new_thread_bh' = FALSE
  /\ cur_threads' = cur_threads - new_threads
  /\ new_threads' = 0
  /\ stopping' = TRUE
  /\ IF cur_threads' > 0
     THEN sem' = sem + 1 /\ mode' = "freeing" /\ UNCHANGED completion_bh
     ELSE UNCHANGED sem /\ mode' = "freed" /\ completion_bh' = FALSE
  /\ UNCHANGED <<request_list, idle_threads, pending_threads, elemVars, cursor,
                 cbs, unposted, woken, workerVars>>

\* MUTANT: thread_pool_free waits for one signal instead of for every thread.
FreeWakeOnce ==
  /\ mode = "freeing" /\ woken
  /\ woken' = FALSE
  /\ mode' = "freed" /\ completion_bh' = FALSE
  /\ UNCHANGED <<lockVars, sem, new_thread_bh, elemVars, cursor, cbs, unposted,
                 workerVars>>

\* qemu_cond_wait returns, and the loop of lines 333-336 goes round or ends.
FreeWake ==
  /\ mode = "freeing" /\ woken
  /\ woken' = FALSE
  /\ IF cur_threads > 0
     THEN sem' = sem + 1 /\ UNCHANGED <<mode, completion_bh>>
     ELSE UNCHANGED sem /\ mode' = "freed" /\ completion_bh' = FALSE
  /\ UNCHANGED <<lockVars, new_thread_bh, elemVars, cursor, cbs, unposted,
                 workerVars>>

-----------------------------------------------------------------------------
(* The workers.                                                            *)

\* Leave the outer loop of worker_thread: one thread less, and a signal, which
\* matters only to a home thread that waits in thread_pool_free.
ExitCounts ==
  /\ cur_threads' = cur_threads - 1
  /\ woken' = (mode = "freeing")

\* Back at the top of the loop `while (!pool->stopping)': exit or wait again.
ExitIfStopping ==
  IF stopping THEN ExitCounts /\ UNCHANGED idle_threads
              ELSE idle_threads' = idle_threads + 1 /\ UNCHANGED <<cur_threads, woken>>
LoopState == IF stopping THEN "none" ELSE "waiting"

\* MUTANT: a new worker does not look at the backlog.
WorkerStartNoSpawn(w) ==
  /\ pc[w] = "pending"
  /\ pc' = [pc EXCEPT ![w] = LoopState]
  /\ pending_threads' = pending_threads - 1
  /\ ExitIfStopping
  /\ UNCHANGED <<request_list, new_threads, stopping, sem, bhVars, elemVars,
                 mode, cursor, cbs, unposted, req>>

\* Lines 81-92: the new thread takes the lock, continues the chain of thread
\* creation, and goes to wait.
WorkerStart(w) ==
  /\ pc[w] = "pending"
  /\ do_spawn_thread(pending_threads - 1, [pc EXCEPT ![w] = LoopState])
  /\ ExitIfStopping
  /\ UNCHANGED <<request_list, stopping, sem, bhVars, elemVars,
                 mode, cursor, cbs, unposted, req>>

\* qemu_sem_timedwait returns 0.
WorkerAcquire(w) ==
  /\ pc[w] = "waiting" /\ sem > 0
  /\ sem' = sem - 1
  /\ pc' = [pc EXCEPT ![w] = "got"]
  /\ UNCHANGED <<lockVars, bhVars, elemVars, mainVars, req>>

\* qemu_sem_timedwait returns -1 after ten seconds.
WorkerTimeout(w) ==
  /\ pc[w] = "waiting" /\ sem = 0
  /\ pc' = [pc EXCEPT ![w] = "timedout"]
  /\ UNCHANGED <<lockVars, sem, bhVars, elemVars, mainVars, req>>

\* Lines 93-103 after ret = 0.
WorkerGot(w) ==
  /\ pc[w] = "got"
  /\ idle_threads' = idle_threads - 1
  /\ IF stopping
     THEN /\ ExitCounts
          /\ pc' = [pc EXCEPT ![w] = "none"]
          /\ UNCHANGED <<request_list, st, req>>
     ELSE /\ pc' = [pc EXCEPT ![w] = "run"]
          /\ req' = [req EXCEPT ![w] = Head(request_list)]
          /\ request_list' = Tail(request_list)
          /\ st' = [st EXCEPT ![Head(request_list)] = "ACTIVE"]
          /\ UNCHANGED <<cur_threads, woken>>
  /\ UNCHANGED <<new_threads, pending_threads, stopping, sem, bhVars, head,
                 hasCb, mode, cursor, cbs, unposted>>

\* MUTANT: an idle worker exits without a second look at the list.
WorkerTimedoutNoRecheck(w) ==
  /\ pc[w] = "timedout"
  /\ pc' = [pc EXCEPT ![w] = "none"]
  /\ idle_threads' = idle_threads - 1
  /\ ExitCounts
  /\ UNCHANGED <<request_list, new_threads, pending_threads, stopping, sem,
                 bhVars, elemVars, mode, cursor, cbs, unposted, req>>

\* Lines 93-97 after ret = -1: wait again if a request arrived meanwhile, exit
\* otherwise.
WorkerTimedout(w) ==
  /\ pc[w] = "timedout"
  /\ IF request_list # <<>>
     THEN /\ pc' = [pc EXCEPT ![w] = "waiting"]
          /\ UNCHANGED <<idle_threads, cur_threads, woken>>
     ELSE /\ pc' = [pc EXCEPT ![w] = "none"]
          /\ idle_threads' = idle_threads - 1
          /\ ExitCounts
  /\ UNCHANGED <<request_list, new_threads, pending_threads, stopping, sem,
                 bhVars, elemVars, mode, cursor, cbs, unposted, req>>

\* Lines 105-110: the function returns and the state is written, unlocked.
WorkerDone(w) ==
  /\ pc[w] = "run"
  /\ st' = [st EXCEPT ![req[w]] = "DONE"]
  /\ pc' = [pc EXCEPT ![w] = "done"]
  /\ req' = [req EXCEPT ![w] = NoReq]
  /\ UNCHANGED <<lockVars, sem, bhVars, head, hasCb, mainVars>>

\* Lines 112-114, and round the loop.
WorkerComplete(w) ==
  /\ pc[w] = "done"
  /\ completion_bh' = TRUE
  /\ pc' = [pc EXCEPT ![w] = LoopState]
  /\ ExitIfStopping
  /\ UNCHANGED <<request_list, new_threads, pending_threads, stopping, sem,
                 new_thread_bh, elemVars, mode, cursor, cbs, unposted, req>>

\* The pool is gone; nothing of it may run any more.
Terminated ==
  /\ mode = "freed" /\ \A w \in Workers : pc[w] = "none"
  /\ UNCHANGED vars

-----------------------------------------------------------------------------
HomeStep ==
  \/ SubmitPost
  \/ spawn_thread_bh_fn
  \/ CompletionStart \/ CompletionSkip \/ CompletionNoCb \/ CompletionCb
  \/ CallbackWaitOver \/ CompletionEnd
  \/ FreeWake

WorkerStep(w) ==
  \/ WorkerStart(w)
  \/ WorkerAcquire(w) \/ WorkerTimeout(w)
  \/ WorkerGot(w) \/ WorkerTimedout(w)
  \/ WorkerDone(w) \/ WorkerComplete(w)

Next ==
  \/ HomeStep
  \/ \E r \in Reqs, cb \in BOOLEAN : thread_pool_submit_aio(r, cb)
  \/ \E r \in Reqs : thread_pool_cancel(r)
  \/ \E r \in Reqs : CallbackWait(r)
  \/ CallbackReturn
  \/ thread_pool_free
  \/ \E w \in Workers : WorkerStep(w)
  \/ Terminated

\* The home thread runs, and one pass of aio_bh_poll calls every bottom half
\* that is scheduled (strong fairness: between two passes the home thread may
\* do other things); every callback returns; every worker that can run does,
\* and a function submitted to the pool returns.
Fairness ==
  /\ WF_vars(HomeStep)
  /\ SF_vars(spawn_thread_bh_fn)
  /\ SF_vars(CompletionStart)
  /\ WF_vars(CallbackReturn)
  /\ \A w \in Workers : WF_vars(WorkerStep(w))

Spec == Init /\ [][Next]_vars
FairSpec == Spec /\ Fairness

-----------------------------------------------------------------------------
(* Properties.                                                             *)

At(S) == {w \in Workers : pc[w] \in S}

\* Every queued request has exactly one token: in the semaphore, in the hands of
\* a worker on its way to the lock, or about to be posted (lines 92-101, 212-213
\* and 256-258).
TokenAccounting ==
  ~stopping => Len(request_list) = sem + Cardinality(At({"got"})) + unposted

\* Why QTAILQ_FIRST at line 100 never yields NULL: whoever got a token finds a
\* request, whatever was cancelled or taken between the wakeup and the lock.
NeverDequeueEmpty ==
  \A w \in Workers : pc[w] = "got" /\ ~stopping => request_list # <<>>

\* The lock-protected counters mean what their comments say (lines 70-73) and
\* stay within max_threads, for every interleaving of creation, timeout, exit and
\* thread_pool_free.
ThreadAccounting ==
  /\ TypeOK
  /\ cur_threads = new_threads + Cardinality(At(WorkerState \ {"none"}))
  /\ pending_threads = Cardinality(At({"pending"}))
  /\ idle_threads = Cardinality(At({"waiting", "got", "timedout"}))

\* The comment at lines 151-157: a backlog of threads is never forgotten, a
\* thread being created or the bottom half will look at it.
SpawnNotLost == new_threads > 0 => pending_threads > 0 \/ new_thread_bh

\* A request is in the state its lists say: queued exactly when it is on
\* request_list, active exactly when one worker runs it, and its memory is not
\* freed while a list, a worker or a callback still refers to it.
Ownership ==
  /\ ToSet(request_list) = {r \in Reqs : st[r] = "QUEUED"}
  /\ \A i, j \in DOMAIN request_list :
        request_list[i] = request_list[j] => i = j
  /\ \A r \in Reqs : st[r] = "ACTIVE" <=> \E w \in Workers : req[w] = r
  /\ \A v, w \in Workers : req[v] = req[w] /\ req[v] # NoReq => v = w
  /\ \A w \in Workers : pc[w] = "run" <=> req[w] # NoReq
  /\ ToSet(head) \cup {cbs[i].req : i \in DOMAIN cbs}
        = {r \in Reqs : st[r] # "free"}

\* What the pool promises per request (lines 99-110, 163-196, 206-219 and 240-258):
\* started in the order of submission, executed once unless cancelled before, and
\* the callback called once, afterwards, however callbacks poll and nest.
Life == [r \in Reqs |-> IF st[r] = "DONE" /\ r \notin ToSet(head) THEN "CALLBACK"
                                                                  ELSE st[r]]
Abstract == INSTANCE AsyncWork
              WITH life <- Life, waiting <- request_list, wanted <- hasCb
ImplementsAsyncWork == Abstract!Spec

\* When thread_pool_free frees the pool (line 344) no worker is left that could
\* touch it.
FreedQuiescent == mode = "freed" => At(WorkerState \ {"none"}) = {}

\* Every queued request is executed or cancelled, although idle workers time out
\* at any moment, unless an endless stream of completions keeps the home thread
\* in the walk of lines 163-196, where it creates no threads.
QueuedServed ==
  \A r \in Reqs :
    [](st[r] = "QUEUED" => <>(st[r] # "QUEUED") \/ []<>(mode = "cb"))

\* A finished request is removed from the list, also when the home thread is in
\* the nested event loop of another completion callback (the comment at lines
\* 182-184), unless an endless stream of other completions keeps restarting the
\* walk.
CompletionDelivered ==
  \A r \in Reqs :
    [](r \in ToSet(head) /\ st[r] = "DONE"
         => <>(r \notin ToSet(head)) \/ []<>(mode = "cb"))

\* thread_pool_free returns: no signal of worker_stopped is lost and every
\* worker gets a reason to exit.
FreeTerminates == mode = "freeing" ~> mode = "freed"
=============================================================================
