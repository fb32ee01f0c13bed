--------------------------- MODULE IoThreadProofs ---------------------------
(***************************************************************************)
(* Safety of an IOThread and its AioContext, for any number of threads,    *)
(* bottom halves and nested calls of aio_poll: one thread polls at a time, *)
(* no walk over the list of bottom halves meets memory that was freed, and *)
(* no wakeup is lost.                                                      *)
(***************************************************************************)
EXTENDS IoThread, TLAPS, FiniteSetTheorems, SequenceTheorems, WellFoundedInduction,
        NaturalsInduction

Inj(s) == \A i, j \in 1 .. Len(s) : s[i] = s[j] => i = j
Has(s, x) == \E i \in 1 .. Len(s) : s[i] = x

\* t is s with x added, or with x taken out.
Adds(t, s, x) ==
  /\ Inj(s) /\ ~Has(s, x) => Inj(t)
  /\ \A y : Has(t, y) <=> (Has(s, y) \/ y = x)
Drops(t, s, x) ==
  Inj(s) => Inj(t) /\ \A y : Has(t, y) <=> (Has(s, y) /\ y # x)

\* One element more at the end.
LEMMA AppendAdds ==
  ASSUME NEW S, NEW s \in Seq(S), NEW x \in S PROVE Adds(Append(s, x), s, x)
<1> DEFINE t == Append(s, x)
<1>1. /\ t \in Seq(S) /\ Len(t) = Len(s) + 1 /\ Len(s) \in Nat
      /\ t[Len(s) + 1] = x /\ \A i \in 1 .. Len(s) : t[i] = s[i]
  BY AppendProperties, LenProperties
<1> HIDE DEF t
<1>2. \A i \in 1 .. Len(t) : i \in 1 .. Len(s) \/ i = Len(s) + 1 BY <1>1
<1>3. \A i \in 1 .. Len(s) : i \in 1 .. Len(t) BY <1>1
<1>4. Len(s) + 1 \in 1 .. Len(t) BY <1>1
<1>5. Inj(s) /\ ~Has(s, x) => Inj(t) BY <1>1, <1>2 DEF Inj, Has
<1>6. \A y : Has(t, y) <=> (Has(s, y) \/ y = x) BY <1>1, <1>2, <1>3, <1>4 DEF Has
<1>7. QED BY <1>5, <1>6 DEF Adds, t

\* The first element leaves.
LEMMA TailDrops ==
  ASSUME NEW S, NEW s \in Seq(S), s # <<>> PROVE Drops(Tail(s), s, Head(s))
<1>1. Len(s) \in Nat \ {0} /\ Head(s) = s[1] BY EmptySeq, LenProperties
<1> DEFINE t == Tail(s)
<1>2. /\ t \in Seq(S) /\ Len(t) = Len(s) - 1 /\ \A i \in 1 .. Len(t) : t[i] = s[i + 1]
  BY HeadTailProperties
<1> HIDE DEF t
<1>3. \A i \in 1 .. Len(t) : i + 1 \in 1 .. Len(s) /\ i + 1 # 1 BY <1>1, <1>2
<1>4. \A i \in 1 .. Len(s) : i # 1 => i - 1 \in 1 .. Len(t) /\ t[i - 1] = s[i]
  <2> SUFFICES ASSUME NEW i \in 1 .. Len(s), i # 1
               PROVE  i - 1 \in 1 .. Len(t) /\ t[i - 1] = s[i]
    OBVIOUS
  <2>1. i - 1 \in 1 .. Len(t) /\ (i - 1) + 1 = i BY <1>1, <1>2
  <2>2. t[i - 1] = s[(i - 1) + 1] BY <1>2, <2>1
  <2>3. QED BY <2>1, <2>2
<1>5. 1 \in 1 .. Len(s) BY <1>1
<1>6. ASSUME Inj(s) PROVE Inj(t)
  <2> SUFFICES ASSUME NEW i \in 1 .. Len(t), NEW j \in 1 .. Len(t), t[i] = t[j] PROVE i = j
    BY DEF Inj
  <2>1. i + 1 = j + 1 BY <1>2, <1>3, <1>6 DEF Inj
  <2>2. QED BY <2>1
<1>7. ASSUME Inj(s), NEW y PROVE Has(t, y) <=> (Has(s, y) /\ y # s[1])
  <2>1. ASSUME Has(t, y) PROVE Has(s, y) /\ y # s[1]
    <3>1. PICK i \in 1 .. Len(t) : t[i] = y BY <2>1 DEF Has
    <3>2. i + 1 \in 1 .. Len(s) /\ i + 1 # 1 /\ y = s[i + 1] BY <1>2, <1>3, <3>1
    <3>3. QED BY <1>5, <1>7, <3>2 DEF Has, Inj
  <2>2. ASSUME Has(s, y), y # s[1] PROVE Has(t, y)
    BY <1>4, <2>2 DEF Has
  <2>3. QED BY <2>1, <2>2
<1>8. QED BY <1>1, <1>6, <1>7 DEF Drops, t

\* Induction, for a set of numbers.
LEMMA UpTo ==
  ASSUME NEW N \in Nat, NEW T, 0 \in T, \A n \in 1 .. N : n - 1 \in T => n \in T
  PROVE  \A n \in 0 .. N : n \in T
<1> DEFINE R == {n \in 0 .. N : n \notin T}
<1>1. SUFFICES ASSUME R # {} PROVE FALSE OBVIOUS
<1>2. R \subseteq Nat OBVIOUS
<1> HIDE DEF R
<1>3. PICK x \in R : \A y \in R : ~(<<y, x>> \in OpToRel(<, Nat))
  BY <1>1, <1>2, NatLessThanWellFounded, WFMin
<1>4. \A y \in R : y \in Nat /\ x \in Nat /\ ~(y < x) BY <1>2, <1>3 DEF OpToRel
<1>5. x \in 0 .. N /\ x \notin T BY <1>3 DEF R
<1>6. x # 0 /\ x \in 1 .. N /\ x - 1 \in 0 .. N /\ x - 1 < x BY <1>5
<1>7. x - 1 \notin R BY <1>4, <1>6
<1>8. x - 1 \in T BY <1>6, <1>7 DEF R
<1>9. QED BY <1>5, <1>6, <1>8

\* The loop of lines 95-103 of async.c leaves what was not deleted.
LEMMA UndeletedIs ==
  ASSUME first_bh \in Seq(BHs), deleted \in [BHs -> BOOLEAN]
  PROVE  /\ Undeleted \in Seq(BHs)
         /\ ToSet(Undeleted) = {b \in Linked : ~deleted[b]}
<1> DEFINE s == first_bh
           N == Len(s)
           Step(x, i) == IF deleted[s[i]] THEN x ELSE Append(x, s[i])
           G(f) == [i \in 0 .. N |-> IF i = 0 THEN <<>>
                                     ELSE IF deleted[s[i]] THEN f[i - 1]
                                     ELSE Append(f[i - 1], s[i])]
           Upto(f, n) == /\ f \in [0 .. n -> Seq(BHs)] /\ f[0] = <<>>
                         /\ \A i \in 1 .. n : f[i] = Step(f[i - 1], i)
<1>1. N \in Nat /\ \A i \in 1 .. N : s[i] \in BHs BY LenProperties, ElementOfSeq
<1>2. \A x \in Seq(BHs), i \in 1 .. N : Step(x, i) \in Seq(BHs) BY <1>1
<1>3. \E f : Upto(f, N)
  <2> DEFINE T == {n \in 0 .. N : \E f : Upto(f, n)}
  <2>1. 0 \in T
    <3> DEFINE f == [i \in 0 .. 0 |-> <<>>]
    <3>1. f \in [0 .. 0 -> Seq(BHs)] /\ f[0] = <<>> OBVIOUS
    <3>2. Upto(f, 0) BY <3>1
    <3>3. 0 \in 0 .. N BY <1>1
    <3> HIDE DEF f, Upto, N
    <3>4. QED BY <3>2, <3>3
  <2>2. ASSUME NEW n \in 1 .. N, n - 1 \in T PROVE n \in T
    <3>1. PICK f : Upto(f, n - 1) BY <2>2
    <3>2. n \in Nat /\ n - 1 \in 0 .. n - 1 /\ n - 1 \in Nat BY <1>1
    <3>3. f[n - 1] \in Seq(BHs) BY <3>1, <3>2
    <3> DEFINE g == [i \in 0 .. n |-> IF i = n THEN Step(f[n - 1], n) ELSE f[i]]
    <3> HIDE DEF Step
    <3>4. Step(f[n - 1], n) \in Seq(BHs) BY <1>2, <3>3
    <3>5. \A i \in 0 .. n : i # n => i \in 0 .. n - 1 BY <3>2
    <3>6. g \in [0 .. n -> Seq(BHs)] BY <3>1, <3>4, <3>5
    <3>7. g[0] = <<>> BY <3>1, <3>2
    <3>8. ASSUME NEW i \in 1 .. n PROVE g[i] = Step(g[i - 1], i)
      <4>1. i \in 0 .. n /\ i - 1 \in 0 .. n /\ i - 1 # n BY <3>2
      <4>2. g[i - 1] = f[i - 1] BY <4>1
      <4>3. CASE i = n BY <4>1, <4>2, <4>3
      <4>4. CASE i # n
        <5>1. i \in 1 .. n - 1 BY <3>2, <4>4
        <5>2. g[i] = f[i] BY <4>1, <4>4
        <5>3. QED BY <3>1, <4>2, <5>1, <5>2
      <4>5. QED BY <4>3, <4>4
    <3>9. Upto(g, n) BY <3>6, <3>7, <3>8
    <3> HIDE DEF g, Upto
    <3>10. QED BY <1>1, <3>9
  <2> HIDE DEF T
  <2>3. N \in T
    <3>1. \A n \in 0 .. N : n \in T BY <1>1, <2>1, <2>2, UpTo
    <3>2. QED BY <1>1, <3>1
  <2>4. QED BY <2>3 DEF T
<1>4. PICK h : h = G(h)
  <2>1. PICK f : Upto(f, N) BY <1>3
  <2>2. DOMAIN f = 0 .. N BY <2>1
  <2>3. ASSUME NEW i \in 0 .. N PROVE f[i] = G(f)[i]
    <3>1. CASE i = 0 BY <2>1, <3>1
    <3>2. CASE i # 0
      <4>1. i \in 1 .. N BY <1>1, <3>2
      <4>2. QED BY <2>1, <3>2, <4>1
    <3>3. QED BY <3>1, <3>2
  <2>4. f \in [0 .. N -> Seq(BHs)] BY <2>1
  <2>5. f = G(f) BY <2>3, <2>4
  <2>6. QED BY <2>5
<1>5. PICK g : g = G(g) /\ Undeleted = g[N] BY <1>4, Zenon DEF Undeleted
<1>6. g[0] = <<>> /\ \A i \in 1 .. N : g[i] = Step(g[i - 1], i)
  <2> HIDE DEF s
  <2>1. \A i \in 0 .. N : g[i] = G(g)[i] BY <1>5
  <2>2. QED BY <1>1, <2>1
<1> DEFINE E(n) == {s[i] : i \in {j \in 1 .. n : ~deleted[s[j]]}}
           P(n) == g[n] \in Seq(BHs) /\ \A b : Has(g[n], b) <=> b \in E(n)
           T == {n \in 0 .. N : P(n)}
<1>7. 0 \in T
  <2>1. \A b : ~Has(<<>>, b) BY DEF Has
  <2>2. E(0) = {} OBVIOUS
  <2>3. g[0] \in Seq(BHs) /\ 0 \in 0 .. N BY <1>1, <1>6
  <2> HIDE DEF E
  <2>4. QED BY <1>6, <2>1, <2>2, <2>3
<1>8. ASSUME NEW n \in 1 .. N, n - 1 \in T PROVE n \in T
  <2>1. /\ g[n - 1] \in Seq(BHs) /\ \A b : Has(g[n - 1], b) <=> b \in E(n - 1)
        /\ n \in Nat /\ s[n] \in BHs /\ n \in 0 .. N
    BY <1>1, <1>8
  <2>2. g[n] = Step(g[n - 1], n) BY <1>6
  <2>3. \A j : j \in 1 .. n <=> j \in 1 .. n - 1 \/ j = n BY <2>1
  <2>4. E(n) = IF deleted[s[n]] THEN E(n - 1) ELSE E(n - 1) \cup {s[n]} BY <2>3
  <2> HIDE DEF E
  <2>5. CASE deleted[s[n]] BY <2>1, <2>2, <2>4, <2>5
  <2>6. CASE ~deleted[s[n]]
    <3>1. g[n] = Append(g[n - 1], s[n]) BY <2>2, <2>6
    <3>2. g[n] \in Seq(BHs) BY <2>1, <3>1
    <3>3. Adds(g[n], g[n - 1], s[n]) BY <2>1, <3>1, AppendAdds
    <3>4. \A b : Has(g[n], b) <=> b \in E(n) BY <2>1, <2>4, <2>6, <3>3 DEF Adds
    <3>5. QED BY <2>1, <3>2, <3>4
  <2>7. QED BY <2>5, <2>6
<1> HIDE DEF T
<1>9. N \in T
  <2>1. \A n \in 0 .. N : n \in T BY <1>1, <1>7, <1>8, UpTo
  <2>2. QED BY <1>1, <2>1
<1>10. Undeleted \in Seq(BHs) /\ \A b : Has(Undeleted, b) <=> b \in E(N) BY <1>5, <1>9 DEF T
<1>11. E(N) = {b \in Linked : ~deleted[b]}
  <2>1. DOMAIN s = 1 .. N BY LenProperties
  <2>2. Linked = {s[i] : i \in 1 .. N} BY <2>1 DEF Linked, ToSet
  <2>3. QED BY <2>2
<1> HIDE DEF E
<1>12. ToSet(Undeleted) = E(N)
  <2>1. DOMAIN Undeleted = 1 .. Len(Undeleted) BY <1>10, LenProperties
  <2>2. QED BY <1>10, <2>1 DEF ToSet, Has
<1>13. QED BY <1>10, <1>11, <1>12

-----------------------------------------------------------------------------
(* The invariant.                                                          *)

\* Where a thread owns the lock.
Owning == {"in", "call", "polling", "leave"}

\* The queue holds whoever wants the lock or has it, once, and the owner first.
LockInv ==
  /\ Inj(queue)
  /\ \A t \in Threads : Has(queue, t) <=> pc[t] \notin {"out", "exited"}
  /\ \A t \in Threads : pc[t] \in Owning => queue[1] = t
  /\ \A t \in Threads : pc[t] \in {"call", "polling", "leave", "exited"} => t = Home
  /\ \A w \in Workers : pc[w] = "out"

\* Who polls has the lock; calls other than the innermost are in callbacks, and
\* so is whoever schedules a bottom half while it polls.
InStack == {"cb", "iocb"}
Early   == {"compute", "poll", "dispatch"}
StackInv ==
  \A t \in Threads :
    /\ InPoll(t) => \/ t = Home /\ pc[t] = "polling"
                    \/ t \in Clients /\ pc[t] = "in"
    /\ t = Home /\ pc[t] = "polling" => InPoll(t)
    /\ Depth(t) <= MaxDepth
    /\ \A i \in 1 .. Depth(t) - 1 : stack[t][i].pc \in InStack
    /\ InPoll(t) /\ call[t] # Quiet => Top(t).pc \in InStack
    /\ InPoll(t) /\ Top(t).pc \in Early => Top(t).bh = NoBH
    /\ InPoll(t) /\ Top(t).pc = "compute" => Top(t).timeout # "idle"

\* A bottom half that is about to be scheduled is there and not deleted; an
\* owner schedules it, or a worker that calls qemu_bh_schedule.
CallInv ==
  \A t \in Threads :
    /\ IF call[t].step \in {"xchg", "mb_set"} THEN call[t].bh \in Live
                                              ELSE call[t].bh = NoBH
    /\ call[t].step = "mb_set" => pc[t] \in Owning
    /\ call[t].step = "xchg" => pc[t] \in Owning \/ t \in Workers

\* The frame that may block, or blocks, without a timeout.
Sleepy(t) ==
  InPoll(t) /\ Top(t).pc \in {"compute", "poll"} /\ Top(t).timeout = "none"

\* `dispatching' is clear outside of aio_poll, and while one may block.
DispatchInv ==
  /\ (\A t \in Threads : ~InPoll(t)) => ~dispatching
  /\ \A t \in Threads : InPoll(t) => ~stack[t][1].was
  /\ \A t \in Threads : Sleepy(t) => ~dispatching

\* Whoever polls does not sleep on.
Noted == notifier \/ Notifying # {}

WakeInv ==
  \A t \in Threads : Sleepy(t) /\ Top(t).pc = "poll" /\ Scheduled # {} => Noted

\* Home is in its outermost call of aio_poll, before it dispatches.
Asleep == Sleepy(Home) /\ Depth(Home) = 1

StopInv == stopping /\ (pc[Home] = "call" \/ Asleep) => Noted

\* Where a thread that waits must have been heard: nobody has the lock, or Home
\* has it and is going to block.
Region ==
  \/ \A t \in Threads : pc[t] \notin Owning
  \/ pc[Home] \in {"in", "call"} /\ blocking
  \/ Asleep

\* It waits, or is about to, and its own kick is over.
Kicked(t) ==
  \/ pc[t] = "waiting" /\ t \notin signalled
  \/ pc[t] = "kicking" /\ call[t] = Quiet

KickInv == Region => \A t \in Threads : Kicked(t) => Noted

WalkInv ==
  /\ IsFiniteSet(WalkingFrames)
  /\ NoDanglingBh

IndInv ==
  /\ TypeOK /\ LockInv /\ StackInv /\ CallInv /\ DispatchInv
  /\ WakeInv /\ StopInv /\ KickInv /\ WalkInv

-----------------------------------------------------------------------------
(* The stacks.                                                             *)

\* What is known of a thread's stack.
LEMMA StackOf ==
  ASSUME TypeOK, NEW t \in Threads
  PROVE  /\ stack[t] \in Seq(Frame) /\ Depth(t) \in Nat /\ Depth(t) = Len(stack[t])
         /\ \A i \in 1 .. Depth(t) : stack[t][i] \in Frame
         /\ InPoll(t) <=> Depth(t) > 0
         /\ InPoll(t) => /\ Top(t) = stack[t][Depth(t)] /\ Top(t) \in Frame
                         /\ Depth(t) \in 1 .. Depth(t)
<1>1. stack[t] \in Seq(Frame) BY DEF TypeOK, AioTypeOK
<1>2. /\ Len(stack[t]) \in Nat /\ \A i \in 1 .. Len(stack[t]) : stack[t][i] \in Frame
      /\ stack[t] # <<>> <=> Len(stack[t]) > 0
  BY <1>1, LenProperties, ElementOfSeq, EmptySeq
<1>3. QED BY <1>1, <1>2 DEF Depth, InPoll, Top

\* The innermost call of t goes on as f.
TopTo(t, f) ==
  /\ InPoll(t) /\ f \in Frame /\ stack' \in [Threads -> Seq(Frame)]
  /\ \A u \in Threads : u # t => stack'[u] = stack[u]
  /\ Len(stack'[t]) = Len(stack[t])
  /\ \A i \in 1 .. Len(stack[t]) - 1 : stack'[t][i] = stack[t][i]
  /\ stack'[t][Len(stack[t])] = f

\* Becomes replaces the top frame of a thread.
LEMMA BecomesIs ==
  ASSUME TypeOK, NEW t \in Threads, InPoll(t), NEW f \in Frame, Becomes(t, f)
  PROVE  TopTo(t, f)
<1> DEFINE s == stack[t]
           r == [s EXCEPT ![Len(s)] = f]
<1>1. /\ s \in Seq(Frame) /\ Len(s) \in Nat /\ Len(s) > 0 BY StackOf
<1>2. /\ r \in Seq(Frame) /\ Len(r) = Len(s)
      /\ \A i \in 1 .. Len(s) - 1 : r[i] = s[i]
      /\ r[Len(s)] = f
  <2> HIDE DEF s
  <2>1. QED BY <1>1
<1>3. stack \in [Threads -> Seq(Frame)] BY DEF TypeOK, AioTypeOK
<1>4. stack' = [stack EXCEPT ![t] = r] BY DEF Becomes, Depth
<1> HIDE DEF r
<1>5. /\ stack' \in [Threads -> Seq(Frame)] /\ stack'[t] = r
      /\ \A u \in Threads : u # t => stack'[u] = stack[u]
  BY <1>2, <1>3, <1>4
<1>6. QED BY <1>2, <1>5 DEF TopTo

\* Everything else about the stacks stays as it was.
LEMMA TopIs ==
  ASSUME TypeOK, NEW t \in Threads, NEW f, TopTo(t, f)
  PROVE  /\ \A u \in Threads : Depth(u)' = Depth(u) /\ (InPoll(u)' <=> InPoll(u))
         /\ \A u \in Threads : u # t => Top(u)' = Top(u)
         /\ Top(t)' = f
<1>1. \A u \in Threads : stack[u] \in Seq(Frame) /\ stack'[u] \in Seq(Frame)
  BY StackOf DEF TopTo
<1>2. \A u \in Threads : Len(stack'[u]) = Len(stack[u]) BY DEF TopTo
<1>3. \A u \in Threads : Depth(u)' = Depth(u) BY <1>2 DEF Depth
<1>4. \A u \in Threads : InPoll(u)' <=> InPoll(u) BY <1>1, <1>2, EmptySeq DEF InPoll
<1>5. \A u \in Threads : u # t => Top(u)' = Top(u) BY DEF TopTo, Top, Depth
<1>6. Top(t)' = f BY <1>2 DEF TopTo, Top, Depth
<1>7. QED BY <1>3, <1>4, <1>5, <1>6

\* Whoever polls is the owner of the lock, and the only one.
LEMMA Poller ==
  ASSUME LockInv, StackInv, NEW t \in Threads, InPoll(t)
  PROVE  /\ pc[t] \in Owning
         /\ \A u \in Threads : pc[u] \in Owning => u = t
         /\ \A u \in Threads : InPoll(u) => u = t
         /\ t = Home => pc[t] = "polling"
         /\ t # Home => t \in Clients /\ pc[t] = "in"
         /\ pc[Home] \notin {"in", "call"}
<1>0. Home \in Threads /\ Home \notin Clients BY IoThreadAssumption
<1>1. pc[t] \in Owning /\ (t = Home => pc[t] = "polling")
      /\ (t # Home => t \in Clients /\ pc[t] = "in")
  BY <1>0 DEF StackInv, Owning
<1>2. \A u \in Threads : pc[u] \in Owning => u = t BY <1>1 DEF LockInv
<1>3. \A u \in Threads : InPoll(u) => pc[u] \in Owning BY DEF StackInv, Owning
<1>4. pc[Home] \notin {"in", "call"} BY <1>0, <1>1, <1>2 DEF Owning
<1>5. QED BY <1>1, <1>2, <1>3, <1>4

\* A change of the top frame keeps stacks and program counters in agreement.
LEMMA StackTop ==
  ASSUME TypeOK, StackInv, NEW t \in Threads, NEW f, TopTo(t, f),
         UNCHANGED <<pc, call>>, call[t] = Quiet, f.pc \in Early => f.bh = NoBH,
         f.pc # "compute"
  PROVE  StackInv'
<1>1. /\ \A u \in Threads : Depth(u)' = Depth(u) /\ (InPoll(u)' <=> InPoll(u))
      /\ \A u \in Threads : u # t => Top(u)' = Top(u)
      /\ Top(t)' = f
  BY TopIs
<1> SUFFICES ASSUME NEW u \in Threads
             PROVE  (/\ InPoll(u) => \/ u = Home /\ pc[u] = "polling"
                                     \/ u \in Clients /\ pc[u] = "in"
                     /\ u = Home /\ pc[u] = "polling" => InPoll(u)
                     /\ Depth(u) <= MaxDepth
                     /\ \A i \in 1 .. Depth(u) - 1 : stack[u][i].pc \in InStack
                     /\ InPoll(u) /\ call[u] # Quiet => Top(u).pc \in InStack
                     /\ InPoll(u) /\ Top(u).pc \in Early => Top(u).bh = NoBH
                     /\ InPoll(u) /\ Top(u).pc = "compute" => Top(u).timeout # "idle")'
  BY DEF StackInv
<1>2. /\ InPoll(u)' => \/ u = Home /\ pc'[u] = "polling"
                       \/ u \in Clients /\ pc'[u] = "in"
      /\ u = Home /\ pc'[u] = "polling" => InPoll(u)'
      /\ Depth(u)' <= MaxDepth
  BY <1>1 DEF StackInv
<1>3. \A i \in 1 .. Depth(u)' - 1 : stack'[u][i].pc \in InStack
  <2>1. \A i \in 1 .. Depth(u) - 1 : stack'[u][i] = stack[u][i] BY DEF TopTo, Depth
  <2>2. QED BY <1>1, <2>1 DEF StackInv
<1>4. InPoll(u)' /\ call'[u] # Quiet => Top(u)'.pc \in InStack BY <1>1 DEF StackInv
<1>5. InPoll(u)' /\ Top(u)'.pc \in Early => Top(u)'.bh = NoBH BY <1>1 DEF StackInv
<1>6. InPoll(u)' /\ Top(u)'.pc = "compute" => Top(u)'.timeout # "idle"
  BY <1>1 DEF StackInv
<1>7. QED BY <1>2, <1>3, <1>4, <1>5, <1>6

\* A poller that cannot block makes nobody wait for a wakeup.
LEMMA AwakeStep ==
  ASSUME LockInv, StackInv, DispatchInv, NEW t \in Threads, InPoll(t), InPoll(t)', ~Sleepy(t)',
         \A u \in Threads : u # t => stack'[u] = stack[u],
         ~stack'[t][1].was, UNCHANGED pc
  PROVE  DispatchInv' /\ WakeInv' /\ StopInv' /\ KickInv'
<1>0. Home \in Threads BY IoThreadAssumption
<1>1. /\ pc[t] \in Owning /\ \A u \in Threads : InPoll(u) => u = t
      /\ pc[Home] \notin {"in", "call"}
  BY Poller
<1>2. \A u \in Threads : InPoll(u)' => u = t BY <1>1 DEF InPoll
<1>3. \A u \in Threads : ~Sleepy(u)' BY <1>2 DEF Sleepy
<1>4. ~Asleep' BY <1>0, <1>3 DEF Asleep
<1>5. DispatchInv' BY <1>2, <1>3 DEF DispatchInv
<1>6. WakeInv' BY <1>3 DEF WakeInv
<1>7. StopInv' BY <1>1, <1>4 DEF StopInv
<1>8. KickInv' BY <1>1, <1>4 DEF KickInv, Region
<1>9. QED BY <1>5, <1>6, <1>7, <1>8

\* Steps that do not touch the lock.
LEMMA SameLock ==
  ASSUME LockInv, UNCHANGED <<queue, pc>> PROVE LockInv'
BY DEF LockInv

\* Steps that do not touch calls, nor what they point to.
LEMMA SameCalls ==
  ASSUME CallInv, UNCHANGED <<call, pc, first_bh, deleted>> PROVE CallInv'
BY DEF CallInv, Live, Linked

\* What the outermost call restores when it returns does not change.
LEMMA WasKept ==
  ASSUME TypeOK, NEW t \in Threads, NEW f, TopTo(t, f), f.was = Top(t).was
  PROVE  stack'[t][1].was = stack[t][1].was
<1>1. /\ Depth(t) \in Nat /\ Depth(t) > 0 /\ Depth(t) = Len(stack[t])
      /\ Top(t) = stack[t][Depth(t)]
  BY StackOf DEF TopTo
<1>2. CASE Depth(t) = 1 BY <1>1, <1>2 DEF TopTo
<1>3. CASE Depth(t) # 1
  <2>1. \A n \in Nat : n > 0 /\ n # 1 => 1 \in 1 .. n - 1 OBVIOUS
  <2>2. 1 \in 1 .. Len(stack[t]) - 1 BY <1>1, <1>3, <2>1
  <2>3. QED BY <2>2 DEF TopTo
<1>4. QED BY <1>2, <1>3

\* What is left to show when a call of aio_poll goes on and cannot block.
LEMMA TopStep ==
  ASSUME IndInv, NEW t \in Threads, NEW f, TopTo(t, f), f.was = Top(t).was,
         f.pc \notin {"compute", "poll"}, f.pc = "dispatch" => f.bh = NoBH,
         call[t] = Quiet,
         UNCHANGED <<loopVars, call, deleted>>,
         \A u \in Threads : call[u].bh \in Live => call[u].bh \in Live',
         TypeOK', WalkInv'
  PROVE  IndInv'
<1>0. UNCHANGED <<queue, pc, call>> /\ TypeOK BY DEF loopVars, IndInv
<1>1. /\ \A u \in Threads : InPoll(u)' <=> InPoll(u)
      /\ Top(t)' = f /\ InPoll(t) /\ Depth(t)' = Depth(t)
  BY <1>0, TopIs DEF TopTo
<1>2. ~Sleepy(t)' BY <1>1 DEF Sleepy
<1>3. stack'[t][1].was = stack[t][1].was BY <1>0, WasKept
<1>4. ~stack'[t][1].was BY <1>1, <1>3 DEF IndInv, DispatchInv
<1>5. \A u \in Threads : u # t => stack'[u] = stack[u] BY DEF TopTo
<1>6. DispatchInv' /\ WakeInv' /\ StopInv' /\ KickInv'
  BY <1>0, <1>1, <1>2, <1>4, <1>5, AwakeStep DEF IndInv
<1>7. StackInv' BY <1>0, StackTop DEF IndInv, Early
<1>8. LockInv' BY <1>0, SameLock DEF IndInv
<1>9. CallInv' BY <1>0 DEF IndInv, CallInv
<1>10. QED BY <1>6, <1>7, <1>8, <1>9 DEF IndInv

-----------------------------------------------------------------------------
(* The walks.                                                              *)

Walk == {"bh", "claimed", "cb"}

\* The innermost call walks, or it does not.
LEMMA WalkingTop ==
  ASSUME TypeOK, StackInv, NEW t \in Threads, NEW f, TopTo(t, f)
  PROVE  /\ <<t, Depth(t)>> \in WalkingFrames <=> Top(t).pc \in Walk
         /\ WalkingFrames' = IF f.pc \in Walk THEN WalkingFrames \cup {<<t, Depth(t)>>}
                             ELSE WalkingFrames \ {<<t, Depth(t)>>}
<1> DEFINE d == Depth(t)
<1>1. /\ d \in Nat /\ d > 0 /\ d = Len(stack[t]) /\ Top(t) = stack[t][d] /\ d <= MaxDepth
  BY StackOf DEF TopTo, StackInv
<1>2. MaxDepth \in Nat BY AioAssumption
<1>3. d \in 1 .. MaxDepth /\ <<t, d>> \in Frames BY <1>1, <1>2 DEF Frames
<1>4. /\ \A u \in Threads : Depth(u)' = Depth(u) /\ Depth(u) \in Nat
      /\ \A u \in Threads : u # t => stack'[u] = stack[u]
      /\ \A i \in 1 .. d - 1 : stack'[t][i] = stack[t][i]
      /\ stack'[t][d] = f
  BY <1>1, TopIs, StackOf DEF TopTo
<1> HIDE DEF d
<1>5. <<t, d>> \in WalkingFrames <=> Top(t).pc \in Walk
  <2>1. d <= Depth(t) BY <1>1 DEF d
  <2>2. <<t, d>>[1] = t /\ <<t, d>>[2] = d OBVIOUS
  <2>3. QED BY <1>1, <1>3, <2>1, <2>2 DEF WalkingFrames, Walk
<1>6. ASSUME NEW u \in Threads, NEW i \in 1 .. MaxDepth
      PROVE  <<u, i>> \in WalkingFrames'
               <=> IF u = t /\ i = d THEN f.pc \in Walk ELSE <<u, i>> \in WalkingFrames
  <2>1. <<u, i>> \in Frames /\ <<u, i>>[1] = u /\ <<u, i>>[2] = i BY DEF Frames
  <2>2. <<u, i>> \in WalkingFrames' <=> i <= Depth(u) /\ stack'[u][i].pc \in Walk
    BY <1>4, <2>1 DEF WalkingFrames, Walk, Frames
  <2>3. <<u, i>> \in WalkingFrames <=> i <= Depth(u) /\ stack[u][i].pc \in Walk
    BY <2>1 DEF WalkingFrames, Walk
  <2>4. CASE u # t BY <1>4, <2>2, <2>3, <2>4
  <2>5. CASE u = t /\ i = d
    <3>1. i <= Depth(u) BY <1>1, <2>5 DEF d
    <3>2. QED BY <1>4, <2>2, <2>5, <3>1
  <2>6. CASE u = t /\ i # d
    <3>1. i <= Depth(u) => i \in 1 .. d - 1 BY <1>1, <1>2, <2>6 DEF d
    <3>2. QED BY <1>4, <2>2, <2>3, <2>6, <3>1
  <2>7. QED BY <2>4, <2>5, <2>6
<1>7. /\ WalkingFrames \subseteq Frames /\ WalkingFrames' \subseteq Frames
  BY DEF WalkingFrames, Frames
<1>8. \A x \in Frames : \E u \in Threads, i \in 1 .. MaxDepth : x = <<u, i>>
  BY DEF Frames
<1> DEFINE W == IF f.pc \in Walk THEN WalkingFrames \cup {<<t, d>>}
                ELSE WalkingFrames \ {<<t, d>>}
<1>9. \A x \in Frames : x \in WalkingFrames' <=> x \in W
  <2> SUFFICES ASSUME NEW x \in Frames PROVE x \in WalkingFrames' <=> x \in W OBVIOUS
  <2>1. PICK u \in Threads, i \in 1 .. MaxDepth : x = <<u, i>> BY <1>8
  <2>2. x = <<t, d>> <=> u = t /\ i = d BY <2>1
  <2>3. QED BY <1>6, <2>1, <2>2
<1>10. W \subseteq Frames BY <1>3, <1>7
<1>11. WalkingFrames' = W BY <1>7, <1>9, <1>10
<1>12. QED BY <1>5, <1>11 DEF d

\* The pointers a walking frame holds.
PointersOk(f, list) == f.next \in list \cup {NoBH} /\ f.bh \in list \cup {NoBH}

\* The frames that walk after a step of the innermost call.
LEMMA PointersTop ==
  ASSUME TypeOK, StackInv, WalkInv, NEW t \in Threads, NEW f, TopTo(t, f),
         f.pc \in Walk => PointersOk(f, Linked'),
         Linked \subseteq Linked' \/ WalkingFrames' = {}
  PROVE  \A x \in WalkingFrames' : PointersOk(stack'[x[1]][x[2]], Linked')
<1> SUFFICES ASSUME NEW x \in WalkingFrames'
             PROVE  PointersOk(stack'[x[1]][x[2]], Linked')
  OBVIOUS
<1>1. Linked \subseteq Linked' OBVIOUS
<1>2. PICK u \in Threads, i \in 1 .. MaxDepth : x = <<u, i>>
  BY DEF WalkingFrames, Frames
<1>3. /\ \A v \in Threads : Depth(v)' = Depth(v) /\ Depth(v) \in Nat
      /\ Depth(t) = Len(stack[t]) /\ MaxDepth \in Nat
  BY TopIs, StackOf, AioAssumption
<1>4. i <= Depth(u) /\ x[1] = u /\ x[2] = i BY <1>2, <1>3 DEF WalkingFrames
<1>5. CASE x = <<t, Depth(t)>>
  <2>1. u = t /\ i = Depth(t) BY <1>2, <1>5
  <2>2. stack'[u][i] = f BY <1>3, <2>1 DEF TopTo
  <2>3. f.pc \in Walk BY <1>5, WalkingTop
  <2>4. QED BY <1>4, <2>2, <2>3
<1>6. CASE x # <<t, Depth(t)>>
  <2>1. x \in WalkingFrames BY <1>6, WalkingTop
  <2>2. stack'[u][i] = stack[u][i]
    <3>1. CASE u # t BY <3>1 DEF TopTo
    <3>2. CASE u = t
      <4>1. i \in 1 .. Len(stack[t]) - 1 BY <1>2, <1>3, <1>4, <1>6, <3>2
      <4>2. QED BY <3>2, <4>1 DEF TopTo
    <3>3. QED BY <3>1, <3>2
  <2>3. PointersOk(stack[u][i], Linked)
    BY <1>4, <2>1 DEF WalkInv, NoDanglingBh, PointersOk
  <2>4. QED BY <1>1, <1>4, <2>2, <2>3 DEF PointersOk
<1>7. QED BY <1>5, <1>6

\* The innermost call neither starts nor ends a walk.
LEMMA WalkSame ==
  ASSUME TypeOK, StackInv, WalkInv, NEW t \in Threads, NEW f, TopTo(t, f),
         f.pc \in Walk <=> Top(t).pc \in Walk,
         f.pc \in Walk => PointersOk(f, Linked'),
         UNCHANGED <<first_bh, walking_bh>>
  PROVE  WalkInv'
<1>1. WalkingFrames' = WalkingFrames BY WalkingTop
<1>2. Linked' = Linked BY DEF Linked
<1>3. \A x \in WalkingFrames' : PointersOk(stack'[x[1]][x[2]], Linked')
  BY <1>2, PointersTop
<1>4. QED BY <1>1, <1>3 DEF WalkInv, NoDanglingBh, PointersOk

\* walking_bh++ (async.c:68) when a frame begins its walk.
LEMMA WalkUp ==
  ASSUME TypeOK, StackInv, WalkInv, NEW t \in Threads, NEW f, TopTo(t, f),
         f.pc \in Walk, Top(t).pc \notin Walk, PointersOk(f, Linked'),
         UNCHANGED first_bh, walking_bh' = walking_bh + 1
  PROVE  WalkInv'
<1> DEFINE x == <<t, Depth(t)>>
<1>1. WalkingFrames' = WalkingFrames \cup {x} /\ x \notin WalkingFrames BY WalkingTop
<1>2. Linked' = Linked BY DEF Linked
<1>3. \A y \in WalkingFrames' : PointersOk(stack'[y[1]][y[2]], Linked')
  BY <1>2, PointersTop
<1> HIDE DEF x
<1>4. /\ IsFiniteSet(WalkingFrames \cup {x})
      /\ Cardinality(WalkingFrames \cup {x}) = Cardinality(WalkingFrames) + 1
  BY <1>1, FS_AddElement DEF WalkInv
<1>5. QED BY <1>1, <1>3, <1>4 DEF WalkInv, NoDanglingBh, PointersOk

\* What was deleted is freed when no walk is left.
LEMMA WalkDown ==
  ASSUME TypeOK, StackInv, WalkInv, NEW t \in Threads, NEW f, TopTo(t, f),
         f.pc \notin Walk, Top(t).pc \in Walk, walking_bh' = walking_bh - 1,
         walking_bh' = 0 \/ UNCHANGED first_bh
  PROVE  WalkInv' /\ walking_bh' \in Nat
<1> DEFINE x == <<t, Depth(t)>>
<1>1. WalkingFrames' = WalkingFrames \ {x} /\ x \in WalkingFrames BY WalkingTop
<1> HIDE DEF x
<1>2. /\ IsFiniteSet(WalkingFrames \ {x})
      /\ Cardinality(WalkingFrames \ {x}) = Cardinality(WalkingFrames) - 1
  BY <1>1, FS_RemoveElement DEF WalkInv
<1>3. walking_bh' = Cardinality(WalkingFrames') BY <1>1, <1>2 DEF WalkInv, NoDanglingBh
<1>4. walking_bh' \in Nat BY <1>1, <1>2, <1>3, FS_CardinalityType
<1>5. walking_bh' = 0 => WalkingFrames' = {} BY <1>1, <1>2, <1>3, FS_EmptySet
<1>6. UNCHANGED first_bh => Linked' = Linked BY DEF Linked
<1>7. \A y \in WalkingFrames' : PointersOk(stack'[y[1]][y[2]], Linked')
  BY <1>5, <1>6, PointersTop
<1>8. QED BY <1>1, <1>2, <1>3, <1>4, <1>7 DEF WalkInv, NoDanglingBh, PointersOk

\* The walks are the same and no bottom half is freed.
LEMMA WalkKept ==
  ASSUME WalkInv, WalkingFrames' = WalkingFrames, UNCHANGED walking_bh,
         Linked \subseteq Linked',
         \A x \in WalkingFrames : stack'[x[1]][x[2]] = stack[x[1]][x[2]]
  PROVE  WalkInv'
BY DEF WalkInv, NoDanglingBh

\* Steps that unlink nothing.
LEMMA WalkUnchanged ==
  ASSUME WalkInv, UNCHANGED <<stack, walking_bh>>, Linked \subseteq Linked'
  PROVE  WalkInv'
<1>1. WalkingFrames' = WalkingFrames BY DEF WalkingFrames, Frames, Depth
<1>2. QED BY <1>1, WalkKept

-----------------------------------------------------------------------------
(* What aio_poll does.                                                     *)

\* A call that is not in the middle of another one.
LEMMA AtIs ==
  ASSUME TypeOK, NEW t \in Threads, NEW p, At(t, p)
  PROVE  InPoll(t) /\ Top(t) \in Frame /\ Top(t).pc = p /\ call[t] = Quiet
BY StackOf DEF At

\* Steps that change a frame and nothing else of the types.
LEMMA TopType ==
  ASSUME TypeOK, NEW t \in Threads, NEW f, TopTo(t, f),
         UNCHANGED <<loopVars, call, deleted>>, first_bh' \in Seq(BHs),
         walking_bh' \in Nat, dispatching' \in BOOLEAN, notifier' \in BOOLEAN,
         io' \in BOOLEAN, revents' \in SUBSET Fds,
         scheduled' \in [BHs -> BOOLEAN], idle' \in [BHs -> BOOLEAN]
  PROVE  TypeOK'
<1>1. stack' \in [Threads -> Seq(Frame)] BY DEF TopTo
<1>2. AioTypeOK' BY <1>1 DEF TypeOK, AioTypeOK
<1>3. QED BY <1>2 DEF TypeOK, loopVars

\* The parts of the type invariant, for use with TopType.
LEMMA Parts ==
  ASSUME TypeOK
  PROVE  /\ first_bh \in Seq(BHs) /\ walking_bh \in Nat /\ dispatching \in BOOLEAN
         /\ notifier \in BOOLEAN /\ io \in BOOLEAN /\ revents \in SUBSET Fds
         /\ scheduled \in [BHs -> BOOLEAN] /\ idle \in [BHs -> BOOLEAN]
         /\ deleted \in [BHs -> BOOLEAN]
BY DEF TypeOK, AioTypeOK

\* A walk stands on bottom halves in the list.
LEMMA TopPointers ==
  ASSUME TypeOK, StackInv, WalkInv, NEW t \in Threads, InPoll(t), Top(t).pc \in Walk
  PROVE  PointersOk(Top(t), Linked)
<1> DEFINE x == <<t, Depth(t)>>
<1>1. /\ Depth(t) \in Nat /\ Depth(t) > 0 /\ Top(t) = stack[t][Depth(t)]
      /\ Depth(t) <= MaxDepth /\ MaxDepth \in Nat
  BY StackOf, AioAssumption DEF StackInv
<1>2. x \in Frames /\ x[1] = t /\ x[2] = Depth(t) BY <1>1 DEF Frames
<1>3. x \in WalkingFrames BY <1>1, <1>2 DEF WalkingFrames, Walk
<1>4. QED BY <1>1, <1>2, <1>3 DEF WalkInv, NoDanglingBh, PointersOk

\* bh->next of a bottom half in the list.
LEMMA NextIs ==
  ASSUME first_bh \in Seq(BHs), NEW b \in Linked
  PROVE  NextOf(b) \in Linked \cup {NoBH}
<1>1. DOMAIN first_bh = 1 .. Len(first_bh) /\ Len(first_bh) \in Nat BY LenProperties
<1>2. \E i \in DOMAIN first_bh : first_bh[i] = b BY DEF Linked, ToSet
<1> DEFINE i == CHOOSE i \in DOMAIN first_bh : first_bh[i] = b
<1>3. i \in DOMAIN first_bh BY <1>2
<1>4. NextOf(b) = IF i = Len(first_bh) THEN NoBH ELSE first_bh[i + 1] BY DEF NextOf
<1> HIDE DEF i
<1>5. i # Len(first_bh) => i + 1 \in DOMAIN first_bh BY <1>1, <1>3
<1>6. QED BY <1>4, <1>5 DEF Linked, ToSet

\* The linked bottom halves are bottom halves.
LEMMA LinkedIn ==
  ASSUME first_bh \in Seq(BHs) PROVE Linked \subseteq BHs
BY LenProperties, ElementOfSeq DEF Linked, ToSet

\* The first of the list is linked, or there is none.
LEMMA FirstIs ==
  ASSUME first_bh \in Seq(BHs)
  PROVE  FirstOf(first_bh) \in Linked \cup {NoBH} /\ FirstOf(first_bh) \in BHs \cup {NoBH}
<1>1. CASE first_bh = <<>> BY <1>1 DEF FirstOf
<1>2. CASE first_bh # <<>>
  <2>1. 1 \in DOMAIN first_bh /\ Head(first_bh) = first_bh[1]
    BY <1>2, LenProperties, EmptySeq
  <2>2. Head(first_bh) \in Linked BY <2>1 DEF Linked, ToSet
  <2>3. QED BY <1>2, <2>2, LinkedIn DEF FirstOf
<1>3. QED BY <1>1, <1>2

\* The list of bottom halves is not touched.
LEMMA SameLive ==
  ASSUME UNCHANGED <<first_bh, deleted>> PROVE Live' = Live /\ Linked' = Linked
BY DEF Live, Linked

\* qemu_poll_ns returns.
LEMMA PollReturnStep ==
  ASSUME IndInv, NEW t \in Threads, PollReturn(t), UNCHANGED loopVars PROVE IndInv'
<1> USE DEF bhVars
<1> DEFINE f == [Top(t) EXCEPT !.pc = "dispatch", !.timeout = "zero"]
<1>0. TypeOK /\ StackInv /\ WalkInv BY DEF IndInv
<1>1. InPoll(t) /\ Top(t) \in Frame /\ Top(t).pc = "poll" /\ call[t] = Quiet
  BY <1>0, AtIs DEF PollReturn
<1>2. /\ f \in Frame /\ f.was = Top(t).was /\ f.pc = "dispatch" /\ f.bh = NoBH
  BY <1>0, <1>1 DEF Frame, FramePc, Timeout, StackInv, Early
<1>3. Becomes(t, f) /\ UNCHANGED <<first_bh, walking_bh, deleted, call>> BY DEF PollReturn
<1> HIDE DEF f
<1>4. TopTo(t, f) BY <1>0, <1>1, <1>2, <1>3, BecomesIs
<1>5. revents' \in SUBSET Fds
  <2>1. Ready \subseteq Fds BY DEF Ready
  <2>2. QED BY <1>0, <2>1, Parts DEF PollReturn
<1>6. TypeOK' BY <1>0, <1>4, <1>5, Parts, TopType DEF PollReturn
<1>7. WalkInv' BY <1>0, <1>1, <1>2, <1>3, <1>4, WalkSame DEF Walk
<1>8. QED BY <1>1, <1>2, <1>3, <1>4, <1>6, <1>7, SameLive, TopStep

\* The walk over the bottom halves starts.
LEMMA DispatchStartStep ==
  ASSUME IndInv, NEW t \in Threads, DispatchStart(t), UNCHANGED loopVars PROVE IndInv'
<1> DEFINE f == [Top(t) EXCEPT !.pc = "bh", !.next = FirstOf(first_bh)]
<1>0. TypeOK /\ StackInv /\ WalkInv BY DEF IndInv
<1>1. InPoll(t) /\ Top(t) \in Frame /\ Top(t).pc = "dispatch" /\ call[t] = Quiet
  BY <1>0, AtIs DEF DispatchStart
<1>2. /\ f \in Frame /\ f.was = Top(t).was /\ f.pc = "bh"
      /\ f.next = FirstOf(first_bh) /\ f.bh = NoBH
  BY <1>0, <1>1, FirstIs, Parts DEF Frame, FramePc, StackInv, Early
<1>3. Becomes(t, f) /\ UNCHANGED <<first_bh, deleted, call>> BY DEF DispatchStart
<1> HIDE DEF f
<1>4. TopTo(t, f) BY <1>0, <1>1, <1>2, <1>3, BecomesIs
<1>5. TypeOK' BY <1>0, <1>4, Parts, TopType DEF DispatchStart, fdVars
<1>6. PointersOk(f, Linked')
  BY <1>0, <1>2, <1>3, FirstIs, Parts, SameLive DEF PointersOk
<1>7. walking_bh' = walking_bh + 1 BY DEF DispatchStart
<1>8. WalkInv' BY <1>0, <1>1, <1>2, <1>3, <1>4, <1>6, <1>7, WalkUp DEF Walk
<1>9. QED BY <1>1, <1>2, <1>3, <1>4, <1>5, <1>8, SameLive, TopStep

\* One bottom half is looked at.
LEMMA BhVisitStep ==
  ASSUME IndInv, NEW t \in Threads, BhVisit(t), UNCHANGED loopVars PROVE IndInv'
<1> DEFINE b   == Top(t).next
           run == ~deleted[b] /\ scheduled[b]
           f   == [Top(t) EXCEPT !.next = NextOf(b),
                                 !.pc = IF run THEN "claimed" ELSE "bh",
                                 !.bh = IF run THEN b ELSE NoBH]
<1>0. TypeOK /\ StackInv /\ WalkInv BY DEF IndInv
<1>1. /\ InPoll(t) /\ Top(t) \in Frame /\ Top(t).pc = "bh" /\ call[t] = Quiet
      /\ b # NoBH
  BY <1>0, AtIs DEF BhVisit
<1>2. b \in Linked BY <1>0, <1>1, TopPointers DEF PointersOk, Walk
<1>3. NextOf(b) \in Linked \cup {NoBH} /\ Linked \subseteq BHs
  BY <1>0, <1>2, NextIs, LinkedIn, Parts
<1>4. /\ Becomes(t, f) /\ UNCHANGED <<first_bh, walking_bh, deleted, call>>
      /\ scheduled' = [scheduled EXCEPT ![b] = @ /\ deleted[b]]
  BY DEF BhVisit
<1> HIDE DEF b
<1>5. /\ f \in Frame /\ f.was = Top(t).was /\ f.pc \in {"claimed", "bh"}
      /\ f.next = NextOf(b) /\ f.bh \in {b, NoBH}
  BY <1>1, <1>2, <1>3 DEF Frame, FramePc
<1> HIDE DEF f
<1>6. TopTo(t, f) BY <1>0, <1>1, <1>4, <1>5, BecomesIs
<1>7. scheduled' \in [BHs -> BOOLEAN]
  <2>1. deleted[b] \in BOOLEAN /\ scheduled[b] \in BOOLEAN /\ b \in BHs
    BY <1>0, <1>2, <1>3, Parts
  <2>2. (scheduled[b] /\ deleted[b]) \in BOOLEAN OBVIOUS
  <2>3. QED BY <1>0, <1>4, <2>1, <2>2, Parts
<1>8. TypeOK' BY <1>0, <1>6, <1>7, Parts, TopType DEF BhVisit, fdVars
<1>9. PointersOk(f, Linked')
  BY <1>2, <1>3, <1>4, <1>5, SameLive DEF PointersOk
<1>10. WalkInv' BY <1>0, <1>1, <1>4, <1>5, <1>6, <1>9, WalkSame DEF Walk
<1>11. QED BY <1>1, <1>4, <1>5, <1>6, <1>8, <1>10, SameLive, TopStep

\* Its callback is called, and returns.
LEMMA BhCallStep ==
  ASSUME IndInv, NEW t \in Threads, BhCall(t), UNCHANGED loopVars PROVE IndInv'
<1> DEFINE p == Top(t).progress \/ ~idle[Top(t).bh]
           f == [Top(t) EXCEPT !.pc = "cb", !.progress = p]
<1>0. TypeOK /\ StackInv /\ WalkInv BY DEF IndInv
<1>1. InPoll(t) /\ Top(t) \in Frame /\ Top(t).pc = "claimed" /\ call[t] = Quiet
  BY <1>0, AtIs DEF BhCall
<1>2. /\ Becomes(t, f) /\ UNCHANGED <<first_bh, walking_bh, deleted, call>>
      /\ idle' = [idle EXCEPT ![Top(t).bh] = FALSE]
  BY DEF BhCall
<1>3. p \in BOOLEAN OBVIOUS
<1> HIDE DEF p
<1>4. /\ f \in Frame /\ f.was = Top(t).was /\ f.pc = "cb"
      /\ f.next = Top(t).next /\ f.bh = Top(t).bh
  BY <1>1, <1>3 DEF Frame, FramePc
<1> HIDE DEF f
<1>5. TopTo(t, f) BY <1>0, <1>1, <1>2, <1>4, BecomesIs
<1>6. idle' \in [BHs -> BOOLEAN] BY <1>0, <1>2, Parts
<1>7. TypeOK' BY <1>0, <1>5, <1>6, Parts, TopType DEF BhCall, fdVars
<1>8. PointersOk(f, Linked')
  <2>1. PointersOk(Top(t), Linked) BY <1>0, <1>1, TopPointers DEF Walk
  <2>2. QED BY <1>2, <1>4, <2>1, SameLive DEF PointersOk
<1>9. WalkInv' BY <1>0, <1>1, <1>2, <1>4, <1>5, <1>8, WalkSame DEF Walk
<1>10. QED BY <1>1, <1>2, <1>4, <1>5, <1>7, <1>9, SameLive, TopStep

\* A callback of a bottom half returns into the walk.
LEMMA BhReturnStep ==
  ASSUME IndInv, NEW t \in Threads, BhReturn(t), UNCHANGED loopVars PROVE IndInv'
<1> DEFINE f == [Top(t) EXCEPT !.pc = "bh", !.bh = NoBH]
<1>0. TypeOK /\ StackInv /\ WalkInv BY DEF IndInv
<1>1. InPoll(t) /\ Top(t) \in Frame /\ Top(t).pc = "cb" /\ call[t] = Quiet
  BY <1>0, AtIs DEF BhReturn
<1>2. /\ Becomes(t, f) /\ UNCHANGED <<bhVars, fdVars, dispatching, call>> BY DEF BhReturn
<1>3. /\ f \in Frame /\ f.was = Top(t).was /\ f.pc = "bh"
      /\ f.next = Top(t).next /\ f.bh = NoBH
  BY <1>1 DEF Frame, FramePc
<1> HIDE DEF f
<1>4. TopTo(t, f) BY <1>0, <1>1, <1>2, <1>3, BecomesIs
<1>5. TypeOK' BY <1>0, <1>2, <1>4, Parts, TopType DEF fdVars, bhVars
<1>6. UNCHANGED <<first_bh, walking_bh, deleted>> BY <1>2 DEF bhVars
<1>7. PointersOk(f, Linked')
  <2>1. PointersOk(Top(t), Linked) BY <1>0, <1>1, TopPointers DEF Walk
  <2>2. QED BY <1>3, <1>6, <2>1, SameLive DEF PointersOk
<1>8. WalkInv' BY <1>0, <1>1, <1>3, <1>4, <1>6, <1>7, WalkSame DEF Walk
<1>9. QED BY <1>1, <1>2, <1>3, <1>4, <1>5, <1>6, <1>8, SameLive, TopStep

\* The walk ends, and what was deleted is freed if it was the last one.
LEMMA BhEndStep ==
  ASSUME IndInv, NEW t \in Threads, BhEnd(t), UNCHANGED loopVars PROVE IndInv'
<1> DEFINE f == [Top(t) EXCEPT !.pc = "handlers"]
<1>0. TypeOK /\ StackInv /\ WalkInv BY DEF IndInv
<1>1. InPoll(t) /\ Top(t) \in Frame /\ Top(t).pc = "bh" /\ call[t] = Quiet
  BY <1>0, AtIs DEF BhEnd
<1>2. /\ Becomes(t, f) /\ walking_bh' = walking_bh - 1
      /\ UNCHANGED <<scheduled, idle, deleted, fdVars, dispatching, call>>
      /\ first_bh' = IF walking_bh' = 0 THEN Undeleted ELSE first_bh
  BY DEF BhEnd
<1>3. f \in Frame /\ f.was = Top(t).was /\ f.pc = "handlers" BY <1>1 DEF Frame, FramePc
<1> HIDE DEF f
<1>4. TopTo(t, f) BY <1>0, <1>1, <1>2, <1>3, BecomesIs
<1>5. WalkInv' /\ walking_bh' \in Nat
  BY <1>0, <1>1, <1>2, <1>3, <1>4, WalkDown DEF Walk
<1>6. first_bh' \in Seq(BHs) /\ Live' = Live
  <2>1. /\ Undeleted \in Seq(BHs) /\ ToSet(Undeleted) = {b \in Linked : ~deleted[b]}
    BY <1>0, UndeletedIs, Parts
  <2>2. CASE walking_bh' = 0
    <3>1. first_bh' = Undeleted BY <1>2, <2>2
    <3>2. Linked' = Live BY <2>1, <3>1 DEF Linked, Live
    <3>3. deleted' = deleted BY <1>2
    <3>4. QED BY <2>1, <3>1, <3>2, <3>3 DEF Live
  <2>3. CASE walking_bh' # 0
    <3>1. UNCHANGED <<first_bh, deleted>> BY <1>2, <2>3
    <3>2. QED BY <1>0, <3>1, SameLive, Parts
  <2>4. QED BY <2>2, <2>3
<1>7. TypeOK' BY <1>0, <1>2, <1>4, <1>5, <1>6, Parts, TopType DEF fdVars
<1>8. QED BY <1>1, <1>2, <1>3, <1>4, <1>5, <1>6, <1>7, TopStep

\* The handlers.
LEMMA HandleIoStep ==
  ASSUME IndInv, NEW t \in Threads, HandleIo(t), UNCHANGED loopVars PROVE IndInv'
<1> DEFINE f == [Top(t) EXCEPT !.pc = "iocb", !.progress = TRUE]
<1>0. TypeOK /\ StackInv /\ WalkInv BY DEF IndInv
<1>1. InPoll(t) /\ Top(t) \in Frame /\ Top(t).pc = "handlers" /\ call[t] = Quiet
  BY <1>0, AtIs DEF HandleIo
<1>2. Becomes(t, f) /\ UNCHANGED <<bhVars, notifier, dispatching, call>> BY DEF HandleIo
<1>3. f \in Frame /\ f.was = Top(t).was /\ f.pc = "iocb" BY <1>1 DEF Frame, FramePc
<1> HIDE DEF f
<1>4. TopTo(t, f) BY <1>0, <1>1, <1>2, <1>3, BecomesIs
<1>5. TypeOK' BY <1>0, <1>2, <1>4, Parts, TopType DEF bhVars, HandleIo
<1>6. UNCHANGED <<first_bh, walking_bh, deleted>> BY <1>2 DEF bhVars
<1>7. WalkInv' BY <1>0, <1>1, <1>3, <1>4, <1>6, WalkSame DEF Walk
<1>8. QED BY <1>1, <1>2, <1>3, <1>4, <1>5, <1>6, <1>7, SameLive, TopStep

\* A handler returns into aio_dispatch.
LEMMA IoReturnStep ==
  ASSUME IndInv, NEW t \in Threads, IoReturn(t), UNCHANGED loopVars PROVE IndInv'
<1> DEFINE f == [Top(t) EXCEPT !.pc = "handlers"]
<1>0. TypeOK /\ StackInv /\ WalkInv BY DEF IndInv
<1>1. InPoll(t) /\ Top(t) \in Frame /\ Top(t).pc = "iocb" /\ call[t] = Quiet
  BY <1>0, AtIs DEF IoReturn
<1>2. Becomes(t, f) /\ UNCHANGED <<bhVars, fdVars, dispatching, call>> BY DEF IoReturn
<1>3. f \in Frame /\ f.was = Top(t).was /\ f.pc = "handlers" BY <1>1 DEF Frame, FramePc
<1> HIDE DEF f
<1>4. TopTo(t, f) BY <1>0, <1>1, <1>2, <1>3, BecomesIs
<1>5. TypeOK' BY <1>0, <1>2, <1>4, Parts, TopType DEF bhVars, fdVars
<1>6. UNCHANGED <<first_bh, walking_bh, deleted>> BY <1>2 DEF bhVars
<1>7. WalkInv' BY <1>0, <1>1, <1>3, <1>4, <1>6, WalkSame DEF Walk
<1>8. QED BY <1>1, <1>2, <1>3, <1>4, <1>5, <1>6, <1>7, SameLive, TopStep

\* event_notifier_test_and_clear: nobody who could block is there to miss it.
LEMMA HandleNotifierStep ==
  ASSUME IndInv, NEW t \in Threads, HandleNotifier(t), UNCHANGED loopVars PROVE IndInv'
<1>0. TypeOK /\ StackInv /\ WalkInv BY DEF IndInv
<1>1. InPoll(t) /\ Top(t) \in Frame /\ Top(t).pc = "handlers" /\ call[t] = Quiet
  BY <1>0, AtIs DEF HandleNotifier
<1>2. UNCHANGED <<bhVars, dispatching, stack, call, pc, queue>>
  BY DEF HandleNotifier, loopVars
<1>3. InPoll(t)' /\ ~Sleepy(t)' /\ ~stack'[t][1].was
  BY <1>1, <1>2 DEF InPoll, Sleepy, Top, Depth, IndInv, DispatchInv
<1>4. DispatchInv' /\ WakeInv' /\ StopInv' /\ KickInv'
  BY <1>1, <1>2, <1>3, AwakeStep DEF IndInv
<1>5. TypeOK'
  <2>1. revents' \in SUBSET Fds /\ notifier' \in BOOLEAN /\ io' = io BY DEF HandleNotifier
  <2>2. AioTypeOK' BY <1>0, <1>2, <2>1 DEF TypeOK, AioTypeOK, bhVars
  <2>3. QED BY <1>0, <2>2 DEF TypeOK, loopVars
<1>6. LockInv' BY <1>2, SameLock DEF IndInv
<1>7. StackInv' BY <1>0, <1>2 DEF StackInv, InPoll, Top, Depth
<1>8. CallInv' BY <1>2, SameCalls DEF IndInv, bhVars
<1>9. WalkInv'
  <2>1. UNCHANGED <<stack, walking_bh>> /\ Linked' = Linked BY <1>2, SameLive DEF bhVars
  <2>2. QED BY <1>0, <2>1, WalkUnchanged
<1>10. QED BY <1>4, <1>5, <1>6, <1>7, <1>8, <1>9 DEF IndInv

\* The timeout is computed: who blocks without one saw nothing scheduled.
LEMMA PollStartStep ==
  ASSUME IndInv, NEW t \in Threads, PollStart(t), UNCHANGED loopVars PROVE IndInv'
<1> DEFINE w == IF Top(t).timeout = "zero" THEN "zero" ELSE aio_compute_timeout
           f == [Top(t) EXCEPT !.pc = "poll", !.timeout = w]
<1>0. /\ TypeOK /\ StackInv /\ WalkInv /\ LockInv /\ CallInv /\ DispatchInv
      /\ StopInv /\ KickInv
  BY DEF IndInv
<1>1. /\ InPoll(t) /\ Top(t) \in Frame /\ Top(t).pc = "compute" /\ call[t] = Quiet
      /\ Top(t).bh = NoBH /\ Top(t).timeout \in {"zero", "none"}
  <2>1. InPoll(t) /\ Top(t) \in Frame /\ Top(t).pc = "compute" /\ call[t] = Quiet
    BY <1>0, AtIs DEF PollStart
  <2>2. QED BY <1>0, <2>1 DEF StackInv, Early, Frame, Timeout
<1>2. Becomes(t, f) /\ UNCHANGED <<bhVars, fdVars, dispatching, call>> BY DEF PollStart
<1>3. w \in Timeout /\ (w = "none" => Top(t).timeout = "none" /\ Scheduled = {})
  BY <1>1 DEF Timeout, aio_compute_timeout
<1> HIDE DEF w
<1>4. /\ f \in Frame /\ f.was = Top(t).was /\ f.pc = "poll" /\ f.bh = NoBH
      /\ f.timeout = w
  BY <1>1, <1>3 DEF Frame, FramePc
<1> HIDE DEF f
<1>5. TopTo(t, f) BY <1>0, <1>1, <1>2, <1>4, BecomesIs
<1>6. TypeOK' BY <1>0, <1>2, <1>5, Parts, TopType DEF bhVars, fdVars
<1>7. /\ UNCHANGED <<first_bh, walking_bh, deleted, scheduled, notifier, dispatching>>
      /\ UNCHANGED <<pc, queue, call, stopping, blocking, signalled>>
  BY <1>2 DEF bhVars, fdVars, loopVars
<1>8. WalkInv' BY <1>0, <1>1, <1>4, <1>5, <1>7, WalkSame DEF Walk
<1>9. StackInv' BY <1>0, <1>1, <1>4, <1>5, <1>7, StackTop
<1>10. LockInv' /\ CallInv' BY <1>0, <1>7, SameLock, SameCalls
<1>11. /\ \A u \in Threads : Depth(u)' = Depth(u) /\ (InPoll(u)' <=> InPoll(u))
       /\ \A u \in Threads : u # t => Top(u)' = Top(u)
       /\ Top(t)' = f
  BY <1>0, <1>5, TopIs
<1>12. \A u \in Threads : Sleepy(u)' => Sleepy(u) /\ u = t /\ Scheduled = {}
  <2> SUFFICES ASSUME NEW u \in Threads, Sleepy(u)'
               PROVE  Sleepy(u) /\ u = t /\ Scheduled = {}
    OBVIOUS
  <2>1. u = t BY <1>0, <1>1, <1>11, Poller DEF Sleepy
  <2>2. w = "none" BY <1>4, <1>11, <2>1 DEF Sleepy
  <2>3. QED BY <1>1, <1>3, <2>1, <2>2 DEF Sleepy
<1>13. Scheduled' = Scheduled BY <1>7, SameLive DEF Scheduled
<1>14. Noted' <=> Noted BY <1>7 DEF Noted, Notifying
<1>15. Home \in Threads BY IoThreadAssumption
<1>16. Asleep' => Asleep BY <1>11, <1>12, <1>15 DEF Asleep
<1>17. DispatchInv'
  <2>1. (\A u \in Threads : ~InPoll(u)') => ~dispatching'
    BY <1>0, <1>7, <1>11 DEF DispatchInv
  <2>2. \A u \in Threads : InPoll(u)' => ~stack'[u][1].was
    <3>1. stack'[t][1].was = stack[t][1].was BY <1>0, <1>4, <1>5, WasKept
    <3>2. QED BY <1>0, <1>5, <1>11, <3>1 DEF DispatchInv, TopTo
  <2>3. \A u \in Threads : Sleepy(u)' => ~dispatching' BY <1>0, <1>7, <1>12 DEF DispatchInv
  <2>4. QED BY <2>1, <2>2, <2>3 DEF DispatchInv
<1>18. WakeInv' BY <1>12, <1>13 DEF WakeInv
<1>19. StopInv' BY <1>0, <1>7, <1>14, <1>16 DEF StopInv
<1>20. KickInv'
  <2>1. Region' => Region BY <1>7, <1>16 DEF Region
  <2>2. \A u \in Threads : Kicked(u)' <=> Kicked(u) BY <1>7 DEF Kicked
  <2>3. QED BY <1>0, <1>14, <2>1, <2>2 DEF KickInv
<1>21. QED BY <1>6, <1>8, <1>9, <1>10, <1>17, <1>18, <1>19, <1>20 DEF IndInv

-----------------------------------------------------------------------------
(* Calls other than aio_poll.                                              *)

\* Where a wakeup counts, `dispatching' is clear: a notification is not dropped.
LEMMA Listening ==
  ASSUME LockInv, StackInv, DispatchInv PROVE Region \/ pc[Home] = "call" => ~dispatching
<1>0. Home \in Threads BY IoThreadAssumption
<1>1. CASE Asleep BY <1>0, <1>1 DEF Asleep, DispatchInv
<1>2. CASE pc[Home] \in {"in", "call"} \/ \A t \in Threads : pc[t] \notin Owning
  <2>1. ASSUME NEW t \in Threads, InPoll(t) PROVE FALSE
    <3>1. pc[t] \in Owning /\ pc[Home] \notin {"in", "call"} BY <2>1, Poller
    <3>2. QED BY <1>2, <3>1
  <2>2. QED BY <2>1 DEF DispatchInv
<1>3. QED BY <1>1, <1>2 DEF Region

\* Thread t is left with c of its call, and has not touched what polls use.
CallTo(t, c) ==
  /\ c \in Call /\ call' = [call EXCEPT ![t] = c] /\ (notifier => notifier')
  /\ UNCHANGED <<stack, dispatching, walking_bh, loopVars>>

\* What is left may only be a call that the thread is able to make there.
CallOk(t, c) ==
  /\ IF c.step \in {"xchg", "mb_set"} THEN c.bh \in Live' ELSE c.bh = NoBH
  /\ c.step = "mb_set" => pc[t] \in Owning
  /\ c.step = "xchg" => pc[t] \in Owning \/ t \in Workers
  /\ InPoll(t) /\ c # Quiet => Top(t).pc \in InStack

\* A notification that is begun is not given up, unless it is not needed.
KeepsNotice(t, c) ==
  ~dispatching =>
    /\ call[t].step \in {"notify", "set"} => notifier' \/ c.step \in {"notify", "set"}
    /\ c = Quiet => call[t] = Quiet \/ pc[t] # "kicking" \/ notifier'

\* A step of a call to the API that keeps its pointers live and its notice pending.
LEMMA CallPreserves ==
  ASSUME IndInv, NEW t \in Threads, NEW c, CallTo(t, c), CallOk(t, c), KeepsNotice(t, c),
         TypeOK', Linked \subseteq Linked',
         \A u \in Threads : u # t /\ call[u].bh \in Live => call[u].bh \in Live',
         \A u \in Threads : Sleepy(u) => Scheduled' = {} \/ Scheduled # {} \/ Noted'
  PROVE  IndInv'
<1>0. /\ TypeOK /\ LockInv /\ StackInv /\ CallInv /\ DispatchInv /\ WakeInv /\ StopInv
      /\ KickInv /\ WalkInv /\ Home \in Threads
  BY IoThreadAssumption DEF IndInv
<1>1. /\ UNCHANGED <<stack, dispatching, walking_bh, pc, queue, stopping, blocking, signalled>>
      /\ call' = [call EXCEPT ![t] = c] /\ (notifier => notifier')
  BY DEF CallTo, loopVars
<1>2. call'[t] = c /\ \A u \in Threads : u # t => call'[u] = call[u]
  BY <1>0, <1>1 DEF TypeOK, AioTypeOK
<1>3. /\ \A u \in Threads : (InPoll(u)' <=> InPoll(u)) /\ Depth(u)' = Depth(u)
      /\ \A u \in Threads : Top(u)' = Top(u) /\ (Sleepy(u)' <=> Sleepy(u))
      /\ Asleep' <=> Asleep
  BY <1>0, <1>1 DEF InPoll, Depth, Top, Sleepy, Asleep
<1>4. LockInv' BY <1>0, <1>1, SameLock
<1>5. StackInv' BY <1>0, <1>1, <1>2, <1>3 DEF StackInv, CallOk
<1>6. CallInv' BY <1>0, <1>1, <1>2 DEF CallInv, CallOk
<1>7. DispatchInv' BY <1>0, <1>1, <1>3 DEF DispatchInv
<1>8. WalkInv' BY <1>0, <1>1, WalkUnchanged
<1>9. ASSUME ~dispatching, Noted PROVE Noted'
  <2>1. CASE notifier BY <1>1, <2>1 DEF Noted
  <2>2. CASE Notifying # {}
    <3>1. PICK u \in Threads : call[u].step \in {"notify", "set"} BY <2>2 DEF Notifying
    <3>2. notifier' \/ call'[u].step \in {"notify", "set"}
      BY <1>2, <1>9, <3>1 DEF KeepsNotice
    <3>3. QED BY <1>1, <1>9, <3>2 DEF Noted, Notifying
  <2>3. QED BY <1>9, <2>1, <2>2 DEF Noted
<1>10. WakeInv'
  <2> SUFFICES ASSUME NEW u \in Threads, Sleepy(u), Top(u).pc = "poll", Scheduled' # {}
               PROVE  Noted'
    BY <1>3 DEF WakeInv
  <2>1. ~dispatching BY <1>0 DEF DispatchInv
  <2>2. Scheduled # {} => Noted BY <1>0 DEF WakeInv
  <2>3. QED BY <1>9, <2>1, <2>2
<1>11. Region \/ pc[Home] = "call" => ~dispatching BY <1>0, Listening
<1>12. StopInv'
  <2>1. Asleep => Region BY DEF Region
  <2>2. QED BY <1>0, <1>1, <1>3, <1>9, <1>11, <2>1 DEF StopInv
<1>13. KickInv'
  <2> SUFFICES ASSUME Region', NEW u \in Threads, Kicked(u)' PROVE Noted'
    BY DEF KickInv
  <2>1. Region BY <1>1, <1>3 DEF Region
  <2>2. ~dispatching BY <1>11, <2>1
  <2>3. CASE Kicked(u) BY <1>0, <1>9, <2>1, <2>2, <2>3 DEF KickInv
  <2>4. CASE ~Kicked(u)
    <3>1. u = t /\ pc[t] = "kicking" /\ call[t] # Quiet /\ c = Quiet
      BY <1>1, <1>2, <2>4 DEF Kicked
    <3>2. QED BY <2>2, <3>1 DEF KeepsNotice, Noted
  <2>5. QED BY <2>3, <2>4
<1>14. QED BY <1>4, <1>5, <1>6, <1>7, <1>8, <1>10, <1>12, <1>13 DEF IndInv

\* Where calls are made: outside of aio_poll, or in one of its callbacks.
Outside(t) == InPoll(t) => Top(t).pc \in InStack

\* A thread with nothing left of its call stays like that.
LEMMA StaysQuiet ==
  ASSUME IndInv, NEW t \in Threads, call[t] = Quiet,
         UNCHANGED <<call, stack, dispatching, walking_bh, notifier, loopVars>>
  PROVE  CallTo(t, Quiet) /\ CallOk(t, Quiet) /\ KeepsNotice(t, Quiet)
<1>1. call \in [Threads -> Call] BY DEF IndInv, TypeOK, AioTypeOK
<1>2. Quiet \in Call /\ Quiet.step = "none" /\ Quiet.bh = NoBH BY DEF Quiet, Call
<1>3. call' = [call EXCEPT ![t] = Quiet] BY <1>1
<1>4. QED BY <1>2, <1>3 DEF CallTo, CallOk, KeepsNotice

\* A new bottom half is in the list and not scheduled.
LEMMA BhNewStep ==
  ASSUME IndInv, NEW t \in Threads, NEW b \in BHs, aio_bh_new(t, b), UNCHANGED loopVars
  PROVE  IndInv'
<1>0. TypeOK BY DEF IndInv
<1>1. /\ call[t] = Quiet /\ b \notin Linked
      /\ UNCHANGED <<walking_bh, notifier, revents, io, dispatching, stack, call>>
  BY DEF aio_bh_new, fdVars
<1>2. first_bh' \in Seq(BHs) /\ Linked' = Linked \cup {b}
  <2> DEFINE s == first_bh
             r == <<b>> \o s
  <2>1. s \in Seq(BHs) /\ <<b>> \in Seq(BHs) /\ Len(<<b>>) = 1 /\ <<b>>[1] = b
    BY <1>0, Parts
  <2>2. /\ r \in Seq(BHs) /\ Len(r) = 1 + Len(s) /\ Len(s) \in Nat
        /\ \A i \in 1 .. 1 + Len(s) : r[i] = IF i <= 1 THEN <<b>>[i] ELSE s[i - 1]
    <3> HIDE DEF s
    <3>1. QED BY <2>1, ConcatProperties, LenProperties
  <2>3. DOMAIN r = 1 .. 1 + Len(s) /\ DOMAIN s = 1 .. Len(s) BY <2>1, <2>2, LenProperties
  <2>4. first_bh' = r BY DEF aio_bh_new
  <2> HIDE DEF r, s
  <2>5. r[1] = b /\ 1 \in DOMAIN r BY <2>1, <2>2, <2>3
  <2>6. \A i \in DOMAIN s : i + 1 \in DOMAIN r /\ r[i + 1] = s[i]
    <3> TAKE i \in DOMAIN s
    <3>1. i + 1 \in 1 .. 1 + Len(s) /\ ~(i + 1 <= 1) /\ (i + 1) - 1 = i BY <2>2, <2>3
    <3>2. QED BY <2>2, <2>3, <3>1
  <2>7. \A i \in DOMAIN r : i = 1 \/ (i - 1 \in DOMAIN s /\ r[i] = s[i - 1])
    <3> TAKE i \in DOMAIN r
    <3>1. i # 1 => i - 1 \in 1 .. Len(s) /\ ~(i <= 1) BY <2>2, <2>3
    <3>2. QED BY <2>2, <2>3, <3>1
  <2>8. ToSet(r) = ToSet(s) \cup {b} BY <2>5, <2>6, <2>7 DEF ToSet
  <2>9. QED BY <2>2, <2>4, <2>8 DEF Linked, s
<1>3. /\ scheduled' = [scheduled EXCEPT ![b] = FALSE]
      /\ idle' = [idle EXCEPT ![b] = FALSE] /\ deleted' = [deleted EXCEPT ![b] = FALSE]
  BY DEF aio_bh_new
<1>4. TypeOK'
  <2>1. /\ scheduled' \in [BHs -> BOOLEAN] /\ idle' \in [BHs -> BOOLEAN]
        /\ deleted' \in [BHs -> BOOLEAN]
    BY <1>0, <1>3, Parts
  <2>2. AioTypeOK' BY <1>0, <1>1, <1>2, <2>1 DEF TypeOK, AioTypeOK
  <2>3. QED BY <1>0, <2>2 DEF TypeOK, loopVars
<1>5. Linked \subseteq BHs BY <1>0, LinkedIn, Parts
<1>6. \A x \in Linked : deleted'[x] = deleted[x] /\ scheduled'[x] = scheduled[x]
  BY <1>0, <1>1, <1>3, <1>5, Parts
<1>7. scheduled'[b] = FALSE BY <1>0, <1>3, Parts
<1>8. Live \subseteq Live' BY <1>2, <1>6 DEF Live
<1>9. Scheduled' = Scheduled BY <1>2, <1>6, <1>7 DEF Scheduled, Live
<1>10. CallTo(t, Quiet) /\ CallOk(t, Quiet) /\ KeepsNotice(t, Quiet) BY <1>1, StaysQuiet
<1>11. QED BY <1>2, <1>4, <1>8, <1>9, <1>10, CallPreserves

\* What the first half of qemu_bh_schedule and qemu_bh_schedule_idle have in common.
LEMMA ScheduleStarts ==
  ASSUME IndInv, NEW t \in Threads, NEW b \in BHs, NEW p \in {"xchg", "mb_set"}, NEW v \in BOOLEAN,
         Outside(t), pc[t] \in Owning \/ t \in Workers, p = "mb_set" => pc[t] \in Owning,
         call[t] = Quiet, b \in Live, idle' = [idle EXCEPT ![b] = v],
         call' = [call EXCEPT ![t] = [step |-> p, bh |-> b]],
         UNCHANGED <<first_bh, walking_bh, scheduled, deleted, fdVars, dispatching, stack>>,
         UNCHANGED loopVars
  PROVE  IndInv'
<1> DEFINE c == [step |-> p, bh |-> b]
<1>0. TypeOK /\ UNCHANGED <<notifier, revents, io>> BY DEF IndInv, fdVars
<1>1. c \in Call /\ c.step = p /\ c.bh = b BY DEF Call
<1>2. call' = [call EXCEPT ![t] = c] OBVIOUS
<1> HIDE DEF c
<1>3. TypeOK'
  <2>1. idle' \in [BHs -> BOOLEAN] BY <1>0, Parts
  <2>2. call' \in [Threads -> Call] BY <1>0, <1>1, <1>2 DEF TypeOK, AioTypeOK
  <2>3. AioTypeOK' BY <1>0, <2>1, <2>2 DEF TypeOK, AioTypeOK
  <2>4. QED BY <1>0, <2>3 DEF TypeOK, loopVars
<1>4. Live' = Live /\ Linked' = Linked BY SameLive
<1>5. Scheduled' = Scheduled BY <1>4 DEF Scheduled
<1>6. CallTo(t, c) BY <1>0, <1>1, <1>2 DEF CallTo
<1>7. CallOk(t, c) BY <1>1, <1>4 DEF CallOk, Outside
<1>8. KeepsNotice(t, c) BY <1>1 DEF KeepsNotice, Quiet
<1>9. QED BY <1>3, <1>4, <1>5, <1>6, <1>7, <1>8, CallPreserves

\* qemu_bh_schedule begins.
LEMMA ScheduleStep ==
  ASSUME IndInv, NEW t \in Threads, NEW b \in BHs, Outside(t),
         pc[t] \in Owning \/ t \in Workers, qemu_bh_schedule(t, b), UNCHANGED loopVars
  PROVE  IndInv'
BY ScheduleStarts DEF qemu_bh_schedule

\* qemu_bh_schedule_idle, by a thread that owns the context: nobody sleeps meanwhile.
LEMMA ScheduleIdleStep ==
  ASSUME IndInv, NEW t \in Threads, NEW b \in BHs, Outside(t), pc[t] \in Owning,
         qemu_bh_schedule_idle(t, b), UNCHANGED loopVars
  PROVE  IndInv'
<1> DEFINE p == "mb_set"
<1>1. /\ call[t] = Quiet /\ b \in Live
      /\ call' = [call EXCEPT ![t] = [step |-> p, bh |-> b]]
      /\ UNCHANGED <<first_bh, walking_bh, scheduled, deleted, fdVars, dispatching, stack>>
      /\ p \in {"xchg", "mb_set"}
  BY DEF qemu_bh_schedule_idle
<1> HIDE DEF p
<1>2. PICK v \in BOOLEAN : idle' = [idle EXCEPT ![b] = v] BY DEF qemu_bh_schedule_idle
<1>3. pc[t] \in Owning \/ t \in Workers OBVIOUS
<1>4. p = "mb_set" => pc[t] \in Owning OBVIOUS
<1>5. QED BY <1>1, <1>2, <1>3, <1>4, ScheduleStarts

\* qemu_bh_cancel, and qemu_bh_delete of what nobody is about to schedule.
LEMMA CancelStep ==
  ASSUME IndInv, NEW t \in Threads, NEW b \in BHs, qemu_bh_cancel(t, b), UNCHANGED loopVars
  PROVE  IndInv'
<1>0. TypeOK BY DEF IndInv
<1>1. /\ call[t] = Quiet /\ scheduled' = [scheduled EXCEPT ![b] = FALSE]
      /\ UNCHANGED <<first_bh, walking_bh, idle, deleted, notifier, revents, io,
                     dispatching, stack, call>>
  BY DEF qemu_bh_cancel, fdVars
<1>2. TypeOK'
  <2>1. scheduled' \in [BHs -> BOOLEAN] BY <1>0, <1>1, Parts
  <2>2. AioTypeOK' BY <1>0, <1>1, <2>1 DEF TypeOK, AioTypeOK
  <2>3. QED BY <1>0, <2>2 DEF TypeOK, loopVars
<1>3. Live' = Live /\ Linked' = Linked BY <1>1, SameLive
<1>4. Live \subseteq BHs BY <1>0, LinkedIn, Parts DEF Live
<1>5. Scheduled' \subseteq Scheduled BY <1>0, <1>1, <1>3, <1>4, Parts DEF Scheduled
<1>6. CallTo(t, Quiet) /\ CallOk(t, Quiet) /\ KeepsNotice(t, Quiet) BY <1>1, StaysQuiet
<1>7. QED BY <1>2, <1>3, <1>5, <1>6, CallPreserves

\* qemu_bh_delete marks, and does not unlink.
LEMMA DeleteStep ==
  ASSUME IndInv, NEW t \in Threads, NEW b \in BHs, qemu_bh_delete(t, b), UNCHANGED loopVars
  PROVE  IndInv'
<1>0. TypeOK BY DEF IndInv
<1>1. /\ call[t] = Quiet /\ scheduled' = [scheduled EXCEPT ![b] = FALSE]
      /\ deleted' = [deleted EXCEPT ![b] = TRUE]
      /\ \A u \in Threads : call[u].bh # b
      /\ UNCHANGED <<first_bh, walking_bh, idle, notifier, revents, io,
                     dispatching, stack, call>>
  BY DEF qemu_bh_delete, fdVars
<1>2. TypeOK'
  <2>1. scheduled' \in [BHs -> BOOLEAN] /\ deleted' \in [BHs -> BOOLEAN]
    BY <1>0, <1>1, Parts
  <2>2. AioTypeOK' BY <1>0, <1>1, <2>1 DEF TypeOK, AioTypeOK
  <2>3. QED BY <1>0, <2>2 DEF TypeOK, loopVars
<1>3. Linked' = Linked /\ Linked \subseteq BHs BY <1>0, <1>1, LinkedIn, Parts DEF Linked
<1>4. \A x \in BHs : x # b => deleted'[x] = deleted[x] /\ scheduled'[x] = scheduled[x]
  BY <1>0, <1>1, Parts
<1>5. deleted'[b] = TRUE BY <1>0, <1>1, Parts
<1>6. Live' = Live \ {b} BY <1>3, <1>4, <1>5 DEF Live
<1>7. Scheduled' \subseteq Scheduled BY <1>3, <1>4, <1>6 DEF Scheduled, Live
<1>8. CallTo(t, Quiet) /\ CallOk(t, Quiet) /\ KeepsNotice(t, Quiet) BY <1>1, StaysQuiet
<1>9. QED BY <1>1, <1>2, <1>3, <1>6, <1>7, <1>8, CallPreserves

\* The steps that end a call.
LEMMA XchgStep ==
  ASSUME IndInv, NEW t \in Threads, ScheduleXchg(t), UNCHANGED loopVars PROVE IndInv'
<1> DEFINE b == call[t].bh
           c == IF scheduled[b] THEN Quiet ELSE [step |-> "notify", bh |-> NoBH]
<1>0. TypeOK /\ LockInv /\ StackInv /\ CallInv /\ DispatchInv BY DEF IndInv
<1>1. /\ call[t].step = "xchg" /\ scheduled' = [scheduled EXCEPT ![b] = TRUE]
      /\ call' = [call EXCEPT ![t] = c]
      /\ UNCHANGED <<first_bh, walking_bh, idle, deleted, notifier, revents, io,
                     dispatching, stack>>
  BY DEF ScheduleXchg, fdVars
<1>2. b \in Live /\ pc[t] # "kicking" /\ call[t] # Quiet /\ Outside(t)
  <2>1. call[t].step = "xchg" => call[t].bh \in Live BY <1>0 DEF CallInv
  <2>2. call[t] # Quiet BY <1>1 DEF Quiet
  <2>3. pc[t] \in Owning \/ t \in Workers BY <1>0, <1>1 DEF CallInv
  <2>4. pc[t] # "kicking" BY <1>0, <2>3 DEF LockInv, Owning
  <2>5. QED BY <1>0, <1>1, <2>1, <2>2, <2>4 DEF StackInv, Outside
<1>3. /\ c \in Call /\ c.step \in {"none", "notify"} /\ c.bh = NoBH
      /\ c.step = "notify" \/ scheduled[b]
  BY DEF Call, Quiet
<1>4. Live' = Live /\ Linked' = Linked /\ Live \subseteq BHs
  BY <1>0, <1>1, SameLive, LinkedIn, Parts DEF Live
<1> HIDE DEF b, c
<1>5. TypeOK'
  <2>1. scheduled' \in [BHs -> BOOLEAN] BY <1>0, <1>1, Parts
  <2>2. call' \in [Threads -> Call] BY <1>0, <1>1, <1>3 DEF TypeOK, AioTypeOK
  <2>3. AioTypeOK' BY <1>0, <1>1, <2>1, <2>2 DEF TypeOK, AioTypeOK
  <2>4. QED BY <1>0, <2>3 DEF TypeOK, loopVars
<1>6. CallTo(t, c) BY <1>1, <1>3 DEF CallTo
<1>7. CallOk(t, c) BY <1>2, <1>3 DEF CallOk, Outside
<1>8. KeepsNotice(t, c) BY <1>1, <1>2, <1>3 DEF KeepsNotice
<1>9. ASSUME NEW u \in Threads, Sleepy(u) PROVE Scheduled # {} \/ Noted'
  <2>1. CASE scheduled[b] BY <1>2, <2>1 DEF Scheduled
  <2>2. CASE ~scheduled[b]
    <3>1. ~dispatching' BY <1>0, <1>1, <1>9 DEF DispatchInv
    <3>2. call'[t] = c BY <1>0, <1>1 DEF TypeOK, AioTypeOK
    <3>3. QED BY <1>3, <2>2, <3>1, <3>2 DEF Noted, Notifying
  <2>3. QED BY <2>1, <2>2
<1>10. QED BY <1>4, <1>5, <1>6, <1>7, <1>8, <1>9, CallPreserves

\* atomic_mb_set without aio_notify: its caller is the only one that could block.
LEMMA IdleSetStep ==
  ASSUME IndInv, NEW t \in Threads, ScheduleIdleSet(t), UNCHANGED loopVars PROVE IndInv'
<1> DEFINE b == call[t].bh
<1>0. TypeOK /\ LockInv /\ StackInv /\ CallInv /\ DispatchInv BY DEF IndInv
<1>1. /\ call[t].step = "mb_set" /\ scheduled' = [scheduled EXCEPT ![b] = TRUE]
      /\ call' = [call EXCEPT ![t] = Quiet]
      /\ UNCHANGED <<first_bh, walking_bh, idle, deleted, notifier, revents, io,
                     dispatching, stack>>
  BY DEF ScheduleIdleSet, fdVars
<1>2. pc[t] \in Owning /\ call[t] # Quiet /\ Outside(t)
  BY <1>0, <1>1 DEF CallInv, Quiet, StackInv, Outside
<1>3. Quiet \in Call /\ Quiet.step = "none" /\ Quiet.bh = NoBH BY DEF Call, Quiet
<1>4. Live' = Live /\ Linked' = Linked BY <1>1, SameLive
<1> HIDE DEF b
<1>5. TypeOK'
  <2>1. scheduled' \in [BHs -> BOOLEAN] BY <1>0, <1>1, Parts
  <2>2. call' \in [Threads -> Call] BY <1>0, <1>1, <1>3 DEF TypeOK, AioTypeOK
  <2>3. AioTypeOK' BY <1>0, <1>1, <2>1, <2>2 DEF TypeOK, AioTypeOK
  <2>4. QED BY <1>0, <2>3 DEF TypeOK, loopVars
<1>6. CallTo(t, Quiet) BY <1>1, <1>3 DEF CallTo
<1>7. CallOk(t, Quiet) BY <1>3 DEF CallOk
<1>8. KeepsNotice(t, Quiet) BY <1>1, <1>2 DEF KeepsNotice, Owning
<1>9. ASSUME NEW u \in Threads, Sleepy(u) PROVE FALSE
  <2>1. t = u BY <1>0, <1>2, <1>9, Poller DEF Sleepy
  <2>2. QED BY <1>2, <1>9, <2>1 DEF Sleepy, Outside, InStack
<1>10. QED BY <1>4, <1>5, <1>6, <1>7, <1>8, <1>9, CallPreserves

\* aio_notify.
LEMMA NotifyReadStep ==
  ASSUME IndInv, NEW t \in Threads, NotifyRead(t), UNCHANGED loopVars PROVE IndInv'
<1> DEFINE c == IF dispatching THEN Quiet ELSE [step |-> "set", bh |-> NoBH]
<1>0. TypeOK /\ StackInv BY DEF IndInv
<1>1. /\ call[t].step = "notify" /\ call' = [call EXCEPT ![t] = c]
      /\ UNCHANGED <<first_bh, walking_bh, scheduled, idle, deleted, notifier, revents,
                     io, dispatching, stack>>
  BY DEF NotifyRead, bhVars, fdVars
<1>2. call[t] # Quiet /\ Outside(t) BY <1>0, <1>1 DEF Quiet, StackInv, Outside
<1>3. /\ c \in Call /\ c.step \in {"none", "set"} /\ c.bh = NoBH
      /\ ~dispatching => c.step = "set"
  BY DEF Call, Quiet
<1>4. Live' = Live /\ Linked' = Linked BY <1>1, SameLive
<1>5. Scheduled' = Scheduled BY <1>1, <1>4 DEF Scheduled
<1> HIDE DEF c
<1>6. TypeOK'
  <2>1. call' \in [Threads -> Call] BY <1>0, <1>1, <1>3 DEF TypeOK, AioTypeOK
  <2>2. AioTypeOK' BY <1>0, <1>1, <2>1 DEF TypeOK, AioTypeOK
  <2>3. QED BY <1>0, <2>2 DEF TypeOK, loopVars
<1>7. CallTo(t, c) BY <1>1, <1>3 DEF CallTo
<1>8. CallOk(t, c) BY <1>2, <1>3 DEF CallOk, Outside
<1>9. KeepsNotice(t, c) BY <1>3 DEF KeepsNotice, Quiet
<1>10. QED BY <1>4, <1>5, <1>6, <1>7, <1>8, <1>9, CallPreserves

\* The write to the notifier is the notice that was pending.
LEMMA NotifySetStep ==
  ASSUME IndInv, NEW t \in Threads, NotifySet(t), UNCHANGED loopVars PROVE IndInv'
<1>0. TypeOK /\ StackInv BY DEF IndInv
<1>1. /\ call[t].step = "set" /\ call' = [call EXCEPT ![t] = Quiet] /\ notifier' = TRUE
      /\ UNCHANGED <<first_bh, walking_bh, scheduled, idle, deleted, revents, io,
                     dispatching, stack>>
  BY DEF NotifySet, bhVars
<1>2. Quiet \in Call /\ Quiet.step = "none" /\ Quiet.bh = NoBH BY DEF Call, Quiet
<1>3. Live' = Live /\ Linked' = Linked BY <1>1, SameLive
<1>4. Scheduled' = Scheduled BY <1>1, <1>3 DEF Scheduled
<1>5. TypeOK'
  <2>1. call' \in [Threads -> Call] BY <1>0, <1>1, <1>2 DEF TypeOK, AioTypeOK
  <2>2. AioTypeOK' BY <1>0, <1>1, <2>1 DEF TypeOK, AioTypeOK
  <2>3. QED BY <1>0, <2>2 DEF TypeOK, loopVars
<1>6. CallTo(t, Quiet) BY <1>1, <1>2 DEF CallTo
<1>7. CallOk(t, Quiet) BY <1>2 DEF CallOk
<1>8. KeepsNotice(t, Quiet) BY <1>1 DEF KeepsNotice
<1>9. QED BY <1>3, <1>4, <1>5, <1>6, <1>7, <1>8, CallPreserves

-----------------------------------------------------------------------------
(* aio_poll is called, and returns.                                        *)

\* A call that does not walk comes or goes.
LEMMA WalkingSame ==
  ASSUME WalkInv, NEW t \in Threads,
         \A u \in Threads : u # t => stack'[u] = stack[u],
         \A i \in 1 .. MaxDepth :
            /\ (i <= Depth(t)' /\ stack'[t][i].pc \in Walk)
                 <=> (i <= Depth(t) /\ stack[t][i].pc \in Walk)
            /\ i <= Depth(t) /\ i <= Depth(t)' => stack'[t][i] = stack[t][i],
         UNCHANGED <<walking_bh, first_bh>>
  PROVE  WalkInv'
<1>1. Linked' = Linked BY DEF Linked
<1>2. WalkingFrames \subseteq Frames /\ WalkingFrames' \subseteq Frames
  BY DEF WalkingFrames, Frames
<1>3. ASSUME NEW x \in Frames
      PROVE  /\ x \in WalkingFrames' <=> x \in WalkingFrames
             /\ x \in WalkingFrames => stack'[x[1]][x[2]] = stack[x[1]][x[2]]
  <2>1. PICK u \in Threads, i \in 1 .. MaxDepth : x = <<u, i>> BY DEF Frames
  <2>2. x[1] = u /\ x[2] = i BY <2>1
  <2>3. x \in WalkingFrames' <=> i <= Depth(u)' /\ stack'[u][i].pc \in Walk
    BY <2>2 DEF WalkingFrames, Walk, Frames
  <2>4. x \in WalkingFrames <=> i <= Depth(u) /\ stack[u][i].pc \in Walk
    BY <2>2 DEF WalkingFrames, Walk
  <2>5. CASE u # t
    <3>1. stack'[u] = stack[u] /\ Depth(u)' = Depth(u) BY <2>5 DEF Depth
    <3>2. QED BY <2>2, <2>3, <2>4, <3>1
  <2>6. CASE u = t BY <2>2, <2>3, <2>4, <2>6
  <2>7. QED BY <2>5, <2>6
<1>4. WalkingFrames' = WalkingFrames BY <1>2, <1>3
<1>5. \A x \in WalkingFrames : stack'[x[1]][x[2]] = stack[x[1]][x[2]] BY <1>2, <1>3
<1>6. QED BY <1>1, <1>4, <1>5, WalkKept

\* One call more on the stack of t.
Pushed(t, f) ==
  /\ f \in Frame /\ stack' \in [Threads -> Seq(Frame)] /\ Depth(t)' <= MaxDepth
  /\ \A u \in Threads : u # t => stack'[u] = stack[u]
  /\ Depth(t)' = Depth(t) + 1 /\ InPoll(t)'
  /\ \A i \in 1 .. Depth(t) : stack'[t][i] = stack[t][i]
  /\ Top(t)' = f /\ stack'[t][Depth(t) + 1] = f

\* aio_poll pushes a frame.
LEMMA PollIs ==
  ASSUME TypeOK, NEW t \in Threads, NEW b \in BOOLEAN, aio_poll(t, b)
  PROVE  Pushed(t, NewFrame(b))
<1> DEFINE f == NewFrame(b)
           s == stack[t]
           r == Append(s, f)
<1>1. f \in Frame BY Parts DEF NewFrame, Frame, FramePc, Timeout
<1>2. s \in Seq(Frame) /\ Len(s) \in Nat BY StackOf
<1>3. stack \in [Threads -> Seq(Frame)] /\ stack' = [stack EXCEPT ![t] = r]
  BY DEF TypeOK, AioTypeOK, aio_poll
<1> HIDE DEF f, s
<1>4. /\ r \in Seq(Frame) /\ Len(r) = Len(s) + 1 /\ r[Len(s) + 1] = f
      /\ \A i \in 1 .. Len(s) : r[i] = s[i]
  BY <1>1, <1>2, AppendProperties
<1> HIDE DEF r
<1>5. /\ stack' \in [Threads -> Seq(Frame)] /\ stack'[t] = r
      /\ \A u \in Threads : u # t => stack'[u] = stack[u]
  BY <1>3, <1>4
<1>6. Depth(t) = Len(s) /\ Depth(t)' = Len(s) + 1 /\ Top(t)' = f
  BY <1>4, <1>5 DEF Depth, Top, s
<1>7. InPoll(t)'
  <2>1. r # <<>> BY <1>2, <1>4, EmptySeq
  <2>2. QED BY <1>5, <2>1 DEF InPoll
<1>8. Len(s) < MaxDepth /\ MaxDepth \in Nat BY <1>6, AioAssumption DEF aio_poll
<1>9. Depth(t)' <= MaxDepth BY <1>2, <1>6, <1>8
<1>10. QED BY <1>1, <1>4, <1>5, <1>6, <1>7, <1>9 DEF Pushed, f, s

\* Where a thread is that polls.
PollsAt(t, p) ==
  \/ t = Home /\ p = "polling"
  \/ t \in Clients /\ p = "in"

\* What every call of aio_poll preserves.
LEMMA PollKeeps ==
  ASSUME IndInv, NEW t \in Threads, NEW b \in BOOLEAN, aio_poll(t, b), Outside(t),
         pc[t] \in {"in", "call", "polling"},
         \A u \in Threads : u # t => pc'[u] = pc[u],
         PollsAt(t, pc'[t]),
         UNCHANGED <<stopping, blocking, queue, signalled>>,
         pc' \in [Threads -> {"out", "kicking", "waiting", "in", "call", "polling",
                              "leave", "exited"}]
  PROVE  /\ TypeOK' /\ LockInv' /\ StackInv' /\ CallInv' /\ DispatchInv' /\ WakeInv' /\ WalkInv'
         /\ Pushed(t, NewFrame(b)) /\ UNCHANGED <<call, notifier, deleted>>
         /\ \A u \in Threads : InPoll(u)' => u = t
<1> DEFINE f == NewFrame(b)
<1>0. /\ TypeOK /\ LockInv /\ StackInv /\ CallInv /\ DispatchInv /\ WalkInv
      /\ Home \in Threads
  BY IoThreadAssumption DEF IndInv
<1>1. /\ Pushed(t, f) /\ call[t] = Quiet /\ dispatching' = ~b
      /\ UNCHANGED <<first_bh, walking_bh, scheduled, idle, deleted, notifier, revents, io, call>>
  BY <1>0, PollIs DEF aio_poll, bhVars, fdVars
<1>2. /\ f.pc = "compute" /\ f.was = dispatching /\ f.bh = NoBH
      /\ f.timeout = IF b THEN "none" ELSE "zero"
  BY DEF NewFrame
<1> HIDE DEF f
<1>3. pc[t] \in Owning /\ pc'[t] \in Owning BY DEF Owning, PollsAt
<1>4. \A u \in Threads : u # t => pc[u] \notin Owning BY <1>0, <1>3 DEF LockInv
<1>5. \A u \in Threads : InPoll(u) => u = t
  BY <1>0, <1>4 DEF StackInv, Owning
<1>6. \A u \in Threads : InPoll(u)' => u = t BY <1>1, <1>5 DEF Pushed, InPoll
<1>7. \A u \in Threads : u # t => Top(u)' = Top(u) /\ Depth(u)' = Depth(u)
  BY <1>1 DEF Pushed, Top, Depth
<1>8. Depth(t) \in Nat /\ Depth(t) = Len(stack[t]) /\ (InPoll(t) <=> Depth(t) > 0)
  BY <1>0, StackOf
<1>9. TypeOK'
  <2>1. stack' \in [Threads -> Seq(Frame)] /\ dispatching' \in BOOLEAN
    BY <1>1 DEF Pushed
  <2>2. AioTypeOK' BY <1>0, <1>1, <2>1 DEF TypeOK, AioTypeOK
  <2>3. QED BY <1>0, <2>2 DEF TypeOK
<1>10. LockInv'
  <2>1. \A u \in Threads : Has(queue, u) <=> pc'[u] \notin {"out", "exited"}
    BY <1>0, <1>3 DEF LockInv, Owning
  <2>2. \A u \in Threads : pc'[u] \in Owning => queue[1] = u BY <1>0, <1>3 DEF LockInv
  <2>3. \A u \in Threads : pc'[u] \in {"call", "polling", "leave", "exited"} => u = Home
    BY <1>0 DEF LockInv, PollsAt
  <2>4. \A w \in Workers : pc'[w] = "out"
    BY <1>0, IoThreadAssumption DEF LockInv, PollsAt
  <2>5. QED BY <1>0, <2>1, <2>2, <2>3, <2>4 DEF LockInv
<1>11. StackInv'
  <2> SUFFICES ASSUME NEW u \in Threads
               PROVE  (/\ InPoll(u) => \/ u = Home /\ pc[u] = "polling"
                                       \/ u \in Clients /\ pc[u] = "in"
                       /\ u = Home /\ pc[u] = "polling" => InPoll(u)
                       /\ Depth(u) <= MaxDepth
                       /\ \A i \in 1 .. Depth(u) - 1 : stack[u][i].pc \in InStack
                       /\ InPoll(u) /\ call[u] # Quiet => Top(u).pc \in InStack
                       /\ InPoll(u) /\ Top(u).pc \in Early => Top(u).bh = NoBH
                       /\ InPoll(u) /\ Top(u).pc = "compute" => Top(u).timeout # "idle")'
    BY DEF StackInv
  <2>1. CASE u # t
    <3>1. stack'[u] = stack[u] /\ pc'[u] = pc[u] /\ call'[u] = call[u]
      BY <1>1, <2>1 DEF Pushed
    <3>2. QED BY <1>0, <1>7, <2>1, <3>1 DEF StackInv, InPoll
  <2>2. CASE u = t
    <3>1. /\ InPoll(u)' /\ Depth(u)' <= MaxDepth /\ call'[u] = Quiet /\ Top(u)' = f
          /\ Depth(u)' = Depth(u) + 1
      BY <1>1, <2>2 DEF Pushed
    <3>2. \A i \in 1 .. Depth(u) : stack'[u][i].pc \in InStack
      <4>1. \A i \in 1 .. Depth(u) - 1 : stack[u][i].pc \in InStack BY <1>0 DEF StackInv
      <4>2. Depth(u) > 0 => stack[u][Depth(u)].pc \in InStack
        BY <1>8, <2>2 DEF Outside, Top
      <4>3. ASSUME NEW i \in 1 .. Depth(u) PROVE stack[u][i].pc \in InStack
        <5>1. Depth(u) > 0 /\ (i # Depth(u) => i \in 1 .. Depth(u) - 1) BY <1>8, <2>2
        <5>2. QED BY <4>1, <4>2, <5>1
      <4>4. QED BY <1>1, <2>2, <4>3 DEF Pushed
    <3>3. \A i \in 1 .. Depth(u)' - 1 : stack'[u][i].pc \in InStack
      <4>1. Depth(u)' - 1 = Depth(u) BY <1>8, <2>2, <3>1
      <4>2. QED BY <3>2, <4>1
    <3>4. f.timeout # "idle" BY <1>2
    <3>5. QED BY <1>2, <2>2, <3>1, <3>3, <3>4 DEF PollsAt
  <2>3. QED BY <2>1, <2>2
<1>12. CallInv'
  <2>1. Live' = Live BY <1>1, SameLive
  <2>2. QED BY <1>0, <1>1, <1>3, <2>1 DEF CallInv
<1>13. DispatchInv'
  <2>1. InPoll(t)' BY <1>1 DEF Pushed
  <2>2. ~stack'[t][1].was
    <3>1. CASE Depth(t) = 0
      <4>1. \A u \in Threads : ~InPoll(u) BY <1>5, <1>8, <3>1
      <4>2. ~dispatching BY <1>0, <4>1 DEF DispatchInv
      <4>3. stack'[t][1] = f BY <1>1, <3>1 DEF Pushed
      <4>4. QED BY <1>2, <4>2, <4>3
    <3>2. CASE Depth(t) # 0
      <4>1. InPoll(t) /\ 1 \in 1 .. Depth(t) BY <1>8, <3>2
      <4>2. stack'[t][1] = stack[t][1] BY <1>1, <4>1 DEF Pushed
      <4>3. QED BY <1>0, <4>1, <4>2 DEF DispatchInv
    <3>3. QED BY <3>1, <3>2
  <2>3. Sleepy(t)' => ~dispatching'
    <3>1. Top(t)' = f BY <1>1 DEF Pushed
    <3>2. QED BY <1>1, <1>2, <3>1 DEF Sleepy
  <2>4. QED BY <1>6, <2>1, <2>2, <2>3 DEF DispatchInv, Sleepy
<1>14. WakeInv'
  <2>1. Top(t)' = f BY <1>1 DEF Pushed
  <2>2. QED BY <1>2, <1>6, <2>1 DEF WakeInv, Sleepy
<1>15. WalkInv'
  <2>1. ASSUME NEW i \in 1 .. MaxDepth
        PROVE  /\ (i <= Depth(t)' /\ stack'[t][i].pc \in Walk)
                    <=> (i <= Depth(t) /\ stack[t][i].pc \in Walk)
               /\ i <= Depth(t) /\ i <= Depth(t)' => stack'[t][i] = stack[t][i]
    <3>1. /\ i \in Nat /\ i > 0 /\ Depth(t)' = Depth(t) + 1
          /\ stack'[t][Depth(t) + 1] = f /\ f.pc \notin Walk
          /\ \A j \in 1 .. Depth(t) : stack'[t][j] = stack[t][j]
      BY <1>1, <1>2, AioAssumption DEF Pushed, Walk
    <3>2. CASE i <= Depth(t)
      <4>1. i \in 1 .. Depth(t) /\ i <= Depth(t) + 1 BY <1>8, <3>1, <3>2
      <4>2. QED BY <3>1, <3>2, <4>1
    <3>3. CASE ~(i <= Depth(t))
      <4>1. i <= Depth(t) + 1 => i = Depth(t) + 1 BY <1>8, <3>1, <3>3
      <4>2. QED BY <3>1, <3>3, <4>1
    <3>4. QED BY <3>2, <3>3
  <2>2. \A u \in Threads : u # t => stack'[u] = stack[u] BY <1>1 DEF Pushed
  <2>3. QED BY <1>0, <1>1, <2>1, <2>2, WalkingSame
<1>16. QED BY <1>1, <1>6, <1>9, <1>10, <1>11, <1>12, <1>13, <1>14, <1>15 DEF f

\* The poll of a thread other than Home's outermost one is not where the wakeups count.
LEMMA PollElsewhere ==
  ASSUME IndInv, NEW t \in Threads, NEW b \in BOOLEAN, aio_poll(t, b), Outside(t),
         t # Home \/ InPoll(t),
         PollsAt(t, pc[t]),
         UNCHANGED loopVars
  PROVE  IndInv'
<1>0. TypeOK /\ LockInv /\ StackInv /\ Home \in Threads BY IoThreadAssumption DEF IndInv
<1>1. pc[t] \in {"in", "call", "polling"} /\ pc[t] \in Owning BY DEF Owning, PollsAt
<1>2. pc \in [Threads -> {"out", "kicking", "waiting", "in", "call", "polling",
                           "leave", "exited"}]
  BY <1>0 DEF TypeOK
<1>3. UNCHANGED <<pc, stopping, blocking, queue, signalled>> BY DEF loopVars
<1>4. /\ TypeOK' /\ LockInv' /\ StackInv' /\ CallInv' /\ DispatchInv' /\ WakeInv' /\ WalkInv'
      /\ Pushed(t, NewFrame(b))
      /\ \A u \in Threads : InPoll(u)' => u = t
  BY <1>1, <1>2, <1>3, PollKeeps
<1>5. ~Asleep'
  <2>1. CASE t # Home BY <1>0, <1>4, <2>1 DEF Asleep, Sleepy
  <2>2. CASE t = Home
    <3>1. Depth(t) \in Nat /\ Depth(t) > 0 BY <1>0, <2>2, StackOf
    <3>2. Depth(t)' = Depth(t) + 1 BY <1>4 DEF Pushed
    <3>3. QED BY <2>2, <3>1, <3>2 DEF Asleep
  <2>3. QED BY <2>1, <2>2
<1>6. pc[Home] \notin {"in", "call"}
  <2>1. t # Home => pc[Home] \notin Owning BY <1>0, <1>1 DEF LockInv
  <2>2. QED BY <2>1, IoThreadAssumption DEF Owning, PollsAt
<1>7. StopInv' BY <1>3, <1>5, <1>6 DEF StopInv
<1>8. KickInv' BY <1>1, <1>3, <1>5, <1>6 DEF KickInv, Region
<1>9. QED BY <1>4, <1>7, <1>8 DEF IndInv

\* A client that owns the context calls aio_poll.
LEMMA ClientPollStep ==
  ASSUME IndInv, NEW c \in Clients, ClientPoll(c) PROVE IndInv'
<1>1. PICK b \in ClientModes : aio_poll(c, b) BY DEF ClientPoll
<1>2. b \in BOOLEAN /\ c \in Threads /\ c # Home BY IoThreadAssumption
<1>3. PollsAt(c, pc[c]) /\ Outside(c) /\ UNCHANGED loopVars
  BY DEF ClientPoll, Outside, PollsAt
<1>4. QED BY <1>1, <1>2, <1>3, PollElsewhere

\* A thread in a callback owns the context.
LEMMA InCallbackIs ==
  ASSUME IndInv, NEW t \in Threads, InCallback(t)
  PROVE  /\ InPoll(t) /\ Outside(t) /\ pc[t] \in Owning
         /\ PollsAt(t, pc[t])
<1>1. InPoll(t) /\ Top(t).pc \in InStack BY DEF InCallback, At, InStack
<1>2. QED BY <1>1 DEF Outside, IndInv, StackInv, Owning, PollsAt

\* A callback calls aio_poll.
LEMMA NestedPollStep ==
  ASSUME IndInv, NEW t \in Threads, NestedPoll(t) PROVE IndInv'
<1>1. PICK b \in BOOLEAN : aio_poll(t, b) BY DEF NestedPoll
<1>2. UNCHANGED loopVars /\ InCallback(t) BY DEF NestedPoll
<1>3. QED BY <1>1, <1>2, InCallbackIs, PollElsewhere

\* Home is about to block, and whoever relies on being heard was heard before.
LEMMA LoopPollStep ==
  ASSUME IndInv, LoopPoll PROVE IndInv'
<1>0. /\ TypeOK /\ LockInv /\ StackInv /\ StopInv /\ KickInv /\ Home \in Threads
      /\ blocking \in BOOLEAN
  BY IoThreadAssumption DEF IndInv, TypeOK
<1>1. /\ pc[Home] = "call" /\ aio_poll(Home, blocking) /\ pc' = [pc EXCEPT ![Home] = "polling"]
      /\ UNCHANGED <<stopping, blocking, queue, signalled>>
  BY DEF LoopPoll, Goto
<1>2. /\ pc'[Home] = "polling" /\ \A u \in Threads : u # Home => pc'[u] = pc[u]
      /\ pc' \in [Threads -> {"out", "kicking", "waiting", "in", "call", "polling",
                              "leave", "exited"}]
  BY <1>0, <1>1 DEF TypeOK
<1>3. ~InPoll(Home) /\ Outside(Home) /\ PollsAt(Home, pc'[Home])
  BY <1>0, <1>1, <1>2, IoThreadAssumption DEF StackInv, Outside, PollsAt
<1>4. /\ TypeOK' /\ LockInv' /\ StackInv' /\ CallInv' /\ DispatchInv' /\ WakeInv' /\ WalkInv'
      /\ Pushed(Home, NewFrame(blocking)) /\ UNCHANGED <<call, notifier, deleted>>
  BY <1>0, <1>1, <1>2, <1>3, PollKeeps
<1>5. Asleep' => blocking /\ ~dispatching'
  <2>1. Top(Home)' = NewFrame(blocking) BY <1>4 DEF Pushed
  <2>2. Asleep' => NewFrame(blocking).timeout = "none" BY <2>1 DEF Asleep, Sleepy
  <2>3. NewFrame(blocking).timeout = IF blocking THEN "none" ELSE "zero" BY DEF NewFrame
  <2>4. Asleep' => ~dispatching' BY <1>0, <1>4 DEF Asleep, DispatchInv
  <2>5. QED BY <2>2, <2>3, <2>4
<1>6. Noted /\ ~dispatching' => Noted' BY <1>4 DEF Noted, Notifying
<1>7. StopInv' BY <1>0, <1>1, <1>2, <1>5, <1>6 DEF StopInv
<1>8. KickInv'
  <2> SUFFICES ASSUME Region', NEW u \in Threads, Kicked(u)' PROVE Noted'
    BY DEF KickInv
  <2>1. Asleep' BY <1>0, <1>2 DEF Region, Owning
  <2>2. Region BY <1>1, <1>5, <2>1 DEF Region
  <2>3. Kicked(u) BY <1>1, <1>2, <1>4 DEF Kicked
  <2>4. QED BY <1>0, <1>5, <1>6, <2>1, <2>2, <2>3 DEF KickInv
<1>9. QED BY <1>4, <1>7, <1>8 DEF IndInv

\* One call less on the stack of t.
Popped(t) ==
  /\ stack' \in [Threads -> Seq(Frame)]
  /\ \A u \in Threads : u # t => stack'[u] = stack[u]
  /\ Depth(t)' = Depth(t) - 1 /\ (InPoll(t)' <=> Depth(t) > 1)
  /\ \A i \in 1 .. Depth(t) - 1 : stack'[t][i] = stack[t][i]
  /\ Depth(t) > 1 => Top(t)' = stack[t][Depth(t) - 1]

\* The end of aio_poll pops the frame and restores dispatching.
LEMMA PollEndIs ==
  ASSUME TypeOK, NEW t \in Threads, PollEnd(t)
  PROVE  Popped(t)
<1> DEFINE s == stack[t]
           k == Len(s) - 1
           r == SubSeq(s, 1, k)
<1>1. /\ s \in Seq(Frame) /\ Len(s) \in Nat /\ Len(s) > 0 /\ Depth(t) = Len(s)
  BY StackOf, AtIs DEF PollEnd
<1>2. stack \in [Threads -> Seq(Frame)] /\ stack' = [stack EXCEPT ![t] = r]
  BY DEF TypeOK, AioTypeOK, PollEnd, Depth
<1> HIDE DEF s
<1>3. k \in 0 .. Len(s) /\ k \in Nat /\ \A i \in 1 .. k : i \in 1 .. Len(s) BY <1>1
<1>4. r \in Seq(Frame) /\ Len(r) = k /\ \A i \in 1 .. k : r[i] = s[i]
  <2> HIDE DEF k
  <2>1. k <= Len(s) /\ 1 \in 1 .. Len(s) + 1 BY <1>1, <1>3
  <2>2. \A i \in 1 .. k : s[i] \in Frame BY <1>1, <1>3, ElementOfSeq
  <2>3. r = [i \in 1 .. k |-> s[i]]
    BY <1>1, <1>3, <2>1, SMT
  <2>4. QED BY <1>3, <2>2, <2>3
<1> HIDE DEF r
<1>5. /\ stack' \in [Threads -> Seq(Frame)] /\ stack'[t] = r
      /\ \A u \in Threads : u # t => stack'[u] = stack[u]
  BY <1>2, <1>4
<1>6. Depth(t)' = k BY <1>4, <1>5 DEF Depth
<1>7. InPoll(t)' <=> Depth(t) > 1
  <2>1. r # <<>> <=> Len(r) > 0 BY <1>3, <1>4, EmptySeq
  <2>2. k > 0 <=> Len(s) > 1 BY <1>1
  <2>3. QED BY <1>1, <1>4, <1>5, <2>1, <2>2 DEF InPoll
<1>8. Depth(t) > 1 => Top(t)' = s[k]
  <2>1. Len(s) > 1 => k \in 1 .. k BY <1>1
  <2>2. QED BY <1>1, <1>4, <1>5, <1>6, <2>1 DEF Top
<1>9. QED BY <1>1, <1>4, <1>5, <1>6, <1>7, <1>8 DEF Popped, s

\* What every return of aio_poll preserves.
LEMMA PollEndKeeps ==
  ASSUME IndInv, NEW t \in Threads, PollEnd(t), pc'[t] \in Owning,
         \A u \in Threads : u # t => pc'[u] = pc[u],
         t # Home \/ Depth(t) > 1 => pc'[t] = pc[t],
         t = Home /\ pc'[t] = "polling" => Depth(t) > 1,
         UNCHANGED <<queue, signalled, stopping>>, blocking' \in BOOLEAN,
         pc' \in [Threads -> {"out", "kicking", "waiting", "in", "call", "polling",
                              "leave", "exited"}]
  PROVE  /\ TypeOK' /\ LockInv' /\ StackInv' /\ CallInv' /\ WalkInv'
         /\ Popped(t) /\ InPoll(t) /\ (InPoll(t)' => Top(t)'.pc \in InStack)
         /\ \A u \in Threads : InPoll(u)' => u = t
         /\ dispatching' = Top(t).was
<1>0. TypeOK /\ LockInv /\ StackInv /\ CallInv /\ WalkInv BY DEF IndInv
<1>1. /\ InPoll(t) /\ Top(t) \in Frame /\ Top(t).pc = "handlers" /\ call[t] = Quiet
      /\ dispatching' = Top(t).was
      /\ UNCHANGED <<first_bh, walking_bh, scheduled, idle, deleted, notifier, revents, io, call>>
  BY <1>0, AtIs DEF PollEnd, bhVars, fdVars
<1>2. Popped(t) BY <1>0, PollEndIs
<1>3. /\ Depth(t) \in Nat /\ Depth(t) > 0 /\ Depth(t) = Len(stack[t])
      /\ Top(t) = stack[t][Depth(t)] /\ Depth(t) <= MaxDepth
  BY <1>0, <1>1, StackOf DEF StackInv
<1>4. /\ pc[t] \in Owning /\ \A u \in Threads : InPoll(u) => u = t
      /\ \A u \in Threads : pc[u] \in Owning => u = t
  BY <1>0, <1>1, Poller
<1>5. \A u \in Threads : InPoll(u)' => u = t BY <1>2, <1>4 DEF Popped, InPoll
<1>6. InPoll(t)' => Top(t)'.pc \in InStack
  <2>1. ASSUME InPoll(t)' PROVE Top(t)'.pc \in InStack
    <3>1. Depth(t) > 1 /\ Top(t)' = stack[t][Depth(t) - 1] BY <1>2, <2>1 DEF Popped
    <3>2. Depth(t) - 1 \in 1 .. Depth(t) - 1 BY <1>3, <3>1
    <3>3. QED BY <1>0, <3>1, <3>2 DEF StackInv
  <2>2. QED BY <2>1
<1>7. TypeOK'
  <2>1. stack' \in [Threads -> Seq(Frame)] /\ dispatching' \in BOOLEAN
    BY <1>1, <1>2 DEF Popped, Frame
  <2>2. AioTypeOK' BY <1>0, <1>1, <2>1 DEF TypeOK, AioTypeOK
  <2>3. QED BY <1>0, <2>2 DEF TypeOK
<1>8. LockInv'
  <2>1. \A u \in Threads : Has(queue, u) <=> pc'[u] \notin {"out", "exited"}
    BY <1>0, <1>4 DEF LockInv, Owning
  <2>2. \A u \in Threads : pc'[u] \in Owning => queue[1] = u BY <1>0, <1>4 DEF LockInv
  <2>3. \A u \in Threads : pc'[u] \in {"call", "polling", "leave", "exited"} => u = Home
    BY <1>0 DEF LockInv
  <2>4. \A w \in Workers : pc'[w] = "out"
    BY <1>0, <1>4, IoThreadAssumption DEF LockInv, Owning
  <2>5. QED BY <1>0, <2>1, <2>2, <2>3, <2>4 DEF LockInv
<1>9. StackInv'
  <2> SUFFICES ASSUME NEW u \in Threads
               PROVE  (/\ InPoll(u) => \/ u = Home /\ pc[u] = "polling"
                                       \/ u \in Clients /\ pc[u] = "in"
                       /\ u = Home /\ pc[u] = "polling" => InPoll(u)
                       /\ Depth(u) <= MaxDepth
                       /\ \A i \in 1 .. Depth(u) - 1 : stack[u][i].pc \in InStack
                       /\ InPoll(u) /\ call[u] # Quiet => Top(u).pc \in InStack
                       /\ InPoll(u) /\ Top(u).pc \in Early => Top(u).bh = NoBH
                       /\ InPoll(u) /\ Top(u).pc = "compute" => Top(u).timeout # "idle")'
    BY DEF StackInv
  <2>1. CASE u # t
    <3>1. stack'[u] = stack[u] /\ pc'[u] = pc[u] /\ call'[u] = call[u]
      BY <1>1, <1>2, <2>1 DEF Popped
    <3>2. Depth(u)' = Depth(u) /\ Top(u)' = Top(u) /\ (InPoll(u)' <=> InPoll(u))
      BY <3>1 DEF Depth, Top, InPoll
    <3>3. QED BY <1>0, <2>1, <3>1, <3>2 DEF StackInv
  <2>2. CASE u = t
    <3>1. Depth(u)' = Depth(u) - 1 /\ (InPoll(u)' <=> Depth(u) > 1) BY <1>2, <2>2 DEF Popped
    <3>2. Depth(u)' <= MaxDepth BY <1>3, <2>2, <3>1, AioAssumption
    <3>3. \A i \in 1 .. Depth(u)' - 1 : stack'[u][i].pc \in InStack
      <4>1. \A i \in 1 .. (Depth(u) - 1) - 1 : i \in 1 .. Depth(u) - 1 BY <1>3, <2>2
      <4>2. \A i \in 1 .. Depth(u) - 1 : stack'[u][i].pc \in InStack
        BY <1>0, <1>2, <2>2 DEF Popped, StackInv
      <4>3. QED BY <3>1, <4>1, <4>2
    <3>4. InPoll(u)' => \/ u = Home /\ pc'[u] = "polling"
                        \/ u \in Clients /\ pc'[u] = "in"
      BY <1>0, <1>1, <2>2, <3>1 DEF StackInv
    <3>5. InPoll(u)' => Top(u)'.pc \in InStack BY <1>6, <2>2
    <3>6. u = Home /\ pc'[u] = "polling" => InPoll(u)' BY <2>2, <3>1
    <3>7. QED BY <3>2, <3>3, <3>4, <3>5, <3>6 DEF InStack, Early
  <2>3. QED BY <2>1, <2>2
<1>10. CallInv'
  <2>1. Live' = Live BY <1>1, SameLive
  <2>2. QED BY <1>0, <1>1, <1>4, <2>1 DEF CallInv
<1>11. WalkInv'
  <2>1. ASSUME NEW i \in 1 .. MaxDepth
        PROVE  /\ (i <= Depth(t)' /\ stack'[t][i].pc \in Walk)
                    <=> (i <= Depth(t) /\ stack[t][i].pc \in Walk)
               /\ i <= Depth(t) /\ i <= Depth(t)' => stack'[t][i] = stack[t][i]
    <3>1. /\ i \in Nat /\ i > 0 /\ Depth(t)' = Depth(t) - 1
          /\ stack[t][Depth(t)].pc \notin Walk
          /\ \A j \in 1 .. Depth(t) - 1 : stack'[t][j] = stack[t][j]
      BY <1>1, <1>2, <1>3, AioAssumption DEF Popped, Walk
    <3>2. CASE i <= Depth(t) - 1
      <4>1. i \in 1 .. Depth(t) - 1 /\ i <= Depth(t) BY <1>3, <3>1, <3>2
      <4>2. QED BY <3>1, <3>2, <4>1
    <3>3. CASE ~(i <= Depth(t) - 1)
      <4>1. i <= Depth(t) => i = Depth(t) BY <1>3, <3>1, <3>3
      <4>2. QED BY <3>1, <3>3, <4>1
    <3>4. QED BY <3>2, <3>3
  <2>2. \A u \in Threads : u # t => stack'[u] = stack[u] BY <1>2 DEF Popped
  <2>3. QED BY <1>0, <1>1, <2>1, <2>2, WalkingSame
<1>12. QED BY <1>1, <1>2, <1>5, <1>6, <1>7, <1>8, <1>9, <1>10, <1>11

\* A nested aio_poll returns into the callback.
LEMMA NestedPollEndStep ==
  ASSUME IndInv, NEW t \in Threads, NestedPollEnd(t) PROVE IndInv'
<1>0. TypeOK /\ LockInv /\ StackInv /\ DispatchInv BY DEF IndInv
<1>1. PollEnd(t) /\ Depth(t) > 1 /\ UNCHANGED <<stopping, blocking, pc, queue, signalled>>
  BY DEF NestedPollEnd, loopVars
<1>2. InPoll(t) BY <1>1 DEF PollEnd, At
<1>3. pc[t] \in Owning BY <1>0, <1>2, Poller
<1>4. /\ TypeOK' /\ LockInv' /\ StackInv' /\ CallInv' /\ WalkInv' /\ Popped(t)
      /\ InPoll(t)' => Top(t)'.pc \in InStack
  BY <1>0, <1>1, <1>3, PollEndKeeps DEF TypeOK
<1>5. InPoll(t)' /\ \A u \in Threads : u # t => stack'[u] = stack[u]
  BY <1>1, <1>4 DEF Popped
<1>6. ~Sleepy(t)' BY <1>4, <1>5 DEF Sleepy, InStack
<1>7. ~stack'[t][1].was
  <2>1. Depth(t) \in Nat BY <1>0, StackOf
  <2>2. 1 \in 1 .. Depth(t) - 1 BY <1>1, <2>1
  <2>3. stack'[t][1] = stack[t][1] BY <1>4, <2>2 DEF Popped
  <2>4. QED BY <1>0, <1>2, <2>3 DEF DispatchInv
<1>8. DispatchInv' /\ WakeInv' /\ StopInv' /\ KickInv'
  BY <1>0, <1>1, <1>2, <1>5, <1>6, <1>7, AwakeStep
<1>9. QED BY <1>4, <1>8 DEF IndInv

\* The outermost call returns, and `dispatching' is clear again.
LEMMA LastPollEnd ==
  ASSUME IndInv, NEW t \in Threads, PollEnd(t), Depth(t) = 1, pc'[t] \in {"in", "leave"},
         \A u \in Threads : u # t => pc'[u] = pc[u], t # Home => pc'[t] = pc[t],
         UNCHANGED <<queue, signalled, stopping>>, blocking' \in BOOLEAN,
         t = Home /\ pc'[t] = "in" => ~blocking',
         pc' \in [Threads -> {"out", "kicking", "waiting", "in", "call", "polling",
                              "leave", "exited"}]
  PROVE  IndInv'
<1>0. TypeOK /\ LockInv /\ StackInv /\ DispatchInv /\ Home \in Threads
  BY IoThreadAssumption DEF IndInv
<1>1. pc'[t] \in Owning /\ ~(Depth(t) > 1) BY DEF Owning
<1>2. pc'[t] # "polling" OBVIOUS
<1>3. /\ TypeOK' /\ LockInv' /\ StackInv' /\ CallInv' /\ WalkInv' /\ Popped(t)
      /\ InPoll(t) /\ dispatching' = Top(t).was
      /\ \A u \in Threads : InPoll(u)' => u = t
  BY <1>1, <1>2, PollEndKeeps
<1>4. \A u \in Threads : ~InPoll(u)' BY <1>1, <1>3 DEF Popped
<1>5. ~dispatching'
  <2>1. Top(t) = stack[t][1] BY DEF Top
  <2>2. QED BY <1>0, <1>3, <2>1 DEF DispatchInv
<1>6. DispatchInv' /\ WakeInv' BY <1>4, <1>5 DEF DispatchInv, WakeInv, Sleepy
<1>7. ~Asleep' BY <1>0, <1>4 DEF Asleep, Sleepy
<1>8. t # Home => pc'[Home] \notin Owning BY <1>0, <1>3, Poller
<1>9. pc'[Home] # "call" BY <1>8 DEF Owning
<1>10. StopInv' BY <1>7, <1>9 DEF StopInv
<1>11. ~Region'
  <2>1. ~(pc'[Home] \in {"in", "call"} /\ blocking') BY <1>8 DEF Owning
  <2>2. QED BY <1>1, <1>7, <2>1 DEF Region
<1>12. KickInv' BY <1>11 DEF KickInv
<1>13. QED BY <1>3, <1>6, <1>10, <1>12 DEF IndInv

\* A client's aio_poll returns.
LEMMA ClientPollEndStep ==
  ASSUME IndInv, NEW c \in Clients, ClientPollEnd(c) PROVE IndInv'
<1>1. c \in Threads /\ c # Home BY IoThreadAssumption
<1>2. /\ PollEnd(c) /\ Depth(c) = 1 /\ pc[c] = "in"
      /\ UNCHANGED <<stopping, blocking, pc, queue, signalled>>
  BY DEF ClientPollEnd, loopVars
<1>3. /\ blocking \in BOOLEAN
      /\ pc \in [Threads -> {"out", "kicking", "waiting", "in", "call", "polling",
                             "leave", "exited"}]
  BY DEF IndInv, TypeOK
<1>4. QED BY <1>1, <1>2, <1>3, LastPollEnd

\* Home polls again only without blocking, or gives the context up.
LEMMA LoopPollEndStep ==
  ASSUME IndInv, LoopPollEnd PROVE IndInv'
<1> DEFINE p == IF Top(Home).progress THEN "in" ELSE "leave"
<1>1. /\ PollEnd(Home) /\ Depth(Home) = 1 /\ pc' = [pc EXCEPT ![Home] = p]
      /\ blocking' = (blocking /\ ~Top(Home).progress)
      /\ UNCHANGED <<stopping, queue, signalled>>
  BY DEF LoopPollEnd, Goto
<1>2. /\ blocking' \in BOOLEAN /\ Home \in Threads /\ p \in {"in", "leave"}
      /\ p = "in" => ~blocking'
  BY <1>1, IoThreadAssumption
<1> HIDE DEF p
<1>3. /\ pc'[Home] = p /\ \A u \in Threads : u # Home => pc'[u] = pc[u]
      /\ pc' \in [Threads -> {"out", "kicking", "waiting", "in", "call", "polling",
                              "leave", "exited"}]
  BY <1>1, <1>2 DEF IndInv, TypeOK
<1>4. QED BY <1>1, <1>2, <1>3, LastPollEnd

-----------------------------------------------------------------------------
(* The lock.                                                               *)

Notice == [step |-> "notify", bh |-> NoBH]

\* A thread outside of aio_poll goes on to p, and has c of a call to make.
Moves(t, p, c) ==
  /\ pc' = [pc EXCEPT ![t] = p] /\ call' = [call EXCEPT ![t] = c]
  /\ c \in {call[t], Notice}
  /\ ~InPoll(t) /\ ~(t = Home /\ p = "polling")
  /\ \/ p \in Owning
     \/ call[t] = Quiet
     \/ pc[t] \notin Owning /\ t \notin Workers
  /\ UNCHANGED <<bhVars, fdVars, dispatching, stack>>

\* The types of what the lock and iothread_run keep, but for pc.
LoopType ==
  /\ stopping \in BOOLEAN /\ blocking \in BOOLEAN /\ queue \in Seq({Home} \cup Clients)
  /\ signalled \in SUBSET Threads

\* A move of a thread between statements outside aio_poll keeps pending notices.
LEMMA MoveIs ==
  ASSUME IndInv, NEW t \in Threads, NEW p, NEW c, Moves(t, p, c)
  PROVE  /\ pc'[t] = p /\ \A u \in Threads : u # t => pc'[u] = pc[u]
         /\ call'[t] = c /\ \A u \in Threads : u # t => call'[u] = call[u]
         /\ dispatching' = dispatching /\ notifier' = notifier
         /\ Asleep' <=> Asleep
         /\ ~dispatching /\ Noted => Noted'
         /\ ~dispatching /\ c = Notice => Noted'
<1>1. /\ pc'[t] = p /\ \A u \in Threads : u # t => pc'[u] = pc[u]
      /\ call'[t] = c /\ \A u \in Threads : u # t => call'[u] = call[u]
  BY DEF IndInv, TypeOK, AioTypeOK, Moves
<1>2. UNCHANGED <<notifier, dispatching, stack>> BY DEF Moves, fdVars
<1>3. Asleep' <=> Asleep BY <1>2 DEF Asleep, Sleepy, InPoll, Top, Depth
<1>4. ~dispatching /\ c = Notice => Noted' BY <1>1, <1>2 DEF Noted, Notifying, Notice
<1>5. ASSUME ~dispatching, Noted PROVE Noted'
  <2>1. CASE notifier BY <1>2, <2>1 DEF Noted
  <2>2. CASE Notifying # {}
    <3>1. PICK u \in Threads : call[u].step \in {"notify", "set"} BY <2>2 DEF Notifying
    <3>2. call'[u].step \in {"notify", "set"} BY <1>1, <3>1 DEF Moves, Notice
    <3>3. QED BY <1>2, <1>5, <3>2 DEF Noted, Notifying
  <2>3. QED BY <1>5, <2>1, <2>2 DEF Noted
<1>6. QED BY <1>1, <1>2, <1>3, <1>4, <1>5

\* Such a move preserves all but the parts about the lock, stopping and kicks.
LEMMA MovePreserves ==
  ASSUME IndInv, NEW t \in Threads, NEW c, Moves(t, pc'[t], c), LoopType',
         pc'[t] \in {"out", "kicking", "waiting", "in", "call", "polling", "leave", "exited"},
         LockInv', StopInv', KickInv'
  PROVE  IndInv'
<1> DEFINE p == pc'[t]
<1>0. /\ TypeOK /\ LockInv /\ StackInv /\ CallInv /\ DispatchInv /\ WakeInv /\ WalkInv
  BY DEF IndInv
<1>1. /\ \A u \in Threads : u # t => pc'[u] = pc[u]
      /\ call'[t] = c /\ \A u \in Threads : u # t => call'[u] = call[u]
      /\ dispatching' = dispatching /\ notifier' = notifier
      /\ ~dispatching /\ Noted => Noted'
  BY MoveIs
<1>2. /\ UNCHANGED <<first_bh, walking_bh, scheduled, idle, deleted, notifier, revents, io>>
      /\ UNCHANGED <<dispatching, stack>>
      /\ pc' = [pc EXCEPT ![t] = p] /\ call' = [call EXCEPT ![t] = c]
      /\ c \in {call[t], Notice}
  BY DEF Moves, bhVars, fdVars
<1>3. Notice \in Call /\ Notice.bh = NoBH /\ Notice.step = "notify" BY DEF Call, Notice
<1>4. TypeOK'
  <2>1. call' \in [Threads -> Call] BY <1>0, <1>2, <1>3 DEF TypeOK, AioTypeOK
  <2>2. AioTypeOK' BY <1>0, <1>2, <2>1 DEF TypeOK, AioTypeOK
  <2>3. pc' \in [Threads -> {"out", "kicking", "waiting", "in", "call", "polling",
                             "leave", "exited"}]
    BY <1>0, <1>2 DEF TypeOK
  <2>4. QED BY <2>2, <2>3 DEF TypeOK, LoopType
<1>5. /\ \A u \in Threads : (InPoll(u)' <=> InPoll(u)) /\ Depth(u)' = Depth(u)
      /\ \A u \in Threads : Top(u)' = Top(u) /\ (Sleepy(u)' <=> Sleepy(u))
  BY <1>2 DEF InPoll, Depth, Top, Sleepy
<1>6. StackInv'
  <2>1. ~InPoll(t) /\ ~(t = Home /\ pc'[t] = "polling") BY DEF Moves
  <2>2. QED BY <1>0, <1>1, <1>2, <1>5, <2>1 DEF StackInv
<1>7. CallInv'
  <2>1. Live' = Live BY <1>2, SameLive
  <2> SUFFICES ASSUME NEW u \in Threads
               PROVE  (/\ IF call[u].step \in {"xchg", "mb_set"} THEN call[u].bh \in Live
                                                                 ELSE call[u].bh = NoBH
                       /\ call[u].step = "mb_set" => pc[u] \in Owning
                       /\ call[u].step = "xchg" => pc[u] \in Owning \/ u \in Workers)'
    BY DEF CallInv
  <2>2. CASE u # t BY <1>0, <1>1, <2>1, <2>2 DEF CallInv
  <2>3. CASE u = t /\ c = Notice BY <1>1, <1>3, <2>3
  <2>4. CASE u = t /\ c = call[t]
    <3>1. /\ IF c.step \in {"xchg", "mb_set"} THEN c.bh \in Live ELSE c.bh = NoBH
          /\ c.step = "mb_set" => pc[t] \in Owning
          /\ c.step = "xchg" => pc[t] \in Owning \/ t \in Workers
      BY <1>0, <2>4 DEF CallInv
    <3>2. \/ pc'[t] \in Owning
          \/ c.step = "none"
          \/ pc[t] \notin Owning /\ t \notin Workers
      BY <2>4 DEF Moves, Quiet
    <3>3. QED BY <1>1, <2>1, <2>4, <3>1, <3>2
  <2>5. QED BY <1>2, <2>2, <2>3, <2>4
<1>8. DispatchInv' BY <1>0, <1>2, <1>5 DEF DispatchInv
<1>9. WakeInv'
  <2>1. Scheduled' = Scheduled BY <1>2, SameLive DEF Scheduled
  <2>2. QED BY <1>0, <1>1, <1>5, <2>1 DEF WakeInv, DispatchInv
<1>10. WalkInv'
  <2>1. Linked' = Linked BY <1>2, SameLive
  <2>2. QED BY <1>0, <1>2, <2>1, WalkUnchanged
<1>11. QED BY <1>4, <1>6, <1>7, <1>8, <1>9, <1>10 DEF IndInv

\* Steps that leave no room for a wakeup that was not there before.
LEMMA QuietMove ==
  ASSUME IndInv, NEW t \in Threads, NEW c, Moves(t, pc'[t], c), UNCHANGED stopping,
         stopping /\ pc'[Home] = "call" => pc[Home] = "call",
         Region' /\ (\E u \in Threads : Kicked(u)') => Region,
         \A u \in Threads : Region' /\ Kicked(u)' => Kicked(u) \/ c = Notice
  PROVE  StopInv' /\ KickInv'
<1>0. LockInv /\ StackInv /\ DispatchInv /\ StopInv /\ KickInv BY DEF IndInv
<1>1. /\ (Asleep' <=> Asleep) /\ dispatching' = dispatching
      /\ ~dispatching /\ Noted => Noted'
      /\ ~dispatching /\ c = Notice => Noted'
  BY MoveIs
<1>2. Region \/ pc[Home] = "call" => ~dispatching BY <1>0, Listening
<1>3. Asleep => Region BY DEF Region
<1>4. StopInv'
  <2> SUFFICES ASSUME stopping', pc'[Home] = "call" \/ Asleep' PROVE Noted'
    BY DEF StopInv
  <2>1. stopping /\ (pc[Home] = "call" \/ Asleep) BY <1>1
  <2>2. QED BY <1>0, <1>1, <1>2, <1>3, <2>1 DEF StopInv
<1>5. KickInv'
  <2> SUFFICES ASSUME Region', NEW u \in Threads, Kicked(u)' PROVE Noted'
    BY DEF KickInv
  <2>1. Region /\ ~dispatching BY <1>2
  <2>2. CASE Kicked(u) BY <1>0, <1>1, <2>1, <2>2 DEF KickInv
  <2>3. CASE c = Notice BY <1>1, <2>1, <2>3
  <2>4. QED BY <2>2, <2>3
<1>6. QED BY <1>4, <1>5

\* Whoever is outside of aio_poll.
LEMMA NotPolling ==
  ASSUME StackInv, NEW t \in Threads, pc[t] # "polling", t = Home \/ pc[t] # "in"
  PROVE  ~InPoll(t)
BY IoThreadAssumption DEF StackInv

\* aio_context_acquire.
LEMMA AcquireStep ==
  ASSUME IndInv, NEW t \in {Home} \cup Clients, pc[t] = "out", Acquire(t) PROVE IndInv'
<1> DEFINE p == IF queue = <<>> THEN "in" ELSE "kicking"
           c == IF queue = <<>> THEN call[t] ELSE Notice
<1>0. /\ TypeOK /\ LockInv /\ StackInv /\ t \in Threads /\ t \notin Workers
      /\ Home \in Threads
  BY IoThreadAssumption DEF IndInv
<1>1. /\ call[t] = Quiet /\ queue' = Append(queue, t) /\ pc' = [pc EXCEPT ![t] = p]
      /\ call' = [call EXCEPT ![t] = c]
      /\ UNCHANGED <<bhVars, fdVars, dispatching, stack, stopping, blocking, signalled>>
  <2>1. call = [call EXCEPT ![t] = call[t]] BY <1>0 DEF TypeOK, AioTypeOK
  <2>2. QED BY <2>1 DEF Acquire, Kick, Goto, Notice
<1>2. p \in {"in", "kicking"} /\ c \in {call[t], Notice} OBVIOUS
<1>3. queue = <<>> => p = "in" OBVIOUS
<1>4. queue # <<>> => p = "kicking" /\ c = Notice OBVIOUS
<1> HIDE DEF p, c
<1>5. ~InPoll(t) BY <1>0, NotPolling
<1>6. Moves(t, p, c) BY <1>1, <1>2, <1>5 DEF Moves
<1>7. pc'[t] = p /\ \A u \in Threads : u # t => pc'[u] = pc[u]
  BY <1>0, <1>6, MoveIs
<1>8. /\ queue \in Seq({Home} \cup Clients) /\ queue' \in Seq({Home} \cup Clients)
      /\ Adds(queue', queue, t) /\ Len(queue) \in Nat
      /\ \A i \in 1 .. Len(queue) : queue'[i] = queue[i]
      /\ queue'[Len(queue) + 1] = t
  BY <1>0, <1>1, AppendAdds, AppendProperties, LenProperties DEF TypeOK
<1>9. ~Has(queue, t) /\ (queue = <<>> => \A u : ~Has(queue, u))
  BY <1>0 DEF LockInv, Has
<1>10. \A u : Has(queue', u) <=> (Has(queue, u) \/ u = t) BY <1>8 DEF Adds
<1>11. LockInv'
  <2>1. Inj(queue') BY <1>0, <1>8, <1>9 DEF Adds, LockInv
  <2>2. \A u \in Threads : Has(queue', u) <=> pc'[u] \notin {"out", "exited"}
    BY <1>0, <1>2, <1>7, <1>10 DEF LockInv
  <2>3. ASSUME NEW u \in Threads, pc'[u] \in Owning PROVE queue'[1] = u
    <3>1. CASE u # t
      <4>1. pc[u] \in Owning BY <1>7, <2>3, <3>1
      <4>2. Has(queue, u) /\ queue[1] = u BY <1>0, <4>1 DEF LockInv, Owning
      <4>3. 1 \in 1 .. Len(queue)
        <5>1. PICK i \in 1 .. Len(queue) : queue[i] = u BY <4>2 DEF Has
        <5>2. QED BY <1>8, <5>1
      <4>4. QED BY <1>8, <4>2, <4>3
    <3>2. CASE u = t
      <4>1. queue = <<>> BY <1>4, <1>7, <2>3, <3>2 DEF Owning
      <4>2. Len(queue) = 0 BY <4>1
      <4>3. QED BY <1>8, <3>2, <4>2
    <3>3. QED BY <3>1, <3>2
  <2>4. \A u \in Threads : pc'[u] \in {"call", "polling", "leave", "exited"} => u = Home
    BY <1>0, <1>2, <1>7 DEF LockInv
  <2>5. \A w \in Workers : pc'[w] = "out" BY <1>0, <1>7, IoThreadAssumption DEF LockInv
  <2>6. QED BY <2>1, <2>2, <2>3, <2>4, <2>5 DEF LockInv
<1>12. Asleep' <=> Asleep BY <1>0, <1>6, MoveIs
<1>13. Region' /\ (\E u \in Threads : Kicked(u)') => Region
  <2>1. CASE queue = <<>>
    <3>1. ASSUME NEW u \in Threads PROVE ~Kicked(u)'
      <4>1. u # t => pc[u] \in {"out", "exited"} BY <1>0, <1>9, <2>1 DEF LockInv
      <4>2. pc'[u] \in {"in", "out", "exited"} BY <1>3, <1>7, <2>1, <4>1
      <4>3. QED BY <4>2 DEF Kicked
    <3>2. QED BY <3>1
  <2>2. CASE queue # <<>>
    <3>1. pc'[t] = "kicking" BY <1>4, <1>7, <2>2
    <3>2. QED BY <1>0, <1>1, <1>7, <1>12, <3>1 DEF Region, Owning
  <2>3. QED BY <2>1, <2>2
<1>14. \A u \in Threads : Kicked(u)' => Kicked(u) \/ c = Notice
  <2> SUFFICES ASSUME NEW u \in Threads, Kicked(u)' PROVE Kicked(u) \/ c = Notice
    OBVIOUS
  <2>1. CASE u # t
    <3>1. call'[u] = call[u] BY <1>0, <1>6, <2>1, MoveIs
    <3>2. QED BY <1>1, <1>7, <2>1, <3>1 DEF Kicked
  <2>2. CASE u = t
    <3>1. p = "kicking" BY <1>2, <1>7, <2>2 DEF Kicked
    <3>2. QED BY <1>3, <1>4, <3>1
  <2>3. QED BY <2>1, <2>2
<1>15. pc'[Home] = "call" => pc[Home] = "call" BY <1>0, <1>2, <1>7
<1>16. StopInv' /\ KickInv'
  BY <1>0, <1>1, <1>6, <1>7, <1>13, <1>14, <1>15, QuietMove
<1>17. LoopType' BY <1>0, <1>1, <1>8 DEF LoopType, TypeOK
<1>18. QED BY <1>0, <1>2, <1>6, <1>7, <1>11, <1>16, <1>17, MovePreserves

\* The queue is the same.
LEMMA SameQueue ==
  ASSUME IndInv, NEW t \in {Home} \cup Clients, NEW c, Moves(t, pc'[t], c), UNCHANGED queue,
         pc'[t] \in {"out", "exited"} <=> pc[t] \in {"out", "exited"},
         pc'[t] \in Owning => pc[t] \in Owning \/ queue[1] = t,
         pc'[t] \in {"call", "polling", "leave", "exited"} => t = Home
  PROVE  LockInv'
<1>0. LockInv /\ t \in Threads /\ t \notin Workers BY IoThreadAssumption DEF IndInv
<1>1. \A u \in Threads : u # t => pc'[u] = pc[u] BY <1>0, MoveIs
<1>2. \A u \in Threads : Has(queue, u) <=> pc'[u] \notin {"out", "exited"}
  BY <1>0, <1>1 DEF LockInv
<1>3. \A u \in Threads : pc'[u] \in Owning => queue[1] = u BY <1>0, <1>1 DEF LockInv
<1>4. \A u \in Threads : pc'[u] \in {"call", "polling", "leave", "exited"} => u = Home
  BY <1>0, <1>1 DEF LockInv
<1>5. \A w \in Workers : pc'[w] = "out" BY <1>0, <1>1, IoThreadAssumption DEF LockInv
<1>6. QED BY <1>0, <1>2, <1>3, <1>4, <1>5 DEF LockInv

\* A step of one thread in the lock that makes no call.
LEMMA MoveOnly ==
  ASSUME IndInv, NEW t \in {Home} \cup Clients, NEW p, pc' = [pc EXCEPT ![t] = p], ~InPoll(t),
         ~(t = Home /\ p = "polling"), p \in Owning \/ pc[t] \notin Owning \/ call[t] = Quiet,
         UNCHANGED aioVars
  PROVE  Moves(t, p, call[t])
<1>1. t \in Threads /\ t \notin Workers BY IoThreadAssumption
<1>2. call = [call EXCEPT ![t] = call[t]] BY <1>1 DEF IndInv, TypeOK, AioTypeOK
<1>3. UNCHANGED <<bhVars, fdVars, dispatching, stack, call>> BY DEF aioVars
<1>4. QED BY <1>1, <1>2, <1>3 DEF Moves

\* qemu_cond_wait: from now on only others wake the thread.
LEMMA StartWaitStep ==
  ASSUME IndInv, NEW t \in Threads, StartWait(t) PROVE IndInv'
<1>0. TypeOK /\ LockInv /\ StackInv BY DEF IndInv
<1>1. /\ pc[t] = "kicking" /\ call[t] = Quiet /\ pc' = [pc EXCEPT ![t] = "waiting"]
      /\ signalled' = signalled \ {t} /\ UNCHANGED <<aioVars, stopping, blocking, queue>>
  BY DEF StartWait, Goto
<1>2. t \in {Home} \cup Clients BY <1>0, <1>1, IoThreadAssumption DEF LockInv
<1>3. ~InPoll(t) BY <1>0, <1>1, NotPolling
<1>4. Moves(t, "waiting", call[t]) BY <1>1, <1>2, <1>3, MoveOnly
<1>5. /\ pc'[t] = "waiting" /\ \A u \in Threads : u # t => pc'[u] = pc[u]
      /\ (Asleep' <=> Asleep) /\ \A u \in Threads : call'[u] = call[u]
  BY <1>4, MoveIs
<1>6. LockInv' BY <1>1, <1>2, <1>4, <1>5, SameQueue DEF Owning
<1>7. Region' => Region BY <1>1, <1>5, IoThreadAssumption DEF Region, Owning
<1>8. \A u \in Threads : Kicked(u)' => Kicked(u)
  <2> SUFFICES ASSUME NEW u \in Threads, Kicked(u)' PROVE Kicked(u) OBVIOUS
  <2>1. CASE u # t
    <3>1. pc'[u] = pc[u] /\ call'[u] = call[u] BY <1>5, <2>1
    <3>2. u \notin signalled' => u \notin signalled BY <1>1, <2>1
    <3>3. QED BY <3>1, <3>2 DEF Kicked
  <2>2. CASE u = t BY <1>1, <2>2 DEF Kicked
  <2>3. QED BY <2>1, <2>2
<1>9. pc'[Home] = "call" => pc[Home] = "call" BY <1>5, IoThreadAssumption
<1>10. StopInv' /\ KickInv' BY <1>1, <1>4, <1>5, <1>7, <1>8, <1>9, QuietMove
<1>11. LoopType' BY <1>0, <1>1 DEF LoopType, TypeOK
<1>12. QED BY <1>4, <1>5, <1>6, <1>10, <1>11, MovePreserves

\* The thread wakes up: it has the lock, or it kicks the new owner.
LEMMA WakeStep ==
  ASSUME IndInv, NEW t \in Threads, Wake(t) PROVE IndInv'
<1> DEFINE p == IF Head(queue) = t THEN "in" ELSE "kicking"
           c == IF Head(queue) = t THEN call[t] ELSE Notice
<1>0. TypeOK /\ LockInv /\ StackInv BY DEF IndInv
<1>1. /\ pc[t] = "waiting" /\ pc' = [pc EXCEPT ![t] = p] /\ call' = [call EXCEPT ![t] = c]
      /\ signalled' = signalled \ {t}
      /\ UNCHANGED <<bhVars, fdVars, dispatching, stack, stopping, blocking, queue>>
  <2>1. call = [call EXCEPT ![t] = call[t]] BY <1>0 DEF TypeOK, AioTypeOK
  <2>2. QED BY <2>1 DEF Wake, Kick, Goto, Notice
<1>2. /\ p \in {"in", "kicking"} /\ c \in {call[t], Notice}
      /\ p = "in" => Head(queue) = t
      /\ p = "kicking" => c = Notice
  OBVIOUS
<1> HIDE DEF p, c
<1>3. t \in {Home} \cup Clients BY <1>0, <1>1, IoThreadAssumption DEF LockInv
<1>4. t \notin Workers /\ Home \in Threads BY <1>3, IoThreadAssumption
<1>5. ~InPoll(t) BY <1>0, <1>1, NotPolling
<1>6. Moves(t, p, c) BY <1>1, <1>2, <1>4, <1>5 DEF Moves, Owning
<1>7. /\ pc'[t] = p /\ \A u \in Threads : u # t => pc'[u] = pc[u]
      /\ (Asleep' <=> Asleep) /\ \A u \in Threads : u # t => call'[u] = call[u]
  BY <1>6, MoveIs
<1>8. p = "in" => queue[1] = t
  <2>1. Has(queue, t) BY <1>0, <1>1 DEF LockInv
  <2>2. queue \in Seq({Home} \cup Clients) BY <1>0 DEF TypeOK
  <2>3. queue # <<>> BY <2>1 DEF Has
  <2>4. Head(queue) = queue[1] BY <2>2, <2>3
  <2>5. QED BY <1>2, <2>4
<1>9. LockInv' BY <1>1, <1>2, <1>3, <1>6, <1>7, <1>8, SameQueue DEF Owning
<1>10. Region' => Region
  <2>1. CASE p = "in"
    <3>1. \A u \in Threads : pc[u] \notin Owning
      BY <1>0, <1>1, <1>8, <2>1 DEF LockInv, Owning
    <3>2. QED BY <3>1 DEF Region
  <2>2. CASE p = "kicking" BY <1>1, <1>4, <1>7, <2>2 DEF Region, Owning
  <2>3. QED BY <1>2, <2>1, <2>2
<1>11. \A u \in Threads : Kicked(u)' => Kicked(u) \/ c = Notice
  <2> SUFFICES ASSUME NEW u \in Threads, Kicked(u)' PROVE Kicked(u) \/ c = Notice
    OBVIOUS
  <2>1. CASE u # t BY <1>1, <1>7, <2>1 DEF Kicked
  <2>2. CASE u = t BY <1>2, <1>7, <2>2 DEF Kicked
  <2>3. QED BY <2>1, <2>2
<1>12. pc'[Home] = "call" => pc[Home] = "call" BY <1>2, <1>4, <1>7
<1>13. StopInv' /\ KickInv' BY <1>1, <1>6, <1>7, <1>10, <1>11, <1>12, QuietMove
<1>14. LoopType' BY <1>0, <1>1 DEF LoopType, TypeOK
<1>15. QED BY <1>2, <1>6, <1>7, <1>9, <1>13, <1>14, MovePreserves

\* aio_context_release: whoever waits is woken, and kicks the next owner again.
LEMMA ReleaseStep ==
  ASSUME IndInv, NEW t \in {Home} \cup Clients, pc[t] \in Owning, ~InPoll(t), Release(t),
         blocking' \in BOOLEAN
  PROVE  IndInv'
<1>0. /\ TypeOK /\ LockInv /\ StackInv /\ t \in Threads /\ t \notin Workers
      /\ Home \in Threads
  BY IoThreadAssumption DEF IndInv
<1>1. /\ MutexFree /\ call[t] = Quiet /\ pc' = [pc EXCEPT ![t] = "out"]
      /\ queue' = Tail(queue) /\ signalled' = {u \in Threads : pc[u] = "waiting"}
      /\ UNCHANGED <<aioVars, stopping>>
  BY DEF Release, Goto
<1>2. Moves(t, "out", call[t]) BY <1>1, MoveOnly
<1>3. /\ pc'[t] = "out" /\ \A u \in Threads : u # t => pc'[u] = pc[u]
  BY <1>0, <1>2, MoveIs
<1>4. queue \in Seq({Home} \cup Clients) /\ queue[1] = t /\ Has(queue, t)
  BY <1>0 DEF TypeOK, LockInv, Owning
<1>5. queue # <<>> BY <1>4 DEF Has
<1>6. /\ Head(queue) = t /\ queue' \in Seq({Home} \cup Clients) /\ Drops(queue', queue, t)
  <2>1. Head(queue) = queue[1] /\ Tail(queue) \in Seq({Home} \cup Clients)
    BY <1>4, <1>5, HeadTailProperties
  <2>2. Drops(Tail(queue), queue, Head(queue)) BY <1>4, <1>5, TailDrops
  <2>3. QED BY <1>1, <1>4, <2>1, <2>2
<1>7. \A u \in Threads : pc'[u] \notin Owning BY <1>0, <1>3, <1>4 DEF LockInv, Owning
<1>8. LockInv'
  <2>1. Inj(queue') /\ \A u : Has(queue', u) <=> (Has(queue, u) /\ u # t)
    BY <1>0, <1>6 DEF LockInv, Drops
  <2>2. \A u \in Threads : Has(queue', u) <=> pc'[u] \notin {"out", "exited"}
    BY <1>0, <1>3, <2>1 DEF LockInv
  <2>3. \A u \in Threads : pc'[u] \in {"call", "polling", "leave", "exited"} => u = Home
    BY <1>0, <1>3 DEF LockInv
  <2>4. \A w \in Workers : pc'[w] = "out" BY <1>0, <1>3, IoThreadAssumption DEF LockInv
  <2>5. QED BY <1>7, <2>1, <2>2, <2>3, <2>4 DEF LockInv
<1>9. \A u \in Threads : ~Kicked(u)'
  <2> SUFFICES ASSUME NEW u \in Threads, Kicked(u)' PROVE FALSE OBVIOUS
  <2>1. pc'[u] \in {"waiting", "kicking"} BY DEF Kicked
  <2>2. pc'[u] = pc[u] /\ pc[u] # "kicking" BY <1>1, <1>3, <2>1 DEF MutexFree
  <2>3. QED BY <1>1, <2>1, <2>2 DEF Kicked
<1>10. pc'[Home] = "call" => pc[Home] = "call" BY <1>0, <1>3
<1>11. StopInv' /\ KickInv' BY <1>0, <1>1, <1>2, <1>3, <1>9, <1>10, QuietMove
<1>12. LoopType'
  <2>1. signalled' \in SUBSET Threads BY <1>1
  <2>2. QED BY <1>0, <1>1, <1>6, <2>1 DEF LoopType, TypeOK
<1>13. QED BY <1>0, <1>2, <1>3, <1>8, <1>11, <1>12, MovePreserves

\* iothread_run leaves its outer loop, or tests `stopping' in the inner one.
LEMMA LoopExitStep ==
  ASSUME IndInv, LoopExit PROVE IndInv'
<1>0. TypeOK /\ LockInv /\ StackInv /\ Home \in Threads BY IoThreadAssumption DEF IndInv
<1>1. /\ pc[Home] = "out" /\ pc' = [pc EXCEPT ![Home] = "exited"]
      /\ UNCHANGED <<aioVars, stopping, blocking, queue, signalled>>
  BY DEF LoopExit, Goto
<1>2. ~InPoll(Home) BY <1>0, <1>1, NotPolling
<1>3. Moves(Home, "exited", call[Home]) BY <1>1, <1>2, MoveOnly DEF Owning
<1>4. /\ pc'[Home] = "exited" /\ \A u \in Threads : u # Home => pc'[u] = pc[u]
      /\ (Asleep' <=> Asleep) /\ \A u \in Threads : call'[u] = call[u]
  BY <1>0, <1>3, MoveIs
<1>5. LockInv' BY <1>1, <1>3, <1>4, SameQueue DEF Owning
<1>6. Region' => Region BY <1>1, <1>4 DEF Region, Owning
<1>7. \A u \in Threads : Kicked(u)' => Kicked(u)
  <2>1. signalled' = signalled /\ \A u \in Threads : call'[u] = call[u]
    BY <1>1, <1>4
  <2>2. \A u \in Threads : pc'[u] \in {"waiting", "kicking"} => pc'[u] = pc[u] BY <1>4
  <2>3. QED BY <2>1, <2>2 DEF Kicked
<1>8. pc'[Home] # "call" BY <1>4
<1>9. StopInv' /\ KickInv' BY <1>0, <1>1, <1>3, <1>4, <1>6, <1>7, <1>8, QuietMove
<1>10. LoopType' BY <1>0, <1>1 DEF LoopType, TypeOK
<1>11. QED BY <1>0, <1>3, <1>4, <1>5, <1>9, <1>10, MovePreserves

\* The test of the inner loop of iothread_run (iothread.c:44).
LEMMA InnerTestStep ==
  ASSUME IndInv, InnerTest PROVE IndInv'
<1> DEFINE p == IF stopping THEN "leave" ELSE "call"
<1>0. TypeOK /\ LockInv /\ StackInv /\ Home \in Threads BY IoThreadAssumption DEF IndInv
<1>1. /\ pc[Home] = "in" /\ pc' = [pc EXCEPT ![Home] = p]
      /\ UNCHANGED <<aioVars, stopping, blocking, queue, signalled>>
  BY DEF InnerTest, Goto
<1>2. p \in {"leave", "call"} /\ (stopping => p = "leave") OBVIOUS
<1> HIDE DEF p
<1>3. ~InPoll(Home) BY <1>0, <1>1, NotPolling
<1>4. Moves(Home, p, call[Home]) BY <1>1, <1>2, <1>3, MoveOnly DEF Owning
<1>5. /\ pc'[Home] = p /\ \A u \in Threads : u # Home => pc'[u] = pc[u]
      /\ (Asleep' <=> Asleep) /\ \A u \in Threads : call'[u] = call[u]
  BY <1>0, <1>4, MoveIs
<1>6. LockInv' BY <1>1, <1>2, <1>4, <1>5, SameQueue DEF Owning
<1>7. Region' => Region
  <2>1. pc'[Home] \in Owning BY <1>2, <1>5 DEF Owning
  <2>2. QED BY <1>0, <1>1, <1>5, <2>1 DEF Region
<1>8. \A u \in Threads : Kicked(u)' => Kicked(u)
  <2>1. signalled' = signalled /\ \A u \in Threads : call'[u] = call[u]
    BY <1>1, <1>5
  <2>2. \A u \in Threads : pc'[u] \in {"waiting", "kicking"} => pc'[u] = pc[u] BY <1>2, <1>5
  <2>3. QED BY <2>1, <2>2 DEF Kicked
<1>9. ~(stopping /\ pc'[Home] = "call") BY <1>2, <1>5
<1>10. StopInv' /\ KickInv' BY <1>0, <1>1, <1>4, <1>5, <1>7, <1>8, <1>9, QuietMove
<1>11. LoopType' BY <1>0, <1>1 DEF LoopType, TypeOK
<1>12. QED BY <1>0, <1>2, <1>4, <1>5, <1>6, <1>10, <1>11, MovePreserves

\* iothread_instance_finalize: the request to stop comes with a notification.
LEMMA FinalizeStep ==
  ASSUME IndInv, NEW w \in Workers, iothread_instance_finalize(w) PROVE IndInv'
<1>0. /\ TypeOK /\ LockInv /\ StackInv /\ DispatchInv /\ KickInv
      /\ w \in Threads /\ pc[w] = "out" /\ w # Home
  BY IoThreadAssumption DEF IndInv, LockInv
<1>1. /\ call[w] = Quiet /\ stopping' = TRUE /\ call' = [call EXCEPT ![w] = Notice]
      /\ UNCHANGED <<bhVars, fdVars, dispatching, stack, blocking, pc, queue, signalled>>
  BY DEF iothread_instance_finalize, Notice
<1>2. ~InPoll(w) BY <1>0, NotPolling
<1>3. pc' = [pc EXCEPT ![w] = pc'[w]] BY <1>0, <1>1 DEF TypeOK
<1>4. Moves(w, pc'[w], Notice) BY <1>0, <1>1, <1>2, <1>3 DEF Moves
<1>5. /\ Asleep' <=> Asleep
      /\ call'[w] = Notice /\ \A u \in Threads : u # w => call'[u] = call[u]
      /\ ~dispatching => Noted'
  BY <1>0, <1>4, MoveIs
<1>6. Region \/ pc[Home] = "call" => ~dispatching BY <1>0, Listening
<1>7. Asleep => Region BY DEF Region
<1>8. StopInv' BY <1>1, <1>5, <1>6, <1>7 DEF StopInv
<1>9. Region' => Region BY <1>1, <1>5 DEF Region
<1>10. KickInv' BY <1>5, <1>6, <1>9 DEF KickInv
<1>11. LockInv' BY <1>0, <1>1, SameLock
<1>12. LoopType' BY <1>0, <1>1 DEF LoopType, TypeOK
<1>13. pc'[w] = "out" BY <1>0, <1>1
<1>14. QED BY <1>0, <1>4, <1>8, <1>10, <1>11, <1>12, <1>13, MovePreserves

-----------------------------------------------------------------------------
(* The specification.                                                      *)

\* A descriptor becomes ready, or nothing happens.
LEMMA NothingElse ==
  ASSUME IndInv, TypeOK', UNCHANGED <<bhVars, notifier, dispatching, stack, call, loopVars>>
  PROVE  IndInv'
<1>1. /\ UNCHANGED <<first_bh, walking_bh, scheduled, deleted, notifier, dispatching>>
      /\ UNCHANGED <<stack, call, stopping, blocking, pc, queue, signalled>>
  BY DEF bhVars, loopVars
<1>2. /\ LockInv /\ StackInv /\ CallInv /\ DispatchInv /\ WakeInv /\ StopInv
      /\ KickInv /\ WalkInv
  BY DEF IndInv
<1>3. LockInv' /\ CallInv' BY <1>1, <1>2, SameLock, SameCalls
<1>4. Live' = Live /\ Linked' = Linked BY <1>1, SameLive
<1>5. WalkInv' BY <1>1, <1>2, <1>4, WalkUnchanged
<1>6. /\ \A u \in Threads : (InPoll(u)' <=> InPoll(u)) /\ Depth(u)' = Depth(u)
      /\ \A u \in Threads : Top(u)' = Top(u) /\ (Sleepy(u)' <=> Sleepy(u))
      /\ Asleep' <=> Asleep
  BY <1>1, IoThreadAssumption DEF InPoll, Depth, Top, Sleepy, Asleep
<1>7. StackInv' BY <1>1, <1>2, <1>6 DEF StackInv
<1>8. DispatchInv' BY <1>1, <1>2, <1>6 DEF DispatchInv
<1>9. Noted' <=> Noted BY <1>1 DEF Noted, Notifying
<1>10. Scheduled' = Scheduled BY <1>1, <1>4 DEF Scheduled
<1>11. WakeInv' BY <1>2, <1>6, <1>9, <1>10 DEF WakeInv
<1>12. StopInv' BY <1>1, <1>2, <1>6, <1>9 DEF StopInv
<1>13. KickInv'
  <2>1. Region' <=> Region BY <1>1, <1>6 DEF Region
  <2>2. \A u \in Threads : Kicked(u)' <=> Kicked(u) BY <1>1 DEF Kicked
  <2>3. QED BY <1>2, <1>9, <2>1, <2>2 DEF KickInv
<1>14. QED BY <1>3, <1>5, <1>7, <1>8, <1>11, <1>12, <1>13 DEF IndInv

\* The calls of the users of the context.
LEMMA AnyCallStep ==
  ASSUME IndInv, NEW t \in Threads, Outside(t), pc[t] \in Owning \/ t \in Workers,
         AnyCall(t), UNCHANGED loopVars
  PROVE  IndInv'
<1>1. PICK b \in BHs : aio_bh_new(t, b) \/ qemu_bh_schedule(t, b) BY DEF AnyCall
<1>2. QED BY <1>1, BhNewStep, ScheduleStep

\* Every call to the API that an owner of the context may make.
LEMMA OwnerCallStep ==
  ASSUME IndInv, NEW t \in Threads, Outside(t), pc[t] \in Owning, OwnerCall(t),
         UNCHANGED loopVars
  PROVE  IndInv'
<1>1. PICK b \in BHs : \/ qemu_bh_schedule_idle(t, b)
                       \/ qemu_bh_cancel(t, b)
                       \/ qemu_bh_delete(t, b)
  BY DEF OwnerCall
<1>2. QED BY <1>1, ScheduleIdleStep, CancelStep, DeleteStep

\* The invariant holds initially.
LEMMA InitInv == Init => IndInv
<1> SUFFICES ASSUME Init PROVE IndInv OBVIOUS
<1>0. Home \in Threads BY IoThreadAssumption
<1>1. TypeOK
  <2>1. Quiet \in Call BY DEF Quiet, Call
  <2>2. /\ scheduled \in [BHs -> BOOLEAN] /\ idle \in [BHs -> BOOLEAN]
        /\ deleted \in [BHs -> BOOLEAN]
    BY DEF Init, AioInit
  <2>3. stack \in [Threads -> Seq(Frame)] /\ call \in [Threads -> Call] /\ first_bh \in Seq(BHs)
    BY <2>1 DEF Init, AioInit
  <2>4. /\ walking_bh \in Nat /\ dispatching \in BOOLEAN /\ notifier \in BOOLEAN
        /\ io \in BOOLEAN /\ revents \in SUBSET Fds
    BY DEF Init, AioInit
  <2>5. AioTypeOK BY <2>2, <2>3, <2>4 DEF AioTypeOK
  <2>6. /\ stopping \in BOOLEAN /\ blocking \in BOOLEAN /\ signalled \in SUBSET Threads
    BY DEF Init
  <2>7. pc \in [Threads -> {"out", "kicking", "waiting", "in", "call", "polling",
                            "leave", "exited"}]
    BY DEF Init
  <2>8. queue \in Seq({Home} \cup Clients)
    <3>1. <<>> \in Seq({Home} \cup Clients) BY EmptySeq
    <3>2. QED BY <3>1 DEF Init
  <2>9. QED BY <2>5, <2>6, <2>7, <2>8 DEF TypeOK
<1>2. \A t \in Threads : /\ ~InPoll(t) /\ Depth(t) = 0 /\ call[t] = Quiet
                         /\ pc[t] = "out"
  BY DEF Init, AioInit, InPoll, Depth
<1>3. LockInv
  <2>1. Inj(queue) /\ \A t : ~Has(queue, t) BY DEF Init, Inj, Has
  <2>2. \A w \in Workers : pc[w] = "out" BY <1>2, IoThreadAssumption
  <2>3. QED BY <1>2, <2>1, <2>2 DEF LockInv, Owning
<1>4. StackInv
  <2>1. 0 <= MaxDepth BY AioAssumption
  <2>2. \A i \in 1 .. 0 - 1 : FALSE OBVIOUS
  <2>3. QED BY <1>2, <2>1, <2>2 DEF StackInv
<1>5. CallInv BY <1>2 DEF CallInv, Quiet
<1>6. DispatchInv BY <1>2 DEF DispatchInv, Sleepy, Init, AioInit
<1>7. WakeInv /\ StopInv /\ KickInv
  BY <1>0, <1>2 DEF WakeInv, StopInv, KickInv, Sleepy, Asleep, Kicked, Init
<1>8. WalkInv
  <2>1. WalkingFrames = {}
    <3>1. ASSUME NEW x \in WalkingFrames PROVE FALSE
      <4>1. PICK u \in Threads, i \in 1 .. MaxDepth : x = <<u, i>>
        BY DEF WalkingFrames, Frames
      <4>2. i <= Depth(u) BY <4>1 DEF WalkingFrames
      <4>3. QED BY <1>2, <4>1, <4>2, AioAssumption
    <3>2. QED BY <3>1
  <2>2. walking_bh = 0 BY DEF Init, AioInit
  <2>3. QED BY <2>1, <2>2, FS_EmptySet DEF WalkInv, NoDanglingBh
<1>9. QED BY <1>1, <1>3, <1>4, <1>5, <1>6, <1>7, <1>8 DEF IndInv

\* Every step preserves the invariant.
LEMMA NextInv == IndInv /\ [Next]_vars => IndInv'
<1> SUFFICES ASSUME IndInv, [Next]_vars PROVE IndInv' OBVIOUS
<1>0. /\ TypeOK /\ LockInv /\ StackInv /\ Home \in Threads /\ Home \in {Home} \cup Clients
      /\ Clients \subseteq Threads /\ Workers \subseteq Threads
  BY IoThreadAssumption DEF IndInv
<1>1. ASSUME LoopStep PROVE IndInv'
  <2>1. CASE LoopAcquire BY <1>0, <2>1, AcquireStep DEF LoopAcquire
  <2>2. CASE LoopExit BY <2>2, LoopExitStep
  <2>3. CASE InnerTest BY <2>3, InnerTestStep
  <2>4. CASE LoopPoll BY <2>4, LoopPollStep
  <2>5. CASE LoopPollEnd BY <2>5, LoopPollEndStep
  <2>6. CASE LoopRelease
    <3>1. pc[Home] = "leave" /\ Release(Home) /\ blocking' = TRUE BY <2>6 DEF LoopRelease
    <3>2. pc[Home] \in Owning /\ blocking' \in BOOLEAN BY <3>1 DEF Owning
    <3>3. ~InPoll(Home) BY <1>0, <3>1, NotPolling
    <3>4. QED BY <1>0, <3>1, <3>2, <3>3, ReleaseStep
  <2>7. QED BY <1>1, <2>1, <2>2, <2>3, <2>4, <2>5, <2>6 DEF LoopStep
<1>2. ASSUME NEW t \in Threads, ThreadStep(t) PROVE IndInv'
  <2>1. ASSUME CallStep(t), UNCHANGED loopVars PROVE IndInv'
    BY <2>1, XchgStep, NotifyReadStep, NotifySetStep, IdleSetStep DEF CallStep
  <2>2. ASSUME PollStep(t), UNCHANGED loopVars PROVE IndInv'
    BY <2>2, PollStartStep, PollReturnStep, DispatchStartStep, BhVisitStep, BhCallStep,
       BhEndStep, HandleIoStep, HandleNotifierStep DEF PollStep
  <2>3. CASE NestedPollEnd(t) BY <2>3, NestedPollEndStep
  <2>4. CASE LockStep(t) BY <2>4, StartWaitStep, WakeStep DEF LockStep
  <2>5. QED BY <1>2, <2>1, <2>2, <2>3, <2>4 DEF ThreadStep
<1>3. ASSUME NEW t \in Threads, Callback(t) PROVE IndInv'
  BY <1>3, BhReturnStep, IoReturnStep DEF Callback, CallbackReturns
<1>4. ASSUME NEW t \in Threads, CallbackCall(t) PROVE IndInv'
  <2>1. InCallback(t) /\ (AnyCall(t) \/ OwnerCall(t)) /\ UNCHANGED loopVars
    BY <1>4 DEF CallbackCall
  <2>2. Outside(t) /\ pc[t] \in Owning BY <2>1, InCallbackIs
  <2>3. QED BY <2>1, <2>2, AnyCallStep, OwnerCallStep
<1>5. ASSUME NEW t \in Threads, NestedPoll(t) PROVE IndInv' BY <1>5, NestedPollStep
<1>6. ASSUME NEW c \in Clients, ClientAcquire(c) PROVE IndInv'
  BY <1>6, AcquireStep DEF ClientAcquire
<1>7. ASSUME NEW c \in Clients, ClientRelease(c) PROVE IndInv'
  <2>1. pc[c] = "in" /\ ~InPoll(c) /\ Release(c) /\ blocking' = blocking
    BY <1>7 DEF ClientRelease
  <2>2. pc[c] \in Owning /\ blocking' \in BOOLEAN BY <1>0, <2>1 DEF Owning, TypeOK
  <2>3. QED BY <2>1, <2>2, ReleaseStep
<1>8. ASSUME NEW c \in Clients, ClientCall(c) PROVE IndInv'
  <2>1. /\ pc[c] = "in" /\ ~InPoll(c) /\ (AnyCall(c) \/ OwnerCall(c))
        /\ UNCHANGED loopVars
    BY <1>8 DEF ClientCall
  <2>2. Outside(c) /\ pc[c] \in Owning /\ c \in Threads BY <1>0, <2>1 DEF Outside, Owning
  <2>3. QED BY <2>1, <2>2, AnyCallStep, OwnerCallStep
<1>9. ASSUME NEW c \in Clients, ClientPoll(c) PROVE IndInv' BY <1>9, ClientPollStep
<1>10. ASSUME NEW c \in Clients, ClientPollEnd(c) PROVE IndInv' BY <1>10, ClientPollEndStep
<1>11. ASSUME NEW w \in Workers, WorkerCall(w) PROVE IndInv'
  <2>1. AnyCall(w) /\ UNCHANGED loopVars /\ w \in Threads BY <1>0, <1>11 DEF WorkerCall
  <2>2. Outside(w)
    <3>1. pc[w] = "out" BY <1>0 DEF LockInv
    <3>2. ~InPoll(w) BY <1>0, <2>1, <3>1, NotPolling
    <3>3. QED BY <3>2 DEF Outside
  <2>3. QED BY <2>1, <2>2, AnyCallStep
<1>12. ASSUME NEW w \in Workers, iothread_instance_finalize(w) PROVE IndInv'
  BY <1>12, FinalizeStep
<1>13. ASSUME IoReady, UNCHANGED loopVars PROVE IndInv'
  <2>1. UNCHANGED <<bhVars, notifier, revents, dispatching, stack, call>> /\ io' \in BOOLEAN
    BY <1>13 DEF IoReady
  <2>2. AioTypeOK' BY <1>0, <2>1 DEF TypeOK, AioTypeOK, bhVars
  <2>3. TypeOK' BY <1>0, <1>13, <2>2 DEF TypeOK, loopVars
  <2>4. QED BY <1>13, <2>1, <2>3, NothingElse
<1>14. ASSUME UNCHANGED vars PROVE IndInv'
  <2>1. UNCHANGED <<bhVars, fdVars, dispatching, stack, call, loopVars>>
    BY <1>14 DEF vars, aioVars
  <2>2. AioTypeOK' BY <1>0, <2>1 DEF TypeOK, AioTypeOK, bhVars, fdVars
  <2>3. TypeOK' BY <1>0, <2>1, <2>2 DEF TypeOK, loopVars
  <2>4. notifier' = notifier BY <2>1 DEF fdVars
  <2>5. QED BY <2>1, <2>3, <2>4, NothingElse
<1>15. CASE Next
  <2>1. CASE LoopStep BY <1>1, <2>1
  <2>2. CASE \E t \in Threads : \/ ThreadStep(t) \/ Callback(t)
                                \/ CallbackCall(t) \/ NestedPoll(t)
    BY <1>2, <1>3, <1>4, <1>5, <2>2
  <2>3. CASE \E c \in Clients : \/ ClientAcquire(c) \/ ClientRelease(c) \/ ClientCall(c)
                                \/ ClientPoll(c) \/ ClientPollEnd(c)
    BY <1>6, <1>7, <1>8, <1>9, <1>10, <2>3
  <2>4. CASE \E w \in Workers : WorkerCall(w) \/ iothread_instance_finalize(w)
    BY <1>11, <1>12, <2>4
  <2>5. CASE IoReady /\ UNCHANGED loopVars BY <1>13, <2>5
  <2>6. CASE Terminated BY <1>14, <2>6 DEF Terminated
  <2>7. QED BY <1>15, <2>1, <2>2, <2>3, <2>4, <2>5, <2>6 DEF Next
<1>16. QED BY <1>14, <1>15

\* Every reachable state satisfies the invariant.
LEMMA Invariance == Spec => []IndInv
<1>1. Init => IndInv BY InitInv
<1>2. IndInv /\ [Next]_vars => IndInv' BY NextInv
<1>3. QED BY <1>1, <1>2, PTL DEF Spec

-----------------------------------------------------------------------------
(* The theorems.                                                           *)

\* Who is blocked without a timeout, and is not woken.
LEMMA BlockedIs ==
  ASSUME NEW t \in Threads, BlockedForever(t)
  PROVE  Sleepy(t) /\ Top(t).pc = "poll" /\ ~notifier
<1>1. InPoll(t) /\ Top(t).pc = "poll" /\ Top(t).timeout = "none" BY DEF BlockedForever, At
<1>2. ~notifier
  <2>1. notifier => "notifier" \in Ready BY DEF Ready, Fds
  <2>2. QED BY <2>1 DEF BlockedForever
<1>3. QED BY <1>1, <1>2 DEF Sleepy

\* Lines 41-51 and 60-61 of iothread.c with lines 270-288 of async.c, for any
\* number of threads, bottom halves and nested polls: one thread is in aio_poll
\* at a time, and it is the owner of the lock; the IOThread is not blocked in its
\* outermost poll while a thread waits for the context that has kicked it, or
\* after iothread_instance_finalize, unless a notification is on its way.
THEOREM IoThreadStaysSafe == Spec => []IoThreadSafe
<1>1. IndInv => IoThreadSafe
  <2> SUFFICES ASSUME IndInv PROVE IoThreadSafe OBVIOUS
  <2>0. TypeOK /\ LockInv /\ StackInv /\ StopInv /\ KickInv /\ Home \in Threads
    BY IoThreadAssumption DEF IndInv
  <2>1. OnePoller
    <3>1. \A t, u \in Threads : InPoll(t) /\ InPoll(u) => t = u BY <2>0, Poller
    <3>2. ASSUME NEW t \in Threads, InPoll(t)
          PROVE  pc[t] \in {"in", "polling"} /\ Head(queue) = t
      <4>1. pc[t] \in Owning /\ pc[t] \in {"in", "polling"} BY <2>0, <3>2, Poller
      <4>2. queue[1] = t /\ Has(queue, t) BY <2>0, <4>1 DEF LockInv
      <4>3. queue # <<>> /\ queue \in Seq({Home} \cup Clients)
        BY <2>0, <4>2 DEF Has, TypeOK
      <4>4. Head(queue) = queue[1] BY <4>3
      <4>5. QED BY <4>1, <4>2, <4>4
    <3>3. QED BY <3>1, <3>2 DEF OnePoller
  <2>2. ASSUME BlockedForever(Home), Depth(Home) = 1 PROVE Asleep /\ Region /\ ~notifier
    <3>1. Sleepy(Home) /\ ~notifier BY <2>0, <2>2, BlockedIs
    <3>2. QED BY <2>2, <3>1 DEF Asleep, Region
  <2>3. KickNotLost
    <3> SUFFICES ASSUME BlockedForever(Home), Depth(Home) = 1,
                        NEW t \in Threads, pc[t] = "waiting", t \notin signalled
                 PROVE  Notifying # {}
      BY DEF KickNotLost
    <3>1. Kicked(t) BY DEF Kicked
    <3>2. QED BY <2>0, <2>2, <3>1 DEF KickInv, Noted
  <2>4. StopNotLost BY <2>0, <2>2 DEF StopNotLost, StopInv, Noted
  <2>5. QED BY <2>0, <2>1, <2>3, <2>4 DEF IoThreadSafe
<1>2. QED BY <1>1, Invariance, PTL

\* Lines 62-108 of async.c: no walk over the list of bottom halves, outer or
\* nested, holds a pointer to one that was freed, whatever the callbacks create,
\* delete and poll, and walking_bh counts the walks.
THEOREM WalksStaySafe == Spec => []NoDanglingBh
<1>1. IndInv => NoDanglingBh BY DEF IndInv, WalkInv
<1>2. QED BY <1>1, Invariance, PTL

\* Lines 119-134 and 258-277 of async.c with lines 209-254 of aio-posix.c: nobody
\* blocks without a timeout while a bottom half is scheduled, unless the notifier
\* is about to be written.
THEOREM WakeupsNotLost == Spec => []NoLostWakeup
<1>1. IndInv => NoLostWakeup
  <2> SUFFICES ASSUME IndInv, NEW t \in Threads, BlockedForever(t), Scheduled # {}
               PROVE  Notifying # {}
    BY DEF NoLostWakeup
  <2>1. Sleepy(t) /\ Top(t).pc = "poll" /\ ~notifier BY BlockedIs
  <2>2. QED BY <2>1 DEF IndInv, WakeInv, Noted
<1>2. QED BY <1>1, Invariance, PTL

-----------------------------------------------------------------------------
(* The lock of the context, here one queue of threads, implements the same *)
(* abstract lock as the tickets of module RFifoLock.                       *)

Nobody  == CHOOSE x : x \notin Threads
Holder  == IF queue # <<>> /\ pc[queue[1]] \in Owning THEN queue[1] ELSE Nobody
Nesting == IF Holder = Nobody THEN 0 ELSE 1
Waiters == IF Holder = Nobody THEN queue ELSE Tail(queue)

Context == INSTANCE FifoMutex
             WITH None   <- Nobody,
                  holder <- Holder,
                  depth  <- Nesting,
                  queue  <- Waiters
ContextVars == <<Holder, Nesting, Waiters>>

\* Nobody is not a thread.
LEMMA NobodyIs == Nobody \notin Threads
BY NoSetContainsEverything DEF Nobody

\* Whoever is first in the queue is a thread.
LEMMA QueueIs ==
  ASSUME TypeOK
  PROVE  /\ queue \in Seq(Threads)
         /\ queue # <<>> => queue[1] \in Threads /\ Head(queue) = queue[1]
<1>1. queue \in Seq({Home} \cup Clients) BY DEF TypeOK
<1>2. queue \in Seq(Threads)
  <2>1. {Home} \cup Clients \subseteq Threads BY IoThreadAssumption
  <2>2. QED BY <1>1, <2>1
<1>3. QED BY <1>2

\* The owner of the context holds the abstract lock.
LEMMA HeldIs ==
  ASSUME TypeOK, LockInv, NEW t \in Threads, pc[t] \in Owning
  PROVE  /\ queue # <<>> /\ queue[1] = t
         /\ Holder = t /\ Nesting = 1 /\ Waiters = Tail(queue)
<1>1. queue[1] = t /\ Has(queue, t) BY DEF LockInv, Owning
<1>2. queue # <<>> BY <1>1 DEF Has
<1>3. QED BY <1>1, <1>2, NobodyIs DEF Holder, Nesting, Waiters

\* Without an owner the abstract lock is free.
LEMMA FreeIs ==
  ASSUME TypeOK, \A t \in Threads : pc[t] \notin Owning
  PROVE  Holder = Nobody /\ Nesting = 0 /\ Waiters = queue
<1>1. Holder = Nobody BY QueueIs DEF Holder
<1>2. QED BY <1>1 DEF Nesting, Waiters

\* A step that neither takes nor gives up the lock is invisible.
LEMMA LockStutters ==
  ASSUME TypeOK, queue' = queue,
         \A t \in Threads : pc'[t] \in Owning <=> pc[t] \in Owning
  PROVE  UNCHANGED ContextVars
<1>1. queue # <<>> => queue[1] \in Threads BY QueueIs
<1>2. Nobody' = Nobody BY DEF Nobody
<1>3. Holder' = Holder BY <1>1, <1>2 DEF Holder
<1>4. UNCHANGED <<Nesting, Waiters>> BY <1>2, <1>3 DEF Nesting, Waiters
<1>5. QED BY <1>3, <1>4 DEF ContextVars

\* aio_context_acquire takes a free lock nobody waits for, or joins the queue.
LEMMA AcquireRefines ==
  ASSUME IndInv, IndInv', NEW t \in Threads, pc[t] = "out", Acquire(t)
  PROVE  Context!Next
<1>0. TypeOK /\ LockInv /\ TypeOK' /\ LockInv' BY DEF IndInv
<1>1. pc \in [Threads -> {"out", "kicking", "waiting", "in", "call", "polling",
                          "leave", "exited"}]
      /\ queue' = Append(queue, t) /\ queue \in Seq(Threads)
  BY <1>0, QueueIs DEF TypeOK, Acquire
<1>2. Nobody' = Nobody BY DEF Nobody
<1>3. CASE queue = <<>>
  <2>1. pc'[t] = "in" BY <1>1, <1>3 DEF Acquire, Goto
  <2>2. \A u \in Threads : pc[u] \notin Owning
    BY <1>0, <1>3 DEF LockInv, Has, Owning
  <2>3. Holder = Nobody /\ Nesting = 0 /\ Waiters = <<>> BY <1>0, <1>3, <2>2, FreeIs
  <2>4. pc'[t] \in Owning BY <2>1 DEF Owning
  <2>5. Holder' = t /\ Nesting' = 1 /\ Waiters' = Tail(queue')
    <3>1. queue'[1] = t /\ Has(queue, t)' BY <1>0, <2>4 DEF LockInv, Owning
    <3>2. queue' # <<>> BY <3>1 DEF Has
    <3>3. Holder' = t BY <2>4, <3>1, <3>2 DEF Holder
    <3>4. QED BY <1>2, <3>3, NobodyIs DEF Nesting, Waiters
  <2>6. Tail(queue') = <<>> BY <1>1, <1>3
  <2>7. Context!Take(t) BY <2>3, <2>5, <2>6 DEF Context!Take
  <2>8. QED BY <2>7 DEF Context!Next
<1>4. CASE queue # <<>>
  <2>1. pc' = [pc EXCEPT ![t] = "kicking"] BY <1>4 DEF Acquire, Kick, Goto
  <2>2. \A u \in Threads : pc'[u] \in Owning <=> pc[u] \in Owning
    BY <1>1, <2>1 DEF Owning
  <2>3. /\ queue' # <<>> /\ queue'[1] = queue[1] /\ queue[1] \in Threads
        /\ Tail(queue') = Append(Tail(queue), t)
    <3>1. queue[1] \in Threads BY <1>0, <1>4, QueueIs
    <3>2. Len(queue) \in Nat /\ Len(queue) > 0 BY <1>1, <1>4, EmptySeq
    <3>3. QED BY <1>1, <3>1, <3>2
  <2>4. Holder' = Holder BY <1>2, <1>4, <2>2, <2>3 DEF Holder
  <2>5. Nesting' = Nesting BY <1>2, <2>4 DEF Nesting
  <2>6. Waiters' = Append(Waiters, t) BY <1>1, <1>2, <2>3, <2>4 DEF Waiters
  <2>7. ~(Holder = t /\ Nesting > 0)
    <3>1. pc[t] \notin Owning BY DEF Owning
    <3>2. QED BY <3>1, NobodyIs DEF Holder
  <2>8. Context!Ask(t) BY <2>4, <2>5, <2>6, <2>7 DEF Context!Ask, Context!Holds
  <2>9. QED BY <2>8 DEF Context!Next
<1>5. QED BY <1>3, <1>4

\* A thread whose turn it is gets the free lock; one that woke up early waits on.
LEMMA WakeRefines ==
  ASSUME IndInv, IndInv', NEW t \in Threads, Wake(t)
  PROVE  Context!Next \/ UNCHANGED ContextVars
<1>0. TypeOK /\ LockInv /\ TypeOK' /\ LockInv' BY DEF IndInv
<1>1. pc \in [Threads -> {"out", "kicking", "waiting", "in", "call", "polling",
                          "leave", "exited"}]
      /\ queue' = queue /\ pc[t] = "waiting"
  BY <1>0 DEF TypeOK, Wake
<1>2. CASE Head(queue) = t
  <2>1. pc' = [pc EXCEPT ![t] = "in"] BY <1>2 DEF Wake, Goto
  <2>2. pc'[t] \in Owning BY <1>1, <2>1 DEF Owning
  <2>3. queue'[1] = t /\ Has(queue, t)' BY <1>0, <2>2 DEF LockInv, Owning
  <2>4. queue # <<>> /\ queue[1] = t BY <1>1, <2>3 DEF Has
  <2>5. Holder = Nobody /\ Nesting = 0 /\ Waiters = queue
    <3>1. Holder = Nobody BY <1>1, <2>4 DEF Holder, Owning
    <3>2. QED BY <3>1 DEF Nesting, Waiters
  <2>6. Holder' = t /\ Nesting' = 1 /\ Waiters' = Tail(queue)
    <3>1. Holder' = t BY <1>1, <2>2, <2>4 DEF Holder
    <3>2. Nobody' = Nobody BY DEF Nobody
    <3>3. QED BY <1>1, <3>1, <3>2, NobodyIs DEF Nesting, Waiters
  <2>7. Context!Grant BY <1>2, <2>4, <2>5, <2>6 DEF Context!Grant
  <2>8. QED BY <2>7 DEF Context!Next
<1>3. CASE Head(queue) # t
  <2>1. pc' = [pc EXCEPT ![t] = "kicking"] BY <1>3 DEF Wake, Kick, Goto
  <2>2. \A u \in Threads : pc'[u] \in Owning <=> pc[u] \in Owning
    BY <1>1, <2>1 DEF Owning
  <2>3. QED BY <1>0, <1>1, <2>2, LockStutters
<1>4. QED BY <1>2, <1>3

\* aio_context_release frees the lock and leaves the queue of the others alone.
LEMMA ReleaseRefines ==
  ASSUME IndInv, IndInv', NEW t \in Threads, pc[t] \in Owning, Release(t)
  PROVE  Context!Next
<1>0. TypeOK /\ LockInv /\ TypeOK' /\ LockInv' BY DEF IndInv
<1>1. pc \in [Threads -> {"out", "kicking", "waiting", "in", "call", "polling",
                          "leave", "exited"}]
      /\ queue' = Tail(queue) /\ pc' = [pc EXCEPT ![t] = "out"]
  BY <1>0 DEF TypeOK, Release, Goto
<1>2. Holder = t /\ Nesting = 1 /\ Waiters = Tail(queue) BY <1>0, HeldIs
<1>3. \A u \in Threads : pc'[u] \notin Owning
  BY <1>0, <1>1 DEF LockInv, Owning
<1>4. Holder' = Nobody
  <2>1. queue' # <<>> => queue'[1] \in Threads
    <3>1. queue' \in Seq({Home} \cup Clients) BY <1>0 DEF TypeOK
    <3>2. {Home} \cup Clients \subseteq Threads BY IoThreadAssumption
    <3>3. QED BY <3>1, <3>2
  <2>2. QED BY <1>3, <2>1 DEF Holder, Nobody
<1>5. Nesting' = 0 /\ Waiters' = Tail(queue)
  <2>1. Nobody' = Nobody BY DEF Nobody
  <2>2. QED BY <1>1, <1>4, <2>1 DEF Nesting, Waiters
<1>6. Context!Release(t) BY <1>2, <1>4, <1>5 DEF Context!Release, Context!Holds
<1>7. QED BY <1>6 DEF Context!Next

\* Every step of the threads is a step of the abstract lock or invisible.
LEMMA StepRefines ==
  ASSUME IndInv, IndInv', [Next]_vars
  PROVE  [Context!Next]_ContextVars
<1>0. /\ TypeOK /\ LockInv /\ Home \in Threads
      /\ Clients \subseteq Threads /\ Workers \subseteq Threads
      /\ pc \in [Threads -> {"out", "kicking", "waiting", "in", "call", "polling",
                             "leave", "exited"}]
  BY IoThreadAssumption DEF IndInv, TypeOK
<1> DEFINE Keeps == /\ queue' = queue
                    /\ \A u \in Threads : pc'[u] \in Owning <=> pc[u] \in Owning
<1>1. ASSUME Keeps PROVE UNCHANGED ContextVars BY <1>0, <1>1, LockStutters
<1>2. ASSUME UNCHANGED loopVars PROVE UNCHANGED ContextVars
  <2>1. pc' = pc /\ queue' = queue BY <1>2 DEF loopVars
  <2>2. QED BY <1>1, <2>1
<1>3. ASSUME LoopStep PROVE Context!Next \/ UNCHANGED ContextVars
  <2>1. CASE LoopAcquire BY <1>0, <2>1, AcquireRefines DEF LoopAcquire
  <2>2. CASE LoopExit
    <3>1. Keeps BY <1>0, <2>2 DEF LoopExit, Goto, Owning
    <3>2. QED BY <1>1, <3>1
  <2>3. CASE InnerTest
    <3>1. Keeps BY <1>0, <2>3 DEF InnerTest, Goto, Owning
    <3>2. QED BY <1>1, <3>1
  <2>4. CASE LoopPoll
    <3>1. Keeps BY <1>0, <2>4 DEF LoopPoll, Goto, Owning
    <3>2. QED BY <1>1, <3>1
  <2>5. CASE LoopPollEnd
    <3>1. Keeps BY <1>0, <2>5 DEF LoopPollEnd, Goto, Owning
    <3>2. QED BY <1>1, <3>1
  <2>6. CASE LoopRelease
    <3>1. pc[Home] \in Owning /\ Release(Home) BY <2>6 DEF LoopRelease, Owning
    <3>2. QED BY <1>0, <3>1, ReleaseRefines
  <2>7. QED BY <1>3, <2>1, <2>2, <2>3, <2>4, <2>5, <2>6 DEF LoopStep
<1>4. ASSUME NEW t \in Threads, ThreadStep(t) PROVE Context!Next \/ UNCHANGED ContextVars
  <2>1. CASE UNCHANGED loopVars BY <1>2, <2>1
  <2>2. CASE StartWait(t)
    <3>1. Keeps BY <1>0, <2>2 DEF StartWait, Goto, Owning
    <3>2. QED BY <1>1, <3>1
  <2>3. CASE Wake(t) BY <2>3, WakeRefines
  <2>4. QED BY <1>4, <2>1, <2>2, <2>3 DEF ThreadStep, NestedPollEnd, LockStep
<1>5. ASSUME NEW c \in Clients, ClientAcquire(c) PROVE Context!Next
  BY <1>0, <1>5, AcquireRefines DEF ClientAcquire
<1>6. ASSUME NEW c \in Clients, ClientRelease(c) PROVE Context!Next
  <2>1. pc[c] \in Owning /\ Release(c) BY <1>6 DEF ClientRelease, Owning
  <2>2. QED BY <1>0, <2>1, ReleaseRefines
<1>7. ASSUME NEW w \in Workers, iothread_instance_finalize(w) PROVE UNCHANGED ContextVars
  <2>1. pc' = pc /\ queue' = queue BY <1>7 DEF iothread_instance_finalize
  <2>2. QED BY <1>1, <2>1
<1>8. CASE UNCHANGED vars BY <1>2, <1>8 DEF vars
<1>9. CASE Next
  <2>1. CASE LoopStep BY <1>3, <2>1
  <2>2. CASE \E t \in Threads : \/ ThreadStep(t) \/ Callback(t)
                                \/ CallbackCall(t) \/ NestedPoll(t)
    BY <1>2, <1>4, <2>2 DEF Callback, CallbackCall, NestedPoll
  <2>3. CASE \E c \in Clients : \/ ClientAcquire(c) \/ ClientRelease(c) \/ ClientCall(c)
                                \/ ClientPoll(c) \/ ClientPollEnd(c)
    BY <1>2, <1>5, <1>6, <2>3 DEF ClientCall, ClientPoll, ClientPollEnd
  <2>4. CASE \E w \in Workers : WorkerCall(w) \/ iothread_instance_finalize(w)
    BY <1>2, <1>7, <2>4 DEF WorkerCall
  <2>5. CASE IoReady /\ UNCHANGED loopVars BY <1>2, <2>5
  <2>6. CASE Terminated BY <1>8, <2>6 DEF Terminated
  <2>7. QED BY <1>9, <2>1, <2>2, <2>3, <2>4, <2>5, <2>6 DEF Next
<1>10. QED BY <1>8, <1>9

\* Before anybody acquires it the context is free.
LEMMA InitRefines == Init => Context!Init
<1> SUFFICES ASSUME Init PROVE Context!Init OBVIOUS
<1>1. Holder = Nobody BY DEF Holder, Init
<1>2. QED BY <1>1 DEF Nesting, Waiters, Init, Context!Init

\* Lines 284-289 and 324-332 of async.c: with the contention callback, the early wakeups and
\* the repeated kicks, aio_context_acquire and aio_context_release still are a
\* lock that one thread holds at a time and that goes to whoever asked first, for
\* any number of threads.
THEOREM ContextIsFifo == Spec => Context!Spec
<1>1. IndInv /\ IndInv' /\ [Next]_vars => [Context!Next]_ContextVars
  BY StepRefines
<1>2. QED
  BY <1>1, InitRefines, Invariance, PTL
  DEF Spec, Context!Spec, ContextVars
=============================================================================
