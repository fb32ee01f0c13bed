--------------------------- MODULE BigLockProofs ---------------------------
(***************************************************************************)
(* What runs under the big QEMU lock, for any number of threads, bottom    *)
(* halves, nested calls of aio_poll, filters, packets and files: the main  *)
(* loop with its AioContext, and the analysis plugin.                      *)
(***************************************************************************)
EXTENDS MainLoop, TemuPlugin, TLAPS, FiniteSetTheorems, SequenceTheorems,
        WellFoundedInduction, NaturalsInduction

Inj(s) == \A i, j \in 1 .. Len(s) : s[i] = s[j] => i = j
Has(s, x) == \E i \in 1 .. Len(s) : s[i] = x

\* t is s with x added.
Adds(t, s, x) ==
  /\ Inj(s) /\ ~Has(s, x) => Inj(t)
  /\ \A y : Has(t, y) <=> (Has(s, y) \/ y = x)

\* One element more at the end.
LEMMA AppendAdds ==
  ASSUME NEW S, NEW s \in Seq(S), NEW x \in S PROVE Adds(Append(s, x), s, x)
<1> DEFINE t == Append(s, x)
<1>1. /\ t \in Seq(S) /\ Len(t) = Len(s) + 1 /\ Len(s) \in Nat
      /\ t[Len(s) + 1] = x /\ \A i \in 1 .. Len(s) : t[i] = s[i]
  BY AppendProperties, LenProperties
<1> HIDE DEF t
<1>2. \A i \in 1 .. Len(t) : i \in 1 .. Len(s) \/ i = Len(s) + 1 BY <1>1
<1>3. \A i \in 1 .. Len(s) : i \in 1 .. Len(t) BY <1>1
<1>4. Len(s) + 1 \in 1 .. Len(t) BY <1>1
<1>5. Inj(s) /\ ~Has(s, x) => Inj(t) BY <1>1, <1>2 DEF Inj, Has
<1>6. \A y : Has(t, y) <=> (Has(s, y) \/ y = x) BY <1>1, <1>2, <1>3, <1>4 DEF Has
<1>7. QED BY <1>5, <1>6 DEF Adds, t

\* Induction, for a set of numbers.
LEMMA UpTo ==
  ASSUME NEW N \in Nat, NEW T, 0 \in T, \A n \in 1 .. N : n - 1 \in T => n \in T
  PROVE  \A n \in 0 .. N : n \in T
<1> DEFINE R == {n \in 0 .. N : n \notin T}
<1>1. SUFFICES ASSUME R # {} PROVE FALSE OBVIOUS
<1>2. R \subseteq Nat OBVIOUS
<1> HIDE DEF R
<1>3. PICK x \in R : \A y \in R : ~(<<y, x>> \in OpToRel(<, Nat))
  BY <1>1, <1>2, NatLessThanWellFounded, WFMin
<1>4. \A y \in R : y \in Nat /\ x \in Nat /\ ~(y < x) BY <1>2, <1>3 DEF OpToRel
<1>5. x \in 0 .. N /\ x \notin T BY <1>3 DEF R
<1>6. x # 0 /\ x \in 1 .. N /\ x - 1 \in 0 .. N /\ x - 1 < x BY <1>5
<1>7. x - 1 \notin R BY <1>4, <1>6
<1>8. x - 1 \in T BY <1>6, <1>7 DEF R
<1>9. QED BY <1>5, <1>6, <1>8

\* The loop of lines 95-103 of async.c leaves what was not deleted.
LEMMA UndeletedIs ==
  ASSUME first_bh \in Seq(BHs), deleted \in [BHs -> BOOLEAN]
  PROVE  /\ Undeleted \in Seq(BHs)
         /\ ToSet(Undeleted) = {b \in Linked : ~deleted[b]}
<1> DEFINE s == first_bh
           N == Len(s)
           Step(x, i) == IF deleted[s[i]] THEN x ELSE Append(x, s[i])
           G(f) == [i \in 0 .. N |-> IF i = 0 THEN <<>>
                                     ELSE IF deleted[s[i]] THEN f[i - 1]
                                     ELSE Append(f[i - 1], s[i])]
           Upto(f, n) == /\ f \in [0 .. n -> Seq(BHs)] /\ f[0] = <<>>
                         /\ \A i \in 1 .. n : f[i] = Step(f[i - 1], i)
<1>1. N \in Nat /\ \A i \in 1 .. N : s[i] \in BHs BY LenProperties, ElementOfSeq
<1>2. \A x \in Seq(BHs), i \in 1 .. N : Step(x, i) \in Seq(BHs) BY <1>1
<1>3. \E f : Upto(f, N)
  <2> DEFINE T == {n \in 0 .. N : \E f : Upto(f, n)}
  <2>1. 0 \in T
    <3> DEFINE f == [i \in 0 .. 0 |-> <<>>]
    <3>1. f \in [0 .. 0 -> Seq(BHs)] /\ f[0] = <<>> OBVIOUS
    <3>2. Upto(f, 0) BY <3>1
    <3>3. 0 \in 0 .. N BY <1>1
    <3> HIDE DEF f, Upto, N
    <3>4. QED BY <3>2, <3>3
  <2>2. ASSUME NEW n \in 1 .. N, n - 1 \in T PROVE n \in T
    <3>1. PICK f : Upto(f, n - 1) BY <2>2
    <3>2. n \in Nat /\ n - 1 \in 0 .. n - 1 /\ n - 1 \in Nat BY <1>1
    <3>3. f[n - 1] \in Seq(BHs) BY <3>1, <3>2
    <3> DEFINE g == [i \in 0 .. n |-> IF i = n THEN Step(f[n - 1], n) ELSE f[i]]
    <3> HIDE DEF Step
    <3>4. Step(f[n - 1], n) \in Seq(BHs) BY <1>2, <3>3
    <3>5. \A i \in 0 .. n : i # n => i \in 0 .. n - 1 BY <3>2
    <3>6. g \in [0 .. n -> Seq(BHs)] BY <3>1, <3>4, <3>5
    <3>7. g[0] = <<>> BY <3>1, <3>2
    <3>8. ASSUME NEW i \in 1 .. n PROVE g[i] = Step(g[i - 1], i)
      <4>1. i \in 0 .. n /\ i - 1 \in 0 .. n /\ i - 1 # n BY <3>2
      <4>2. g[i - 1] = f[i - 1] BY <4>1
      <4>3. CASE i = n BY <4>1, <4>2, <4>3
      <4>4. CASE i # n
        <5>1. i \in 1 .. n - 1 BY <3>2, <4>4
        <5>2. g[i] = f[i] BY <4>1, <4>4
        <5>3. QED BY <3>1, <4>2, <5>1, <5>2
      <4>5. QED BY <4>3, <4>4
    <3>9. Upto(g, n) BY <3>6, <3>7, <3>8
    <3> HIDE DEF g, Upto
    <3>10. QED BY <1>1, <3>9
  <2> HIDE DEF T
  <2>3. N \in T
    <3>1. \A n \in 0 .. N : n \in T BY <1>1, <2>1, <2>2, UpTo
    <3>2. QED BY <1>1, <3>1
  <2>4. QED BY <2>3 DEF T
<1>4. PICK h : h = G(h)
  <2>1. PICK f : Upto(f, N) BY <1>3
  <2>2. DOMAIN f = 0 .. N BY <2>1
  <2>3. ASSUME NEW i \in 0 .. N PROVE f[i] = G(f)[i]
    <3>1. CASE i = 0 BY <2>1, <3>1
    <3>2. CASE i # 0
      <4>1. i \in 1 .. N BY <1>1, <3>2
      <4>2. QED BY <2>1, <3>2, <4>1
    <3>3. QED BY <3>1, <3>2
  <2>4. f \in [0 .. N -> Seq(BHs)] BY <2>1
  <2>5. f = G(f) BY <2>3, <2>4
  <2>6. QED BY <2>5
<1>5. PICK g : g = G(g) /\ Undeleted = g[N] BY <1>4, Zenon DEF Undeleted
<1>6. g[0] = <<>> /\ \A i \in 1 .. N : g[i] = Step(g[i - 1], i)
  <2> HIDE DEF s
  <2>1. \A i \in 0 .. N : g[i] = G(g)[i] BY <1>5
  <2>2. QED BY <1>1, <2>1
<1> DEFINE E(n) == {s[i] : i \in {j \in 1 .. n : ~deleted[s[j]]}}
           P(n) == g[n] \in Seq(BHs) /\ \A b : Has(g[n], b) <=> b \in E(n)
           T == {n \in 0 .. N : P(n)}
<1>7. 0 \in T
  <2>1. \A b : ~Has(<<>>, b) BY DEF Has
  <2>2. E(0) = {} OBVIOUS
  <2>3. g[0] \in Seq(BHs) /\ 0 \in 0 .. N BY <1>1, <1>6
  <2> HIDE DEF E
  <2>4. QED BY <1>6, <2>1, <2>2, <2>3
<1>8. ASSUME NEW n \in 1 .. N, n - 1 \in T PROVE n \in T
  <2>1. /\ g[n - 1] \in Seq(BHs) /\ \A b : Has(g[n - 1], b) <=> b \in E(n - 1)
        /\ n \in Nat /\ s[n] \in BHs /\ n \in 0 .. N
    BY <1>1, <1>8
  <2>2. g[n] = Step(g[n - 1], n) BY <1>6
  <2>3. \A j : j \in 1 .. n <=> j \in 1 .. n - 1 \/ j = n BY <2>1
  <2>4. E(n) = IF deleted[s[n]] THEN E(n - 1) ELSE E(n - 1) \cup {s[n]} BY <2>3
  <2> HIDE DEF E
  <2>5. CASE deleted[s[n]] BY <2>1, <2>2, <2>4, <2>5
  <2>6. CASE ~deleted[s[n]]
    <3>1. g[n] = Append(g[n - 1], s[n]) BY <2>2, <2>6
    <3>2. g[n] \in Seq(BHs) BY <2>1, <3>1
    <3>3. Adds(g[n], g[n - 1], s[n]) BY <2>1, <3>1, AppendAdds
    <3>4. \A b : Has(g[n], b) <=> b \in E(n) BY <2>1, <2>4, <2>6, <3>3 DEF Adds
    <3>5. QED BY <2>1, <3>2, <3>4
  <2>7. QED BY <2>5, <2>6
<1> HIDE DEF T
<1>9. N \in T
  <2>1. \A n \in 0 .. N : n \in T BY <1>1, <1>7, <1>8, UpTo
  <2>2. QED BY <1>1, <2>1
<1>10. Undeleted \in Seq(BHs) /\ \A b : Has(Undeleted, b) <=> b \in E(N) BY <1>5, <1>9 DEF T
<1>11. E(N) = {b \in Linked : ~deleted[b]}
  <2>1. DOMAIN s = 1 .. N BY LenProperties
  <2>2. Linked = {s[i] : i \in 1 .. N} BY <2>1 DEF Linked, ToSet
  <2>3. QED BY <2>2
<1> HIDE DEF E
<1>12. ToSet(Undeleted) = E(N)
  <2>1. DOMAIN Undeleted = 1 .. Len(Undeleted) BY <1>10, LenProperties
  <2>2. QED BY <1>10, <2>1 DEF ToSet, Has
<1>13. QED BY <1>10, <1>11, <1>12

-----------------------------------------------------------------------------
(* The invariant of the main loop.                                         *)

\* Where the main thread is, it has the lock or not, and polls or not; it leaves
\* no call unfinished when it begins an iteration.  Threads that never take the
\* lock do not have it.
LoopInv ==
  /\ bql \notin Workers
  /\ main \in {"fill", "check", "dispatch"} => bql = Main
  /\ main = "poll" => (bql = Main <=> timeout = "zero")
  /\ main = "relock" => bql # Main
  /\ main = "dispatch" => InPoll(Main)
  /\ main \in {"poll", "relock", "check"} => ~InPoll(Main) /\ call[Main] = Quiet

\* Who polls has the lock; calls other than the innermost are in callbacks, and
\* so is whoever schedules a bottom half while it polls.
InStack == {"cb", "iocb"}
Early   == {"compute", "poll", "dispatch"}
StackInv ==
  \A t \in Threads :
    /\ InPoll(t) => bql = t
    /\ Depth(t) <= MaxDepth
    /\ \A i \in 1 .. Depth(t) - 1 : stack[t][i].pc \in InStack
    /\ InPoll(t) /\ call[t] # Quiet => Top(t).pc \in InStack
    /\ InPoll(t) /\ Top(t).pc \in Early => Top(t).bh = NoBH
    /\ InPoll(t) /\ Top(t).pc = "compute" => Top(t).timeout # "idle"

\* A bottom half that is about to be scheduled is there and not deleted; only
\* the owner of the lock schedules one without a notification.
CallInv ==
  \A t \in Threads :
    /\ IF call[t].step \in {"xchg", "mb_set"} THEN call[t].bh \in Live
                                              ELSE call[t].bh = NoBH
    /\ call[t].step = "mb_set" => bql = t

\* The frame that may block, or blocks, without a timeout.
Sleepy(t) ==
  InPoll(t) /\ Top(t).pc \in {"compute", "poll"} /\ Top(t).timeout = "none"

\* `dispatching' is clear outside of aio_poll, and while one may block; the
\* main loop's own dispatch leaves it alone.
DispatchInv ==
  /\ (\A t \in Threads : ~InPoll(t)) => ~dispatching
  /\ \A t \in Threads : InPoll(t) => ~stack[t][1].was
  /\ \A t \in Threads : Sleepy(t) => ~dispatching

\* While the main loop dispatches, its own frame is the outermost one: it is past
\* poll, and the calls above it leave `dispatching' clear when they are gone.
GlibInv ==
  main = "dispatch" => /\ stack[Main][1].pc \notin Early
                       /\ Depth(Main) = 1 => ~dispatching
                       /\ Depth(Main) > 1 => ~stack[Main][2].was

\* Whoever polls does not sleep on.
Noted == notifier \/ Notifying # {}

WakeInv ==
  \A t \in Threads : Sleepy(t) /\ Top(t).pc = "poll" /\ Scheduled # {} => Noted

WalkInv ==
  /\ IsFiniteSet(WalkingFrames)
  /\ NoDanglingBh

IndInv ==
  /\ TypeOK /\ LoopInv /\ StackInv /\ CallInv /\ DispatchInv /\ GlibInv /\ WakeInv
  /\ WalkInv

-----------------------------------------------------------------------------
(* The stacks.                                                             *)

\* What is known of a thread's stack.
LEMMA StackOf ==
  ASSUME TypeOK, NEW t \in Threads
  PROVE  /\ stack[t] \in Seq(Frame) /\ Depth(t) \in Nat /\ Depth(t) = Len(stack[t])
         /\ \A i \in 1 .. Depth(t) : stack[t][i] \in Frame
         /\ InPoll(t) <=> Depth(t) > 0
         /\ InPoll(t) => /\ Top(t) = stack[t][Depth(t)] /\ Top(t) \in Frame
                         /\ Depth(t) \in 1 .. Depth(t)
<1>1. stack[t] \in Seq(Frame) BY DEF TypeOK, AioTypeOK
<1>2. /\ Len(stack[t]) \in Nat /\ \A i \in 1 .. Len(stack[t]) : stack[t][i] \in Frame
      /\ stack[t] # <<>> <=> Len(stack[t]) > 0
  BY <1>1, LenProperties, ElementOfSeq, EmptySeq
<1>3. QED BY <1>1, <1>2 DEF Depth, InPoll, Top

\* The innermost call of t goes on as f.
TopTo(t, f) ==
  /\ InPoll(t) /\ f \in Frame /\ stack' \in [Threads -> Seq(Frame)]
  /\ \A u \in Threads : u # t => stack'[u] = stack[u]
  /\ Len(stack'[t]) = Len(stack[t])
  /\ \A i \in 1 .. Len(stack[t]) - 1 : stack'[t][i] = stack[t][i]
  /\ stack'[t][Len(stack[t])] = f

\* Becomes replaces the top frame of a thread.
LEMMA BecomesIs ==
  ASSUME TypeOK, NEW t \in Threads, InPoll(t), NEW f \in Frame, Becomes(t, f)
  PROVE  TopTo(t, f)
<1> DEFINE s == stack[t]
           r == [s EXCEPT ![Len(s)] = f]
<1>1. /\ s \in Seq(Frame) /\ Len(s) \in Nat /\ Len(s) > 0 BY StackOf
<1>2. /\ r \in Seq(Frame) /\ Len(r) = Len(s)
      /\ \A i \in 1 .. Len(s) - 1 : r[i] = s[i]
      /\ r[Len(s)] = f
  <2> HIDE DEF s
  <2>1. QED BY <1>1
<1>3. stack \in [Threads -> Seq(Frame)] BY DEF TypeOK, AioTypeOK
<1>4. stack' = [stack EXCEPT ![t] = r] BY DEF Becomes, Depth
<1> HIDE DEF r
<1>5. /\ stack' \in [Threads -> Seq(Frame)] /\ stack'[t] = r
      /\ \A u \in Threads : u # t => stack'[u] = stack[u]
  BY <1>2, <1>3, <1>4
<1>6. QED BY <1>2, <1>5 DEF TopTo

\* Everything else about the stacks stays as it was.
LEMMA TopIs ==
  ASSUME TypeOK, NEW t \in Threads, NEW f, TopTo(t, f)
  PROVE  /\ \A u \in Threads : Depth(u)' = Depth(u) /\ (InPoll(u)' <=> InPoll(u))
         /\ \A u \in Threads : u # t => Top(u)' = Top(u)
         /\ Top(t)' = f
<1>1. \A u \in Threads : stack[u] \in Seq(Frame) /\ stack'[u] \in Seq(Frame)
  BY StackOf DEF TopTo
<1>2. \A u \in Threads : Len(stack'[u]) = Len(stack[u]) BY DEF TopTo
<1>3. \A u \in Threads : Depth(u)' = Depth(u) BY <1>2 DEF Depth
<1>4. \A u \in Threads : InPoll(u)' <=> InPoll(u) BY <1>1, <1>2, EmptySeq DEF InPoll
<1>5. \A u \in Threads : u # t => Top(u)' = Top(u) BY DEF TopTo, Top, Depth
<1>6. Top(t)' = f BY <1>2 DEF TopTo, Top, Depth
<1>7. QED BY <1>3, <1>4, <1>5, <1>6

\* Whoever polls is the owner of the lock, and the only one.
LEMMA Poller ==
  ASSUME StackInv, NEW t \in Threads, InPoll(t)
  PROVE  bql = t /\ \A u \in Threads : InPoll(u) => u = t
BY DEF StackInv

\* A change of the top frame keeps stacks and the lock in agreement.
LEMMA StackTop ==
  ASSUME TypeOK, StackInv, NEW t \in Threads, NEW f, TopTo(t, f),
         UNCHANGED <<bql, call>>, call[t] = Quiet, f.pc \in Early => f.bh = NoBH,
         f.pc # "compute"
  PROVE  StackInv'
<1>1. /\ \A u \in Threads : Depth(u)' = Depth(u) /\ (InPoll(u)' <=> InPoll(u))
      /\ \A u \in Threads : u # t => Top(u)' = Top(u)
      /\ Top(t)' = f
  BY TopIs
<1> SUFFICES ASSUME NEW u \in Threads
             PROVE  (/\ InPoll(u) => bql = u
                     /\ Depth(u) <= MaxDepth
                     /\ \A i \in 1 .. Depth(u) - 1 : stack[u][i].pc \in InStack
                     /\ InPoll(u) /\ call[u] # Quiet => Top(u).pc \in InStack
                     /\ InPoll(u) /\ Top(u).pc \in Early => Top(u).bh = NoBH
                     /\ InPoll(u) /\ Top(u).pc = "compute" => Top(u).timeout # "idle")'
  BY DEF StackInv
<1>2. (InPoll(u)' => bql' = u) /\ Depth(u)' <= MaxDepth BY <1>1 DEF StackInv
<1>3. \A i \in 1 .. Depth(u)' - 1 : stack'[u][i].pc \in InStack
  <2>1. \A i \in 1 .. Depth(u) - 1 : stack'[u][i] = stack[u][i] BY DEF TopTo, Depth
  <2>2. QED BY <1>1, <2>1 DEF StackInv
<1>4. InPoll(u)' /\ call'[u] # Quiet => Top(u)'.pc \in InStack BY <1>1 DEF StackInv
<1>5. InPoll(u)' /\ Top(u)'.pc \in Early => Top(u)'.bh = NoBH BY <1>1 DEF StackInv
<1>6. InPoll(u)' /\ Top(u)'.pc = "compute" => Top(u)'.timeout # "idle"
  BY <1>1 DEF StackInv
<1>7. QED BY <1>2, <1>3, <1>4, <1>5, <1>6

\* A poller that cannot block makes nobody wait for a wakeup.
LEMMA AwakeStep ==
  ASSUME StackInv, NEW t \in Threads, InPoll(t), InPoll(t)', ~Sleepy(t)',
         \A u \in Threads : u # t => stack'[u] = stack[u],
         ~stack'[t][1].was
  PROVE  DispatchInv' /\ WakeInv'
<1>1. \A u \in Threads : InPoll(u) => u = t BY Poller
<1>2. \A u \in Threads : InPoll(u)' => u = t BY <1>1 DEF InPoll
<1>3. \A u \in Threads : ~Sleepy(u)' BY <1>2 DEF Sleepy
<1>4. DispatchInv' BY <1>2, <1>3 DEF DispatchInv
<1>5. WakeInv' BY <1>3 DEF WakeInv
<1>6. QED BY <1>4, <1>5

\* Steps inside aio_poll: the main loop stays where it is.
LEMMA SameLoop ==
  ASSUME LoopInv, UNCHANGED <<loopVars, call>>, InPoll(Main)' <=> InPoll(Main)
  PROVE  LoopInv'
BY DEF LoopInv, loopVars

\* Steps that do not touch calls, nor what they point to.
LEMMA SameCalls ==
  ASSUME CallInv, UNCHANGED <<call, bql, first_bh, deleted>> PROVE CallInv'
BY DEF CallInv, Live, Linked

\* What the outermost call restores when it returns does not change.
LEMMA WasKept ==
  ASSUME TypeOK, NEW t \in Threads, NEW f, TopTo(t, f), f.was = Top(t).was
  PROVE  stack'[t][1].was = stack[t][1].was
<1>1. /\ Depth(t) \in Nat /\ Depth(t) > 0 /\ Depth(t) = Len(stack[t])
      /\ Top(t) = stack[t][Depth(t)]
  BY StackOf DEF TopTo
<1>2. CASE Depth(t) = 1 BY <1>1, <1>2 DEF TopTo
<1>3. CASE Depth(t) # 1
  <2>1. \A n \in Nat : n > 0 /\ n # 1 => 1 \in 1 .. n - 1 OBVIOUS
  <2>2. 1 \in 1 .. Len(stack[t]) - 1 BY <1>1, <1>3, <2>1
  <2>3. QED BY <2>2 DEF TopTo
<1>4. QED BY <1>2, <1>3

\* The frame of the main loop's own dispatch stays what it is.
LEMMA GlibTop ==
  ASSUME TypeOK, LoopInv, StackInv, GlibInv, NEW t \in Threads, NEW f, TopTo(t, f),
         f.was = Top(t).was, f.pc \notin Early \/ Top(t).pc \in Early,
         UNCHANGED dispatching \/ Top(t).pc \in Early, UNCHANGED loopVars
  PROVE  GlibInv'
<1> SUFFICES ASSUME main' = "dispatch"
             PROVE  /\ stack'[Main][1].pc \notin Early
                    /\ Depth(Main)' = 1 => ~dispatching'
                    /\ Depth(Main)' > 1 => ~stack'[Main][2].was
  BY DEF GlibInv
<1>1. main = "dispatch" /\ Main \in Threads BY MainLoopAssumption DEF loopVars
<1>2. t = Main BY <1>1, Poller DEF LoopInv, TopTo
<1>3. /\ Depth(t) \in Nat /\ Depth(t) > 0 /\ Depth(t) = Len(stack[t])
      /\ Top(t) = stack[t][Depth(t)] /\ Depth(t)' = Depth(t)
      /\ stack'[t][Depth(t)] = f
      /\ \A i \in 1 .. Depth(t) - 1 : stack'[t][i] = stack[t][i]
  BY StackOf, TopIs DEF TopTo
<1>4. /\ stack[t][1].pc \notin Early /\ (Depth(t) = 1 => ~dispatching)
      /\ Depth(t) > 1 => ~stack[t][2].was
  BY <1>1, <1>2 DEF GlibInv
<1>5. CASE Depth(t) = 1
  <2>1. stack'[t][1] = f /\ f.pc \notin Early /\ ~dispatching' BY <1>3, <1>4, <1>5
  <2>2. QED BY <1>2, <1>3, <1>5, <2>1
<1>6. CASE Depth(t) # 1
  <2>1. 1 \in 1 .. Depth(t) - 1 /\ (Depth(t) # 2 => 2 \in 1 .. Depth(t) - 1)
        /\ Depth(t) > 1
    <3>1. \A n \in Nat : n > 0 /\ n # 1 =>
             1 \in 1 .. n - 1 /\ (n # 2 => 2 \in 1 .. n - 1) /\ n > 1
      OBVIOUS
    <3>2. QED BY <1>3, <1>6, <3>1
  <2>2. stack'[t][1] = stack[t][1] BY <1>3, <2>1
  <2>3. stack'[t][2].was = stack[t][2].was
    <3>1. CASE Depth(t) = 2 BY <1>3, <3>1
    <3>2. CASE Depth(t) # 2 BY <1>3, <2>1, <3>2
    <3>3. QED BY <3>1, <3>2
  <2>4. QED BY <1>2, <1>3, <1>4, <1>6, <2>1, <2>2, <2>3
<1>7. QED BY <1>5, <1>6

\* What is left to show when a call of aio_poll goes on and cannot block.
LEMMA TopStep ==
  ASSUME IndInv, NEW t \in Threads, NEW f, TopTo(t, f), f.was = Top(t).was,
         f.pc \notin {"compute", "poll"}, f.pc = "dispatch" => f.bh = NoBH,
         f.pc = "dispatch" => Top(t).pc \in Early,
         UNCHANGED dispatching \/ Top(t).pc \in Early, call[t] = Quiet,
         UNCHANGED <<loopVars, call, deleted>>,
         \A u \in Threads : call[u].bh \in Live => call[u].bh \in Live',
         TypeOK', WalkInv'
  PROVE  IndInv'
<1>0. UNCHANGED <<bql, call>> /\ TypeOK /\ Main \in Threads
  BY MainLoopAssumption DEF loopVars, IndInv
<1>1. /\ \A u \in Threads : InPoll(u)' <=> InPoll(u)
      /\ Top(t)' = f /\ InPoll(t) /\ Depth(t)' = Depth(t)
  BY <1>0, TopIs DEF TopTo
<1>2. ~Sleepy(t)' BY <1>1 DEF Sleepy
<1>3. stack'[t][1].was = stack[t][1].was BY <1>0, WasKept
<1>4. ~stack'[t][1].was BY <1>1, <1>3 DEF IndInv, DispatchInv
<1>5. \A u \in Threads : u # t => stack'[u] = stack[u] BY DEF TopTo
<1>6. DispatchInv' /\ WakeInv' BY <1>1, <1>2, <1>4, <1>5, AwakeStep DEF IndInv
<1>7. StackInv' BY <1>0, StackTop DEF IndInv, Early
<1>8. LoopInv' BY <1>0, <1>1, SameLoop DEF IndInv
<1>9. CallInv' BY <1>0 DEF IndInv, CallInv
<1>10. GlibInv' BY <1>0, GlibTop DEF IndInv, Early
<1>11. QED BY <1>6, <1>7, <1>8, <1>9, <1>10 DEF IndInv

-----------------------------------------------------------------------------
(* The walks.                                                              *)

Walk == {"bh", "claimed", "cb"}

\* The innermost call walks, or it does not.
LEMMA WalkingTop ==
  ASSUME TypeOK, StackInv, NEW t \in Threads, NEW f, TopTo(t, f)
  PROVE  /\ <<t, Depth(t)>> \in WalkingFrames <=> Top(t).pc \in Walk
         /\ WalkingFrames' = IF f.pc \in Walk THEN WalkingFrames \cup {<<t, Depth(t)>>}
                             ELSE WalkingFrames \ {<<t, Depth(t)>>}
<1> DEFINE d == Depth(t)
<1>1. /\ d \in Nat /\ d > 0 /\ d = Len(stack[t]) /\ Top(t) = stack[t][d] /\ d <= MaxDepth
  BY StackOf DEF TopTo, StackInv
<1>2. MaxDepth \in Nat BY AioAssumption
<1>3. d \in 1 .. MaxDepth /\ <<t, d>> \in Frames BY <1>1, <1>2 DEF Frames
<1>4. /\ \A u \in Threads : Depth(u)' = Depth(u) /\ Depth(u) \in Nat
      /\ \A u \in Threads : u # t => stack'[u] = stack[u]
      /\ \A i \in 1 .. d - 1 : stack'[t][i] = stack[t][i]
      /\ stack'[t][d] = f
  BY <1>1, TopIs, StackOf DEF TopTo
<1> HIDE DEF d
<1>5. <<t, d>> \in WalkingFrames <=> Top(t).pc \in Walk
  <2>1. d <= Depth(t) BY <1>1 DEF d
  <2>2. <<t, d>>[1] = t /\ <<t, d>>[2] = d OBVIOUS
  <2>3. QED BY <1>1, <1>3, <2>1, <2>2 DEF WalkingFrames, Walk
<1>6. ASSUME NEW u \in Threads, NEW i \in 1 .. MaxDepth
      PROVE  <<u, i>> \in WalkingFrames'
               <=> IF u = t /\ i = d THEN f.pc \in Walk ELSE <<u, i>> \in WalkingFrames
  <2>1. <<u, i>> \in Frames /\ <<u, i>>[1] = u /\ <<u, i>>[2] = i BY DEF Frames
  <2>2. <<u, i>> \in WalkingFrames' <=> i <= Depth(u) /\ stack'[u][i].pc \in Walk
    BY <1>4, <2>1 DEF WalkingFrames, Walk, Frames
  <2>3. <<u, i>> \in WalkingFrames <=> i <= Depth(u) /\ stack[u][i].pc \in Walk
    BY <2>1 DEF WalkingFrames, Walk
  <2>4. CASE u # t BY <1>4, <2>2, <2>3, <2>4
  <2>5. CASE u = t /\ i = d
    <3>1. i <= Depth(u) BY <1>1, <2>5 DEF d
    <3>2. QED BY <1>4, <2>2, <2>5, <3>1
  <2>6. CASE u = t /\ i # d
    <3>1. i <= Depth(u) => i \in 1 .. d - 1 BY <1>1, <1>2, <2>6 DEF d
    <3>2. QED BY <1>4, <2>2, <2>3, <2>6, <3>1
  <2>7. QED BY <2>4, <2>5, <2>6
<1>7. /\ WalkingFrames \subseteq Frames /\ WalkingFrames' \subseteq Frames
  BY DEF WalkingFrames, Frames
<1>8. \A x \in Frames : \E u \in Threads, i \in 1 .. MaxDepth : x = <<u, i>>
  BY DEF Frames
<1> DEFINE W == IF f.pc \in Walk THEN WalkingFrames \cup {<<t, d>>}
                ELSE WalkingFrames \ {<<t, d>>}
<1>9. \A x \in Frames : x \in WalkingFrames' <=> x \in W
  <2> SUFFICES ASSUME NEW x \in Frames PROVE x \in WalkingFrames' <=> x \in W OBVIOUS
  <2>1. PICK u \in Threads, i \in 1 .. MaxDepth : x = <<u, i>> BY <1>8
  <2>2. x = <<t, d>> <=> u = t /\ i = d BY <2>1
  <2>3. QED BY <1>6, <2>1, <2>2
<1>10. W \subseteq Frames BY <1>3, <1>7
<1>11. WalkingFrames' = W BY <1>7, <1>9, <1>10
<1>12. QED BY <1>5, <1>11 DEF d

\* The pointers a walking frame holds.
PointersOk(f, bhs) == f.next \in bhs \cup {NoBH} /\ f.bh \in bhs \cup {NoBH}

\* The frames that walk after a step of the innermost call.
LEMMA PointersTop ==
  ASSUME TypeOK, StackInv, WalkInv, NEW t \in Threads, NEW f, TopTo(t, f),
         f.pc \in Walk => PointersOk(f, Linked'),
         Linked \subseteq Linked' \/ WalkingFrames' = {}
  PROVE  \A x \in WalkingFrames' : PointersOk(stack'[x[1]][x[2]], Linked')
<1> SUFFICES ASSUME NEW x \in WalkingFrames'
             PROVE  PointersOk(stack'[x[1]][x[2]], Linked')
  OBVIOUS
<1>1. Linked \subseteq Linked' OBVIOUS
<1>2. PICK u \in Threads, i \in 1 .. MaxDepth : x = <<u, i>>
  BY DEF WalkingFrames, Frames
<1>3. /\ \A v \in Threads : Depth(v)' = Depth(v) /\ Depth(v) \in Nat
      /\ Depth(t) = Len(stack[t]) /\ MaxDepth \in Nat
  BY TopIs, StackOf, AioAssumption
<1>4. i <= Depth(u) /\ x[1] = u /\ x[2] = i BY <1>2, <1>3 DEF WalkingFrames
<1>5. CASE x = <<t, Depth(t)>>
  <2>1. u = t /\ i = Depth(t) BY <1>2, <1>5
  <2>2. stack'[u][i] = f BY <1>3, <2>1 DEF TopTo
  <2>3. f.pc \in Walk BY <1>5, WalkingTop
  <2>4. QED BY <1>4, <2>2, <2>3
<1>6. CASE x # <<t, Depth(t)>>
  <2>1. x \in WalkingFrames BY <1>6, WalkingTop
  <2>2. stack'[u][i] = stack[u][i]
    <3>1. CASE u # t BY <3>1 DEF TopTo
    <3>2. CASE u = t
      <4>1. i \in 1 .. Len(stack[t]) - 1 BY <1>2, <1>3, <1>4, <1>6, <3>2
      <4>2. QED BY <3>2, <4>1 DEF TopTo
    <3>3. QED BY <3>1, <3>2
  <2>3. PointersOk(stack[u][i], Linked)
    BY <1>4, <2>1 DEF WalkInv, NoDanglingBh, PointersOk
  <2>4. QED BY <1>1, <1>4, <2>2, <2>3 DEF PointersOk
<1>7. QED BY <1>5, <1>6

\* The innermost call neither starts nor ends a walk.
LEMMA WalkSame ==
  ASSUME TypeOK, StackInv, WalkInv, NEW t \in Threads, NEW f, TopTo(t, f),
         f.pc \in Walk <=> Top(t).pc \in Walk,
         f.pc \in Walk => PointersOk(f, Linked'),
         UNCHANGED <<first_bh, walking_bh>>
  PROVE  WalkInv'
<1>1. WalkingFrames' = WalkingFrames BY WalkingTop
<1>2. Linked' = Linked BY DEF Linked
<1>3. \A x \in WalkingFrames' : PointersOk(stack'[x[1]][x[2]], Linked')
  BY <1>2, PointersTop
<1>4. QED BY <1>1, <1>3 DEF WalkInv, NoDanglingBh, PointersOk

\* walking_bh++ (async.c:68) when a frame begins its walk.
LEMMA WalkUp ==
  ASSUME TypeOK, StackInv, WalkInv, NEW t \in Threads, NEW f, TopTo(t, f),
         f.pc \in Walk, Top(t).pc \notin Walk, PointersOk(f, Linked'),
         UNCHANGED first_bh, walking_bh' = walking_bh + 1
  PROVE  WalkInv'
<1> DEFINE x == <<t, Depth(t)>>
<1>1. WalkingFrames' = WalkingFrames \cup {x} /\ x \notin WalkingFrames BY WalkingTop
<1>2. Linked' = Linked BY DEF Linked
<1>3. \A y \in WalkingFrames' : PointersOk(stack'[y[1]][y[2]], Linked')
  BY <1>2, PointersTop
<1> HIDE DEF x
<1>4. /\ IsFiniteSet(WalkingFrames \cup {x})
      /\ Cardinality(WalkingFrames \cup {x}) = Cardinality(WalkingFrames) + 1
  BY <1>1, FS_AddElement DEF WalkInv
<1>5. QED BY <1>1, <1>3, <1>4 DEF WalkInv, NoDanglingBh, PointersOk

\* What was deleted is freed when no walk is left.
LEMMA WalkDown ==
  ASSUME TypeOK, StackInv, WalkInv, NEW t \in Threads, NEW f, TopTo(t, f),
         f.pc \notin Walk, Top(t).pc \in Walk, walking_bh' = walking_bh - 1,
         walking_bh' = 0 \/ UNCHANGED first_bh
  PROVE  WalkInv' /\ walking_bh' \in Nat
<1> DEFINE x == <<t, Depth(t)>>
<1>1. WalkingFrames' = WalkingFrames \ {x} /\ x \in WalkingFrames BY WalkingTop
<1> HIDE DEF x
<1>2. /\ IsFiniteSet(WalkingFrames \ {x})
      /\ Cardinality(WalkingFrames \ {x}) = Cardinality(WalkingFrames) - 1
  BY <1>1, FS_RemoveElement DEF WalkInv
<1>3. walking_bh' = Cardinality(WalkingFrames') BY <1>1, <1>2 DEF WalkInv, NoDanglingBh
<1>4. walking_bh' \in Nat BY <1>1, <1>2, <1>3, FS_CardinalityType
<1>5. walking_bh' = 0 => WalkingFrames' = {} BY <1>1, <1>2, <1>3, FS_EmptySet
<1>6. UNCHANGED first_bh => Linked' = Linked BY DEF Linked
<1>7. \A y \in WalkingFrames' : PointersOk(stack'[y[1]][y[2]], Linked')
  BY <1>5, <1>6, PointersTop
<1>8. QED BY <1>1, <1>2, <1>3, <1>4, <1>7 DEF WalkInv, NoDanglingBh, PointersOk

\* The walks are the same and no bottom half is freed.
LEMMA WalkKept ==
  ASSUME WalkInv, WalkingFrames' = WalkingFrames, UNCHANGED walking_bh,
         Linked \subseteq Linked',
         \A x \in WalkingFrames : stack'[x[1]][x[2]] = stack[x[1]][x[2]]
  PROVE  WalkInv'
BY DEF WalkInv, NoDanglingBh

\* Steps that unlink nothing.
LEMMA WalkUnchanged ==
  ASSUME WalkInv, UNCHANGED <<stack, walking_bh>>, Linked \subseteq Linked'
  PROVE  WalkInv'
<1>1. WalkingFrames' = WalkingFrames BY DEF WalkingFrames, Frames, Depth
<1>2. QED BY <1>1, WalkKept

-----------------------------------------------------------------------------
(* What aio_poll and aio_dispatch do.                                      *)

\* A call that is not in the middle of another one.
LEMMA AtIs ==
  ASSUME TypeOK, NEW t \in Threads, NEW p, At(t, p)
  PROVE  InPoll(t) /\ Top(t) \in Frame /\ Top(t).pc = p /\ call[t] = Quiet
BY StackOf DEF At

\* Steps that change a frame and nothing else of the types.
LEMMA TopType ==
  ASSUME TypeOK, NEW t \in Threads, NEW f, TopTo(t, f),
         UNCHANGED <<loopVars, call, deleted>>, first_bh' \in Seq(BHs),
         walking_bh' \in Nat, dispatching' \in BOOLEAN, notifier' \in BOOLEAN,
         io' \in BOOLEAN, revents' \in SUBSET Fds,
         scheduled' \in [BHs -> BOOLEAN], idle' \in [BHs -> BOOLEAN]
  PROVE  TypeOK'
<1>1. stack' \in [Threads -> Seq(Frame)] BY DEF TopTo
<1>2. AioTypeOK' BY <1>1 DEF TypeOK, AioTypeOK
<1>3. QED BY <1>2 DEF TypeOK, loopVars

\* The parts of the type invariant, for use with TopType.
LEMMA Parts ==
  ASSUME TypeOK
  PROVE  /\ first_bh \in Seq(BHs) /\ walking_bh \in Nat /\ dispatching \in BOOLEAN
         /\ notifier \in BOOLEAN /\ io \in BOOLEAN /\ revents \in SUBSET Fds
         /\ scheduled \in [BHs -> BOOLEAN] /\ idle \in [BHs -> BOOLEAN]
         /\ deleted \in [BHs -> BOOLEAN]
BY DEF TypeOK, AioTypeOK

\* A walk stands on bottom halves in the list.
LEMMA TopPointers ==
  ASSUME TypeOK, StackInv, WalkInv, NEW t \in Threads, InPoll(t), Top(t).pc \in Walk
  PROVE  PointersOk(Top(t), Linked)
<1> DEFINE x == <<t, Depth(t)>>
<1>1. /\ Depth(t) \in Nat /\ Depth(t) > 0 /\ Top(t) = stack[t][Depth(t)]
      /\ Depth(t) <= MaxDepth /\ MaxDepth \in Nat
  BY StackOf, AioAssumption DEF StackInv
<1>2. x \in Frames /\ x[1] = t /\ x[2] = Depth(t) BY <1>1 DEF Frames
<1>3. x \in WalkingFrames BY <1>1, <1>2 DEF WalkingFrames, Walk
<1>4. QED BY <1>1, <1>2, <1>3 DEF WalkInv, NoDanglingBh, PointersOk

\* bh->next of a bottom half in the list.
LEMMA NextIs ==
  ASSUME first_bh \in Seq(BHs), NEW b \in Linked
  PROVE  NextOf(b) \in Linked \cup {NoBH}
<1>1. DOMAIN first_bh = 1 .. Len(first_bh) /\ Len(first_bh) \in Nat BY LenProperties
<1>2. \E i \in DOMAIN first_bh : first_bh[i] = b BY DEF Linked, ToSet
<1> DEFINE i == CHOOSE i \in DOMAIN first_bh : first_bh[i] = b
<1>3. i \in DOMAIN first_bh BY <1>2
<1>4. NextOf(b) = IF i = Len(first_bh) THEN NoBH ELSE first_bh[i + 1] BY DEF NextOf
<1> HIDE DEF i
<1>5. i # Len(first_bh) => i + 1 \in DOMAIN first_bh BY <1>1, <1>3
<1>6. QED BY <1>4, <1>5 DEF Linked, ToSet

\* The linked bottom halves are bottom halves.
LEMMA LinkedIn ==
  ASSUME first_bh \in Seq(BHs) PROVE Linked \subseteq BHs
BY LenProperties, ElementOfSeq DEF Linked, ToSet

\* The first of the list is linked, or there is none.
LEMMA FirstIs ==
  ASSUME first_bh \in Seq(BHs)
  PROVE  FirstOf(first_bh) \in Linked \cup {NoBH} /\ FirstOf(first_bh) \in BHs \cup {NoBH}
<1>1. CASE first_bh = <<>> BY <1>1 DEF FirstOf
<1>2. CASE first_bh # <<>>
  <2>1. 1 \in DOMAIN first_bh /\ Head(first_bh) = first_bh[1]
    BY <1>2, LenProperties, EmptySeq
  <2>2. Head(first_bh) \in Linked BY <2>1 DEF Linked, ToSet
  <2>3. QED BY <1>2, <2>2, LinkedIn DEF FirstOf
<1>3. QED BY <1>1, <1>2

\* The list of bottom halves is not touched.
LEMMA SameLive ==
  ASSUME UNCHANGED <<first_bh, deleted>> PROVE Live' = Live /\ Linked' = Linked
BY DEF Live, Linked
\* qemu_poll_ns returns.
LEMMA PollReturnStep ==
  ASSUME IndInv, NEW t \in Threads, PollReturn(t), UNCHANGED loopVars PROVE IndInv'
<1> USE DEF bhVars
<1> DEFINE f == [Top(t) EXCEPT !.pc = "dispatch", !.timeout = "zero"]
<1>0. TypeOK /\ StackInv /\ WalkInv BY DEF IndInv
<1>1. InPoll(t) /\ Top(t) \in Frame /\ Top(t).pc = "poll" /\ call[t] = Quiet
  BY <1>0, AtIs DEF PollReturn
<1>2. /\ f \in Frame /\ f.was = Top(t).was /\ f.pc = "dispatch" /\ f.bh = NoBH
  BY <1>0, <1>1 DEF Frame, FramePc, Timeout, StackInv, Early
<1>3. Becomes(t, f) /\ UNCHANGED <<first_bh, walking_bh, deleted, call>> BY DEF PollReturn
<1> HIDE DEF f
<1>4. TopTo(t, f) BY <1>0, <1>1, <1>2, <1>3, BecomesIs
<1>5. revents' \in SUBSET Fds
  <2>1. Ready \subseteq Fds BY DEF Ready
  <2>2. QED BY <1>0, <2>1, Parts DEF PollReturn
<1>6. TypeOK' BY <1>0, <1>4, <1>5, Parts, TopType DEF PollReturn
<1>7. WalkInv' BY <1>0, <1>1, <1>2, <1>3, <1>4, WalkSame DEF Walk
<1>8. Top(t).pc \in Early BY <1>1 DEF Early
<1>9. QED BY <1>1, <1>2, <1>3, <1>4, <1>6, <1>7, <1>8, SameLive, TopStep

\* The walk over the bottom halves starts.
LEMMA DispatchStartStep ==
  ASSUME IndInv, NEW t \in Threads, DispatchStart(t), UNCHANGED loopVars PROVE IndInv'
<1> DEFINE f == [Top(t) EXCEPT !.pc = "bh", !.next = FirstOf(first_bh)]
<1>0. TypeOK /\ StackInv /\ WalkInv BY DEF IndInv
<1>1. InPoll(t) /\ Top(t) \in Frame /\ Top(t).pc = "dispatch" /\ call[t] = Quiet
  BY <1>0, AtIs DEF DispatchStart
<1>2. /\ f \in Frame /\ f.was = Top(t).was /\ f.pc = "bh"
      /\ f.next = FirstOf(first_bh) /\ f.bh = NoBH
  BY <1>0, <1>1, FirstIs, Parts DEF Frame, FramePc, StackInv, Early
<1>3. Becomes(t, f) /\ UNCHANGED <<first_bh, deleted, call>> BY DEF DispatchStart
<1> HIDE DEF f
<1>4. TopTo(t, f) BY <1>0, <1>1, <1>2, <1>3, BecomesIs
<1>5. TypeOK' BY <1>0, <1>4, Parts, TopType DEF DispatchStart, fdVars
<1>6. PointersOk(f, Linked')
  BY <1>0, <1>2, <1>3, FirstIs, Parts, SameLive DEF PointersOk
<1>7. walking_bh' = walking_bh + 1 BY DEF DispatchStart
<1>8. WalkInv' BY <1>0, <1>1, <1>2, <1>3, <1>4, <1>6, <1>7, WalkUp DEF Walk
<1>9. Top(t).pc \in Early BY <1>1 DEF Early
<1>10. QED BY <1>1, <1>2, <1>3, <1>4, <1>5, <1>8, <1>9, SameLive, TopStep

\* One bottom half is looked at.
LEMMA BhVisitStep ==
  ASSUME IndInv, NEW t \in Threads, BhVisit(t), UNCHANGED loopVars PROVE IndInv'
<1> DEFINE b   == Top(t).next
           run == ~deleted[b] /\ scheduled[b]
           f   == [Top(t) EXCEPT !.next = NextOf(b),
                                 !.pc = IF run THEN "claimed" ELSE "bh",
                                 !.bh = IF run THEN b ELSE NoBH]
<1>0. TypeOK /\ StackInv /\ WalkInv BY DEF IndInv
<1>1. /\ InPoll(t) /\ Top(t) \in Frame /\ Top(t).pc = "bh" /\ call[t] = Quiet
      /\ b # NoBH
  BY <1>0, AtIs DEF BhVisit
<1>2. b \in Linked BY <1>0, <1>1, TopPointers DEF PointersOk, Walk
<1>3. NextOf(b) \in Linked \cup {NoBH} /\ Linked \subseteq BHs
  BY <1>0, <1>2, NextIs, LinkedIn, Parts
<1>4. /\ Becomes(t, f) /\ UNCHANGED <<first_bh, walking_bh, deleted, call, dispatching>>
      /\ scheduled' = [scheduled EXCEPT ![b] = @ /\ deleted[b]]
  BY DEF BhVisit
<1> HIDE DEF b
<1>5. /\ f \in Frame /\ f.was = Top(t).was /\ f.pc \in {"claimed", "bh"}
      /\ f.next = NextOf(b) /\ f.bh \in {b, NoBH}
  BY <1>1, <1>2, <1>3 DEF Frame, FramePc
<1> HIDE DEF f
<1>6. TopTo(t, f) BY <1>0, <1>1, <1>4, <1>5, BecomesIs
<1>7. scheduled' \in [BHs -> BOOLEAN]
  <2>1. deleted[b] \in BOOLEAN /\ scheduled[b] \in BOOLEAN /\ b \in BHs
    BY <1>0, <1>2, <1>3, Parts
  <2>2. (scheduled[b] /\ deleted[b]) \in BOOLEAN OBVIOUS
  <2>3. QED BY <1>0, <1>4, <2>1, <2>2, Parts
<1>8. TypeOK' BY <1>0, <1>6, <1>7, Parts, TopType DEF BhVisit, fdVars
<1>9. PointersOk(f, Linked')
  BY <1>2, <1>3, <1>4, <1>5, SameLive DEF PointersOk
<1>10. WalkInv' BY <1>0, <1>1, <1>4, <1>5, <1>6, <1>9, WalkSame DEF Walk
<1>11. QED BY <1>1, <1>4, <1>5, <1>6, <1>8, <1>10, SameLive, TopStep

\* Its callback is called, and returns.
LEMMA BhCallStep ==
  ASSUME IndInv, NEW t \in Threads, BhCall(t), UNCHANGED loopVars PROVE IndInv'
<1> DEFINE p == Top(t).progress \/ ~idle[Top(t).bh]
           f == [Top(t) EXCEPT !.pc = "cb", !.progress = p]
<1>0. TypeOK /\ StackInv /\ WalkInv BY DEF IndInv
<1>1. InPoll(t) /\ Top(t) \in Frame /\ Top(t).pc = "claimed" /\ call[t] = Quiet
  BY <1>0, AtIs DEF BhCall
<1>2. /\ Becomes(t, f) /\ UNCHANGED <<first_bh, walking_bh, deleted, call, dispatching>>
      /\ idle' = [idle EXCEPT ![Top(t).bh] = FALSE]
  BY DEF BhCall
<1>3. p \in BOOLEAN OBVIOUS
<1> HIDE DEF p
<1>4. /\ f \in Frame /\ f.was = Top(t).was /\ f.pc = "cb"
      /\ f.next = Top(t).next /\ f.bh = Top(t).bh
  BY <1>1, <1>3 DEF Frame, FramePc
<1> HIDE DEF f
<1>5. TopTo(t, f) BY <1>0, <1>1, <1>2, <1>4, BecomesIs
<1>6. idle' \in [BHs -> BOOLEAN] BY <1>0, <1>2, Parts
<1>7. TypeOK' BY <1>0, <1>5, <1>6, Parts, TopType DEF BhCall, fdVars
<1>8. PointersOk(f, Linked')
  <2>1. PointersOk(Top(t), Linked) BY <1>0, <1>1, TopPointers DEF Walk
  <2>2. QED BY <1>2, <1>4, <2>1, SameLive DEF PointersOk
<1>9. WalkInv' BY <1>0, <1>1, <1>2, <1>4, <1>5, <1>8, WalkSame DEF Walk
<1>10. QED BY <1>1, <1>2, <1>4, <1>5, <1>7, <1>9, SameLive, TopStep

\* A callback of a bottom half returns into the walk.
LEMMA BhReturnStep ==
  ASSUME IndInv, NEW t \in Threads, BhReturn(t), UNCHANGED loopVars PROVE IndInv'
<1> DEFINE f == [Top(t) EXCEPT !.pc = "bh", !.bh = NoBH]
<1>0. TypeOK /\ StackInv /\ WalkInv BY DEF IndInv
<1>1. InPoll(t) /\ Top(t) \in Frame /\ Top(t).pc = "cb" /\ call[t] = Quiet
  BY <1>0, AtIs DEF BhReturn
<1>2. /\ Becomes(t, f) /\ UNCHANGED <<bhVars, fdVars, dispatching, call>> BY DEF BhReturn
<1>3. /\ f \in Frame /\ f.was = Top(t).was /\ f.pc = "bh"
      /\ f.next = Top(t).next /\ f.bh = NoBH
  BY <1>1 DEF Frame, FramePc
<1> HIDE DEF f
<1>4. TopTo(t, f) BY <1>0, <1>1, <1>2, <1>3, BecomesIs
<1>5. TypeOK' BY <1>0, <1>2, <1>4, Parts, TopType DEF fdVars, bhVars
<1>6. UNCHANGED <<first_bh, walking_bh, deleted>> BY <1>2 DEF bhVars
<1>7. PointersOk(f, Linked')
  <2>1. PointersOk(Top(t), Linked) BY <1>0, <1>1, TopPointers DEF Walk
  <2>2. QED BY <1>3, <1>6, <2>1, SameLive DEF PointersOk
<1>8. WalkInv' BY <1>0, <1>1, <1>3, <1>4, <1>6, <1>7, WalkSame DEF Walk
<1>9. QED BY <1>1, <1>2, <1>3, <1>4, <1>5, <1>6, <1>8, SameLive, TopStep

\* The walk ends, and what was deleted is freed if it was the last one.
LEMMA BhEndStep ==
  ASSUME IndInv, NEW t \in Threads, BhEnd(t), UNCHANGED loopVars PROVE IndInv'
<1> DEFINE f == [Top(t) EXCEPT !.pc = "handlers"]
<1>0. TypeOK /\ StackInv /\ WalkInv BY DEF IndInv
<1>1. InPoll(t) /\ Top(t) \in Frame /\ Top(t).pc = "bh" /\ call[t] = Quiet
  BY <1>0, AtIs DEF BhEnd
<1>2. /\ Becomes(t, f) /\ walking_bh' = walking_bh - 1
      /\ UNCHANGED <<scheduled, idle, deleted, fdVars, dispatching, call>>
      /\ first_bh' = IF walking_bh' = 0 THEN Undeleted ELSE first_bh
  BY DEF BhEnd
<1>3. f \in Frame /\ f.was = Top(t).was /\ f.pc = "handlers" BY <1>1 DEF Frame, FramePc
<1> HIDE DEF f
<1>4. TopTo(t, f) BY <1>0, <1>1, <1>2, <1>3, BecomesIs
<1>5. WalkInv' /\ walking_bh' \in Nat
  BY <1>0, <1>1, <1>2, <1>3, <1>4, WalkDown DEF Walk
<1>6. first_bh' \in Seq(BHs) /\ Live' = Live
  <2>1. /\ Undeleted \in Seq(BHs) /\ ToSet(Undeleted) = {b \in Linked : ~deleted[b]}
    BY <1>0, UndeletedIs, Parts
  <2>2. CASE walking_bh' = 0
    <3>1. first_bh' = Undeleted BY <1>2, <2>2
    <3>2. Linked' = Live BY <2>1, <3>1 DEF Linked, Live
    <3>3. deleted' = deleted BY <1>2
    <3>4. QED BY <2>1, <3>1, <3>2, <3>3 DEF Live
  <2>3. CASE walking_bh' # 0
    <3>1. UNCHANGED <<first_bh, deleted>> BY <1>2, <2>3
    <3>2. QED BY <1>0, <3>1, SameLive, Parts
  <2>4. QED BY <2>2, <2>3
<1>7. TypeOK' BY <1>0, <1>2, <1>4, <1>5, <1>6, Parts, TopType DEF fdVars
<1>8. QED BY <1>1, <1>2, <1>3, <1>4, <1>5, <1>6, <1>7, TopStep
\* The handlers.
LEMMA HandleIoStep ==
  ASSUME IndInv, NEW t \in Threads, HandleIo(t), UNCHANGED loopVars PROVE IndInv'
<1> DEFINE f == [Top(t) EXCEPT !.pc = "iocb", !.progress = TRUE]
<1>0. TypeOK /\ StackInv /\ WalkInv BY DEF IndInv
<1>1. InPoll(t) /\ Top(t) \in Frame /\ Top(t).pc = "handlers" /\ call[t] = Quiet
  BY <1>0, AtIs DEF HandleIo
<1>2. Becomes(t, f) /\ UNCHANGED <<bhVars, notifier, dispatching, call>> BY DEF HandleIo
<1>3. f \in Frame /\ f.was = Top(t).was /\ f.pc = "iocb" BY <1>1 DEF Frame, FramePc
<1> HIDE DEF f
<1>4. TopTo(t, f) BY <1>0, <1>1, <1>2, <1>3, BecomesIs
<1>5. TypeOK' BY <1>0, <1>2, <1>4, Parts, TopType DEF bhVars, HandleIo
<1>6. UNCHANGED <<first_bh, walking_bh, deleted>> BY <1>2 DEF bhVars
<1>7. WalkInv' BY <1>0, <1>1, <1>3, <1>4, <1>6, WalkSame DEF Walk
<1>8. QED BY <1>1, <1>2, <1>3, <1>4, <1>5, <1>6, <1>7, SameLive, TopStep

\* A handler returns into aio_dispatch.
LEMMA IoReturnStep ==
  ASSUME IndInv, NEW t \in Threads, IoReturn(t), UNCHANGED loopVars PROVE IndInv'
<1> DEFINE f == [Top(t) EXCEPT !.pc = "handlers"]
<1>0. TypeOK /\ StackInv /\ WalkInv BY DEF IndInv
<1>1. InPoll(t) /\ Top(t) \in Frame /\ Top(t).pc = "iocb" /\ call[t] = Quiet
  BY <1>0, AtIs DEF IoReturn
<1>2. Becomes(t, f) /\ UNCHANGED <<bhVars, fdVars, dispatching, call>> BY DEF IoReturn
<1>3. f \in Frame /\ f.was = Top(t).was /\ f.pc = "handlers" BY <1>1 DEF Frame, FramePc
<1> HIDE DEF f
<1>4. TopTo(t, f) BY <1>0, <1>1, <1>2, <1>3, BecomesIs
<1>5. TypeOK' BY <1>0, <1>2, <1>4, Parts, TopType DEF bhVars, fdVars
<1>6. UNCHANGED <<first_bh, walking_bh, deleted>> BY <1>2 DEF bhVars
<1>7. WalkInv' BY <1>0, <1>1, <1>3, <1>4, <1>6, WalkSame DEF Walk
<1>8. QED BY <1>1, <1>2, <1>3, <1>4, <1>5, <1>6, <1>7, SameLive, TopStep

\* event_notifier_test_and_clear: nobody who could block is there to miss it.
LEMMA HandleNotifierStep ==
  ASSUME IndInv, NEW t \in Threads, HandleNotifier(t), UNCHANGED loopVars PROVE IndInv'
<1>0. TypeOK /\ StackInv /\ WalkInv BY DEF IndInv
<1>1. InPoll(t) /\ Top(t) \in Frame /\ Top(t).pc = "handlers" /\ call[t] = Quiet
  BY <1>0, AtIs DEF HandleNotifier
<1>2. UNCHANGED <<bhVars, dispatching, stack, call, bql>>
  BY DEF HandleNotifier, loopVars
<1>3. InPoll(t)' /\ ~Sleepy(t)' /\ ~stack'[t][1].was
  BY <1>1, <1>2 DEF InPoll, Sleepy, Top, Depth, IndInv, DispatchInv
<1>4. DispatchInv' /\ WakeInv' BY <1>0, <1>1, <1>2, <1>3, AwakeStep
<1>5. TypeOK'
  <2>1. revents' \in SUBSET Fds /\ notifier' \in BOOLEAN /\ io' = io BY DEF HandleNotifier
  <2>2. AioTypeOK' BY <1>0, <1>2, <2>1 DEF TypeOK, AioTypeOK, bhVars
  <2>3. QED BY <1>0, <2>2 DEF TypeOK, loopVars
<1>6. LoopInv' BY <1>2, SameLoop DEF IndInv, InPoll
<1>7. StackInv' BY <1>0, <1>2 DEF StackInv, InPoll, Top, Depth
<1>8. CallInv' BY <1>2, SameCalls DEF IndInv, bhVars
<1>9. WalkInv'
  <2>1. UNCHANGED <<stack, walking_bh>> /\ Linked' = Linked BY <1>2, SameLive DEF bhVars
  <2>2. QED BY <1>0, <2>1, WalkUnchanged
<1>10. GlibInv' BY <1>2 DEF IndInv, GlibInv, Depth, loopVars
<1>11. QED BY <1>4, <1>5, <1>6, <1>7, <1>8, <1>9, <1>10 DEF IndInv

\* The timeout is computed: who blocks without one saw nothing scheduled.
LEMMA PollStartStep ==
  ASSUME IndInv, NEW t \in Threads, PollStart(t), UNCHANGED loopVars PROVE IndInv'
<1> DEFINE w == IF Top(t).timeout = "zero" THEN "zero" ELSE aio_compute_timeout
           f == [Top(t) EXCEPT !.pc = "poll", !.timeout = w]
<1>0. /\ TypeOK /\ StackInv /\ WalkInv /\ LoopInv /\ CallInv /\ DispatchInv
      /\ Main \in Threads
  BY MainLoopAssumption DEF IndInv
<1>1. /\ InPoll(t) /\ Top(t) \in Frame /\ Top(t).pc = "compute" /\ call[t] = Quiet
      /\ Top(t).bh = NoBH /\ Top(t).timeout \in {"zero", "none"}
  <2>1. InPoll(t) /\ Top(t) \in Frame /\ Top(t).pc = "compute" /\ call[t] = Quiet
    BY <1>0, AtIs DEF PollStart
  <2>2. QED BY <1>0, <2>1 DEF StackInv, Early, Frame, Timeout
<1>2. Becomes(t, f) /\ UNCHANGED <<bhVars, fdVars, dispatching, call>> BY DEF PollStart
<1>3. w \in Timeout /\ (w = "none" => Top(t).timeout = "none" /\ Scheduled = {})
  BY <1>1 DEF Timeout, aio_compute_timeout
<1> HIDE DEF w
<1>4. /\ f \in Frame /\ f.was = Top(t).was /\ f.pc = "poll" /\ f.bh = NoBH
      /\ f.timeout = w
  BY <1>1, <1>3 DEF Frame, FramePc
<1> HIDE DEF f
<1>5. TopTo(t, f) BY <1>0, <1>1, <1>2, <1>4, BecomesIs
<1>6. TypeOK' BY <1>0, <1>2, <1>5, Parts, TopType DEF bhVars, fdVars
<1>7. /\ UNCHANGED <<first_bh, walking_bh, deleted, scheduled, notifier, dispatching>>
      /\ UNCHANGED <<bql, call>>
  BY <1>2 DEF bhVars, fdVars, loopVars
<1>8. WalkInv' BY <1>0, <1>1, <1>4, <1>5, <1>7, WalkSame DEF Walk
<1>9. StackInv' BY <1>0, <1>1, <1>4, <1>5, <1>7, StackTop
<1>10. CallInv' BY <1>0, <1>7, SameCalls
<1>11. /\ \A u \in Threads : Depth(u)' = Depth(u) /\ (InPoll(u)' <=> InPoll(u))
       /\ \A u \in Threads : u # t => Top(u)' = Top(u)
       /\ Top(t)' = f
  BY <1>0, <1>5, TopIs
<1>12. \A u \in Threads : Sleepy(u)' => Sleepy(u) /\ u = t /\ Scheduled = {}
  <2> SUFFICES ASSUME NEW u \in Threads, Sleepy(u)'
               PROVE  Sleepy(u) /\ u = t /\ Scheduled = {}
    OBVIOUS
  <2>1. u = t BY <1>0, <1>1, <1>11, Poller DEF Sleepy
  <2>2. w = "none" BY <1>4, <1>11, <2>1 DEF Sleepy
  <2>3. QED BY <1>1, <1>3, <2>1, <2>2 DEF Sleepy
<1>13. Scheduled' = Scheduled BY <1>7, SameLive DEF Scheduled
<1>14. LoopInv' BY <1>0, <1>2, <1>11, SameLoop
<1>15. DispatchInv'
  <2>1. (\A u \in Threads : ~InPoll(u)') => ~dispatching'
    BY <1>0, <1>7, <1>11 DEF DispatchInv
  <2>2. \A u \in Threads : InPoll(u)' => ~stack'[u][1].was
    <3>1. stack'[t][1].was = stack[t][1].was BY <1>0, <1>4, <1>5, WasKept
    <3>2. QED BY <1>0, <1>5, <1>11, <3>1 DEF DispatchInv, TopTo
  <2>3. \A u \in Threads : Sleepy(u)' => ~dispatching' BY <1>0, <1>7, <1>12 DEF DispatchInv
  <2>4. QED BY <2>1, <2>2, <2>3 DEF DispatchInv
<1>16. WakeInv' BY <1>12, <1>13 DEF WakeInv
<1>17. GlibInv'
  <2>1. Top(t).pc \in Early BY <1>1 DEF Early
  <2>2. QED BY <1>0, <1>4, <1>5, <2>1, GlibTop DEF IndInv
<1>18. QED BY <1>6, <1>8, <1>9, <1>10, <1>14, <1>15, <1>16, <1>17 DEF IndInv

-----------------------------------------------------------------------------
(* Calls other than aio_poll.                                              *)

\* Thread t is left with c of its call, and has not touched what polls use.
CallTo(t, c) ==
  /\ c \in Call /\ call' = [call EXCEPT ![t] = c] /\ (notifier => notifier')
  /\ UNCHANGED <<stack, dispatching, walking_bh, loopVars>>

\* What is left may only be a call that the thread is able to make there.
CallOk(t, c) ==
  /\ IF c.step \in {"xchg", "mb_set"} THEN c.bh \in Live' ELSE c.bh = NoBH
  /\ c.step = "mb_set" => bql = t
  /\ InPoll(t) /\ c # Quiet => Top(t).pc \in InStack
  /\ t = Main /\ c # Quiet => main \in {"fill", "dispatch"}

\* A notification that is begun is not given up, unless it is not needed.
KeepsNotice(t, c) ==
  ~dispatching /\ call[t].step \in {"notify", "set"}
    => notifier' \/ c.step \in {"notify", "set"}

\* A step after which nobody misses a wakeup that was on its way, or that the
\* step makes necessary.
NoticeKept ==
  ~dispatching => /\ Noted => Noted'
                  /\ Scheduled' # {} => Scheduled # {} \/ Noted'

\* A step of a call to the API that keeps its pointers live and its notice pending.
LEMMA CallPreserves ==
  ASSUME IndInv, NEW t \in Threads, NEW c, CallTo(t, c), CallOk(t, c), KeepsNotice(t, c),
         TypeOK', Linked \subseteq Linked',
         \A u \in Threads : u # t /\ call[u].bh \in Live => call[u].bh \in Live',
         \A u \in Threads : Sleepy(u) => Scheduled' = {} \/ Scheduled # {} \/ Noted'
  PROVE  IndInv' /\ (~dispatching /\ Noted => Noted')
<1>0. /\ TypeOK /\ LoopInv /\ StackInv /\ CallInv /\ DispatchInv /\ WakeInv /\ WalkInv
      /\ Main \in Threads
  BY MainLoopAssumption DEF IndInv
<1>1. /\ UNCHANGED <<stack, dispatching, walking_bh, bql, loopVars>>
      /\ call' = [call EXCEPT ![t] = c] /\ (notifier => notifier')
  BY DEF CallTo, loopVars
<1>2. call'[t] = c /\ \A u \in Threads : u # t => call'[u] = call[u]
  BY <1>0, <1>1 DEF TypeOK, AioTypeOK
<1>3. /\ \A u \in Threads : (InPoll(u)' <=> InPoll(u)) /\ Depth(u)' = Depth(u)
      /\ \A u \in Threads : Top(u)' = Top(u) /\ (Sleepy(u)' <=> Sleepy(u))
  BY <1>0, <1>1 DEF InPoll, Depth, Top, Sleepy
<1>4. LoopInv'
  <2>1. main \in {"poll", "relock", "check"} => ~InPoll(Main)' /\ call'[Main] = Quiet
    BY <1>0, <1>2, <1>3 DEF LoopInv, CallOk
  <2>2. QED BY <1>0, <1>1, <1>3, <2>1 DEF LoopInv, loopVars
<1>5. StackInv' BY <1>0, <1>1, <1>2, <1>3 DEF StackInv, CallOk
<1>6. CallInv' BY <1>0, <1>1, <1>2 DEF CallInv, CallOk
<1>7. DispatchInv' BY <1>0, <1>1, <1>3 DEF DispatchInv
<1>8. WalkInv' BY <1>0, <1>1, WalkUnchanged
<1>9. ASSUME ~dispatching, Noted PROVE Noted'
  <2>1. CASE notifier BY <1>1, <2>1 DEF Noted
  <2>2. CASE Notifying # {}
    <3>1. PICK u \in Threads : call[u].step \in {"notify", "set"} BY <2>2 DEF Notifying
    <3>2. notifier' \/ call'[u].step \in {"notify", "set"}
      BY <1>2, <1>9, <3>1 DEF KeepsNotice
    <3>3. QED BY <1>1, <1>9, <3>2 DEF Noted, Notifying
  <2>3. QED BY <1>9, <2>1, <2>2 DEF Noted
<1>10. WakeInv'
  <2> SUFFICES ASSUME NEW u \in Threads, Sleepy(u), Top(u).pc = "poll", Scheduled' # {}
               PROVE  Noted'
    BY <1>3 DEF WakeInv
  <2>1. ~dispatching BY <1>0 DEF DispatchInv
  <2>2. Scheduled # {} => Noted BY <1>0 DEF WakeInv
  <2>3. QED BY <1>9, <2>1, <2>2
<1>11. GlibInv' BY <1>1 DEF IndInv, GlibInv, Depth, loopVars
<1>12. QED BY <1>4, <1>5, <1>6, <1>7, <1>8, <1>9, <1>10, <1>11 DEF IndInv

\* Where calls are made: outside of aio_poll, or in one of its callbacks.
Outside(t) ==
  /\ InPoll(t) => Top(t).pc \in InStack
  /\ t = Main => main \in {"fill", "dispatch"}

\* Whoever has not finished its call is where calls are made.
LEMMA MidCall ==
  ASSUME IndInv, NEW t \in Threads, call[t] # Quiet PROVE Outside(t)
BY DEF IndInv, StackInv, LoopInv, TypeOK, Outside

\* A thread with nothing left of its call stays like that.
LEMMA StaysQuiet ==
  ASSUME IndInv, NEW t \in Threads, call[t] = Quiet,
         UNCHANGED <<call, stack, dispatching, walking_bh, notifier, loopVars>>
  PROVE  CallTo(t, Quiet) /\ CallOk(t, Quiet) /\ KeepsNotice(t, Quiet)
<1>1. call \in [Threads -> Call] BY DEF IndInv, TypeOK, AioTypeOK
<1>2. Quiet \in Call /\ Quiet.step = "none" /\ Quiet.bh = NoBH BY DEF Quiet, Call
<1>3. call' = [call EXCEPT ![t] = Quiet] BY <1>1
<1>4. QED BY <1>2, <1>3 DEF CallTo, CallOk, KeepsNotice
\* A new bottom half is in the list and not scheduled.
LEMMA BhNewStep ==
  ASSUME IndInv, NEW t \in Threads, NEW b \in BHs, aio_bh_new(t, b), UNCHANGED loopVars
  PROVE  IndInv' /\ NoticeKept
<1>0. TypeOK BY DEF IndInv
<1>1. /\ call[t] = Quiet /\ b \notin Linked
      /\ UNCHANGED <<walking_bh, notifier, revents, io, dispatching, stack, call>>
  BY DEF aio_bh_new, fdVars
<1>2. first_bh' \in Seq(BHs) /\ Linked' = Linked \cup {b}
  <2> DEFINE s == first_bh
             r == <<b>> \o s
  <2>1. s \in Seq(BHs) /\ <<b>> \in Seq(BHs) /\ Len(<<b>>) = 1 /\ <<b>>[1] = b
    BY <1>0, Parts
  <2>2. /\ r \in Seq(BHs) /\ Len(r) = 1 + Len(s) /\ Len(s) \in Nat
        /\ \A i \in 1 .. 1 + Len(s) : r[i] = IF i <= 1 THEN <<b>>[i] ELSE s[i - 1]
    <3> HIDE DEF s
    <3>1. QED BY <2>1, ConcatProperties, LenProperties
  <2>3. DOMAIN r = 1 .. 1 + Len(s) /\ DOMAIN s = 1 .. Len(s) BY <2>1, <2>2, LenProperties
  <2>4. first_bh' = r BY DEF aio_bh_new
  <2> HIDE DEF r, s
  <2>5. r[1] = b /\ 1 \in DOMAIN r BY <2>1, <2>2, <2>3
  <2>6. \A i \in DOMAIN s : i + 1 \in DOMAIN r /\ r[i + 1] = s[i]
    <3> TAKE i \in DOMAIN s
    <3>1. i + 1 \in 1 .. 1 + Len(s) /\ ~(i + 1 <= 1) /\ (i + 1) - 1 = i BY <2>2, <2>3
    <3>2. QED BY <2>2, <2>3, <3>1
  <2>7. \A i \in DOMAIN r : i = 1 \/ (i - 1 \in DOMAIN s /\ r[i] = s[i - 1])
    <3> TAKE i \in DOMAIN r
    <3>1. i # 1 => i - 1 \in 1 .. Len(s) /\ ~(i <= 1) BY <2>2, <2>3
    <3>2. QED BY <2>2, <2>3, <3>1
  <2>8. ToSet(r) = ToSet(s) \cup {b} BY <2>5, <2>6, <2>7 DEF ToSet
  <2>9. QED BY <2>2, <2>4, <2>8 DEF Linked, s
<1>3. /\ scheduled' = [scheduled EXCEPT ![b] = FALSE]
      /\ idle' = [idle EXCEPT ![b] = FALSE] /\ deleted' = [deleted EXCEPT ![b] = FALSE]
  BY DEF aio_bh_new
<1>4. TypeOK'
  <2>1. /\ scheduled' \in [BHs -> BOOLEAN] /\ idle' \in [BHs -> BOOLEAN]
        /\ deleted' \in [BHs -> BOOLEAN]
    BY <1>0, <1>3, Parts
  <2>2. AioTypeOK' BY <1>0, <1>1, <1>2, <2>1 DEF TypeOK, AioTypeOK
  <2>3. QED BY <1>0, <2>2 DEF TypeOK, loopVars
<1>5. Linked \subseteq BHs BY <1>0, LinkedIn, Parts
<1>6. \A x \in Linked : deleted'[x] = deleted[x] /\ scheduled'[x] = scheduled[x]
  BY <1>0, <1>1, <1>3, <1>5, Parts
<1>7. scheduled'[b] = FALSE BY <1>0, <1>3, Parts
<1>8. Live \subseteq Live' BY <1>2, <1>6 DEF Live
<1>9. Scheduled' = Scheduled BY <1>2, <1>6, <1>7 DEF Scheduled, Live
<1>10. CallTo(t, Quiet) /\ CallOk(t, Quiet) /\ KeepsNotice(t, Quiet) BY <1>1, StaysQuiet
<1>11. IndInv' /\ (~dispatching /\ Noted => Noted')
  BY <1>2, <1>4, <1>8, <1>9, <1>10, CallPreserves
<1>12. QED BY <1>9, <1>11 DEF NoticeKept

\* What the first half of qemu_bh_schedule and qemu_bh_schedule_idle have in common.
LEMMA ScheduleStarts ==
  ASSUME IndInv, NEW t \in Threads, NEW b \in BHs, NEW p \in {"xchg", "mb_set"},
         NEW v \in BOOLEAN, Outside(t), p = "mb_set" => bql = t,
         call[t] = Quiet, b \in Live, idle' = [idle EXCEPT ![b] = v],
         call' = [call EXCEPT ![t] = [step |-> p, bh |-> b]],
         UNCHANGED <<first_bh, walking_bh, scheduled, deleted, fdVars, dispatching, stack>>,
         UNCHANGED loopVars
  PROVE  IndInv' /\ NoticeKept
<1> DEFINE c == [step |-> p, bh |-> b]
<1>0. TypeOK /\ UNCHANGED <<notifier, revents, io>> BY DEF IndInv, fdVars
<1>1. c \in Call /\ c.step = p /\ c.bh = b BY DEF Call
<1>2. call' = [call EXCEPT ![t] = c] OBVIOUS
<1> HIDE DEF c
<1>3. TypeOK'
  <2>1. idle' \in [BHs -> BOOLEAN] BY <1>0, Parts
  <2>2. call' \in [Threads -> Call] BY <1>0, <1>1, <1>2 DEF TypeOK, AioTypeOK
  <2>3. AioTypeOK' BY <1>0, <2>1, <2>2 DEF TypeOK, AioTypeOK
  <2>4. QED BY <1>0, <2>3 DEF TypeOK, loopVars
<1>4. Live' = Live /\ Linked' = Linked BY SameLive
<1>5. Scheduled' = Scheduled BY <1>4 DEF Scheduled
<1>6. CallTo(t, c) BY <1>0, <1>1, <1>2 DEF CallTo
<1>7. CallOk(t, c) BY <1>1, <1>4 DEF CallOk, Outside
<1>8. KeepsNotice(t, c) BY <1>1 DEF KeepsNotice, Quiet
<1>9. IndInv' /\ (~dispatching /\ Noted => Noted')
  BY <1>3, <1>4, <1>5, <1>6, <1>7, <1>8, CallPreserves
<1>10. QED BY <1>5, <1>9 DEF NoticeKept

\* qemu_bh_schedule begins.
LEMMA ScheduleStep ==
  ASSUME IndInv, NEW t \in Threads, NEW b \in BHs, Outside(t), qemu_bh_schedule(t, b),
         UNCHANGED loopVars
  PROVE  IndInv' /\ NoticeKept
BY ScheduleStarts DEF qemu_bh_schedule

\* qemu_bh_schedule_idle, by a thread that owns the lock: nobody sleeps meanwhile.
LEMMA ScheduleIdleStep ==
  ASSUME IndInv, NEW t \in Threads, NEW b \in BHs, Outside(t), bql = t,
         qemu_bh_schedule_idle(t, b), UNCHANGED loopVars
  PROVE  IndInv' /\ NoticeKept
<1> DEFINE p == "mb_set"
<1>1. /\ call[t] = Quiet /\ b \in Live
      /\ call' = [call EXCEPT ![t] = [step |-> p, bh |-> b]]
      /\ UNCHANGED <<first_bh, walking_bh, scheduled, deleted, fdVars, dispatching, stack>>
      /\ p \in {"xchg", "mb_set"}
  BY DEF qemu_bh_schedule_idle
<1> HIDE DEF p
<1>2. PICK v \in BOOLEAN : idle' = [idle EXCEPT ![b] = v] BY DEF qemu_bh_schedule_idle
<1>3. p = "mb_set" => bql = t OBVIOUS
<1>4. QED BY <1>1, <1>2, <1>3, ScheduleStarts

\* qemu_bh_cancel, and qemu_bh_delete of what nobody is about to schedule.
LEMMA CancelStep ==
  ASSUME IndInv, NEW t \in Threads, NEW b \in BHs, qemu_bh_cancel(t, b), UNCHANGED loopVars
  PROVE  IndInv' /\ NoticeKept
<1>0. TypeOK BY DEF IndInv
<1>1. /\ call[t] = Quiet /\ scheduled' = [scheduled EXCEPT ![b] = FALSE]
      /\ UNCHANGED <<first_bh, walking_bh, idle, deleted, notifier, revents, io,
                     dispatching, stack, call>>
  BY DEF qemu_bh_cancel, fdVars
<1>2. TypeOK'
  <2>1. scheduled' \in [BHs -> BOOLEAN] BY <1>0, <1>1, Parts
  <2>2. AioTypeOK' BY <1>0, <1>1, <2>1 DEF TypeOK, AioTypeOK
  <2>3. QED BY <1>0, <2>2 DEF TypeOK, loopVars
<1>3. Live' = Live /\ Linked' = Linked BY <1>1, SameLive
<1>4. Live \subseteq BHs BY <1>0, LinkedIn, Parts DEF Live
<1>5. Scheduled' \subseteq Scheduled BY <1>0, <1>1, <1>3, <1>4, Parts DEF Scheduled
<1>6. CallTo(t, Quiet) /\ CallOk(t, Quiet) /\ KeepsNotice(t, Quiet) BY <1>1, StaysQuiet
<1>7. IndInv' /\ (~dispatching /\ Noted => Noted')
  BY <1>2, <1>3, <1>5, <1>6, CallPreserves
<1>8. QED BY <1>5, <1>7 DEF NoticeKept

\* qemu_bh_delete marks, and does not unlink.
LEMMA DeleteStep ==
  ASSUME IndInv, NEW t \in Threads, NEW b \in BHs, qemu_bh_delete(t, b), UNCHANGED loopVars
  PROVE  IndInv' /\ NoticeKept
<1>0. TypeOK BY DEF IndInv
<1>1. /\ call[t] = Quiet /\ scheduled' = [scheduled EXCEPT ![b] = FALSE]
      /\ deleted' = [deleted EXCEPT ![b] = TRUE]
      /\ \A u \in Threads : call[u].bh # b
      /\ UNCHANGED <<first_bh, walking_bh, idle, notifier, revents, io,
                     dispatching, stack, call>>
  BY DEF qemu_bh_delete, fdVars
<1>2. TypeOK'
  <2>1. scheduled' \in [BHs -> BOOLEAN] /\ deleted' \in [BHs -> BOOLEAN]
    BY <1>0, <1>1, Parts
  <2>2. AioTypeOK' BY <1>0, <1>1, <2>1 DEF TypeOK, AioTypeOK
  <2>3. QED BY <1>0, <2>2 DEF TypeOK, loopVars
<1>3. Linked' = Linked /\ Linked \subseteq BHs BY <1>0, <1>1, LinkedIn, Parts DEF Linked
<1>4. \A x \in BHs : x # b => deleted'[x] = deleted[x] /\ scheduled'[x] = scheduled[x]
  BY <1>0, <1>1, Parts
<1>5. deleted'[b] = TRUE BY <1>0, <1>1, Parts
<1>6. Live' = Live \ {b} BY <1>3, <1>4, <1>5 DEF Live
<1>7. Scheduled' \subseteq Scheduled BY <1>3, <1>4, <1>6 DEF Scheduled, Live
<1>8. CallTo(t, Quiet) /\ CallOk(t, Quiet) /\ KeepsNotice(t, Quiet) BY <1>1, StaysQuiet
<1>9. IndInv' /\ (~dispatching /\ Noted => Noted')
  BY <1>1, <1>2, <1>3, <1>6, <1>7, <1>8, CallPreserves
<1>10. QED BY <1>7, <1>9 DEF NoticeKept

\* The steps that end a call.
LEMMA XchgStep ==
  ASSUME IndInv, NEW t \in Threads, ScheduleXchg(t), UNCHANGED loopVars
  PROVE  IndInv' /\ NoticeKept
<1> DEFINE b == call[t].bh
           c == IF scheduled[b] THEN Quiet ELSE [step |-> "notify", bh |-> NoBH]
<1>0. TypeOK /\ LoopInv /\ StackInv /\ CallInv /\ DispatchInv BY DEF IndInv
<1>1. /\ call[t].step = "xchg" /\ scheduled' = [scheduled EXCEPT ![b] = TRUE]
      /\ call' = [call EXCEPT ![t] = c]
      /\ UNCHANGED <<first_bh, walking_bh, idle, deleted, notifier, revents, io,
                     dispatching, stack>>
  BY DEF ScheduleXchg, fdVars
<1>2. b \in Live /\ call[t] # Quiet /\ Outside(t)
  <2>1. call[t].step = "xchg" => call[t].bh \in Live BY <1>0 DEF CallInv
  <2>2. call[t] # Quiet BY <1>1 DEF Quiet
  <2>3. QED BY <1>1, <2>1, <2>2, MidCall
<1>3. /\ c \in Call /\ c.step \in {"none", "notify"} /\ c.bh = NoBH
      /\ c.step = "notify" \/ scheduled[b]
  BY DEF Call, Quiet
<1>4. Live' = Live /\ Linked' = Linked /\ Live \subseteq BHs
  BY <1>0, <1>1, SameLive, LinkedIn, Parts DEF Live
<1> HIDE DEF b, c
<1>5. TypeOK'
  <2>1. scheduled' \in [BHs -> BOOLEAN] BY <1>0, <1>1, Parts
  <2>2. call' \in [Threads -> Call] BY <1>0, <1>1, <1>3 DEF TypeOK, AioTypeOK
  <2>3. AioTypeOK' BY <1>0, <1>1, <2>1, <2>2 DEF TypeOK, AioTypeOK
  <2>4. QED BY <1>0, <2>3 DEF TypeOK, loopVars
<1>6. CallTo(t, c) BY <1>1, <1>3 DEF CallTo
<1>7. CallOk(t, c) BY <1>2, <1>3 DEF CallOk, Outside
<1>8. KeepsNotice(t, c) BY <1>1, <1>2, <1>3 DEF KeepsNotice
<1>9. ASSUME ~dispatching PROVE Scheduled # {} \/ Noted'
  <2>1. CASE scheduled[b] BY <1>2, <2>1 DEF Scheduled
  <2>2. CASE ~scheduled[b]
    <3>1. ~dispatching' BY <1>1, <1>9
    <3>2. call'[t] = c BY <1>0, <1>1 DEF TypeOK, AioTypeOK
    <3>3. QED BY <1>3, <2>2, <3>1, <3>2 DEF Noted, Notifying
  <2>3. QED BY <2>1, <2>2
<1>10. \A u \in Threads : Sleepy(u) => ~dispatching BY <1>0 DEF DispatchInv
<1>11. IndInv' /\ (~dispatching /\ Noted => Noted')
  BY <1>4, <1>5, <1>6, <1>7, <1>8, <1>9, <1>10, CallPreserves
<1>12. QED BY <1>9, <1>11 DEF NoticeKept

\* atomic_mb_set without aio_notify: its caller is the only one that could block.
LEMMA IdleSetStep ==
  ASSUME IndInv, NEW t \in Threads, ScheduleIdleSet(t), UNCHANGED loopVars PROVE IndInv'
<1> DEFINE b == call[t].bh
<1>0. TypeOK /\ LoopInv /\ StackInv /\ CallInv /\ DispatchInv BY DEF IndInv
<1>1. /\ call[t].step = "mb_set" /\ scheduled' = [scheduled EXCEPT ![b] = TRUE]
      /\ call' = [call EXCEPT ![t] = Quiet]
      /\ UNCHANGED <<first_bh, walking_bh, idle, deleted, notifier, revents, io,
                     dispatching, stack>>
  BY DEF ScheduleIdleSet, fdVars
<1>2. bql = t /\ call[t] # Quiet /\ Outside(t)
  BY <1>0, <1>1, MidCall DEF CallInv, Quiet
<1>3. Quiet \in Call /\ Quiet.step = "none" /\ Quiet.bh = NoBH BY DEF Call, Quiet
<1>4. Live' = Live /\ Linked' = Linked BY <1>1, SameLive
<1> HIDE DEF b
<1>5. TypeOK'
  <2>1. scheduled' \in [BHs -> BOOLEAN] BY <1>0, <1>1, Parts
  <2>2. call' \in [Threads -> Call] BY <1>0, <1>1, <1>3 DEF TypeOK, AioTypeOK
  <2>3. AioTypeOK' BY <1>0, <1>1, <2>1, <2>2 DEF TypeOK, AioTypeOK
  <2>4. QED BY <1>0, <2>3 DEF TypeOK, loopVars
<1>6. CallTo(t, Quiet) BY <1>1, <1>3 DEF CallTo
<1>7. CallOk(t, Quiet) BY <1>3 DEF CallOk
<1>8. KeepsNotice(t, Quiet) BY <1>1, <1>2 DEF KeepsNotice
<1>9. ASSUME NEW u \in Threads, Sleepy(u) PROVE FALSE
  <2>1. t = u BY <1>0, <1>2, <1>9, Poller DEF Sleepy
  <2>2. QED BY <1>2, <1>9, <2>1 DEF Sleepy, Outside, InStack
<1>10. QED BY <1>4, <1>5, <1>6, <1>7, <1>8, <1>9, CallPreserves

\* aio_notify.
LEMMA NotifyReadStep ==
  ASSUME IndInv, NEW t \in Threads, NotifyRead(t), UNCHANGED loopVars
  PROVE  IndInv' /\ NoticeKept
<1> DEFINE c == IF dispatching THEN Quiet ELSE [step |-> "set", bh |-> NoBH]
<1>0. TypeOK /\ StackInv BY DEF IndInv
<1>1. /\ call[t].step = "notify" /\ call' = [call EXCEPT ![t] = c]
      /\ UNCHANGED <<first_bh, walking_bh, scheduled, idle, deleted, notifier, revents,
                     io, dispatching, stack>>
  BY DEF NotifyRead, bhVars, fdVars
<1>2. call[t] # Quiet /\ Outside(t) BY <1>1, MidCall DEF Quiet
<1>3. /\ c \in Call /\ c.step \in {"none", "set"} /\ c.bh = NoBH
      /\ ~dispatching => c.step = "set"
  BY DEF Call, Quiet
<1>4. Live' = Live /\ Linked' = Linked BY <1>1, SameLive
<1>5. Scheduled' = Scheduled BY <1>1, <1>4 DEF Scheduled
<1> HIDE DEF c
<1>6. TypeOK'
  <2>1. call' \in [Threads -> Call] BY <1>0, <1>1, <1>3 DEF TypeOK, AioTypeOK
  <2>2. AioTypeOK' BY <1>0, <1>1, <2>1 DEF TypeOK, AioTypeOK
  <2>3. QED BY <1>0, <2>2 DEF TypeOK, loopVars
<1>7. CallTo(t, c) BY <1>1, <1>3 DEF CallTo
<1>8. CallOk(t, c) BY <1>2, <1>3 DEF CallOk, Outside
<1>9. KeepsNotice(t, c) BY <1>3 DEF KeepsNotice, Quiet
<1>10. IndInv' /\ (~dispatching /\ Noted => Noted')
  BY <1>4, <1>5, <1>6, <1>7, <1>8, <1>9, CallPreserves
<1>11. QED BY <1>5, <1>10 DEF NoticeKept

\* The write to the notifier is the notice that was pending.
LEMMA NotifySetStep ==
  ASSUME IndInv, NEW t \in Threads, NotifySet(t), UNCHANGED loopVars
  PROVE  IndInv' /\ NoticeKept
<1>0. TypeOK /\ StackInv BY DEF IndInv
<1>1. /\ call[t].step = "set" /\ call' = [call EXCEPT ![t] = Quiet] /\ notifier' = TRUE
      /\ UNCHANGED <<first_bh, walking_bh, scheduled, idle, deleted, revents, io,
                     dispatching, stack>>
  BY DEF NotifySet, bhVars
<1>2. Quiet \in Call /\ Quiet.step = "none" /\ Quiet.bh = NoBH BY DEF Call, Quiet
<1>3. Live' = Live /\ Linked' = Linked BY <1>1, SameLive
<1>4. Scheduled' = Scheduled BY <1>1, <1>3 DEF Scheduled
<1>5. TypeOK'
  <2>1. call' \in [Threads -> Call] BY <1>0, <1>1, <1>2 DEF TypeOK, AioTypeOK
  <2>2. AioTypeOK' BY <1>0, <1>1, <2>1 DEF TypeOK, AioTypeOK
  <2>3. QED BY <1>0, <2>2 DEF TypeOK, loopVars
<1>6. CallTo(t, Quiet) BY <1>1, <1>2 DEF CallTo
<1>7. CallOk(t, Quiet) BY <1>2 DEF CallOk
<1>8. KeepsNotice(t, Quiet) BY <1>1 DEF KeepsNotice
<1>9. IndInv' /\ (~dispatching /\ Noted => Noted')
  BY <1>3, <1>4, <1>5, <1>6, <1>7, <1>8, CallPreserves
<1>10. QED BY <1>4, <1>9 DEF NoticeKept

-----------------------------------------------------------------------------
(* aio_poll is called, and returns.                                        *)

\* A call that does not walk comes or goes.
LEMMA WalkingSame ==
  ASSUME WalkInv, NEW t \in Threads,
         \A u \in Threads : u # t => stack'[u] = stack[u],
         \A i \in 1 .. MaxDepth :
            /\ (i <= Depth(t)' /\ stack'[t][i].pc \in Walk)
                 <=> (i <= Depth(t) /\ stack[t][i].pc \in Walk)
            /\ i <= Depth(t) /\ i <= Depth(t)' => stack'[t][i] = stack[t][i],
         UNCHANGED <<walking_bh, first_bh>>
  PROVE  WalkInv'
<1>1. Linked' = Linked BY DEF Linked
<1>2. WalkingFrames \subseteq Frames /\ WalkingFrames' \subseteq Frames
  BY DEF WalkingFrames, Frames
<1>3. ASSUME NEW x \in Frames
      PROVE  /\ x \in WalkingFrames' <=> x \in WalkingFrames
             /\ x \in WalkingFrames => stack'[x[1]][x[2]] = stack[x[1]][x[2]]
  <2>1. PICK u \in Threads, i \in 1 .. MaxDepth : x = <<u, i>> BY DEF Frames
  <2>2. x[1] = u /\ x[2] = i BY <2>1
  <2>3. x \in WalkingFrames' <=> i <= Depth(u)' /\ stack'[u][i].pc \in Walk
    BY <2>2 DEF WalkingFrames, Walk, Frames
  <2>4. x \in WalkingFrames <=> i <= Depth(u) /\ stack[u][i].pc \in Walk
    BY <2>2 DEF WalkingFrames, Walk
  <2>5. CASE u # t
    <3>1. stack'[u] = stack[u] /\ Depth(u)' = Depth(u) BY <2>5 DEF Depth
    <3>2. QED BY <2>2, <2>3, <2>4, <3>1
  <2>6. CASE u = t BY <2>2, <2>3, <2>4, <2>6
  <2>7. QED BY <2>5, <2>6
<1>4. WalkingFrames' = WalkingFrames BY <1>2, <1>3
<1>5. \A x \in WalkingFrames : stack'[x[1]][x[2]] = stack[x[1]][x[2]] BY <1>2, <1>3
<1>6. QED BY <1>1, <1>4, <1>5, WalkKept

\* One call more on the stack of t.
Pushed(t, f) ==
  /\ f \in Frame /\ stack' \in [Threads -> Seq(Frame)] /\ Depth(t)' <= MaxDepth
  /\ \A u \in Threads : u # t => stack'[u] = stack[u]
  /\ Depth(t)' = Depth(t) + 1 /\ InPoll(t)'
  /\ \A i \in 1 .. Depth(t) : stack'[t][i] = stack[t][i]
  /\ Top(t)' = f /\ stack'[t][Depth(t) + 1] = f

\* aio_poll pushes a frame.
LEMMA PollIs ==
  ASSUME TypeOK, NEW t \in Threads, NEW b \in BOOLEAN, aio_poll(t, b)
  PROVE  Pushed(t, NewFrame(b))
<1> DEFINE f == NewFrame(b)
           s == stack[t]
           r == Append(s, f)
<1>1. f \in Frame BY Parts DEF NewFrame, Frame, FramePc, Timeout
<1>2. s \in Seq(Frame) /\ Len(s) \in Nat BY StackOf
<1>3. stack \in [Threads -> Seq(Frame)] /\ stack' = [stack EXCEPT ![t] = r]
  BY DEF TypeOK, AioTypeOK, aio_poll
<1> HIDE DEF f, s
<1>4. /\ r \in Seq(Frame) /\ Len(r) = Len(s) + 1 /\ r[Len(s) + 1] = f
      /\ \A i \in 1 .. Len(s) : r[i] = s[i]
  BY <1>1, <1>2, AppendProperties
<1> HIDE DEF r
<1>5. /\ stack' \in [Threads -> Seq(Frame)] /\ stack'[t] = r
      /\ \A u \in Threads : u # t => stack'[u] = stack[u]
  BY <1>3, <1>4
<1>6. Depth(t) = Len(s) /\ Depth(t)' = Len(s) + 1 /\ Top(t)' = f
  BY <1>4, <1>5 DEF Depth, Top, s
<1>7. InPoll(t)'
  <2>1. r # <<>> BY <1>2, <1>4, EmptySeq
  <2>2. QED BY <1>5, <2>1 DEF InPoll
<1>8. Len(s) < MaxDepth /\ MaxDepth \in Nat BY <1>6, AioAssumption DEF aio_poll
<1>9. Depth(t)' <= MaxDepth BY <1>2, <1>6, <1>8
<1>10. QED BY <1>1, <1>4, <1>5, <1>6, <1>7, <1>9 DEF Pushed, f, s


\* What every call of aio_poll preserves.
LEMMA PollKeeps ==
  ASSUME IndInv, NEW t \in Threads, NEW b \in BOOLEAN, aio_poll(t, b), Outside(t),
         bql = t, UNCHANGED loopVars
  PROVE  IndInv'
<1> DEFINE f == NewFrame(b)
<1>0. /\ TypeOK /\ LoopInv /\ StackInv /\ CallInv /\ DispatchInv /\ WalkInv
      /\ Main \in Threads /\ UNCHANGED bql
  BY MainLoopAssumption DEF IndInv, loopVars
<1>1. /\ Pushed(t, f) /\ call[t] = Quiet /\ dispatching' = ~b
      /\ UNCHANGED <<first_bh, walking_bh, scheduled, idle, deleted, notifier, revents>>
      /\ UNCHANGED <<io, call>>
  BY <1>0, PollIs DEF aio_poll, bhVars, fdVars
<1>2. /\ f.pc = "compute" /\ f.was = dispatching /\ f.bh = NoBH
      /\ f.timeout = IF b THEN "none" ELSE "zero"
  BY DEF NewFrame
<1> HIDE DEF f
<1>3. \A u \in Threads : InPoll(u) => u = t BY <1>0 DEF StackInv
<1>4. \A u \in Threads : InPoll(u)' => u = t BY <1>1, <1>3 DEF Pushed, InPoll
<1>5. \A u \in Threads : u # t => Top(u)' = Top(u) /\ Depth(u)' = Depth(u)
  BY <1>1 DEF Pushed, Top, Depth
<1>6. Depth(t) \in Nat /\ Depth(t) = Len(stack[t]) /\ (InPoll(t) <=> Depth(t) > 0)
  BY <1>0, StackOf
<1>7. TypeOK'
  <2>1. stack' \in [Threads -> Seq(Frame)] /\ dispatching' \in BOOLEAN
    BY <1>1 DEF Pushed
  <2>2. AioTypeOK' BY <1>0, <1>1, <2>1 DEF TypeOK, AioTypeOK
  <2>3. QED BY <1>0, <2>2 DEF TypeOK, loopVars
<1>8. LoopInv'
  <2>1. t # Main => (InPoll(Main)' <=> InPoll(Main)) BY <1>0, <1>1 DEF Pushed, InPoll
  <2>2. CASE t # Main BY <1>0, <1>1, <2>1, <2>2, SameLoop
  <2>3. CASE t = Main
    <3>1. InPoll(Main)' BY <1>1, <2>3 DEF Pushed
    <3>2. main \in {"fill", "dispatch"} BY <2>3 DEF Outside
    <3>3. QED BY <1>0, <3>1, <3>2 DEF LoopInv, loopVars
  <2>4. QED BY <2>2, <2>3
<1>9. StackInv'
  <2> SUFFICES ASSUME NEW u \in Threads
               PROVE  (/\ InPoll(u) => bql = u
                       /\ Depth(u) <= MaxDepth
                       /\ \A i \in 1 .. Depth(u) - 1 : stack[u][i].pc \in InStack
                       /\ InPoll(u) /\ call[u] # Quiet => Top(u).pc \in InStack
                       /\ InPoll(u) /\ Top(u).pc \in Early => Top(u).bh = NoBH
                       /\ InPoll(u) /\ Top(u).pc = "compute" => Top(u).timeout # "idle")'
    BY DEF StackInv
  <2>1. CASE u # t
    <3>1. stack'[u] = stack[u] /\ call'[u] = call[u] BY <1>1, <2>1 DEF Pushed
    <3>2. QED BY <1>0, <1>5, <2>1, <3>1 DEF StackInv, InPoll
  <2>2. CASE u = t
    <3>1. /\ InPoll(u)' /\ Depth(u)' <= MaxDepth /\ call'[u] = Quiet /\ Top(u)' = f
          /\ Depth(u)' = Depth(u) + 1
      BY <1>1, <2>2 DEF Pushed
    <3>2. \A i \in 1 .. Depth(u) : stack'[u][i].pc \in InStack
      <4>1. \A i \in 1 .. Depth(u) - 1 : stack[u][i].pc \in InStack BY <1>0 DEF StackInv
      <4>2. Depth(u) > 0 => stack[u][Depth(u)].pc \in InStack
        BY <1>6, <2>2 DEF Outside, Top
      <4>3. ASSUME NEW i \in 1 .. Depth(u) PROVE stack[u][i].pc \in InStack
        <5>1. Depth(u) > 0 /\ (i # Depth(u) => i \in 1 .. Depth(u) - 1) BY <1>6, <2>2
        <5>2. QED BY <4>1, <4>2, <5>1
      <4>4. QED BY <1>1, <2>2, <4>3 DEF Pushed
    <3>3. \A i \in 1 .. Depth(u)' - 1 : stack'[u][i].pc \in InStack
      <4>1. Depth(u)' - 1 = Depth(u) BY <1>6, <2>2, <3>1
      <4>2. QED BY <3>2, <4>1
    <3>4. f.timeout # "idle" BY <1>2
    <3>5. bql' = u BY <1>0, <2>2
    <3>6. QED BY <1>2, <3>1, <3>3, <3>4, <3>5
  <2>3. QED BY <2>1, <2>2
<1>10. CallInv' BY <1>0, <1>1, SameCalls
<1>11. DispatchInv'
  <2>1. InPoll(t)' BY <1>1 DEF Pushed
  <2>2. ~stack'[t][1].was
    <3>1. CASE Depth(t) = 0
      <4>1. \A u \in Threads : ~InPoll(u) BY <1>3, <1>6, <3>1
      <4>2. ~dispatching BY <1>0, <4>1 DEF DispatchInv
      <4>3. stack'[t][1] = f BY <1>1, <3>1 DEF Pushed
      <4>4. QED BY <1>2, <4>2, <4>3
    <3>2. CASE Depth(t) # 0
      <4>1. InPoll(t) /\ 1 \in 1 .. Depth(t) BY <1>6, <3>2
      <4>2. stack'[t][1] = stack[t][1] BY <1>1, <4>1 DEF Pushed
      <4>3. QED BY <1>0, <4>1, <4>2 DEF DispatchInv
    <3>3. QED BY <3>1, <3>2
  <2>3. Sleepy(t)' => ~dispatching'
    <3>1. Top(t)' = f BY <1>1 DEF Pushed
    <3>2. QED BY <1>1, <1>2, <3>1 DEF Sleepy
  <2>4. QED BY <1>4, <2>1, <2>2, <2>3 DEF DispatchInv, Sleepy
<1>12. WakeInv'
  <2>1. Top(t)' = f BY <1>1 DEF Pushed
  <2>2. QED BY <1>2, <1>4, <2>1 DEF WakeInv, Sleepy
<1>13. WalkInv'
  <2>1. ASSUME NEW i \in 1 .. MaxDepth
        PROVE  /\ (i <= Depth(t)' /\ stack'[t][i].pc \in Walk)
                    <=> (i <= Depth(t) /\ stack[t][i].pc \in Walk)
               /\ i <= Depth(t) /\ i <= Depth(t)' => stack'[t][i] = stack[t][i]
    <3>1. /\ i \in Nat /\ i > 0 /\ Depth(t)' = Depth(t) + 1
          /\ stack'[t][Depth(t) + 1] = f /\ f.pc \notin Walk
          /\ \A j \in 1 .. Depth(t) : stack'[t][j] = stack[t][j]
      BY <1>1, <1>2, AioAssumption DEF Pushed, Walk
    <3>2. CASE i <= Depth(t)
      <4>1. i \in 1 .. Depth(t) /\ i <= Depth(t) + 1 BY <1>6, <3>1, <3>2
      <4>2. QED BY <3>1, <3>2, <4>1
    <3>3. CASE ~(i <= Depth(t))
      <4>1. i <= Depth(t) + 1 => i = Depth(t) + 1 BY <1>6, <3>1, <3>3
      <4>2. QED BY <3>1, <3>3, <4>1
    <3>4. QED BY <3>2, <3>3
  <2>2. \A u \in Threads : u # t => stack'[u] = stack[u] BY <1>1 DEF Pushed
  <2>3. QED BY <1>0, <1>1, <2>1, <2>2, WalkingSame
<1>14. GlibInv'
  <2> SUFFICES ASSUME main' = "dispatch"
               PROVE  /\ stack'[Main][1].pc \notin Early
                      /\ Depth(Main)' = 1 => ~dispatching'
                      /\ Depth(Main)' > 1 => ~stack'[Main][2].was
    BY DEF GlibInv
  <2>1. main = "dispatch" /\ InPoll(Main) /\ t = Main
    BY <1>0, <1>3 DEF LoopInv, loopVars
  <2>2. /\ stack[t][1].pc \notin Early /\ (Depth(t) = 1 => ~dispatching)
        /\ Depth(t) > 1 => ~stack[t][2].was
    BY <2>1 DEF IndInv, GlibInv
  <2>3. /\ Depth(t) > 0 /\ Depth(t)' = Depth(t) + 1 /\ stack'[t][Depth(t) + 1] = f
        /\ \A i \in 1 .. Depth(t) : stack'[t][i] = stack[t][i]
    BY <1>1, <1>6, <2>1 DEF Pushed
  <2>4. /\ 1 \in 1 .. Depth(t) /\ Depth(t) + 1 # 1
        /\ Depth(t) = 1 \/ (Depth(t) > 1 /\ 2 \in 1 .. Depth(t))
    <3>1. \A n \in Nat : n > 0 => /\ 1 \in 1 .. n /\ n + 1 # 1
                                  /\ n = 1 \/ (n > 1 /\ 2 \in 1 .. n)
      OBVIOUS
    <3>2. QED BY <1>6, <2>3, <3>1
  <2>5. ~stack'[t][2].was
    <3>1. CASE Depth(t) = 1 BY <1>2, <2>2, <2>3, <3>1
    <3>2. CASE Depth(t) > 1 /\ 2 \in 1 .. Depth(t) BY <2>2, <2>3, <3>2
    <3>3. QED BY <2>4, <3>1, <3>2
  <2>6. stack'[t][1].pc \notin Early BY <2>2, <2>3, <2>4
  <2>7. QED BY <2>1, <2>3, <2>4, <2>5, <2>6
<1>15. QED BY <1>7, <1>8, <1>9, <1>10, <1>11, <1>12, <1>13, <1>14 DEF IndInv

\* A thread in a callback owns the lock.
LEMMA InCallbackIs ==
  ASSUME IndInv, NEW t \in Threads, InCallback(t)
  PROVE  InPoll(t) /\ Outside(t) /\ bql = t
<1>1. InPoll(t) /\ Top(t).pc \in InStack BY DEF InCallback, At, InStack
<1>2. t = Main => main \in {"fill", "dispatch"} BY <1>1 DEF IndInv, LoopInv, TypeOK
<1>3. QED BY <1>1, <1>2 DEF Outside, IndInv, StackInv

\* One call less on the stack of t.
Popped(t) ==
  /\ stack' \in [Threads -> Seq(Frame)]
  /\ \A u \in Threads : u # t => stack'[u] = stack[u]
  /\ Depth(t)' = Depth(t) - 1 /\ (InPoll(t)' <=> Depth(t) > 1)
  /\ \A i \in 1 .. Depth(t) - 1 : stack'[t][i] = stack[t][i]
  /\ Depth(t) > 1 => Top(t)' = stack[t][Depth(t) - 1]

\* The end of aio_poll pops the frame and restores dispatching.
LEMMA PollEndIs ==
  ASSUME TypeOK, NEW t \in Threads, PollEnd(t)
  PROVE  Popped(t)
<1> DEFINE s == stack[t]
           k == Len(s) - 1
           r == SubSeq(s, 1, k)
<1>1. /\ s \in Seq(Frame) /\ Len(s) \in Nat /\ Len(s) > 0 /\ Depth(t) = Len(s)
  BY StackOf, AtIs DEF PollEnd
<1>2. stack \in [Threads -> Seq(Frame)] /\ stack' = [stack EXCEPT ![t] = r]
  BY DEF TypeOK, AioTypeOK, PollEnd, Depth
<1> HIDE DEF s
<1>3. k \in 0 .. Len(s) /\ k \in Nat /\ \A i \in 1 .. k : i \in 1 .. Len(s) BY <1>1
<1>4. r \in Seq(Frame) /\ Len(r) = k /\ \A i \in 1 .. k : r[i] = s[i]
  <2> HIDE DEF k
  <2>1. k <= Len(s) /\ 1 \in 1 .. Len(s) + 1 BY <1>1, <1>3
  <2>2. \A i \in 1 .. k : s[i] \in Frame BY <1>1, <1>3, ElementOfSeq
  <2>3. r = [i \in 1 .. k |-> s[i]]
    BY <1>1, <1>3, <2>1, SMT
  <2>4. QED BY <1>3, <2>2, <2>3
<1> HIDE DEF r
<1>5. /\ stack' \in [Threads -> Seq(Frame)] /\ stack'[t] = r
      /\ \A u \in Threads : u # t => stack'[u] = stack[u]
  BY <1>2, <1>4
<1>6. Depth(t)' = k BY <1>4, <1>5 DEF Depth
<1>7. InPoll(t)' <=> Depth(t) > 1
  <2>1. r # <<>> <=> Len(r) > 0 BY <1>3, <1>4, EmptySeq
  <2>2. k > 0 <=> Len(s) > 1 BY <1>1
  <2>3. QED BY <1>1, <1>4, <1>5, <2>1, <2>2 DEF InPoll
<1>8. Depth(t) > 1 => Top(t)' = s[k]
  <2>1. Len(s) > 1 => k \in 1 .. k BY <1>1
  <2>2. QED BY <1>1, <1>4, <1>5, <1>6, <2>1 DEF Top
<1>9. QED BY <1>1, <1>4, <1>5, <1>6, <1>7, <1>8 DEF Popped, s

\* aio_poll returns, to a callback of an outer call or to whoever called it first:
\* `dispatching' is then what it was before, and clear.
LEMMA PollEndStep ==
  ASSUME IndInv, NEW t \in Threads, AioPollEnd(t) PROVE IndInv'
<1>0. /\ TypeOK /\ LoopInv /\ StackInv /\ CallInv /\ DispatchInv /\ WalkInv
      /\ Main \in Threads /\ UNCHANGED loopVars /\ UNCHANGED bql
      /\ PollEnd(t) /\ (Depth(t) > 1 \/ t # Main \/ main = "fill")
  BY MainLoopAssumption DEF IndInv, AioPollEnd, loopVars
<1>1. /\ InPoll(t) /\ Top(t) \in Frame /\ Top(t).pc = "handlers" /\ call[t] = Quiet
      /\ dispatching' = Top(t).was
      /\ UNCHANGED <<first_bh, walking_bh, scheduled, idle, deleted, notifier, revents>>
      /\ UNCHANGED <<io, call>>
  BY <1>0, AtIs DEF PollEnd, bhVars, fdVars
<1>2. Popped(t) BY <1>0, PollEndIs
<1>3. /\ Depth(t) \in Nat /\ Depth(t) > 0 /\ Depth(t) = Len(stack[t])
      /\ Top(t) = stack[t][Depth(t)] /\ Depth(t) <= MaxDepth
  BY <1>0, <1>1, StackOf DEF StackInv
<1>4. bql = t /\ \A u \in Threads : InPoll(u) => u = t BY <1>0, <1>1, Poller
<1>5. \A u \in Threads : InPoll(u)' => u = t BY <1>2, <1>4 DEF Popped, InPoll
<1>6. InPoll(t)' => Top(t)'.pc \in InStack
  <2>1. ASSUME InPoll(t)' PROVE Top(t)'.pc \in InStack
    <3>1. Depth(t) > 1 /\ Top(t)' = stack[t][Depth(t) - 1] BY <1>2, <2>1 DEF Popped
    <3>2. Depth(t) - 1 \in 1 .. Depth(t) - 1 BY <1>3, <3>1
    <3>3. QED BY <1>0, <3>1, <3>2 DEF StackInv
  <2>2. QED BY <2>1
<1>7. TypeOK'
  <2>1. stack' \in [Threads -> Seq(Frame)] /\ dispatching' \in BOOLEAN
    BY <1>1, <1>2 DEF Popped, Frame
  <2>2. AioTypeOK' BY <1>0, <1>1, <2>1 DEF TypeOK, AioTypeOK
  <2>3. QED BY <1>0, <2>2 DEF TypeOK, loopVars
<1>8. LoopInv'
  <2>1. CASE t # Main
    <3>1. InPoll(Main)' <=> InPoll(Main) BY <1>0, <1>2, <2>1 DEF Popped, InPoll
    <3>2. QED BY <1>0, <1>1, <3>1, SameLoop
  <2>2. CASE Depth(t) > 1 /\ t = Main
    <3>1. InPoll(Main)' <=> InPoll(Main) BY <1>1, <1>2, <2>2 DEF Popped
    <3>2. QED BY <1>0, <1>1, <3>1, SameLoop
  <2>3. CASE main = "fill" BY <1>0, <2>3 DEF LoopInv, loopVars
  <2>4. QED BY <1>0, <2>1, <2>2, <2>3
<1>9. StackInv'
  <2> SUFFICES ASSUME NEW u \in Threads
               PROVE  (/\ InPoll(u) => bql = u
                       /\ Depth(u) <= MaxDepth
                       /\ \A i \in 1 .. Depth(u) - 1 : stack[u][i].pc \in InStack
                       /\ InPoll(u) /\ call[u] # Quiet => Top(u).pc \in InStack
                       /\ InPoll(u) /\ Top(u).pc \in Early => Top(u).bh = NoBH
                       /\ InPoll(u) /\ Top(u).pc = "compute" => Top(u).timeout # "idle")'
    BY DEF StackInv
  <2>1. CASE u # t
    <3>1. stack'[u] = stack[u] /\ call'[u] = call[u] BY <1>1, <1>2, <2>1 DEF Popped
    <3>2. Depth(u)' = Depth(u) /\ Top(u)' = Top(u) /\ (InPoll(u)' <=> InPoll(u))
      BY <3>1 DEF Depth, Top, InPoll
    <3>3. QED BY <1>0, <2>1, <3>1, <3>2 DEF StackInv
  <2>2. CASE u = t
    <3>1. Depth(u)' = Depth(u) - 1 /\ (InPoll(u)' <=> Depth(u) > 1) BY <1>2, <2>2 DEF Popped
    <3>2. Depth(u)' <= MaxDepth BY <1>3, <2>2, <3>1, AioAssumption
    <3>3. \A i \in 1 .. Depth(u)' - 1 : stack'[u][i].pc \in InStack
      <4>1. \A i \in 1 .. (Depth(u) - 1) - 1 : i \in 1 .. Depth(u) - 1 BY <1>3, <2>2
      <4>2. \A i \in 1 .. Depth(u) - 1 : stack'[u][i].pc \in InStack
        BY <1>0, <1>2, <2>2 DEF Popped, StackInv
      <4>3. QED BY <3>1, <4>1, <4>2
    <3>4. bql' = u BY <1>0, <1>4, <2>2
    <3>5. InPoll(u)' => Top(u)'.pc \in InStack BY <1>6, <2>2
    <3>6. QED BY <3>2, <3>3, <3>4, <3>5 DEF InStack, Early
  <2>3. QED BY <2>1, <2>2
<1>10. CallInv' BY <1>0, <1>1, SameCalls
<1>11. WalkInv'
  <2>1. ASSUME NEW i \in 1 .. MaxDepth
        PROVE  /\ (i <= Depth(t)' /\ stack'[t][i].pc \in Walk)
                    <=> (i <= Depth(t) /\ stack[t][i].pc \in Walk)
               /\ i <= Depth(t) /\ i <= Depth(t)' => stack'[t][i] = stack[t][i]
    <3>1. /\ i \in Nat /\ i > 0 /\ Depth(t)' = Depth(t) - 1
          /\ stack[t][Depth(t)].pc \notin Walk
          /\ \A j \in 1 .. Depth(t) - 1 : stack'[t][j] = stack[t][j]
      BY <1>1, <1>2, <1>3, AioAssumption DEF Popped, Walk
    <3>2. CASE i <= Depth(t) - 1
      <4>1. i \in 1 .. Depth(t) - 1 /\ i <= Depth(t) BY <1>3, <3>1, <3>2
      <4>2. QED BY <3>1, <3>2, <4>1
    <3>3. CASE ~(i <= Depth(t) - 1)
      <4>1. i <= Depth(t) => i = Depth(t) BY <1>3, <3>1, <3>3
      <4>2. QED BY <3>1, <3>3, <4>1
    <3>4. QED BY <3>2, <3>3
  <2>2. \A u \in Threads : u # t => stack'[u] = stack[u] BY <1>2 DEF Popped
  <2>3. QED BY <1>0, <1>1, <2>1, <2>2, WalkingSame
<1>12. DispatchInv' /\ WakeInv'
  <2>1. \A u \in Threads : u # t => stack'[u] = stack[u] BY <1>2 DEF Popped
  <2>2. CASE Depth(t) > 1
    <3>1. InPoll(t)' /\ ~Sleepy(t)' BY <1>2, <1>6, <2>2 DEF Popped, Sleepy, InStack
    <3>2. 1 \in 1 .. Depth(t) - 1 BY <1>3, <2>2
    <3>3. stack'[t][1] = stack[t][1] BY <1>2, <3>2 DEF Popped
    <3>4. ~stack'[t][1].was BY <1>0, <1>1, <3>3 DEF DispatchInv
    <3>5. QED BY <1>0, <1>1, <2>1, <3>1, <3>4, AwakeStep
  <2>3. CASE ~(Depth(t) > 1)
    <3>1. \A u \in Threads : ~InPoll(u)' BY <1>2, <1>5, <2>3 DEF Popped
    <3>2. Depth(t) = 1
      <4>1. \A n \in Nat : n > 0 /\ ~(n > 1) => n = 1 OBVIOUS
      <4>2. QED BY <1>3, <2>3, <4>1
    <3>3. ~dispatching' BY <1>0, <1>1, <1>3, <3>2 DEF DispatchInv
    <3>4. QED BY <3>1, <3>3 DEF DispatchInv, WakeInv, Sleepy
  <2>4. QED BY <2>2, <2>3
<1>13. GlibInv'
  <2> SUFFICES ASSUME main' = "dispatch"
               PROVE  /\ stack'[Main][1].pc \notin Early
                      /\ Depth(Main)' = 1 => ~dispatching'
                      /\ Depth(Main)' > 1 => ~stack'[Main][2].was
    BY DEF GlibInv
  <2>1. main = "dispatch" /\ InPoll(Main) /\ t = Main
    BY <1>0, <1>4 DEF LoopInv, loopVars
  <2>2. stack[t][1].pc \notin Early /\ (Depth(t) > 1 => ~stack[t][2].was) /\ Depth(t) > 1
    BY <1>0, <2>1 DEF IndInv, GlibInv
  <2>3. /\ Depth(t)' = Depth(t) - 1
        /\ \A i \in 1 .. Depth(t) - 1 : stack'[t][i] = stack[t][i]
    BY <1>2 DEF Popped
  <2>4. /\ 1 \in 1 .. Depth(t) - 1 /\ (Depth(t) - 1 = 1 => Depth(t) = 2)
        /\ Depth(t) - 1 > 1 => 2 \in 1 .. Depth(t) - 1
    <3>1. \A n \in Nat : n > 1 => /\ 1 \in 1 .. n - 1 /\ (n - 1 = 1 => n = 2)
                                  /\ n - 1 > 1 => 2 \in 1 .. n - 1
      OBVIOUS
    <3>2. QED BY <1>3, <2>2, <3>1
  <2>5. Depth(t)' = 1 => ~dispatching' BY <1>1, <1>3, <2>2, <2>3, <2>4
  <2>6. QED BY <2>1, <2>2, <2>3, <2>4, <2>5
<1>14. QED BY <1>7, <1>8, <1>9, <1>10, <1>11, <1>12, <1>13 DEF IndInv
-----------------------------------------------------------------------------
(* The main loop and the lock.                                             *)

\* The lock changes hands, the main loop goes on, or a descriptor becomes ready.
LEMMA LoopMove ==
  ASSUME IndInv, TypeOK', LoopInv',
         UNCHANGED <<bhVars, notifier, dispatching, stack, call>>,
         main' # "dispatch" \/ main = "dispatch",
         \A u \in Threads : InPoll(u) \/ call[u].step = "mb_set" => bql' = u
  PROVE  IndInv'
<1>0. TypeOK /\ StackInv /\ CallInv /\ DispatchInv /\ GlibInv /\ WakeInv /\ WalkInv
  BY DEF IndInv
<1>1. UNCHANGED <<first_bh, walking_bh, scheduled, idle, deleted, notifier, dispatching>>
  BY DEF bhVars
<1>2. Live' = Live /\ Linked' = Linked BY <1>1, SameLive
<1>3. /\ \A u \in Threads : (InPoll(u)' <=> InPoll(u)) /\ Depth(u)' = Depth(u)
      /\ \A u \in Threads : Top(u)' = Top(u) /\ (Sleepy(u)' <=> Sleepy(u))
  BY DEF InPoll, Depth, Top, Sleepy
<1>4. StackInv' BY <1>0, <1>3 DEF StackInv
<1>5. CallInv' BY <1>0, <1>2 DEF CallInv
<1>6. DispatchInv' BY <1>0, <1>1, <1>3 DEF DispatchInv
<1>7. GlibInv' BY <1>0, <1>1, <1>3, MainLoopAssumption DEF GlibInv
<1>8. WakeInv'
  <2>1. Noted' <=> Noted BY <1>1 DEF Noted, Notifying
  <2>2. Scheduled' = Scheduled BY <1>1, <1>2 DEF Scheduled
  <2>3. QED BY <1>0, <1>3, <2>1, <2>2 DEF WakeInv
<1>9. WalkInv' BY <1>0, <1>1, <1>2, WalkUnchanged
<1>10. QED BY <1>4, <1>5, <1>6, <1>7, <1>8, <1>9 DEF IndInv

\* A thread that is outside, and the lock that is free, leave nobody inside.
LEMMA NobodyInside ==
  ASSUME IndInv, bql \notin Threads \/ (~InPoll(bql) /\ call[bql] = Quiet)
  PROVE  \A u \in Threads : ~InPoll(u) /\ call[u].step # "mb_set"
<1> TAKE u \in Threads
<1>1. InPoll(u) \/ call[u].step = "mb_set" => bql = u BY DEF IndInv, StackInv, CallInv
<1>2. Quiet.step # "mb_set" BY DEF Quiet
<1>3. QED BY <1>1, <1>2

\* The timeout of poll: without one, there is nothing scheduled.
LEMMA FillIs ==
  ASSUME TypeOK, NEW d \in {"zero", "none"}
  PROVE  LET t == SpinLimit(Soonest(aio_compute_timeout, d)) IN
         /\ t \in Timeout
         /\ t = "zero" => ~(spin_counter > MaxSpin)
         /\ t = "none" => Scheduled = {}
<1> DEFINE c == aio_compute_timeout
           m == Soonest(c, d)
<1>1. c \in Timeout /\ (c = "none" => Scheduled = {}) BY DEF aio_compute_timeout, Timeout
<1> HIDE DEF c
<1>2. m \in Timeout /\ (m = "none" => c = "none")
  <2>1. CASE c = "zero" \/ d = "zero" BY <2>1 DEF Soonest, Timeout
  <2>2. CASE ~(c = "zero" \/ d = "zero") /\ (c = "idle" \/ d = "idle")
    BY <2>2 DEF Soonest, Timeout
  <2>3. CASE ~(c = "zero" \/ d = "zero") /\ ~(c = "idle" \/ d = "idle")
    BY <1>1, <2>3 DEF Soonest, Timeout
  <2>4. QED BY <2>1, <2>2, <2>3
<1> HIDE DEF m
<1>3. /\ SpinLimit(m) \in Timeout /\ (SpinLimit(m) = "zero" => ~(spin_counter > MaxSpin))
      /\ SpinLimit(m) = "none" => m = "none"
  BY <1>2 DEF SpinLimit, Timeout
<1>4. QED BY <1>1, <1>2, <1>3 DEF c, m

\* Before poll: the lock is given up if poll may block.
LEMMA FillStep ==
  ASSUME IndInv, NEW d \in {"zero", "none"}, Fill(d)
  PROVE  IndInv' /\ (timeout' = "none" => Scheduled' = {})
<1> DEFINE t == SpinLimit(Soonest(aio_compute_timeout, d))
<1>0. TypeOK /\ LoopInv BY DEF IndInv
<1>1. /\ main = "fill" /\ call[Main] = Quiet /\ ~InPoll(Main) /\ timeout' = t
      /\ ready' = (aio_compute_timeout = "zero") /\ main' = "poll"
      /\ IF timeout' = "zero" THEN UNCHANGED bql /\ spin_counter' = spin_counter + 1
                              ELSE bql' = Nobody /\ spin_counter' = 0
      /\ UNCHANGED <<aioVars, polled>>
  BY DEF Fill
<1>2. /\ t \in Timeout /\ (t = "zero" => ~(spin_counter > MaxSpin))
      /\ t = "none" => Scheduled = {}
  BY <1>0, FillIs
<1> HIDE DEF t
<1>3. bql = Main /\ Main \in Threads /\ Nobody # Main /\ Main \notin Workers
      /\ Nobody \notin Workers
  BY <1>0, <1>1, MainLoopAssumption DEF LoopInv
<1>4. /\ UNCHANGED <<bhVars, fdVars, dispatching, stack, call>>
      /\ UNCHANGED <<first_bh, scheduled, deleted, notifier>>
  BY <1>1 DEF aioVars, bhVars, fdVars
<1>5. TypeOK'
  <2>1. AioTypeOK' BY <1>0, <1>4 DEF TypeOK, AioTypeOK, bhVars, fdVars
  <2>2. spin_counter' \in 0 .. MaxSpin + 1
    BY <1>0, <1>1, <1>2, MainLoopAssumption DEF TypeOK
  <2>3. bql' \in Threads \cup {Nobody} BY <1>1, <1>3
  <2>4. timeout' \in Timeout /\ ready' \in BOOLEAN BY <1>1, <1>2
  <2>5. QED BY <1>0, <1>1, <2>1, <2>2, <2>3, <2>4 DEF TypeOK
<1>6. LoopInv'
  <2>1. InPoll(Main)' <=> InPoll(Main) BY <1>4 DEF InPoll
  <2>2. QED BY <1>1, <1>3, <1>4, <2>1 DEF LoopInv
<1>7. \A u \in Threads : ~InPoll(u) /\ call[u].step # "mb_set" BY <1>1, <1>3, NobodyInside
<1>8. IndInv' BY <1>1, <1>4, <1>5, <1>6, <1>7, LoopMove
<1>9. Scheduled' = Scheduled BY <1>4, SameLive DEF Scheduled
<1>10. QED BY <1>1, <1>2, <1>8, <1>9

\* qemu_poll_ns returns to the main loop.
LEMMA MainPollStep ==
  ASSUME IndInv, MainPoll PROVE IndInv' /\ main' # "poll"
<1>0. TypeOK /\ LoopInv BY DEF IndInv
<1>1. /\ main = "poll" /\ polled' = Ready
      /\ main' = IF timeout = "zero" THEN "check" ELSE "relock"
      /\ UNCHANGED <<bhVars, fdVars, dispatching, stack, call>>
      /\ UNCHANGED <<bql, timeout, ready, spin_counter>>
  BY DEF MainPoll, aioVars
<1>2. TypeOK'
  <2>1. AioTypeOK' BY <1>0, <1>1 DEF TypeOK, AioTypeOK, bhVars, fdVars
  <2>2. polled' \in SUBSET Fds BY <1>1 DEF Ready
  <2>3. QED BY <1>0, <1>1, <2>1, <2>2 DEF TypeOK
<1>3. LoopInv'
  <2>1. InPoll(Main)' <=> InPoll(Main) BY <1>1 DEF InPoll
  <2>2. QED BY <1>0, <1>1, <2>1 DEF LoopInv
<1>4. \A u \in Threads : InPoll(u) \/ call[u].step = "mb_set" => bql' = u
  BY <1>1 DEF IndInv, StackInv, CallInv
<1>5. QED BY <1>1, <1>2, <1>3, <1>4, LoopMove DEF fdVars

\* The main loop takes the lock again.
LEMMA RelockStep ==
  ASSUME IndInv, Relock PROVE IndInv'
<1>0. TypeOK /\ LoopInv BY DEF IndInv
<1>1. /\ main = "relock" /\ bql = Nobody /\ bql' = Main /\ main' = "check"
      /\ UNCHANGED <<bhVars, fdVars, dispatching, stack, call>>
      /\ UNCHANGED <<timeout, ready, polled, spin_counter>>
  BY DEF Relock, aioVars
<1>2. Main \in Threads /\ Nobody \notin Threads /\ Main \notin Workers
  BY MainLoopAssumption
<1>3. TypeOK'
  <2>1. AioTypeOK' BY <1>0, <1>1 DEF TypeOK, AioTypeOK, bhVars, fdVars
  <2>2. QED BY <1>0, <1>1, <1>2, <2>1 DEF TypeOK
<1>4. LoopInv'
  <2>1. InPoll(Main)' <=> InPoll(Main) BY <1>1 DEF InPoll
  <2>2. QED BY <1>0, <1>1, <1>2, <2>1 DEF LoopInv
<1>5. \A u \in Threads : ~InPoll(u) /\ call[u].step # "mb_set" BY <1>1, <1>2, NobodyInside
<1>6. QED BY <1>1, <1>3, <1>4, <1>5, LoopMove DEF fdVars

\* A virtual CPU takes the lock while the main loop does not have it.
LEMMA VcpuLockStep ==
  ASSUME IndInv, NEW v \in VCpus, VcpuLock(v) PROVE IndInv' /\ UNCHANGED <<aioVars, main>>
<1>0. TypeOK /\ LoopInv BY DEF IndInv
<1>1. /\ bql = Nobody /\ bql' = v
      /\ UNCHANGED <<aioVars, bhVars, fdVars, dispatching, stack, call>>
      /\ UNCHANGED <<main, timeout, ready, polled, spin_counter>>
  BY DEF VcpuLock, aioVars
<1>2. /\ v \in Threads /\ v # Main /\ v \notin Workers
      /\ Nobody \notin Threads /\ Main \in Threads
  BY MainLoopAssumption
<1>3. TypeOK'
  <2>1. AioTypeOK' BY <1>0, <1>1 DEF TypeOK, AioTypeOK, bhVars, fdVars
  <2>2. QED BY <1>0, <1>1, <1>2, <2>1 DEF TypeOK
<1>4. LoopInv'
  <2>1. InPoll(Main)' <=> InPoll(Main) BY <1>1 DEF InPoll
  <2>2. bql # Main BY <1>1, <1>2
  <2>3. QED BY <1>0, <1>1, <1>2, <2>1, <2>2 DEF LoopInv
<1>5. \A u \in Threads : ~InPoll(u) /\ call[u].step # "mb_set" BY <1>1, <1>2, NobodyInside
<1>6. QED BY <1>1, <1>3, <1>4, <1>5, LoopMove DEF fdVars

\* A virtual CPU that has left aio_poll lets the lock go.
LEMMA VcpuUnlockStep ==
  ASSUME IndInv, NEW v \in VCpus, VcpuUnlock(v) PROVE IndInv' /\ UNCHANGED <<aioVars, main>>
<1>0. TypeOK /\ LoopInv BY DEF IndInv
<1>1. /\ bql = v /\ bql' = Nobody /\ ~InPoll(v) /\ call[v] = Quiet
      /\ UNCHANGED <<aioVars, bhVars, fdVars, dispatching, stack, call>>
      /\ UNCHANGED <<main, timeout, ready, polled, spin_counter>>
  BY DEF VcpuUnlock, aioVars
<1>2. /\ v \in Threads /\ v # Main /\ Nobody \notin Threads /\ Main \in Threads
      /\ Nobody \notin Workers
  BY MainLoopAssumption
<1>3. TypeOK'
  <2>1. AioTypeOK' BY <1>0, <1>1 DEF TypeOK, AioTypeOK, bhVars, fdVars
  <2>2. QED BY <1>0, <1>1, <1>2, <2>1 DEF TypeOK
<1>4. LoopInv'
  <2>1. InPoll(Main)' <=> InPoll(Main) BY <1>1 DEF InPoll
  <2>2. bql # Main /\ bql' # Main BY <1>1, <1>2
  <2>3. QED BY <1>0, <1>1, <1>2, <2>1, <2>2 DEF LoopInv
<1>5. \A u \in Threads : ~InPoll(u) /\ call[u].step # "mb_set" BY <1>1, <1>2, NobodyInside
<1>6. QED BY <1>1, <1>3, <1>4, <1>5, LoopMove DEF fdVars

\* Nobody polls: there is no walk.
LEMMA NoWalks ==
  ASSUME TypeOK, \A u \in Threads : ~InPoll(u) PROVE WalkingFrames = {}
<1>1. ASSUME NEW x \in WalkingFrames PROVE FALSE
  <2>1. PICK u \in Threads, i \in 1 .. MaxDepth : x = <<u, i>> BY DEF WalkingFrames, Frames
  <2>2. i <= Depth(u) BY <2>1 DEF WalkingFrames
  <2>3. Depth(u) \in Nat /\ ~(Depth(u) > 0) BY StackOf
  <2>4. QED BY <2>1, <2>2, <2>3, AioAssumption
<1>2. QED BY <1>1

\* aio_ctx_dispatch starts its walk: it is the only one.
LEMMA DispatchStep ==
  ASSUME IndInv, glib_pollfds_poll, aio_ctx_check PROVE IndInv'
<1> DEFINE f == [NewFrame(FALSE) EXCEPT !.pc = "bh", !.next = FirstOf(first_bh)]
<1>0. /\ TypeOK /\ LoopInv /\ StackInv /\ CallInv /\ DispatchInv /\ WalkInv
      /\ Main \in Threads
  BY MainLoopAssumption DEF IndInv
<1>1. /\ main = "check" /\ revents' = polled /\ polled' = {} /\ main' = "dispatch"
      /\ walking_bh' = walking_bh + 1
      /\ stack' = [stack EXCEPT ![Main] = <<f>>]
      /\ UNCHANGED <<first_bh, scheduled, idle, deleted, notifier, io, dispatching, call>>
      /\ UNCHANGED <<bql, timeout, ready, spin_counter>>
  BY DEF glib_pollfds_poll
<1>2. bql = Main /\ \A u \in Threads : ~InPoll(u)
  BY <1>0, <1>1 DEF LoopInv, StackInv
<1>3. ~dispatching BY <1>0, <1>2 DEF DispatchInv
<1>4. /\ f \in Frame /\ f.pc = "bh" /\ f.bh = NoBH /\ f.next = FirstOf(first_bh)
      /\ f.was = dispatching
  BY <1>0, FirstIs, Parts DEF NewFrame, Frame, FramePc, Timeout
<1> HIDE DEF f
<1>5. <<f>> \in Seq(Frame) /\ Len(<<f>>) = 1 /\ <<f>>[1] = f /\ <<f>> # <<>> BY <1>4
<1>6. stack \in [Threads -> Seq(Frame)] BY <1>0 DEF TypeOK, AioTypeOK
<1>7. /\ stack' \in [Threads -> Seq(Frame)] /\ stack'[Main] = <<f>>
      /\ \A u \in Threads : u # Main => stack'[u] = stack[u]
  BY <1>0, <1>1, <1>5, <1>6
<1>8. /\ InPoll(Main)' /\ Depth(Main)' = 1 /\ Top(Main)' = f /\ stack'[Main][1] = f
      /\ \A u \in Threads : InPoll(u)' => u = Main
  BY <1>2, <1>5, <1>7 DEF InPoll, Depth, Top
<1>9. TypeOK'
  <2>1. walking_bh' \in Nat /\ revents' \in SUBSET Fds BY <1>0, <1>1, Parts DEF TypeOK
  <2>2. AioTypeOK' BY <1>0, <1>1, <1>7, <2>1 DEF TypeOK, AioTypeOK
  <2>3. QED BY <1>0, <1>1, <2>2 DEF TypeOK
<1>10. LoopInv' BY <1>0, <1>1, <1>2, <1>8 DEF LoopInv
<1>11. StackInv'
  <2> SUFFICES ASSUME NEW u \in Threads
               PROVE  (/\ InPoll(u) => bql = u
                       /\ Depth(u) <= MaxDepth
                       /\ \A i \in 1 .. Depth(u) - 1 : stack[u][i].pc \in InStack
                       /\ InPoll(u) /\ call[u] # Quiet => Top(u).pc \in InStack
                       /\ InPoll(u) /\ Top(u).pc \in Early => Top(u).bh = NoBH
                       /\ InPoll(u) /\ Top(u).pc = "compute" => Top(u).timeout # "idle")'
    BY DEF StackInv
  <2>1. CASE u # Main
    <3>1. Depth(u)' = Depth(u) /\ stack'[u] = stack[u] BY <1>7, <2>1 DEF Depth
    <3>2. QED BY <1>0, <1>8, <2>1, <3>1 DEF StackInv
  <2>2. CASE u = Main
    <3>1. 1 <= MaxDepth /\ \A i \in 1 .. 1 - 1 : FALSE BY AioAssumption
    <3>2. call'[u] = Quiet BY <1>0, <1>1, <2>2 DEF LoopInv
    <3>3. Top(u)'.pc = "bh" BY <1>4, <1>8, <2>2
    <3>4. QED BY <1>1, <1>2, <1>8, <2>2, <3>1, <3>2, <3>3 DEF Early
  <2>3. QED BY <2>1, <2>2
<1>12. CallInv' BY <1>0, <1>1, SameCalls
<1>13. ~Sleepy(Main)' BY <1>4, <1>8 DEF Sleepy
<1>14. DispatchInv' BY <1>1, <1>3, <1>4, <1>8, <1>13 DEF DispatchInv, Sleepy
<1>15. WakeInv' BY <1>8, <1>13 DEF WakeInv, Sleepy
<1>16. GlibInv' BY <1>1, <1>3, <1>4, <1>8 DEF GlibInv, Early
<1>17. WalkInv'
  <2> DEFINE x == <<Main, 1>>
  <2>1. x \in Frames /\ x[1] = Main /\ x[2] = 1 BY <1>0, AioAssumption DEF Frames
  <2>2. x \in WalkingFrames' BY <1>4, <1>8, <2>1 DEF WalkingFrames, Frames
  <2>3. ASSUME NEW y \in WalkingFrames' PROVE y = x
    <3>1. PICK u \in Threads, i \in 1 .. MaxDepth : y = <<u, i>>
      BY DEF WalkingFrames, Frames
    <3>2. i <= Depth(u)' BY <3>1 DEF WalkingFrames
    <3>3. u # Main => Depth(u)' = Depth(u) BY <1>7 DEF Depth
    <3>4. Depth(u) \in Nat /\ ~(Depth(u) > 0) BY <1>0, <1>2, StackOf
    <3>5. u = Main
      <4>1. u # Main => i <= Depth(u) BY <3>2, <3>3
      <4>2. ~(i <= Depth(u)) BY <3>1, <3>4, AioAssumption
      <4>3. QED BY <4>1, <4>2
    <3>6. i = 1 BY <1>8, <3>1, <3>2, <3>5, AioAssumption
    <3>7. QED BY <3>1, <3>5, <3>6
  <2> HIDE DEF x
  <2>4. WalkingFrames' = {x} BY <2>2, <2>3
  <2>5. IsFiniteSet(WalkingFrames') /\ Cardinality(WalkingFrames') = 1
    BY <2>4, FS_Singleton
  <2>6. walking_bh' = 1
    <3>1. WalkingFrames = {} BY <1>0, <1>2, NoWalks
    <3>2. walking_bh = 0 BY <1>0, <3>1, FS_EmptySet DEF WalkInv, NoDanglingBh
    <3>3. QED BY <1>1, <3>2
  <2>7. Linked' = Linked BY <1>1, SameLive
  <2>8. f.next \in Linked' \cup {NoBH} /\ f.bh \in Linked' \cup {NoBH}
    BY <1>0, <1>4, <2>7, FirstIs, Parts
  <2>9. stack'[x[1]][x[2]] = f BY <1>8, <2>1
  <2>10. QED BY <2>4, <2>5, <2>6, <2>8, <2>9 DEF WalkInv, NoDanglingBh
<1>18. QED BY <1>9, <1>10, <1>11, <1>12, <1>14, <1>15, <1>16, <1>17 DEF IndInv

\* aio_ctx_dispatch returns, and leaves nothing behind.
LEMMA DispatchEndStep ==
  ASSUME IndInv, DispatchEnd PROVE IndInv' /\ main' # "poll"
<1>0. /\ TypeOK /\ LoopInv /\ StackInv /\ CallInv /\ DispatchInv /\ GlibInv /\ WalkInv
      /\ Main \in Threads
  BY MainLoopAssumption DEF IndInv
<1>1. /\ main = "dispatch" /\ Depth(Main) = 1 /\ main' = "fill"
      /\ stack' = [stack EXCEPT ![Main] = <<>>]
      /\ UNCHANGED <<first_bh, walking_bh, scheduled, idle, deleted, notifier, revents, io>>
      /\ UNCHANGED <<dispatching, call, bql, timeout, ready, polled, spin_counter>>
  BY DEF DispatchEnd, bhVars, fdVars
<1>2. InPoll(Main) /\ Top(Main).pc = "handlers" /\ call[Main] = Quiet
  BY <1>0, AtIs DEF DispatchEnd
<1>3. bql = Main /\ \A u \in Threads : InPoll(u) => u = Main BY <1>0, <1>2, Poller
<1>4. ~dispatching BY <1>0, <1>1 DEF GlibInv
<1>5. stack \in [Threads -> Seq(Frame)] BY <1>0 DEF TypeOK, AioTypeOK
<1>6. /\ stack' \in [Threads -> Seq(Frame)] /\ stack'[Main] = <<>>
      /\ \A u \in Threads : u # Main => stack'[u] = stack[u]
  <2>1. <<>> \in Seq(Frame) OBVIOUS
  <2>2. QED BY <1>0, <1>1, <1>5, <2>1
<1>7. (\A u \in Threads : ~InPoll(u)') /\ Depth(Main)' = 0
  BY <1>3, <1>6 DEF InPoll, Depth
<1>8. TypeOK'
  <2>1. AioTypeOK' BY <1>0, <1>1, <1>6 DEF TypeOK, AioTypeOK
  <2>2. QED BY <1>0, <1>1, <2>1 DEF TypeOK
<1>9. LoopInv' BY <1>0, <1>1, <1>3 DEF LoopInv
<1>10. StackInv'
  <2> SUFFICES ASSUME NEW u \in Threads
               PROVE  Depth(u)' <= MaxDepth
                      /\ \A i \in 1 .. Depth(u)' - 1 : stack'[u][i].pc \in InStack
    BY <1>7 DEF StackInv
  <2>1. CASE u # Main
    <3>1. Depth(u)' = Depth(u) /\ stack'[u] = stack[u] BY <1>6, <2>1 DEF Depth
    <3>2. QED BY <1>0, <3>1 DEF StackInv
  <2>2. CASE u = Main
    <3>1. 0 <= MaxDepth /\ \A i \in 1 .. 0 - 1 : FALSE BY AioAssumption
    <3>2. QED BY <1>7, <2>2, <3>1
  <2>3. QED BY <2>1, <2>2
<1>11. CallInv' BY <1>0, <1>1, SameCalls
<1>12. DispatchInv' /\ WakeInv' /\ GlibInv'
  BY <1>1, <1>4, <1>7 DEF DispatchInv, WakeInv, Sleepy, GlibInv
<1>13. WalkInv'
  <2>1. ASSUME NEW i \in 1 .. MaxDepth
        PROVE  /\ (i <= Depth(Main)' /\ stack'[Main][i].pc \in Walk)
                    <=> (i <= Depth(Main) /\ stack[Main][i].pc \in Walk)
               /\ i <= Depth(Main) /\ i <= Depth(Main)' => stack'[Main][i] = stack[Main][i]
    <3>1. ~(i <= 0) /\ (i <= 1 => i = 1) BY AioAssumption
    <3>2. stack[Main][1].pc \notin Walk BY <1>1, <1>2 DEF Top, Walk
    <3>3. QED BY <1>1, <1>7, <3>1, <3>2
  <2>2. QED BY <1>0, <1>1, <1>6, <2>1, WalkingSame
<1>14. QED BY <1>1, <1>8, <1>9, <1>10, <1>11, <1>12, <1>13 DEF IndInv

\* g_main_context_check and g_main_context_dispatch.
LEMMA CheckStep ==
  ASSUME IndInv, glib_pollfds_poll PROVE IndInv' /\ main' # "poll"
<1>0. TypeOK /\ LoopInv BY DEF IndInv
<1>1. main' \in {"dispatch", "fill"} BY DEF glib_pollfds_poll
<1>2. CASE aio_ctx_check BY <1>1, <1>2, DispatchStep
<1>3. CASE ~aio_ctx_check
  <2>1. /\ main = "check" /\ main' = "fill" /\ revents' = polled /\ polled' = {}
        /\ UNCHANGED <<first_bh, walking_bh, scheduled, idle, deleted, notifier, io>>
        /\ UNCHANGED <<bhVars, dispatching, stack, call, bql, timeout, ready, spin_counter>>
    BY <1>3 DEF glib_pollfds_poll, bhVars
  <2>2. TypeOK'
    <3>1. AioTypeOK' BY <1>0, <2>1 DEF TypeOK, AioTypeOK
    <3>2. QED BY <1>0, <2>1, <3>1 DEF TypeOK
  <2>3. LoopInv' BY <1>0, <2>1 DEF LoopInv
  <2>4. \A u \in Threads : InPoll(u) \/ call[u].step = "mb_set" => bql' = u
    BY <2>1 DEF IndInv, StackInv, CallInv
  <2>5. QED BY <2>1, <2>2, <2>3, <2>4, LoopMove
<1>4. QED BY <1>2, <1>3

-----------------------------------------------------------------------------
(* The specification of the main loop.                                     *)

\* A descriptor becomes ready, or nothing happens.
LEMMA NothingElse ==
  ASSUME IndInv, io' \in BOOLEAN,
         UNCHANGED <<bhVars, notifier, revents, dispatching, stack, call, loopVars>>
  PROVE  IndInv' /\ NoticeKept
<1>0. TypeOK /\ LoopInv BY DEF IndInv
<1>1. UNCHANGED <<first_bh, walking_bh, scheduled, idle, deleted, bql, main, loopVars>>
  BY DEF bhVars, loopVars
<1>2. TypeOK'
  <2>1. AioTypeOK' BY <1>0, <1>1 DEF TypeOK, AioTypeOK
  <2>2. QED BY <1>0, <2>1 DEF TypeOK, loopVars
<1>3. LoopInv'
  <2>1. InPoll(Main)' <=> InPoll(Main) BY DEF InPoll
  <2>2. QED BY <1>0, <1>1, <2>1, SameLoop
<1>4. \A u \in Threads : InPoll(u) \/ call[u].step = "mb_set" => bql' = u
  BY <1>1 DEF IndInv, StackInv, CallInv
<1>5. IndInv' BY <1>1, <1>2, <1>3, <1>4, LoopMove
<1>6. Noted' <=> Noted BY DEF Noted, Notifying
<1>7. Scheduled' = Scheduled BY <1>1, SameLive DEF Scheduled
<1>8. QED BY <1>5, <1>6, <1>7 DEF NoticeKept

\* What any thread may do at any time.
LEMMA AnyCallStep ==
  ASSUME IndInv, NEW t \in Threads, Outside(t), AnyCall(t), UNCHANGED loopVars
  PROVE  IndInv' /\ NoticeKept
<1>1. PICK b \in BHs : aio_bh_new(t, b) \/ qemu_bh_schedule(t, b) BY DEF AnyCall
<1>2. QED BY <1>1, BhNewStep, ScheduleStep

\* Every call to the API that the owner of the lock may make.
LEMMA OwnerCallStep ==
  ASSUME IndInv, NEW t \in Threads, Outside(t), bql = t, OwnerCall(t), UNCHANGED loopVars
  PROVE  IndInv' /\ NoticeKept
<1>1. PICK b \in BHs : \/ qemu_bh_schedule_idle(t, b)
                       \/ qemu_bh_cancel(t, b)
                       \/ qemu_bh_delete(t, b)
  BY DEF OwnerCall
<1>2. QED BY <1>1, ScheduleIdleStep, CancelStep, DeleteStep

\* The main thread between two iterations.
LEMMA MainCallStep ==
  ASSUME IndInv, MainCall PROVE IndInv'
<1>1. /\ main = "fill" /\ ~InPoll(Main) /\ UNCHANGED loopVars
      /\ AnyCall(Main) \/ OwnerCall(Main) \/ aio_poll(Main, TRUE)
  BY DEF MainCall
<1>2. Main \in Threads BY MainLoopAssumption
<1>3. bql = Main /\ Outside(Main) BY <1>1 DEF IndInv, LoopInv, Outside
<1>4. QED BY <1>1, <1>2, <1>3, AnyCallStep, OwnerCallStep, PollKeeps

\* A virtual CPU that has the lock.
LEMMA VcpuCallStep ==
  ASSUME IndInv, NEW v \in VCpus, VcpuCall(v)
  PROVE  IndInv' /\ (NoticeKept \/ InPoll(v)')
<1>1. /\ bql = v /\ ~InPoll(v) /\ UNCHANGED loopVars
      /\ \/ AnyCall(v)
         \/ \E b \in BHs : \/ qemu_bh_cancel(v, b) \/ qemu_bh_delete(v, b)
                           \/ qemu_bh_schedule_idle(v, b)
         \/ aio_poll(v, TRUE)
  BY DEF VcpuCall
<1>2. v \in Threads /\ v # Main BY MainLoopAssumption
<1>3. Outside(v) BY <1>1, <1>2 DEF Outside
<1>4. CASE AnyCall(v) BY <1>1, <1>2, <1>3, <1>4, AnyCallStep
<1>5. CASE OwnerCall(v) BY <1>1, <1>2, <1>3, <1>5, OwnerCallStep
<1>6. CASE aio_poll(v, TRUE)
  <2>1. IndInv' BY <1>1, <1>2, <1>3, <1>6, PollKeeps
  <2>2. TypeOK BY DEF IndInv
  <2>3. Pushed(v, NewFrame(TRUE)) BY <1>2, <1>6, <2>2, PollIs
  <2>4. QED BY <2>1, <2>3 DEF Pushed
<1>7. QED BY <1>1, <1>4, <1>5, <1>6 DEF OwnerCall

\* A thread without the lock is outside of aio_poll.
LEMMA WorkerCallStep ==
  ASSUME IndInv, NEW w \in Workers, WorkerCall(w) PROVE IndInv' /\ NoticeKept
<1>1. w \in Threads /\ w # Main BY MainLoopAssumption
<1>2. ~InPoll(w) BY <1>1 DEF IndInv, StackInv, LoopInv
<1>3. QED BY <1>1, <1>2, AnyCallStep DEF WorkerCall, Outside

\* Code that aio_poll or aio_dispatch called.
LEMMA CallbackCallStep ==
  ASSUME IndInv, NEW t \in Threads, CallbackCall(t) PROVE IndInv' /\ InPoll(t)
<1>1. /\ InCallback(t) /\ UNCHANGED loopVars
      /\ AnyCall(t) \/ OwnerCall(t) \/ \E b \in BOOLEAN : aio_poll(t, b)
  BY DEF CallbackCall
<1>2. InPoll(t) /\ Outside(t) /\ bql = t BY <1>1, InCallbackIs
<1>3. CASE AnyCall(t) BY <1>1, <1>2, <1>3, AnyCallStep
<1>4. CASE OwnerCall(t) BY <1>1, <1>2, <1>4, OwnerCallStep
<1>5. CASE \E b \in BOOLEAN : aio_poll(t, b)
  <2>1. PICK b \in BOOLEAN : aio_poll(t, b) BY <1>5
  <2>2. QED BY <1>1, <1>2, <2>1, PollKeeps
<1>6. QED BY <1>1, <1>3, <1>4, <1>5

\* What is left of a call: without a notification only if it was an idle one.
LEMMA CallStepStep ==
  ASSUME IndInv, NEW t \in Threads, CallStep(t), UNCHANGED loopVars
  PROVE  IndInv' /\ (NoticeKept \/ call[t].step = "mb_set")
<1>1. CASE ScheduleXchg(t) BY <1>1, XchgStep
<1>2. CASE NotifyRead(t) BY <1>2, NotifyReadStep
<1>3. CASE NotifySet(t) BY <1>3, NotifySetStep
<1>4. CASE ScheduleIdleSet(t) BY <1>4, IdleSetStep DEF ScheduleIdleSet
<1>5. QED BY <1>1, <1>2, <1>3, <1>4 DEF CallStep

\* What aio_poll does by itself.
LEMMA PollStepStep ==
  ASSUME IndInv, NEW t \in Threads, PollStep(t) \/ CallbackReturns(t), UNCHANGED loopVars
  PROVE  IndInv' /\ InPoll(t)
<1>1. InPoll(t)
  BY DEF PollStep, CallbackReturns, PollStart, PollReturn, DispatchStart, BhVisit, BhCall,
         BhEnd, HandleIo, HandleNotifier, BhReturn, IoReturn, At
<1>2. CASE PollStep(t)
  BY <1>1, <1>2, PollStartStep, PollReturnStep, DispatchStartStep, BhVisitStep, BhCallStep,
     BhEndStep, HandleIoStep, HandleNotifierStep DEF PollStep
<1>3. CASE CallbackReturns(t)
  BY <1>1, <1>3, BhReturnStep, IoReturnStep DEF CallbackReturns
<1>4. QED BY <1>1, <1>2, <1>3

\* The invariant holds initially.
LEMMA InitInv == Init => IndInv
<1> SUFFICES ASSUME Init PROVE IndInv OBVIOUS
<1>0. /\ Main \in Threads /\ Main \notin Workers /\ MaxSpin \in Nat
  BY MainLoopAssumption
<1>1. TypeOK
  <2>1. Quiet \in Call BY DEF Quiet, Call
  <2>2. /\ scheduled \in [BHs -> BOOLEAN] /\ idle \in [BHs -> BOOLEAN]
        /\ deleted \in [BHs -> BOOLEAN]
    BY DEF Init, AioInit
  <2>3. /\ stack \in [Threads -> Seq(Frame)] /\ call \in [Threads -> Call]
        /\ first_bh \in Seq(BHs)
    BY <2>1 DEF Init, AioInit
  <2>4. /\ walking_bh \in Nat /\ dispatching \in BOOLEAN /\ notifier \in BOOLEAN
        /\ io \in BOOLEAN /\ revents \in SUBSET Fds
    BY DEF Init, AioInit
  <2>5. AioTypeOK BY <2>2, <2>3, <2>4 DEF AioTypeOK
  <2>6. 0 \in 0 .. MaxSpin + 1 BY <1>0
  <2>7. QED BY <1>0, <2>5, <2>6 DEF TypeOK, Init, Timeout
<1>2. \A t \in Threads : ~InPoll(t) /\ Depth(t) = 0 /\ call[t] = Quiet
  BY DEF Init, AioInit, InPoll, Depth
<1>3. LoopInv BY <1>0 DEF LoopInv, Init
<1>4. StackInv
  <2>1. 0 <= MaxDepth BY AioAssumption
  <2>2. \A i \in 1 .. 0 - 1 : FALSE OBVIOUS
  <2>3. QED BY <1>2, <2>1, <2>2 DEF StackInv
<1>5. CallInv BY <1>2 DEF CallInv, Quiet
<1>6. DispatchInv BY <1>2 DEF DispatchInv, Sleepy, Init, AioInit
<1>7. WakeInv /\ GlibInv BY <1>2 DEF WakeInv, Sleepy, GlibInv, Init
<1>8. WalkInv
  <2>1. WalkingFrames = {} BY <1>1, <1>2, NoWalks
  <2>2. walking_bh = 0 BY DEF Init, AioInit
  <2>3. QED BY <2>1, <2>2, FS_EmptySet DEF WalkInv, NoDanglingBh
<1>9. QED BY <1>1, <1>3, <1>4, <1>5, <1>6, <1>7, <1>8 DEF IndInv

\* The main thread blocks in its own poll, without a timeout.
MainBlocks == main = "poll" /\ timeout = "none"

\* No virtual CPU polls the main context or schedules an idle bottom half.
VcpusKeepOff == \A v \in VCpus : ~InPoll(v) /\ call[v].step # "mb_set"

\* Every step preserves the invariant; one that leaves the main thread blocked
\* takes no wakeup from it, unless a virtual CPU does one of these two things.
LEMMA NextInv ==
  ASSUME IndInv, [Next]_vars
  PROVE  /\ IndInv'
         /\ MainBlocks' /\ VcpusKeepOff /\ VcpusKeepOff'
              => \/ Scheduled' = {}
                 \/ MainBlocks /\ ~dispatching /\ NoticeKept
<1> DEFINE Woken == MainBlocks' /\ VcpusKeepOff /\ VcpusKeepOff'
                      => Scheduled' = {} \/ (MainBlocks /\ ~dispatching /\ NoticeKept)
<1>0. /\ TypeOK /\ LoopInv /\ StackInv /\ DispatchInv /\ Main \in Threads
      /\ VCpus \subseteq Threads /\ Workers \subseteq Threads
  BY MainLoopAssumption DEF IndInv
<1>1. ASSUME MainBlocks, VcpusKeepOff
      PROVE  /\ ~dispatching
             /\ \A u \in Threads : ~InPoll(u) /\ call[u].step # "mb_set"
  <2>1. \A u \in Threads : InPoll(u) \/ call[u].step = "mb_set" => bql = u
    BY DEF IndInv, StackInv, CallInv
  <2>2. bql # Main /\ bql \notin Workers BY <1>0, <1>1 DEF LoopInv, MainBlocks
  <2>3. \A u \in Threads : u = Main \/ u \in VCpus \/ u \in Workers BY MainLoopAssumption
  <2>4. \A u \in Threads : ~InPoll(u) /\ call[u].step # "mb_set"
    BY <1>1, <2>1, <2>2, <2>3 DEF VcpusKeepOff
  <2>5. QED BY <1>0, <2>4 DEF DispatchInv
<1>2. UNCHANGED loopVars => (MainBlocks' <=> MainBlocks) BY DEF MainBlocks, loopVars
<1>3. ASSUME MainStep PROVE IndInv' /\ Woken
  <2>1. ASSUME NEW d \in {"zero", "none"}, Fill(d) PROVE IndInv' /\ Woken
    BY <2>1, FillStep DEF MainBlocks
  <2>2. CASE MainPoll BY <2>2, MainPollStep DEF MainBlocks
  <2>3. CASE Relock BY <2>3, RelockStep DEF MainBlocks, Relock
  <2>4. CASE glib_pollfds_poll BY <2>4, CheckStep DEF MainBlocks
  <2>5. CASE DispatchEnd BY <2>5, DispatchEndStep DEF MainBlocks
  <2>6. QED BY <1>3, <2>1, <2>2, <2>3, <2>4, <2>5 DEF MainStep
<1>4. ASSUME MainCall PROVE IndInv' /\ Woken
  <2>1. IndInv' BY <1>4, MainCallStep
  <2>2. main = "fill" /\ UNCHANGED loopVars BY <1>4 DEF MainCall
  <2>3. QED BY <2>1, <2>2 DEF MainBlocks, loopVars
<1>5. ASSUME NEW t \in Threads, IndInv', UNCHANGED loopVars,
             NoticeKept \/ InPoll(t) \/ call[t].step = "mb_set"
      PROVE  Woken
  BY <1>1, <1>2, <1>5
<1>6. ASSUME NEW t \in Threads, ThreadStep(t) PROVE IndInv' /\ Woken
  <2>1. ASSUME CallStep(t), UNCHANGED loopVars PROVE IndInv' /\ Woken
    <3>1. IndInv' /\ (NoticeKept \/ call[t].step = "mb_set") BY <2>1, CallStepStep
    <3>2. QED BY <1>5, <2>1, <3>1
  <2>2. ASSUME PollStep(t), UNCHANGED loopVars PROVE IndInv' /\ Woken
    <3>1. IndInv' /\ InPoll(t) BY <2>2, PollStepStep
    <3>2. QED BY <1>5, <2>2, <3>1
  <2>3. ASSUME AioPollEnd(t) PROVE IndInv' /\ Woken
    <3>1. IndInv' BY <2>3, PollEndStep
    <3>2. InPoll(t) /\ UNCHANGED loopVars BY <2>3 DEF AioPollEnd, PollEnd, At
    <3>3. QED BY <1>5, <3>1, <3>2
  <2>4. QED BY <1>6, <2>1, <2>2, <2>3 DEF ThreadStep
<1>7. ASSUME NEW t \in Threads, Callback(t) PROVE IndInv' /\ Woken
  <2>1. CallbackReturns(t) /\ UNCHANGED loopVars BY <1>7 DEF Callback
  <2>2. IndInv' /\ InPoll(t) BY <2>1, PollStepStep
  <2>3. QED BY <1>5, <2>1, <2>2
<1>8. ASSUME NEW t \in Threads, CallbackCall(t) PROVE IndInv' /\ Woken
  <2>1. IndInv' /\ InPoll(t) BY <1>8, CallbackCallStep
  <2>2. UNCHANGED loopVars BY <1>8 DEF CallbackCall
  <2>3. QED BY <1>5, <2>1, <2>2
<1>9. ASSUME NEW v \in VCpus, VcpuLock(v) \/ VcpuUnlock(v) PROVE IndInv' /\ Woken
  <2>1. IndInv' /\ UNCHANGED <<aioVars, main>> BY <1>9, VcpuLockStep, VcpuUnlockStep
  <2>2. timeout' = timeout BY <1>9 DEF VcpuLock, VcpuUnlock
  <2>3. MainBlocks' <=> MainBlocks BY <2>1, <2>2 DEF MainBlocks
  <2>4. NoticeKept
    <3>1. UNCHANGED <<first_bh, scheduled, deleted, notifier, call, dispatching>>
      BY <2>1 DEF aioVars, bhVars, fdVars
    <3>2. Noted' <=> Noted BY <3>1 DEF Noted, Notifying
    <3>3. Scheduled' = Scheduled BY <3>1, SameLive DEF Scheduled
    <3>4. QED BY <3>2, <3>3 DEF NoticeKept
  <2>5. QED BY <1>1, <2>1, <2>3, <2>4
<1>10. ASSUME NEW v \in VCpus, VcpuCall(v) PROVE IndInv' /\ Woken
  <2>1. IndInv' /\ (NoticeKept \/ InPoll(v)') BY <1>10, VcpuCallStep
  <2>2. UNCHANGED loopVars BY <1>10 DEF VcpuCall
  <2>3. InPoll(v)' => ~VcpusKeepOff' BY DEF VcpusKeepOff
  <2>4. QED BY <1>1, <1>2, <2>1, <2>2, <2>3
<1>11. ASSUME NEW w \in Workers, WorkerCall(w) PROVE IndInv' /\ Woken
  <2>1. IndInv' /\ NoticeKept /\ w \in Threads BY <1>0, <1>11, WorkerCallStep
  <2>2. UNCHANGED loopVars BY <1>11 DEF WorkerCall
  <2>3. QED BY <1>5, <2>1, <2>2
<1>12. ASSUME IoReady, UNCHANGED loopVars PROVE IndInv' /\ Woken
  <2>1. UNCHANGED <<bhVars, notifier, revents, dispatching, stack, call>> /\ io' \in BOOLEAN
    BY <1>12 DEF IoReady
  <2>2. IndInv' /\ NoticeKept BY <1>12, <2>1, NothingElse
  <2>3. QED BY <1>0, <1>5, <1>12, <2>2
<1>13. ASSUME UNCHANGED vars PROVE IndInv' /\ Woken
  <2>1. /\ UNCHANGED <<bhVars, notifier, revents, dispatching, stack, call, loopVars>>
        /\ io' \in BOOLEAN
    BY <1>0, <1>13 DEF vars, aioVars, fdVars, TypeOK, AioTypeOK
  <2>2. IndInv' /\ NoticeKept BY <2>1, NothingElse
  <2>3. QED BY <1>0, <1>5, <2>1, <2>2
<1> HIDE DEF Woken
<1>14. ASSUME Next PROVE IndInv' /\ Woken
  BY <1>3, <1>4, <1>6, <1>7, <1>8, <1>9, <1>10, <1>11, <1>12, <1>14 DEF Next
<1>15. IndInv' /\ Woken BY <1>13, <1>14
<1>16. QED BY <1>15 DEF Woken

\* Every reachable state satisfies the invariant.
LEMMA Invariance == Spec => []IndInv
<1>1. Init => IndInv BY InitInv
<1>2. IndInv /\ [Next]_vars => IndInv' BY NextInv
<1>3. QED BY <1>1, <1>2, PTL DEF Spec

-----------------------------------------------------------------------------
(* The theorems about the main loop.                                       *)

\* Lines 224-258 of main-loop.c with lines 62-108 of async.c, for any number of
\* threads, bottom halves and nested polls: only the owner of the big lock is in
\* aio_poll or aio_dispatch, the main thread does not keep the lock while poll
\* blocks, and no walk, of whichever thread, holds a bottom half that was freed.
THEOREM MainLoopStaysSafe == Spec => []MainLoopSafe
<1>1. IndInv => MainLoopSafe
  <2> SUFFICES ASSUME IndInv PROVE MainLoopSafe OBVIOUS
  <2>1. TypeOK /\ NoDanglingBh BY DEF IndInv, WalkInv
  <2>2. BqlProtects BY DEF IndInv, BqlProtects, LoopInv, StackInv
  <2>3. QED BY <2>1, <2>2 DEF MainLoopSafe
<1>2. QED BY <1>1, Invariance, PTL

\* Lines 119-134 and 258-277 of async.c with lines 209-254 of aio-posix.c, where
\* the big lock is the only lock: whoever blocks in aio_poll without a timeout
\* while a bottom half is scheduled is about to be woken, although the main
\* loop's own dispatch leaves `dispatching' alone.
THEOREM BigLockWakeupsNotLost == Spec => []NoLostWakeup
<1>1. IndInv => NoLostWakeup
  <2> SUFFICES ASSUME IndInv, NEW t \in Threads, BlockedForever(t), Scheduled # {}
               PROVE  Notifying # {}
    BY DEF NoLostWakeup
  <2>1. InPoll(t) /\ Top(t).pc = "poll" /\ Top(t).timeout = "none"
    BY DEF BlockedForever, At
  <2>2. ~notifier
    <3>1. notifier => "notifier" \in Ready BY DEF Ready, Fds
    <3>2. QED BY <3>1 DEF BlockedForever
  <2>3. QED BY <2>1, <2>2 DEF IndInv, WakeInv, Noted, Sleepy
<1>2. QED BY <1>1, Invariance, PTL

\* The main thread blocks in poll without a timeout while a bottom half is
\* scheduled only if a thread is about to write the notifier.
MainLoopWoken == MainBlocks /\ Ready = {} /\ Scheduled # {} => Notifying # {}

MainWakeInv == MainBlocks /\ Scheduled # {} => Noted

\* Lines 150-188 and 209-243 of main-loop.c with lines 119-134 and 272-288 of
\* async.c: the main loop, which blocks outside of aio_poll and without the lock,
\* loses no wakeup as long as no virtual CPU polls the main context or schedules
\* an idle bottom half; each of the two can keep it asleep.
THEOREM MainLoopIsWoken == Spec /\ []VcpusKeepOff => []MainLoopWoken
<1>1. Init => MainWakeInv BY DEF Init, MainWakeInv, MainBlocks
<1>2. ASSUME IndInv, MainWakeInv, VcpusKeepOff, VcpusKeepOff', [Next]_vars
      PROVE  MainWakeInv'
  <2> SUFFICES ASSUME MainBlocks', Scheduled' # {} PROVE Noted' BY DEF MainWakeInv
  <2>1. MainBlocks /\ ~dispatching /\ NoticeKept BY <1>2, NextInv
  <2>2. QED BY <1>2, <2>1 DEF NoticeKept, MainWakeInv
<1>3. MainWakeInv => MainLoopWoken
  <2>1. notifier => "notifier" \in Ready BY DEF Ready, Fds
  <2>2. QED BY <2>1 DEF MainWakeInv, MainLoopWoken, Noted
<1>4. QED BY <1>1, <1>2, <1>3, Invariance, PTL DEF Spec

-----------------------------------------------------------------------------
(* The plugin: the capture file and the reports of block I/O.              *)

Node == [fname : Files, data : CInt]
Record == [caplen : Int, len : Int, size : Int, bytes : Int]

\* What PluginTypeOK leaves open: the records and the history.
Typed ==
  /\ PluginTypeOK
  /\ pcap \in Seq(Record)
  /\ answered \in SUBSET (Files \X Answers) /\ silent \in SUBSET Files
  /\ last.sector \in Nat

\* What is stored for a number that a lookup program printed.
Stored(a) == ToInt(ToU64(ToInt(a)))

Fits(a) == a \in 0 .. IntLimit - 1

\* A printed number that fits and is not 0 is on the list with its file, and
\* whatever is on the list comes from a printed number or from a silent lookup.
Kept(l, ans, sil) ==
  /\ \A f \in Files, a \in Answers :
       <<f, a>> \in ans /\ Fits(a) /\ a # 0
         => \E i \in DOMAIN l : l[i] = [fname |-> f, data |-> a]
  /\ \A i \in DOMAIN l :
       \/ l[i].fname \in sil
       \/ \E a \in Answers : <<l[i].fname, a>> \in ans /\ l[i].data = Stored(a)

\* While first_file is set there is no list to walk; afterwards the list is
\* what the lookups gave.
ListKept ==
  /\ first_file => list = <<>>
  /\ ~first_file => list # <<>>
  /\ Kept(list, answered, silent)

PluginInv == Typed /\ PcapWellFormed /\ ListKept /\ ReportsExact

\* What InsertAt returns.
LEMMA InsertAtIs ==
  ASSUME NEW S, NEW s \in Seq(S), NEW i \in 1 .. Len(s) + 1, NEW x \in S
  PROVE  /\ InsertAt(s, i, x) \in Seq(S) /\ Len(InsertAt(s, i, x)) = Len(s) + 1
         /\ \A j \in 1 .. i - 1 : InsertAt(s, i, x)[j] = s[j]
         /\ InsertAt(s, i, x)[i] = x
         /\ \A j \in i + 1 .. Len(s) + 1 : InsertAt(s, i, x)[j] = s[j - 1]
<1> DEFINE a == SubSeq(s, 1, i - 1)
           b == SubSeq(s, i, Len(s))
           c == a \o <<x>>
<1>1. a \in Seq(S) /\ Len(a) = i - 1 OBVIOUS
<1>2. b \in Seq(S) /\ Len(b) = Len(s) - i + 1 OBVIOUS
<1>3. \A j \in 1 .. i - 1 : a[j] = s[j] OBVIOUS
<1>4. \A j \in 1 .. Len(s) - i + 1 : b[j] = s[i + j - 1] OBVIOUS
<1>5. InsertAt(s, i, x) = c \o b BY DEF InsertAt
<1>6. Len(s) \in Nat /\ i \in Nat OBVIOUS
<1> HIDE DEF a, b
<1>7. /\ c \in Seq(S) /\ Len(c) = i /\ c[i] = x
      /\ \A j \in 1 .. i - 1 : c[j] = s[j]
  <2>1. <<x>> \in Seq(S) /\ Len(<<x>>) = 1 /\ <<x>>[1] = x OBVIOUS
  <2>2. /\ c \in Seq(S) /\ Len(c) = Len(a) + 1
        /\ \A j \in 1 .. Len(a) + 1 :
             c[j] = IF j <= Len(a) THEN a[j] ELSE <<x>>[j - Len(a)]
    BY <1>1, <2>1, ConcatProperties
  <2>3. Len(c) = i BY <1>1, <1>6, <2>2
  <2>4. c[i] = x
    <3>1. i \in 1 .. Len(a) + 1 /\ ~(i <= Len(a)) /\ i - Len(a) = 1 BY <1>1, <1>6
    <3>2. QED BY <2>1, <2>2, <3>1
  <2>5. ASSUME NEW j \in 1 .. i - 1 PROVE c[j] = s[j]
    <3>1. j \in 1 .. Len(a) + 1 /\ j <= Len(a) BY <1>1, <1>6
    <3>2. QED BY <1>3, <2>2, <3>1
  <2>6. QED BY <2>2, <2>3, <2>4, <2>5
<1> HIDE DEF c
<1>8. /\ c \o b \in Seq(S) /\ Len(c \o b) = i + (Len(s) - i + 1)
      /\ \A j \in 1 .. i + (Len(s) - i + 1) :
           (c \o b)[j] = IF j <= i THEN c[j] ELSE b[j - i]
  <2>1. /\ c \o b \in Seq(S) /\ Len(c \o b) = Len(c) + Len(b)
        /\ \A j \in 1 .. Len(c) + Len(b) :
             (c \o b)[j] = IF j <= Len(c) THEN c[j] ELSE b[j - Len(c)]
    BY <1>2, <1>7, ConcatProperties
  <2>2. QED BY <1>2, <1>7, <2>1
<1>9. i + (Len(s) - i + 1) = Len(s) + 1 BY <1>6
<1>10. ASSUME NEW j \in 1 .. i - 1 PROVE (c \o b)[j] = s[j]
  <2>1. j \in 1 .. i + (Len(s) - i + 1) /\ j <= i BY <1>6
  <2>2. QED BY <1>7, <1>8, <2>1
<1>11. (c \o b)[i] = x
  <2>1. i \in 1 .. i + (Len(s) - i + 1) /\ i <= i BY <1>6
  <2>2. QED BY <1>7, <1>8, <2>1
<1>12. ASSUME NEW j \in i + 1 .. Len(s) + 1 PROVE (c \o b)[j] = s[j - 1]
  <2>1. /\ j \in 1 .. i + (Len(s) - i + 1) /\ ~(j <= i)
        /\ j - i \in 1 .. Len(s) - i + 1 /\ i + (j - i) - 1 = j - 1
    BY <1>6
  <2>2. (c \o b)[j] = b[j - i] BY <1>8, <2>1
  <2>3. b[j - i] = s[i + (j - i) - 1] BY <1>4, <2>1
  <2>4. QED BY <2>1, <2>2, <2>3
<1>13. QED BY <1>5, <1>8, <1>9, <1>10, <1>11, <1>12

\* t has the elements of s and x.
Joined(t, s, x) ==
  \A y : (\E i \in DOMAIN t : t[i] = y) <=> y = x \/ \E i \in DOMAIN s : s[i] = y

\* A node inserted behind the head joins the others, whatever follows the head.
LEMMA InsertedBehindHead ==
  ASSUME NEW S, NEW s \in Seq(S), s # <<>>, NEW x \in S
  PROVE  /\ InsertAt(s, 2, x) \in Seq(S) /\ InsertAt(s, 2, x) # <<>>
         /\ Joined(InsertAt(s, 2, x), s, x)
<1> DEFINE r == InsertAt(s, 2, x)
<1>1. Len(s) \in Nat \ {0} /\ DOMAIN s = 1 .. Len(s)
  BY EmptySeq, LenProperties
<1>2. 2 \in 1 .. Len(s) + 1 BY <1>1
<1>3. /\ r \in Seq(S) /\ Len(r) = Len(s) + 1
      /\ \A j \in 1 .. 2 - 1 : r[j] = s[j]
      /\ r[2] = x
      /\ \A j \in 2 + 1 .. Len(s) + 1 : r[j] = s[j - 1]
  BY <1>2, InsertAtIs
<1> HIDE DEF r
<1>4. DOMAIN r = 1 .. Len(s) + 1 /\ r # <<>> BY <1>1, <1>3, EmptySeq, LenProperties
<1>5. r[1] = s[1] /\ r[2] = x /\ \A j \in 3 .. Len(s) + 1 : r[j] = s[j - 1] BY <1>3
<1>6. ASSUME NEW y
      PROVE  (\E i \in DOMAIN r : r[i] = y) <=> y = x \/ \E i \in DOMAIN s : s[i] = y
  <2>1. ASSUME NEW i \in DOMAIN r, r[i] = y PROVE y = x \/ \E j \in DOMAIN s : s[j] = y
    <3>1. CASE i = 1 BY <1>1, <1>5, <2>1, <3>1
    <3>2. CASE i = 2 BY <1>5, <2>1, <3>2
    <3>3. CASE i \in 3 .. Len(s) + 1
      <4>1. i - 1 \in DOMAIN s BY <1>1, <3>3
      <4>2. QED BY <1>5, <2>1, <3>3, <4>1
    <3>4. QED BY <1>1, <1>4, <3>1, <3>2, <3>3
  <2>2. CASE y = x
    <3>1. 2 \in DOMAIN r BY <1>1, <1>4
    <3>2. QED BY <1>5, <2>2, <3>1
  <2>3. ASSUME NEW i \in DOMAIN s, s[i] = y PROVE \E j \in DOMAIN r : r[j] = y
    <3>1. CASE i = 1
      <4>1. 1 \in DOMAIN r BY <1>1, <1>4
      <4>2. QED BY <1>5, <2>3, <3>1, <4>1
    <3>2. CASE i # 1
      <4>1. i + 1 \in 3 .. Len(s) + 1 /\ i + 1 \in DOMAIN r /\ (i + 1) - 1 = i
        BY <1>1, <1>4, <3>2
      <4>2. r[i + 1] = y BY <1>5, <2>3, <4>1
      <4>3. QED BY <4>1, <4>2
    <3>3. QED BY <3>1, <3>2
  <2>4. QED BY <2>1, <2>2, <2>3
<1>7. Joined(r, s, x) BY <1>6 DEF Joined
<1>8. QED BY <1>3, <1>4, <1>7 DEF r

\* The bytes that follow a header are as many as it says, at most the packet's.
LEMMA RecordFits ==
  ASSUME PDU_bytes \in Int, NEW size \in Nat
  PROVE  /\ Caplen(size) \in Int /\ Written(Caplen(size)) = Caplen(size)
         /\ Caplen(size) <= size
BY DEF Caplen, Written

\* The conversions give values of their types, and leave alone what fits into
\* an int and is not negative.
LEMMA Conversions ==
  /\ \A n \in Int : ToInt(n) \in CInt /\ ToU64(n) \in Int
  /\ \A n \in Int : Fits(n) => ToInt(n) = n /\ ToU64(n) = n /\ Stored(n) = n
<1> USE PluginAssumption
<1>1. ASSUME NEW n \in Int PROVE ToInt(n) \in CInt /\ ToU64(n) \in Int
  BY DEF ToInt, ToU64, CInt
<1>2. ASSUME NEW n \in Int, Fits(n) PROVE ToInt(n) = n /\ ToU64(n) = n
  <2>1. (n + IntLimit) % (2 * IntLimit) = n + IntLimit BY <1>2 DEF Fits
  <2>2. n % U64Mod = n BY <1>2 DEF Fits
  <2>3. QED BY <2>1, <2>2 DEF ToInt, ToU64
<1>3. QED BY <1>1, <1>2 DEF Stored

\* The invariant holds at start-up.
LEMMA PluginInitHolds == PluginInit => PluginInv
<1> SUFFICES ASSUME PluginInit PROVE PluginInv OBVIOUS
<1> USE PluginAssumption DEF PluginInit
<1>1. PluginTypeOK
  <2>1. list \in Seq([fname : Files, data : CInt]) OBVIOUS
  <2>2. Len(pcap) <= MaxRecords OBVIOUS
  <2>3. QED BY <2>1, <2>2 DEF PluginTypeOK
<1>2. Typed
  <2>1. pcap \in Seq(Record) OBVIOUS
  <2>2. QED BY <1>1, <2>1 DEF Typed, NoIo
<1>3. PcapWellFormed BY DEF PcapWellFormed
<1>4. ListKept BY DEF ListKept, Kept
<1>5. ReportsExact BY DEF ReportsExact
<1>6. QED BY <1>2, <1>3, <1>4, <1>5 DEF PluginInv

\* What a step that keeps the list and the capture file must still show.
LEMMA Untouched ==
  ASSUME PluginInv, PluginTypeOK', UNCHANGED <<fileVars, pcap>>, last' = NoIo
  PROVE  PluginInv'
<1>1. Typed' BY DEF PluginInv, Typed, NoIo, fileVars
<1>2. PcapWellFormed' BY DEF PluginInv, PcapWellFormed
<1>3. ListKept' BY DEF PluginInv, ListKept, fileVars
<1>4. ReportsExact' BY DEF ReportsExact, NoIo
<1>5. QED BY <1>1, <1>2, <1>3, <1>4 DEF PluginInv

\* A lookup that gave n inserts a file, or writes the head node, or does nothing.
LEMMA SaveHolds ==
  ASSUME PluginInv, NEW fname \in Files, NEW out \in Answers \cup {NoOutput},
         NEW n \in Atoi(out), Found(fname, out, n),
         last' = NoIo, UNCHANGED <<loaded, cfgVars, pcap, state>>
  PROVE  PluginInv'
<1> DEFINE d == ToInt(ToU64(n))
           x == [fname |-> fname, data |-> d]
<1>0. list \in Seq(Node) /\ Typed /\ ListKept /\ PcapWellFormed
  BY DEF PluginInv, Typed, PluginTypeOK, Node
<1>1. n \in Int /\ d \in CInt /\ x \in Node
  <2>1. n \in Int BY PluginAssumption, Conversions DEF Atoi, CInt
  <2>2. d \in CInt BY <2>1, Conversions
  <2>3. QED BY <2>1, <2>2 DEF Node
<1>2. /\ out = NoOutput => answered' = answered /\ silent' = silent \cup {fname}
      /\ out # NoOutput => /\ answered' = answered \cup {<<fname, out>>}
                           /\ silent' = silent
                           /\ out \in Answers /\ out \in Int
                           /\ d = Stored(out)
  BY PluginAssumption DEF Found, Atoi, Stored
<1>3. saveFile(fname, ToU64(n)) BY DEF Found
\* What is true of every list that has at least the old nodes and, unless 0
\* was found, the new one.
<1>4. ASSUME NEW l \in Seq(Node),
             \A y \in Node : (\E i \in DOMAIN list : list[i] = y)
                               => \E i \in DOMAIN l : l[i] = y,
             d # 0 => \E i \in DOMAIN l : l[i] = x,
             \A i \in DOMAIN l : l[i] = x \/ \E j \in DOMAIN list : l[i] = list[j]
      PROVE  Kept(l, answered', silent')
  <2>1. ASSUME NEW f \in Files, NEW a \in Answers, <<f, a>> \in answered', Fits(a),
               a # 0
        PROVE  \E i \in DOMAIN l : l[i] = [fname |-> f, data |-> a]
    <3>1. a \in CInt /\ [fname |-> f, data |-> a] \in Node
      BY <2>1, PluginAssumption DEF Fits, CInt, Node
    <3>2. CASE <<f, a>> \in answered
      <4>1. \E i \in DOMAIN list : list[i] = [fname |-> f, data |-> a]
        BY <1>0, <2>1, <3>2 DEF ListKept, Kept
      <4>2. QED BY <1>4, <3>1, <4>1
    <3>3. CASE <<f, a>> \notin answered
      <4>1. out # NoOutput /\ f = fname /\ a = out BY <1>2, <2>1, <3>3
      <4>2. d = a BY <1>2, <2>1, <4>1, Conversions
      <4>3. QED BY <1>4, <2>1, <4>1, <4>2
    <3>4. QED BY <3>2, <3>3
  <2>2. ASSUME NEW i \in DOMAIN l
        PROVE  \/ l[i].fname \in silent'
               \/ \E a \in Answers : /\ <<l[i].fname, a>> \in answered'
                                     /\ l[i].data = Stored(a)
    <3>1. CASE l[i] = x
      <4>1. l[i].fname = fname /\ l[i].data = d BY <3>1
      <4>2. QED BY <1>2, <4>1
    <3>2. CASE \E j \in DOMAIN list : l[i] = list[j]
      <4>1. PICK j \in DOMAIN list : l[i] = list[j] BY <3>2
      <4>2. silent \subseteq silent' /\ answered \subseteq answered' BY <1>2
      <4>3. \/ list[j].fname \in silent
            \/ \E a \in Answers : /\ <<list[j].fname, a>> \in answered
                                  /\ list[j].data = Stored(a)
        BY <1>0 DEF ListKept, Kept
      <4>4. QED BY <4>1, <4>2, <4>3
    <3>3. QED BY <1>4, <3>1, <3>2
  <2>3. QED BY <2>1, <2>2 DEF Kept
<1>5. list' \in Seq(Node) /\ ListKept' /\ first_file' \in BOOLEAN
  <2>1. CASE first_file /\ d # 0
    <3>1. list' = <<x>> /\ first_file' = FALSE BY <1>3, <2>1 DEF saveFile
    <3>2. list = <<>> BY <1>0, <2>1 DEF ListKept
    <3> HIDE DEF x
    <3>3. list' \in Seq(Node) /\ DOMAIN list' = {1} /\ list'[1] = x BY <1>1, <3>1
    <3>4. DOMAIN list = {} BY <3>2
    <3>5. Kept(list', answered', silent') BY <1>4, <3>3, <3>4
    <3>6. QED BY <3>1, <3>3, <3>5 DEF ListKept
  <2>2. CASE first_file /\ d = 0
    <3>1. UNCHANGED <<list, first_file>> BY <1>3, <2>2 DEF saveFile
    <3>2. list = <<>> BY <1>0, <2>2 DEF ListKept
    <3>3. DOMAIN list = {} BY <3>2
    <3>4. Kept(list, answered', silent') BY <1>0, <1>4, <2>2, <3>3
    <3>5. QED BY <1>0, <2>2, <3>1, <3>4 DEF ListKept
  <2>3. CASE ~first_file
    <3>1. list' = InsertAt(list, 2, x) /\ first_file' = first_file
      BY <1>3, <2>3 DEF saveFile
    <3>2. list # <<>> BY <1>0, <2>3 DEF ListKept
    <3> HIDE DEF x
    <3>3. list' \in Seq(Node) /\ list' # <<>> /\ Joined(list', list, x)
      BY <1>0, <1>1, <3>1, <3>2, InsertedBehindHead
    <3>4. Kept(list', answered', silent') BY <1>4, <3>3 DEF Joined
    <3>5. first_file' = FALSE BY <1>0, <2>3, <3>1 DEF Typed, PluginTypeOK
    <3>6. QED BY <3>3, <3>4, <3>5 DEF ListKept
  <2>4. QED BY <1>0, <2>1, <2>2, <2>3 DEF Typed, PluginTypeOK
<1>6. answered' \in SUBSET (Files \X Answers) /\ silent' \in SUBSET Files
  BY <1>0, <1>2 DEF Typed
<1>7. Typed'
  BY <1>0, <1>5, <1>6 DEF Typed, PluginTypeOK, Node, cfgVars, NoIo
<1>8. PcapWellFormed' BY <1>0 DEF PcapWellFormed
<1>9. ReportsExact' BY DEF ReportsExact, NoIo
<1>10. QED BY <1>5, <1>7, <1>8, <1>9 DEF PluginInv

\* get_packet appends one record, or none.
LEMMA PacketHolds ==
  ASSUME PluginInv, NEW pkt, NEW size \in Sizes, get_packet(pkt, size)
  PROVE  PluginInv'
<1>1. CASE UNCHANGED pcap
  <2>1. PluginTypeOK'
    BY <1>1 DEF PluginInv, Typed, PluginTypeOK, get_packet, cfgVars, fileVars
  <2>2. QED BY <1>1, <2>1, Untouched DEF get_packet
<1>2. CASE log_packet_pcap(size)
  <2> DEFINE r == [caplen |-> Caplen(size), len |-> size,
                   size |-> size, bytes |-> Written(Caplen(size))]
  <2>1. size \in Nat /\ PDU_bytes \in Int
    BY PluginAssumption DEF PluginInv, Typed, PluginTypeOK
  <2>2. r \in Record /\ r.bytes = r.caplen /\ r.caplen <= r.len /\ r.len = r.size
    <3>1. /\ Caplen(size) \in Int /\ Written(Caplen(size)) = Caplen(size)
          /\ Caplen(size) <= size
      BY <2>1, RecordFits
    <3>2. QED BY <2>1, <3>1 DEF Record
  <2>3. pcap' = Append(pcap, r) BY <1>2 DEF log_packet_pcap
  <2> HIDE DEF r
  <2>4. pcap \in Seq(Record) /\ Len(pcap) < MaxRecords /\ PcapWellFormed
    BY DEF PluginInv, Typed, get_packet
  <2>5. /\ pcap' \in Seq(Record) /\ Len(pcap') = Len(pcap) + 1
        /\ \A i \in 1 .. Len(pcap) : pcap'[i] = pcap[i]
        /\ pcap'[Len(pcap) + 1] = r
    BY <2>2, <2>3, <2>4, AppendProperties
  <2>6. PcapWellFormed'
    <3>1. /\ DOMAIN pcap = 1 .. Len(pcap) /\ DOMAIN pcap' = 1 .. Len(pcap) + 1
          /\ Len(pcap) \in Nat
      BY <2>4, <2>5, LenProperties
    <3>2. QED BY <2>2, <2>4, <2>5, <3>1 DEF PcapWellFormed
  <2>7. Len(pcap') <= MaxRecords
    <3>1. Len(pcap) \in Nat /\ MaxRecords \in Nat BY <2>4, LenProperties, PluginAssumption
    <3>2. QED BY <2>4, <2>5, <3>1
  <2>8. Typed'
    BY <2>5, <2>7 DEF PluginInv, Typed, PluginTypeOK, get_packet, cfgVars, fileVars, NoIo
  <2>9. ListKept' BY DEF PluginInv, ListKept, get_packet, fileVars
  <2>10. ReportsExact' BY DEF ReportsExact, get_packet, NoIo
  <2>11. QED BY <2>6, <2>8, <2>9, <2>10 DEF PluginInv
<1>3. QED BY <1>1, <1>2 DEF get_packet

\* The walk over the list finds the files that were answered with this sector,
\* and others only by an answer that does not fit or by none.
LEMMA BlockIoHolds ==
  ASSUME PluginInv, NEW sector_num \in IoSectors, get_blockio(sector_num)
  PROVE  PluginInv'
<1>0. sector_num \in Nat BY PluginAssumption
<1>1. PluginTypeOK' BY DEF PluginInv, Typed, PluginTypeOK, get_blockio, cfgVars, fileVars
<1>2. Typed' BY <1>0, <1>1 DEF PluginInv, Typed, get_blockio, fileVars
<1>3. PcapWellFormed' BY DEF PluginInv, PcapWellFormed, get_blockio
<1>4. ListKept' BY DEF PluginInv, ListKept, get_blockio, fileVars
<1>5. ReportsExact'
  <2> SUFFICES ASSUME sector_num # 0, NEW f \in Files
        PROVE  /\ sector_num < IntLimit /\ <<f, sector_num>> \in answered
                    => f \in last'.reported
               /\ f \in last'.reported =>
                    \/ <<f, sector_num>> \in answered
                    \/ f \in silent
                    \/ \E a \in Answers : a \notin 0 .. IntLimit - 1
                                          /\ <<f, a>> \in answered
    BY DEF ReportsExact, get_blockio, fileVars
  <2>0. /\ list \in Seq(Node) /\ answered \in SUBSET (Files \X Answers)
        /\ Kept(list, answered, silent)
    BY DEF PluginInv, Typed, PluginTypeOK, ListKept, Node
  <2>1. last'.reported = {n.fname : n \in {m \in ToSet(list) :
                                             ToU64(m.data) = sector_num}}
    BY DEF get_blockio
  <2>2. ToSet(list) = {list[i] : i \in DOMAIN list} BY DEF ToSet
  <2>3. f \in last'.reported
          <=> \E i \in DOMAIN list : list[i].fname = f /\ ToU64(list[i].data) = sector_num
    BY <2>1, <2>2
  <2>4. ASSUME sector_num < IntLimit, <<f, sector_num>> \in answered
        PROVE  f \in last'.reported
    <3>1. sector_num \in Answers /\ Fits(sector_num)
      BY <1>0, <2>0, <2>4, PluginAssumption DEF Fits
    <3>2. PICK i \in DOMAIN list : list[i] = [fname |-> f, data |-> sector_num]
      BY <2>0, <2>4, <3>1 DEF Kept
    <3>3. ToU64(sector_num) = sector_num BY <1>0, <3>1, Conversions
    <3>4. list[i].fname = f /\ ToU64(list[i].data) = sector_num BY <3>2, <3>3
    <3>5. QED BY <2>3, <3>4
  <2>5. ASSUME f \in last'.reported, f \notin silent,
               \A a \in Answers : <<f, a>> \in answered => Fits(a)
        PROVE  <<f, sector_num>> \in answered
    <3>1. PICK i \in DOMAIN list : list[i].fname = f /\ ToU64(list[i].data) = sector_num
      BY <2>3, <2>5
    <3>2. PICK a \in Answers : <<f, a>> \in answered /\ list[i].data = Stored(a)
      BY <2>0, <2>5, <3>1 DEF Kept
    <3>3. a \in Int /\ Fits(a) BY <2>5, <3>2, PluginAssumption
    <3>4. Stored(a) = a /\ ToU64(a) = a BY <3>3, Conversions
    <3>5. QED BY <3>1, <3>2, <3>4
  <2>6. QED BY <2>4, <2>5 DEF Fits
<1>6. QED BY <1>2, <1>3, <1>4, <1>5 DEF PluginInv

\* Every step preserves the invariant.
LEMMA PluginStepHolds == PluginInv /\ [PluginNext]_pluginVars => PluginInv'
<1> SUFFICES ASSUME PluginInv, [PluginNext]_pluginVars PROVE PluginInv' OBVIOUS
<1>0. PluginTypeOK BY DEF PluginInv, Typed
<1>1. ASSUME NEW load_plugin \in BOOLEAN, NEW loadvm \in BOOLEAN, NEW ok \in BOOLEAN,
             Start(load_plugin, loadvm, ok)
      PROVE  PluginInv'
  <2>1. PluginTypeOK' BY <1>0, <1>1 DEF PluginTypeOK, Start, cfgVars, fileVars
  <2>2. QED BY <1>1, <2>1, Untouched DEF Start
<1>2. CASE NullDereference
  <2>1. PluginTypeOK' BY <1>0, <1>2 DEF PluginTypeOK, NullDereference, cfgVars, fileVars
  <2>2. QED BY <1>2, <2>1, Untouched DEF NullDereference
<1>3. ASSUME NEW f \in Fields, NEW v \in Values \cup {Unset}, set_target(f, v)
      PROVE  PluginInv'
  <2>1. PluginTypeOK' BY <1>0, <1>3 DEF PluginTypeOK, set_target, fileVars
  <2>2. QED BY <1>3, <2>1, Untouched DEF set_target
<1>4. ASSUME NEW v \in PduValues, set_PDU_bytes(v) PROVE PluginInv'
  <2>1. PluginTypeOK' BY <1>0, <1>4 DEF PluginTypeOK, set_PDU_bytes, fileVars
  <2>2. QED BY <1>4, <2>1, Untouched DEF set_PDU_bytes
<1>5. CASE reset_plugin_PDU_bytes
  <2>1. PluginTypeOK' BY <1>0, <1>5 DEF PluginTypeOK, reset_plugin_PDU_bytes, fileVars
  <2>2. QED BY <1>5, <2>1, Untouched DEF reset_plugin_PDU_bytes
<1>6. ASSUME NEW x \in Outputs, toggle_plugin(x) PROVE PluginInv'
  <2>1. PluginTypeOK' BY <1>0, <1>6 DEF PluginTypeOK, toggle_plugin, fileVars
  <2>2. QED BY <1>6, <2>1, Untouched DEF toggle_plugin
<1>7. ASSUME NEW sector \in IoSectors, WalkUninitialised(sector) PROVE PluginInv'
  <2>1. /\ PluginTypeOK' /\ PcapWellFormed' /\ ListKept'
        /\ UNCHANGED fileVars /\ UNCHANGED pcap
    BY <1>0, <1>7 DEF PluginInv, PluginTypeOK, PcapWellFormed, ListKept,
                      WalkUninitialised, cfgVars, fileVars
  <2>2. last'.sector \in Nat BY <1>7, PluginAssumption DEF WalkUninitialised, NoIo
  <2>3. Typed' BY <2>1, <2>2 DEF PluginInv, Typed, fileVars
  <2>4. ReportsExact' BY <1>7 DEF ReportsExact, WalkUninitialised, fileVars
  <2>5. QED BY <2>1, <2>3, <2>4 DEF PluginInv
<1>8. CASE UNCHANGED pluginVars
  BY <1>8 DEF PluginInv, Typed, PluginTypeOK, PcapWellFormed, ListKept, ReportsExact,
              pluginVars, cfgVars, fileVars
<1>9. ASSUME NEW fname \in Files, NEW script \in Answers \cup {NoOutput},
             NEW resident \in Answers \cup {NoOutput},
             set_target_file_name(fname, script, resident)
      PROVE  PluginInv'
  <2>1. last' = NoIo /\ UNCHANGED <<loaded, cfgVars, pcap, state>>
    BY <1>9 DEF set_target_file_name
  <2>2. PICK n \in Atoi(script) :
          \/ Found(fname, script, n)
          \/ \E m \in Atoi(resident) : Found(fname, resident, m)
    BY <1>9 DEF set_target_file_name
  <2>3. QED BY <2>1, <2>2, SaveHolds
<1>10. CASE LookupExits
  <2>1. PluginTypeOK' BY <1>0, <1>10 DEF PluginTypeOK, LookupExits, cfgVars, fileVars
  <2>2. QED BY <1>10, <2>1, Untouched DEF LookupExits
<1>11. QED
  BY <1>1, <1>2, <1>3, <1>4, <1>5, <1>6, <1>7, <1>8, <1>9, <1>10, PacketHolds,
     BlockIoHolds
     DEF PluginNext, Terminated

\* The inductive invariant of the plugin's lists, capture file and reports holds always.
THEOREM PluginInvariance == PluginSpec => []PluginInv
<1>1. PluginInit => PluginInv BY PluginInitHolds
<1>2. PluginInv /\ [PluginNext]_pluginVars => PluginInv' BY PluginStepHolds
<1>3. QED BY <1>1, <1>2, PTL DEF PluginSpec

\* Whatever PDU_bytes is set to and whatever packets come, a reader of the
\* capture file finds every record (plugins/main.c:250-269).
THEOREM CaptureReadable == PluginSpec => []PcapWellFormed
<1>1. PluginInv => PcapWellFormed BY DEF PluginInv
<1>2. QED BY <1>1, PluginInvariance, PTL

\* Block I/O is reported for the files whose lookup printed its sector and for no
\* others, for numbers that fit into an int, whatever other lookups gave and
\* however the file list grew (plugins/main.c:402-454, 507-529, 589-607).
THEOREM ReportsAreExact == PluginSpec => []ReportsExact
<1>1. PluginInv => ReportsExact BY DEF PluginInv
<1>2. QED BY <1>1, PluginInvariance, PTL
=============================================================================
