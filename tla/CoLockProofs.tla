---------------------------- MODULE CoLockProofs ----------------------------
(***************************************************************************)
(* Safety of coroutines and their locks, for any number of coroutines and  *)
(* any depth of nested calls: the locks exclude, no hand-over is lost, no  *)
(* coroutine is entered twice, and each is in one list at a time.          *)
(***************************************************************************)
EXTENDS CoLock, TLAPS, FiniteSetTheorems, SequenceTheorems

\* Where the waiters of a queue are.
Loop(q) == CASE q = "mutex" -> {"mutex"}
             [] q = "rw"    -> {"rd", "wr"}
             [] q = "queue" -> {"queue"}
Waits   == {"mutex", "rd", "wr", "queue"}

\* A call of qemu_coroutine_enter whose coroutine has not yielded.
Active(i) == stack[i].ret # "yield"

\* co->caller is set as long as there is such a call, and there is one at most.
Calls ==
  /\ \A i, j \in 1 .. Len(stack) :
       Active(i) /\ Active(j) /\ stack[i].co = stack[j].co => i = j
  /\ \A c \in Coroutines :
       called[c] <=> \E i \in 1 .. Len(stack) : Active(i) /\ stack[i].co = c
  /\ \A i \in 1 .. Len(stack) : stack[i].ret = "terminate" =>
       at[stack[i].co] = "run" /\ holds[stack[i].co] = "none"

\* Who runs has been called, and nobody waits with a lock.
States ==
  \A c \in Coroutines :
    /\ at[c] = "run" => called[c]
    /\ at[c] \in {"none", "io"} => ~called[c]
    /\ at[c] \notin {"run", "io"} => holds[c] = "none"

\* The elements of a list, and that there are no duplicates.
Elems(s) == {s[i] : i \in 1 .. Len(s)}
Inj(s)   == \A i, j \in 1 .. Len(s) : s[i] = s[j] => i = j

\* Whoever is in a list waits, and whoever waits is in a list or has been
\* entered again.
Placed ==
  /\ \A q \in Queues : \A c \in Elems(entries[q]) : ~called[c] /\ at[c] \in Loop(q)
  /\ \A d \in Coroutines : \A c \in Elems(wakeup[d]) : ~called[c] /\ at[c] \in Waits
  /\ \A c \in Coroutines : at[c] \in Waits /\ ~called[c] =>
       \/ \E q \in Queues : c \in Elems(entries[q])
       \/ \E d \in Coroutines : c \in Elems(wakeup[d])

\* Nobody is in two lists, or in one list twice.
Distinct ==
  /\ \A q \in Queues : Inj(entries[q])
  /\ \A d \in Coroutines : Inj(wakeup[d])
  /\ \A d, e \in Coroutines : \A c \in Elems(wakeup[d]) :
       c \in Elems(wakeup[e]) => d = e
  /\ \A q \in Queues, d \in Coroutines : \A c \in Elems(wakeup[d]) :
       c \notin Elems(entries[q])

\* The types of the lists and of the locks.
ListTypes ==
  /\ stack \in Seq(Call)
  /\ called \in [Coroutines -> BOOLEAN]
  /\ wakeup \in [Coroutines -> Seq(Coroutines)]
  /\ entries \in [Queues -> Seq(Coroutines)]
  /\ at \in [Coroutines -> At]
  /\ holds \in [Coroutines -> {"none", "mutex", "rd", "wr"}]
  /\ aborted = FALSE
LockTypes == locked \in BOOLEAN /\ writer \in BOOLEAN /\ reader \in Nat

ListInv == ListTypes /\ Calls /\ States /\ Placed /\ Distinct /\ WokenOnStack

\* The counters of the locks count finite sets of holders.
LockInv == /\ LockTypes /\ Exclusion
           /\ \A l \in {"mutex", "rd", "wr"} : IsFiniteSet(Holders(l))

IndInv == ListInv /\ LockInv /\ HandedOver

-----------------------------------------------------------------------------
(* Sequences.                                                              *)

\* What Append returns.
LEMMA Appended ==
  ASSUME NEW S, NEW s \in Seq(S), NEW x \in S
  PROVE  LET r == Append(s, x)
         IN  /\ r \in Seq(S) /\ Len(r) = Len(s) + 1 /\ r[Len(s) + 1] = x
             /\ \A i \in 1 .. Len(s) : r[i] = s[i]
OBVIOUS

\* What Head and Tail return.
LEMMA TailOf ==
  ASSUME NEW S, NEW s \in Seq(S), s # <<>>
  PROVE  /\ Tail(s) \in Seq(S) /\ Len(Tail(s)) = Len(s) - 1
         /\ \A i \in 1 .. Len(s) - 1 : Tail(s)[i] = s[i + 1]
         /\ Len(s) \in Nat /\ Len(s) > 0 /\ Head(s) = s[1] /\ Head(s) \in S
OBVIOUS

\* What Front and Last return.
LEMMA FrontOf ==
  ASSUME NEW S, NEW s \in Seq(S), s # <<>>
  PROVE  /\ Front(s) \in Seq(S) /\ Len(Front(s)) = Len(s) - 1
         /\ \A i \in 1 .. Len(s) - 1 : Front(s)[i] = s[i]
         /\ Len(s) \in Nat /\ Len(s) > 0
         /\ Last(s) = s[Len(s)] /\ s[Len(s)] \in S
BY DEF Front, Last

\* An element leaves the front of a list.
LEMMA ElemsTail ==
  ASSUME NEW S, NEW s \in Seq(S), NEW r, Inj(s), Len(s) > 0,
         Len(r) = Len(s) - 1, \A i \in 1 .. Len(s) - 1 : r[i] = s[i + 1]
  PROVE  Elems(r) = Elems(s) \ {s[1]} /\ Inj(r) /\ s[1] \in Elems(s)
<1>1. Len(s) \in Nat /\ 1 \in 1 .. Len(s) OBVIOUS
<1>2. \A i, j \in 1 .. Len(s) : s[i] = s[j] => i = j BY DEF Inj
<1>3. Inj(r)
  <2>1. SUFFICES ASSUME NEW i \in 1 .. Len(r), NEW j \in 1 .. Len(r), r[i] = r[j]
                 PROVE  i = j
    BY DEF Inj
  <2>2. i + 1 \in 1 .. Len(s) /\ j + 1 \in 1 .. Len(s) /\ s[i + 1] = s[j + 1]
    BY <1>1, <2>1
  <2>3. i + 1 = j + 1 BY <1>2, <2>2
  <2>4. QED BY <1>1, <2>3
<1>4. ASSUME NEW x \in Elems(r) PROVE x \in Elems(s) \ {s[1]}
  <2>1. PICK i \in 1 .. Len(r) : x = r[i] BY <1>4 DEF Elems
  <2>2. i + 1 \in 1 .. Len(s) /\ x = s[i + 1] /\ i + 1 # 1 BY <1>1, <2>1
  <2>3. QED BY <1>1, <1>2, <2>2 DEF Elems
<1>5. ASSUME NEW x \in Elems(s) \ {s[1]} PROVE x \in Elems(r)
  <2>1. PICK i \in 1 .. Len(s) : x = s[i] BY <1>5 DEF Elems
  <2>2. i # 1 BY <1>5, <2>1
  <2>3. i - 1 \in 1 .. Len(r) /\ r[i - 1] = s[i] BY <1>1, <2>1, <2>2
  <2>4. QED BY <2>1, <2>3 DEF Elems
<1>6. QED BY <1>1, <1>3, <1>4, <1>5 DEF Elems

\* An element is added to the end of a list.
LEMMA ElemsAppend ==
  ASSUME NEW S, NEW s \in Seq(S), NEW r, NEW x, Inj(s), x \notin Elems(s),
         Len(r) = Len(s) + 1, \A i \in 1 .. Len(s) : r[i] = s[i],
         r[Len(s) + 1] = x
  PROVE  Elems(r) = Elems(s) \cup {x} /\ Inj(r)
<1>1. Len(s) \in Nat OBVIOUS
<1>2. \A i, j \in 1 .. Len(s) : s[i] = s[j] => i = j BY DEF Inj
<1>3. \A i \in 1 .. Len(s) : s[i] # x BY DEF Elems
<1>4. Inj(r) BY <1>1, <1>2, <1>3 DEF Inj
<1>5. QED BY <1>1, <1>4 DEF Elems

\* The first k elements of e move to the end of s: s becomes w, and e becomes r.
Moves(s, e, k, w, r) ==
  /\ k \in 0 .. Len(e)
  /\ Len(w) = Len(s) + k
  /\ \A i \in 1 .. Len(s) : w[i] = s[i]
  /\ \A i \in 1 .. k : w[Len(s) + i] = e[i]
  /\ Len(r) = Len(e) - k
  /\ \A i \in 1 .. Len(e) - k : r[i] = e[k + i]

\* Moving the first k entries of one list behind another keeps both without repetition.
LEMMA ElemsMove ==
  ASSUME NEW S, NEW s \in Seq(S), NEW e \in Seq(S), NEW k, NEW w, NEW r,
         Moves(s, e, k, w, r),
         Inj(s), Inj(e), \A x \in Elems(s) : x \notin Elems(e)
  PROVE  /\ Inj(w) /\ Inj(r)
         /\ Elems(w) = Elems(s) \cup {e[i] : i \in 1 .. k}
         /\ Elems(r) = Elems(e) \ {e[i] : i \in 1 .. k}
         /\ {e[i] : i \in 1 .. k} \subseteq Elems(e)
<1> USE DEF Moves
<1>1. Len(s) \in Nat /\ Len(e) \in Nat /\ k \in Nat /\ k <= Len(e) OBVIOUS
<1>2. /\ \A i, j \in 1 .. Len(s) : s[i] = s[j] => i = j
      /\ \A i, j \in 1 .. Len(e) : e[i] = e[j] => i = j
  BY DEF Inj
<1>3. \A i \in 1 .. Len(s), j \in 1 .. Len(e) : s[i] # e[j] BY DEF Elems
<1>4. \A i \in 1 .. Len(w) : \/ i \in 1 .. Len(s) /\ w[i] = s[i]
                             \/ i - Len(s) \in 1 .. k /\ w[i] = e[i - Len(s)]
  <2>1. TAKE i \in 1 .. Len(w)
  <2>2. CASE i <= Len(s) BY <1>1, <2>2
  <2>3. CASE i > Len(s)
    <3>1. i - Len(s) \in 1 .. k /\ Len(s) + (i - Len(s)) = i BY <1>1, <2>3
    <3>2. QED BY <3>1
  <2>4. QED BY <1>1, <2>2, <2>3
<1>5. Inj(w)
  <2>1. SUFFICES ASSUME NEW i \in 1 .. Len(w), NEW j \in 1 .. Len(w), w[i] = w[j]
                 PROVE  i = j
    BY DEF Inj
  <2>2. CASE i <= Len(s) /\ j <= Len(s) BY <1>1, <1>2, <1>4, <2>1, <2>2
  <2>3. CASE i > Len(s) /\ j > Len(s)
    <3>1. /\ i - Len(s) \in 1 .. Len(e) /\ j - Len(s) \in 1 .. Len(e)
          /\ e[i - Len(s)] = e[j - Len(s)]
      BY <1>1, <1>4, <2>1, <2>3
    <3>2. i - Len(s) = j - Len(s) BY <1>2, <3>1
    <3>3. QED BY <1>1, <3>2
  <2>4. CASE i <= Len(s) /\ j > Len(s)
    <3>1. /\ i \in 1 .. Len(s) /\ j - Len(s) \in 1 .. Len(e)
          /\ w[i] = s[i] /\ w[j] = e[j - Len(s)]
      BY <1>1, <1>4, <2>4
    <3>2. QED BY <1>3, <2>1, <3>1
  <2>5. CASE i > Len(s) /\ j <= Len(s)
    <3>1. w[j] = s[j] /\ w[i] = e[i - Len(s)] /\ i - Len(s) \in 1 .. Len(e)
      BY <1>1, <1>4, <2>5
    <3>2. QED BY <1>1, <1>3, <2>1, <2>5, <3>1
  <2>6. QED BY <1>1, <2>2, <2>3, <2>4, <2>5
<1>6. Inj(r)
  <2>1. SUFFICES ASSUME NEW i \in 1 .. Len(r), NEW j \in 1 .. Len(r), r[i] = r[j]
                 PROVE  i = j
    BY DEF Inj
  <2>2. /\ k + i \in 1 .. Len(e) /\ k + j \in 1 .. Len(e) /\ e[k + i] = e[k + j]
    BY <1>1, <2>1
  <2>3. k + i = k + j BY <1>2, <2>2
  <2>4. QED BY <1>1, <2>3
<1>7. Elems(w) = Elems(s) \cup {e[i] : i \in 1 .. k}
  <2>1. \A x \in Elems(w) : x \in Elems(s) \cup {e[i] : i \in 1 .. k}
    <3>1. TAKE x \in Elems(w)
    <3>2. PICK i \in 1 .. Len(w) : x = w[i] BY DEF Elems
    <3>3. CASE i \in 1 .. Len(s) /\ w[i] = s[i] BY <3>2, <3>3 DEF Elems
    <3>4. CASE i - Len(s) \in 1 .. k /\ w[i] = e[i - Len(s)] BY <3>2, <3>4
    <3>5. QED BY <1>4, <3>3, <3>4
  <2>2. \A x \in Elems(s) : x \in Elems(w)
    <3>1. TAKE x \in Elems(s)
    <3>2. PICK i \in 1 .. Len(s) : x = s[i] BY DEF Elems
    <3>3. i \in 1 .. Len(w) /\ w[i] = x BY <1>1, <3>2
    <3>4. QED BY <3>3 DEF Elems
  <2>3. \A i \in 1 .. k : e[i] \in Elems(w)
    <3>1. TAKE i \in 1 .. k
    <3>2. Len(s) + i \in 1 .. Len(w) /\ w[Len(s) + i] = e[i] BY <1>1
    <3>3. QED BY <3>2 DEF Elems
  <2>4. QED BY <2>1, <2>2, <2>3
<1>8. Elems(r) = Elems(e) \ {e[i] : i \in 1 .. k}
  <2>1. \A x \in Elems(r) : x \in Elems(e) \ {e[i] : i \in 1 .. k}
    <3>1. TAKE x \in Elems(r)
    <3>2. PICK i \in 1 .. Len(r) : x = r[i] BY DEF Elems
    <3>3. k + i \in 1 .. Len(e) /\ x = e[k + i] BY <1>1, <3>2
    <3>4. \A j \in 1 .. k : j \in 1 .. Len(e) /\ j # k + i BY <1>1, <3>2
    <3>5. \A j \in 1 .. k : e[j] # x BY <1>2, <3>3, <3>4
    <3>6. QED BY <3>3, <3>5 DEF Elems
  <2>2. \A x \in Elems(e) \ {e[i] : i \in 1 .. k} : x \in Elems(r)
    <3>1. TAKE x \in Elems(e) \ {e[i] : i \in 1 .. k}
    <3>2. PICK j \in 1 .. Len(e) : x = e[j] BY DEF Elems
    <3>3. j > k BY <1>1, <3>2
    <3>4. j - k \in 1 .. Len(r) /\ k + (j - k) = j BY <1>1, <3>3
    <3>5. r[j - k] = x BY <3>2, <3>4
    <3>6. QED BY <3>4, <3>5 DEF Elems
  <2>3. QED BY <2>1, <2>2
<1>9. {e[i] : i \in 1 .. k} \subseteq Elems(e) BY <1>1 DEF Elems
<1>10. QED BY <1>5, <1>6, <1>7, <1>8, <1>9

-----------------------------------------------------------------------------
(* What steps do to calls and lists.                                       *)

Entered(c) ==
  /\ c \in Coroutines /\ ~called[c] /\ called' = [called EXCEPT ![c] = TRUE]
  /\ stack' \in Seq(Call) /\ Len(stack') = Len(stack) + 1
  /\ \A i \in 1 .. Len(stack) : stack'[i] = stack[i]
  /\ stack'[Len(stack) + 1] = [co |-> c, ret |-> "none"]
  /\ UNCHANGED aborted

\* c runs.
Runs(c) ==
  /\ c \in Coroutines /\ Len(stack) > 0 /\ called[c]
  /\ stack[Len(stack)] = [co |-> c, ret |-> "none"]

LeftWith(c, ret) ==
  /\ Runs(c)
  /\ stack' \in Seq(Call) /\ Len(stack') = Len(stack)
  /\ \A i \in 1 .. Len(stack) - 1 : stack'[i] = stack[i]
  /\ stack'[Len(stack)] = [co |-> c, ret |-> ret]
  /\ called' = IF ret = "yield" THEN [called EXCEPT ![c] = FALSE] ELSE called
  /\ UNCHANGED aborted

\* From the event loop or another coroutine; a new or a waiting coroutine runs.
Starts(c) ==
  /\ at[c] \in {"none", "io"} /\ Entered(c)
  /\ at' = [at EXCEPT ![c] = "run"]
  /\ UNCHANGED <<wakeup, entries, holds>>
Yields(c) ==
  /\ at[c] = "run" /\ LeftWith(c, "yield")
  /\ at' = [at EXCEPT ![c] = "io"]
  /\ UNCHANGED <<wakeup, entries, holds>>
Ends(c) ==
  /\ at[c] = "run" /\ holds[c] = "none" /\ LeftWith(c, "terminate")
  /\ UNCHANGED <<wakeup, entries, at, holds>>
\* The caller of c runs a coroutine that c has woken.
Restarts(c) ==
  /\ Len(stack) > 0 /\ stack[Len(stack)].co = c /\ Len(wakeup[c]) > 0
  /\ Entered(wakeup[c][1])
  /\ wakeup' \in [Coroutines -> Seq(Coroutines)]
  /\ \A d \in Coroutines \ {c} : wakeup'[d] = wakeup[d]
  /\ Len(wakeup'[c]) = Len(wakeup[c]) - 1
  /\ \A i \in 1 .. Len(wakeup[c]) - 1 : wakeup'[c][i] = wakeup[c][i + 1]
  /\ UNCHANGED <<entries, at, holds>>
Returns(c) ==
  /\ Len(stack) > 0 /\ stack[Len(stack)].co = c /\ Len(wakeup[c]) = 0
  /\ stack' \in Seq(Call) /\ Len(stack') = Len(stack) - 1
  /\ \A i \in 1 .. Len(stack) - 1 : stack'[i] = stack[i]
  /\ \/ /\ stack[Len(stack)].ret = "terminate"
        /\ called' = [called EXCEPT ![c] = FALSE]
        /\ at' = [at EXCEPT ![c] = "none"]
     \/ /\ stack[Len(stack)].ret = "yield" /\ UNCHANGED <<called, at>>
  /\ UNCHANGED <<wakeup, entries, holds, aborted>>
BlocksOn(c, q) ==
  /\ LeftWith(c, "yield") /\ holds[c] = "none"
  /\ \E w \in Loop(q) : at' = [at EXCEPT ![c] = w]
  /\ entries' \in [Queues -> Seq(Coroutines)]
  /\ \A p \in Queues \ {q} : entries'[p] = entries[p]
  /\ Len(entries'[q]) = Len(entries[q]) + 1
  /\ \A i \in 1 .. Len(entries[q]) : entries'[q][i] = entries[q][i]
  /\ entries'[q][Len(entries[q]) + 1] = c
  /\ UNCHANGED <<wakeup, holds>>
\* c goes on, perhaps with a lock.
Proceeds(c) ==
  /\ Runs(c) /\ holds[c] = "none" /\ at' = [at EXCEPT ![c] = "run"]
  /\ \E l \in {"none", "mutex", "rd", "wr"} : holds' = [holds EXCEPT ![c] = l]
  /\ UNCHANGED <<stack, called, wakeup, entries, aborted>>
\* c wakes the first k of a queue.
WakesFirst(c, q, k) ==
  /\ Runs(c) /\ at[c] = "run" /\ k \in 0 .. Len(entries[q])
  /\ holds' \in {holds, [holds EXCEPT ![c] = "none"]}
  /\ entries' \in [Queues -> Seq(Coroutines)]
  /\ wakeup' \in [Coroutines -> Seq(Coroutines)]
  /\ \A p \in Queues \ {q} : entries'[p] = entries[p]
  /\ \A d \in Coroutines \ {c} : wakeup'[d] = wakeup[d]
  /\ Moves(wakeup[c], entries[q], k, wakeup'[c], entries'[q])
  /\ UNCHANGED <<stack, called, at, aborted>>
EntersNext ==
  LET q == "queue" IN
  /\ Len(entries[q]) > 0 /\ Entered(entries[q][1])
  /\ entries' \in [Queues -> Seq(Coroutines)]
  /\ \A p \in Queues \ {q} : entries'[p] = entries[p]
  /\ Len(entries'[q]) = Len(entries[q]) - 1
  /\ \A i \in 1 .. Len(entries[q]) - 1 : entries'[q][i] = entries[q][i + 1]
  /\ UNCHANGED <<wakeup, at, holds>>

\* Entering a coroutine that is not entered.
LEMMA EnterEffect ==
  ASSUME ListInv, NEW c \in Coroutines, ~called[c], Enter(c)
  PROVE  Entered(c)
<1>1. stack \in Seq(Call) /\ [co |-> c, ret |-> "none"] \in Call
  BY DEF ListInv, ListTypes, Call
<1>2. /\ called' = [called EXCEPT ![c] = TRUE] /\ UNCHANGED aborted
      /\ stack' = Append(stack, [co |-> c, ret |-> "none"])
  BY DEF Enter
<1>3. QED BY <1>1, <1>2, Appended DEF Entered

\* The running coroutine has been called.
LEMMA SelfRuns ==
  ASSUME ListInv, NEW c \in Coroutines, Self(c)
  PROVE  Runs(c)
<1>1. stack \in Seq(Call) /\ stack # <<>> BY DEF ListInv, ListTypes, Self
<1>2. /\ Len(stack) \in Nat /\ Len(stack) > 0 /\ Top = stack[Len(stack)]
      /\ stack[Len(stack)] \in Call
  BY <1>1, FrontOf DEF Top
<1>3. stack[Len(stack)] = [co |-> c, ret |-> "none"]
  BY <1>2 DEF Self, Call
<1>4. called[c] BY <1>2, <1>3 DEF ListInv, Calls, Active
<1>5. QED BY <1>2, <1>3, <1>4 DEF Runs

\* qemu_coroutine_switch back to the caller: the frame of c learns ret.
LEMMA SwitchEffect ==
  ASSUME ListInv, NEW c \in Coroutines, Self(c),
         NEW ret \in {"yield", "terminate"}, SwitchBack(c, ret)
  PROVE  LeftWith(c, ret)
<1>1. Runs(c) BY SelfRuns
<1>2. /\ stack \in Seq(Call) /\ Len(stack) \in Nat /\ Len(stack) > 0
      /\ stack[Len(stack)] = [co |-> c, ret |-> "none"]
  BY <1>1 DEF ListInv, ListTypes, Runs
<1>3. stack' = [stack EXCEPT ![Len(stack)].ret = ret] BY DEF SwitchBack
<1>4. [stack[Len(stack)] EXCEPT !.ret = ret] = [co |-> c, ret |-> ret] BY <1>2
<1>5. stack' = [stack EXCEPT ![Len(stack)] = [co |-> c, ret |-> ret]]
  BY <1>2, <1>3, <1>4
<1>6. [co |-> c, ret |-> ret] \in Call BY DEF Call
<1>7. /\ stack' \in Seq(Call) /\ Len(stack') = Len(stack)
      /\ \A i \in 1 .. Len(stack) - 1 : stack'[i] = stack[i]
      /\ stack'[Len(stack)] = [co |-> c, ret |-> ret]
  <2> DEFINE v == [co |-> c, ret |-> ret]
  <2> HIDE DEF v
  <2>1. stack' = [stack EXCEPT ![Len(stack)] = v] /\ v \in Call
    BY <1>5, <1>6 DEF v
  <2>2. /\ stack' \in Seq(Call) /\ Len(stack') = Len(stack)
        /\ \A i \in 1 .. Len(stack) - 1 : stack'[i] = stack[i]
        /\ stack'[Len(stack)] = v
    BY <1>2, <2>1
  <2>3. QED BY <2>2 DEF v
<1>8. QED BY <1>1, <1>7 DEF LeftWith, SwitchBack

\* qemu_co_queue_wait from a lock's loop: c joins the queue and yields.
LEMMA BlockEffect ==
  ASSUME ListInv, NEW c \in Coroutines, Self(c), NEW q \in Queues,
         NEW w \in Loop(q), holds[c] = "none", QueueWait(c, q),
         at' = [at EXCEPT ![c] = w], UNCHANGED holds
  PROVE  BlocksOn(c, q)
<1>1. LeftWith(c, "yield") BY SwitchEffect DEF QueueWait
<1>2. entries \in [Queues -> Seq(Coroutines)] BY DEF ListInv, ListTypes
<1>3. entries' = [entries EXCEPT ![q] = Append(@, c)] BY DEF QueueWait
<1>4. /\ entries' \in [Queues -> Seq(Coroutines)]
      /\ \A p \in Queues \ {q} : entries'[p] = entries[p]
      /\ entries'[q] = Append(entries[q], c)
  BY <1>2, <1>3
<1>5. /\ Len(entries'[q]) = Len(entries[q]) + 1
      /\ \A i \in 1 .. Len(entries[q]) : entries'[q][i] = entries[q][i]
      /\ entries'[q][Len(entries[q]) + 1] = c
  BY <1>2, <1>4, Appended
<1>6. QED BY <1>1, <1>4, <1>5 DEF BlocksOn, QueueWait

\* qemu_co_queue_do_restart moves one entry, or all, to the wake-up list of c.
LEMMA RestartEffect ==
  ASSUME ListInv, NEW c \in Coroutines, Self(c), NEW q \in Queues, at[c] = "run",
         NEW single \in BOOLEAN, qemu_co_queue_do_restart(c, q, single),
         holds' \in {holds, [holds EXCEPT ![c] = "none"]},
         UNCHANGED <<stack, called, at, aborted>>
  PROVE  \E k \in 0 .. Len(entries[q]) :
           /\ k = IF single /\ entries[q] # <<>> THEN 1 ELSE Len(entries[q])
           /\ WakesFirst(c, q, k)
<1> DEFINE k == IF single /\ entries[q] # <<>> THEN 1 ELSE Len(entries[q])
           w == wakeup[c] \o SubSeq(entries[q], 1, k)
           r == SubSeq(entries[q], k + 1, Len(entries[q]))
<1>1. Runs(c) BY SelfRuns
<1>2. /\ entries \in [Queues -> Seq(Coroutines)]
      /\ wakeup \in [Coroutines -> Seq(Coroutines)]
  BY DEF ListInv, ListTypes
<1>3. k \in 0 .. Len(entries[q])
  <2>1. entries[q] \in Seq(Coroutines) BY <1>2
  <2>2. Len(entries[q]) \in Nat /\ (entries[q] # <<>> => Len(entries[q]) > 0)
    BY <2>1
  <2>3. QED BY <2>2
<1>4. wakeup' = [wakeup EXCEPT ![c] = w] /\ entries' = [entries EXCEPT ![q] = r]
  BY DEF qemu_co_queue_do_restart
<1> HIDE DEF k
<1>5. /\ w \in Seq(Coroutines) /\ Len(w) = Len(wakeup[c]) + k
      /\ \A i \in 1 .. Len(wakeup[c]) : w[i] = wakeup[c][i]
      /\ \A i \in 1 .. k : w[Len(wakeup[c]) + i] = entries[q][i]
      /\ r \in Seq(Coroutines) /\ Len(r) = Len(entries[q]) - k
      /\ \A i \in 1 .. Len(entries[q]) - k : r[i] = entries[q][k + i]
  <2> DEFINE ws == wakeup[c]
             es == entries[q]
  <2>1. ws \in Seq(Coroutines) /\ es \in Seq(Coroutines) /\ k \in 0 .. Len(es)
    BY <1>2, <1>3
  <2>2. w = ws \o SubSeq(es, 1, k) /\ r = SubSeq(es, k + 1, Len(es)) OBVIOUS
  <2> HIDE DEF w, r, ws, es
  <2>3. /\ SubSeq(es, 1, k) \in Seq(Coroutines) /\ Len(SubSeq(es, 1, k)) = k
        /\ \A i \in 1 .. k : SubSeq(es, 1, k)[i] = es[i]
    BY <2>1
  <2>4. /\ w \in Seq(Coroutines) /\ Len(w) = Len(ws) + k
        /\ \A i \in 1 .. Len(ws) : w[i] = ws[i]
        /\ \A i \in 1 .. k : w[Len(ws) + i] = es[i]
    BY <2>1, <2>2, <2>3
  <2>5. /\ r \in Seq(Coroutines) /\ Len(r) = Len(es) - k
        /\ \A i \in 1 .. Len(es) - k : r[i] = es[k + i]
    BY <2>1, <2>2
  <2>6. QED BY <2>4, <2>5 DEF ws, es
<1> HIDE DEF w, r
<1>6. /\ wakeup' \in [Coroutines -> Seq(Coroutines)] /\ wakeup'[c] = w
      /\ \A d \in Coroutines \ {c} : wakeup'[d] = wakeup[d]
      /\ entries' \in [Queues -> Seq(Coroutines)] /\ entries'[q] = r
      /\ \A p \in Queues \ {q} : entries'[p] = entries[p]
  BY <1>2, <1>4, <1>5
<1>7. WakesFirst(c, q, k)
  BY <1>1, <1>3, <1>5, <1>6 DEF WakesFirst, Moves
<1>8. QED BY <1>3, <1>7 DEF k

\* Every step has one of these effects.
LEMMA Effects ==
  ASSUME ListInv, [Next]_vars
  PROVE  \/ \E c \in Coroutines :
              \/ Starts(c) \/ Yields(c) \/ Ends(c) \/ Restarts(c) \/ Returns(c)
              \/ Proceeds(c)
              \/ \E q \in Queues : BlocksOn(c, q)
              \/ \E q \in Queues : \E k \in 0 .. Len(entries[q]) : WakesFirst(c, q, k)
         \/ EntersNext
         \/ UNCHANGED <<stack, called, wakeup, entries, at, holds, aborted>>
<1>0. /\ stack \in Seq(Call) /\ wakeup \in [Coroutines -> Seq(Coroutines)]
      /\ entries \in [Queues -> Seq(Coroutines)] /\ ~aborted
      /\ at \in [Coroutines -> At]
      /\ holds \in [Coroutines -> {"none", "mutex", "rd", "wr"}]
  BY DEF ListInv, ListTypes
<1>q. \A q \in Queues : entries[q] \in Seq(Coroutines) /\ Len(entries[q]) \in Nat
  BY <1>0
<1>1. CASE qemu_co_queue_run_restart
  <2>1. stack # <<>> /\ wakeup[Top.co] # <<>> BY <1>1 DEF qemu_co_queue_run_restart
  <2>2. /\ Top = stack[Len(stack)] /\ Len(stack) > 0 /\ Top \in Call
    BY <1>0, <2>1, FrontOf DEF Top
  <2> DEFINE c == Top.co
  <2>3. c \in Coroutines /\ wakeup[c] \in Seq(Coroutines) /\ wakeup[c] # <<>>
    BY <1>0, <2>1, <2>2 DEF Call
  <2>4. /\ Head(wakeup[c]) = wakeup[c][1] /\ wakeup[c][1] \in Coroutines
        /\ Tail(wakeup[c]) \in Seq(Coroutines) /\ Len(wakeup[c]) > 0
        /\ Len(wakeup[c]) \in Nat
        /\ Len(Tail(wakeup[c])) = Len(wakeup[c]) - 1
        /\ \A i \in 1 .. Len(wakeup[c]) - 1 : Tail(wakeup[c])[i] = wakeup[c][i + 1]
    BY <2>3, TailOf
  <2> HIDE DEF c
  <2>5. ~called[wakeup[c][1]]
    BY <2>3, <2>4 DEF ListInv, Placed, Elems
  <2>6. Enter(wakeup[c][1]) BY <1>1, <2>4 DEF qemu_co_queue_run_restart, c
  <2>7. Entered(wakeup[c][1]) BY <2>4, <2>5, <2>6, EnterEffect
  <2>8. /\ wakeup' = [wakeup EXCEPT ![c] = Tail(wakeup[c])]
        /\ UNCHANGED <<entries, at, holds>>
    BY <1>1 DEF qemu_co_queue_run_restart, c
  <2>9. stack[Len(stack)].co = c BY <2>2 DEF c
  <2>10. Restarts(c)
    BY <1>0, <2>2, <2>3, <2>4, <2>7, <2>8, <2>9 DEF Restarts
  <2>11. QED BY <2>3, <2>10
<1>2. CASE Return
  <2>1. stack # <<>> BY <1>2 DEF Return
  <2>2. /\ Top = stack[Len(stack)] /\ Len(stack) > 0 /\ Top \in Call
        /\ Front(stack) \in Seq(Call) /\ Len(Front(stack)) = Len(stack) - 1
        /\ \A i \in 1 .. Len(stack) - 1 : Front(stack)[i] = stack[i]
    BY <1>0, <2>1, FrontOf DEF Top
  <2>3. Top.co \in Coroutines BY <2>2 DEF Call
  <2>4. Len(wakeup[Top.co]) = 0 BY <1>2 DEF Return
  <2>5. Returns(Top.co)
    BY <1>2, <2>2, <2>4 DEF Return, Returns
  <2>6. QED BY <2>3, <2>5
<1>3. ASSUME NEW c \in Coroutines, Create(c) \/ IoDone(c) PROVE Starts(c)
  <2>1. at[c] \in {"none", "io"} /\ Enter(c) /\ UNCHANGED <<entries, holds>>
        /\ at' = [at EXCEPT ![c] = "run"]
    BY <1>3 DEF Create, IoDone
  <2>2. ~called[c] BY <2>1 DEF ListInv, States
  <2>3. Entered(c) BY <2>1, <2>2, EnterEffect
  <2>4. UNCHANGED wakeup
    <3>1. CASE IoDone(c) BY <3>1 DEF IoDone
    <3>2. CASE Create(c)
      <4>1. at[c] = "none" /\ wakeup' = [wakeup EXCEPT ![c] = <<>>]
        BY <3>2 DEF Create
      <4>2. wakeup[c] = <<>> BY <4>1 DEF ListInv, WokenOnStack
      <4>3. QED BY <1>0, <4>1, <4>2
    <3>3. QED BY <1>3, <3>1, <3>2
  <2>5. QED BY <2>1, <2>3, <2>4 DEF Starts
<1>4. ASSUME NEW c \in Coroutines, YieldForIo(c) PROVE Yields(c)
  BY <1>4, SwitchEffect DEF YieldForIo, Yields
<1>5. ASSUME NEW c \in Coroutines, Terminate(c) PROVE Ends(c)
  BY <1>5, SwitchEffect DEF Terminate, Ends
<1>6. ASSUME NEW c \in Coroutines, qemu_co_queue_wait(c)
      PROVE  Proceeds(c) \/ BlocksOn(c, "queue")
  <2>1. Self(c) /\ UNCHANGED holds BY <1>6 DEF qemu_co_queue_wait
  <2>2. CASE at[c] = "run"
    <3>1. /\ QueueWait(c, "queue") /\ holds[c] = "none"
          /\ at' = [at EXCEPT ![c] = "queue"]
      BY <1>6, <2>2 DEF qemu_co_queue_wait
    <3>2. "queue" \in Loop("queue") /\ "queue" \in Queues BY DEF Loop, Queues
    <3>3. QED BY <2>1, <3>1, <3>2, BlockEffect
  <2>3. CASE at[c] = "queue"
    <3>1. holds[c] = "none" BY <2>3 DEF ListInv, States
    <3>2. /\ at' = [at EXCEPT ![c] = "run"]
          /\ UNCHANGED <<stack, called, wakeup, entries, aborted>>
      BY <1>6, <2>3 DEF qemu_co_queue_wait
    <3>3. holds' = [holds EXCEPT ![c] = "none"] BY <1>0, <2>1, <3>1
    <3>4. QED BY <2>1, <3>1, <3>2, <3>3, SelfRuns DEF Proceeds
  <2>4. QED BY <1>6, <2>2, <2>3 DEF qemu_co_queue_wait
<1>7. ASSUME NEW c \in Coroutines,
             qemu_co_queue_next(c) \/ qemu_co_queue_restart_all(c)
      PROVE  \E k \in 0 .. Len(entries["queue"]) : WakesFirst(c, "queue", k)
  <2>1. /\ Self(c) /\ at[c] = "run" /\ "queue" \in Queues
        /\ \E single \in BOOLEAN : qemu_co_queue_do_restart(c, "queue", single)
        /\ UNCHANGED <<stack, called, at, holds, aborted>>
    BY <1>7 DEF qemu_co_queue_next, qemu_co_queue_restart_all, Queues
  <2>2. QED BY <2>1, RestartEffect
<1>8. ASSUME NEW c \in Coroutines, NEW where \in Waits, NEW q \in Queues,
             Wants(c, where), Block(c, where, q), where \in Loop(q)
      PROVE  BlocksOn(c, q)
  <2>1. Self(c) /\ holds[c] = "none"
    BY <1>8 DEF Wants, Waits, ListInv, States
  <2>2. QED BY <1>8, <2>1, BlockEffect DEF Block
<1>9. ASSUME NEW c \in Coroutines, NEW where \in Waits,
             NEW l \in {"none", "mutex", "rd", "wr"},
             Wants(c, where), Take(c, l)
      PROVE  Proceeds(c)
  <2>1. Self(c) /\ holds[c] = "none"
    BY <1>9 DEF Wants, Waits, ListInv, States
  <2>2. QED BY <1>9, <2>1, SelfRuns DEF Proceeds, Take
<1>10. ASSUME NEW c \in Coroutines,
              \/ qemu_co_mutex_lock(c) \/ qemu_co_rwlock_rdlock(c)
              \/ qemu_co_rwlock_wrlock(c)
       PROVE  Proceeds(c) \/ \E q \in Queues : BlocksOn(c, q)
  <2>1. /\ "mutex" \in Queues /\ "mutex" \in Loop("mutex")
        /\ "rw" \in Queues /\ "rd" \in Loop("rw") /\ "wr" \in Loop("rw")
        /\ {"mutex", "rd", "wr"} \subseteq Waits
    BY DEF Queues, Loop, Waits
  <2>2. CASE qemu_co_mutex_lock(c)
    BY <1>8, <1>9, <2>1, <2>2 DEF qemu_co_mutex_lock
  <2>3. CASE qemu_co_rwlock_rdlock(c)
    BY <1>8, <1>9, <2>1, <2>3 DEF qemu_co_rwlock_rdlock
  <2>4. CASE qemu_co_rwlock_wrlock(c)
    BY <1>8, <1>9, <2>1, <2>4 DEF qemu_co_rwlock_wrlock
  <2>5. QED BY <1>10, <2>2, <2>3, <2>4
<1>11. ASSUME NEW c \in Coroutines,
              qemu_co_mutex_unlock(c) \/ qemu_co_rwlock_unlock(c)
       PROVE  \E q \in Queues : \E k \in 0 .. Len(entries[q]) : WakesFirst(c, q, k)
  <2>1. /\ Self(c) /\ at[c] = "run" /\ holds' = [holds EXCEPT ![c] = "none"]
        /\ UNCHANGED <<stack, called, at, aborted>>
    BY <1>11 DEF qemu_co_mutex_unlock, qemu_co_rwlock_unlock
  <2>2. \/ \E q \in Queues : \E single \in BOOLEAN :
             qemu_co_queue_do_restart(c, q, single)
        \/ UNCHANGED <<wakeup, entries>>
    BY <1>11 DEF qemu_co_mutex_unlock, qemu_co_rwlock_unlock, Queues
  <2>3. CASE \E q \in Queues : \E single \in BOOLEAN :
               qemu_co_queue_do_restart(c, q, single)
    <3>1. PICK q \in Queues : \E single \in BOOLEAN :
                 qemu_co_queue_do_restart(c, q, single)
      BY <2>3
    <3>2. QED BY <2>1, <3>1, RestartEffect
  <2>4. CASE UNCHANGED <<wakeup, entries>>
    <3>1. "rw" \in Queues BY DEF Queues
    <3>2. WakesFirst(c, "rw", 0)
      BY <1>0, <1>q, <2>1, <2>4, <3>1, SelfRuns DEF WakesFirst, Moves
    <3>3. QED BY <3>1, <3>2 DEF WakesFirst
  <2>5. QED BY <2>2, <2>3, <2>4
<1>12. CASE qemu_co_enter_next
  <2>1. /\ "queue" \in Queues /\ entries["queue"] # <<>>
        /\ entries["queue"] \in Seq(Coroutines)
    BY <1>0, <1>12 DEF qemu_co_enter_next, Queues
  <2> DEFINE e == entries["queue"]
  <2>2. /\ Head(e) = e[1] /\ e[1] \in Coroutines /\ Tail(e) \in Seq(Coroutines)
        /\ Len(e) > 0 /\ Len(e) \in Nat /\ Len(Tail(e)) = Len(e) - 1
        /\ \A i \in 1 .. Len(e) - 1 : Tail(e)[i] = e[i + 1]
    BY <2>1, TailOf
  <2>3. ~called[e[1]] BY <2>1, <2>2 DEF ListInv, Placed, Elems
  <2>4. Entered(e[1]) BY <1>12, <2>2, <2>3, EnterEffect DEF qemu_co_enter_next
  <2>5. /\ entries' = [entries EXCEPT !["queue"] = Tail(entries["queue"])]
        /\ UNCHANGED <<wakeup, at, holds>>
    BY <1>12 DEF qemu_co_enter_next
  <2>6. QED BY <1>0, <2>1, <2>2, <2>4, <2>5 DEF EntersNext
<1>13. CASE UNCHANGED vars BY <1>13 DEF vars
<1>14. "queue" \in Queues BY DEF Queues
<1>15. QED
  BY <1>1, <1>2, <1>3, <1>4, <1>5, <1>6, <1>7, <1>10, <1>11, <1>12, <1>13, <1>14
     DEF Next, Step

-----------------------------------------------------------------------------
(* Calls and lists stay sound.                                             *)

\* The calls on the stack are of coroutines.
LEMMA StackOf ==
  ASSUME ListInv
  PROVE  Len(stack) \in Nat /\ \A i \in 1 .. Len(stack) : stack[i].co \in Coroutines
<1>1. stack \in Seq(Call) BY DEF ListInv, ListTypes
<1>2. Len(stack) \in Nat /\ \A i \in 1 .. Len(stack) : stack[i] \in Call BY <1>1
<1>3. QED BY <1>2 DEF Call

\* What entering, leaving and returning do to the calls.
LEMMA EnteredCalls ==
  ASSUME ListInv, NEW c \in Coroutines, Entered(c),
         \A d \in Coroutines \ {c} : at'[d] = at[d] /\ holds'[d] = holds[d]
  PROVE  Calls'
<1> DEFINE n == Len(stack)
<1>1. n \in Nat /\ \A i \in 1 .. n : stack[i].co \in Coroutines
  BY StackOf
<1>2. /\ ~called[c] /\ called' = [called EXCEPT ![c] = TRUE] /\ Len(stack') = n + 1
      /\ \A i \in 1 .. n : stack'[i] = stack[i]
      /\ stack'[n + 1].co = c /\ stack'[n + 1].ret = "none"
      /\ called \in [Coroutines -> BOOLEAN]
  BY DEF Entered, ListInv, ListTypes
<1>3. \A i \in 1 .. n : stack[i].ret # "yield" => stack[i].co # c
  BY <1>1, <1>2 DEF ListInv, Calls, Active
<1> HIDE DEF n
<1>4. \A i, j \in 1 .. n + 1 :
        stack'[i].ret # "yield" /\ stack'[j].ret # "yield"
        /\ stack'[i].co = stack'[j].co => i = j
  <2>1. \A i, j \in 1 .. n :
          stack[i].ret # "yield" /\ stack[j].ret # "yield"
          /\ stack[i].co = stack[j].co => i = j
    BY DEF ListInv, Calls, Active, n
  <2>2. QED BY <1>1, <1>2, <1>3, <2>1
<1>5. \A d \in Coroutines :
        called'[d] <=> \E i \in 1 .. n + 1 : stack'[i].ret # "yield" /\ stack'[i].co = d
  <2>1. \A d \in Coroutines :
          called[d] <=> \E i \in 1 .. n : stack[i].ret # "yield" /\ stack[i].co = d
    BY DEF ListInv, Calls, Active, n
  <2>2. TAKE d \in Coroutines
  <2>3. CASE d = c BY <1>1, <1>2, <2>3
  <2>4. CASE d # c
    <3>1. called'[d] = called[d] BY <1>2, <2>4
    <3>2. QED BY <1>1, <1>2, <2>1, <2>4, <3>1
  <2>5. QED BY <2>3, <2>4
<1>6. \A i \in 1 .. n + 1 : stack'[i].ret = "terminate" =>
        at'[stack'[i].co] = "run" /\ holds'[stack'[i].co] = "none"
  <2>1. \A i \in 1 .. n : stack[i].ret = "terminate" =>
          at[stack[i].co] = "run" /\ holds[stack[i].co] = "none"
    BY DEF ListInv, Calls, n
  <2>2. QED BY <1>1, <1>2, <1>3, <2>1
<1>7. QED BY <1>2, <1>4, <1>5, <1>6 DEF Calls, Active, n

\* Yielding and ending keep the stack of enter calls well formed.
LEMMA LeftCalls ==
  ASSUME ListInv, NEW c \in Coroutines, NEW ret \in {"yield", "terminate"},
         LeftWith(c, ret),
         \A d \in Coroutines \ {c} : at'[d] = at[d] /\ holds'[d] = holds[d],
         ret = "terminate" => at'[c] = "run" /\ holds'[c] = "none"
  PROVE  Calls'
<1> DEFINE n == Len(stack)
<1>1. n \in Nat /\ n > 0 /\ \A i \in 1 .. n : stack[i].co \in Coroutines
  BY StackOf DEF LeftWith, Runs
<1>2. /\ Len(stack') = n
      /\ called' = IF ret = "yield" THEN [called EXCEPT ![c] = FALSE] ELSE called
      /\ \A i \in 1 .. n - 1 : stack'[i] = stack[i]
      /\ stack[n].co = c /\ stack[n].ret = "none"
      /\ stack'[n].co = c /\ stack'[n].ret = ret
      /\ called \in [Coroutines -> BOOLEAN] /\ called[c]
  BY DEF LeftWith, Runs, ListInv, ListTypes
<1>3. \A i, j \in 1 .. n :
        stack[i].ret # "yield" /\ stack[j].ret # "yield"
        /\ stack[i].co = stack[j].co => i = j
  BY DEF ListInv, Calls, Active
<1> HIDE DEF n
<1>4. \A i \in 1 .. n - 1 : stack[i].ret # "yield" => stack[i].co # c
  <2>1. TAKE i \in 1 .. n - 1
  <2>2. i \in 1 .. n /\ n \in 1 .. n /\ i # n BY <1>1
  <2>3. QED BY <1>2, <1>3, <2>2
<1>5. \A i, j \in 1 .. n :
        stack'[i].ret # "yield" /\ stack'[j].ret # "yield"
        /\ stack'[i].co = stack'[j].co => i = j
  BY <1>1, <1>2, <1>3
<1>6. \A d \in Coroutines :
        called'[d] <=> \E i \in 1 .. n : stack'[i].ret # "yield" /\ stack'[i].co = d
  <2>1. \A d \in Coroutines :
          called[d] <=> \E i \in 1 .. n : stack[i].ret # "yield" /\ stack[i].co = d
    BY DEF ListInv, Calls, Active, n
  <2>2. TAKE d \in Coroutines
  <2>3. CASE d = c
    <3>1. CASE ret = "yield"
      <4>1. \A i \in 1 .. n : stack'[i].ret # "yield" => stack'[i].co # c
        BY <1>1, <1>2, <1>4, <3>1
      <4>2. QED BY <1>2, <2>3, <3>1, <4>1
    <3>2. CASE ret = "terminate"
      BY <1>1, <1>2, <2>3, <3>2
    <3>3. QED BY <3>1, <3>2
  <2>4. CASE d # c
    <3>1. called'[d] = called[d] BY <1>2, <2>4
    <3>2. \A i \in 1 .. n : stack'[i].ret # "yield" /\ stack'[i].co = d
                            <=> stack[i].ret # "yield" /\ stack[i].co = d
      BY <1>1, <1>2, <2>4
    <3>3. QED BY <2>1, <3>1, <3>2
  <2>5. QED BY <2>3, <2>4
<1>7. \A i \in 1 .. n : stack'[i].ret = "terminate" =>
        at'[stack'[i].co] = "run" /\ holds'[stack'[i].co] = "none"
  <2>1. \A i \in 1 .. n : stack[i].ret = "terminate" =>
          at[stack[i].co] = "run" /\ holds[stack[i].co] = "none"
    BY DEF ListInv, Calls, n
  <2>2. QED BY <1>1, <1>2, <1>4, <2>1
<1>8. QED BY <1>2, <1>5, <1>6, <1>7 DEF Calls, Active, n

\* So does the return of an enter call.
LEMMA ReturnCalls ==
  ASSUME ListInv, NEW c \in Coroutines, Returns(c)
  PROVE  Calls'
<1> DEFINE n == Len(stack)
<1>1. n \in Nat /\ n > 0 /\ \A i \in 1 .. n : stack[i].co \in Coroutines
  BY StackOf DEF Returns
<1>2. /\ Len(stack') = n - 1 /\ \A i \in 1 .. n - 1 : stack'[i] = stack[i]
      /\ stack[n].co = c /\ UNCHANGED holds
      /\ called \in [Coroutines -> BOOLEAN] /\ at \in [Coroutines -> At]
      /\ \/ /\ stack[n].ret = "terminate"
            /\ called' = [called EXCEPT ![c] = FALSE]
            /\ at' = [at EXCEPT ![c] = "none"]
         \/ stack[n].ret = "yield" /\ UNCHANGED <<called, at>>
  BY DEF Returns, ListInv, ListTypes
<1>3. /\ \A i, j \in 1 .. n :
           stack[i].ret # "yield" /\ stack[j].ret # "yield"
           /\ stack[i].co = stack[j].co => i = j
      /\ \A d \in Coroutines :
           called[d] <=> \E i \in 1 .. n : stack[i].ret # "yield" /\ stack[i].co = d
      /\ \A i \in 1 .. n : stack[i].ret = "terminate" =>
           at[stack[i].co] = "run" /\ holds[stack[i].co] = "none"
  BY DEF ListInv, Calls, Active
<1> HIDE DEF n
<1>4. stack[n].ret = "terminate" =>
        \A i \in 1 .. n - 1 : stack[i].ret # "yield" => stack[i].co # c
  <2>1. SUFFICES ASSUME stack[n].ret = "terminate", NEW i \in 1 .. n - 1
                 PROVE  stack[i].ret # "yield" => stack[i].co # c
    OBVIOUS
  <2>2. i \in 1 .. n /\ n \in 1 .. n /\ i # n BY <1>1
  <2>3. QED BY <1>2, <1>3, <2>1, <2>2
<1>5. \A d \in Coroutines :
        called'[d] <=> \E i \in 1 .. n - 1 : stack'[i].ret # "yield" /\ stack'[i].co = d
  <2>1. CASE stack[n].ret = "terminate"
    <3>1. TAKE d \in Coroutines
    <3>2. CASE d = c BY <1>2, <1>4, <2>1, <3>2
    <3>3. CASE d # c
      <4>1. called'[d] = called[d] BY <1>2, <2>1, <3>3
      <4>2. QED BY <1>1, <1>2, <1>3, <3>3, <4>1
    <3>4. QED BY <3>2, <3>3
  <2>2. CASE stack[n].ret = "yield"
    <3>1. TAKE d \in Coroutines
    <3>2. called'[d] = called[d] BY <1>2, <2>2
    <3>3. QED BY <1>1, <1>2, <1>3, <2>2, <3>2
  <2>3. QED BY <1>2, <2>1, <2>2
<1>6. \A i, j \in 1 .. n - 1 :
        stack'[i].ret # "yield" /\ stack'[j].ret # "yield"
        /\ stack'[i].co = stack'[j].co => i = j
  BY <1>1, <1>2, <1>3
<1>7. \A i \in 1 .. n - 1 : stack'[i].ret = "terminate" =>
        at'[stack'[i].co] = "run" /\ holds'[stack'[i].co] = "none"
  BY <1>1, <1>2, <1>3, <1>4
<1>8. QED BY <1>2, <1>5, <1>6, <1>7 DEF Calls, Active, n

\* The lists keep their types.
LEMMA ListTypesStep ==
  ASSUME ListInv, [Next]_vars
  PROVE  ListTypes'
<1>0. ListTypes BY DEF ListInv
<1>1. ASSUME NEW c \in Coroutines, Starts(c) PROVE ListTypes'
  BY <1>1, <1>0 DEF ListTypes, At, Starts, Entered
<1>2. ASSUME NEW c \in Coroutines, Yields(c) PROVE ListTypes'
  BY <1>2, <1>0 DEF ListTypes, At, Yields, LeftWith, Runs
<1>3. ASSUME NEW c \in Coroutines, Ends(c) PROVE ListTypes'
  BY <1>3, <1>0 DEF ListTypes, At, Ends, LeftWith, Runs
<1>4. ASSUME NEW c \in Coroutines, Restarts(c) PROVE ListTypes'
  BY <1>4, <1>0 DEF ListTypes, At, Restarts, Entered
<1>5. ASSUME NEW c \in Coroutines, Returns(c) PROVE ListTypes'
  BY <1>5, <1>0 DEF ListTypes, At, Returns
<1>6. ASSUME NEW c \in Coroutines, Proceeds(c) PROVE ListTypes'
  BY <1>6, <1>0 DEF ListTypes, At, Proceeds, Runs
<1>7. ASSUME NEW c \in Coroutines, NEW q \in Queues, BlocksOn(c, q)
      PROVE  ListTypes'
  <2>1. at' \in [Coroutines -> At]
    <3>1. PICK w \in Loop(q) : at' = [at EXCEPT ![c] = w] BY <1>7 DEF BlocksOn
    <3>2. w \in At BY DEF Loop, Queues, At
    <3>3. QED BY <1>0, <3>1, <3>2 DEF ListTypes
  <2>2. QED BY <1>7, <1>0, <2>1 DEF ListTypes, BlocksOn, LeftWith
<1>8. ASSUME NEW c \in Coroutines, NEW q \in Queues,
             NEW k \in 0 .. Len(entries[q]), WakesFirst(c, q, k)
      PROVE  ListTypes'
  BY <1>8, <1>0 DEF ListTypes, At, WakesFirst, Runs
<1>9. CASE EntersNext
  BY <1>9, <1>0 DEF ListTypes, At, EntersNext, Entered
<1>10. CASE UNCHANGED <<stack, called, wakeup, entries, at, holds, aborted>>
  BY <1>10, <1>0 DEF ListTypes, At
<1>11. QED
  BY <1>1, <1>2, <1>3, <1>4, <1>5, <1>6, <1>7, <1>8, <1>9, <1>10, Effects

\* Who runs has been called, and nobody waits with a lock.
LEMMA StatesStep ==
  ASSUME ListInv, [Next]_vars
  PROVE  States'
<1>0. /\ ListTypes /\ States /\ Calls /\ Placed /\ "queue" \in Queues
      /\ Len(stack) \in Nat
  BY DEF ListInv, ListTypes, Queues
<1>1. ASSUME NEW c \in Coroutines, Starts(c) PROVE States'
  BY <1>1, <1>0 DEF States, ListTypes, Waits, Starts, Entered
<1>2. ASSUME NEW c \in Coroutines, Yields(c) PROVE States'
  BY <1>2, <1>0 DEF States, ListTypes, Waits, Yields, LeftWith, Runs
<1>3. ASSUME NEW c \in Coroutines, Ends(c) PROVE States'
  BY <1>3, <1>0 DEF States, ListTypes, Waits, Ends, LeftWith, Runs
<1>4. ASSUME NEW c \in Coroutines, Restarts(c) PROVE States'
  <2>1. /\ Entered(wakeup[c][1]) /\ UNCHANGED <<at, holds>>
        /\ at[wakeup[c][1]] \in Waits
    <3>1. Len(wakeup[c]) \in Nat BY <1>0 DEF ListTypes
    <3>2. QED BY <1>4, <1>0, <3>1 DEF Restarts, Placed, Elems
  <2>2. QED BY <1>0, <2>1 DEF States, ListTypes, Waits, Entered
<1>5. ASSUME NEW c \in Coroutines, Returns(c) PROVE States'
  BY <1>5, <1>0 DEF States, ListTypes, Waits, Returns, Calls, Active
<1>6. ASSUME NEW c \in Coroutines, Proceeds(c) PROVE States'
  BY <1>6, <1>0 DEF States, ListTypes, Waits, Proceeds, Runs
<1>7. ASSUME NEW c \in Coroutines, NEW q \in Queues, BlocksOn(c, q)
      PROVE  States'
  BY <1>7, <1>0 DEF States, ListTypes, Waits, BlocksOn, LeftWith, Runs,
      Loop, Queues
<1>8. ASSUME NEW c \in Coroutines, NEW q \in Queues,
             NEW k \in 0 .. Len(entries[q]), WakesFirst(c, q, k)
      PROVE  States'
  BY <1>8, <1>0 DEF States, ListTypes, Waits, WakesFirst, Runs
<1>9. CASE EntersNext
  <2>1. Len(entries["queue"]) \in Nat BY <1>0 DEF ListTypes
  <2>2. at[entries["queue"][1]] = "queue"
    BY <1>9, <1>0, <2>1 DEF EntersNext, Placed, Loop, Elems
  <2>3. QED BY <1>9, <1>0, <2>2 DEF EntersNext, Entered, States, ListTypes
<1>10. CASE UNCHANGED <<stack, called, wakeup, entries, at, holds, aborted>>
  BY <1>10, <1>0 DEF States, ListTypes, Waits
<1>11. QED
  BY <1>1, <1>2, <1>3, <1>4, <1>5, <1>6, <1>7, <1>8, <1>9, <1>10, Effects

\* A coroutine has one call that has not returned to its caller.
LEMMA CallsStep ==
  ASSUME ListInv, [Next]_vars
  PROVE  Calls'
<1>0. /\ ListTypes /\ Calls BY DEF ListInv
<1>1. ASSUME NEW c \in Coroutines, Starts(c) PROVE Calls'
  BY <1>1, <1>0, EnteredCalls DEF Starts, Entered, ListTypes
<1>2. ASSUME NEW c \in Coroutines, Yields(c) PROVE Calls'
  BY <1>2, <1>0, LeftCalls DEF Yields, ListTypes
<1>3. ASSUME NEW c \in Coroutines, Ends(c) PROVE Calls'
  BY <1>3, <1>0, LeftCalls DEF Ends, ListTypes
<1>4. ASSUME NEW c \in Coroutines, Restarts(c) PROVE Calls'
  BY <1>4, <1>0, EnteredCalls DEF Restarts, Entered, ListTypes
<1>5. ASSUME NEW c \in Coroutines, Returns(c) PROVE Calls'
  BY <1>5, ReturnCalls
<1>6. ASSUME NEW c \in Coroutines, Proceeds(c) PROVE Calls'
  <2>1. /\ UNCHANGED <<stack, called>> /\ Runs(c)
        /\ \A d \in Coroutines \ {c} : at'[d] = at[d] /\ holds'[d] = holds[d]
    BY <1>6, <1>0 DEF Proceeds, ListTypes
  <2>2. \A i \in 1 .. Len(stack) : stack[i].ret = "terminate" =>
          stack[i].co \in Coroutines \ {c}
    BY <1>0, <2>1, StackOf DEF Calls, Active, Runs
  <2>3. QED BY <1>0, <2>1, <2>2 DEF Calls, Active
<1>7. ASSUME NEW c \in Coroutines, NEW q \in Queues, BlocksOn(c, q)
      PROVE  Calls'
  BY <1>7, <1>0, LeftCalls DEF BlocksOn, ListTypes
<1>8. ASSUME NEW c \in Coroutines, NEW q \in Queues,
             NEW k \in 0 .. Len(entries[q]), WakesFirst(c, q, k)
      PROVE  Calls'
  <2>1. /\ UNCHANGED <<stack, called, at>> /\ Runs(c)
        /\ \A d \in Coroutines : holds'[d] \in {holds[d], "none"}
    BY <1>8, <1>0 DEF WakesFirst, ListTypes
  <2>2. \A i \in 1 .. Len(stack) : stack[i].co \in Coroutines
    BY StackOf
  <2>3. QED BY <1>0, <2>1, <2>2 DEF Calls, Active
<1>9. CASE EntersNext
  BY <1>9, <1>0, EnteredCalls DEF EntersNext, Entered, ListTypes
<1>10. CASE UNCHANGED <<stack, called, wakeup, entries, at, holds, aborted>>
  BY <1>10, <1>0 DEF Calls, Active, ListTypes
<1>11. QED
  BY <1>1, <1>2, <1>3, <1>4, <1>5, <1>6, <1>7, <1>8, <1>9, <1>10, Effects

\* Entering and leaving coroutines keeps the calls that there are.
LEMMA OnStackKept ==
  ASSUME ListInv, NEW c \in Coroutines,
         Entered(c) \/ (\E ret \in {"yield", "terminate"} : LeftWith(c, ret))
  PROVE  \A i \in 1 .. Len(stack) : /\ i \in 1 .. Len(stack')
                                    /\ stack'[i].co = stack[i].co
<1>1. Len(stack) \in Nat BY StackOf
<1>2. CASE Entered(c) BY <1>1, <1>2 DEF Entered
<1>3. CASE \E ret \in {"yield", "terminate"} : LeftWith(c, ret)
  <2>1. /\ Len(stack') = Len(stack) /\ Len(stack) > 0
        /\ \A i \in 1 .. Len(stack) - 1 : stack'[i] = stack[i]
        /\ stack'[Len(stack)].co = stack[Len(stack)].co
    BY <1>3 DEF LeftWith, Runs
  <2>2. QED BY <1>1, <2>1
<1>4. QED BY <1>2, <1>3

\* The lists of woken coroutines stay when their coroutines do.
LEMMA WokenKept ==
  ASSUME ListInv, ListTypes', 
         \A i \in 1 .. Len(stack) : i \in 1 .. Len(stack') /\ stack'[i].co = stack[i].co,
         \A c \in Coroutines : wakeup'[c] # <<>> =>
           \/ wakeup[c] # <<>>
           \/ \E i \in 1 .. Len(stack) : stack[i].co = c,
         \A c \in Coroutines : wakeup'[c] # <<>> => at'[c] # "none"
  PROVE  WokenOnStack'
<1>1. /\ DOMAIN stack = 1 .. Len(stack) /\ DOMAIN stack' = 1 .. Len(stack')
      /\ WokenOnStack
  BY DEF ListInv, ListTypes
<1>2. QED BY <1>1 DEF WokenOnStack

\* The lists of woken coroutines belong to coroutines on the stack.
LEMMA WokenOnStackStep ==
  ASSUME ListInv, [Next]_vars
  PROVE  WokenOnStack'
<1>0. /\ ListInv /\ ListTypes /\ ListTypes' /\ WokenOnStack /\ States
      /\ \A c \in Coroutines : /\ Len(wakeup[c]) \in Nat
                               /\ Len(wakeup[c]) = 0 <=> wakeup[c] = <<>>
                               /\ Len(wakeup'[c]) = 0 <=> wakeup'[c] = <<>>
  <2>1. ListTypes /\ ListTypes' BY ListTypesStep DEF ListInv
  <2>2. \A c \in Coroutines : wakeup[c] \in Seq(Coroutines)
                              /\ wakeup'[c] \in Seq(Coroutines)
    BY <2>1 DEF ListTypes
  <2>3. QED BY <2>1, <2>2, EmptySeq DEF ListInv
<1>1. ASSUME NEW c \in Coroutines, Starts(c) PROVE WokenOnStack'
  BY <1>1, <1>0, OnStackKept, WokenKept
     DEF Starts, Entered, WokenOnStack, ListTypes
<1>2. ASSUME NEW c \in Coroutines, Yields(c) PROVE WokenOnStack'
  BY <1>2, <1>0, OnStackKept, WokenKept
     DEF Yields, WokenOnStack, ListTypes
<1>3. ASSUME NEW c \in Coroutines, Ends(c) PROVE WokenOnStack'
  BY <1>3, <1>0, OnStackKept, WokenKept
     DEF Ends, WokenOnStack, ListTypes
<1>4. ASSUME NEW c \in Coroutines, Restarts(c) PROVE WokenOnStack'
  <2>1. \A d \in Coroutines : wakeup'[d] # <<>> => wakeup[d] # <<>>
    BY <1>4, <1>0 DEF Restarts, Entered
  <2>2. UNCHANGED at BY <1>4 DEF Restarts
  <2>3. \A i \in 1 .. Len(stack) : i \in 1 .. Len(stack') /\ stack'[i].co = stack[i].co
    BY <1>4, OnStackKept DEF Restarts, Entered
  <2>4. QED BY <1>0, <2>1, <2>2, <2>3, WokenKept DEF WokenOnStack
<1>5. ASSUME NEW c \in Coroutines, Returns(c) PROVE WokenOnStack'
  <2>1. /\ DOMAIN stack = 1 .. Len(stack) /\ DOMAIN stack' = 1 .. Len(stack')
        /\ Len(stack) \in Nat
    BY <1>0 DEF ListTypes
  <2>2. /\ wakeup[c] = <<>> /\ UNCHANGED wakeup
        /\ \A d \in Coroutines \ {c} : at'[d] = at[d]
        /\ stack[Len(stack)].co = c /\ Len(stack') = Len(stack) - 1
        /\ \A i \in 1 .. Len(stack) - 1 : stack'[i] = stack[i]
    BY <1>5, <1>0 DEF Returns, ListTypes
  <2>3. \A d \in Coroutines : wakeup[d] # <<>> =>
          d # c /\ \E i \in 1 .. Len(stack) - 1 : stack[i].co = d
    BY <1>0, <2>1, <2>2 DEF WokenOnStack
  <2>4. QED BY <1>0, <2>1, <2>2, <2>3 DEF WokenOnStack
<1>6. ASSUME NEW c \in Coroutines, Proceeds(c) PROVE WokenOnStack'
  <2>1. UNCHANGED <<stack, wakeup>>
        /\ \A d \in Coroutines : at'[d] = "none" => at[d] = "none"
    BY <1>6, <1>0 DEF Proceeds, ListTypes
  <2>2. QED BY <1>0, <2>1 DEF WokenOnStack
<1>7. ASSUME NEW c \in Coroutines, NEW q \in Queues, BlocksOn(c, q)
      PROVE  WokenOnStack'
  <2>1. "none" \notin Loop(q) BY DEF Loop, Queues
  <2>2. UNCHANGED wakeup /\ \A d \in Coroutines : at'[d] = "none" => at[d] = "none"
    BY <1>7, <1>0, <2>1 DEF BlocksOn, ListTypes
  <2>3. \A i \in 1 .. Len(stack) : i \in 1 .. Len(stack') /\ stack'[i].co = stack[i].co
    BY <1>7, OnStackKept DEF BlocksOn
  <2>4. QED BY <1>0, <2>2, <2>3, WokenKept DEF WokenOnStack
<1>8. ASSUME NEW c \in Coroutines, NEW q \in Queues,
             NEW k \in 0 .. Len(entries[q]), WakesFirst(c, q, k)
      PROVE  WokenOnStack'
  <2>1. UNCHANGED <<stack, at>> /\ Runs(c) /\ at[c] = "run"
        /\ \A d \in Coroutines \ {c} : wakeup'[d] = wakeup[d]
    BY <1>8 DEF WakesFirst
  <2>2. Len(stack) \in DOMAIN stack
    BY <1>0, <2>1 DEF ListTypes, Runs
  <2>3. QED BY <1>0, <2>1, <2>2 DEF WokenOnStack, Runs
<1>9. CASE EntersNext
  <2>1. UNCHANGED <<at, wakeup>> BY <1>9 DEF EntersNext
  <2>2. \A i \in 1 .. Len(stack) : i \in 1 .. Len(stack') /\ stack'[i].co = stack[i].co
    BY <1>9, OnStackKept DEF EntersNext, Entered
  <2>3. QED BY <1>0, <2>1, <2>2, WokenKept DEF WokenOnStack
<1>10. CASE UNCHANGED <<stack, called, wakeup, entries, at, holds, aborted>>
  BY <1>10, <1>0 DEF WokenOnStack
<1>11. QED
  BY <1>1, <1>2, <1>3, <1>4, <1>5, <1>6, <1>7, <1>8, <1>9, <1>10, Effects

\* A coroutine that is taken out of a list to be entered.
LEMMA RestartLists ==
  ASSUME ListInv, NEW c \in Coroutines, Restarts(c)
  PROVE  /\ Elems(wakeup'[c]) = Elems(wakeup[c]) \ {wakeup[c][1]}
         /\ Inj(wakeup'[c]) /\ wakeup[c][1] \in Elems(wakeup[c])
<1>1. wakeup[c] \in Seq(Coroutines) /\ Inj(wakeup[c])
  BY DEF ListInv, ListTypes, Distinct
<1>2. /\ Len(wakeup[c]) > 0 /\ Len(wakeup'[c]) = Len(wakeup[c]) - 1
      /\ \A i \in 1 .. Len(wakeup[c]) - 1 : wakeup'[c][i] = wakeup[c][i + 1]
  BY DEF Restarts
<1>3. QED BY <1>1, <1>2, ElemsTail

\* qemu_co_enter_next takes the first entry out of the queue.
LEMMA EntersNextLists ==
  ASSUME ListInv, EntersNext
  PROVE  /\ Elems(entries'["queue"]) = Elems(entries["queue"]) \ {entries["queue"][1]}
         /\ Inj(entries'["queue"]) /\ entries["queue"][1] \in Elems(entries["queue"])
<1> DEFINE e == entries["queue"]
           r == entries'["queue"]
<1>1. e \in Seq(Coroutines) /\ Inj(e)
  BY DEF ListInv, ListTypes, Distinct, Queues
<1>2. /\ Len(e) > 0 /\ Len(r) = Len(e) - 1
      /\ \A i \in 1 .. Len(e) - 1 : r[i] = e[i + 1]
  BY DEF EntersNext
<1> HIDE DEF e, r
<1>3. Elems(r) = Elems(e) \ {e[1]} /\ Inj(r) /\ e[1] \in Elems(e)
  BY <1>1, <1>2, ElemsTail
<1>4. QED BY <1>3 DEF e, r

\* A coroutine that goes to sleep is added to a list, and was in none.
LEMMA BlocksLists ==
  ASSUME ListInv, NEW c \in Coroutines, NEW q \in Queues, BlocksOn(c, q)
  PROVE  /\ Elems(entries'[q]) = Elems(entries[q]) \cup {c} /\ Inj(entries'[q])
         /\ \A p \in Queues : c \notin Elems(entries[p])
         /\ \A d \in Coroutines : c \notin Elems(wakeup[d])
<1>1. entries[q] \in Seq(Coroutines) /\ Inj(entries[q])
  BY DEF ListInv, ListTypes, Distinct
<1>2. called[c] BY DEF BlocksOn, LeftWith, Runs
<1>3. /\ \A p \in Queues : c \notin Elems(entries[p])
      /\ \A d \in Coroutines : c \notin Elems(wakeup[d])
  BY <1>2 DEF ListInv, Placed
<1>4. /\ Len(entries'[q]) = Len(entries[q]) + 1
      /\ \A i \in 1 .. Len(entries[q]) : entries'[q][i] = entries[q][i]
      /\ entries'[q][Len(entries[q]) + 1] = c
  BY DEF BlocksOn
<1>5. Elems(entries'[q]) = Elems(entries[q]) \cup {c} /\ Inj(entries'[q])
  BY <1>1, <1>3, <1>4, ElemsAppend
<1>6. QED BY <1>3, <1>5

\* Woken coroutines go from one list to the other.
LEMMA WakesLists ==
  ASSUME ListInv, NEW c \in Coroutines, NEW q \in Queues,
         NEW k \in 0 .. Len(entries[q]), WakesFirst(c, q, k)
  PROVE  LET M == {entries[q][i] : i \in 1 .. k}
         IN  /\ Inj(wakeup'[c]) /\ Inj(entries'[q])
             /\ Elems(wakeup'[c]) = Elems(wakeup[c]) \cup M
             /\ Elems(entries'[q]) = Elems(entries[q]) \ M
             /\ M \subseteq Elems(entries[q])
<1>1. /\ entries[q] \in Seq(Coroutines) /\ wakeup[c] \in Seq(Coroutines)
      /\ Inj(entries[q]) /\ Inj(wakeup[c])
      /\ \A x \in Elems(wakeup[c]) : x \notin Elems(entries[q])
  BY DEF ListInv, ListTypes, Distinct
<1>2. Moves(wakeup[c], entries[q], k, wakeup'[c], entries'[q]) BY DEF WakesFirst
<1>3. QED BY <1>1, <1>2, ElemsMove

\* The lists are lists of coroutines.
LEMMA ElemsIn ==
  ASSUME ListTypes
  PROVE  /\ \A q \in Queues : Elems(entries[q]) \subseteq Coroutines
         /\ \A d \in Coroutines : Elems(wakeup[d]) \subseteq Coroutines
BY DEF Elems, ListTypes

\* A coroutine that is in no list may do what it likes but wait.
LEMMA PlacedKept ==
  ASSUME ListInv, NEW c \in Coroutines, UNCHANGED <<entries, wakeup>>,
         \A q \in Queues : c \notin Elems(entries[q]),
         \A d \in Coroutines : c \notin Elems(wakeup[d]),
         \A d \in Coroutines : d # c => at'[d] = at[d] /\ called'[d] = called[d],
         at'[c] \notin Waits
  PROVE  Placed'
<1>1. Placed /\ ListTypes BY DEF ListInv
<1>2. QED BY <1>1, ElemsIn DEF Placed

\* Whoever has been called is in no list.
LEMMA CalledInNone ==
  ASSUME ListInv, NEW c \in Coroutines, called[c] \/ at[c] \notin Waits
  PROVE  /\ \A q \in Queues : c \notin Elems(entries[q])
         /\ \A d \in Coroutines : c \notin Elems(wakeup[d])
<1>1. \A q \in Queues : Loop(q) \subseteq Waits BY DEF Loop, Queues, Waits
<1>2. QED BY <1>1 DEF ListInv, Placed

\* Whoever waits is in a list.
LEMMA PlacedStep ==
  ASSUME ListInv, [Next]_vars
  PROVE  Placed'
<1>0. /\ ListTypes /\ Calls /\ States /\ Placed /\ Distinct
  BY DEF ListInv
<1>1. ASSUME NEW c \in Coroutines, Starts(c) PROVE Placed'
  BY <1>1, <1>0, CalledInNone, PlacedKept DEF Starts, Entered, ListTypes, Waits
<1>2. ASSUME NEW c \in Coroutines, Yields(c) PROVE Placed'
  BY <1>2, <1>0, CalledInNone, PlacedKept DEF Yields, LeftWith, Runs, ListTypes, Waits
<1>3. ASSUME NEW c \in Coroutines, Ends(c) PROVE Placed'
  BY <1>3, <1>0 DEF Ends, LeftWith, Placed
<1>4. ASSUME NEW c \in Coroutines, Restarts(c) PROVE Placed'
  <2> DEFINE x == wakeup[c][1]
  <2>1. /\ x \in Coroutines /\ UNCHANGED <<entries, at>>
        /\ called' = [called EXCEPT ![x] = TRUE]
        /\ \A d \in Coroutines \ {c} : wakeup'[d] = wakeup[d]
    BY <1>4 DEF Restarts, Entered
  <2>2. Elems(wakeup'[c]) = Elems(wakeup[c]) \ {x} /\ x \in Elems(wakeup[c])
    BY <1>4, RestartLists
  <2> HIDE DEF x
  <2>3. \A d \in Coroutines : called'[d] = IF d = x THEN TRUE ELSE called[d]
    BY <1>0, <2>1 DEF ListTypes
  <2>4. \A q \in Queues : x \notin Elems(entries[q])
    BY <1>0, <2>2 DEF Distinct
  <2>5. \A d \in Coroutines : Elems(wakeup'[d]) = Elems(wakeup[d]) \ {x}
    BY <1>0, <2>1, <2>2 DEF Distinct
  <2>6. \A q \in Queues : \A d \in Elems(entries'[q]) :
          ~called'[d] /\ at'[d] \in Loop(q)
    BY <1>0, <2>1, <2>3, <2>4, <2>5, ElemsIn DEF Placed
  <2>7. \A e \in Coroutines : \A d \in Elems(wakeup'[e]) :
          ~called'[d] /\ at'[d] \in Waits
    BY <1>0, <2>1, <2>3, <2>4, <2>5, ElemsIn DEF Placed
  <2>8. \A d \in Coroutines : at'[d] \in Waits /\ ~called'[d] =>
          \/ \E q \in Queues : d \in Elems(entries'[q])
          \/ \E e \in Coroutines : d \in Elems(wakeup'[e])
    BY <1>0, <2>1, <2>3, <2>5 DEF Placed
  <2>9. QED BY <2>6, <2>7, <2>8 DEF Placed
<1>5. ASSUME NEW c \in Coroutines, Returns(c) PROVE Placed'
  <2>1. CASE stack[Len(stack)].ret = "yield"
    BY <1>5, <1>0, <2>1 DEF Returns, Placed
  <2>2. CASE stack[Len(stack)].ret = "terminate"
    <3>1. at[c] = "run"
      BY <1>5, <1>0, <2>2, StackOf DEF Calls, Returns
    <3>2. QED
      BY <1>5, <1>0, <2>2, <3>1, CalledInNone, PlacedKept
         DEF Returns, ListTypes, Waits
  <2>3. QED BY <1>5, <2>1, <2>2 DEF Returns
<1>6. ASSUME NEW c \in Coroutines, Proceeds(c) PROVE Placed'
  BY <1>6, <1>0, CalledInNone, PlacedKept DEF Proceeds, Runs, ListTypes, Waits
<1>7. ASSUME NEW c \in Coroutines, NEW q \in Queues, BlocksOn(c, q)
      PROVE  Placed'
  <2>1. /\ UNCHANGED wakeup /\ called' = [called EXCEPT ![c] = FALSE]
        /\ \A p \in Queues \ {q} : entries'[p] = entries[p]
    BY <1>7 DEF BlocksOn, LeftWith
  <2>2. PICK w \in Loop(q) : at' = [at EXCEPT ![c] = w] BY <1>7 DEF BlocksOn
  <2>3. /\ Elems(entries'[q]) = Elems(entries[q]) \cup {c}
        /\ \A p \in Queues : c \notin Elems(entries[p])
        /\ \A d \in Coroutines : c \notin Elems(wakeup[d])
    BY <1>7, BlocksLists
  <2>4. \A d \in Coroutines : /\ called'[d] = IF d = c THEN FALSE ELSE called[d]
                              /\ at'[d] = IF d = c THEN w ELSE at[d]
    BY <1>0, <2>1, <2>2 DEF ListTypes
  <2>5. \A p \in Queues : \A d \in Elems(entries'[p]) :
          ~called'[d] /\ at'[d] \in Loop(p)
    <3>1. \A p \in Queues \ {q} : \A d \in Elems(entries'[p]) :
            d # c /\ d \in Coroutines /\ ~called[d] /\ at[d] \in Loop(p)
      BY <1>0, <2>1, <2>3, ElemsIn DEF Placed
    <3>2. \A d \in Elems(entries'[q]) :
            \/ d = c
            \/ d # c /\ d \in Coroutines /\ ~called[d] /\ at[d] \in Loop(q)
      BY <1>0, <2>3, ElemsIn DEF Placed
    <3>3. QED BY <2>2, <2>4, <3>1, <3>2
  <2>6. \A e \in Coroutines : \A d \in Elems(wakeup'[e]) :
          ~called'[d] /\ at'[d] \in Waits
    BY <1>0, <2>1, <2>3, <2>4, ElemsIn DEF Placed
  <2>7. \A d \in Coroutines : at'[d] \in Waits /\ ~called'[d] =>
          \/ \E p \in Queues : d \in Elems(entries'[p])
          \/ \E e \in Coroutines : d \in Elems(wakeup'[e])
    BY <1>0, <2>1, <2>3, <2>4 DEF Placed
  <2>8. QED BY <2>5, <2>6, <2>7 DEF Placed
<1>8. ASSUME NEW c \in Coroutines, NEW q \in Queues,
             NEW k \in 0 .. Len(entries[q]), WakesFirst(c, q, k)
      PROVE  Placed'
  <2> DEFINE M == {entries[q][i] : i \in 1 .. k}
  <2>1. /\ UNCHANGED <<at, called>>
        /\ \A p \in Queues \ {q} : entries'[p] = entries[p]
        /\ \A d \in Coroutines \ {c} : wakeup'[d] = wakeup[d]
    BY <1>8 DEF WakesFirst
  <2>2. /\ Elems(wakeup'[c]) = Elems(wakeup[c]) \cup M
        /\ Elems(entries'[q]) = Elems(entries[q]) \ M
        /\ M \subseteq Elems(entries[q])
    BY <1>8, WakesLists
  <2> HIDE DEF M
  <2>3. \A p \in Queues : Loop(p) \subseteq Waits BY DEF Loop, Queues, Waits
  <2>4. \A p \in Queues : \A d \in Elems(entries'[p]) :
          ~called'[d] /\ at'[d] \in Loop(p)
    BY <1>0, <2>1, <2>2 DEF Placed
  <2>5. \A e \in Coroutines : \A d \in Elems(wakeup'[e]) :
          ~called'[d] /\ at'[d] \in Waits
    BY <1>0, <2>1, <2>2, <2>3 DEF Placed
  <2>6. \A d \in Coroutines : at'[d] \in Waits /\ ~called'[d] =>
          \/ \E p \in Queues : d \in Elems(entries'[p])
          \/ \E e \in Coroutines : d \in Elems(wakeup'[e])
    BY <1>0, <2>1, <2>2 DEF Placed
  <2>7. QED BY <2>4, <2>5, <2>6 DEF Placed
<1>9. CASE EntersNext
  <2> DEFINE x == entries["queue"][1]
  <2>1. /\ x \in Coroutines /\ UNCHANGED <<wakeup, at>> /\ "queue" \in Queues
        /\ called' = [called EXCEPT ![x] = TRUE]
        /\ \A q \in Queues \ {"queue"} : entries'[q] = entries[q]
    BY <1>9 DEF EntersNext, Entered, Queues
  <2>2. /\ Elems(entries'["queue"]) = Elems(entries["queue"]) \ {x}
        /\ x \in Elems(entries["queue"])
    BY <1>9, EntersNextLists
  <2> HIDE DEF x
  <2>3. \A d \in Coroutines : called'[d] = IF d = x THEN TRUE ELSE called[d]
    BY <1>0, <2>1 DEF ListTypes
  <2>4. \A d \in Coroutines : x \notin Elems(wakeup[d])
    BY <1>0, <2>1, <2>2 DEF Distinct
  <2>5. \A q \in Queues : Elems(entries'[q]) = Elems(entries[q]) \ {x}
    <3>1. at[x] = "queue" BY <1>0, <2>1, <2>2 DEF Placed, Loop
    <3>2. \A q \in Queues \ {"queue"} : "queue" \notin Loop(q) BY DEF Loop, Queues
    <3>3. \A q \in Queues \ {"queue"} : x \notin Elems(entries[q])
      BY <1>0, <3>1, <3>2 DEF Placed
    <3>4. QED BY <2>1, <2>2, <3>3
  <2>6. \A q \in Queues : \A d \in Elems(entries'[q]) :
          ~called'[d] /\ at'[d] \in Loop(q)
    BY <1>0, <2>1, <2>3, <2>4, <2>5, ElemsIn DEF Placed
  <2>7. \A e \in Coroutines : \A d \in Elems(wakeup'[e]) :
          ~called'[d] /\ at'[d] \in Waits
    BY <1>0, <2>1, <2>3, <2>4, <2>5, ElemsIn DEF Placed
  <2>8. \A d \in Coroutines : at'[d] \in Waits /\ ~called'[d] =>
          \/ \E q \in Queues : d \in Elems(entries'[q])
          \/ \E e \in Coroutines : d \in Elems(wakeup'[e])
    BY <1>0, <2>1, <2>3, <2>5 DEF Placed
  <2>9. QED BY <2>6, <2>7, <2>8 DEF Placed
<1>10. CASE UNCHANGED <<stack, called, wakeup, entries, at, holds, aborted>>
  BY <1>10, <1>0 DEF Placed
<1>11. QED
  BY <1>1, <1>2, <1>3, <1>4, <1>5, <1>6, <1>7, <1>8, <1>9, <1>10, Effects

\* Nobody gets into two lists.
LEMMA DistinctStep ==
  ASSUME ListInv, [Next]_vars
  PROVE  Distinct'
<1>0. /\ ListTypes /\ Calls /\ States /\ Placed /\ Distinct
  BY DEF ListInv
<1>1. ASSUME NEW c \in Coroutines, Starts(c) PROVE Distinct'
  BY <1>1, <1>0 DEF Distinct, Starts
<1>2. ASSUME NEW c \in Coroutines, Yields(c) PROVE Distinct'
  BY <1>2, <1>0 DEF Distinct, Yields
<1>3. ASSUME NEW c \in Coroutines, Ends(c) PROVE Distinct'
  BY <1>3, <1>0 DEF Distinct, Ends
<1>4. ASSUME NEW c \in Coroutines, Restarts(c) PROVE Distinct'
  <2>1. /\ UNCHANGED entries
        /\ \A d \in Coroutines \ {c} : wakeup'[d] = wakeup[d]
    BY <1>4 DEF Restarts
  <2>2. /\ Elems(wakeup'[c]) \subseteq Elems(wakeup[c]) /\ Inj(wakeup'[c])
    BY <1>4, RestartLists
  <2>3. \A d \in Coroutines : Elems(wakeup'[d]) \subseteq Elems(wakeup[d])
    BY <2>1, <2>2
  <2>4. \A d \in Coroutines : Inj(wakeup'[d]) BY <1>0, <2>1, <2>2 DEF Distinct
  <2>5. QED BY <1>0, <2>1, <2>3, <2>4 DEF Distinct
<1>5. ASSUME NEW c \in Coroutines, Returns(c) PROVE Distinct'
  BY <1>5, <1>0 DEF Distinct, Returns
<1>6. ASSUME NEW c \in Coroutines, Proceeds(c) PROVE Distinct'
  BY <1>6, <1>0 DEF Distinct, Proceeds
<1>7. ASSUME NEW c \in Coroutines, NEW q \in Queues, BlocksOn(c, q)
      PROVE  Distinct'
  <2>1. /\ UNCHANGED wakeup
        /\ \A p \in Queues \ {q} : entries'[p] = entries[p]
    BY <1>7 DEF BlocksOn
  <2>2. /\ Elems(entries'[q]) = Elems(entries[q]) \cup {c} /\ Inj(entries'[q])
        /\ \A d \in Coroutines : c \notin Elems(wakeup[d])
    BY <1>7, BlocksLists
  <2>3. \A p \in Queues : Inj(entries'[p]) BY <1>0, <2>1, <2>2 DEF Distinct
  <2>4. \A p \in Queues : Elems(entries'[p]) \subseteq Elems(entries[p]) \cup {c}
    BY <2>1, <2>2
  <2>5. QED BY <1>0, <2>1, <2>2, <2>3, <2>4 DEF Distinct
<1>8. ASSUME NEW c \in Coroutines, NEW q \in Queues,
             NEW k \in 0 .. Len(entries[q]), WakesFirst(c, q, k)
      PROVE  Distinct'
  <2> DEFINE M == {entries[q][i] : i \in 1 .. k}
  <2>1. /\ \A p \in Queues \ {q} : entries'[p] = entries[p]
        /\ \A d \in Coroutines \ {c} : wakeup'[d] = wakeup[d]
    BY <1>8 DEF WakesFirst
  <2>2. /\ Elems(wakeup'[c]) = Elems(wakeup[c]) \cup M
        /\ Elems(entries'[q]) = Elems(entries[q]) \ M
        /\ M \subseteq Elems(entries[q]) /\ Inj(wakeup'[c]) /\ Inj(entries'[q])
    BY <1>8, WakesLists
  <2> HIDE DEF M
  <2>3. \A p \in Queues : Inj(entries'[p]) BY <1>0, <2>1, <2>2 DEF Distinct
  <2>4. \A d \in Coroutines : Inj(wakeup'[d]) BY <1>0, <2>1, <2>2 DEF Distinct
  <2>5. \A d, e \in Coroutines : \A x \in Elems(wakeup'[d]) :
          x \in Elems(wakeup'[e]) => d = e
    <3>1. \A d \in Coroutines : \A x \in M : x \notin Elems(wakeup[d])
      BY <1>0, <2>2 DEF Distinct
    <3>2. QED BY <1>0, <2>1, <2>2, <3>1 DEF Distinct
  <2>6. \A p \in Queues, d \in Coroutines : \A x \in Elems(wakeup'[d]) :
          x \notin Elems(entries'[p])
    <3>1. \A p \in Queues \ {q} : \A x \in M : x \notin Elems(entries[p])
      <4>1. \A p \in Queues \ {q} : Loop(p) \cap Loop(q) = {} BY DEF Loop, Queues
      <4>2. QED BY <1>0, <2>2, <4>1 DEF Placed
    <3>2. QED BY <1>0, <2>1, <2>2, <3>1 DEF Distinct
  <2>7. QED BY <2>3, <2>4, <2>5, <2>6 DEF Distinct
<1>9. CASE EntersNext
  <2>1. /\ UNCHANGED wakeup
        /\ \A q \in Queues \ {"queue"} : entries'[q] = entries[q]
    BY <1>9 DEF EntersNext
  <2>2. /\ Elems(entries'["queue"]) \subseteq Elems(entries["queue"])
        /\ Inj(entries'["queue"])
    BY <1>9, EntersNextLists
  <2>3. \A q \in Queues : Elems(entries'[q]) \subseteq Elems(entries[q])
    BY <2>1, <2>2
  <2>4. \A q \in Queues : Inj(entries'[q]) BY <1>0, <2>1, <2>2 DEF Distinct
  <2>5. QED BY <1>0, <2>1, <2>3, <2>4 DEF Distinct
<1>10. CASE UNCHANGED <<stack, called, wakeup, entries, at, holds, aborted>>
  BY <1>10, <1>0 DEF Distinct
<1>11. QED
  BY <1>1, <1>2, <1>3, <1>4, <1>5, <1>6, <1>7, <1>8, <1>9, <1>10, Effects

\* ListInv is inductive.
LEMMA InitListInv == Init => ListInv
<1> SUFFICES ASSUME Init PROVE ListInv OBVIOUS
<1>1. \A s : s = <<>> => Elems(s) = {} /\ Inj(s) BY DEF Elems, Inj
<1>2. ListTypes BY DEF Init, ListTypes, At
<1>3. Calls /\ States /\ WokenOnStack
  BY DEF Init, Calls, States, WokenOnStack
<1>4. Placed /\ Distinct
  BY <1>1 DEF Init, Placed, Distinct, Waits
<1>5. QED BY <1>2, <1>3, <1>4 DEF ListInv

\* Every step preserves the invariant of stack and lists.
LEMMA ListInvStep == ListInv /\ [Next]_vars => ListInv'
BY ListTypesStep, CallsStep, StatesStep, PlacedStep, DistinctStep,
   WokenOnStackStep DEF ListInv

\* A set whose elements are all the same.
LEMMA AtMostOne ==
  ASSUME NEW S, \A x, y \in S : x = y
  PROVE  Cardinality(S) <= 1
<1>1. CASE S = {}
  <2>1. Cardinality(S) = 0 BY <1>1, FS_EmptySet
  <2>2. QED BY <2>1
<1>2. CASE S # {}
  <2>1. PICK x \in S : TRUE BY <1>2
  <2>2. S = {x} BY <2>1
  <2>3. Cardinality(S) = 1 BY <2>2, FS_Singleton
  <2>4. QED BY <2>3
<1>3. QED BY <1>1, <1>2

\* How often a coroutine is in a list without duplicates.
LEMMA OccursOnce ==
  ASSUME NEW s \in Seq(Coroutines), Inj(s), NEW c
  PROVE  Occurrences(c, s) <= 1 /\ (Occurrences(c, s) > 0 => c \in Elems(s))
<1> DEFINE I == {i \in DOMAIN s : s[i] = c}
<1>1. DOMAIN s = 1 .. Len(s) OBVIOUS
<1>2. \A i, j \in I : i = j BY <1>1 DEF Inj
<1>3. Cardinality(I) <= 1 BY <1>2, AtMostOne
<1>4. Cardinality(I) > 0 => c \in Elems(s)
  <2>1. SUFFICES ASSUME c \notin Elems(s) PROVE Cardinality(I) = 0 BY <2>1
  <2>2. I = {} BY <1>1, <2>1 DEF Elems
  <2>3. QED BY <2>2, FS_EmptySet
<1>5. QED BY <1>3, <1>4 DEF Occurrences

\* A coroutine is in at most one list: what CoroutinesSafe says of the lists.
LEMMA InOneList == ListInv => OneList
<1> SUFFICES ASSUME ListInv, NEW c \in Coroutines
    PROVE LET inQueues  == [q \in Queues |-> Occurrences(c, entries[q])]
              inWakeups == [d \in Coroutines |-> Occurrences(c, wakeup[d])]
              lists     == {q \in Queues : inQueues[q] > 0}
                           \cup {d \in Coroutines : inWakeups[d] > 0}
          IN /\ Cardinality(lists) <= 1
             /\ \A q \in Queues : inQueues[q] <= 1
             /\ \A d \in Coroutines : inWakeups[d] <= 1
             /\ lists # {} => ~called[c] /\ at[c] \notin {"none", "run", "io"}
  BY DEF OneList
<1> DEFINE inQueues  == [q \in Queues |-> Occurrences(c, entries[q])]
           inWakeups == [d \in Coroutines |-> Occurrences(c, wakeup[d])]
           lists     == {q \in Queues : inQueues[q] > 0}
                        \cup {d \in Coroutines : inWakeups[d] > 0}
<1>1. \A q \in Queues : /\ inQueues[q] <= 1
                        /\ inQueues[q] > 0 => c \in Elems(entries[q])
  BY OccursOnce DEF ListInv, ListTypes, Distinct
<1>2. \A d \in Coroutines : /\ inWakeups[d] <= 1
                            /\ inWakeups[d] > 0 => c \in Elems(wakeup[d])
  BY OccursOnce DEF ListInv, ListTypes, Distinct
<1> HIDE DEF inQueues, inWakeups
<1>3. \A q, p \in Queues : q # p => Loop(q) \cap Loop(p) = {} BY DEF Queues, Loop
<1>4. \A x, y \in lists : x = y
  <2>1. ASSUME NEW q \in Queues, NEW p \in Queues, inQueues[q] > 0, inQueues[p] > 0
        PROVE  q = p
    <3>1. c \in Elems(entries[q]) /\ c \in Elems(entries[p]) BY <1>1, <2>1
    <3>2. at[c] \in Loop(q) /\ at[c] \in Loop(p) BY <3>1 DEF ListInv, Placed
    <3>3. QED BY <1>3, <3>2
  <2>2. ASSUME NEW d \in Coroutines, NEW e \in Coroutines,
               inWakeups[d] > 0, inWakeups[e] > 0
        PROVE  d = e
    <3>1. c \in Elems(wakeup[d]) /\ c \in Elems(wakeup[e]) BY <1>2, <2>2
    <3>2. QED BY <3>1 DEF ListInv, Distinct
  <2>3. ASSUME NEW q \in Queues, NEW d \in Coroutines,
               inQueues[q] > 0, inWakeups[d] > 0
        PROVE  FALSE
    <3>1. c \in Elems(entries[q]) /\ c \in Elems(wakeup[d]) BY <1>1, <1>2, <2>3
    <3>2. QED BY <3>1 DEF ListInv, Distinct
  <2>4. QED BY <2>1, <2>2, <2>3
<1>5. Cardinality(lists) <= 1
  <2> HIDE DEF lists
  <2>1. QED BY <1>4, AtMostOne
<1>6. lists # {} => ~called[c] /\ at[c] \notin {"none", "run", "io"}
  <2>1. \A q \in Queues : Loop(q) \subseteq Waits BY DEF Queues, Loop, Waits
  <2>2. QED BY <1>1, <1>2, <2>1 DEF ListInv, Placed, Waits
<1>7. QED BY <1>1, <1>2, <1>5, <1>6 DEF inQueues, inWakeups

-----------------------------------------------------------------------------
(* The locks.                                                              *)

Locks == {"mutex", "rd", "wr"}

\* A coroutine takes a lock; it releases one.
LEMMA HoldersAdd ==
  ASSUME LockInv, ListTypes, NEW c \in Coroutines, NEW l \in Locks,
         holds[c] = "none", holds' = [holds EXCEPT ![c] = l]
  PROVE  /\ \A k \in Locks : IsFiniteSet(Holders(k))'
         /\ Cardinality(Holders(l)') = Cardinality(Holders(l)) + 1
         /\ \A k \in Locks \ {l} : Holders(k)' = Holders(k)
<1>1. /\ Holders(l)' = Holders(l) \cup {c} /\ c \notin Holders(l)
      /\ \A k \in Locks \ {l} : Holders(k)' = Holders(k)
  BY DEF ListTypes, Holders, Locks
<1>2. \A k \in Locks : IsFiniteSet(Holders(k)) BY DEF LockInv, Locks
<1>3. /\ IsFiniteSet(Holders(l)')
      /\ Cardinality(Holders(l)') = Cardinality(Holders(l)) + 1
  BY <1>1, <1>2, FS_AddElement
<1>4. QED BY <1>1, <1>2, <1>3

\* One holder fewer, for one lock.
LEMMA HoldersRemove ==
  ASSUME LockInv, ListTypes, NEW c \in Coroutines, NEW l \in Locks,
         holds[c] = l, holds' = [holds EXCEPT ![c] = "none"]
  PROVE  /\ \A k \in Locks : IsFiniteSet(Holders(k))'
         /\ Cardinality(Holders(l)') = Cardinality(Holders(l)) - 1
         /\ \A k \in Locks \ {l} : Holders(k)' = Holders(k)
<1>1. /\ Holders(l)' = Holders(l) \ {c} /\ c \in Holders(l)
      /\ \A k \in Locks \ {l} : Holders(k)' = Holders(k)
  BY DEF ListTypes, Holders, Locks
<1>2. \A k \in Locks : IsFiniteSet(Holders(k)) BY DEF LockInv, Locks
<1>3. /\ IsFiniteSet(Holders(l)')
      /\ Cardinality(Holders(l)') = Cardinality(Holders(l)) - 1
  BY <1>1, <1>2, FS_RemoveElement
<1>4. QED BY <1>1, <1>2, <1>3

\* A lock with a holder is counted as held.
LEMMA HoldersPositive ==
  ASSUME LockInv, NEW c \in Coroutines, NEW l \in Locks, holds[c] = l
  PROVE  Cardinality(Holders(l)) \in Nat \ {0}
<1>1. IsFiniteSet(Holders(l)) /\ c \in Holders(l) BY DEF LockInv, Locks, Holders
<1>2. Cardinality(Holders(l)) \in Nat BY <1>1, FS_CardinalityType
<1>3. Cardinality(Holders(l)) # 0 BY <1>1, FS_EmptySet
<1>4. QED BY <1>2, <1>3

\* Steps that leave the locks alone.
LEMMA OtherSteps ==
  ASSUME ListTypes, [Next]_vars,
         \A c \in Coroutines :
           /\ ~qemu_co_mutex_lock(c) /\ ~qemu_co_mutex_unlock(c)
           /\ ~qemu_co_rwlock_rdlock(c) /\ ~qemu_co_rwlock_wrlock(c)
           /\ ~qemu_co_rwlock_unlock(c)
  PROVE  /\ UNCHANGED <<locked, writer, reader, holds>>
         /\ entries'["mutex"] = entries["mutex"] /\ entries'["rw"] = entries["rw"]
<1> DEFINE Same == /\ UNCHANGED <<locked, writer, reader, holds>>
                   /\ entries'["mutex"] = entries["mutex"]
                   /\ entries'["rw"] = entries["rw"]
<1>1. /\ "mutex" \in Queues /\ "rw" \in Queues /\ "queue" \in Queues
      /\ "queue" # "mutex" /\ "queue" # "rw"
      /\ entries \in [Queues -> Seq(Coroutines)]
  BY DEF Queues, ListTypes
<1>2. ASSUME NEW s, entries' = [entries EXCEPT !["queue"] = s]
      PROVE  entries'["mutex"] = entries["mutex"] /\ entries'["rw"] = entries["rw"]
  BY <1>1, <1>2
<1>3. CASE UNCHANGED vars BY <1>3 DEF vars
<1>4. CASE qemu_co_queue_run_restart BY <1>4 DEF qemu_co_queue_run_restart, lockVars
<1>5. CASE Return BY <1>5 DEF Return, lockVars
<1>6. CASE qemu_co_enter_next
  BY <1>6, <1>2 DEF qemu_co_enter_next, lockVars
<1>7. ASSUME NEW c \in Coroutines, Create(c) \/ YieldForIo(c) \/ IoDone(c) \/ Terminate(c)
      PROVE  Same
  BY <1>7 DEF Create, YieldForIo, IoDone, Terminate, lockVars
<1>8. ASSUME NEW c \in Coroutines, qemu_co_queue_wait(c) PROVE Same
  BY <1>8, <1>2 DEF qemu_co_queue_wait, QueueWait, lockVars
<1>9. ASSUME NEW c \in Coroutines, qemu_co_queue_next(c) \/ qemu_co_queue_restart_all(c)
      PROVE  Same
  <2>1. PICK single \in BOOLEAN : qemu_co_queue_do_restart(c, "queue", single)
    BY <1>9 DEF qemu_co_queue_next, qemu_co_queue_restart_all
  <2>2. entries'["mutex"] = entries["mutex"] /\ entries'["rw"] = entries["rw"]
    BY <2>1, <1>2 DEF qemu_co_queue_do_restart
  <2>3. QED
    BY <1>9, <2>2 DEF qemu_co_queue_next, qemu_co_queue_restart_all, lockVars
<1>10. QED
  BY <1>3, <1>4, <1>5, <1>6, <1>7, <1>8, <1>9 DEF Next, Step

\* Every step keeps the counters of the locks equal to the number of holders.
LEMMA LockInvStep ==
  ASSUME ListInv, LockInv, [Next]_vars
  PROVE  LockInv'
<1>0. /\ ListTypes /\ States /\ LockTypes /\ Exclusion
      /\ \A l \in Locks : IsFiniteSet(Holders(l))
      /\ {"mutex", "rd", "wr"} = Locks
  BY DEF ListInv, LockInv, Locks
<1>1. CASE UNCHANGED <<locked, writer, reader, holds>>
  BY <1>0, <1>1 DEF LockInv, LockTypes, Exclusion, Holders
<1>2. ASSUME NEW c \in Coroutines, qemu_co_mutex_lock(c) PROVE LockInv'
  <2>1. CASE UNCHANGED <<locked, writer, reader, holds>> BY <1>1, <2>1
  <2>2. CASE /\ ~locked /\ locked' = TRUE /\ UNCHANGED <<writer, reader>>
             /\ holds' = [holds EXCEPT ![c] = "mutex"]
    <3>1. holds[c] = "none" BY <1>2, <1>0 DEF qemu_co_mutex_lock, Wants, States
    <3>2. /\ \A k \in Locks : IsFiniteSet(Holders(k))'
          /\ Cardinality(Holders("mutex")') = Cardinality(Holders("mutex")) + 1
          /\ Holders("rd")' = Holders("rd")
          /\ Holders("wr")' = Holders("wr")
      BY <1>0, <2>2, <3>1, HoldersAdd DEF Locks
    <3>3. LockTypes' BY <1>0, <2>2 DEF LockTypes
    <3>4. Exclusion' BY <1>0, <2>2, <3>2 DEF Exclusion, LockTypes
    <3>5. QED BY <1>0, <3>2, <3>3, <3>4 DEF LockInv
  <2>3. QED BY <1>2, <2>1, <2>2 DEF qemu_co_mutex_lock, Block, Take, lockVars
<1>3. ASSUME NEW c \in Coroutines, qemu_co_rwlock_rdlock(c) PROVE LockInv'
  <2>1. CASE UNCHANGED <<locked, writer, reader, holds>> BY <1>1, <2>1
  <2>2. CASE /\ ~writer /\ reader' = reader + 1 /\ UNCHANGED <<locked, writer>>
             /\ holds' = [holds EXCEPT ![c] = "rd"]
    <3>1. holds[c] = "none" BY <1>3, <1>0 DEF qemu_co_rwlock_rdlock, Wants, States
    <3>2. /\ \A k \in Locks : IsFiniteSet(Holders(k))'
          /\ Cardinality(Holders("rd")') = Cardinality(Holders("rd")) + 1
          /\ Holders("mutex")' = Holders("mutex")
          /\ Holders("wr")' = Holders("wr")
      BY <1>0, <2>2, <3>1, HoldersAdd DEF Locks
    <3>3. LockTypes' BY <1>0, <2>2 DEF LockTypes
    <3>4. Exclusion' BY <1>0, <2>2, <3>2 DEF Exclusion, LockTypes
    <3>5. QED BY <1>0, <3>2, <3>3, <3>4 DEF LockInv
  <2>3. QED BY <1>3, <2>1, <2>2 DEF qemu_co_rwlock_rdlock, Block, Take, lockVars
<1>4. ASSUME NEW c \in Coroutines, qemu_co_rwlock_wrlock(c) PROVE LockInv'
  <2>1. CASE UNCHANGED <<locked, writer, reader, holds>> BY <1>1, <2>1
  <2>2. CASE /\ ~writer /\ reader = 0 /\ writer' = TRUE /\ UNCHANGED <<locked, reader>>
             /\ holds' = [holds EXCEPT ![c] = "wr"]
    <3>1. holds[c] = "none" BY <1>4, <1>0 DEF qemu_co_rwlock_wrlock, Wants, States
    <3>2. /\ \A k \in Locks : IsFiniteSet(Holders(k))'
          /\ Cardinality(Holders("wr")') = Cardinality(Holders("wr")) + 1
          /\ Holders("mutex")' = Holders("mutex")
          /\ Holders("rd")' = Holders("rd")
      BY <1>0, <2>2, <3>1, HoldersAdd DEF Locks
    <3>3. LockTypes' BY <1>0, <2>2 DEF LockTypes
    <3>4. Exclusion' BY <1>0, <2>2, <3>2 DEF Exclusion, LockTypes
    <3>5. QED BY <1>0, <3>2, <3>3, <3>4 DEF LockInv
  <2>3. QED BY <1>4, <2>1, <2>2 DEF qemu_co_rwlock_wrlock, Block, Take, lockVars
<1>5. ASSUME NEW c \in Coroutines, qemu_co_mutex_unlock(c) PROVE LockInv'
  <2>1. /\ holds[c] = "mutex" /\ locked' = FALSE /\ UNCHANGED <<writer, reader>>
        /\ holds' = [holds EXCEPT ![c] = "none"]
    BY <1>5 DEF qemu_co_mutex_unlock
  <2>2. Cardinality(Holders("mutex")) \in Nat \ {0}
    BY <1>0, <2>1, HoldersPositive
  <2>3. Cardinality(Holders("mutex")) = 1 BY <1>0, <2>2 DEF Exclusion
  <2>11. /\ \A k \in Locks : IsFiniteSet(Holders(k))'
         /\ Cardinality(Holders("mutex")') = Cardinality(Holders("mutex")) - 1
         /\ Holders("rd")' = Holders("rd")
         /\ Holders("wr")' = Holders("wr")
    BY <1>0, <2>1, <2>3, HoldersRemove DEF Locks
  <2>12. LockTypes' BY <1>0, <2>1, <2>3 DEF LockTypes
  <2>13. Exclusion' BY <1>0, <2>1, <2>3, <2>11 DEF Exclusion, LockTypes
  <2>14. QED BY <1>0, <2>11, <2>12, <2>13 DEF LockInv
<1>6. ASSUME NEW c \in Coroutines, qemu_co_rwlock_unlock(c) PROVE LockInv'
  <2>1. /\ holds[c] \in {"rd", "wr"} /\ UNCHANGED locked
        /\ holds' = [holds EXCEPT ![c] = "none"]
        /\ \/ writer /\ writer' = FALSE /\ UNCHANGED reader
           \/ ~writer /\ reader' = reader - 1 /\ UNCHANGED writer
    BY <1>6 DEF qemu_co_rwlock_unlock
  <2>2. Cardinality(Holders(holds[c])) \in Nat \ {0}
    BY <1>0, <2>1, HoldersPositive
  <2>3. CASE writer
    <3>1. holds[c] = "wr" /\ Cardinality(Holders("wr")) = 1
      BY <1>0, <2>1, <2>2, <2>3 DEF Exclusion
    <3>11. /\ \A k \in Locks : IsFiniteSet(Holders(k))'
           /\ Cardinality(Holders("wr")') = Cardinality(Holders("wr")) - 1
           /\ Holders("mutex")' = Holders("mutex")
           /\ Holders("rd")' = Holders("rd")
      BY <1>0, <2>1, <2>3, <3>1, HoldersRemove DEF Locks
    <3>12. LockTypes' BY <1>0, <2>1, <2>3, <3>1 DEF LockTypes
    <3>13. Exclusion' BY <1>0, <2>1, <2>3, <3>1, <3>11 DEF Exclusion, LockTypes
    <3>14. QED BY <1>0, <3>11, <3>12, <3>13 DEF LockInv
  <2>4. CASE ~writer
    <3>1. holds[c] = "rd" /\ reader \in Nat \ {0}
      BY <1>0, <2>1, <2>2, <2>4 DEF Exclusion
    <3>11. /\ \A k \in Locks : IsFiniteSet(Holders(k))'
           /\ Cardinality(Holders("rd")') = Cardinality(Holders("rd")) - 1
           /\ Holders("mutex")' = Holders("mutex")
           /\ Holders("wr")' = Holders("wr")
      BY <1>0, <2>1, <2>4, <3>1, HoldersRemove DEF Locks
    <3>12. LockTypes' BY <1>0, <2>1, <2>4, <3>1 DEF LockTypes
    <3>13. Exclusion' BY <1>0, <2>1, <2>4, <3>1, <3>11 DEF Exclusion, LockTypes
    <3>14. QED BY <1>0, <3>11, <3>12, <3>13 DEF LockInv
  <2>5. QED BY <2>3, <2>4
<1>7. QED BY <1>0, <1>1, <1>2, <1>3, <1>4, <1>5, <1>6, OtherSteps
-----------------------------------------------------------------------------
(* No hand-over is lost.                                             *)

\* Of those who wait for a lock, the ones that have been woken are the ones
\* that are not in its queue any more.
Handed ==
  /\ ~locked /\ Elems(entries["mutex"]) # {} =>
       \E c \in Coroutines : at[c] = "mutex" /\ c \notin Elems(entries["mutex"])
  /\ ~writer /\ reader = 0 /\ Elems(entries["rw"]) # {} =>
       \E c \in Coroutines : at[c] \in {"rd", "wr"} /\ c \notin Elems(entries["rw"])
  /\ ~writer => \A c \in Coroutines : at[c] = "rd" => c \notin Elems(entries["rw"])

\* A coroutine in the loop of a lock has been woken or is in the lock's queue.
LEMMA WokenIffOut ==
  ASSUME ListInv, NEW q \in Queues, NEW c \in Coroutines, at[c] \in Loop(q)
  PROVE  Woken(c) <=> c \notin Elems(entries[q])
<1>1. /\ \A p \in Queues : p # q => Loop(p) \cap Loop(q) = {}
      /\ at[c] \in Waits
  BY DEF Queues, Loop, Waits
<1>2. \A d \in Coroutines : Contains(wakeup[d], c) <=> c \in Elems(wakeup[d])
  BY DEF Contains, Elems
<1>3. called \in [Coroutines -> BOOLEAN] /\ Placed /\ Distinct
  BY DEF ListInv, ListTypes
<1>4. Woken(c) <=> called[c] \/ \E d \in Coroutines : c \in Elems(wakeup[d])
  BY <1>2 DEF Woken
<1>5. QED BY <1>1, <1>3, <1>4 DEF Placed, Distinct

\* A list is empty if it has no elements.
LEMMA EmptyElems ==
  ASSUME NEW S, NEW s \in Seq(S)
  PROVE  s = <<>> <=> Elems(s) = {}
<1>1. Len(s) \in Nat /\ (s = <<>> <=> Len(s) = 0) BY EmptySeq
<1>2. Len(s) # 0 => s[1] \in Elems(s) BY <1>1 DEF Elems
<1>3. Len(s) = 0 => Elems(s) = {} BY DEF Elems
<1>4. QED BY <1>1, <1>2, <1>3

\* HandedOver in terms of the queues instead of the wake-up lists.
LEMMA HandedIs == ListInv => (HandedOver <=> Handed)
<1> SUFFICES ASSUME ListInv PROVE HandedOver <=> Handed OBVIOUS
<1>1. /\ "mutex" \in Queues /\ "rw" \in Queues
      /\ Loop("mutex") = {"mutex"} /\ Loop("rw") = {"rd", "wr"}
  BY DEF Queues, Loop
<1>2. \A q \in Queues : entries[q] = <<>> <=> Elems(entries[q]) = {}
  BY EmptyElems DEF ListInv, ListTypes
<1>3. \A c \in Coroutines :
        /\ at[c] = "mutex" => (Woken(c) <=> c \notin Elems(entries["mutex"]))
        /\ at[c] \in {"rd", "wr"} => (Woken(c) <=> c \notin Elems(entries["rw"]))
  BY <1>1, WokenIffOut
<1>4. (entries["mutex"] = <<>> <=> Elems(entries["mutex"]) = {})
      /\ (entries["rw"] = <<>> <=> Elems(entries["rw"]) = {})
  BY <1>1, <1>2
<1>5. QED BY <1>3, <1>4 DEF HandedOver, Handed

\* Nobody comes to or leaves the loop of a lock operation otherwise.
LEMMA OthersStay ==
  ASSUME ListInv, [Next]_vars,
         \A c \in Coroutines :
           /\ ~qemu_co_mutex_lock(c) /\ ~qemu_co_mutex_unlock(c)
           /\ ~qemu_co_rwlock_rdlock(c) /\ ~qemu_co_rwlock_wrlock(c)
           /\ ~qemu_co_rwlock_unlock(c),
         NEW d \in Coroutines
  PROVE  at'[d] # at[d] => at[d] \notin Locks /\ at'[d] \notin Locks
<1>0. at \in [Coroutines -> At] /\ ListTypes BY DEF ListInv, ListTypes
<1> DEFINE Same == at'[d] # at[d] => at[d] \notin Locks /\ at'[d] \notin Locks
<1>1. ASSUME NEW c \in Coroutines, NEW w \in {"none", "run", "io", "queue"},
             at[c] \notin Locks, at' = [at EXCEPT ![c] = w]
      PROVE  Same
  BY <1>0, <1>1 DEF Locks
<1>3. CASE UNCHANGED at BY <1>3
<1>5. CASE Return
  <2>1. CASE Top.ret = "terminate"
    <3>1. stack # <<>> /\ stack \in Seq(Call) BY <1>0, <1>5 DEF Return, ListTypes
    <3>2. /\ Len(stack) \in 1 .. Len(stack) /\ Top = stack[Len(stack)]
          /\ Top \in Call
      BY <3>1, FrontOf DEF Top
    <3>3. at[Top.co] = "run" /\ Top.co \in Coroutines
      BY <2>1, <3>2 DEF ListInv, Calls, Call
    <3>4. at' = [at EXCEPT ![Top.co] = "none"] BY <1>5, <2>1 DEF Return
    <3>5. QED BY <1>1, <3>3, <3>4 DEF Locks
  <2>2. QED BY <1>3, <1>5, <2>1 DEF Return
<1>7. ASSUME NEW c \in Coroutines,
             Create(c) \/ YieldForIo(c) \/ IoDone(c) \/ qemu_co_queue_wait(c)
      PROVE  Same
  <2>1. /\ at[c] \notin Locks
        /\ \E w \in {"none", "run", "io", "queue"} : at' = [at EXCEPT ![c] = w]
    BY <1>7 DEF Create, YieldForIo, IoDone, qemu_co_queue_wait, Locks
  <2>2. QED BY <1>1, <2>1
<1>8. ASSUME NEW c \in Coroutines,
             Terminate(c) \/ qemu_co_queue_next(c) \/ qemu_co_queue_restart_all(c)
      PROVE  UNCHANGED at
  BY <1>8 DEF Terminate, qemu_co_queue_next, qemu_co_queue_restart_all
<1>10. QED
  BY <1>3, <1>5, <1>7, <1>8
     DEF Next, Step, qemu_co_enter_next, qemu_co_queue_run_restart, vars

\* An unlock that wakes one wakes the first of the queue.
LEMMA WakesOne ==
  ASSUME ListInv, NEW q \in Queues, NEW c \in Coroutines,
         qemu_co_queue_do_restart(c, q, TRUE), Elems(entries[q]) # {}
  PROVE  \E x \in Elems(entries[q]) : Elems(entries'[q]) = Elems(entries[q]) \ {x}
<1> DEFINE e == entries[q]
           r == entries'[q]
<1>1. e \in Seq(Coroutines) /\ Inj(e) BY DEF ListInv, ListTypes, Distinct
<1>2. e # <<>> /\ Len(e) \in Nat /\ Len(e) > 0 BY <1>1 DEF Elems
<1>3. PICK k \in 0 .. Len(e) : k = 1 /\ r = SubSeq(e, k + 1, Len(e))
  <2>1. entries \in [Queues -> Seq(Coroutines)] BY DEF ListInv, ListTypes
  <2>2. 1 \in 0 .. Len(e) /\ r = SubSeq(e, 1 + 1, Len(e))
    BY <1>2, <2>1 DEF qemu_co_queue_do_restart
  <2>3. QED BY <2>2
<1> HIDE DEF e, r
<1>4. Len(r) = Len(e) - 1 /\ \A i \in 1 .. Len(e) - 1 : r[i] = e[i + 1]
  <2>1. Len(r) = Len(e) - k /\ \A i \in 1 .. Len(e) - k : r[i] = e[k + i]
    <3>1. r = SubSeq(e, k + 1, Len(e)) BY <1>3
    <3>2. QED BY <1>1, <3>1
  <2>2. QED BY <1>3, <2>1
<1>5. Elems(r) = Elems(e) \ {e[1]} /\ e[1] \in Elems(e)
  BY <1>1, <1>2, <1>4, ElemsTail
<1>6. QED BY <1>5 DEF e, r

\* The mutex stays handed over when only the others move, and so does the
\* read-write lock.
LEMMA MutexAlone ==
  ASSUME ListTypes, Handed, locked' = locked, entries'["mutex"] = entries["mutex"],
         \A d \in Coroutines : at[d] = "mutex" => at'[d] = "mutex"
  PROVE  ~locked' /\ Elems(entries'["mutex"]) # {} =>
           \E c \in Coroutines : at'[c] = "mutex" /\ c \notin Elems(entries'["mutex"])
BY DEF Handed

RwHanded ==
  /\ ~writer /\ reader = 0 /\ Elems(entries["rw"]) # {} =>
       \E c \in Coroutines : at[c] \in {"rd", "wr"} /\ c \notin Elems(entries["rw"])
  /\ ~writer => \A c \in Coroutines : at[c] = "rd" => c \notin Elems(entries["rw"])

\* Steps that leave the rwlock and its waiters alone.
LEMMA RwAlone ==
  ASSUME Handed, writer' = writer, reader' = reader, entries'["rw"] = entries["rw"],
         \A d \in Coroutines : at[d] \in {"rd", "wr"} \/ at'[d] \in {"rd", "wr"}
                               => at'[d] = at[d]
  PROVE  RwHanded'
BY DEF Handed, RwHanded

\* Every step keeps a free lock handed to a woken coroutine.
LEMMA HandedStep ==
  ASSUME ListInv, LockInv, Handed, [Next]_vars
  PROVE  Handed'
<1> DEFINE M == ~locked /\ Elems(entries["mutex"]) # {} =>
       \E c \in Coroutines : at[c] = "mutex" /\ c \notin Elems(entries["mutex"])
<1>0. /\ ListTypes /\ ListTypes' /\ LockTypes /\ Exclusion
      /\ at \in [Coroutines -> At] /\ entries \in [Queues -> Seq(Coroutines)]
      /\ "mutex" \in Queues /\ "rw" \in Queues /\ "mutex" # "rw"
  BY ListTypesStep DEF ListInv, ListTypes, LockInv, Queues
<1>1. SUFFICES M' /\ RwHanded' BY DEF Handed, RwHanded
<1>2. CASE \A c \in Coroutines :
             /\ ~qemu_co_mutex_lock(c) /\ ~qemu_co_mutex_unlock(c)
             /\ ~qemu_co_rwlock_rdlock(c) /\ ~qemu_co_rwlock_wrlock(c)
             /\ ~qemu_co_rwlock_unlock(c)
  <2>1. /\ UNCHANGED <<locked, writer, reader, holds>>
        /\ entries'["mutex"] = entries["mutex"] /\ entries'["rw"] = entries["rw"]
    BY <1>0, <1>2, OtherSteps
  <2>2. \A d \in Coroutines : at'[d] # at[d] => at[d] \notin Locks /\ at'[d] \notin Locks
    BY <1>2, OthersStay
  <2>3. M' BY <1>0, <2>1, <2>2, MutexAlone DEF Locks
  <2>4. RwHanded' BY <1>0, <2>1, <2>2, RwAlone DEF Locks
  <2>5. QED BY <2>3, <2>4
<1>3. ASSUME NEW c \in Coroutines, qemu_co_mutex_lock(c) PROVE M' /\ RwHanded'
  <2>1. /\ locked' = TRUE /\ writer' = writer /\ reader' = reader
        /\ entries'["rw"] = entries["rw"] /\ at[c] \in {"run", "mutex"}
        /\ at' \in {[at EXCEPT ![c] = "run"], [at EXCEPT ![c] = "mutex"]}
    BY <1>0, <1>3
       DEF qemu_co_mutex_lock, Block, QueueWait, Take, Wants, lockVars, LockTypes
  <2>2. RwHanded' BY <1>0, <2>1, RwAlone
  <2>3. QED BY <2>1, <2>2
<1>4. ASSUME NEW c \in Coroutines, qemu_co_mutex_unlock(c) PROVE M' /\ RwHanded'
  <2>1. /\ writer' = writer /\ reader' = reader /\ at' = at
        /\ qemu_co_queue_do_restart(c, "mutex", TRUE)
    BY <1>4 DEF qemu_co_mutex_unlock
  <2>2. entries'["rw"] = entries["rw"]
    BY <1>0, <2>1 DEF qemu_co_queue_do_restart
  <2>3. RwHanded' BY <1>0, <2>1, <2>2, RwAlone
  <2>4. CASE Elems(entries["mutex"]) # {}
    <3>1. PICK x \in Elems(entries["mutex"]) :
            Elems(entries'["mutex"]) = Elems(entries["mutex"]) \ {x}
      BY <1>0, <2>1, <2>4, WakesOne
    <3>2. x \in Coroutines /\ at[x] = "mutex"
      BY <1>0, ElemsIn DEF ListInv, Placed, Loop
    <3>3. QED BY <2>1, <2>3, <3>1, <3>2
  <2>5. CASE Elems(entries["mutex"]) = {}
    <3>1. entries["mutex"] = <<>> BY <1>0, <2>5, EmptyElems
    <3>2. entries'["mutex"] = SubSeq(<<>>, 1, 0)
      BY <1>0, <2>1, <3>1 DEF qemu_co_queue_do_restart
    <3>3. Elems(entries'["mutex"]) = {} BY <3>2 DEF Elems
    <3>4. QED BY <2>3, <3>3
  <2>6. QED BY <2>4, <2>5
<1>5. ASSUME NEW c \in Coroutines, qemu_co_rwlock_rdlock(c) PROVE M' /\ RwHanded'
  <2>1. /\ locked' = locked /\ entries'["mutex"] = entries["mutex"]
        /\ at[c] \in {"run", "rd"}
        /\ at' \in {[at EXCEPT ![c] = "run"], [at EXCEPT ![c] = "rd"]}
        /\ \/ writer'
           \/ /\ ~writer /\ reader' = reader + 1 /\ entries' = entries
              /\ at' = [at EXCEPT ![c] = "run"]
    BY <1>0, <1>5
       DEF qemu_co_rwlock_rdlock, Block, QueueWait, Take, Wants, lockVars, LockTypes
  <2>2. M' BY <1>0, <2>1, MutexAlone
  <2>3. RwHanded' BY <1>0, <2>1 DEF RwHanded, Handed, LockTypes
  <2>4. QED BY <2>2, <2>3
<1>6. ASSUME NEW c \in Coroutines, qemu_co_rwlock_wrlock(c) PROVE M' /\ RwHanded'
  <2>1. /\ locked' = locked /\ entries'["mutex"] = entries["mutex"]
        /\ at[c] \in {"run", "wr"}
        /\ at' \in {[at EXCEPT ![c] = "run"], [at EXCEPT ![c] = "wr"]}
        /\ \/ writer'
           \/ /\ ~writer /\ reader' > 0 /\ at' = [at EXCEPT ![c] = "wr"]
              /\ Block(c, "wr", "rw")
    BY <1>0, <1>6
       DEF qemu_co_rwlock_wrlock, Block, QueueWait, Take, Wants, lockVars, LockTypes
  <2>2. M' BY <1>0, <2>1, MutexAlone
  <2>3. CASE writer' BY <2>2, <2>3 DEF RwHanded
  <2>4. CASE /\ ~writer /\ reader' > 0 /\ at' = [at EXCEPT ![c] = "wr"]
             /\ Block(c, "wr", "rw")
    <3>1. entries'["rw"] = Append(entries["rw"], c)
          /\ entries["rw"] \in Seq(Coroutines)
      BY <1>0, <2>4 DEF Block, QueueWait
    <3>2. Elems(entries'["rw"]) \subseteq Elems(entries["rw"]) \cup {c}
      BY <3>1 DEF Elems
    <3>3. \A d \in Coroutines : at'[d] = "rd" => d # c /\ at[d] = "rd"
      BY <1>0, <2>4
    <3>4. RwHanded' BY <2>4, <3>2, <3>3 DEF RwHanded, Handed
    <3>5. QED BY <2>2, <3>4
  <2>5. QED BY <2>1, <2>2, <2>3, <2>4
<1>7. ASSUME NEW c \in Coroutines, qemu_co_rwlock_unlock(c) PROVE M' /\ RwHanded'
  <2>1. locked' = locked /\ at' = at /\ holds[c] \in Locks
    BY <1>7 DEF qemu_co_rwlock_unlock, Locks
  <2>2. entries'["mutex"] = entries["mutex"]
    BY <1>0, <1>7 DEF qemu_co_rwlock_unlock, qemu_co_queue_do_restart
  <2>3. M' BY <1>0, <2>1, <2>2, MutexAlone
  <2>4. entries["rw"] \in Seq(Coroutines) /\ Len(entries["rw"]) \in Nat BY <1>0
  <2>5. CASE writer
    <3>1. qemu_co_queue_do_restart(c, "rw", FALSE)
      BY <1>7, <2>5 DEF qemu_co_rwlock_unlock
    <3>2. entries'["rw"] = SubSeq(entries["rw"], Len(entries["rw"]) + 1, Len(entries["rw"]))
      BY <1>0, <3>1 DEF qemu_co_queue_do_restart
    <3>3. Len(entries'["rw"]) = 0 BY <2>4, <3>2
    <3>4. Elems(entries'["rw"]) = {} BY <3>3 DEF Elems
    <3>5. QED BY <2>3, <3>4 DEF RwHanded
  <2>6. CASE ~writer
    <3>1. reader' = reader - 1 /\ writer' = writer
      BY <1>7, <2>6 DEF qemu_co_rwlock_unlock
    <3>2. holds[c] = "rd" /\ reader \in Nat \ {0}
      <4>1. Cardinality(Holders(holds[c])) \in Nat \ {0}
        BY <2>1, HoldersPositive
      <4>2. holds[c] \in {"rd", "wr"} BY <1>7 DEF qemu_co_rwlock_unlock
      <4>3. QED BY <1>0, <2>6, <4>1, <4>2 DEF Exclusion
    <3>3. CASE reader = 1 /\ Elems(entries["rw"]) # {}
      <4>1. qemu_co_queue_do_restart(c, "rw", TRUE)
        BY <1>7, <2>6, <3>3 DEF qemu_co_rwlock_unlock
      <4>2. PICK x \in Elems(entries["rw"]) :
              Elems(entries'["rw"]) = Elems(entries["rw"]) \ {x}
        BY <1>0, <4>1, <3>3, WakesOne
      <4>3. x \in Coroutines /\ at[x] \in {"rd", "wr"}
        BY <1>0, ElemsIn DEF ListInv, Placed, Loop
      <4>4. QED BY <2>1, <2>3, <2>6, <3>1, <4>2, <4>3 DEF RwHanded, Handed
    <3>4. CASE reader = 1 /\ Elems(entries["rw"]) = {}
      <4>1. entries["rw"] = <<>> BY <2>4, <3>4, EmptyElems
      <4>2. entries'["rw"] = SubSeq(<<>>, 1, 0)
        BY <1>0, <1>7, <2>6, <3>4, <4>1
           DEF qemu_co_rwlock_unlock, qemu_co_queue_do_restart
      <4>3. Elems(entries'["rw"]) = {} BY <4>2 DEF Elems
      <4>4. QED BY <2>3, <4>3 DEF RwHanded
    <3>5. CASE reader # 1
      <4>1. entries' = entries
        BY <1>7, <2>6, <3>5 DEF qemu_co_rwlock_unlock
      <4>2. reader' # 0 BY <3>1, <3>2, <3>5
      <4>3. QED BY <2>1, <2>3, <2>6, <4>1, <4>2 DEF RwHanded, Handed
    <3>6. QED BY <3>3, <3>4, <3>5
  <2>7. QED BY <2>5, <2>6
<1>8. QED BY <1>2, <1>3, <1>4, <1>5, <1>6, <1>7

-----------------------------------------------------------------------------
(* Theorems.                                                               *)

\* The invariant holds initially.
LEMMA InitIndInv == Init => IndInv
<1> SUFFICES ASSUME Init PROVE IndInv OBVIOUS
<1>1. ListInv BY InitListInv
<1>2. LockTypes /\ ~locked /\ ~writer /\ reader = 0 BY DEF Init, LockTypes
<1>3. \A l \in Locks : Holders(l) = {} BY DEF Init, Locks, Holders
<1>4. IsFiniteSet({}) /\ Cardinality({}) = 0 BY FS_EmptySet
<1>5. \A l \in Locks : IsFiniteSet(Holders(l)) BY <1>3, <1>4
<1>6. Exclusion BY <1>2, <1>3, <1>4 DEF Exclusion, Locks
<1>7. Handed BY DEF Init, Handed, Queues, Elems
<1>8. HandedOver BY <1>1, <1>7, HandedIs
<1>9. QED BY <1>1, <1>2, <1>5, <1>6, <1>8 DEF IndInv, LockInv, Locks

\* Every step preserves the invariant.
LEMMA IndInvStep == IndInv /\ [Next]_vars => IndInv'
<1> SUFFICES ASSUME IndInv, [Next]_vars PROVE IndInv' OBVIOUS
<1>1. ListInv /\ LockInv /\ Handed BY HandedIs DEF IndInv
<1>2. ListInv' BY <1>1, ListInvStep
<1>3. LockInv' BY <1>1, LockInvStep
<1>4. Handed' BY <1>1, HandedStep
<1>5. ListInv' => (HandedOver' <=> Handed') BY HandedIs, PTL
<1>6. QED BY <1>2, <1>3, <1>4, <1>5 DEF IndInv

\* The invariant holds in every reachable state.
LEMMA IndInvHolds == Spec => []IndInv
BY InitIndInv, IndInvStep, PTL DEF Spec

\* Only memory of coroutines is freed.
LEMMA FreedHolds == Spec => [](freed \in SUBSET Coroutines)
<1>1. Init => freed \in SUBSET Coroutines BY DEF Init
<1>2. IndInv /\ freed \in SUBSET Coroutines /\ [Next]_vars
        => (freed \in SUBSET Coroutines)'
  <2> SUFFICES ASSUME IndInv, freed \in SUBSET Coroutines, [Next]_vars
               PROVE  freed' \in SUBSET Coroutines
    OBVIOUS
  <2>1. CASE Return
    <3>1. Top \in Call
      <4>1. stack \in Seq(Call) /\ stack # <<>>
        BY <2>1 DEF IndInv, ListInv, ListTypes, Return
      <4>2. Len(stack) \in DOMAIN stack BY <4>1, EmptySeq, LenProperties
      <4>3. QED BY <4>1, <4>2, ElementOfSeq, LenProperties DEF Top, Last
    <3>2. Top.co \in Coroutines BY <3>1 DEF Call
    <3>3. QED BY <2>1, <3>2 DEF Return
  <2>2. ASSUME NEW c \in Coroutines, Create(c) PROVE freed' \in SUBSET Coroutines
    BY <2>2 DEF Create
  <2>3. CASE UNCHANGED freed BY <2>3
  <2>4. QED
    BY <2>1, <2>2, <2>3
       DEF Next, Step, vars, qemu_co_queue_run_restart, YieldForIo, IoDone, Terminate,
           qemu_co_queue_wait, qemu_co_queue_next, qemu_co_queue_restart_all,
           qemu_co_enter_next, qemu_co_mutex_lock, qemu_co_mutex_unlock,
           qemu_co_rwlock_rdlock, qemu_co_rwlock_wrlock, qemu_co_rwlock_unlock,
           Take, Block
<1>3. QED BY <1>1, <1>2, IndInvHolds, PTL DEF Spec

\* The locks exclude whatever the order in which coroutines are woken, run and
\* take them: qemu_co_mutex_unlock and qemu_co_rwlock_unlock give the lock to
\* nobody, and who comes first has it.
THEOREM LocksExclude == Spec => []Exclusion
<1>1. IndInv => Exclusion BY DEF IndInv, LockInv
<1>2. QED BY <1>1, IndInvHolds, PTL

\* The hand-over loses nobody: a lock that is free has woken a waiter that has
\* not looked at it yet, however the calls of qemu_coroutine_enter nest.
THEOREM NoLostHandOver == Spec => []HandedOver
<1>1. IndInv => HandedOver BY DEF IndInv
<1>2. QED BY <1>1, IndInvHolds, PTL

\* A coroutine is in one list at a time, every list of woken coroutines will be
\* run by a call on the stack, and the abort() of qemu_coroutine_enter for a
\* coroutine entered twice is never reached.
THEOREM CoroutinesStaySafe == Spec => []CoroutinesSafe
<1>1. IndInv /\ freed \in SUBSET Coroutines => CoroutinesSafe
  <2> SUFFICES ASSUME IndInv, freed \in SUBSET Coroutines PROVE CoroutinesSafe OBVIOUS
  <2>1. TypeOK BY DEF IndInv, ListInv, LockInv, ListTypes, LockTypes, TypeOK
  <2>2. OneList BY InOneList DEF IndInv
  <2>3. NotReentered BY DEF IndInv, ListInv, ListTypes, NotReentered
  <2>4. QED BY <2>1, <2>2, <2>3 DEF CoroutinesSafe, IndInv, ListInv
<1>2. QED BY <1>1, IndInvHolds, FreedHolds, PTL
=============================================================================
