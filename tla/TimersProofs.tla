---------------------------- MODULE TimersProofs ----------------------------
(***************************************************************************)
(* Safety of a list of timers, for any number of timers, threads and       *)
(* nested calls of aio_poll: the list stays sorted and holds the pending   *)
(* timers, the runner does not sleep past the first of them, and a         *)
(* disabled clock is quiet if callbacks do not poll.                       *)
(***************************************************************************)
EXTENDS Timers, TLAPS, FiniteSetTheorems, SequenceTheorems, WellFoundedInduction

Elems(s) == {s[i] : i \in 1 .. Len(s)}

\* Every element once, soonest first by x.
Sorted(s, x) ==
  \A i, j \in 1 .. Len(s) : i < j => s[i] # s[j] /\ x[s[i]] <= x[s[j]]

\* A list of timers whose times are x.
ListOf(s, x) ==
  /\ s \in Seq(Timers) /\ x \in [Timers -> Times]
  /\ Sorted(s, x) /\ \A t \in Elems(s) : x[t] # -1

-----------------------------------------------------------------------------
(* Lists.                                                                  *)

\* The elements of a sequence.
LEMMA ElemsOf ==
  ASSUME NEW S, NEW s \in Seq(S)
  PROVE  /\ Len(s) \in Nat /\ DOMAIN s = 1 .. Len(s) /\ Elems(s) \subseteq S
         /\ \A i \in 1 .. Len(s) : s[i] \in S
         /\ \A t : Contains(s, t) <=> t \in Elems(s)
         /\ s # <<>> => /\ Len(s) > 0 /\ 1 \in 1 .. Len(s) /\ Head(s) = s[1]
                        /\ Head(s) \in Elems(s)
<1>1. Len(s) \in Nat /\ DOMAIN s = 1 .. Len(s) /\ \A i \in 1 .. Len(s) : s[i] \in S
  OBVIOUS
<1>2. s # <<>> => Len(s) > 0 /\ Head(s) = s[1] OBVIOUS
<1>3. QED BY <1>1, <1>2 DEF Elems, Contains

\* A set of numbers has a smallest one.
LEMMA MinIs ==
  ASSUME NEW T, T \subseteq Nat, T # {}
  PROVE  Min(T) \in T /\ \A y \in T : Min(T) <= y
<1>1. PICK x \in T : \A y \in T : ~(<<y, x>> \in OpToRel(<, Nat))
  BY NatLessThanWellFounded, WFMin
<1>2. \A y \in T : y \in Nat /\ x \in Nat /\ ~(y < x)
  BY <1>1 DEF OpToRel
<1>3. \A y \in T : x <= y BY <1>2
<1>4. QED BY <1>3 DEF Min

\* Removing and inserting one element of a sequence.
LEMMA RemoveAtIs ==
  ASSUME NEW S, NEW s \in Seq(S), NEW i \in 1 .. Len(s)
  PROVE  /\ RemoveAt(s, i) \in Seq(S) /\ Len(RemoveAt(s, i)) = Len(s) - 1
         /\ \A j \in 1 .. i - 1 : RemoveAt(s, i)[j] = s[j]
         /\ \A j \in i .. Len(s) - 1 : RemoveAt(s, i)[j] = s[j + 1]
<1> DEFINE a == SubSeq(s, 1, i - 1)
           b == SubSeq(s, i + 1, Len(s))
<1>1. a \in Seq(S) /\ Len(a) = i - 1 OBVIOUS
<1>2. b \in Seq(S) /\ Len(b) = Len(s) - i OBVIOUS
<1>3. \A j \in 1 .. i - 1 : a[j] = s[j] OBVIOUS
<1>4. \A j \in 1 .. Len(s) - i : b[j] = s[i + j] OBVIOUS
<1>5. RemoveAt(s, i) = a \o b BY DEF RemoveAt
<1>6. Len(s) \in Nat /\ i \in Nat OBVIOUS
<1> HIDE DEF a, b
<1>7. /\ a \o b \in Seq(S) /\ Len(a \o b) = (i - 1) + (Len(s) - i)
      /\ \A j \in 1 .. (i - 1) + (Len(s) - i) :
           (a \o b)[j] = IF j <= i - 1 THEN a[j] ELSE b[j - (i - 1)]
  <2>1. /\ a \o b \in Seq(S) /\ Len(a \o b) = Len(a) + Len(b)
        /\ \A j \in 1 .. Len(a) + Len(b) :
             (a \o b)[j] = IF j <= Len(a) THEN a[j] ELSE b[j - Len(a)]
    BY <1>1, <1>2, ConcatProperties
  <2>2. QED BY <1>1, <1>2, <2>1
<1>8. (i - 1) + (Len(s) - i) = Len(s) - 1 BY <1>6
<1>9. ASSUME NEW j \in 1 .. i - 1 PROVE (a \o b)[j] = s[j]
  <2>1. j \in 1 .. (i - 1) + (Len(s) - i) /\ j <= i - 1 BY <1>6
  <2>2. QED BY <1>3, <1>7, <2>1
<1>10. ASSUME NEW j \in i .. Len(s) - 1 PROVE (a \o b)[j] = s[j + 1]
  <2>1. /\ j \in 1 .. (i - 1) + (Len(s) - i) /\ ~(j <= i - 1)
        /\ j - (i - 1) \in 1 .. Len(s) - i /\ i + (j - (i - 1)) = j + 1
    BY <1>6
  <2>2. (a \o b)[j] = b[j - (i - 1)] BY <1>7, <2>1
  <2>3. b[j - (i - 1)] = s[i + (j - (i - 1))] BY <1>4, <2>1
  <2>4. QED BY <2>1, <2>2, <2>3
<1>11. QED BY <1>5, <1>7, <1>8, <1>9, <1>10

\* What InsertAt returns.
LEMMA InsertAtIs ==
  ASSUME NEW S, NEW s \in Seq(S), NEW i \in 1 .. Len(s) + 1, NEW x \in S
  PROVE  /\ InsertAt(s, i, x) \in Seq(S) /\ Len(InsertAt(s, i, x)) = Len(s) + 1
         /\ \A j \in 1 .. i - 1 : InsertAt(s, i, x)[j] = s[j]
         /\ InsertAt(s, i, x)[i] = x
         /\ \A j \in i + 1 .. Len(s) + 1 : InsertAt(s, i, x)[j] = s[j - 1]
<1> DEFINE a == SubSeq(s, 1, i - 1)
           b == SubSeq(s, i, Len(s))
           c == a \o <<x>>
<1>1. a \in Seq(S) /\ Len(a) = i - 1 OBVIOUS
<1>2. b \in Seq(S) /\ Len(b) = Len(s) - i + 1 OBVIOUS
<1>3. \A j \in 1 .. i - 1 : a[j] = s[j] OBVIOUS
<1>4. \A j \in 1 .. Len(s) - i + 1 : b[j] = s[i + j - 1] OBVIOUS
<1>5. InsertAt(s, i, x) = c \o b BY DEF InsertAt
<1>6. Len(s) \in Nat /\ i \in Nat OBVIOUS
<1> HIDE DEF a, b
<1>7. /\ c \in Seq(S) /\ Len(c) = i /\ c[i] = x
      /\ \A j \in 1 .. i - 1 : c[j] = s[j]
  <2>1. <<x>> \in Seq(S) /\ Len(<<x>>) = 1 /\ <<x>>[1] = x OBVIOUS
  <2>2. /\ c \in Seq(S) /\ Len(c) = Len(a) + 1
        /\ \A j \in 1 .. Len(a) + 1 :
             c[j] = IF j <= Len(a) THEN a[j] ELSE <<x>>[j - Len(a)]
    BY <1>1, <2>1, ConcatProperties
  <2>3. Len(c) = i BY <1>1, <1>6, <2>2
  <2>4. c[i] = x
    <3>1. i \in 1 .. Len(a) + 1 /\ ~(i <= Len(a)) /\ i - Len(a) = 1 BY <1>1, <1>6
    <3>2. QED BY <2>1, <2>2, <3>1
  <2>5. ASSUME NEW j \in 1 .. i - 1 PROVE c[j] = s[j]
    <3>1. j \in 1 .. Len(a) + 1 /\ j <= Len(a) BY <1>1, <1>6
    <3>2. QED BY <1>3, <2>2, <3>1
  <2>6. QED BY <2>2, <2>3, <2>4, <2>5
<1> HIDE DEF c
<1>8. /\ c \o b \in Seq(S) /\ Len(c \o b) = i + (Len(s) - i + 1)
      /\ \A j \in 1 .. i + (Len(s) - i + 1) :
           (c \o b)[j] = IF j <= i THEN c[j] ELSE b[j - i]
  <2>1. /\ c \o b \in Seq(S) /\ Len(c \o b) = Len(c) + Len(b)
        /\ \A j \in 1 .. Len(c) + Len(b) :
             (c \o b)[j] = IF j <= Len(c) THEN c[j] ELSE b[j - Len(c)]
    BY <1>2, <1>7, ConcatProperties
  <2>2. QED BY <1>2, <1>7, <2>1
<1>9. i + (Len(s) - i + 1) = Len(s) + 1 BY <1>6
<1>10. ASSUME NEW j \in 1 .. i - 1 PROVE (c \o b)[j] = s[j]
  <2>1. j \in 1 .. i + (Len(s) - i + 1) /\ j <= i BY <1>6
  <2>2. QED BY <1>7, <1>8, <2>1
<1>11. (c \o b)[i] = x
  <2>1. i \in 1 .. i + (Len(s) - i + 1) /\ i <= i BY <1>6
  <2>2. QED BY <1>7, <1>8, <2>1
<1>12. ASSUME NEW j \in i + 1 .. Len(s) + 1 PROVE (c \o b)[j] = s[j - 1]
  <2>1. /\ j \in 1 .. i + (Len(s) - i + 1) /\ ~(j <= i)
        /\ j - i \in 1 .. Len(s) - i + 1 /\ i + (j - i) - 1 = j - 1
    BY <1>6
  <2>2. (c \o b)[j] = b[j - i] BY <1>8, <2>1
  <2>3. b[j - i] = s[i + (j - i) - 1] BY <1>4, <2>1
  <2>4. QED BY <2>1, <2>2, <2>3
<1>13. QED BY <1>5, <1>8, <1>9, <1>10, <1>11, <1>12

\* timer_del_locked removes the timer and nothing else; what is first then
\* expires no sooner than what was first.
LEMMA WithoutIs ==
  ASSUME NEW s, NEW x, ListOf(s, x), NEW t \in Timers
  PROVE  /\ ListOf(Without(s, t), x) /\ Elems(Without(s, t)) = Elems(s) \ {t}
         /\ Without(s, t) # <<>> => /\ s # <<>>
                                    /\ x[s[1]] <= x[Without(s, t)[1]]
<1>1. s \in Seq(Timers) /\ Len(s) \in Nat BY ElemsOf DEF ListOf
<1>2. CASE t \notin Elems(s)
  <2>1. Without(s, t) = s BY <1>2 DEF Without, RemoveFirst, Elems
  <2>2. s # <<>> => s[1] \in Timers BY <1>1, ElemsOf
  <2>3. s # <<>> => x[s[1]] <= x[s[1]] BY <2>2 DEF ListOf, Times
  <2>4. QED BY <1>2, <2>1, <2>3
<1>3. CASE t \in Elems(s)
  <2>1. PICK i \in 1 .. Len(s) : s[i] = t BY <1>3 DEF Elems
  <2>2. \A j \in 1 .. Len(s) : s[j] = t => j = i
    <3> SUFFICES ASSUME NEW j \in 1 .. Len(s), s[j] = t, j # i PROVE FALSE OBVIOUS
    <3>1. j < i \/ i < j BY <1>1
    <3>2. QED BY <2>1, <3>1 DEF ListOf, Sorted
  <2>3. SelectInSeq(s, LAMBDA v : v = t) = i
    <3>1. {j \in 1 .. Len(s) : s[j] = t} = {i} BY <2>1, <2>2
    <3>2. Min({i}) = i
      <4>1. {i} \subseteq Nat BY <1>1
      <4>2. Min({i}) \in {i} BY <4>1, MinIs
      <4>3. QED BY <4>2
    <3>3. QED BY <3>1, <3>2 DEF SelectInSeq
  <2> DEFINE r == Without(s, t)
  <2>4. r = RemoveAt(s, i) BY <2>1, <2>3 DEF Without, RemoveFirst
  <2> HIDE DEF r
  <2>5. /\ r \in Seq(Timers) /\ Len(r) = Len(s) - 1
        /\ \A j \in 1 .. i - 1 : r[j] = s[j]
        /\ \A j \in i .. Len(s) - 1 : r[j] = s[j + 1]
    BY <1>1, <2>4, RemoveAtIs
  <2> DEFINE p(j) == IF j < i THEN j ELSE j + 1
  <2>6. \A j \in 1 .. Len(r) : p(j) \in 1 .. Len(s) /\ p(j) # i /\ r[j] = s[p(j)]
    BY <1>1, <2>1, <2>5
  <2>7. \A j, k \in 1 .. Len(r) : j < k => p(j) < p(k) BY <1>1, <2>1, <2>5
  <2>8. \A k \in 1 .. Len(s) : k # i => \E j \in 1 .. Len(r) : p(j) = k
    <3>1. SUFFICES ASSUME NEW k \in 1 .. Len(s), k # i
                   PROVE  \E j \in 1 .. Len(r) : p(j) = k
      OBVIOUS
    <3>2. CASE k < i
      <4>1. k \in 1 .. Len(r) /\ p(k) = k BY <1>1, <2>1, <2>5, <3>2
      <4>2. QED BY <4>1
    <3>3. CASE k > i
      <4>1. k - 1 \in 1 .. Len(r) /\ p(k - 1) = k BY <1>1, <2>1, <2>5, <3>3
      <4>2. QED BY <4>1
    <3>4. QED BY <2>1, <3>1, <3>2, <3>3
  <2> HIDE DEF p
  <2>9. Sorted(r, x) BY <2>6, <2>7 DEF ListOf, Sorted
  <2>10. Elems(r) = Elems(s) \ {t}
    <3>1. ASSUME NEW j \in 1 .. Len(r) PROVE r[j] \in Elems(s) \ {t}
      BY <2>2, <2>6, <3>1 DEF Elems
    <3>2. ASSUME NEW k \in 1 .. Len(s), s[k] # t PROVE s[k] \in Elems(r)
      BY <2>1, <2>6, <2>8, <3>2 DEF Elems
    <3>3. QED BY <3>1, <3>2 DEF Elems
  <2>11. r # <<>> => s # <<>> /\ x[s[1]] <= x[r[1]]
    <3> SUFFICES ASSUME r # <<>> PROVE s # <<>> /\ x[s[1]] <= x[r[1]] OBVIOUS
    <3>1. 1 \in 1 .. Len(r) /\ 1 \in 1 .. Len(s) /\ s # <<>>
      BY <1>1, <2>5, ElemsOf
    <3>2. r[1] = s[p(1)] /\ p(1) \in 1 .. Len(s) /\ s[1] \in Timers BY <1>1, <2>6, <3>1
    <3>3. CASE p(1) = 1 BY <3>2, <3>3 DEF ListOf, Times
    <3>4. CASE p(1) # 1
      <4>1. 1 < p(1) BY <3>2, <3>4
      <4>2. QED BY <3>1, <3>2, <4>1 DEF ListOf, Sorted
    <3>5. QED BY <3>3, <3>4
  <2>12. ListOf(r, x) BY <2>5, <2>9, <2>10 DEF ListOf
  <2>13. QED BY <2>10, <2>11, <2>12 DEF r
<1>4. QED BY <1>2, <1>3

\* timer_mod_ns_locked stops at the first timer that expires later.
LEMMA PositionIs ==
  ASSUME NEW s, ListOf(s, expire_time), NEW e \in Times
  PROVE  /\ Position(s, e) \in 1 .. Len(s) + 1
         /\ \A j \in 1 .. Len(s) : j < Position(s, e) => expire_time[s[j]] <= e
         /\ \A j \in 1 .. Len(s) : j >= Position(s, e) => expire_time[s[j]] > e
<1>1. /\ s \in Seq(Timers) /\ Len(s) \in Nat
      /\ \A j \in 1 .. Len(s) : expire_time[s[j]] \in Times
  BY ElemsOf DEF ListOf
<1> DEFINE T == {i \in 1 .. Len(s) : expire_time[s[i]] > e}
<1>2. SelectInSeq(s, LAMBDA u : expire_time[u] > e) = IF T # {} THEN Min(T) ELSE 0
  BY DEF SelectInSeq
<1>3. CASE T = {}
  <2>1. Position(s, e) = Len(s) + 1 BY <1>2, <1>3 DEF Position
  <2>2. \A j \in 1 .. Len(s) : ~(expire_time[s[j]] > e) BY <1>3
  <2>3. QED BY <1>1, <2>1, <2>2 DEF Times
<1>4. CASE T # {}
  <2>1. T \subseteq Nat BY <1>1
  <2>2. Min(T) \in T /\ \A y \in T : Min(T) <= y BY <1>4, <2>1, MinIs
  <2>3. Min(T) \in 1 .. Len(s) /\ expire_time[s[Min(T)]] > e BY <2>2
  <2>4. Position(s, e) = Min(T) BY <1>1, <1>2, <1>4, <2>3 DEF Position
  <2>5. ASSUME NEW j \in 1 .. Len(s), j < Min(T) PROVE expire_time[s[j]] <= e
    <3>1. j \notin T BY <1>1, <2>1, <2>2, <2>5
    <3>2. QED BY <1>1, <3>1 DEF Times
  <2>6. ASSUME NEW j \in 1 .. Len(s), j >= Min(T) PROVE expire_time[s[j]] > e
    <3>1. CASE j = Min(T) BY <2>3, <3>1
    <3>2. CASE j # Min(T)
      <4>1. Min(T) < j BY <2>3, <2>6, <3>2
      <4>2. expire_time[s[Min(T)]] <= expire_time[s[j]]
        BY <2>3, <4>1 DEF ListOf, Sorted
      <4>3. QED BY <1>1, <2>3, <4>2 DEF Times
    <3>3. QED BY <3>1, <3>2
  <2>7. QED BY <1>1, <2>3, <2>4, <2>5, <2>6
<1>5. QED BY <1>3, <1>4

\* The times after one timer was armed.
Armed(x, t, e) == [x EXCEPT ![t] = IF e < 0 THEN 0 ELSE e]

\* timer_mod_ns_locked keeps the list sorted, also for a time that is negative.
LEMMA InsertIs ==
  ASSUME NEW s, ListOf(s, expire_time), NEW t \in Timers \ Elems(s), NEW e \in Times,
         NEW r, r = InsertAt(s, Position(s, e), t),
         NEW y, y = Armed(expire_time, t, e)
  PROVE  /\ ListOf(r, y) /\ Elems(r) = Elems(s) \cup {t} /\ r # <<>>
         /\ Position(s, e) # 1 => s # <<>> /\ r[1] = s[1] /\ s[1] # t
<1> DEFINE k == Position(s, e)
<1>0. s \in Seq(Timers) /\ Len(s) \in Nat /\ expire_time \in [Timers -> Times]
  BY ElemsOf DEF ListOf
<1>1. /\ k \in 1 .. Len(s) + 1
      /\ \A j \in 1 .. Len(s) : j < k => expire_time[s[j]] <= e
      /\ \A j \in 1 .. Len(s) : j >= k => expire_time[s[j]] > e
  BY PositionIs
<1>2. r = InsertAt(s, k, t) OBVIOUS
<1> HIDE DEF k
<1>3. /\ r \in Seq(Timers) /\ Len(r) = Len(s) + 1
      /\ \A j \in 1 .. k - 1 : r[j] = s[j]
      /\ r[k] = t
      /\ \A j \in k + 1 .. Len(s) + 1 : r[j] = s[j - 1]
  BY <1>0, <1>1, <1>2, InsertAtIs
<1>4. MaxTime \in Nat BY TimersAssumption
<1>5. /\ y \in [Timers -> Times] /\ y[t] = (IF e < 0 THEN 0 ELSE e) /\ y[t] # -1
      /\ \A u \in Timers : u # t => y[u] = expire_time[u]
  BY <1>0, <1>4 DEF Times, Armed
<1>6. \A j \in 1 .. Len(s) : /\ s[j] \in Timers /\ s[j] # t /\ y[s[j]] = expire_time[s[j]]
                             /\ expire_time[s[j]] \in Times /\ expire_time[s[j]] # -1
  <2> SUFFICES ASSUME NEW j \in 1 .. Len(s)
               PROVE  /\ s[j] \in Timers /\ s[j] # t /\ y[s[j]] = expire_time[s[j]]
                      /\ expire_time[s[j]] \in Times /\ expire_time[s[j]] # -1
    OBVIOUS
  <2>1. s[j] \in Timers /\ s[j] \in Elems(s) BY <1>0 DEF Elems
  <2>2. QED BY <1>0, <1>5, <2>1 DEF ListOf
<1> DEFINE q(j) == IF j < k THEN j ELSE j - 1
<1>7. \A j \in 1 .. Len(r) : j # k => q(j) \in 1 .. Len(s) /\ r[j] = s[q(j)]
  <2> SUFFICES ASSUME NEW j \in 1 .. Len(r), j # k
               PROVE  q(j) \in 1 .. Len(s) /\ r[j] = s[q(j)]
    OBVIOUS
  <2>1. CASE j < k
    <3>1. j \in 1 .. k - 1 /\ j \in 1 .. Len(s) /\ q(j) = j BY <1>0, <1>1, <1>3, <2>1
    <3>2. QED BY <1>3, <3>1
  <2>2. CASE ~(j < k)
    <3>1. j \in k + 1 .. Len(s) + 1 /\ q(j) = j - 1 /\ j - 1 \in 1 .. Len(s)
      BY <1>0, <1>1, <1>3, <2>2
    <3>2. QED BY <1>3, <3>1
  <2>3. QED BY <2>1, <2>2
<1>8. Sorted(r, y)
  <2> SUFFICES ASSUME NEW i \in 1 .. Len(r), NEW j \in 1 .. Len(r), i < j
               PROVE  r[i] # r[j] /\ y[r[i]] <= y[r[j]]
    BY DEF Sorted
  <2>1. CASE i # k /\ j # k
    <3>1. /\ q(i) \in 1 .. Len(s) /\ r[i] = s[q(i)]
          /\ q(j) \in 1 .. Len(s) /\ r[j] = s[q(j)]
      BY <1>7, <2>1
    <3>2. q(i) < q(j) BY <1>0, <1>1, <1>3, <2>1
    <3>3. s[q(i)] # s[q(j)] /\ expire_time[s[q(i)]] <= expire_time[s[q(j)]]
      BY <3>1, <3>2 DEF ListOf, Sorted
    <3>4. QED BY <1>6, <3>1, <3>3
  <2>2. CASE i = k
    <3>1. j # k /\ q(j) >= k BY <1>0, <1>1, <1>3, <2>2
    <3>2. q(j) \in 1 .. Len(s) /\ r[j] = s[q(j)] BY <1>7, <3>1
    <3> HIDE DEF q
    <3>3. expire_time[s[q(j)]] > e BY <1>1, <3>1, <3>2
    <3>4. r[i] = t BY <1>3, <2>2
    <3>5. /\ s[q(j)] # t /\ y[s[q(j)]] = expire_time[s[q(j)]]
          /\ expire_time[s[q(j)]] \in Times /\ expire_time[s[q(j)]] # -1
      BY <1>6, <3>2
    <3>6. y[t] <= expire_time[s[q(j)]] BY <1>4, <1>5, <3>3, <3>5 DEF Times
    <3>7. QED BY <3>2, <3>4, <3>5, <3>6
  <2>3. CASE j = k
    <3>1. i # k /\ q(i) < k BY <1>0, <1>1, <1>3, <2>3
    <3>2. q(i) \in 1 .. Len(s) /\ r[i] = s[q(i)] BY <1>7, <3>1
    <3> HIDE DEF q
    <3>3. expire_time[s[q(i)]] <= e BY <1>1, <3>1, <3>2
    <3>4. r[j] = t BY <1>3, <2>3
    <3>5. /\ s[q(i)] # t /\ y[s[q(i)]] = expire_time[s[q(i)]]
          /\ expire_time[s[q(i)]] \in Times /\ expire_time[s[q(i)]] # -1
      BY <1>6, <3>2
    <3>6. expire_time[s[q(i)]] <= y[t] BY <1>4, <1>5, <3>3, <3>5 DEF Times
    <3>7. QED BY <3>2, <3>4, <3>5, <3>6
  <2>4. QED BY <2>1, <2>2, <2>3
<1>9. Elems(r) = Elems(s) \cup {t}
  <2>1. ASSUME NEW j \in 1 .. Len(r) PROVE r[j] \in Elems(s) \cup {t}
    <3>1. CASE j = k BY <1>3, <3>1
    <3>2. CASE j # k
      <4>1. q(j) \in 1 .. Len(s) /\ r[j] = s[q(j)] BY <1>7, <3>2
      <4> HIDE DEF q
      <4>2. QED BY <4>1 DEF Elems
    <3>3. QED BY <3>1, <3>2
  <2>2. ASSUME NEW j \in 1 .. Len(s) PROVE s[j] \in Elems(r)
    <3>1. CASE j < k
      <4>1. j \in 1 .. Len(r) /\ j \in 1 .. k - 1 BY <1>0, <1>1, <1>3, <3>1
      <4>2. r[j] = s[j] BY <1>3, <4>1
      <4>3. QED BY <4>1, <4>2 DEF Elems
    <3>2. CASE ~(j < k)
      <4>1. j + 1 \in 1 .. Len(r) /\ j + 1 \in k + 1 .. Len(s) + 1 /\ (j + 1) - 1 = j
        BY <1>0, <1>1, <1>3, <3>2
      <4>2. r[j + 1] = s[j] BY <1>3, <4>1
      <4>3. QED BY <4>1, <4>2 DEF Elems
    <3>3. QED BY <3>1, <3>2
  <2>3. t \in Elems(r)
    <3>1. k \in 1 .. Len(r) BY <1>1, <1>3
    <3>2. QED BY <1>3, <3>1 DEF Elems
  <2>4. QED BY <2>1, <2>2, <2>3 DEF Elems
<1>10. r # <<>> BY <1>0, <1>3
<1>11. k # 1 => s # <<>> /\ r[1] = s[1] /\ s[1] # t
  <2> SUFFICES ASSUME k # 1 PROVE s # <<>> /\ r[1] = s[1] /\ s[1] # t OBVIOUS
  <2>1. 1 \in 1 .. k - 1 /\ 1 \in 1 .. Len(s) BY <1>0, <1>1
  <2>2. QED BY <1>0, <1>3, <1>6, <2>1
<1>12. \A u \in Elems(r) : y[u] # -1
  <2>1. \A u \in Elems(s) : y[u] # -1 BY <1>6 DEF Elems
  <2>2. QED BY <1>5, <1>9, <2>1
<1>13. ListOf(r, y) BY <1>3, <1>5, <1>8, <1>12 DEF ListOf
<1>14. QED BY <1>9, <1>10, <1>11, <1>13 DEF k

-----------------------------------------------------------------------------
(* The invariant.                                                          *)

\* The list holds the pending timers.
Lists == /\ ListOf(active_timers, expire_time)
         /\ \A t \in Timers : expire_time[t] # -1 <=> t \in Elems(active_timers)

\* Every call of aio_poll but the innermost is in a callback.
Calls == \A i \in 1 .. Len(stack) : i < Len(stack) => stack[i].pc = "cb"

\* The places of aio_poll at which the runner may go to sleep, or sleeps.
Sleeps == {"enabled", "head", "poll"}

\* Who notifies a runner that may go to sleep sets the notifier.
Blocks == stack # <<>> /\ Top.pc \in Sleeps /\ Top.blocking => ~dispatching

\* The runner notifies itself in callbacks only.
InCallback == pc[Runner] # "idle" => stack # <<>> /\ Top.pc = "cb"

IndInv == TypeOK /\ Lists /\ Calls /\ Blocks /\ InCallback /\ NoOversleep

\* What the runner does to its own frame.
TopTo(f) ==
  /\ Len(stack) > 0 /\ f \in Frame /\ stack' \in Seq(Frame)
  /\ Len(stack') = Len(stack)
  /\ \A i \in 1 .. Len(stack) - 1 : stack'[i] = stack[i]
  /\ stack'[Len(stack)] = f

\* The elements of the stack of aio_poll calls and its top.
LEMMA StackOf ==
  ASSUME TypeOK
  PROVE  /\ Len(stack) \in Nat /\ \A i \in 1 .. Len(stack) : stack[i] \in Frame
         /\ DOMAIN stack = 1 .. Len(stack)
         /\ stack # <<>> => Len(stack) > 0 /\ Top = stack[Len(stack)] /\ Top \in Frame
<1>1. stack \in Seq(Frame) BY DEF TypeOK
<1>2. /\ Len(stack) \in Nat /\ \A i \in 1 .. Len(stack) : stack[i] \in Frame
      /\ DOMAIN stack = 1 .. Len(stack) /\ (stack # <<>> => Len(stack) > 0)
  BY <1>1
<1>3. Top = stack[Len(stack)] BY DEF Top, Last
<1>4. QED BY <1>2, <1>3

\* An update of the last element changes the top frame only.
LEMMA TopUpdate ==
  ASSUME TypeOK, stack # <<>>, NEW f \in Frame,
         stack' = [stack EXCEPT ![Len(stack)] = f]
  PROVE  TopTo(f)
<1>1. stack \in Seq(Frame) BY DEF TypeOK
<1>2. Len(stack) \in Nat /\ Len(stack) > 0 BY <1>1
<1>3. /\ stack' \in Seq(Frame) /\ Len(stack') = Len(stack)
      /\ \A i \in 1 .. Len(stack) - 1 : stack'[i] = stack[i]
      /\ stack'[Len(stack)] = f
  BY <1>1, <1>2
<1>4. QED BY <1>2, <1>3 DEF TopTo

\* Goto changes the pc of the top frame only.
LEMMA GotoIs ==
  ASSUME TypeOK, stack # <<>>, NEW where \in FramePc, Goto(where)
  PROVE  /\ TopTo([Top EXCEPT !.pc = where])
         /\ [Top EXCEPT !.pc = where].pc = where
         /\ [Top EXCEPT !.pc = where].blocking = Top.blocking
<1>1. Top = stack[Len(stack)] /\ Top \in Frame BY StackOf
<1>2. stack' = [stack EXCEPT ![Len(stack)] = [Top EXCEPT !.pc = where]]
  BY <1>1 DEF Goto
<1>3. /\ [Top EXCEPT !.pc = where] \in Frame
      /\ [Top EXCEPT !.pc = where].pc = where
      /\ [Top EXCEPT !.pc = where].blocking = Top.blocking
  BY <1>1 DEF Frame
<1>4. QED BY <1>2, <1>3, TopUpdate

\* The frame of the runner after its step, and the frames below.
LEMMA TopIs ==
  ASSUME TypeOK, Calls, NEW f, TopTo(f)
  PROVE  stack' # <<>> /\ Top' = f /\ Calls'
<1>1. Len(stack) \in Nat /\ Len(stack) > 0 /\ Len(stack') = Len(stack)
  BY StackOf DEF TopTo
<1>2. stack' # <<>> /\ Top' = f BY <1>1 DEF Top, Last, TopTo
<1>3. Calls' BY <1>1 DEF Calls, TopTo
<1>4. QED BY <1>2, <1>3

\* A step of the runner after which it does not go to sleep.
LEMMA RunnerMoves ==
  ASSUME TypeOK, Calls, NEW f, TopTo(f), f.pc \notin Sleeps,
         pc[Runner] = "idle", pc' = pc
  PROVE  Calls' /\ Blocks' /\ InCallback' /\ NoOversleep'
<1>1. stack' # <<>> /\ Top' = f /\ Calls' BY TopIs
<1>2. Top'.pc \notin Sleeps BY <1>1
<1>3. QED BY <1>1, <1>2 DEF Blocks, InCallback, NoOversleep, RunnerAt, Sleeps

\* A step of the runner keeps the list.
LEMMA RunnerStepInd ==
  ASSUME IndInv, NEW f, TopTo(f), f.pc \notin Sleeps, pc[Runner] = "idle",
         UNCHANGED <<now, enabled, listVars, bql, pc, clockerPc>>,
         timers_done_ev' \in BOOLEAN, dispatching' \in BOOLEAN, notifier' \in BOOLEAN
  PROVE  IndInv'
<1>1. Calls' /\ Blocks' /\ InCallback' /\ NoOversleep' BY RunnerMoves DEF IndInv
<1>2. stack' \in Seq(Frame) BY DEF TopTo
<1>3. TypeOK' BY <1>2 DEF IndInv, TypeOK, listVars
<1>4. Lists' BY DEF IndInv, Lists, listVars
<1>5. QED BY <1>1, <1>3, <1>4 DEF IndInv

\* A move of the runner that does not put it to sleep.
LEMMA GotoStep ==
  ASSUME IndInv, stack # <<>>, NEW where \in FramePc, Goto(where), where \notin Sleeps,
         pc[Runner] = "idle",
         UNCHANGED <<now, enabled, listVars, bql, pc, clockerPc>>,
         timers_done_ev' \in BOOLEAN, dispatching' \in BOOLEAN, notifier' \in BOOLEAN
  PROVE  IndInv'
<1>1. TypeOK BY DEF IndInv
<1> DEFINE f == [Top EXCEPT !.pc = where]
<1>2. TopTo(f) /\ f.pc = where BY <1>1, GotoIs
<1> HIDE DEF f
<1>3. QED BY <1>2, RunnerStepInd

\* The boolean parts of the state.
LEMMA Booleans ==
  ASSUME IndInv
  PROVE  /\ timers_done_ev \in BOOLEAN /\ dispatching \in BOOLEAN
         /\ notifier \in BOOLEAN /\ enabled \in BOOLEAN
BY DEF IndInv, TypeOK

\* Reading the list in timerlist_deadline_ns yields a deadline that is on time.
LEMMA DeadlineStep == ASSUME IndInv, timerlist_deadline_ns PROVE IndInv'
<1>0. TypeOK /\ Calls /\ Blocks /\ Lists BY DEF IndInv
<1>1. /\ stack # <<>> /\ pc[Runner] = "idle" /\ Top.pc \in {"enabled", "head"}
      /\ UNCHANGED <<now, enabled, listVars, timers_done_ev, dispatching, notifier,
                     bql, pc, clockerPc>>
  BY DEF timerlist_deadline_ns, RunnerAt
<1>2. Top = stack[Len(stack)] /\ Top \in Frame BY <1>0, <1>1, StackOf
<1>3. Blocks => (Top.blocking => ~dispatching) BY <1>1 DEF Blocks, Sleeps
<1>4. ASSUME NEW f, TopTo(f), f.blocking = Top.blocking,
             /\ f.pc = "poll" /\ enabled /\ active_timers # <<>>
               => f.deadline <= expire_time[Head(active_timers)]
      PROVE  IndInv'
  <2>1. stack' # <<>> /\ Top' = f /\ Calls' BY <1>0, <1>4, TopIs
  <2>2. Blocks' BY <1>0, <1>1, <1>3, <1>4, <2>1 DEF Blocks
  <2>3. InCallback' BY <1>1 DEF InCallback
  <2>4. NoOversleep' BY <1>1, <1>4, <2>1 DEF NoOversleep, RunnerAt, listVars
  <2>5. TypeOK' BY <1>0, <1>1, <1>4 DEF TypeOK, listVars, TopTo
  <2>6. Lists' BY <1>0, <1>1 DEF Lists, listVars
  <2>7. QED BY <2>1, <2>2, <2>3, <2>4, <2>5, <2>6 DEF IndInv
<1>5. CASE RunnerAt("enabled") /\ Goto(IF enabled THEN "head" ELSE "poll")
  <2> DEFINE w == IF enabled THEN "head" ELSE "poll"
             f == [Top EXCEPT !.pc = w]
  <2>1. w \in FramePc /\ (w = "poll" => ~enabled) BY DEF FramePc
  <2>2. Goto(w) BY <1>5
  <2> HIDE DEF w
  <2>3. TopTo(f) /\ f.pc = w /\ f.blocking = Top.blocking
    BY <1>0, <1>1, <2>1, <2>2, GotoIs
  <2> HIDE DEF f
  <2>4. QED BY <1>4, <2>1, <2>3
<1>6. CASE /\ RunnerAt("head")
           /\ stack' = [stack EXCEPT ![Len(stack)].pc = "poll",
                ![Len(stack)].deadline = IF active_timers = <<>> THEN Never
                                         ELSE expire_time[Head(active_timers)]]
  <2> DEFINE d == IF active_timers = <<>> THEN Never
                  ELSE expire_time[Head(active_timers)]
             f == [[Top EXCEPT !.pc = "poll"] EXCEPT !.deadline = d]
  <2>1. /\ d \in 0 .. Never
        /\ active_timers # <<>> => /\ d <= expire_time[Head(active_timers)]
    <3>1. MaxTime \in Nat BY TimersAssumption
    <3>2. CASE active_timers = <<>> BY <3>1, <3>2 DEF Never
    <3>3. CASE active_timers # <<>>
      <4>1. Head(active_timers) \in Elems(active_timers) /\ Head(active_timers) \in Timers
        BY <1>0, <3>3, ElemsOf DEF TypeOK
      <4>2. expire_time[Head(active_timers)] \in Times
            /\ expire_time[Head(active_timers)] # -1
        BY <1>0, <4>1 DEF Lists, TypeOK
      <4>3. QED BY <3>1, <3>3, <4>2 DEF Times, Never
    <3>4. QED BY <3>2, <3>3
  <2>2. stack' = [stack EXCEPT ![Len(stack)] =
                    [[stack[Len(stack)] EXCEPT !.pc = "poll"] EXCEPT !.deadline = d]]
    BY <1>0, <1>1, <1>6, StackOf
  <2> HIDE DEF d
  <2>3. f \in Frame /\ f.pc = "poll" /\ f.blocking = Top.blocking /\ f.deadline = d
    BY <1>2, <2>1 DEF Frame, FramePc
  <2>4. stack' = [stack EXCEPT ![Len(stack)] = f] BY <1>2, <2>2
  <2> HIDE DEF f
  <2>5. TopTo(f) BY <1>0, <1>1, <2>3, <2>4, TopUpdate
  <2>6. QED BY <1>4, <2>1, <2>3, <2>5
<1>7. QED BY <1>5, <1>6 DEF timerlist_deadline_ns

\* ppoll returns.
LEMMA PollReturnsStep == ASSUME IndInv, PollReturns PROVE IndInv'
<1>0. TypeOK BY DEF IndInv
<1>1. /\ stack # <<>> /\ pc[Runner] = "idle"
      /\ UNCHANGED <<now, enabled, listVars, timers_done_ev, dispatching, notifier,
                     bql, pc, clockerPc>>
  BY DEF PollReturns, RunnerAt
<1>2. Top = stack[Len(stack)] /\ Top \in Frame BY <1>0, <1>1, StackOf
<1> DEFINE f == [[Top EXCEPT !.pc = "dispatch"] EXCEPT !.woken = notifier]
<1>3. stack' = [stack EXCEPT ![Len(stack)] =
             [[stack[Len(stack)] EXCEPT !.pc = "dispatch"] EXCEPT !.woken = notifier]]
  BY <1>0, <1>1, StackOf DEF PollReturns
<1>4. notifier \in BOOLEAN BY Booleans
<1>5. f \in Frame /\ f.pc = "dispatch" BY <1>2, <1>4 DEF Frame, FramePc
<1>6. stack' = [stack EXCEPT ![Len(stack)] = f] BY <1>2, <1>3
<1> HIDE DEF f
<1>7. TopTo(f) BY <1>0, <1>1, <1>5, <1>6, TopUpdate
<1>8. f.pc \notin Sleeps BY <1>5 DEF Sleeps
<1>9. QED BY <1>1, <1>7, <1>8, Booleans, RunnerStepInd

\* The runner sets dispatching and goes to its timers.
LEMMA DispatchStep == ASSUME IndInv, Dispatch PROVE IndInv'
<1>1. /\ stack # <<>> /\ pc[Runner] = "idle"
      /\ UNCHANGED <<now, enabled, listVars, timers_done_ev, bql, pc, clockerPc>>
  BY DEF Dispatch, RunnerAt
<1>2. \/ dispatching' = TRUE /\ notifier' = notifier
      \/ notifier' = FALSE /\ dispatching' = dispatching
  BY DEF Dispatch
<1>3. PICK w \in {"clear", "reset"} : Goto(w) BY DEF Dispatch
<1>4. w \in FramePc /\ w \notin Sleeps BY DEF FramePc, Sleeps
<1>5. dispatching' \in BOOLEAN /\ notifier' \in BOOLEAN BY <1>2, Booleans
<1>6. QED BY <1>1, <1>3, <1>4, <1>5, Booleans, GotoStep

\* timerlist_run_timers resets the event, then reads enabled.
LEMMA RunTimersStep == ASSUME IndInv, RunTimers PROVE IndInv'
<1>0. TypeOK BY DEF IndInv
<1>1. /\ stack # <<>> /\ pc[Runner] = "idle"
      /\ UNCHANGED <<now, enabled, listVars, dispatching, notifier, bql, pc, clockerPc>>
  BY DEF RunTimers, RunnerAt
<1>2. CASE timers_done_ev' = FALSE /\ Goto("check")
  <2>1. "check" \in FramePc /\ "check" \notin Sleeps BY DEF FramePc, Sleeps
  <2>2. timers_done_ev' \in BOOLEAN BY <1>2
  <2>3. QED BY <1>1, <1>2, <2>1, <2>2, Booleans, GotoStep
<1>3. CASE /\ stack' = [stack EXCEPT ![Len(stack)].pc = IF enabled THEN "loop"
                                                         ELSE "done",
                                     ![Len(stack)].current_time = now]
           /\ UNCHANGED timers_done_ev
  <2>1. Top = stack[Len(stack)] /\ Top \in Frame BY <1>0, <1>1, StackOf
  <2> DEFINE w == IF enabled THEN "loop" ELSE "done"
             f == [[Top EXCEPT !.pc = w] EXCEPT !.current_time = now]
  <2>2. stack' = [stack EXCEPT ![Len(stack)] =
                    [[stack[Len(stack)] EXCEPT !.pc = w] EXCEPT !.current_time = now]]
    BY <1>0, <1>1, <1>3, StackOf
  <2>3. w \in FramePc /\ w \notin Sleeps BY DEF FramePc, Sleeps
  <2> HIDE DEF w
  <2>4. now \in 0 .. MaxTime BY <1>0 DEF TypeOK
  <2>5. f \in Frame /\ f.pc = w BY <2>1, <2>3, <2>4 DEF Frame
  <2>6. stack' = [stack EXCEPT ![Len(stack)] = f] BY <2>1, <2>2
  <2> HIDE DEF f
  <2>7. TopTo(f) BY <1>0, <1>1, <2>5, <2>6, TopUpdate
  <2>8. timers_done_ev' \in BOOLEAN BY <1>3, Booleans
  <2>9. QED BY <1>1, <2>3, <2>5, <2>7, <2>8, Booleans, RunnerStepInd
<1>4. QED BY <1>2, <1>3 DEF RunTimers

\* A callback returns into the loop of timerlist_run_timers.
LEMMA CallbackReturnsStep == ASSUME IndInv, CallbackReturns PROVE IndInv'
<1>1. "loop" \in FramePc /\ "loop" \notin Sleeps BY DEF FramePc, Sleeps
<1>2. /\ stack # <<>> /\ pc[Runner] = "idle" /\ Goto("loop")
      /\ UNCHANGED <<now, enabled, listVars, timers_done_ev, dispatching, notifier,
                     bql, pc, clockerPc>>
  BY DEF CallbackReturns, RunnerAt
<1>3. QED BY <1>1, <1>2, Booleans, GotoStep

\* The first timer leaves the list.
LEMMA TailIs ==
  ASSUME TypeOK, Lists, active_timers # <<>>,
         expire_time' = [expire_time EXCEPT ![Head(active_timers)] = -1],
         active_timers' = Tail(active_timers)
  PROVE  Lists'
<1> DEFINE s == active_timers
           r == active_timers'
           t == Head(active_timers)
           y == expire_time'
<1>1. /\ s \in Seq(Timers) /\ Len(s) \in Nat /\ Len(s) > 0 /\ t = s[1] /\ t \in Timers
      /\ expire_time \in [Timers -> Times]
  BY ElemsOf DEF TypeOK
<1>2. /\ r \in Seq(Timers) /\ Len(r) = Len(s) - 1
      /\ \A i \in 1 .. Len(r) : r[i] = s[i + 1]
  BY <1>1
<1>3. /\ Sorted(s, expire_time) /\ \A u \in Elems(s) : expire_time[u] # -1
      /\ \A u \in Timers : expire_time[u] # -1 <=> u \in Elems(s)
  BY DEF Lists, ListOf
<1>4. /\ y[t] = -1 /\ \A u \in Timers : u # t => y[u] = expire_time[u]
  BY <1>1
<1>5. y \in [Timers -> Times]
  <2>1. -1 \in Times BY TimersAssumption DEF Times
  <2>2. QED BY <1>1, <2>1
<1> HIDE DEF s, r, t, y
<1>6. \A i \in 1 .. Len(r) : i + 1 \in 1 .. Len(s) /\ r[i] \in Elems(s) /\ r[i] # t
  <2> SUFFICES ASSUME NEW i \in 1 .. Len(r)
               PROVE  i + 1 \in 1 .. Len(s) /\ r[i] \in Elems(s) /\ r[i] # t
    OBVIOUS
  <2>1. i + 1 \in 1 .. Len(s) /\ 1 \in 1 .. Len(s) /\ 1 < i + 1 BY <1>1, <1>2
  <2>2. r[i] = s[i + 1] /\ s[1] # s[i + 1] BY <1>2, <1>3, <2>1 DEF Sorted
  <2>3. QED BY <1>1, <2>1, <2>2 DEF Elems
<1>7. Elems(r) = Elems(s) \ {t}
  <2>1. \A u \in Elems(r) : u \in Elems(s) \ {t} BY <1>6 DEF Elems
  <2>2. ASSUME NEW k \in 1 .. Len(s), s[k] # t PROVE s[k] \in Elems(r)
    <3>1. k # 1 BY <1>1, <2>2
    <3>2. k - 1 \in 1 .. Len(r) /\ (k - 1) + 1 = k BY <1>1, <1>2, <3>1
    <3>3. r[k - 1] = s[k] BY <1>2, <3>2
    <3>4. QED BY <3>2, <3>3 DEF Elems
  <2>3. QED BY <2>1, <2>2 DEF Elems
<1>8. Sorted(r, y)
  <2> SUFFICES ASSUME NEW i \in 1 .. Len(r), NEW j \in 1 .. Len(r), i < j
               PROVE  r[i] # r[j] /\ y[r[i]] <= y[r[j]]
    BY DEF Sorted
  <2>1. /\ i + 1 \in 1 .. Len(s) /\ j + 1 \in 1 .. Len(s) /\ i + 1 < j + 1
        /\ r[i] = s[i + 1] /\ r[j] = s[j + 1]
    BY <1>2, <1>6
  <2>2. r[i] # r[j] /\ expire_time[r[i]] <= expire_time[r[j]]
    BY <1>3, <2>1 DEF Sorted
  <2>3. r[i] \in Timers /\ r[j] \in Timers /\ r[i] # t /\ r[j] # t BY <1>2, <1>6
  <2>4. QED BY <1>4, <2>2, <2>3
<1>9. Elems(s) \subseteq Timers BY <1>1, ElemsOf
<1>10. \A u \in Timers : y[u] # -1 <=> u \in Elems(r) BY <1>3, <1>4, <1>7, <1>9
<1>11. ListOf(r, y) BY <1>2, <1>5, <1>7, <1>8, <1>9, <1>10 DEF ListOf
<1>12. QED BY <1>10, <1>11 DEF Lists, r, y

\* The loop takes the first timer if it is due, and leaves otherwise.
LEMMA RunNextStep == ASSUME IndInv, RunNext PROVE IndInv'
<1>0. TypeOK /\ Lists /\ Calls BY DEF IndInv
<1>1. /\ stack # <<>> /\ pc[Runner] = "idle"
      /\ UNCHANGED <<now, enabled, timers_done_ev, dispatching, notifier, bql, pc,
                     clockerPc, mods>>
  BY DEF RunNext, RunnerAt
<1>2. CASE ~Expired /\ Goto("done") /\ UNCHANGED <<active_timers, expire_time>>
  <2>1. "done" \in FramePc /\ "done" \notin Sleeps BY DEF FramePc, Sleeps
  <2>2. UNCHANGED listVars BY <1>1, <1>2 DEF listVars
  <2>3. QED BY <1>1, <1>2, <2>1, <2>2, Booleans, GotoStep
<1>3. CASE /\ Expired /\ Goto("cb")
           /\ expire_time' = [expire_time EXCEPT ![Head(active_timers)] = -1]
           /\ active_timers' = Tail(active_timers)
  <2>1. Lists' BY <1>0, <1>3, TailIs DEF Expired
  <2>2. "cb" \in FramePc /\ "cb" \notin Sleeps BY DEF FramePc, Sleeps
  <2> DEFINE f == [Top EXCEPT !.pc = "cb"]
  <2>3. TopTo(f) /\ f.pc = "cb" BY <1>0, <1>1, <1>3, <2>2, GotoIs
  <2> HIDE DEF f
  <2>4. Calls' /\ Blocks' /\ InCallback' /\ NoOversleep'
    BY <1>0, <1>1, <2>2, <2>3, RunnerMoves
  <2>5. stack' \in Seq(Frame) BY <2>3 DEF TopTo
  <2>6. active_timers' \in Seq(Timers) /\ expire_time' \in [Timers -> Times]
    BY <2>1 DEF Lists, ListOf
  <2>7. TypeOK' BY <1>0, <1>1, <2>5, <2>6 DEF TypeOK
  <2>8. QED BY <2>1, <2>4, <2>7 DEF IndInv
<1>4. QED BY <1>2, <1>3 DEF RunNext

\* The end of a call of aio_poll: the caller is in a callback, or there is none.
LEMMA FinishStep == ASSUME IndInv, Finish PROVE IndInv'
<1>0. TypeOK /\ Lists /\ Calls BY DEF IndInv
<1>1. /\ stack # <<>> /\ pc[Runner] = "idle" /\ dispatching' = Top.was
      /\ stack' = Front(stack) /\ timers_done_ev' = TRUE
      /\ UNCHANGED <<now, enabled, listVars, notifier, bql, pc, clockerPc>>
  BY DEF Finish, RunnerAt
<1>2. Top \in Frame /\ Len(stack) \in Nat /\ Len(stack) > 0 BY <1>0, <1>1, StackOf
<1>3. stack \in Seq(Frame) BY <1>0 DEF TypeOK
<1>4. /\ stack' \in Seq(Frame) /\ Len(stack') = Len(stack) - 1
      /\ \A i \in 1 .. Len(stack) - 1 : stack'[i] = stack[i]
  <2> DEFINE k == Len(stack) - 1
  <2>1. k \in 0 .. Len(stack) /\ stack' = SubSeq(stack, 1, k)
    BY <1>1, <1>2 DEF Front
  <2> HIDE DEF k
  <2>2. SubSeq(stack, 1, k) \in Seq(Frame) BY <1>3, <2>1
  <2>3. Len(SubSeq(stack, 1, k)) = k BY <1>3, <2>1
  <2>4. \A i \in 1 .. k : SubSeq(stack, 1, k)[i] = stack[i] BY <1>3, <2>1
  <2>5. QED BY <2>1, <2>2, <2>3, <2>4 DEF k
<1>5. \A i \in 1 .. Len(stack') : stack'[i].pc = "cb" BY <1>0, <1>2, <1>4 DEF Calls
<1>6. stack' # <<>> => Top'.pc = "cb"
  <2>1. stack' # <<>> => Len(stack') \in 1 .. Len(stack') BY <1>4
  <2>2. Top' = stack'[Len(stack')] BY DEF Top, Last
  <2>3. QED BY <1>5, <2>1, <2>2
<1>7. Calls' BY <1>5 DEF Calls
<1>8. Blocks' /\ InCallback' /\ NoOversleep'
  BY <1>1, <1>6 DEF Blocks, InCallback, NoOversleep, RunnerAt, Sleeps
<1>9. dispatching' \in BOOLEAN /\ timers_done_ev' \in BOOLEAN
  BY <1>1, <1>2 DEF Frame
<1>10. TypeOK' BY <1>0, <1>1, <1>4, <1>9 DEF TypeOK, listVars
<1>11. Lists' BY <1>0, <1>1 DEF Lists, listVars
<1>12. QED BY <1>7, <1>8, <1>10, <1>11 DEF IndInv

\* A new call of aio_poll.
LEMMA PollStep == ASSUME IndInv, NEW b \in BOOLEAN, aio_poll(b) PROVE IndInv'
<1>0. TypeOK /\ Lists /\ Calls BY DEF IndInv
<1> DEFINE f == [pc |-> IF b THEN "enabled" ELSE "poll",
                 blocking |-> b, was |-> dispatching,
                 deadline |-> IF b THEN Never ELSE 0,
                 woken |-> FALSE, current_time |-> 0]
<1>1. /\ pc[Runner] = "idle" /\ dispatching' = ~b /\ stack' = Append(stack, f)
      /\ stack = <<>> \/ (stack # <<>> /\ Top.pc = "cb")
      /\ UNCHANGED <<now, enabled, listVars, timers_done_ev, notifier, bql, pc,
                     clockerPc>>
  BY DEF aio_poll, RunnerAt
<1>2. f \in Frame /\ f.blocking = b /\ (f.pc = "poll" => ~b)
  <2>1. MaxTime \in Nat /\ dispatching \in BOOLEAN
    BY TimersAssumption, Booleans
  <2>2. (IF b THEN Never ELSE 0) \in 0 .. Never /\ 0 \in 0 .. MaxTime
    BY <2>1 DEF Never
  <2>3. (IF b THEN "enabled" ELSE "poll") \in FramePc BY DEF FramePc
  <2>4. f \in Frame BY <2>1, <2>2, <2>3 DEF Frame
  <2>5. QED BY <2>4
<1> HIDE DEF f
<1>3. stack \in Seq(Frame) /\ Len(stack) \in Nat BY <1>0, StackOf DEF TypeOK
<1>4. /\ stack' \in Seq(Frame) /\ Len(stack') = Len(stack) + 1
      /\ \A i \in 1 .. Len(stack) : stack'[i] = stack[i]
      /\ stack'[Len(stack) + 1] = f
  BY <1>1, <1>2, <1>3
<1>5. stack' # <<>> /\ Top' = f BY <1>3, <1>4 DEF Top, Last
<1>6. Calls'
  <2> SUFFICES ASSUME NEW i \in 1 .. Len(stack'), i < Len(stack')
               PROVE  stack'[i].pc = "cb"
    BY DEF Calls
  <2>1. i \in 1 .. Len(stack) /\ stack'[i] = stack[i] BY <1>3, <1>4
  <2>2. CASE i < Len(stack) BY <1>0, <2>1, <2>2 DEF Calls
  <2>3. CASE ~(i < Len(stack))
    <3>1. i = Len(stack) /\ stack # <<>> BY <1>3, <2>1, <2>3
    <3>2. QED BY <1>0, <1>1, <2>1, <3>1, StackOf
  <2>4. QED BY <2>2, <2>3
<1>7. Blocks' BY <1>1, <1>2, <1>5 DEF Blocks
<1>8. InCallback' BY <1>1 DEF InCallback
<1>9. NoOversleep' BY <1>2, <1>5 DEF NoOversleep, RunnerAt
<1>10. dispatching' \in BOOLEAN BY <1>1
<1>11. TypeOK' BY <1>0, <1>1, <1>4, <1>10 DEF TypeOK, listVars
<1>12. Lists' BY <1>0, <1>1 DEF Lists, listVars
<1>13. QED BY <1>6, <1>7, <1>8, <1>9, <1>11, <1>12 DEF IndInv

-----------------------------------------------------------------------------
(* Steps that leave the stack alone.                                       *)

\* The first timer does not get sooner.
LEMMA NotSooner ==
  ASSUME TypeOK, NoOversleep, UNCHANGED <<stack, enabled, notifier, pc>>,
         active_timers \in Seq(Timers), expire_time \in [Timers -> Times],
         active_timers' \in Seq(Timers), expire_time' \in [Timers -> Times],
         active_timers' # <<>> =>
           /\ active_timers # <<>>
           /\ expire_time[active_timers[1]] <= expire_time'[active_timers'[1]]
  PROVE  NoOversleep'
<1> SUFFICES ASSUME RunnerAt("poll")', Top'.blocking, enabled', active_timers' # <<>>
             PROVE  \/ Top'.deadline <= expire_time'[Head(active_timers')]
                    \/ notifier'
                    \/ \E p \in Procs : pc'[p] \in {"notify", "set"}
  BY DEF NoOversleep
<1>1. Top' = Top BY DEF Top, Last
<1>2. RunnerAt("poll") /\ Top.blocking /\ enabled /\ active_timers # <<>>
  BY <1>1 DEF RunnerAt
<1>3. Top.deadline \in 0 .. Never BY <1>2, StackOf DEF RunnerAt, Frame
<1>4. /\ Head(active_timers) = active_timers[1] /\ active_timers[1] \in Timers
      /\ Head(active_timers') = active_timers'[1] /\ active_timers'[1] \in Timers
  BY <1>2, ElemsOf
<1>5. /\ expire_time[active_timers[1]] \in Times
      /\ expire_time'[active_timers'[1]] \in Times
  BY <1>4
<1>6. MaxTime \in Nat BY TimersAssumption
<1>7. Top.deadline <= expire_time[active_timers[1]]
        => Top.deadline <= expire_time'[active_timers'[1]]
  BY <1>2, <1>3, <1>5, <1>6 DEF Times, Never
<1>8. QED BY <1>1, <1>2, <1>4, <1>7 DEF NoOversleep

\* Steps of other threads leave the runner where it is.
LEMMA StackKept ==
  ASSUME IndInv, UNCHANGED <<stack, dispatching>>
  PROVE  Top' = Top /\ Calls' /\ Blocks'
<1>1. Top' = Top BY DEF Top, Last
<1>2. QED BY <1>1 DEF IndInv, Calls, Blocks

\* Arming a timer, in whatever thread.
LEMMA PutStep ==
  ASSUME IndInv, NEW p \in Procs, NEW t \in Timers, NEW e \in Times,
         MayUse(p), Put(p, Without(active_timers, t), t, e),
         UNCHANGED <<now, enabled, timers_done_ev, dispatching, notifier, bql,
                     stack, clockerPc>>,
         mods' \in 0 .. MaxMods
  PROVE  IndInv'
<1>0. TypeOK /\ Lists /\ InCallback /\ NoOversleep BY DEF IndInv
<1> DEFINE w == Without(active_timers, t)
           k == Position(w, e)
<1>1. /\ active_timers' = InsertAt(w, k, t)
      /\ expire_time' = [expire_time EXCEPT ![t] = IF e < 0 THEN 0 ELSE e]
      /\ pc' = IF k = 1 THEN [pc EXCEPT ![p] = "notify"] ELSE pc
  BY DEF Put
<1>2. ListOf(active_timers, expire_time) BY <1>0 DEF Lists
<1>3. /\ ListOf(w, expire_time) /\ Elems(w) = Elems(active_timers) \ {t}
      /\ w # <<>> => /\ active_timers # <<>>
                     /\ expire_time[active_timers[1]] <= expire_time[w[1]]
  BY <1>2, WithoutIs
<1> HIDE DEF w
<1>4. t \in Timers \ Elems(w) BY <1>3
<1>5. /\ ListOf(active_timers', expire_time')
      /\ Elems(active_timers') = Elems(w) \cup {t} /\ active_timers' # <<>>
      /\ k # 1 => w # <<>> /\ active_timers'[1] = w[1] /\ w[1] # t
  <2>1. ListOf(w, expire_time) BY <1>3
  <2>2. active_timers' = InsertAt(w, Position(w, e), t) BY <1>1
  <2>3. expire_time' = Armed(expire_time, t, e) BY <1>1 DEF Armed
  <2>4. /\ ListOf(active_timers', expire_time')
        /\ Elems(active_timers') = Elems(w) \cup {t} /\ active_timers' # <<>>
        /\ Position(w, e) # 1 => w # <<>> /\ active_timers'[1] = w[1] /\ w[1] # t
    BY <1>4, <2>1, <2>2, <2>3, InsertIs
  <2>5. QED BY <2>4
<1> HIDE DEF k
<1>6. /\ expire_time \in [Timers -> Times] /\ active_timers \in Seq(Timers)
      /\ expire_time' \in [Timers -> Times] /\ active_timers' \in Seq(Timers)
  BY <1>2, <1>5 DEF ListOf
<1>7. expire_time'[t] # -1 /\ \A u \in Timers : u # t => expire_time'[u] = expire_time[u]
  BY <1>1, <1>6
<1>8. Lists'
  <2>1. \A u \in Timers : expire_time'[u] # -1 <=> u \in Elems(active_timers')
    BY <1>0, <1>3, <1>5, <1>7 DEF Lists
  <2>2. QED BY <1>5, <2>1 DEF Lists
<1>9. pc \in [Procs -> {"idle", "notify", "set"}] BY <1>0 DEF TypeOK
<1>10. pc' \in [Procs -> {"idle", "notify", "set"}]
       /\ \A q \in Procs : q # p => pc'[q] = pc[q]
  BY <1>1, <1>9
<1>11. TypeOK' BY <1>0, <1>6, <1>10 DEF TypeOK
<1>12. Top' = Top /\ Calls' /\ Blocks' BY StackKept
<1>13. InCallback'
  <2>1. CASE p = Runner BY <1>12, <2>1 DEF MayUse, RunnerAt, InCallback
  <2>2. CASE p # Runner
    <3>1. Runner \in Procs BY DEF Procs
    <3>2. QED BY <1>0, <1>10, <1>12, <2>2, <3>1 DEF InCallback
  <2>3. QED BY <2>1, <2>2
<1>14. NoOversleep'
  <2>1. CASE k = 1
    <3>1. pc'[p] = "notify" BY <1>1, <1>9, <2>1
    <3>2. QED BY <3>1 DEF NoOversleep
  <2>2. CASE k # 1
    <3>1. pc' = pc BY <1>1, <2>2
    <3>2. w[1] \in Timers BY <1>3, <1>5, <2>2, ElemsOf DEF ListOf
    <3>3. /\ active_timers # <<>>
          /\ expire_time[active_timers[1]] <= expire_time'[active_timers'[1]]
      BY <1>3, <1>5, <1>7, <2>2, <3>2
    <3>4. QED BY <1>0, <1>6, <3>1, <3>3, NotSooner
  <2>3. QED BY <2>1, <2>2
<1>15. QED BY <1>8, <1>11, <1>12, <1>13, <1>14 DEF IndInv

\* timer_del.
LEMMA DelStep ==
  ASSUME IndInv, NEW p \in Procs, NEW t \in Timers, timer_del(p, t)
  PROVE  IndInv'
<1>0. TypeOK /\ Lists /\ InCallback /\ NoOversleep BY DEF IndInv
<1>1. /\ active_timers' = Without(active_timers, t)
      /\ expire_time' = [expire_time EXCEPT ![t] = -1]
      /\ UNCHANGED <<now, enabled, timers_done_ev, dispatching, notifier, bql,
                     stack, pc, clockerPc, mods>>
  BY DEF timer_del
<1>2. ListOf(active_timers, expire_time) BY <1>0 DEF Lists
<1>3. /\ ListOf(active_timers', expire_time)
      /\ Elems(active_timers') = Elems(active_timers) \ {t}
      /\ active_timers' # <<>> =>
           /\ active_timers # <<>>
           /\ expire_time[active_timers[1]] <= expire_time[active_timers'[1]]
  BY <1>1, <1>2, WithoutIs
<1>4. /\ expire_time \in [Timers -> Times] /\ active_timers \in Seq(Timers)
      /\ active_timers' \in Seq(Timers) /\ -1 \in Times
  BY <1>2, <1>3, TimersAssumption DEF ListOf, Times
<1>5. /\ expire_time' \in [Timers -> Times] /\ expire_time'[t] = -1
      /\ \A u \in Timers : u # t => expire_time'[u] = expire_time[u]
  BY <1>1, <1>4
<1>6. \A i \in 1 .. Len(active_timers') :
        /\ active_timers'[i] \in Elems(active_timers') /\ active_timers'[i] # t
        /\ active_timers'[i] \in Timers
        /\ expire_time'[active_timers'[i]] = expire_time[active_timers'[i]]
  <2>1. \A i \in 1 .. Len(active_timers') : active_timers'[i] \in Elems(active_timers')
    BY DEF Elems
  <2>2. Elems(active_timers') \subseteq Timers BY <1>4, ElemsOf
  <2>3. QED BY <1>3, <1>5, <2>1, <2>2
<1>7. Lists'
  <2>1. Sorted(active_timers', expire_time') BY <1>3, <1>6 DEF ListOf, Sorted
  <2>2. Elems(active_timers) \subseteq Timers BY <1>4, ElemsOf
  <2>3. \A u \in Timers : expire_time'[u] # -1 <=> u \in Elems(active_timers')
    BY <1>0, <1>3, <1>5 DEF Lists
  <2>4. ListOf(active_timers', expire_time')
    BY <1>3, <1>4, <1>5, <2>1, <2>2, <2>3 DEF ListOf
  <2>5. QED BY <2>3, <2>4 DEF Lists
<1>8. TypeOK' BY <1>0, <1>1, <1>4, <1>5 DEF TypeOK
<1>9. Top' = Top /\ Calls' /\ Blocks' BY <1>1, StackKept
<1>10. InCallback' BY <1>0, <1>1, <1>9 DEF InCallback
<1>11. NoOversleep'
  <2>1. active_timers' # <<>> => 1 \in 1 .. Len(active_timers') BY <1>4, ElemsOf
  <2>2. active_timers' # <<>> =>
          /\ active_timers # <<>>
          /\ expire_time[active_timers[1]] <= expire_time'[active_timers'[1]]
    BY <1>3, <1>6, <2>1
  <2>3. QED BY <1>0, <1>1, <1>4, <1>5, <2>2, NotSooner
<1>12. QED BY <1>7, <1>8, <1>9, <1>10, <1>11 DEF IndInv

\* timer_mod_ns, timer_mod_anticipate_ns and timer_del in whatever thread.
LEMMA UseTimersStep ==
  ASSUME IndInv, NEW p \in Modders \cup {Runner}, UseTimers(p)
  PROVE  IndInv'
<1>0. p \in Procs BY DEF Procs
<1>1. mods < MaxMods => mods + 1 \in 0 .. MaxMods
  BY TimersAssumption DEF IndInv, TypeOK
<1>2. ASSUME NEW t \in Timers, timer_del(p, t) PROVE IndInv'
  BY <1>0, <1>2, DelStep
<1>3. ASSUME NEW t \in Timers, NEW e \in Times, timer_mod_ns(p, t, e) PROVE IndInv'
  <2>1. mods' \in 0 .. MaxMods BY <1>1, <1>3 DEF timer_mod_ns
  <2>2. QED BY <1>0, <1>3, <2>1, PutStep DEF timer_mod_ns
<1>4. ASSUME NEW t \in Timers, NEW e \in Times, timer_mod_anticipate_ns(p, t, e)
      PROVE  IndInv'
  <2>1. mods' \in 0 .. MaxMods BY <1>1, <1>4 DEF timer_mod_anticipate_ns
  <2>2. CASE Put(p, Without(active_timers, t), t, e)
    BY <1>0, <1>4, <2>1, <2>2, PutStep DEF timer_mod_anticipate_ns
  <2>3. CASE UNCHANGED <<active_timers, expire_time, pc>>
    <3>1. UNCHANGED <<now, enabled, timers_done_ev, dispatching, notifier, bql,
                      stack, clockerPc>>
      BY <1>4 DEF timer_mod_anticipate_ns
    <3>2. Top' = Top /\ Calls' /\ Blocks' BY <3>1, StackKept
    <3>3. TypeOK' /\ Lists' /\ InCallback'
      BY <2>1, <2>3, <3>1, <3>2 DEF IndInv, TypeOK, Lists, InCallback
    <3>4. NoOversleep' BY <2>3, <3>1, <3>2 DEF IndInv, NoOversleep, RunnerAt
    <3>5. QED BY <3>2, <3>3, <3>4 DEF IndInv
  <2>4. QED BY <1>4, <2>2, <2>3 DEF timer_mod_anticipate_ns
<1>5. QED BY <1>2, <1>3, <1>4 DEF UseTimers

\* aio_notify: a runner that may sleep is not dispatching, so that the notifier
\* is set.
LEMMA NotifyStep == ASSUME IndInv, NEW p \in Procs, Notify(p) PROVE IndInv'
<1>0. TypeOK /\ Lists /\ InCallback /\ NoOversleep /\ Blocks BY DEF IndInv
<1>1. UNCHANGED <<now, enabled, listVars, timers_done_ev, dispatching, bql, stack,
                  clockerPc>>
  BY DEF Notify
<1>2. pc \in [Procs -> {"idle", "notify", "set"}] BY <1>0 DEF TypeOK
<1>3. PICK w \in {"idle", "set"} : pc' = [pc EXCEPT ![p] = w] BY DEF Notify
<1>4. /\ pc[p] # "idle" /\ pc' \in [Procs -> {"idle", "notify", "set"}]
      /\ \A q \in Procs : q # p => pc'[q] = pc[q]
  BY <1>2, <1>3 DEF Notify
<1>5. notifier' \in BOOLEAN /\ (notifier => notifier')
  <2>1. notifier' = notifier \/ notifier' = TRUE BY DEF Notify
  <2>2. notifier' \in BOOLEAN BY <2>1, Booleans
  <2>3. notifier => notifier' BY <2>1
  <2>4. QED BY <2>2, <2>3
<1>6. TypeOK' BY <1>0, <1>1, <1>4, <1>5 DEF TypeOK, listVars
<1>7. Lists' BY <1>0, <1>1 DEF Lists, listVars
<1>8. Top' = Top /\ Calls' /\ Blocks' BY <1>1, StackKept
<1>9. Runner \in Procs BY DEF Procs
<1>10. pc'[Runner] # "idle" => pc[Runner] # "idle" BY <1>4, <1>9
<1>11. InCallback' BY <1>0, <1>1, <1>8, <1>10 DEF InCallback
<1>12. NoOversleep'
  <2> SUFFICES ASSUME RunnerAt("poll")', Top'.blocking, enabled', active_timers' # <<>>
               PROVE  \/ Top'.deadline <= expire_time'[Head(active_timers')]
                      \/ notifier'
                      \/ \E q \in Procs : pc'[q] \in {"notify", "set"}
    BY DEF NoOversleep
  <2>1. stack # <<>> /\ Top.pc = "poll" BY <1>1, <1>8 DEF RunnerAt
  <2>2. pc[Runner] = "idle" BY <1>0, <2>1 DEF InCallback
  <2>3. \/ Top.deadline <= expire_time[Head(active_timers)]
        \/ notifier
        \/ \E q \in Procs : pc[q] \in {"notify", "set"}
    BY <1>0, <1>1, <1>8, <2>1, <2>2 DEF NoOversleep, RunnerAt, listVars
  <2>4. CASE Top.deadline <= expire_time[Head(active_timers)]
    BY <1>1, <1>8, <2>4 DEF listVars
  <2>5. CASE notifier BY <1>5, <2>5
  <2>6. ASSUME NEW q \in Procs, pc[q] \in {"notify", "set"}
        PROVE  notifier' \/ pc'[q] \in {"notify", "set"}
    <3>1. CASE q # p BY <1>4, <2>6, <3>1
    <3>2. CASE q = p /\ pc[p] = "set" BY <3>2 DEF Notify
    <3>3. CASE q = p /\ pc[p] = "notify"
      <4>1. ~dispatching BY <1>0, <1>8, <2>1 DEF Blocks, Sleeps
      <4>2. pc' = [pc EXCEPT ![p] = "set"] BY <3>3, <4>1 DEF Notify
      <4>3. pc'[p] = "set" BY <1>2, <4>2
      <4>4. QED BY <3>3, <4>3
    <3>4. QED BY <2>6, <3>1, <3>2, <3>3
  <2>7. QED BY <2>3, <2>4, <2>5, <2>6
<1>13. QED BY <1>6, <1>7, <1>8, <1>11, <1>12 DEF IndInv

\* qemu_clock_enable and the clock itself.
LEMMA ClockStep ==
  ASSUME IndInv, Disable \/ DisableReturn \/ Enable \/ Tick
  PROVE  IndInv'
<1>0. TypeOK /\ Lists /\ InCallback /\ NoOversleep BY DEF IndInv
<1>1. UNCHANGED <<listVars, timers_done_ev, dispatching, notifier, stack>>
  BY DEF Disable, DisableReturn, Enable, Tick
<1>2. Top' = Top /\ Calls' /\ Blocks' BY <1>1, StackKept
<1>3. Lists' BY <1>0, <1>1 DEF Lists, listVars
<1>4. pc \in [Procs -> {"idle", "notify", "set"}] BY <1>0 DEF TypeOK
<1>5. CASE Disable \/ DisableReturn \/ Tick
  <2>1. pc' = pc BY <1>5 DEF Disable, DisableReturn, Tick
  <2>2. enabled' \in BOOLEAN /\ (enabled' => enabled)
    <3>1. enabled' = FALSE \/ enabled' = enabled
      BY <1>5 DEF Disable, DisableReturn, Tick
    <3>2. enabled' \in BOOLEAN BY <3>1, Booleans
    <3>3. enabled' => enabled BY <3>1
    <3>4. QED BY <3>2, <3>3
  <2>3. bql' \in BOOLEAN /\ clockerPc' \in {"idle", "wait", "disabled"}
    BY <1>0, <1>5 DEF Disable, DisableReturn, Tick, TypeOK
  <2>4. now' \in 0 .. MaxTime
    <3>1. now \in 0 .. MaxTime /\ MaxTime \in Nat BY <1>0, TimersAssumption DEF TypeOK
    <3>2. QED BY <1>5, <3>1 DEF Disable, DisableReturn, Tick
  <2>5. TypeOK' BY <1>0, <1>1, <2>1, <2>2, <2>3, <2>4 DEF TypeOK, listVars
  <2>6. InCallback' BY <1>0, <1>1, <1>2, <2>1 DEF InCallback
  <2>7. NoOversleep'
    BY <1>0, <1>1, <1>2, <2>1, <2>2 DEF NoOversleep, RunnerAt, listVars
  <2>8. QED BY <1>2, <1>3, <2>5, <2>6, <2>7 DEF IndInv
<1>6. CASE Enable
  <2>1. Clocker \in Procs /\ Runner \in Procs /\ Clocker # Runner
    BY TimersAssumption DEF Procs
  <2>2. pc' = [pc EXCEPT ![Clocker] = "notify"] /\ enabled' = TRUE
        /\ clockerPc' = "idle" /\ bql' = bql /\ now' = now
    BY <1>6 DEF Enable
  <2>3. /\ pc' \in [Procs -> {"idle", "notify", "set"}]
        /\ pc'[Clocker] = "notify" /\ pc'[Runner] = pc[Runner]
    BY <1>4, <2>1, <2>2
  <2>4. enabled' \in BOOLEAN BY <2>2
  <2>5. TypeOK' BY <1>0, <1>1, <2>2, <2>3, <2>4 DEF TypeOK, listVars
  <2>6. InCallback' BY <1>0, <1>1, <1>2, <2>3 DEF InCallback
  <2>7. NoOversleep' BY <2>1, <2>3 DEF NoOversleep
  <2>8. QED BY <1>2, <1>3, <2>5, <2>6, <2>7 DEF IndInv
<1>7. QED BY <1>5, <1>6

\* timerlist_new and aio_context_new establish the invariant.
LEMMA InitInv == Init => IndInv
<1> SUFFICES ASSUME Init PROVE IndInv OBVIOUS
<1>1. -1 \in Times /\ 0 \in 0 .. MaxTime /\ 0 \in 0 .. MaxMods
  BY TimersAssumption DEF Times
<1>2. expire_time \in [Timers -> Times] BY <1>1 DEF Init
<1>3. active_timers \in Seq(Timers) /\ stack \in Seq(Frame)
      /\ Len(active_timers) = 0 /\ Len(stack) = 0
  BY DEF Init
<1>4. pc \in [Procs -> {"idle", "notify", "set"}] BY DEF Init
<1>5. TypeOK BY <1>1, <1>2, <1>3, <1>4 DEF Init, TypeOK
<1>6. Elems(active_timers) = {} BY <1>3 DEF Elems
<1>7. Sorted(active_timers, expire_time) BY <1>3 DEF Sorted
<1>8. \A t \in Timers : expire_time[t] = -1 BY DEF Init
<1>9. Lists BY <1>2, <1>3, <1>6, <1>7, <1>8 DEF Lists, ListOf
<1>10. stack = <<>> /\ active_timers = <<>> /\ pc = [p \in Procs |-> "idle"] BY DEF Init
<1>11. Calls /\ Blocks BY <1>3, <1>10 DEF Calls, Blocks
<1>12. InCallback BY <1>10 DEF InCallback, Procs
<1>13. NoOversleep BY <1>10 DEF NoOversleep, RunnerAt
<1>14. QED BY <1>5, <1>9, <1>11, <1>12, <1>13 DEF IndInv

\* Every step preserves the invariant.
LEMMA InvStep == IndInv /\ [Next]_vars => IndInv'
<1> SUFFICES ASSUME IndInv, [Next]_vars PROVE IndInv' OBVIOUS
<1>1. CASE UNCHANGED vars
  <2>1. /\ UNCHANGED <<now, enabled, active_timers, expire_time, timers_done_ev>>
        /\ UNCHANGED <<dispatching, notifier, bql, stack, pc, clockerPc, mods>>
    BY <1>1 DEF vars
  <2>2. Top' = Top /\ Calls' /\ Blocks' BY <2>1, StackKept
  <2>3. TypeOK' /\ Lists' /\ InCallback'
    BY <2>1, <2>2 DEF IndInv, TypeOK, Lists, InCallback
  <2>4. NoOversleep' BY <2>1, <2>2 DEF IndInv, NoOversleep, RunnerAt
  <2>5. QED BY <2>2, <2>3, <2>4 DEF IndInv
<1>2. CASE RunnerStep
  <2>1. Runner \in Procs BY DEF Procs
  <2>2. QED
    BY <1>2, <2>1, DeadlineStep, PollReturnsStep, DispatchStep, RunTimersStep,
       RunNextStep, CallbackReturnsStep, FinishStep, NotifyStep, PollStep
    DEF RunnerStep
<1>3. CASE Disable \/ DisableReturn \/ Enable \/ Tick BY <1>3, ClockStep
<1>4. CASE \E blocking \in BOOLEAN : aio_poll(blocking) BY <1>4, PollStep
<1>5. CASE \E p \in Modders \cup {Runner} : UseTimers(p) BY <1>5, UseTimersStep
<1>6. CASE \E p \in Modders \cup {Clocker} : Notify(p) BY <1>6, NotifyStep DEF Procs
<1>7. QED BY <1>1, <1>2, <1>3, <1>4, <1>5, <1>6 DEF Next

\* The invariant holds in every reachable state.
LEMMA InvHolds == Spec => []IndInv
BY InitInv, InvStep, PTL DEF Spec

\* The list holds the pending timers, each once and soonest first, and the
\* runner never sleeps past the first timer of an enabled clock, whichever
\* threads and callbacks arm and delete timers and however deep aio_poll nests.
THEOREM TimersStaySafe == Spec => []TimersSafe
<1>1. IndInv => TimersSafe
  <2> SUFFICES ASSUME IndInv PROVE TimersSafe OBVIOUS
  <2>1. TypeOK /\ Lists /\ NoOversleep BY DEF IndInv
  <2>2. /\ DOMAIN active_timers = 1 .. Len(active_timers)
        /\ \A t : Contains(active_timers, t) <=> t \in Elems(active_timers)
    BY <2>1, ElemsOf DEF TypeOK
  <2>3. ListSorted BY <2>1, <2>2 DEF Lists, ListOf, Sorted, ListSorted
  <2>4. QED BY <2>1, <2>3 DEF TimersSafe
<1>2. QED BY <1>1, InvHolds, PTL

-----------------------------------------------------------------------------
(* Disabling the clock.                                                    *)

\* No call of aio_poll comes from a callback.
Shallow == Len(stack) <= 1

\* While the runner may still run timers the event is reset.
EventReset ==
  stack # <<>> /\ Top.pc \in {"check", "loop", "cb", "done"} => ~timers_done_ev

\* The clock stays disabled until qemu_clock_enable(type, true), and once
\* qemu_event_wait returned the runner has seen it.
SeenDisabled ==
  /\ clockerPc # "idle" => ~enabled
  /\ clockerPc = "disabled" => stack = <<>> \/ Top.pc \notin {"loop", "cb"}

Quiet == Shallow /\ EventReset /\ SeenDisabled

\* A step that sets two fields of the runner's frame.
LEMMA TopTwice ==
  ASSUME TypeOK, stack # <<>>, NEW w \in FramePc,
         \/ \E d \in 0 .. Never :
              stack' = [stack EXCEPT ![Len(stack)].pc = w, ![Len(stack)].deadline = d]
         \/ \E b \in BOOLEAN :
              stack' = [stack EXCEPT ![Len(stack)].pc = w, ![Len(stack)].woken = b]
         \/ \E c \in 0 .. MaxTime :
              stack' = [stack EXCEPT ![Len(stack)].pc = w,
                                     ![Len(stack)].current_time = c]
  PROVE  \E f : TopTo(f) /\ f.pc = w
<1>0. Top = stack[Len(stack)] /\ Top \in Frame BY StackOf
<1>1. ASSUME NEW d \in 0 .. Never,
             stack' = [stack EXCEPT ![Len(stack)].pc = w, ![Len(stack)].deadline = d]
      PROVE  \E f : TopTo(f) /\ f.pc = w
  <2> DEFINE f == [[Top EXCEPT !.pc = w] EXCEPT !.deadline = d]
  <2>1. stack' = [stack EXCEPT ![Len(stack)] =
                    [[stack[Len(stack)] EXCEPT !.pc = w] EXCEPT !.deadline = d]]
    BY <1>1, StackOf
  <2>2. f \in Frame /\ f.pc = w BY <1>0 DEF Frame
  <2>3. stack' = [stack EXCEPT ![Len(stack)] = f] BY <1>0, <2>1
  <2> HIDE DEF f
  <2>4. QED BY <2>2, <2>3, TopUpdate
<1>2. ASSUME NEW b \in BOOLEAN,
             stack' = [stack EXCEPT ![Len(stack)].pc = w, ![Len(stack)].woken = b]
      PROVE  \E f : TopTo(f) /\ f.pc = w
  <2> DEFINE f == [[Top EXCEPT !.pc = w] EXCEPT !.woken = b]
  <2>1. stack' = [stack EXCEPT ![Len(stack)] =
                    [[stack[Len(stack)] EXCEPT !.pc = w] EXCEPT !.woken = b]]
    BY <1>2, StackOf
  <2>2. f \in Frame /\ f.pc = w BY <1>0 DEF Frame
  <2>3. stack' = [stack EXCEPT ![Len(stack)] = f] BY <1>0, <2>1
  <2> HIDE DEF f
  <2>4. QED BY <2>2, <2>3, TopUpdate
<1>3. ASSUME NEW c \in 0 .. MaxTime,
             stack' = [stack EXCEPT ![Len(stack)].pc = w,
                                    ![Len(stack)].current_time = c]
      PROVE  \E f : TopTo(f) /\ f.pc = w
  <2> DEFINE f == [[Top EXCEPT !.pc = w] EXCEPT !.current_time = c]
  <2>1. stack' = [stack EXCEPT ![Len(stack)] =
                    [[stack[Len(stack)] EXCEPT !.pc = w] EXCEPT !.current_time = c]]
    BY <1>3, StackOf
  <2>2. f \in Frame /\ f.pc = w BY <1>0 DEF Frame
  <2>3. stack' = [stack EXCEPT ![Len(stack)] = f] BY <1>0, <2>1
  <2> HIDE DEF f
  <2>4. QED BY <2>2, <2>3, TopUpdate
<1>4. QED BY <1>1, <1>2, <1>3

\* What a step of the runner within its call of aio_poll must not do: run timers
\* with the event set, or begin to run them while the clock is disabled.
MovesTo(w) ==
  /\ stack # <<>> /\ UNCHANGED <<enabled, clockerPc>>
  /\ w \in {"check", "loop", "cb", "done"} => ~timers_done_ev'
  /\ w \in {"loop", "cb"} => Top.pc \in {"loop", "cb"} \/ enabled

\* Moves of the runner that enter no callback while the clock is stopped.
LEMMA QuietMove ==
  ASSUME IndInv, Quiet, NEW f, TopTo(f), MovesTo(f.pc)
  PROVE  Quiet'
<1>1. stack' # <<>> /\ Top' = f /\ Len(stack') = Len(stack)
  BY TopIs DEF TopTo, IndInv
<1>2. Shallow' /\ EventReset' BY <1>1 DEF Quiet, Shallow, EventReset, MovesTo
<1>3. SeenDisabled' BY <1>1 DEF Quiet, SeenDisabled, MovesTo
<1>4. QED BY <1>2, <1>3 DEF Quiet

\* The same for Goto.
LEMMA QuietGoto ==
  ASSUME IndInv, Quiet, NEW w \in FramePc, Goto(w), MovesTo(w)
  PROVE  Quiet'
<1> DEFINE f == [Top EXCEPT !.pc = w]
<1>1. TopTo(f) /\ f.pc = w BY GotoIs DEF IndInv, MovesTo
<1> HIDE DEF f
<1>2. QED BY <1>1, QuietMove

\* The steps of the runner.
LEMMA QuietRunner ==
  ASSUME IndInv, Quiet,
         \/ timerlist_deadline_ns \/ PollReturns \/ Dispatch \/ RunTimers
         \/ RunNext \/ CallbackReturns
  PROVE  Quiet'
<1>0. TypeOK BY DEF IndInv
<1>1. stack # <<>> /\ UNCHANGED <<enabled, clockerPc>>
  BY DEF timerlist_deadline_ns, PollReturns, Dispatch, RunTimers, RunNext,
         CallbackReturns, RunnerAt
<1>2. CASE timerlist_deadline_ns
  <2>1. \E w \in {"head", "poll"} : Goto(w) \/
          \E d \in 0 .. Never :
            stack' = [stack EXCEPT ![Len(stack)].pc = w, ![Len(stack)].deadline = d]
    <3>1. CASE Goto(IF enabled THEN "head" ELSE "poll") BY <3>1
    <3>2. CASE stack' = [stack EXCEPT ![Len(stack)].pc = "poll",
                 ![Len(stack)].deadline = IF active_timers = <<>> THEN Never
                                          ELSE expire_time[Head(active_timers)]]
      <4> DEFINE d == IF active_timers = <<>> THEN Never
                      ELSE expire_time[Head(active_timers)]
      <4>1. d \in 0 .. Never
        <5>1. MaxTime \in Nat BY TimersAssumption
        <5>2. active_timers # <<>> => /\ Head(active_timers) \in Elems(active_timers)
                                      /\ Head(active_timers) \in Timers
          BY <1>0, ElemsOf DEF TypeOK
        <5>3. active_timers # <<>> => /\ expire_time[Head(active_timers)] \in Times
                                      /\ expire_time[Head(active_timers)] # -1
          BY <5>2 DEF IndInv, Lists, TypeOK
        <5>4. QED BY <5>1, <5>3 DEF Times, Never
      <4>2. stack' = [stack EXCEPT ![Len(stack)].pc = "poll",
                                   ![Len(stack)].deadline = d]
        BY <3>2
      <4> HIDE DEF d
      <4>3. QED BY <4>1, <4>2
    <3>3. QED BY <1>2, <3>1, <3>2 DEF timerlist_deadline_ns
  <2>2. PICK w \in {"head", "poll"} : Goto(w) \/
          \E d \in 0 .. Never :
            stack' = [stack EXCEPT ![Len(stack)].pc = w, ![Len(stack)].deadline = d]
    BY <2>1
  <2>3. w \in FramePc /\ MovesTo(w) BY <1>1 DEF FramePc, MovesTo
  <2>4. CASE Goto(w) BY <2>3, <2>4, QuietGoto
  <2>5. CASE \E d \in 0 .. Never :
            stack' = [stack EXCEPT ![Len(stack)].pc = w, ![Len(stack)].deadline = d]
    <3>1. PICK f : TopTo(f) /\ f.pc = w BY <1>0, <1>1, <2>3, <2>5, TopTwice
    <3>2. QED BY <2>3, <3>1, QuietMove
  <2>6. QED BY <2>2, <2>4, <2>5
<1>3. CASE PollReturns
  <2>1. stack' = [stack EXCEPT ![Len(stack)].pc = "dispatch",
                               ![Len(stack)].woken = notifier]
    BY <1>3 DEF PollReturns
  <2>2. "dispatch" \in FramePc /\ notifier \in BOOLEAN BY Booleans DEF FramePc
  <2>3. PICK f : TopTo(f) /\ f.pc = "dispatch" BY <1>0, <1>1, <2>1, <2>2, TopTwice
  <2>4. MovesTo(f.pc) BY <1>1, <2>3 DEF MovesTo
  <2>5. QED BY <2>3, <2>4, QuietMove
<1>4. CASE Dispatch
  <2>1. PICK w \in {"clear", "reset"} : Goto(w) BY <1>4 DEF Dispatch
  <2>2. w \in FramePc /\ MovesTo(w) BY <1>1 DEF FramePc, MovesTo
  <2>3. QED BY <2>1, <2>2, QuietGoto
<1>5. CASE RunTimers
  <2>1. CASE timers_done_ev' = FALSE /\ Goto("check")
    <3>1. "check" \in FramePc /\ MovesTo("check") BY <1>1, <2>1 DEF FramePc, MovesTo
    <3>2. QED BY <2>1, <3>1, QuietGoto
  <2>2. CASE /\ RunnerAt("check")
             /\ stack' = [stack EXCEPT ![Len(stack)].pc = IF enabled THEN "loop"
                                                           ELSE "done",
                                       ![Len(stack)].current_time = now]
             /\ UNCHANGED timers_done_ev
    <3> DEFINE w == IF enabled THEN "loop" ELSE "done"
    <3>1. w \in FramePc /\ (w \in {"loop", "cb"} => enabled) BY DEF FramePc
    <3>2. stack' = [stack EXCEPT ![Len(stack)].pc = w, ![Len(stack)].current_time = now]
      BY <2>2
    <3> HIDE DEF w
    <3>3. now \in 0 .. MaxTime BY <1>0 DEF TypeOK
    <3>4. PICK f : TopTo(f) /\ f.pc = w BY <1>0, <1>1, <3>1, <3>2, <3>3, TopTwice
    <3>5. ~timers_done_ev' BY <2>2 DEF Quiet, EventReset, RunnerAt
    <3>6. MovesTo(f.pc) BY <1>1, <3>1, <3>4, <3>5 DEF MovesTo
    <3>7. QED BY <3>4, <3>6, QuietMove
  <2>3. QED BY <1>5, <2>1, <2>2 DEF RunTimers
<1>6. CASE RunNext \/ CallbackReturns
  <2>1. PICK w \in {"cb", "done", "loop"} : Goto(w) BY <1>6 DEF RunNext, CallbackReturns
  <2>2. Top.pc \in {"loop", "cb"} /\ timers_done_ev' = timers_done_ev
    BY <1>6 DEF RunNext, CallbackReturns, RunnerAt
  <2>3. ~timers_done_ev' BY <1>1, <2>2 DEF Quiet, EventReset
  <2>4. w \in FramePc /\ MovesTo(w) BY <1>1, <2>2, <2>3 DEF FramePc, MovesTo
  <2>5. QED BY <2>1, <2>4, QuietGoto
<1>7. QED BY <1>2, <1>3, <1>4, <1>5, <1>6

\* Without nested calls, every step keeps the clock's promise.
LEMMA QuietStep ==
  ASSUME MaxDepth = 1, IndInv, Quiet, [Next]_vars
  PROVE  Quiet'
<1>0. TypeOK BY DEF IndInv
<1>1. stack \in Seq(Frame) /\ Len(stack) \in Nat BY <1>0, StackOf DEF TypeOK
<1>2. ASSUME UNCHANGED <<stack, timers_done_ev>>,
             \/ UNCHANGED <<enabled, clockerPc>>
             \/ Disable \/ DisableReturn \/ Enable
      PROVE  Quiet'
  <2>1. Top' = Top BY <1>2 DEF Top, Last
  <2>2. Shallow' /\ EventReset' BY <1>2, <2>1 DEF Quiet, Shallow, EventReset
  <2> SUFFICES SeenDisabled' BY <2>2 DEF Quiet
  <2>3. CASE UNCHANGED <<enabled, clockerPc>>
    BY <1>2, <2>1, <2>3 DEF Quiet, SeenDisabled
  <2>4. CASE Disable
    BY <2>4 DEF Disable, SeenDisabled
  <2>5. CASE DisableReturn
    <3>1. clockerPc = "wait" /\ timers_done_ev /\ enabled' = enabled
      BY <2>5 DEF DisableReturn
    <3>2. stack = <<>> \/ Top.pc \notin {"loop", "cb"}
      BY <3>1 DEF Quiet, EventReset
    <3>3. QED BY <1>2, <2>1, <3>1, <3>2 DEF Quiet, SeenDisabled
  <2>6. CASE Enable BY <2>6 DEF Enable, SeenDisabled
  <2>7. QED BY <1>2, <2>3, <2>4, <2>5, <2>6
<1>3. ASSUME NEW b \in BOOLEAN, aio_poll(b) PROVE Quiet'
  <2> DEFINE f == [pc |-> IF b THEN "enabled" ELSE "poll",
                   blocking |-> b, was |-> dispatching,
                   deadline |-> IF b THEN Never ELSE 0,
                   woken |-> FALSE, current_time |-> 0]
  <2>1. stack' = Append(stack, f) /\ Len(stack) < MaxDepth
        /\ UNCHANGED <<enabled, clockerPc>>
    BY <1>3 DEF aio_poll
  <2>2. f.pc \in {"enabled", "poll"} OBVIOUS
  <2> HIDE DEF f
  <2>3. stack' # <<>> /\ Len(stack') = Len(stack) + 1 /\ stack'[Len(stack) + 1] = f
    BY <1>1, <2>1
  <2>4. Top' = f BY <2>3 DEF Top, Last
  <2>5. Shallow' BY <1>1, <2>1, <2>3 DEF Shallow
  <2>6. EventReset' /\ SeenDisabled'
    BY <2>1, <2>2, <2>4 DEF Quiet, EventReset, SeenDisabled
  <2>7. QED BY <2>5, <2>6 DEF Quiet
<1>4. ASSUME Finish PROVE Quiet'
  <2>1. stack # <<>> /\ stack' = SubSeq(stack, 1, Len(stack) - 1)
        /\ UNCHANGED <<enabled, clockerPc>>
    BY <1>4 DEF Finish, RunnerAt, Front
  <2>2. Len(stack) = 1
    <3>1. Len(stack) > 0 /\ Len(stack) <= 1 BY <1>0, <2>1, StackOf DEF Quiet, Shallow
    <3>2. \A n \in Nat : n > 0 /\ n <= 1 => n = 1 OBVIOUS
    <3>3. QED BY <1>1, <3>1, <3>2
  <2>3. stack' = <<>>
    <3>1. stack' = SubSeq(stack, 1, 0) BY <2>1, <2>2
    <3>2. SubSeq(stack, 1, 0) = <<>> BY <1>1
    <3>3. QED BY <3>1, <3>2
  <2>4. Len(stack') = 0 BY <2>3
  <2>5. QED BY <2>1, <2>3, <2>4 DEF Quiet, Shallow, EventReset, SeenDisabled
<1>5. ASSUME NEW p \in Modders \cup {Runner}, UseTimers(p) PROVE Quiet'
  <2>1. UNCHANGED <<stack, timers_done_ev, enabled, clockerPc>>
    BY <1>5 DEF UseTimers, timer_del, timer_mod_ns, timer_mod_anticipate_ns
  <2>2. QED BY <1>2, <2>1
<1>6. ASSUME NEW p \in Procs, Notify(p) PROVE Quiet'
  BY <1>2, <1>6 DEF Notify
<1>7. CASE Disable \/ DisableReturn \/ Enable \/ Tick
  <2>1. UNCHANGED <<stack, timers_done_ev>>
    BY <1>7 DEF Disable, DisableReturn, Enable, Tick
  <2>2. CASE Tick BY <1>2, <2>1, <2>2 DEF Tick
  <2>3. QED BY <1>2, <1>7, <2>1, <2>2
<1>8. CASE RunnerStep
  <2>1. Runner \in Procs BY DEF Procs
  <2>2. QED BY <1>3, <1>4, <1>6, <1>8, <2>1, QuietRunner DEF RunnerStep
<1>9. CASE UNCHANGED vars BY <1>2, <1>9 DEF vars
<1>10. QED BY <1>3, <1>5, <1>6, <1>7, <1>8, <1>9 DEF Next, Procs

\* Once qemu_clock_enable(type, false) has returned no timer of that clock runs,
\* if callbacks do not call aio_poll: the inner call would set the event while
\* the callback that made it still runs.
THEOREM DisabledStaysQuiet ==
  ASSUME MaxDepth = 1
  PROVE  Spec => []DisabledQuiet
<1>1. Init => Quiet
  <2> SUFFICES ASSUME Init PROVE Quiet OBVIOUS
  <2>1. stack = <<>> /\ Len(stack) = 0 /\ clockerPc = "idle" BY DEF Init
  <2>2. QED BY <2>1 DEF Quiet, Shallow, EventReset, SeenDisabled
<1>2. IndInv /\ Quiet /\ [Next]_vars => Quiet' BY QuietStep
<1>3. IndInv /\ Quiet => DisabledQuiet
  <2> SUFFICES ASSUME IndInv, Quiet, clockerPc = "disabled", NEW i \in DOMAIN stack
               PROVE  stack[i].pc \notin {"loop", "cb"}
    BY DEF DisabledQuiet
  <2>1. i \in 1 .. Len(stack) /\ Len(stack) \in Nat BY StackOf DEF IndInv
  <2>2. i = Len(stack) /\ stack # <<>> BY <2>1 DEF Quiet, Shallow
  <2>3. stack[i] = Top BY <2>2 DEF Top, Last
  <2>4. QED BY <2>2, <2>3 DEF Quiet, SeenDisabled
<1>4. QED BY <1>1, <1>2, <1>3, InvHolds, PTL DEF Spec
=============================================================================
