-------------------------- MODULE AioHandlersProofs --------------------------
(***************************************************************************)
(* Safety of the list of handlers of an AioContext, for any number of      *)
(* descriptors, handlers and nested calls of aio_poll: no walk of          *)
(* aio_dispatch meets memory that was freed, and removed handlers are not  *)
(* called.                                                                 *)
(***************************************************************************)
EXTENDS AioHandlers, TLAPS, FiniteSetTheorems, SequenceTheorems

\* The nodes in the list.
Listed == {aio_handlers[i] : i \in 1 .. Len(aio_handlers)}

Inj(s) == \A i, j \in 1 .. Len(s) : s[i] = s[j] => i = j

\* The calls of aio_dispatch that have raised walking_handlers.
Visits   == {"read", "write", "in_read", "in_write", "next"}
Visiting == {i \in 1 .. Len(stack) : stack[i].pc \in Visits}

\* Every call but the innermost is in a callback, and every call that visits a
\* node visits one that is in the list.
Walks ==
  \A i \in 1 .. Len(stack) :
    /\ i < Len(stack) => stack[i].pc \in {"bh", "in_read", "in_write"}
    /\ stack[i].pc = "bh" => stack[i].node = NoNode
    /\ stack[i].pc \in Visits => stack[i].node \in Listed
    /\ stack[i].pc = "walk" => stack[i].node \in Listed \cup {NoNode}

\* walking_handlers counts the calls that visit a node.
Counted == walking_handlers = Cardinality(Visiting)

\* A node is in the list once, and memory that is free is not marked.
ListOk ==
  /\ Inj(aio_handlers)
  /\ \A n \in Nodes : /\ n \in Listed => fd[n] \in Fds
                      /\ n \notin Listed => ~deleted[n]

-----------------------------------------------------------------------------
(* Lists.                                                                  *)

\* The list in the terms of the model's properties.
LEMMA ListedIs ==
  ASSUME TypeOK
  PROVE  /\ Listed \subseteq Nodes /\ NoNode \notin Listed
         /\ Range(aio_handlers) = Listed
         /\ \A n : Contains(aio_handlers, n) <=> n \in Listed
         /\ Len(aio_handlers) \in Nat /\ DOMAIN aio_handlers = 1 .. Len(aio_handlers)
<1>1. aio_handlers \in Seq(Nodes) BY DEF TypeOK
<1>2. /\ Len(aio_handlers) \in Nat /\ DOMAIN aio_handlers = 1 .. Len(aio_handlers)
      /\ \A i \in 1 .. Len(aio_handlers) : aio_handlers[i] \in Nodes
  BY <1>1
<1>3. NoNode \notin Nodes BY HandlersAssumption
<1>4. QED BY <1>2, <1>3 DEF Listed, Range, Contains

\* Removing one element of a sequence.
LEMMA RemoveAtIs ==
  ASSUME NEW S, NEW s \in Seq(S), NEW i \in 1 .. Len(s)
  PROVE  /\ RemoveAt(s, i) \in Seq(S) /\ Len(RemoveAt(s, i)) = Len(s) - 1
         /\ \A j \in 1 .. i - 1 : RemoveAt(s, i)[j] = s[j]
         /\ \A j \in i .. Len(s) - 1 : RemoveAt(s, i)[j] = s[j + 1]
<1> DEFINE a == SubSeq(s, 1, i - 1)
           b == SubSeq(s, i + 1, Len(s))
<1>1. a \in Seq(S) /\ Len(a) = i - 1 OBVIOUS
<1>2. b \in Seq(S) /\ Len(b) = Len(s) - i OBVIOUS
<1>3. \A j \in 1 .. i - 1 : a[j] = s[j] OBVIOUS
<1>4. \A j \in 1 .. Len(s) - i : b[j] = s[i + j] OBVIOUS
<1>5. RemoveAt(s, i) = a \o b BY DEF RemoveAt
<1>6. Len(s) \in Nat /\ i \in Nat OBVIOUS
<1> HIDE DEF a, b
<1>7. /\ a \o b \in Seq(S) /\ Len(a \o b) = (i - 1) + (Len(s) - i)
      /\ \A j \in 1 .. (i - 1) + (Len(s) - i) :
           (a \o b)[j] = IF j <= i - 1 THEN a[j] ELSE b[j - (i - 1)]
  <2>1. /\ a \o b \in Seq(S) /\ Len(a \o b) = Len(a) + Len(b)
        /\ \A j \in 1 .. Len(a) + Len(b) :
             (a \o b)[j] = IF j <= Len(a) THEN a[j] ELSE b[j - Len(a)]
    BY <1>1, <1>2, ConcatProperties
  <2>2. QED BY <1>1, <1>2, <2>1
<1>8. (i - 1) + (Len(s) - i) = Len(s) - 1 BY <1>6
<1>9. ASSUME NEW j \in 1 .. i - 1 PROVE (a \o b)[j] = s[j]
  <2>1. j \in 1 .. (i - 1) + (Len(s) - i) /\ j <= i - 1 BY <1>6
  <2>2. QED BY <1>3, <1>7, <2>1
<1>10. ASSUME NEW j \in i .. Len(s) - 1 PROVE (a \o b)[j] = s[j + 1]
  <2>1. /\ j \in 1 .. (i - 1) + (Len(s) - i) /\ ~(j <= i - 1)
        /\ j - (i - 1) \in 1 .. Len(s) - i /\ i + (j - (i - 1)) = j + 1
    BY <1>6
  <2>2. (a \o b)[j] = b[j - (i - 1)] BY <1>7, <2>1
  <2>3. b[j - (i - 1)] = s[i + (j - (i - 1))] BY <1>4, <2>1
  <2>4. QED BY <2>1, <2>2, <2>3
<1>11. QED BY <1>5, <1>7, <1>8, <1>9, <1>10

\* QLIST_REMOVE removes the node and nothing else.
LEMMA FreeEffect ==
  ASSUME TypeOK, ListOk, NEW node \in Listed, Free(node)
  PROVE  /\ aio_handlers' \in Seq(Nodes) /\ Inj(aio_handlers')
         /\ Listed' = Listed \ {node}
<1> DEFINE s == aio_handlers
           r == aio_handlers'
<1>1. s \in Seq(Nodes) /\ Len(s) \in Nat /\ DOMAIN s = 1 .. Len(s)
  BY DEF TypeOK
<1>2. PICK i \in 1 .. Len(s) : s[i] = node BY DEF Listed
<1>3. \A j, k \in 1 .. Len(s) : s[j] = s[k] => j = k BY DEF ListOk, Inj
<1>4. Place(node) = i BY <1>1, <1>2, <1>3 DEF Place
<1>5. r = RemoveAt(s, i) BY <1>4 DEF Free
<1> HIDE DEF s, r
<1>6. /\ r \in Seq(Nodes) /\ Len(r) = Len(s) - 1
      /\ \A j \in 1 .. i - 1 : r[j] = s[j]
      /\ \A j \in i .. Len(s) - 1 : r[j] = s[j + 1]
  BY <1>1, <1>2, <1>5, RemoveAtIs
\* Position of the j-th element of r in s.
<1> DEFINE p(j) == IF j < i THEN j ELSE j + 1
<1>7. \A j \in 1 .. Len(r) : p(j) \in 1 .. Len(s) /\ p(j) # i /\ r[j] = s[p(j)]
  BY <1>1, <1>2, <1>6
<1>8. \A j, k \in 1 .. Len(r) : p(j) = p(k) => j = k BY <1>1, <1>2, <1>6
<1>9. \A k \in 1 .. Len(s) : k # i => \E j \in 1 .. Len(r) : p(j) = k
  <2>1. SUFFICES ASSUME NEW k \in 1 .. Len(s), k # i
                 PROVE  \E j \in 1 .. Len(r) : p(j) = k
    OBVIOUS
  <2>2. CASE k < i
    <3>1. k \in 1 .. Len(r) /\ p(k) = k BY <1>1, <1>2, <1>6, <2>2
    <3>2. QED BY <3>1
  <2>3. CASE k > i
    <3>1. k - 1 \in 1 .. Len(r) /\ p(k - 1) = k BY <1>1, <1>2, <1>6, <2>3
    <3>2. QED BY <3>1
  <2>4. QED BY <1>2, <2>1, <2>2, <2>3
<1> HIDE DEF p
<1>10. Inj(r) BY <1>3, <1>7, <1>8 DEF Inj
<1>11. {r[j] : j \in 1 .. Len(r)} = {s[k] : k \in 1 .. Len(s)} \ {node}
  <2>1. ASSUME NEW j \in 1 .. Len(r)
        PROVE  r[j] \in {s[k] : k \in 1 .. Len(s)} \ {node}
    BY <1>2, <1>3, <1>7, <2>1
  <2>2. ASSUME NEW k \in 1 .. Len(s), s[k] # node
        PROVE  s[k] \in {r[j] : j \in 1 .. Len(r)}
    BY <1>2, <1>7, <1>9, <2>2
  <2>3. QED BY <2>1, <2>2
<1>12. QED BY <1>6, <1>10, <1>11 DEF Listed, s, r

\* find_aio_handler finds the node that was set last.
LEMMA FindIs ==
  ASSUME TypeOK, ListOk, OneHandlerPerFd, NEW f \in Fds
  PROVE  /\ find_aio_handler(f) = registered[f]
         /\ registered[f] # NoNode =>
              registered[f] \in Listed /\ fd[registered[f]] = f /\ ~deleted[registered[f]]
<1>1. /\ \A n \in Listed : fd[n] = f /\ ~deleted[n] <=> n = registered[f] /\ n # NoNode
      /\ registered[f] # NoNode =>
           registered[f] \in Listed /\ fd[registered[f]] = f /\ ~deleted[registered[f]]
  BY ListedIs DEF OneHandlerPerFd
<1>2. \A i \in 1 .. Len(aio_handlers) : aio_handlers[i] \in Listed BY DEF Listed
<1>3. \A i : i \in Live(f) <=> /\ i \in 1 .. Len(aio_handlers)
                               /\ aio_handlers[i] = registered[f]
                               /\ registered[f] # NoNode
  BY <1>1, <1>2, ListedIs DEF Live
<1>4. CASE registered[f] = NoNode
  <2>1. Live(f) = {} BY <1>3, <1>4
  <2>2. QED BY <1>1, <1>4, <2>1 DEF find_aio_handler
<1>5. CASE registered[f] # NoNode
  <2>1. PICK i \in 1 .. Len(aio_handlers) : aio_handlers[i] = registered[f]
    BY <1>1, <1>5 DEF Listed
  <2>2. Live(f) = {i} BY <1>3, <1>5, <2>1 DEF ListOk, Inj
  <2>3. (CHOOSE k \in Live(f) : \A j \in Live(f) : k <= j) = i
    <3>1. i <= i BY <2>1, ListedIs
    <3>2. QED BY <2>2, <3>1
  <2>4. QED BY <1>1, <2>1, <2>2, <2>3 DEF find_aio_handler
<1>6. QED BY <1>4, <1>5

\* QLIST_FIRST and QLIST_NEXT stay in the list, and move on.
LEMMA FirstIn ==
  ASSUME TypeOK
  PROVE  First \in Listed \cup {NoNode}
<1>1. aio_handlers \in Seq(Nodes) BY DEF TypeOK
<1>2. CASE aio_handlers # <<>>
  <2>1. Len(aio_handlers) > 0 /\ Head(aio_handlers) = aio_handlers[1]
        /\ Len(aio_handlers) \in Nat
    BY <1>1, <1>2
  <2>2. QED BY <1>2, <2>1 DEF First, Listed
<1>3. QED BY <1>2 DEF First

\* The successor of a listed node is another listed node or the end.
LEMMA AfterIn ==
  ASSUME TypeOK, ListOk, NEW node \in Listed
  PROVE  After(node) \in (Listed \ {node}) \cup {NoNode}
<1>1. Len(aio_handlers) \in Nat /\ DOMAIN aio_handlers = 1 .. Len(aio_handlers)
  BY ListedIs
<1>2. PICK i \in 1 .. Len(aio_handlers) : aio_handlers[i] = node BY DEF Listed
<1>3. Place(node) = i BY <1>1, <1>2 DEF Place, ListOk, Inj
<1>4. CASE i = Len(aio_handlers) BY <1>3, <1>4 DEF After
<1>5. CASE i # Len(aio_handlers)
  <2>1. i + 1 \in 1 .. Len(aio_handlers) /\ i + 1 # i
    <3> DEFINE n == Len(aio_handlers)
    <3>1. n \in Nat /\ i \in 1 .. n /\ i # n BY <1>1, <1>2, <1>5
    <3> HIDE DEF n
    <3>2. i + 1 \in 1 .. n /\ i + 1 # i BY <3>1
    <3>3. QED BY <3>2 DEF n
  <2>2. aio_handlers[i + 1] # node BY <1>2, <2>1 DEF ListOk, Inj
  <2>3. After(node) = aio_handlers[i + 1] BY <1>3, <1>5 DEF After
  <2>4. QED BY <2>1, <2>2, <2>3 DEF Listed
<1>6. QED BY <1>4, <1>5

-----------------------------------------------------------------------------
(* Walks.                                                                  *)

\* What a call of aio_dispatch does to its own frame.
TopTo(f) ==
  /\ Len(stack) > 0 /\ f \in Frame /\ stack' \in Seq(Frame)
  /\ Len(stack') = Len(stack)
  /\ \A i \in 1 .. Len(stack) - 1 : stack'[i] = stack[i]
  /\ stack'[Len(stack)] = f

FrameOk(f, list) ==
  /\ f.pc = "bh" => f.node = NoNode
  /\ f.pc \in Visits => f.node \in list
  /\ f.pc = "walk" => f.node \in list \cup {NoNode}

\* The elements of the stack of aio_dispatch calls and its top.
LEMMA StackOf ==
  ASSUME TypeOK
  PROVE  /\ Len(stack) \in Nat /\ \A i \in 1 .. Len(stack) : stack[i] \in Frame
         /\ DOMAIN stack = 1 .. Len(stack)
         /\ stack # <<>> => Len(stack) > 0 /\ Top = stack[Len(stack)] /\ Top \in Frame
<1>1. stack \in Seq(Frame) BY DEF TypeOK
<1>2. /\ Len(stack) \in Nat /\ \A i \in 1 .. Len(stack) : stack[i] \in Frame
      /\ DOMAIN stack = 1 .. Len(stack) /\ (stack # <<>> => Len(stack) > 0)
  BY <1>1
<1>3. Top = stack[Len(stack)] BY DEF Top, Last
<1>4. QED BY <1>2, <1>3

\* A sequence without its last element.
LEMMA FrontOf ==
  ASSUME NEW S, NEW s \in Seq(S), s # <<>>
  PROVE  /\ Front(s) \in Seq(S) /\ Len(Front(s)) = Len(s) - 1
         /\ \A i \in 1 .. Len(s) - 1 : Front(s)[i] = s[i]
<1>1. Len(s) \in Nat /\ Len(s) > 0 BY EmptySeq
<1>2. Front(s) \in Seq(S) /\ Len(Front(s)) = Len(s) - 1
  <2> DEFINE k == Len(s) - 1
  <2>1. k \in 0 .. Len(s) /\ Front(s) = SubSeq(s, 1, k) BY <1>1 DEF Front
  <2> HIDE DEF k
  <2>2. SubSeq(s, 1, k) \in Seq(S) BY <1>1, <2>1
  <2>3. Len(SubSeq(s, 1, k)) = k BY <1>1, <2>1
  <2>4. QED BY <2>1, <2>2, <2>3 DEF k
<1>3. \A i \in 1 .. Len(s) - 1 : Front(s)[i] = s[i] BY <1>1 DEF Front
<1>4. QED BY <1>2, <1>3

\* An update of the last element changes the top frame only.
LEMMA TopUpdate ==
  ASSUME TypeOK, stack # <<>>, NEW f \in Frame,
         stack' = [stack EXCEPT ![Len(stack)] = f]
  PROVE  TopTo(f)
<1>1. stack \in Seq(Frame) BY DEF TypeOK
<1>2. Len(stack) \in Nat /\ Len(stack) > 0 BY <1>1
<1>3. /\ stack' \in Seq(Frame) /\ Len(stack') = Len(stack)
      /\ \A i \in 1 .. Len(stack) - 1 : stack'[i] = stack[i]
      /\ stack'[Len(stack)] = f
  BY <1>1, <1>2
<1>4. QED BY <1>2, <1>3 DEF TopTo

\* Goto changes the pc of the top frame only.
LEMMA GotoIs ==
  ASSUME TypeOK, stack # <<>>, NEW where, Goto(where),
         [Top EXCEPT !.pc = where] \in Frame
  PROVE  TopTo([Top EXCEPT !.pc = where])
<1>1. Top = stack[Len(stack)] BY StackOf
<1>2. stack' = [stack EXCEPT ![Len(stack)] = [Top EXCEPT !.pc = where]]
  BY <1>1 DEF Goto
<1>3. QED BY <1>2, TopUpdate

\* The frames below stay as they are.
LEMMA TopWalks ==
  ASSUME TypeOK, Walks, NEW f, TopTo(f), FrameOk(f, Listed'),
         \A i \in 1 .. Len(stack) - 1 : stack[i].node \in Listed =>
                                          stack[i].node \in Listed'
  PROVE  Walks'
<1>1. Len(stack) \in Nat BY StackOf
<1>2. SUFFICES ASSUME NEW i \in 1 .. Len(stack')
      PROVE  (/\ i < Len(stack) => stack[i].pc \in {"bh", "in_read", "in_write"}
              /\ stack[i].pc = "bh" => stack[i].node = NoNode
              /\ stack[i].pc \in Visits => stack[i].node \in Listed
              /\ stack[i].pc = "walk" => stack[i].node \in Listed \cup {NoNode})'
  BY DEF Walks
<1>3. Len(stack') = Len(stack) /\ i \in 1 .. Len(stack) BY <1>2 DEF TopTo
<1>4. CASE i = Len(stack)
  <2>1. stack'[i] = f /\ ~(i < Len(stack')) BY <1>1, <1>3, <1>4 DEF TopTo
  <2>2. QED BY <2>1 DEF FrameOk
<1>5. CASE i # Len(stack)
  <2>1. i \in 1 .. Len(stack) - 1 BY <1>1, <1>3, <1>5
  <2>2. stack'[i] = stack[i] BY <2>1 DEF TopTo
  <2>3. i < Len(stack) BY <1>1, <2>1
  <2>4. stack[i].pc \in {"bh", "in_read", "in_write"} BY <1>3, <2>3 DEF Walks
  <2>5. QED BY <1>3, <2>1, <2>2, <2>4 DEF Walks, Visits
<1>6. QED BY <1>4, <1>5

\* Finitely many frames visit a node, so they can be counted.
LEMMA VisitingFinite ==
  ASSUME TypeOK
  PROVE  IsFiniteSet(Visiting) /\ Cardinality(Visiting) \in Nat
<1>1. Len(stack) \in Nat BY StackOf
<1>2. IsFiniteSet(1 .. Len(stack)) BY <1>1, FS_Interval
<1>3. Visiting \subseteq 1 .. Len(stack) BY DEF Visiting
<1>4. IsFiniteSet(Visiting) BY <1>2, <1>3, FS_Subset
<1>5. QED BY <1>4, FS_CardinalityType

\* The frame at the top visits, or it does not.
LEMMA VisitingTop ==
  ASSUME TypeOK, NEW f, TopTo(f)
  PROVE  Visiting' = IF f.pc \in Visits THEN Visiting \cup {Len(stack)}
                     ELSE Visiting \ {Len(stack)}
<1>1. /\ Len(stack) \in Nat /\ Len(stack) > 0 /\ Len(stack') = Len(stack)
      /\ \A i \in 1 .. Len(stack) - 1 : stack'[i] = stack[i]
      /\ stack'[Len(stack)] = f
  BY StackOf DEF TopTo
<1>2. \A i \in 1 .. Len(stack) : i # Len(stack) => i \in 1 .. Len(stack) - 1
  BY <1>1
<1>3. Len(stack) \in 1 .. Len(stack) BY <1>1
<1>4. QED BY <1>1, <1>2, <1>3 DEF Visiting

\* A frame that keeps visiting, or keeps not to, leaves the count right.
LEMMA CountSame ==
  ASSUME TypeOK, Counted, NEW f, TopTo(f), UNCHANGED walking_handlers,
         f.pc \in Visits <=> stack[Len(stack)].pc \in Visits
  PROVE  Counted'
<1>1. Len(stack) \in 1 .. Len(stack) BY StackOf DEF TopTo
<1>2. Len(stack) \in Visiting <=> f.pc \in Visits BY <1>1 DEF Visiting
<1>3. Visiting' = Visiting BY <1>2, VisitingTop
<1>4. QED BY <1>3 DEF Counted

\* walking_handlers++ (aio-posix.c:150) when the top frame begins a visit.
LEMMA CountUp ==
  ASSUME TypeOK, Counted, NEW f, TopTo(f), walking_handlers' = walking_handlers + 1,
         f.pc \in Visits, stack[Len(stack)].pc \notin Visits
  PROVE  Counted'
<1>1. Len(stack) \notin Visiting BY DEF Visiting
<1>2. Visiting' = Visiting \cup {Len(stack)} BY VisitingTop
<1>3. Cardinality(Visiting \cup {Len(stack)}) = Cardinality(Visiting) + 1
  BY <1>1, VisitingFinite, FS_AddElement
<1>4. QED BY <1>2, <1>3 DEF Counted

\* walking_handlers-- (aio-posix.c:175) when the top frame ends a visit.
LEMMA CountDown ==
  ASSUME TypeOK, Counted, NEW f, TopTo(f), walking_handlers' = walking_handlers - 1,
         f.pc \notin Visits, stack[Len(stack)].pc \in Visits
  PROVE  Counted' /\ walking_handlers' \in Nat
<1>1. Len(stack) \in 1 .. Len(stack) BY StackOf DEF TopTo
<1>2. Len(stack) \in Visiting BY <1>1 DEF Visiting
<1>3. Visiting' = Visiting \ {Len(stack)} BY VisitingTop
<1>4. /\ IsFiniteSet(Visiting \ {Len(stack)})
      /\ Cardinality(Visiting \ {Len(stack)}) = Cardinality(Visiting) - 1
  BY <1>2, VisitingFinite, FS_RemoveElement
<1>5. Cardinality(Visiting \ {Len(stack)}) \in Nat BY <1>4, FS_CardinalityType
<1>6. QED BY <1>3, <1>4, <1>5 DEF Counted

\* The only call that visits a node is the innermost.
LEMMA OnlyVisitor ==
  ASSUME TypeOK, Counted, walking_handlers = 1, Len(stack) \in Visiting
  PROVE  Visiting = {Len(stack)}
<1>1. /\ IsFiniteSet(Visiting \ {Len(stack)})
      /\ Cardinality(Visiting \ {Len(stack)}) = Cardinality(Visiting) - 1
  BY VisitingFinite, FS_RemoveElement
<1>2. Cardinality(Visiting \ {Len(stack)}) = 0 BY <1>1 DEF Counted
<1>3. Visiting \ {Len(stack)} = {} BY <1>1, <1>2, FS_EmptySet
<1>4. QED BY <1>3

\* walking_handlers = 0 means that no frame is at a node.
LEMMA NoVisitor ==
  ASSUME TypeOK, Counted, walking_handlers = 0
  PROVE  Visiting = {}
BY VisitingFinite, FS_EmptySet DEF Counted

\* One node per descriptor, element by element.
Owned == \A f \in Fds, n \in Nodes :
           n \in Listed /\ fd[n] = f /\ ~deleted[n] <=> n = registered[f]

\* OneHandlerPerFd: the live node of a descriptor is the one registered for it.
LEMMA OwnedIs == TypeOK => (OneHandlerPerFd <=> Owned)
<1> SUFFICES ASSUME TypeOK PROVE OneHandlerPerFd <=> Owned OBVIOUS
<1>1. /\ registered \in [Fds -> Nodes \cup {NoNode}] /\ NoNode \notin Nodes
      /\ Listed \subseteq Nodes /\ Range(aio_handlers) = Listed
  BY ListedIs, HandlersAssumption DEF TypeOK
<1>2. QED BY <1>1 DEF OneHandlerPerFd, Owned

\* The list is not touched.
LEMMA ListKept ==
  ASSUME ListOk, Owned, UNCHANGED <<aio_handlers, fd, deleted, registered>>
  PROVE  ListOk' /\ Owned' /\ Listed' = Listed
<1>1. Listed' = Listed BY DEF Listed
<1>2. Inj(aio_handlers)' BY DEF ListOk, Inj
<1>3. QED BY <1>1, <1>2 DEF ListOk, Owned

\* The inductive invariant.
IndInv == TypeOK /\ Walks /\ Counted /\ ListOk /\ Owned

-----------------------------------------------------------------------------
(* Steps.                                                                  *)

\* A call of aio_dispatch goes on, with the list as it is.
LEMMA DispatchStep ==
  ASSUME IndInv, NEW f, TopTo(f), FrameOk(f, Listed), Counted',
         UNCHANGED <<nodeVars, registered>>,
         revents' \in [Nodes -> SUBSET Kinds], walking_handlers' \in Nat
  PROVE  IndInv'
<1>0. TypeOK /\ Walks /\ ListOk /\ Owned BY DEF IndInv
<1>1. UNCHANGED <<aio_handlers, fd, events, deleted, registered>> BY DEF nodeVars
<1>2. ListOk' /\ Owned' /\ Listed' = Listed BY <1>0, <1>1, ListKept
<1>3. TypeOK' BY <1>0, <1>1 DEF TypeOK, TopTo
<1>4. FrameOk(f, Listed') BY <1>2
<1>5. Walks' BY <1>0, <1>2, <1>4, TopWalks
<1>6. QED BY <1>2, <1>3, <1>5 DEF IndInv

\* WalkTo puts the top frame at the top of the loop.
LEMMA WalkToIs ==
  ASSUME TypeOK, stack # <<>>, NEW n \in Nodes \cup {NoNode}, WalkTo(n)
  PROVE  TopTo([pc |-> "walk", node |-> n, revents |-> {}])
BY TopUpdate DEF WalkTo, Frame

\* The first node of a walk is in the list.
LEMMA StartWalkStep == ASSUME IndInv, StartWalk PROVE IndInv'
<1>0. TypeOK /\ Counted BY DEF IndInv
<1>1. /\ stack # <<>> /\ Top.pc = "bh" /\ WalkTo(First)
      /\ UNCHANGED <<nodeVars, revents, walking_handlers, registered>>
  BY DEF StartWalk, At
<1> DEFINE f == [pc |-> "walk", node |-> First, revents |-> {}]
<1>2. First \in Listed \cup {NoNode} /\ Listed \subseteq Nodes
  BY <1>0, FirstIn, ListedIs
<1>3. TopTo(f) BY <1>0, <1>1, <1>2, WalkToIs
<1>4. f.pc = "walk" /\ f.node = First OBVIOUS
<1> HIDE DEF f
<1>5. FrameOk(f, Listed) BY <1>2, <1>4 DEF FrameOk, Visits
<1>6. Counted' BY <1>0, <1>1, <1>3, <1>4, CountSame, StackOf DEF Visits
<1>7. revents' \in [Nodes -> SUBSET Kinds] /\ walking_handlers' \in Nat
  BY <1>0, <1>1 DEF TypeOK
<1>8. QED BY <1>1, <1>3, <1>5, <1>6, <1>7, DispatchStep

\* A visit begins: the node is in the list and now held by the count.
LEMMA VisitStep == ASSUME IndInv, Visit PROVE IndInv'
<1>0. TypeOK /\ Counted /\ Walks BY DEF IndInv
<1> DEFINE r == revents[Top.node] \cap events[Top.node]
           f == [pc |-> "read", node |-> Top.node, revents |-> r]
<1>1. /\ stack # <<>> /\ Top.pc = "walk" /\ Top.node # NoNode
      /\ walking_handlers' = walking_handlers + 1
      /\ revents' = [revents EXCEPT ![Top.node] = {}]
      /\ UNCHANGED <<nodeVars, registered>>
  BY DEF Visit, At
<1>2. /\ Top = stack[Len(stack)] /\ Top \in Frame /\ Len(stack) \in 1 .. Len(stack)
  BY <1>0, <1>1, StackOf
<1>3. Top.node \in Listed /\ Top.node \in Nodes
  BY <1>0, <1>1, <1>2, ListedIs DEF Walks
<1>4. f \in Frame /\ r \subseteq Kinds BY <1>0, <1>2, <1>3 DEF TypeOK, Frame
<1>5. stack' = [stack EXCEPT ![Len(stack)] = f]
  <2>1. stack' = [stack EXCEPT ![Len(stack)] =
                    [[stack[Len(stack)] EXCEPT !.pc = "read"] EXCEPT !.revents = r]]
    BY <1>0, <1>2, StackOf DEF Visit
  <2>2. [[Top EXCEPT !.pc = "read"] EXCEPT !.revents = r] = f
    <3>1. Top = [pc |-> Top.pc, node |-> Top.node, revents |-> Top.revents]
      BY <1>2 DEF Frame
    <3>2. [Top EXCEPT !.pc = "read"]
            = [pc |-> "read", node |-> Top.node, revents |-> Top.revents]
      BY <3>1
    <3> HIDE DEF r
    <3>3. [[pc |-> "read", node |-> Top.node, revents |-> Top.revents]
             EXCEPT !.revents = r] = f
      OBVIOUS
    <3>4. QED BY <3>2, <3>3
  <2>3. QED BY <1>2, <2>1, <2>2
<1>6. TopTo(f) BY <1>0, <1>1, <1>4, <1>5, TopUpdate
<1>7. f.pc = "read" /\ f.node = Top.node OBVIOUS
<1> HIDE DEF f
<1>8. FrameOk(f, Listed) BY <1>3, <1>7 DEF FrameOk, Visits
<1>9. Counted' BY <1>0, <1>1, <1>2, <1>6, <1>7, CountUp DEF Visits
<1>10. revents' \in [Nodes -> SUBSET Kinds] /\ walking_handlers' \in Nat
  <2>1. revents \in [Nodes -> SUBSET Kinds] /\ walking_handlers \in Nat
    BY <1>0 DEF TypeOK
  <2>2. walking_handlers' \in Nat BY <1>1, <2>1
  <2>3. revents' \in [Nodes -> SUBSET Kinds] BY <1>1, <2>1
  <2>4. QED BY <2>2, <2>3
<1>11. QED BY <1>1, <1>6, <1>8, <1>9, <1>10, DispatchStep

\* A frame that visits a node goes on visiting it.
LEMMA GotoStep ==
  ASSUME IndInv, stack # <<>>, Top.pc \in Visits, NEW where \in Visits, Goto(where),
         UNCHANGED <<nodeVars, revents, walking_handlers, registered>>
  PROVE  IndInv'
<1>0. TypeOK /\ Counted /\ Walks BY DEF IndInv
<1>1. /\ Top = stack[Len(stack)] /\ Top \in Frame /\ Len(stack) \in 1 .. Len(stack)
  BY <1>0, StackOf
<1>2. Top.node \in Listed BY <1>0, <1>1 DEF Walks
<1> DEFINE f == [Top EXCEPT !.pc = where]
<1>3. f \in Frame /\ f.pc = where /\ f.node = Top.node
  BY <1>1 DEF Frame, Visits
<1>4. TopTo(f) BY <1>0, <1>3, GotoIs
<1> HIDE DEF f
<1>5. FrameOk(f, Listed) BY <1>2, <1>3 DEF FrameOk, Visits
<1>6. Counted' BY <1>0, <1>1, <1>3, <1>4, CountSame
<1>7. revents' \in [Nodes -> SUBSET Kinds] /\ walking_handlers' \in Nat
  BY <1>0 DEF TypeOK
<1>8. QED BY <1>4, <1>5, <1>6, <1>7, DispatchStep

\* Calling a handler changes the pc of the top frame only.
LEMMA CallHandlerStep == ASSUME IndInv, CallHandler PROVE IndInv'
<1>1. /\ stack # <<>> /\ Top.pc \in Visits /\ \E w \in Visits : Goto(w)
      /\ UNCHANGED <<nodeVars, revents, walking_handlers, registered>>
  BY DEF CallHandler, At, Visits
<1>2. QED BY <1>1, GotoStep

\* A handler returns to the visit it was called from.
LEMMA HandlerReturnsStep == ASSUME IndInv, HandlerReturns PROVE IndInv'
<1>1. /\ stack # <<>> /\ Top.pc \in Visits /\ \E w \in Visits : Goto(w)
      /\ UNCHANGED <<nodeVars, revents, walking_handlers, registered>>
  BY DEF HandlerReturns, At, Visits
<1>2. QED BY <1>1, GotoStep

\* What freeing a node that is deleted or unregistered leaves of the list.
LEMMA FreeKeeps ==
  ASSUME IndInv, NEW node \in Listed, Free(node),
         registered' \in [Fds -> Nodes \cup {NoNode}],
         \A f \in Fds : \/ registered'[f] = registered[f] /\ registered[f] # node
                        \/ registered[f] = node /\ registered'[f] = NoNode
  PROVE  /\ ListOk' /\ Owned' /\ Listed' = Listed \ {node}
         /\ aio_handlers' \in Seq(Nodes) /\ fd' \in [Nodes -> Fds \cup {NoNode}]
         /\ events' \in [Nodes -> SUBSET Kinds] /\ revents' \in [Nodes -> SUBSET Kinds]
         /\ deleted' \in [Nodes -> BOOLEAN]
<1>0. TypeOK /\ ListOk /\ Owned BY DEF IndInv
<1>1. /\ aio_handlers' \in Seq(Nodes) /\ Inj(aio_handlers')
      /\ Listed' = Listed \ {node}
  BY <1>0, FreeEffect
<1>2. node \in Nodes /\ Listed \subseteq Nodes /\ NoNode \notin Nodes
  BY <1>0, ListedIs, HandlersAssumption
<1>3. /\ fd' = [fd EXCEPT ![node] = NoNode] /\ events' = [events EXCEPT ![node] = {}]
      /\ revents' = [revents EXCEPT ![node] = {}]
      /\ deleted' = [deleted EXCEPT ![node] = FALSE]
  BY DEF Free
<1>4. /\ fd' \in [Nodes -> Fds \cup {NoNode}] /\ deleted' \in [Nodes -> BOOLEAN]
      /\ events' \in [Nodes -> SUBSET Kinds] /\ revents' \in [Nodes -> SUBSET Kinds]
      /\ ~deleted'[node]
      /\ \A n \in Nodes \ {node} : fd'[n] = fd[n] /\ deleted'[n] = deleted[n]
  BY <1>0, <1>2, <1>3 DEF TypeOK
<1>5. ListOk' BY <1>0, <1>1, <1>4 DEF ListOk
<1>6. Owned'
  <2>1. SUFFICES ASSUME NEW f \in Fds, NEW n \in Nodes
                 PROVE  n \in Listed' /\ fd'[n] = f /\ ~deleted'[n] <=> n = registered'[f]
    BY DEF Owned
  <2>2. CASE n = node BY <1>1, <1>2, <2>2
  <2>3. CASE n # node
    <3>1. n \in Listed /\ fd[n] = f /\ ~deleted[n] <=> n = registered[f]
      BY <1>0 DEF Owned
    <3>2. n = registered'[f] <=> n = registered[f] BY <1>2, <2>3
    <3>3. QED BY <1>1, <1>4, <2>3, <3>1, <3>2
  <2>4. QED BY <2>2, <2>3
<1>7. QED BY <1>1, <1>4, <1>5, <1>6

\* A visit ends; the node is freed only if no frame visits one.
LEMMA MoveOnStep == ASSUME IndInv, MoveOn PROVE IndInv'
<1>0. TypeOK /\ Counted /\ Walks /\ ListOk /\ Owned BY DEF IndInv
<1>1. /\ stack # <<>> /\ Top.pc = "next" /\ WalkTo(After(Top.node))
      /\ walking_handlers' = walking_handlers - 1 /\ UNCHANGED registered
  BY DEF MoveOn, At
<1>2. /\ Top = stack[Len(stack)] /\ Top \in Frame /\ Len(stack) \in 1 .. Len(stack)
      /\ Len(stack) \in Nat
  BY <1>0, <1>1, StackOf
<1>3. Top.node \in Listed BY <1>0, <1>1, <1>2 DEF Walks, Visits
<1>4. /\ After(Top.node) \in (Listed \ {Top.node}) \cup {NoNode}
      /\ Listed \subseteq Nodes /\ NoNode \notin Listed
  BY <1>0, <1>3, AfterIn, ListedIs
<1> DEFINE f == [pc |-> "walk", node |-> After(Top.node), revents |-> {}]
<1>5. TopTo(f) BY <1>0, <1>1, <1>4, WalkToIs
<1>6. f.pc = "walk" /\ f.node = After(Top.node) OBVIOUS
<1> HIDE DEF f
<1>7. Counted' /\ walking_handlers' \in Nat
  BY <1>0, <1>1, <1>2, <1>5, <1>6, CountDown DEF Visits
<1>8. CASE walking_handlers = 1 /\ deleted[Top.node] /\ Free(Top.node)
  <2>1. Len(stack) \in Visiting BY <1>1, <1>2 DEF Visiting, Visits
  <2>2. Visiting = {Len(stack)} BY <1>0, <1>8, <2>1, OnlyVisitor
  <2>3. \A g \in Fds : registered'[g] = registered[g] /\ registered[g] # Top.node
    BY <1>0, <1>1, <1>3, <1>4, <1>8 DEF Owned
  <2>4. registered' \in [Fds -> Nodes \cup {NoNode}] BY <1>0, <1>1 DEF TypeOK
  <2>5. /\ ListOk' /\ Owned' /\ Listed' = Listed \ {Top.node}
        /\ aio_handlers' \in Seq(Nodes) /\ fd' \in [Nodes -> Fds \cup {NoNode}]
        /\ events' \in [Nodes -> SUBSET Kinds] /\ revents' \in [Nodes -> SUBSET Kinds]
        /\ deleted' \in [Nodes -> BOOLEAN]
    BY <1>3, <1>8, <2>3, <2>4, FreeKeeps
  <2>6. TypeOK' BY <1>5, <1>7, <2>4, <2>5 DEF TypeOK, TopTo
  <2>7. \A i \in 1 .. Len(stack) - 1 : stack[i].node = NoNode
    <3>1. SUFFICES ASSUME NEW i \in 1 .. Len(stack) - 1 PROVE stack[i].node = NoNode
      OBVIOUS
    <3>2. i \in 1 .. Len(stack) /\ i < Len(stack) /\ i # Len(stack) BY <1>2
    <3>3. stack[i].pc \notin Visits BY <2>2, <3>2 DEF Visiting
    <3>4. stack[i].pc = "bh" BY <1>0, <3>2, <3>3 DEF Walks, Visits
    <3>5. QED BY <1>0, <3>2, <3>4 DEF Walks
  <2>8. FrameOk(f, Listed') BY <1>4, <1>6, <2>5 DEF FrameOk, Visits
  <2>9. Walks' BY <1>0, <1>4, <1>5, <2>7, <2>8, TopWalks
  <2>10. QED BY <1>7, <2>5, <2>6, <2>9 DEF IndInv
<1>9. CASE UNCHANGED <<nodeVars, revents>>
  <2>1. FrameOk(f, Listed) BY <1>4, <1>6 DEF FrameOk, Visits
  <2>2. revents' \in [Nodes -> SUBSET Kinds] BY <1>0, <1>9 DEF TypeOK
  <2>3. QED BY <1>1, <1>5, <1>7, <1>9, <2>1, <2>2, DispatchStep
<1>10. QED BY <1>8, <1>9 DEF MoveOn

\* The end of a walk pops a frame that visits nothing.
LEMMA EndWalkStep == ASSUME IndInv, EndWalk PROVE IndInv'
<1>0. TypeOK /\ Counted /\ Walks /\ ListOk /\ Owned BY DEF IndInv
<1>1. /\ stack # <<>> /\ Top.pc = "walk" /\ stack' = Front(stack)
      /\ UNCHANGED <<nodeVars, revents, walking_handlers, registered>>
  BY DEF EndWalk, At
<1>2. UNCHANGED <<aio_handlers, fd, events, deleted, revents, registered>>
  BY <1>1 DEF nodeVars
<1>3. ListOk' /\ Owned' /\ Listed' = Listed BY <1>0, <1>2, ListKept
<1>4. /\ Top = stack[Len(stack)] /\ Len(stack) \in Nat /\ Len(stack) > 0
  BY <1>0, <1>1, StackOf
<1>5. /\ stack' \in Seq(Frame) /\ Len(stack') = Len(stack) - 1
      /\ \A i \in 1 .. Len(stack) - 1 : stack'[i] = stack[i]
  <2>1. stack \in Seq(Frame) BY <1>0 DEF TypeOK
  <2>2. QED BY <1>1, <2>1, FrontOf
<1>6. TypeOK' BY <1>0, <1>1, <1>2, <1>5 DEF TypeOK
<1>7. \A i \in 1 .. Len(stack') : /\ i \in 1 .. Len(stack) /\ i < Len(stack)
                                  /\ stack'[i] = stack[i]
  BY <1>4, <1>5
<1>8. Walks'
  <2>1. SUFFICES ASSUME NEW i \in 1 .. Len(stack')
        PROVE  (/\ i < Len(stack) => stack[i].pc \in {"bh", "in_read", "in_write"}
                /\ stack[i].pc = "bh" => stack[i].node = NoNode
                /\ stack[i].pc \in Visits => stack[i].node \in Listed
                /\ stack[i].pc = "walk" => stack[i].node \in Listed \cup {NoNode})'
    BY DEF Walks
  <2>2. QED BY <1>0, <1>3, <1>7 DEF Walks
<1>9. Visiting' = Visiting
  <2>1. stack[Len(stack)].pc \notin Visits BY <1>1, <1>4 DEF Visits
  <2>2. \A i \in 1 .. Len(stack) : i # Len(stack) => i \in 1 .. Len(stack')
    BY <1>4, <1>5
  <2>3. QED BY <1>7, <2>1, <2>2 DEF Visiting
<1>10. Counted' BY <1>0, <1>1, <1>9 DEF Counted
<1>11. QED BY <1>3, <1>6, <1>8, <1>10 DEF IndInv

\* aio_poll writes revents and pushes a frame that visits nothing.
LEMMA PollStep == ASSUME IndInv, aio_poll PROVE IndInv'
<1>0. TypeOK /\ Counted /\ Walks /\ ListOk /\ Owned BY DEF IndInv
<1> DEFINE f == [pc |-> "bh", node |-> NoNode, revents |-> {}]
<1>1. /\ InCaller /\ stack' = Append(stack, f)
      /\ UNCHANGED <<nodeVars, walking_handlers, registered>>
  BY DEF aio_poll
<1>2. UNCHANGED <<aio_handlers, fd, events, deleted, registered>> BY <1>1 DEF nodeVars
<1>3. ListOk' /\ Owned' /\ Listed' = Listed BY <1>0, <1>2, ListKept
<1>4. revents' \in [Nodes -> SUBSET Kinds]
  <2>1. CASE UNCHANGED revents BY <1>0, <2>1 DEF TypeOK
  <2>2. CASE \E r \in [Polled -> SUBSET Kinds] :
               revents' = [n \in Nodes |-> IF n \in Polled THEN r[n] ELSE revents[n]]
    BY <1>0, <2>2 DEF TypeOK
  <2>3. QED BY <2>1, <2>2 DEF aio_poll
<1>5. f \in Frame /\ f.pc = "bh" /\ f.node = NoNode BY DEF Frame
<1> HIDE DEF f
<1>6. /\ stack' \in Seq(Frame) /\ Len(stack') = Len(stack) + 1 /\ Len(stack) \in Nat
      /\ \A i \in 1 .. Len(stack) : stack'[i] = stack[i]
      /\ stack'[Len(stack) + 1] = f
  <2>1. stack \in Seq(Frame) BY <1>0 DEF TypeOK
  <2>2. QED BY <1>1, <1>5, <2>1
<1>7. TypeOK' BY <1>0, <1>1, <1>2, <1>4, <1>6 DEF TypeOK
<1>8. \A i \in 1 .. Len(stack) : stack[i].pc \in {"bh", "in_read", "in_write"}
  <2>1. SUFFICES ASSUME NEW i \in 1 .. Len(stack)
                 PROVE  stack[i].pc \in {"bh", "in_read", "in_write"}
    OBVIOUS
  <2>2. CASE i = Len(stack)
    <3>1. stack # <<>> BY <1>6, <2>1, EmptySeq
    <3>2. QED BY <1>0, <1>1, <2>2, <3>1, StackOf DEF InCaller
  <2>3. CASE i # Len(stack)
    <3>1. i < Len(stack) BY <1>6, <2>1, <2>3
    <3>2. QED BY <1>0, <2>1, <3>1 DEF Walks
  <2>4. QED BY <2>2, <2>3
<1>9. \A i \in 1 .. Len(stack') : \/ i \in 1 .. Len(stack) /\ stack'[i] = stack[i]
                                  \/ i = Len(stack') /\ stack'[i] = f
  BY <1>6
<1>10. Walks'
  <2>1. SUFFICES ASSUME NEW i \in 1 .. Len(stack')
        PROVE  (/\ i < Len(stack) => stack[i].pc \in {"bh", "in_read", "in_write"}
                /\ stack[i].pc = "bh" => stack[i].node = NoNode
                /\ stack[i].pc \in Visits => stack[i].node \in Listed
                /\ stack[i].pc = "walk" => stack[i].node \in Listed \cup {NoNode})'
    BY DEF Walks
  <2>2. CASE i \in 1 .. Len(stack) /\ stack'[i] = stack[i]
    BY <1>0, <1>3, <1>8, <2>2 DEF Walks
  <2>3. CASE i = Len(stack') /\ stack'[i] = f
    <3>1. ~(i < Len(stack')) BY <1>6, <2>3
    <3>2. QED BY <1>5, <2>3, <3>1 DEF Visits
  <2>4. QED BY <1>9, <2>2, <2>3
<1>11. Visiting' = Visiting
  <2>1. \A i \in 1 .. Len(stack) : i \in 1 .. Len(stack') BY <1>6
  <2>2. f.pc \notin Visits BY <1>5 DEF Visits
  <2>3. QED BY <1>6, <1>9, <2>1, <2>2 DEF Visiting
<1>12. Counted' BY <1>0, <1>1, <1>11 DEF Counted
<1>13. QED BY <1>3, <1>7, <1>10, <1>12 DEF IndInv

\* The head of the list is a new node.
LEMMA InsertHead ==
  ASSUME NEW S, NEW s \in Seq(S), NEW x \in S, NEW r, r = <<x>> \o s
  PROVE  /\ r \in Seq(S) /\ Len(s) \in Nat /\ Len(r) = Len(s) + 1 /\ r[1] = x
         /\ \A i \in 2 .. Len(r) : i - 1 \in 1 .. Len(s) /\ r[i] = s[i - 1]
<1>1. <<x>> \in Seq(S) /\ Len(<<x>>) = 1 /\ <<x>>[1] = x /\ Len(s) \in Nat OBVIOUS
<1>2. /\ r \in Seq(S) /\ Len(r) = 1 + Len(s)
      /\ \A i \in 1 .. 1 + Len(s) : r[i] = IF i <= 1 THEN <<x>>[i] ELSE s[i - 1]
  BY <1>1, ConcatProperties
<1>3. QED BY <1>1, <1>2

\* A new node at the head of the list.
LEMMA InsertEffect ==
  ASSUME TypeOK, ListOk, NEW new \in Nodes \ Listed,
         aio_handlers' = <<new>> \o aio_handlers
  PROVE  /\ aio_handlers' \in Seq(Nodes) /\ Inj(aio_handlers')
         /\ Listed' = Listed \cup {new}
<1> DEFINE s == aio_handlers
           r == aio_handlers'
<1>1. s \in Seq(Nodes) BY DEF TypeOK
<1>2. \A j, k \in 1 .. Len(s) : s[j] = s[k] => j = k BY DEF ListOk, Inj
<1>3. \A j \in 1 .. Len(s) : s[j] # new BY DEF Listed
<1> HIDE DEF s, r
<1>4. /\ r \in Seq(Nodes) /\ Len(s) \in Nat /\ Len(r) = Len(s) + 1 /\ r[1] = new
      /\ \A i \in 2 .. Len(r) : i - 1 \in 1 .. Len(s) /\ r[i] = s[i - 1]
  BY <1>1, InsertHead DEF s, r
<1>5. Inj(r)
  <2>1. SUFFICES ASSUME NEW j \in 1 .. Len(r), NEW k \in 1 .. Len(r), r[j] = r[k]
                 PROVE  j = k
    BY DEF Inj
  <2>2. (j = 1 \/ j \in 2 .. Len(r)) /\ (k = 1 \/ k \in 2 .. Len(r)) BY <1>4, <2>1
  <2>3. CASE j \in 2 .. Len(r) /\ k \in 2 .. Len(r)
    <3>1. j - 1 = k - 1 BY <1>2, <1>4, <2>1, <2>3
    <3>2. QED BY <1>4, <2>3, <3>1
  <2>4. CASE j = 1 \/ k = 1 BY <1>3, <1>4, <2>1, <2>2, <2>4
  <2>5. QED BY <2>2, <2>3, <2>4
<1>6. {r[j] : j \in 1 .. Len(r)} = {s[k] : k \in 1 .. Len(s)} \cup {new}
  <2>1. ASSUME NEW j \in 1 .. Len(r)
        PROVE  r[j] \in {s[k] : k \in 1 .. Len(s)} \cup {new}
    <3>1. j = 1 \/ j \in 2 .. Len(r) BY <1>4, <2>1
    <3>2. QED BY <1>4, <3>1
  <2>2. ASSUME NEW k \in 1 .. Len(s) PROVE s[k] \in {r[j] : j \in 1 .. Len(r)}
    <3>1. k + 1 \in 2 .. Len(r) /\ k + 1 \in 1 .. Len(r) /\ (k + 1) - 1 = k
      BY <1>4, <2>2
    <3>2. r[k + 1] = s[k] BY <1>4, <3>1
    <3>3. QED BY <3>1, <3>2
  <2>3. new \in {r[j] : j \in 1 .. Len(r)}
    <3>1. 1 \in 1 .. Len(r) BY <1>4
    <3>2. QED BY <1>4, <3>1
  <2>4. QED BY <2>1, <2>2, <2>3
<1>7. QED BY <1>4, <1>5, <1>6 DEF Listed, s, r

\* The stack stays as it is, and the list grows at most.
LEMMA WalksKept ==
  ASSUME Walks, Counted, UNCHANGED <<stack, walking_handlers>>,
         \/ Listed \subseteq Listed'
         \/ \A i \in 1 .. Len(stack) : stack[i].pc = "bh"
  PROVE  Walks' /\ Counted'
<1>1. Visiting' = Visiting BY DEF Visiting
<1>2. Counted' BY <1>1 DEF Counted
<1>3. Walks' BY DEF Walks, Visits
<1>4. QED BY <1>2, <1>3

\* aio_set_fd_handler with a handler: an update of the live node, or a new node.
LEMMA SetHandlerStep ==
  ASSUME IndInv, NEW f \in Fds, NEW kinds \in Registrations, SetHandler(f, kinds)
  PROVE  IndInv'
<1>0. TypeOK /\ Counted /\ Walks /\ ListOk /\ Owned /\ OneHandlerPerFd
  BY OwnedIs DEF IndInv
<1>1. /\ find_aio_handler(f) = registered[f]
      /\ registered[f] # NoNode => registered[f] \in Listed
  BY <1>0, FindIs
<1>2. /\ UNCHANGED <<deleted, revents, walking_handlers, stack>>
      /\ kinds \in SUBSET Kinds
  BY HandlersAssumption DEF SetHandler, Kinds
<1>3. /\ registered \in [Fds -> Nodes \cup {NoNode}] /\ Listed \subseteq Nodes
      /\ Range(aio_handlers) = Listed /\ NoNode \notin Nodes
  BY <1>0, ListedIs, HandlersAssumption DEF TypeOK
<1>4. CASE registered[f] # NoNode
  <2>1. /\ events' = [events EXCEPT ![registered[f]] = kinds]
        /\ registered' = [registered EXCEPT ![f] = registered[f]]
        /\ UNCHANGED <<aio_handlers, fd>>
    BY <1>1, <1>4 DEF SetHandler
  <2>2. UNCHANGED <<aio_handlers, fd, deleted, registered>> BY <1>2, <1>3, <2>1
  <2>3. ListOk' /\ Owned' /\ Listed' = Listed BY <1>0, <2>2, ListKept
  <2>4. events' \in [Nodes -> SUBSET Kinds]
    BY <1>0, <1>1, <1>2, <1>3, <1>4, <2>1 DEF TypeOK
  <2>5. TypeOK' BY <1>0, <1>2, <2>2, <2>4 DEF TypeOK
  <2>6. Walks' /\ Counted' BY <1>0, <1>2, <2>3, WalksKept
  <2>7. QED BY <2>3, <2>5, <2>6 DEF IndInv
<1>5. CASE registered[f] = NoNode
  <2>1. PICK new \in Nodes \ Listed :
          /\ aio_handlers' = <<new>> \o aio_handlers
          /\ fd' = [fd EXCEPT ![new] = f]
          /\ events' = [events EXCEPT ![new] = kinds]
          /\ registered' = [registered EXCEPT ![f] = new]
    BY <1>1, <1>3, <1>5 DEF SetHandler
  <2>2. /\ aio_handlers' \in Seq(Nodes) /\ Inj(aio_handlers')
        /\ Listed' = Listed \cup {new}
    BY <1>0, <2>1, InsertEffect
  <2>3. /\ fd' \in [Nodes -> Fds \cup {NoNode}]
        /\ registered' \in [Fds -> Nodes \cup {NoNode}]
        /\ fd'[new] = f /\ \A n \in Nodes \ {new} : fd'[n] = fd[n]
        /\ registered'[f] = new
        /\ \A g \in Fds \ {f} : registered'[g] = registered[g]
    BY <1>0, <1>3, <2>1 DEF TypeOK
  <2>4. events' \in [Nodes -> SUBSET Kinds] BY <1>0, <1>2, <2>1 DEF TypeOK
  <2>5. TypeOK' BY <1>0, <1>2, <2>2, <2>3, <2>4 DEF TypeOK
  <2>6. ListOk' BY <1>0, <1>2, <2>2, <2>3 DEF ListOk
  <2>7. Owned'
    <3>1. SUFFICES ASSUME NEW g \in Fds, NEW n \in Nodes
          PROVE  n \in Listed' /\ fd'[n] = g /\ ~deleted'[n] <=> n = registered'[g]
      BY DEF Owned
    <3>2. n \in Listed /\ fd[n] = g /\ ~deleted[n] <=> n = registered[g]
      BY <1>0 DEF Owned
    <3>3. ~deleted[new] /\ new \notin Listed BY <1>0, <2>1 DEF ListOk
    <3>4. registered[g] # new BY <1>0, <2>1, <3>3 DEF Owned
    <3>5. CASE n = new BY <1>2, <2>2, <2>3, <3>3, <3>4, <3>5
    <3>6. CASE n # new BY <1>2, <1>5, <1>3, <2>2, <2>3, <3>2, <3>6
    <3>7. QED BY <3>5, <3>6
  <2>8. Walks' /\ Counted' BY <1>0, <1>2, <2>2, WalksKept
  <2>9. QED BY <2>5, <2>6, <2>7, <2>8 DEF IndInv
<1>6. QED BY <1>4, <1>5

\* aio_set_fd_handler without: mark the node while walks are on, free it otherwise.
LEMMA RemoveHandlerStep ==
  ASSUME IndInv, NEW f \in Fds, RemoveHandler(f)
  PROVE  IndInv'
<1>0. TypeOK /\ Counted /\ Walks /\ ListOk /\ Owned /\ OneHandlerPerFd
  BY OwnedIs DEF IndInv
<1> DEFINE node == registered[f]
<1>1. /\ find_aio_handler(f) = node
      /\ node # NoNode => node \in Listed /\ fd[node] = f /\ ~deleted[node]
  BY <1>0, FindIs
<1>2. /\ InCaller /\ node # NoNode
      /\ registered' = [registered EXCEPT ![f] = NoNode]
      /\ UNCHANGED <<walking_handlers, stack>>
  BY <1>1 DEF RemoveHandler
<1>3. /\ registered \in [Fds -> Nodes \cup {NoNode}] /\ Listed \subseteq Nodes
      /\ node \in Listed /\ node \in Nodes /\ NoNode \notin Nodes
  BY <1>0, <1>1, <1>2, ListedIs, HandlersAssumption DEF TypeOK
<1>4. /\ registered' \in [Fds -> Nodes \cup {NoNode}] /\ registered'[f] = NoNode
      /\ \A g \in Fds \ {f} : registered'[g] = registered[g] /\ registered[g] # node
  <2>1. \A g \in Fds \ {f} : registered[g] # node BY <1>0, <1>1, <1>3 DEF Owned
  <2>2. QED BY <1>2, <1>3, <2>1
<1> HIDE DEF node
<1>5. CASE /\ walking_handlers > 0
           /\ deleted' = [deleted EXCEPT ![node] = TRUE]
           /\ revents' = [revents EXCEPT ![node] = {}]
           /\ UNCHANGED <<aio_handlers, fd, events>>
  <2>1. Listed' = Listed /\ Inj(aio_handlers') BY <1>0, <1>5 DEF Listed, ListOk
  <2>2. /\ deleted' \in [Nodes -> BOOLEAN] /\ deleted'[node]
        /\ \A n \in Nodes \ {node} : deleted'[n] = deleted[n]
    BY <1>0, <1>3, <1>5 DEF TypeOK
  <2>3. revents' \in [Nodes -> SUBSET Kinds] BY <1>0, <1>3, <1>5 DEF TypeOK
  <2>4. TypeOK' BY <1>0, <1>2, <1>4, <1>5, <2>2, <2>3 DEF TypeOK
  <2>5. ListOk' BY <1>0, <1>3, <1>5, <2>1, <2>2 DEF ListOk
  <2>6. Owned'
    <3>1. SUFFICES ASSUME NEW g \in Fds, NEW n \in Nodes
          PROVE  n \in Listed' /\ fd'[n] = g /\ ~deleted'[n] <=> n = registered'[g]
      BY DEF Owned
    <3>2. n \in Listed /\ fd[n] = g /\ ~deleted[n] <=> n = registered[g]
      BY <1>0 DEF Owned
    <3>3. CASE n = node BY <1>3, <1>4, <2>2, <3>3
    <3>4. CASE n # node
      <4>1. n = registered'[g] <=> n = registered[g]
        BY <1>3, <1>4, <3>4 DEF node
      <4>2. QED BY <1>5, <2>1, <2>2, <3>2, <3>4, <4>1
    <3>5. QED BY <3>3, <3>4
  <2>7. Walks' /\ Counted' BY <1>0, <1>2, <2>1, WalksKept
  <2>8. QED BY <2>4, <2>5, <2>6, <2>7 DEF IndInv
<1>6. CASE walking_handlers = 0 /\ Free(node)
  <2>1. Visiting = {} BY <1>0, <1>6, NoVisitor
  <2>2. \A i \in 1 .. Len(stack) : stack[i].pc = "bh"
    <3>1. SUFFICES ASSUME NEW i \in 1 .. Len(stack) PROVE stack[i].pc = "bh"
      OBVIOUS
    <3>2. stack[i].pc \notin Visits BY <2>1 DEF Visiting
    <3>3. Len(stack) \in Nat /\ stack # <<>> BY <1>0, <3>1, StackOf, EmptySeq
    <3>4. CASE i = Len(stack)
      BY <1>0, <1>2, <3>2, <3>3, <3>4, StackOf DEF InCaller, Visits
    <3>5. CASE i # Len(stack)
      <4>1. i < Len(stack) BY <3>1, <3>3, <3>5
      <4>2. QED BY <1>0, <3>2, <4>1 DEF Walks, Visits
    <3>6. QED BY <3>4, <3>5
  <2>3. \A g \in Fds : \/ registered'[g] = registered[g] /\ registered[g] # node
                       \/ registered[g] = node /\ registered'[g] = NoNode
    BY <1>4 DEF node
  <2>4. /\ ListOk' /\ Owned' /\ Listed' = Listed \ {node}
        /\ aio_handlers' \in Seq(Nodes) /\ fd' \in [Nodes -> Fds \cup {NoNode}]
        /\ events' \in [Nodes -> SUBSET Kinds] /\ revents' \in [Nodes -> SUBSET Kinds]
        /\ deleted' \in [Nodes -> BOOLEAN]
    BY <1>3, <1>4, <1>6, <2>3, FreeKeeps
  <2>5. TypeOK' BY <1>0, <1>2, <1>4, <2>4 DEF TypeOK
  <2>6. Walks' /\ Counted' BY <1>0, <1>2, <2>2, WalksKept
  <2>7. QED BY <2>4, <2>5, <2>6 DEF IndInv
<1>7. QED BY <1>1, <1>5, <1>6 DEF RemoveHandler

-----------------------------------------------------------------------------
(* Theorems.                                                               *)

\* The invariant holds in the empty context.
LEMMA InitInv == Init => IndInv
<1> SUFFICES ASSUME Init PROVE IndInv OBVIOUS
<1>1. Len(stack) = 0 /\ Len(aio_handlers) = 0 BY DEF Init
<1>2. TypeOK BY DEF Init, TypeOK
<1>3. Walks BY <1>1 DEF Walks
<1>4. Visiting = {} /\ Listed = {} BY <1>1 DEF Visiting, Listed
<1>5. Counted BY <1>4, FS_EmptySet DEF Counted, Init
<1>6. ListOk BY <1>1, <1>4 DEF ListOk, Inj, Init
<1>7. Owned BY <1>4, HandlersAssumption DEF Owned, Init
<1>8. QED BY <1>2, <1>3, <1>5, <1>6, <1>7 DEF IndInv

\* Every step preserves the invariant.
LEMMA InvStep == IndInv /\ [Next]_vars => IndInv'
<1> SUFFICES ASSUME IndInv, [Next]_vars PROVE IndInv' OBVIOUS
<1>1. CASE UNCHANGED vars
  <2>1. UNCHANGED <<aio_handlers, fd, events, revents, deleted, walking_handlers,
                    stack, registered>>
    BY <1>1 DEF vars
  <2>2. ListOk' /\ Owned' /\ Listed' = Listed BY <2>1, ListKept DEF IndInv
  <2>3. Walks' /\ Counted' BY <2>1, <2>2, WalksKept DEF IndInv
  <2>4. TypeOK' BY <2>1 DEF IndInv, TypeOK
  <2>5. QED BY <2>2, <2>3, <2>4 DEF IndInv
<1>2. QED
  BY <1>1, PollStep, StartWalkStep, VisitStep, CallHandlerStep,
     HandlerReturnsStep, MoveOnStep, EndWalkStep, SetHandlerStep,
     RemoveHandlerStep DEF Next, Dispatch

\* The invariant holds in every reachable state.
LEMMA InvHolds == Spec => []IndInv
BY InitInv, InvStep, PTL DEF Spec

\* Walks nest, handlers add and remove handlers, and walking_handlers is let go
\* between two nodes: still no call of aio_dispatch has a node that was freed,
\* and find_aio_handler finds one node for each descriptor.
THEOREM HandlersStaySafe == Spec => []HandlersSafe
<1>1. IndInv => HandlersSafe
  <2> SUFFICES ASSUME IndInv PROVE HandlersSafe OBVIOUS
  <2>1. TypeOK /\ Walks /\ OneHandlerPerFd BY OwnedIs DEF IndInv
  <2>2. NoDanglingHandler
    <3>1. SUFFICES ASSUME NEW i \in 1 .. Len(stack), stack[i].node # NoNode
                   PROVE  stack[i].node \in Listed
      BY <2>1, StackOf, ListedIs DEF NoDanglingHandler
    <3>2. stack[i].pc \in Visits \cup {"bh", "walk"}
      BY <2>1, StackOf DEF Frame, Visits
    <3>3. QED BY <2>1, <3>1, <3>2 DEF Walks
  <2>3. QED BY <2>1, <2>2 DEF HandlersSafe
<1>2. QED BY <1>1, InvHolds, PTL

\* A handler that aio_dispatch calls is the one registered for its descriptor.
LEMMA CalledIsRegistered ==
  ASSUME IndInv, [Next]_vars, NEW k \in {"in_read", "in_write"},
         stack' # <<>>, Len(stack') = Len(stack), Last(stack').pc = k, Top.pc # k
  PROVE  registered[fd[Top.node]] = Top.node
<1>0. TypeOK /\ Walks /\ ListOk /\ Owned BY DEF IndInv
<1>1. stack \in Seq(Frame) /\ Len(stack) \in Nat BY <1>0 DEF TypeOK
<1>2. CASE UNCHANGED stack BY <1>2 DEF Top
<1>3. ASSUME NEW f, TopTo(f) PROVE f.pc = k
  <2>1. Last(stack') = f BY <1>3 DEF Last, TopTo
  <2>2. QED BY <2>1
<1>4. ASSUME NEW n \in Nodes \cup {NoNode}, stack # <<>>, WalkTo(n) PROVE FALSE
  <2> DEFINE f == [pc |-> "walk", node |-> n, revents |-> {}]
  <2>1. TopTo(f) BY <1>0, <1>4, WalkToIs
  <2>2. f.pc = "walk" OBVIOUS
  <2>3. QED BY <1>3, <2>1, <2>2
<1>5. CASE StartWalk
  <2>1. First \in Nodes \cup {NoNode} BY <1>0, FirstIn, ListedIs
  <2>2. QED BY <1>4, <1>5, <2>1 DEF StartWalk, At
<1>6. ASSUME NEW where \in Visits, stack # <<>>, Goto(where) PROVE where = k
  <2> DEFINE f == [Top EXCEPT !.pc = where]
  <2>1. f \in Frame /\ f.pc = where BY <1>0, <1>6, StackOf DEF Frame, Visits
  <2>2. TopTo(f) BY <1>0, <1>6, <2>1, GotoIs
  <2>3. QED BY <1>3, <2>1, <2>2
<1>7. CASE Visit
  <2>1. stack # <<>> /\ Top \in Frame /\ Top = stack[Len(stack)] /\ Len(stack) > 0
    BY <1>0, <1>7, StackOf DEF Visit, At
  <2>2. stack'[Len(stack)].pc = "read"
    BY <1>1, <1>7, <2>1 DEF Visit, Frame
  <2>3. Last(stack').pc = "read" BY <2>2 DEF Last
  <2>4. QED BY <2>3
<1>8. CASE HandlerReturns
  BY <1>6, <1>8 DEF HandlerReturns, At, Visits
<1>9. CASE MoveOn
  <2>1. stack # <<>> /\ Top.pc = "next" /\ WalkTo(After(Top.node))
    BY <1>9 DEF MoveOn, At
  <2>2. Top.node \in Listed BY <1>0, <2>1, StackOf DEF Walks, Visits
  <2>3. After(Top.node) \in Nodes \cup {NoNode} BY <1>0, <2>2, AfterIn, ListedIs
  <2>4. QED BY <1>4, <2>1, <2>3
<1>10. CASE aio_poll
  <2>1. Len(stack') = Len(stack) + 1 BY <1>1, <1>10 DEF aio_poll
  <2>2. QED BY <1>1, <2>1
<1>11. CASE EndWalk
  <2>1. stack # <<>> /\ stack' = Front(stack) BY <1>11 DEF EndWalk, At
  <2>2. Len(stack') = Len(stack) - 1 BY <1>1, <2>1, FrontOf
  <2>3. QED BY <1>1, <2>2
<1>12. CASE CallHandler
  <2>1. ~deleted[Top.node] /\ Top.pc \in Visits /\ stack # <<>>
    BY <1>6, <1>12 DEF CallHandler, At, Visits
  <2>2. Top.node \in Listed BY <1>0, <2>1, StackOf DEF Walks
  <2>3. Top.node \in Nodes /\ fd[Top.node] \in Fds
    BY <1>0, <2>2, ListedIs DEF ListOk
  <2>4. QED BY <1>0, <2>1, <2>2, <2>3 DEF Owned
<1>13. QED
  BY <1>2, <1>5, <1>7, <1>8, <1>9, <1>10, <1>11, <1>12
     DEF Next, Dispatch, SetHandler, RemoveHandler, vars

\* Once aio_set_fd_handler has removed the handlers of a descriptor no walk
\* that is under way calls them, however deep it is nested.
THEOREM RemovedStayQuiet == Spec => RemovedNotCalled
<1>1. IndInv /\ [Next]_vars =>
        [\A k \in {"in_read", "in_write"} :
           stack' # <<>> /\ Len(stack') = Len(stack)
             /\ Last(stack').pc = k /\ Top.pc # k =>
               registered[fd[Top.node]] = Top.node]_vars
  BY CalledIsRegistered
<1>2. QED BY <1>1, InvHolds, PTL DEF Spec, RemovedNotCalled
=============================================================================
