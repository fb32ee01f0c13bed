---------------------------- MODULE AioHandlers ----------------------------
(***************************************************************************)
(* The list of file descriptor handlers of an AioContext (aio-posix.c).    *)
(* aio_dispatch walks the list and calls handlers, which add and remove    *)
(* handlers and call aio_poll again, so that several walks are on the      *)
(* stack; nodes removed during a walk are only marked and freed later.     *)
(*                                                                         *)
(* Only the thread that has acquired the context gets here (module IoThread *)
(* has the lock), so there is one thread.  The kernel reports any of the   *)
(* events polled for.  What else aio_poll does is in modules AioContext    *)
(* and Timers; bottom halves are here as callers of this code, called when *)
(* no node is being visited.                                               *)
(***************************************************************************)
EXTENDS Integers, Sequences, FiniteSets, SequencesExt

CONSTANTS Fds,
          Registrations,   \* the sets of handlers that are set for them
          Nodes,      \* memory for AioHandlers
          NoNode,     \* NULL
          MaxDepth    \* bound on nested calls of aio_poll

ASSUME HandlersAssumption ==
  /\ NoNode \notin Nodes /\ MaxDepth \in Nat \ {0}
  /\ Registrations \subseteq (SUBSET {"read", "write"}) \ {{}}

VARIABLES
  aio_handlers,       \* the list, head first
  fd, events, revents, deleted,   \* of each node; events names its handlers;
                      \* memory that is free has none
  walking_handlers,
  stack,              \* aio_dispatch calls, innermost last
  registered          \* history: the node whose handlers were set last and
                      \* not removed, for each descriptor

vars == <<aio_handlers, fd, events, revents, deleted, walking_handlers, stack,
          registered>>
nodeVars == <<aio_handlers, fd, events, deleted>>

Kinds == {"read", "write"}

Frame == [pc : {"bh",                       \* in aio_bh_poll
                "walk",                     \* before visiting node
                "read", "write",            \* before calling a handler
                "in_read", "in_write",      \* in a handler
                "next"},                    \* before moving on
          node : Nodes \cup {NoNode},
          revents : SUBSET Kinds]           \* the local variable

TypeOK ==
  /\ aio_handlers \in Seq(Nodes)
  /\ fd \in [Nodes -> Fds \cup {NoNode}]
  /\ events \in [Nodes -> SUBSET Kinds] /\ revents \in [Nodes -> SUBSET Kinds]
  /\ deleted \in [Nodes -> BOOLEAN]
  /\ walking_handlers \in Nat
  /\ stack \in Seq(Frame)
  /\ registered \in [Fds -> Nodes \cup {NoNode}]

Init ==
  /\ aio_handlers = <<>>
  /\ fd = [n \in Nodes |-> NoNode]
  /\ events = [n \in Nodes |-> {}] /\ revents = [n \in Nodes |-> {}]
  /\ deleted = [n \in Nodes |-> FALSE]
  /\ walking_handlers = 0
  /\ stack = <<>>
  /\ registered = [f \in Fds |-> NoNode]

Top     == Last(stack)
At(pcs) == stack # <<>> /\ Top.pc \in pcs

\* The caller's own code runs: outside of aio_poll, or in a callback.
InCaller == stack # <<>> => Top.pc \in {"bh", "in_read", "in_write"}

Goto(where) == stack' = [stack EXCEPT ![Len(stack)].pc = where]

\* Where a node is in the list.
Place(node) == CHOOSE i \in DOMAIN aio_handlers : aio_handlers[i] = node

\* QLIST_REMOVE and g_free.
Free(node) ==
  /\ aio_handlers' = RemoveAt(aio_handlers, Place(node))
  /\ fd' = [fd EXCEPT ![node] = NoNode]
  /\ events' = [events EXCEPT ![node] = {}]
  /\ revents' = [revents EXCEPT ![node] = {}]
  /\ deleted' = [deleted EXCEPT ![node] = FALSE]

-----------------------------------------------------------------------------
(* aio_set_fd_handler.                                                     *)

\* find_aio_handler.
Live(f) == {i \in DOMAIN aio_handlers :
              fd[aio_handlers[i]] = f /\ ~deleted[aio_handlers[i]]}

find_aio_handler(f) ==
  IF Live(f) = {} THEN NoNode
  ELSE aio_handlers[CHOOSE i \in Live(f) : \A j \in Live(f) : i <= j]

\* Both handlers are NULL: remove the node, for real if nobody walks the list.
RemoveHandler(f) ==
  LET node == find_aio_handler(f) IN
  /\ InCaller /\ node # NoNode
  /\ \/ /\ walking_handlers > 0
        /\ deleted' = [deleted EXCEPT ![node] = TRUE]
        /\ revents' = [revents EXCEPT ![node] = {}]
        /\ UNCHANGED <<aio_handlers, fd, events>>
     \/ walking_handlers = 0 /\ Free(node)
  /\ registered' = [registered EXCEPT ![f] = NoNode]
  /\ UNCHANGED <<walking_handlers, stack>>

\* Set or update the handlers of a descriptor.  A new node becomes the head.
SetHandler(f, kinds) ==
  LET node == find_aio_handler(f) IN
  /\ InCaller
  /\ \/ /\ node # NoNode
        /\ events' = [events EXCEPT ![node] = kinds]
        /\ registered' = [registered EXCEPT ![f] = node]
        /\ UNCHANGED <<aio_handlers, fd>>
     \/ /\ node = NoNode
        /\ \E new \in Nodes \ Range(aio_handlers) :
             /\ aio_handlers' = <<new>> \o aio_handlers
             /\ fd' = [fd EXCEPT ![new] = f]
             /\ events' = [events EXCEPT ![new] = kinds]
             /\ registered' = [registered EXCEPT ![f] = new]
  /\ UNCHANGED <<deleted, revents, walking_handlers, stack>>

-----------------------------------------------------------------------------
(* aio_poll and aio_dispatch.                                              *)

Polled == {n \in Range(aio_handlers) : ~deleted[n]}

\* aio_poll up to aio_dispatch: poll reports events of the nodes polled, or
\* times out and leaves every revents as it is.
aio_poll ==
  /\ InCaller /\ Len(stack) < MaxDepth
  /\ \/ \E r \in [Polled -> SUBSET Kinds] :
          /\ \A n \in Polled : r[n] \subseteq events[n]
          /\ \E n \in Polled : r[n] # {}
          /\ revents' = [n \in Nodes |-> IF n \in Polled THEN r[n]
                                         ELSE revents[n]]
     \/ UNCHANGED revents
  /\ stack' = Append(stack, [pc |-> "bh", node |-> NoNode, revents |-> {}])
  /\ UNCHANGED <<nodeVars, walking_handlers, registered>>

First == IF aio_handlers = <<>> THEN NoNode ELSE Head(aio_handlers)

\* QLIST_NEXT.
After(n) == IF Place(n) = Len(aio_handlers) THEN NoNode
            ELSE aio_handlers[Place(n) + 1]

WalkTo(n) ==
  stack' = [stack EXCEPT ![Len(stack)] =
              [pc |-> "walk", node |-> n, revents |-> {}]]

\* aio_bh_poll is over.
StartWalk ==
  /\ At({"bh"})
  /\ WalkTo(First)
  /\ UNCHANGED <<nodeVars, revents, walking_handlers, registered>>

\* The top of the loop.
Visit ==
  /\ At({"walk"}) /\ Top.node # NoNode
  /\ walking_handlers' = walking_handlers + 1
  /\ stack' = [stack EXCEPT ![Len(stack)].pc = "read",
                 ![Len(stack)].revents = revents[Top.node] \cap events[Top.node]]
  /\ revents' = [revents EXCEPT ![Top.node] = {}]
  /\ UNCHANGED <<nodeVars, registered>>

\* MUTANT: node->deleted is looked at once, before the first handler.
CallNoRecheck ==
  /\ \/ /\ At({"read"})
        /\ Goto(IF ~deleted[Top.node]
                   /\ "read" \in Top.revents \cap events[Top.node]
                THEN "in_read" ELSE "write")
     \/ /\ At({"write"})
        /\ Goto(IF "write" \in Top.revents \cap events[Top.node]
                THEN "in_write" ELSE "next")
  /\ UNCHANGED <<nodeVars, revents, walking_handlers, registered>>

\* A handler is called if there still is one and the node is not deleted.
CallHandler ==
  /\ \/ /\ At({"read"})
        /\ Goto(IF ~deleted[Top.node]
                   /\ "read" \in Top.revents \cap events[Top.node]
                THEN "in_read" ELSE "write")
     \/ /\ At({"write"})
        /\ Goto(IF ~deleted[Top.node]
                   /\ "write" \in Top.revents \cap events[Top.node]
                THEN "in_write" ELSE "next")
  /\ UNCHANGED <<nodeVars, revents, walking_handlers, registered>>

HandlerReturns ==
  /\ \/ At({"in_read"}) /\ Goto("write")
     \/ At({"in_write"}) /\ Goto("next")
  /\ UNCHANGED <<nodeVars, revents, walking_handlers, registered>>

\* MUTANT: a nested walk frees the deleted nodes it meets.
MoveOnNested ==
  /\ At({"next"})
  /\ walking_handlers' = walking_handlers - 1
  /\ WalkTo(After(Top.node))
  /\ IF deleted[Top.node] THEN Free(Top.node) ELSE UNCHANGED <<nodeVars, revents>>
  /\ UNCHANGED registered

\* MUTANT: deleted nodes stay in the list.
MoveOnNoFree ==
  /\ At({"next"})
  /\ walking_handlers' = walking_handlers - 1
  /\ WalkTo(After(Top.node))
  /\ UNCHANGED <<nodeVars, revents, registered>>

\* The bottom of the loop: a deleted node is freed unless another walk is on
\* the stack.
MoveOn ==
  /\ At({"next"})
  /\ walking_handlers' = walking_handlers - 1
  /\ WalkTo(After(Top.node))
  /\ \/ walking_handlers = 1 /\ deleted[Top.node] /\ Free(Top.node)
     \/ /\ walking_handlers > 1 \/ ~deleted[Top.node]
        /\ UNCHANGED <<nodeVars, revents>>
  /\ UNCHANGED registered

EndWalk ==
  /\ At({"walk"}) /\ Top.node = NoNode
  /\ stack' = Front(stack)
  /\ UNCHANGED <<nodeVars, revents, walking_handlers, registered>>

-----------------------------------------------------------------------------
Dispatch == \/ StartWalk \/ Visit \/ CallHandler \/ HandlerReturns \/ MoveOn
            \/ EndWalk

Next == \/ aio_poll \/ Dispatch
        \/ \E f \in Fds : \/ RemoveHandler(f)
                          \/ \E kinds \in Registrations : SetHandler(f, kinds)

Spec == Init /\ [][Next]_vars

\* The thread polls again and again, and callbacks return.
Fairness ==
  /\ WF_vars(stack = <<>> /\ aio_poll)
  /\ SF_vars(StartWalk /\ Len(stack) = 1) /\ SF_vars(HandlerReturns /\ Len(stack) = 1)
  /\ WF_vars(Dispatch)

FairSpec == Spec /\ Fairness

-----------------------------------------------------------------------------
(* Properties.                                                             *)

\* No walk on the stack holds a pointer to a node that was freed: aio_dispatch
\* lets go of walking_handlers between two nodes, nested walks remove what
\* they find deleted, and handlers remove nodes ahead of and behind the walk.
NoDanglingHandler ==
  \A i \in DOMAIN stack : stack[i].node # NoNode =>
                            Contains(aio_handlers, stack[i].node)

\* A descriptor has one node that is not deleted, the one its handlers were
\* set in last, although deleted nodes of the same descriptor linger.
OneHandlerPerFd ==
  \A f \in Fds : {n \in Range(aio_handlers) : fd[n] = f /\ ~deleted[n]}
                   = {registered[f]} \ {NoNode}

\* Both, with the types of the state.
HandlersSafe == TypeOK /\ NoDanglingHandler /\ OneHandlerPerFd

\* Once aio_set_fd_handler has removed the handlers of a descriptor no walk
\* that is under way calls them.
RemovedNotCalled ==
  [][\A k \in {"in_read", "in_write"} :
       stack' # <<>> /\ Len(stack') = Len(stack)
         /\ Last(stack').pc = k /\ Top.pc # k =>
           registered[fd[Top.node]] = Top.node]_vars

\* A deleted node is freed eventually, although no walk frees it while another
\* one is on the stack, and the walk may be past it when it is deleted.
DeletedFreed ==
  \A n \in Nodes : (Contains(aio_handlers, n) /\ deleted[n])
                     ~> ~(Contains(aio_handlers, n) /\ deleted[n])
=============================================================================
