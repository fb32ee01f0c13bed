------------------------------ MODULE AsyncWork ------------------------------
(***************************************************************************)
(* What a pool of workers promises to those who submit requests: requests  *)
(* are started in the order of their submission; each is executed once, or *)
(* cancelled before it was started; its callback, if it has one, is called *)
(* once, after that; and its memory is reused only afterwards.             *)
(***************************************************************************)
EXTENDS Integers, Sequences, SequencesExt

CONSTANT Reqs       \* requests, or the memory they are kept in

VARIABLES life,     \* where a request is: "free", "QUEUED", "ACTIVE", "DONE", or
                    \* in its "CALLBACK"
          waiting,  \* the requests to be started, in order
          wanted    \* whether a request has a callback

Init ==
  /\ life = [r \in Reqs |-> "free"]
  /\ waiting = <<>>
  /\ wanted = [r \in Reqs |-> FALSE]

Submit(r, cb) ==
  /\ life[r] = "free"
  /\ life' = [life EXCEPT ![r] = "QUEUED"]
  /\ waiting' = Append(waiting, r)
  /\ wanted' = [wanted EXCEPT ![r] = cb]

\* The request that was submitted first is started.
Start ==
  /\ waiting # <<>>
  /\ life' = [life EXCEPT ![Head(waiting)] = "ACTIVE"]
  /\ waiting' = Tail(waiting)
  /\ UNCHANGED wanted

\* A request that was not started is cancelled, and the others stay in order.
Cancel(r) ==
  /\ life[r] = "QUEUED"
  /\ life' = [life EXCEPT ![r] = "DONE"]
  /\ \E i \in DOMAIN waiting : waiting[i] = r /\ waiting' = RemoveAt(waiting, i)
  /\ UNCHANGED wanted

Finish(r) ==
  /\ life[r] = "ACTIVE"
  /\ life' = [life EXCEPT ![r] = "DONE"]
  /\ UNCHANGED <<waiting, wanted>>

Deliver(r) ==
  /\ life[r] = "DONE" /\ wanted[r]
  /\ life' = [life EXCEPT ![r] = "CALLBACK"]
  /\ UNCHANGED <<waiting, wanted>>

\* The callback has returned, or there is none.
Reclaim(r) ==
  /\ life[r] = "CALLBACK" \/ (life[r] = "DONE" /\ ~wanted[r])
  /\ life' = [life EXCEPT ![r] = "free"]
  /\ UNCHANGED <<waiting, wanted>>

Next ==
  \/ \E r \in Reqs, cb \in BOOLEAN : Submit(r, cb)
  \/ Start
  \/ \E r \in Reqs : Cancel(r) \/ Finish(r) \/ Deliver(r) \/ Reclaim(r)

Spec == Init /\ [][Next]_<<life, waiting, wanted>>
=============================================================================
