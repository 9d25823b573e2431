------------------------------ MODULE SlotPool ------------------------------
(***************************************************************************)
(* What the gateway promises about inference slots, whatever the event     *)
(* loop, the clients and the upstreams do: at most Capacity requests use a *)
(* slot at a time, a request asks once, is admitted only from the waiting  *)
(* room, and leaves for good.  Gateway.tla implements this specification.  *)
(***************************************************************************)
EXTENDS Integers, FiniteSets

CONSTANTS Requests,   \* requests that ever reach the gateway
          Capacity    \* settings.max_concurrency

VARIABLE phase        \* where each request is with respect to the pool

Phases == {"outside", "waiting", "using", "left"}

\* The place of every request with respect to the pool.
TypeOK == phase \in [Requests -> Phases]

Using == {r \in Requests : phase[r] = "using"}

Init == phase = [r \in Requests |-> "outside"]

Move(r, from, to) ==
    /\ phase[r] = from
    /\ phase' = [phase EXCEPT ![r] = to]

HasRoom == Cardinality(Using) < Capacity

Refuse(r)  == Move(r, "outside", "left")        \* rejected before it asks
Wait(r)    == Move(r, "outside", "waiting")
TakeNow(r) == HasRoom /\ Move(r, "outside", "using")
Take(r)    == HasRoom /\ Move(r, "waiting", "using")
GiveUp(r)  == Move(r, "waiting", "left")        \* the queue deadline passed
Return(r)  == Move(r, "using", "left")

Next == \E r \in Requests :
           Refuse(r) \/ Wait(r) \/ TakeNow(r) \/ Take(r) \/ GiveUp(r) \/ Return(r)

vars == phase

\* Nobody waits for ever: the pool or the deadline settles every waiter.
Fairness == \A r \in Requests : WF_vars(Take(r) \/ GiveUp(r))

Spec == Init /\ [][Next]_vars /\ Fairness
=============================================================================
