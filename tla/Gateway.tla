------------------------------ MODULE Gateway -------------------------------
(***************************************************************************)
(* The life of a request in the gateway's proxy handler                    *)
(* (src/src/local_ai_lab/gateway/app.py, create_app): authentication, body *)
(* and media checks, the wait for an inference slot, the upstream call,    *)
(* the streamed answer, and every path on which the slot is given back.    *)
(*                                                                         *)
(* The handler runs on one asyncio event loop, so an action is the code    *)
(* between two points where a task suspends.  Three pieces of machinery    *)
(* outside the repository decide what happens at those points, and are     *)
(* modelled from how app.py uses them:                                     *)
(*   - asyncio.Semaphore and asyncio.wait_for (the slot queue).  A waiter  *)
(*     whose future was resolved stays in the semaphore's deque until its  *)
(*     task runs again; its deadline may still fire in that window.        *)
(*   - starlette.StreamingResponse, which runs the body generator beside   *)
(*     a listener for the client's disconnect, cancels the former when the *)
(*     latter returns, then runs the background task - but not when the    *)
(*     generator raised.                                                   *)
(*   - the interpreter's finalisation of a generator that was cancelled    *)
(*     from outside while it was suspended at its yield.                   *)
(***************************************************************************)
EXTENDS Integers, FiniteSets

CONSTANTS Requests,        \* requests that ever reach the proxy routes
          Chat,            \* those sent to /v1/chat/completions
          MaxConcurrency   \* settings.max_concurrency

ASSUME GatewayAssumption ==
    /\ IsFiniteSet(Requests)
    /\ Chat \subseteq Requests
    /\ MaxConcurrency \in Nat \ {0}

VARIABLES
    pc,         \* where the request's task is
    slots,      \* slots._value, the semaphore's counter
    ahead,      \* per waiter: the waiters in front of it in the semaphore's deque
    slot,       \* per request: "held" from inflight.inc() until `released` is set
    inflight,   \* the inflight gauge
    upstream,   \* the upstream response of the request: none, open or closed
    gen,        \* the response_body generator
    gone,       \* the client has disconnected
    answer      \* the response the request was given, "none" while there is none

vars == <<pc, slots, ahead, slot, inflight, upstream, gen, gone, answer>>

-----------------------------------------------------------------------------
(* The places a task can be.                                               *)

\* Entries of the semaphore's deque.  "queued": the future is pending.
\* "granted": release() resolved it and the task has not run yet.
\* "grant_lost": the deadline fired after that.  "timed_out": the deadline
\* fired first and cancelled the future.
Queue == {"queued", "granted", "grant_lost", "timed_out"}

\* The StreamingResponse.  "starting": the generator has not been started.
\* "reading": it awaits the next upstream chunk.  "sending": it is suspended
\* at its yield while the chunk is sent.  "closing" / "failing": it is in its
\* finally clause, on the way to a normal end or with an upstream error.
Responding == {"starting", "reading", "sending", "closing", "failing"}

Places == {"new", "body", "calling", "background", "done"} \cup Queue \cup Responding

Answers == {"none", "401", "403", "413", "400", "429", "502", "504",
            "500", "no_body", "upstream"}

Pending   == {q \in Requests : pc[q] = "queued"}
Reserved  == {q \in Requests : pc[q] \in {"granted", "grant_lost"}}
Holding   == {q \in Requests : slot[q] = "held"}
InDeque   == {q \in Requests : pc[q] \in Queue}

\* The first entry of the deque whose future is not done.
Heads == {q \in Pending : ahead[q] \cap Pending = {}}

\* Semaphore.locked(): a newcomer may not pass a waiter that was granted a
\* slot or still waits for one, even if the counter is positive.
Locked == slots = 0 \/ Pending \cup Reserved # {}

\* The values that the semaphore, the gauge and each request's local variables
\* can take.  The counter is never negative: a slot is taken only if one is free.
TypeOK ==
    /\ pc \in [Requests -> Places]
    /\ slots \in Nat
    /\ ahead \in [Requests -> SUBSET Requests]
    /\ slot \in [Requests -> {"none", "held", "returned"}]
    /\ inflight \in Int
    /\ upstream \in [Requests -> {"none", "open", "closed"}]
    /\ gen \in [Requests -> {"none", "running", "suspended", "closed"}]
    /\ gone \in [Requests -> BOOLEAN]
    /\ answer \in [Requests -> Answers]

Init ==
    /\ pc = [r \in Requests |-> "new"]
    /\ slots = MaxConcurrency
    /\ ahead = [r \in Requests |-> {}]
    /\ slot = [r \in Requests |-> "none"]
    /\ inflight = 0
    /\ upstream = [r \in Requests |-> "none"]
    /\ gen = [r \in Requests |-> "none"]
    /\ gone = [r \in Requests |-> FALSE]
    /\ answer = [r \in Requests |-> "none"]

-----------------------------------------------------------------------------
(* Steps shared by several handlers.                                       *)

Goto(r, place) == pc' = [pc EXCEPT ![r] = place]

Answer(r, a) == answer' = [answer EXCEPT ![r] = a]

LeaveDeque(r) == ahead' = [q \in Requests |-> IF q = r THEN {} ELSE ahead[q] \ {r}]

\* Semaphore.release() by r's task, which continues at `place`: the counter
\* goes up, and down again if a pending waiter can be granted the slot.
GiveBack(r, place) ==
    \/ /\ Pending = {}
       /\ slots' = slots + 1
       /\ Goto(r, place)
    \/ \E w \in Heads :
         /\ slots' = slots
         /\ pc' = [pc EXCEPT ![r] = place, ![w] = "granted"]

\* Faulty variants, here and below: each is a plausible mistake in the code that
\* a property of this module must notice.  Nothing uses them.
ReleaseSlotUnflagged(r, place) ==
    /\ GiveBack(r, place)
    /\ inflight' = inflight - 1
    /\ slot' = [slot EXCEPT ![r] = "returned"]

\* release_slot(): a no-op once the request's `released` flag is set.
ReleaseSlot(r, place) ==
    IF slot[r] = "held"
    THEN /\ GiveBack(r, place)
         /\ inflight' = inflight - 1
         /\ slot' = [slot EXCEPT ![r] = "returned"]
    ELSE /\ Goto(r, place)
         /\ UNCHANGED <<slots, inflight, slot>>

CloseUpstream(r) == upstream' = [upstream EXCEPT ![r] = "closed"]

\* What follows a successful acquire, up to the await of client.send.
StartCall(r) ==
    /\ slot' = [slot EXCEPT ![r] = "held"]
    /\ inflight' = inflight + 1

\* An answer given before a slot was asked for.
Reject(r, a) ==
    /\ Goto(r, "done")
    /\ Answer(r, a)
    /\ UNCHANGED <<slots, ahead, slot, inflight, upstream, gen, gone>>

-----------------------------------------------------------------------------
(* Before the queue.                                                       *)

\* AuthenticationError becomes a 401, AuthorizationError a 403.
AuthenticationRefusals == {"401", "403"}

\* require_principal: with OIDC the key lookup runs in a thread, so the task
\* may be suspended here.
Authenticate(r) ==
    /\ pc[r] = "new"
    /\ \/ \E a \in AuthenticationRefusals : Reject(r, a)
       \/ /\ Goto(r, "body")
          /\ UNCHANGED <<slots, ahead, slot, inflight, upstream, gen, gone, answer>>

\* _contains_unapproved_media, asked about chat bodies only.
RefuseMedia(r) == r \in Chat /\ Reject(r, "400")

\* _read_limited_body returned None, or the media check refused the body.
RefuseBody(r) ==
    /\ pc[r] = "body"
    /\ Reject(r, "413") \/ RefuseMedia(r)

\* The client left while the body was read: request.stream() raises and no
\* response is made.
AbortBody(r) ==
    /\ pc[r] = "body"
    /\ gone[r]
    /\ Reject(r, "no_body")

\* The body is accepted.  No await separates that from slots.acquire(), nor a
\* free slot from the upstream call.
Acquire(r) ==
    /\ pc[r] = "body"
    /\ IF Locked
       THEN /\ Goto(r, "queued")
            /\ ahead' = [ahead EXCEPT ![r] = InDeque]
            /\ UNCHANGED <<slots, slot, inflight>>
       ELSE /\ slots' = slots - 1
            /\ StartCall(r)
            /\ Goto(r, "calling")
            /\ UNCHANGED ahead
    /\ UNCHANGED <<upstream, gen, gone, answer>>

-----------------------------------------------------------------------------
(* The queue.                                                              *)

QueueDeadlineMissesPending(r) ==
    /\ pc[r] = "granted" /\ Goto(r, "grant_lost")
    /\ UNCHANGED <<slots, ahead, slot, inflight, upstream, gen, gone, answer>>

\* wait_for's timer: it cancels a pending future, or the task of a waiter
\* whose future was already resolved.
QueueDeadline(r) ==
    /\ \/ pc[r] = "queued"  /\ Goto(r, "timed_out")
       \/ pc[r] = "granted" /\ Goto(r, "grant_lost")
    /\ UNCHANGED <<slots, ahead, slot, inflight, upstream, gen, gone, answer>>

TakeGrantOnly(r) ==
    /\ pc[r] = "granted"
    /\ LeaveDeque(r)
    /\ StartCall(r)
    /\ Goto(r, "calling")
    /\ UNCHANGED <<slots, upstream, gen, gone, answer>>

\* The waiter's task runs with its slot.  Slots returned while it had not run
\* yet are passed on, since newcomers queued behind it.
TakeGrant(r) ==
    /\ pc[r] = "granted"
    /\ LeaveDeque(r)
    /\ StartCall(r)
    /\ IF slots > 0 /\ Pending # {}
       THEN \E w \in Heads :
              /\ slots' = slots - 1
              /\ pc' = [pc EXCEPT ![r] = "calling", ![w] = "granted"]
       ELSE /\ slots' = slots
            /\ Goto(r, "calling")
    /\ UNCHANGED <<upstream, gen, gone, answer>>

QueueTimeoutFallsThrough(r) ==
    /\ \/ pc[r] = "timed_out"  /\ Goto(r, "calling") /\ UNCHANGED slots
       \/ pc[r] = "grant_lost" /\ GiveBack(r, "calling")
    /\ LeaveDeque(r)
    /\ StartCall(r)
    /\ UNCHANGED <<upstream, gen, gone, answer>>

\* The task of a waiter whose deadline fired runs: a slot it had been granted
\* goes back to the semaphore before TimeoutError becomes the 429.
QueueTimeout(r) ==
    /\ \/ pc[r] = "timed_out"  /\ Goto(r, "done") /\ UNCHANGED slots
       \/ pc[r] = "grant_lost" /\ GiveBack(r, "done")
    /\ LeaveDeque(r)
    /\ Answer(r, "429")
    /\ UNCHANGED <<slot, inflight, upstream, gen, gone>>

-----------------------------------------------------------------------------
(* The upstream call.                                                      *)

UpstreamFailsUnguarded(r) ==
    /\ pc[r] = "calling"
    /\ \E a \in {"504", "502", "500"} :
          /\ Answer(r, a)
          /\ IF a = "500"
             THEN Goto(r, "done") /\ UNCHANGED <<slots, slot, inflight>>
             ELSE ReleaseSlot(r, "done")
    /\ UNCHANGED <<ahead, upstream, gen, gone>>

\* client.send raised TimeoutException (504), another HTTPError (502), or
\* anything else, a failing build_request included (500).
UpstreamFails(r) ==
    /\ pc[r] = "calling"
    /\ \E a \in {"504", "502", "500"} : Answer(r, a)
    /\ ReleaseSlot(r, "done")
    /\ UNCHANGED <<ahead, upstream, gen, gone>>

\* The upstream's status line arrived; the StreamingResponse is returned.
UpstreamAnswers(r) ==
    /\ pc[r] = "calling"
    /\ Goto(r, "starting")
    /\ upstream' = [upstream EXCEPT ![r] = "open"]
    /\ Answer(r, "upstream")
    /\ UNCHANGED <<slots, ahead, slot, inflight, gen, gone>>

-----------------------------------------------------------------------------
(* The streamed answer.                                                    *)

\* The generator is started, or resumed after its chunk was sent.
NextChunk(r) ==
    /\ pc[r] \in {"starting", "sending"}
    /\ Goto(r, "reading")
    /\ gen' = [gen EXCEPT ![r] = "running"]
    /\ UNCHANGED <<slots, ahead, slot, inflight, upstream, gone, answer>>

YieldChunk(r) ==
    /\ pc[r] = "reading"
    /\ Goto(r, "sending")
    /\ gen' = [gen EXCEPT ![r] = "suspended"]
    /\ UNCHANGED <<slots, ahead, slot, inflight, upstream, gone, answer>>

\* aiter_raw is exhausted, or raises a read error or a read timeout.
StreamEnds(r) ==
    /\ pc[r] = "reading"
    /\ \E place \in {"closing", "failing"} : Goto(r, place)
    /\ UNCHANGED <<slots, ahead, slot, inflight, upstream, gen, gone, answer>>

CloseBodyReleaseOnly(r) ==
    /\ pc[r] \in {"closing", "failing"}
    /\ ReleaseSlot(r, IF pc[r] = "closing" THEN "background" ELSE "done")
    /\ gen' = [gen EXCEPT ![r] = "closed"]
    /\ UNCHANGED <<ahead, upstream, gone, answer>>

\* response_body's finally clause: close the upstream, then release even if
\* closing fails.  An upstream error propagates and skips the background task.
CloseBody(r) ==
    /\ pc[r] \in {"closing", "failing"}
    /\ CloseUpstream(r)
    /\ ReleaseSlot(r, IF pc[r] = "closing" THEN "background" ELSE "done")
    /\ gen' = [gen EXCEPT ![r] = "closed"]
    /\ UNCHANGED <<ahead, gone, answer>>

\* listen_for_disconnect returned and the generator's task is cancelled: it
\* unwinds through its finally clause if it was awaiting the upstream (the
\* cancellation replaces an upstream error), and is left behind if it was
\* suspended at its yield or never started.
CancelStream(r) ==
    /\ gone[r]
    /\ \/ /\ pc[r] \in {"starting", "sending"}
          /\ Goto(r, "background")
       \/ /\ pc[r] \in {"reading", "failing"}
          /\ Goto(r, "closing")
    /\ UNCHANGED <<slots, ahead, slot, inflight, upstream, gen, gone, answer>>

CleanupCloseOnly(r) ==
    /\ pc[r] = "background"
    /\ CloseUpstream(r)
    /\ Goto(r, "done")
    /\ UNCHANGED <<slots, ahead, slot, inflight, gen, gone, answer>>

\* The BackgroundTask: cleanup().
Cleanup(r) ==
    /\ pc[r] = "background"
    /\ CloseUpstream(r)
    /\ ReleaseSlot(r, "done")
    /\ UNCHANGED <<ahead, gen, gone, answer>>

\* A generator left suspended is finalised once the response object is gone:
\* its finally clause runs after the background task did.
FinaliseGenerator(r) ==
    /\ pc[r] = "done"
    /\ gen[r] = "suspended"
    /\ gen' = [gen EXCEPT ![r] = "closed"]
    /\ CloseUpstream(r)
    /\ ReleaseSlot(r, "done")
    /\ UNCHANGED <<ahead, gone, answer>>

-----------------------------------------------------------------------------
(* The client may leave at any time before its request is over.            *)
Disconnect(r) ==
    /\ pc[r] # "done"
    /\ ~gone[r]
    /\ gone' = [gone EXCEPT ![r] = TRUE]
    /\ UNCHANGED <<pc, slots, ahead, slot, inflight, upstream, gen, answer>>

Serve(r) ==
    \/ Authenticate(r) \/ RefuseBody(r) \/ AbortBody(r) \/ Acquire(r)
    \/ QueueDeadline(r) \/ TakeGrant(r) \/ QueueTimeout(r)
    \/ UpstreamFails(r) \/ UpstreamAnswers(r)
    \/ NextChunk(r) \/ YieldChunk(r) \/ StreamEnds(r) \/ CloseBody(r)
    \/ CancelStream(r) \/ Cleanup(r) \/ FinaliseGenerator(r)

\* Every request is over and every generator finalised.
Quiescent ==
    \A r \in Requests : pc[r] = "done" /\ gen[r] # "suspended"

Idle == Quiescent /\ UNCHANGED vars

Next == (\E r \in Requests : Serve(r) \/ Disconnect(r)) \/ Idle

Spec == Init /\ [][Next]_vars

-----------------------------------------------------------------------------
(* Fairness.  The event loop runs every ready task and every due timer, and *)
(* the HTTP client's own timeout ends every await of the upstream.  Clients *)
(* owe nothing: nothing makes them send a body or read an answer.           *)
ServerFairness == \A r \in Requests :
    /\ WF_vars(QueueDeadline(r))
    /\ WF_vars(TakeGrant(r))
    /\ WF_vars(QueueTimeout(r))
    /\ WF_vars(UpstreamFails(r) \/ UpstreamAnswers(r))
    /\ WF_vars(YieldChunk(r) \/ StreamEnds(r))
    /\ WF_vars(pc[r] = "starting" /\ NextChunk(r))
    /\ WF_vars(CancelStream(r))
    /\ WF_vars(CloseBody(r))
    /\ WF_vars(Cleanup(r))
    /\ WF_vars(FinaliseGenerator(r))

\* What the peers must add for a slot to come back: the client takes each
\* chunk or disconnects, and the upstream's answer is finite.
PeersProgress == \A r \in Requests :
    /\ WF_vars(NextChunk(r) \/ CancelStream(r))
    /\ SF_vars(StreamEnds(r))

FairSpec == Spec /\ ServerFairness

-----------------------------------------------------------------------------
(* Properties.                                                             *)

\* Every slot is in exactly one place: free in the semaphore, on its way to a
\* waiter whose task has not run yet, or held by a request, whatever mixture
\* of deadlines, disconnects, upstream errors and late generator
\* finalisation gave it back; and the gauge shows the slots really held.
SlotConservation ==
    /\ slots + Cardinality(Reserved) + Cardinality(Holding) = MaxConcurrency
    /\ inflight = Cardinality(Holding)

\* The concurrency limit protects the model server: a request that awaits an
\* upstream answer, or whose upstream response is open, holds a slot.
UpstreamNeedsSlot ==
    \A r \in Requests : pc[r] = "calling" \/ upstream[r] = "open" => slot[r] = "held"

\* No slot leaks and none is charged twice: a request that is over has closed
\* its upstream response and has returned the slot, if it ever got one, and it
\* got one exactly if it was answered from the upstream or for its failure.
SettledWhenDone ==
    \A r \in Requests : pc[r] = "done" =>
        /\ upstream[r] # "open"
        /\ slot[r] = IF answer[r] \in {"upstream", "504", "502", "500"}
                    THEN "returned" ELSE "none"

\* No lost wake-up: a free slot beside a waiting request means that a waiter
\* that will pass the slot on has been woken and has not run yet.
NoLostWakeup == slots > 0 /\ Pending # {} => Reserved # {}

\* Slots are handed out in order of arrival at the queue: whoever starts an
\* upstream call was in front of every request still waiting.  A newcomer is
\* in front of nobody, so it starts only if nobody waits.
FirstComeFirstServed ==
    [][\A r \in Requests :
          slot[r] = "none" /\ slot'[r] = "held" => \A q \in Pending : r \in ahead[q]]_vars

\* A queued request gets its slot or its 429, even if every slot is held by a
\* stream whose client has stopped reading.
QueueWaitEnds ==
    \A r \in Requests : pc[r] = "queued" ~> pc[r] \in {"calling", "done"}

\* If clients read or leave and answers are finite, every slot taken returns.
SlotsComeBack ==
    PeersProgress => \A r \in Requests : slot[r] = "held" ~> slot[r] = "returned"

\* Where a request stands in the slot pool: it waits while it is in the deque,
\* and uses a slot from inflight.inc() to release_slot().
PoolPhase(r) ==
    IF slot[r] = "held" THEN "using"
    ELSE IF slot[r] = "returned" \/ pc[r] = "done" THEN "left"
    ELSE IF pc[r] \in Queue THEN "waiting"
    ELSE "outside"

Pool == INSTANCE SlotPool WITH
    Capacity <- MaxConcurrency,
    phase <- [r \in Requests |-> PoolPhase(r)]

\* The handler implements SlotPool.tla: at most max_concurrency requests use a
\* slot, each asks once, and each waiter gets one or gives up.
ImplementsPool == Pool!Spec
=============================================================================
