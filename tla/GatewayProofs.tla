--------------------------- MODULE GatewayProofs ----------------------------
(***************************************************************************)
(* Theorems about Gateway for any finite set of requests and any           *)
(* concurrency limit.  The inductive invariant adds two facts to the       *)
(* safety properties: which slot, answer and upstream state go with each   *)
(* place a task can be (SlotByPlace), and that `ahead` is a total order of *)
(* the deque in which granted waiters precede pending ones (DequeOrder).   *)
(***************************************************************************)
EXTENDS Gateway, FiniteSetTheorems, TLAPS

\* Where a task is tells whether it has a slot, an answer and an upstream.
SlotByPlace == \A r \in Requests :
    /\ pc[r] \in {"new", "body"} \cup Queue =>
         slot[r] = "none" /\ answer[r] = "none" /\ upstream[r] = "none"
    /\ pc[r] = "calling" =>
         slot[r] = "held" /\ answer[r] = "none" /\ upstream[r] = "none"
    /\ pc[r] \in Responding => slot[r] = "held" /\ answer[r] = "upstream"
    /\ pc[r] = "background" =>
         /\ slot[r] # "none"
         /\ answer[r] = "upstream"
         /\ upstream[r] = "open" => slot[r] = "held"

\* Of two entries of the deque one is in front of the other, and release() has
\* granted its slots from the front.
DequeOrder ==
    /\ \A q \in Requests : ahead[q] \subseteq InDeque
    /\ \A p, q \in InDeque : p # q => (p \in ahead[q] <=> q \notin ahead[p])
    /\ \A p \in Reserved, q \in Pending : p \in ahead[q]

\* The inductive invariant.
IInv == TypeOK /\ SlotByPlace /\ SettledWhenDone /\ SlotConservation
               /\ NoLostWakeup /\ DequeOrder

-----------------------------------------------------------------------------
(* The sets counted by SlotConservation are finite.                        *)
LEMMA CountedSetsFinite ==
    /\ IsFiniteSet(Reserved) /\ Cardinality(Reserved) \in Nat
    /\ IsFiniteSet(Holding) /\ Cardinality(Holding) \in Nat
<1>1. Reserved \in SUBSET Requests /\ Holding \in SUBSET Requests
  BY DEF Reserved, Holding
<1>2. QED  BY <1>1, GatewayAssumption, FS_Subset, FS_CardinalityType

\* Initially every slot is free and nobody is anywhere near one.
LEMMA InitInv == Init => IInv
<1> SUFFICES ASSUME Init PROVE IInv
  OBVIOUS
<1>1. TypeOK
  BY GatewayAssumption DEF Init, TypeOK, Places, Queue, Responding, Answers
<1>2. SlotByPlace /\ SettledWhenDone
  BY DEF Init, SlotByPlace, SettledWhenDone, Queue, Responding
<1>3. Reserved = {} /\ Holding = {} /\ Pending = {} /\ InDeque = {}
  BY DEF Init, Reserved, Holding, Pending, InDeque, Queue
<1>4. SlotConservation
  BY <1>3, FS_EmptySet, GatewayAssumption DEF Init, SlotConservation
<1>5. NoLostWakeup /\ DequeOrder
  BY <1>3 DEF Init, NoLostWakeup, DequeOrder
<1>6. QED  BY <1>1, <1>2, <1>4, <1>5 DEF IInv

-----------------------------------------------------------------------------
(* Type correctness.                                                       *)

\* The semaphore's counter stays a natural number when a slot is taken.
LEMMA TypeStep == TypeOK /\ [Next]_vars => TypeOK'
<1> SUFFICES ASSUME TypeOK, [Next]_vars PROVE TypeOK'
  OBVIOUS
<1> USE DEF TypeOK, Places, Queue, Responding, Answers
<1>1. CASE UNCHANGED vars
  BY <1>1 DEF vars
<1>2. ASSUME NEW r \in Requests, Serve(r) PROVE TypeOK'
  <2> USE <1>2 DEF Goto, Answer, Reject, LeaveDeque, StartCall, CloseUpstream
  <2>1. CASE Authenticate(r) \/ RefuseBody(r) \/ AbortBody(r)
    BY <2>1 DEF Authenticate, AuthenticationRefusals, RefuseBody, RefuseMedia, AbortBody
  <2>2. CASE Acquire(r)
    BY <2>2 DEF Acquire, Locked, InDeque
  <2>3. CASE QueueDeadline(r)
    BY <2>3 DEF QueueDeadline
  <2>4. CASE TakeGrant(r)
    BY <2>4 DEF TakeGrant, Heads, Pending
  <2>5. CASE QueueTimeout(r)
    BY <2>5 DEF QueueTimeout, GiveBack, Heads, Pending
  <2>6. CASE UpstreamFails(r)
    BY <2>6 DEF UpstreamFails, ReleaseSlot, GiveBack, Heads, Pending
  <2>7. CASE UpstreamAnswers(r) \/ NextChunk(r) \/ YieldChunk(r) \/ StreamEnds(r)
               \/ CancelStream(r)
    BY <2>7 DEF UpstreamAnswers, NextChunk, YieldChunk, StreamEnds, CancelStream
  <2>8. CASE CloseBody(r)
    BY <2>8 DEF CloseBody, ReleaseSlot, GiveBack, Heads, Pending
  <2>9. CASE Cleanup(r)
    BY <2>9 DEF Cleanup, ReleaseSlot, GiveBack, Heads, Pending
  <2>10. CASE FinaliseGenerator(r)
    BY <2>10 DEF FinaliseGenerator, ReleaseSlot, GiveBack, Heads, Pending
  <2>11. QED
    BY <2>1, <2>2, <2>3, <2>4, <2>5, <2>6, <2>7, <2>8, <2>9, <2>10 DEF Serve
<1>3. ASSUME NEW r \in Requests, Disconnect(r) PROVE TypeOK'
  BY <1>3 DEF Disconnect
<1>4. CASE Idle
  BY <1>4 DEF Idle, vars
<1>5. QED  BY <1>1, <1>2, <1>3, <1>4 DEF Next

\* Every variable of the handler keeps its type; in particular the semaphore's
\* counter never becomes negative.
THEOREM TypeCorrect == Spec => []TypeOK
<1>1. Init => TypeOK
  BY InitInv DEF IInv
<1>2. QED  BY <1>1, TypeStep, PTL DEF Spec

-----------------------------------------------------------------------------
(* Slot, answer and upstream by place.                                     *)

\* Places outside the deque's undecided futures: what GiveBack's caller goes to.
Settled == Places \ {"queued", "granted", "grant_lost"}

\* A task that gives a slot back reaches its place; another task's place
\* changes only from pending to granted.
LEMMA GiveBackPlace ==
  ASSUME TypeOK, NEW r \in Requests, NEW place \in Settled, GiveBack(r, place),
         r \notin Pending
  PROVE  /\ pc'[r] = place
         /\ \A q \in Requests \ {r} :
              pc'[q] = pc[q] \/ (pc[q] = "queued" /\ pc'[q] = "granted")
BY DEF TypeOK, GiveBack, Goto, Heads, Pending, Settled

\* The same for release_slot, with the slot it leaves behind.
LEMMA ReleasePlace ==
  ASSUME TypeOK, NEW r \in Requests, NEW place \in Settled, ReleaseSlot(r, place),
         r \notin Pending
  PROVE  /\ pc'[r] = place
         /\ \A q \in Requests \ {r} :
              pc'[q] = pc[q] \/ (pc[q] = "queued" /\ pc'[q] = "granted")
         /\ slot' = [slot EXCEPT ![r] = IF @ = "held" THEN "returned" ELSE @]
<1>1. CASE slot[r] = "held"
  BY <1>1, GiveBackPlace DEF ReleaseSlot, TypeOK
<1>2. CASE slot[r] # "held"
  BY <1>2 DEF ReleaseSlot, Goto, TypeOK
<1>3. QED  BY <1>1, <1>2

\* Whichever step is taken, slot, answer and upstream fit the place reached.
LEMMA PlaceStep ==
  TypeOK /\ SlotByPlace /\ SettledWhenDone /\ [Next]_vars
    => SlotByPlace' /\ SettledWhenDone'
<1> SUFFICES ASSUME TypeOK, SlotByPlace, SettledWhenDone, [Next]_vars
             PROVE  SlotByPlace' /\ SettledWhenDone'
  OBVIOUS
<1> USE DEF TypeOK, Places, Queue, Responding, Answers, SlotByPlace, SettledWhenDone
<1>1. CASE UNCHANGED vars
  BY <1>1 DEF vars
<1>2. ASSUME NEW r \in Requests, Serve(r) PROVE SlotByPlace' /\ SettledWhenDone'
  <2> USE <1>2 DEF Goto, Answer, Reject, LeaveDeque, StartCall, CloseUpstream
  <2>1. CASE Authenticate(r) \/ RefuseBody(r) \/ AbortBody(r)
    BY <2>1 DEF Authenticate, AuthenticationRefusals, RefuseBody, RefuseMedia, AbortBody
  <2>2. CASE Acquire(r)
    BY <2>2 DEF Acquire
  <2>3. CASE QueueDeadline(r)
    BY <2>3 DEF QueueDeadline
  <2>4. CASE TakeGrant(r)
    BY <2>4 DEF TakeGrant, Heads, Pending
  <2>5. CASE QueueTimeout(r)
    <3>1. CASE pc[r] = "grant_lost" /\ GiveBack(r, "done")
      BY <2>5, <3>1, GiveBackPlace DEF QueueTimeout, Settled, Pending
    <3>2. CASE pc[r] = "timed_out" /\ Goto(r, "done")
      BY <2>5, <3>2 DEF QueueTimeout
    <3>3. QED  BY <2>5, <3>1, <3>2 DEF QueueTimeout
  <2>6. CASE UpstreamFails(r)
    BY <2>6, ReleasePlace DEF UpstreamFails, Settled, Pending
  <2>7. CASE UpstreamAnswers(r) \/ NextChunk(r) \/ YieldChunk(r) \/ StreamEnds(r)
               \/ CancelStream(r)
    BY <2>7 DEF UpstreamAnswers, NextChunk, YieldChunk, StreamEnds, CancelStream
  <2>8. CASE CloseBody(r)
    BY <2>8, ReleasePlace DEF CloseBody, Settled, Pending
  <2>9. CASE Cleanup(r)
    BY <2>9, ReleasePlace DEF Cleanup, Settled, Pending
  <2>10. CASE FinaliseGenerator(r)
    BY <2>10, ReleasePlace DEF FinaliseGenerator, Settled, Pending
  <2>11. QED
    BY <2>1, <2>2, <2>3, <2>4, <2>5, <2>6, <2>7, <2>8, <2>9, <2>10 DEF Serve
<1>3. ASSUME NEW r \in Requests, Disconnect(r) PROVE SlotByPlace' /\ SettledWhenDone'
  BY <1>3 DEF Disconnect
<1>4. CASE Idle
  BY <1>4 DEF Idle, vars
<1>5. QED  BY <1>1, <1>2, <1>3, <1>4 DEF Next
-----------------------------------------------------------------------------
(* Conservation of slots.                                                  *)

\* What the counted sets become when one request changes its role, and
\* possibly one pending waiter is granted a slot.
LEMMA CountMoves ==
  ASSUME NEW r, NEW w
  PROVE  /\ r \in Reserved => Cardinality(Reserved \ {r}) = Cardinality(Reserved) - 1
         /\ w \notin Reserved =>
              Cardinality(Reserved \cup {w}) = Cardinality(Reserved) + 1
         /\ r \in Reserved /\ w \notin Reserved =>
              Cardinality((Reserved \ {r}) \cup {w}) = Cardinality(Reserved)
         /\ r \in Holding => Cardinality(Holding \ {r}) = Cardinality(Holding) - 1
         /\ r \notin Holding => Cardinality(Holding \cup {r}) = Cardinality(Holding) + 1
<1>1. r \in Reserved => /\ IsFiniteSet(Reserved \ {r})
                        /\ Cardinality(Reserved \ {r}) = Cardinality(Reserved) - 1
  BY CountedSetsFinite, FS_RemoveElement
<1>2. w \notin Reserved => Cardinality(Reserved \cup {w}) = Cardinality(Reserved) + 1
  BY CountedSetsFinite, FS_AddElement
<1>3. ASSUME r \in Reserved, w \notin Reserved
      PROVE  Cardinality((Reserved \ {r}) \cup {w}) = Cardinality(Reserved)
  <2>1. Cardinality((Reserved \ {r}) \cup {w}) = Cardinality(Reserved \ {r}) + 1
    BY <1>1, <1>3, FS_AddElement
  <2>2. QED  BY <1>1, <1>3, <2>1, CountedSetsFinite
<1>4. r \in Holding => Cardinality(Holding \ {r}) = Cardinality(Holding) - 1
  BY CountedSetsFinite, FS_RemoveElement
<1>5. r \notin Holding => Cardinality(Holding \cup {r}) = Cardinality(Holding) + 1
  BY CountedSetsFinite, FS_AddElement
<1>6. QED  BY <1>1, <1>2, <1>3, <1>4, <1>5

\* A slot that is given back is free again or on its way to a waiter.
LEMMA GiveBackCount ==
  ASSUME TypeOK, NEW r \in Requests, NEW place \in Settled, GiveBack(r, place),
         r \notin Pending
  PROVE  slots' + Cardinality(Reserved') =
           slots + Cardinality(Reserved) + (IF r \in Reserved THEN 0 ELSE 1)
<1>1. CASE Pending = {} /\ slots' = slots + 1 /\ Goto(r, place)
  <2>1. Reserved' = Reserved \ {r}
    BY <1>1 DEF Goto, Reserved, TypeOK, Settled
  <2>2. CASE r \in Reserved
    <3>1. Cardinality(Reserved') = Cardinality(Reserved) - 1
      BY <2>1, <2>2, CountMoves
    <3>2. QED  BY <1>1, <2>2, <3>1, CountedSetsFinite DEF TypeOK
  <2>3. CASE r \notin Reserved
    <3>1. Reserved' = Reserved
      BY <2>1, <2>3
    <3>2. QED  BY <1>1, <2>3, <3>1, CountedSetsFinite DEF TypeOK
  <2>4. QED  BY <2>2, <2>3
<1>2. ASSUME NEW w \in Heads, slots' = slots,
             pc' = [pc EXCEPT ![r] = place, ![w] = "granted"]
      PROVE  slots' + Cardinality(Reserved') =
               slots + Cardinality(Reserved) + (IF r \in Reserved THEN 0 ELSE 1)
  <2>1. w \in Requests /\ pc[w] = "queued" /\ w # r /\ w \notin Reserved
    BY <1>2 DEF Heads, Pending, Reserved
  <2>2. Reserved' = (Reserved \ {r}) \cup {w}
    BY <1>2, <2>1 DEF Reserved, TypeOK, Settled
  <2>3. CASE r \in Reserved
    <3>1. Cardinality(Reserved') = Cardinality(Reserved)
      BY <2>1, <2>2, <2>3, CountMoves
    <3>2. QED  BY <1>2, <2>3, <3>1, CountedSetsFinite DEF TypeOK
  <2>4. CASE r \notin Reserved
    <3>1. Reserved' = Reserved \cup {w}
      BY <2>2, <2>4
    <3>2. Cardinality(Reserved') = Cardinality(Reserved) + 1
      BY <2>1, <3>1, CountMoves
    <3>3. QED  BY <1>2, <2>4, <3>2, CountedSetsFinite DEF TypeOK
  <2>5. QED  BY <2>3, <2>4
<1>3. QED  BY <1>1, <1>2 DEF GiveBack

\* release_slot conserves slots, whether the request still holds one or not.
LEMMA ReleaseCount ==
  ASSUME TypeOK, SlotConservation, NEW r \in Requests, NEW place \in Settled,
         ReleaseSlot(r, place), r \notin Pending, r \notin Reserved
  PROVE  SlotConservation'
<1>1. CASE slot[r] = "held"
  <2>1. Holding' = Holding \ {r} /\ r \in Holding
    BY <1>1 DEF ReleaseSlot, Holding, TypeOK
  <2>2. slots' + Cardinality(Reserved') = slots + Cardinality(Reserved) + 1
    BY <1>1, GiveBackCount DEF ReleaseSlot
  <2>3. Cardinality(Holding') = Cardinality(Holding) - 1
    BY <2>1, CountMoves
  <2>4. Cardinality(Reserved') \in Nat /\ slots' \in Nat
    <3>1. Reserved' \in SUBSET Requests
      BY DEF Reserved
    <3>2. slots' \in Nat
      BY <1>1 DEF ReleaseSlot, GiveBack, TypeOK
    <3>3. QED  BY <3>1, <3>2, GatewayAssumption, FS_Subset, FS_CardinalityType
  <2>5. QED
    BY <1>1, <2>2, <2>3, <2>4, CountedSetsFinite, GatewayAssumption
       DEF ReleaseSlot, SlotConservation, TypeOK
<1>2. CASE slot[r] # "held"
  <2>1. Reserved' = Reserved /\ Holding' = Holding
    BY <1>2 DEF ReleaseSlot, Goto, Reserved, Holding, TypeOK, Settled
  <2>2. QED  BY <1>2, <2>1 DEF ReleaseSlot, SlotConservation
<1>3. QED  BY <1>1, <1>2
\* No step creates or loses a slot.
LEMMA CountStep ==
  TypeOK /\ SlotByPlace /\ SettledWhenDone /\ SlotConservation /\ [Next]_vars
    => SlotConservation'
<1> SUFFICES ASSUME TypeOK, SlotByPlace, SettledWhenDone, SlotConservation, [Next]_vars
             PROVE  SlotConservation'
  OBVIOUS
\* A step that moves no future, slot or counter changes nothing that is counted.
<1>1. ASSUME UNCHANGED <<slots, slot, inflight>>, Reserved' = Reserved
      PROVE  SlotConservation'
  BY <1>1 DEF SlotConservation, Holding
<1>2. ASSUME NEW r \in Requests, Serve(r) PROVE SlotConservation'
  <2>1. CASE Authenticate(r) \/ RefuseBody(r) \/ AbortBody(r) \/ UpstreamAnswers(r)
               \/ NextChunk(r) \/ YieldChunk(r) \/ StreamEnds(r) \/ CancelStream(r)
    <3>1. UNCHANGED <<slots, slot, inflight>>
      BY <2>1 DEF Authenticate, RefuseBody, RefuseMedia, AbortBody, UpstreamAnswers, NextChunk,
                  YieldChunk, StreamEnds, CancelStream, Reject
    <3>2. Reserved' = Reserved
      BY <2>1 DEF Authenticate, RefuseBody, RefuseMedia, AbortBody, UpstreamAnswers, NextChunk,
                  YieldChunk, StreamEnds, CancelStream, Reject, Goto, Reserved, TypeOK
    <3>3. QED  BY <1>1, <3>1, <3>2
  <2>2. CASE Acquire(r)
    <3>1. CASE Locked
      <4>1. UNCHANGED <<slots, slot, inflight>> /\ Reserved' = Reserved
        BY <2>2, <3>1 DEF Acquire, Goto, Reserved, TypeOK
      <4>2. QED  BY <1>1, <4>1
    <3>2. CASE ~Locked
      <4>1. Reserved' = Reserved
        BY <2>2, <3>2 DEF Acquire, Goto, Reserved, TypeOK
      <4>2. Holding' = Holding \cup {r} /\ r \notin Holding
        BY <2>2, <3>2 DEF Acquire, StartCall, Holding, TypeOK, SlotByPlace
      <4>3. Cardinality(Holding') = Cardinality(Holding) + 1
        BY <4>2, CountMoves
      <4>4. slots' = slots - 1 /\ inflight' = inflight + 1
        BY <2>2, <3>2 DEF Acquire, StartCall
      <4>5. QED
        BY <4>1, <4>3, <4>4, CountedSetsFinite, GatewayAssumption
           DEF SlotConservation, TypeOK
    <3>3. QED  BY <3>1, <3>2
  <2>3. CASE QueueDeadline(r)
    <3>1. UNCHANGED <<slots, slot, inflight>> /\ Reserved' = Reserved
      BY <2>3 DEF QueueDeadline, Goto, Reserved, TypeOK
    <3>2. QED  BY <1>1, <3>1
  <2>4. CASE TakeGrant(r)
    <3>1. r \in Reserved /\ slot[r] = "none"
      BY <2>4 DEF TakeGrant, Reserved, SlotByPlace, Queue
    <3>2. Holding' = Holding \cup {r} /\ r \notin Holding
      BY <2>4, <3>1 DEF TakeGrant, StartCall, Holding, TypeOK
    <3>3. Cardinality(Holding') = Cardinality(Holding) + 1 /\ inflight' = inflight + 1
      BY <2>4, <3>2, CountMoves DEF TakeGrant, StartCall
    <3>4. slots' + Cardinality(Reserved') = slots + Cardinality(Reserved) - 1
      <4>1. CASE slots > 0 /\ Pending # {}
        <5>1. PICK w \in Heads : /\ slots' = slots - 1
                                 /\ pc' = [pc EXCEPT ![r] = "calling", ![w] = "granted"]
          BY <2>4, <4>1 DEF TakeGrant
        <5>2. w \in Requests /\ w # r /\ w \notin Reserved
          BY <2>4 DEF TakeGrant, Heads, Pending, Reserved
        <5>3. Reserved' = (Reserved \ {r}) \cup {w}
          BY <5>1, <5>2 DEF Reserved, TypeOK
        <5>4. Cardinality(Reserved') = Cardinality(Reserved)
          BY <3>1, <5>2, <5>3, CountMoves
        <5>5. QED  BY <5>1, <5>4, CountedSetsFinite DEF TypeOK
      <4>2. CASE ~(slots > 0 /\ Pending # {})
        <5>1. slots' = slots /\ Reserved' = Reserved \ {r}
          BY <2>4, <4>2 DEF TakeGrant, Goto, Reserved, TypeOK
        <5>2. QED  BY <3>1, <5>1, CountMoves, CountedSetsFinite DEF TypeOK
      <4>3. QED  BY <4>1, <4>2
    <3>5. slots' \in Nat /\ Cardinality(Reserved') \in Nat
      BY TypeStep, CountedSetsFinite, GatewayAssumption, FS_Subset, FS_CardinalityType
         DEF TypeOK, Reserved
    <3>6. QED
      BY <3>3, <3>4, <3>5, CountedSetsFinite, GatewayAssumption
         DEF SlotConservation, TypeOK
  <2>5. CASE QueueTimeout(r)
    <3>1. UNCHANGED <<slot, inflight>> /\ Holding' = Holding
      BY <2>5 DEF QueueTimeout, Holding
    <3>2. slots' + Cardinality(Reserved') = slots + Cardinality(Reserved)
      <4>1. CASE pc[r] = "timed_out" /\ Goto(r, "done") /\ UNCHANGED slots
        <5>1. Reserved' = Reserved
          BY <4>1 DEF Goto, Reserved, TypeOK
        <5>2. QED  BY <4>1, <5>1
      <4>2. CASE pc[r] = "grant_lost" /\ GiveBack(r, "done")
        <5>1. r \in Reserved /\ r \notin Pending /\ "done" \in Settled
          BY <4>2 DEF Reserved, Pending, Settled, Places
        <5>2. QED  BY <4>2, <5>1, GiveBackCount, CountedSetsFinite DEF TypeOK
      <4>3. QED  BY <2>5, <4>1, <4>2 DEF QueueTimeout
    <3>3. QED  BY <3>1, <3>2 DEF SlotConservation
  <2>6. CASE UpstreamFails(r) \/ CloseBody(r) \/ Cleanup(r) \/ FinaliseGenerator(r)
    <3>1. PICK place \in {"done", "background"} : ReleaseSlot(r, place)
      BY <2>6 DEF UpstreamFails, CloseBody, Cleanup, FinaliseGenerator
    <3>2. r \notin Pending /\ r \notin Reserved /\ place \in Settled
      BY <2>6 DEF UpstreamFails, CloseBody, Cleanup, FinaliseGenerator, Pending,
                  Reserved, Settled, Places
    <3>3. QED  BY <3>1, <3>2, ReleaseCount
  <2>7. QED  BY <1>2, <2>1, <2>2, <2>3, <2>4, <2>5, <2>6 DEF Serve
<1>3. ASSUME NEW r \in Requests, Disconnect(r) PROVE SlotConservation'
  BY <1>1, <1>3 DEF Disconnect, Reserved
<1>4. CASE Idle \/ UNCHANGED vars
  BY <1>1, <1>4 DEF Idle, vars, Reserved
<1>5. QED  BY <1>2, <1>3, <1>4 DEF Next

-----------------------------------------------------------------------------
(* The deque.                                                              *)

\* GiveBack grants the slot to a pending waiter, if there is one.
LEMMA GiveBackWakes ==
  ASSUME TypeOK, NEW r \in Requests, NEW place \in Settled, GiveBack(r, place),
         r \notin Pending
  PROVE  Pending' = {} \/ Reserved' # {}
<1>1. CASE Pending = {} /\ Goto(r, place)
  BY <1>1 DEF Goto, Pending, TypeOK, Settled
<1>2. ASSUME NEW w \in Heads, pc' = [pc EXCEPT ![r] = place, ![w] = "granted"]
      PROVE  Reserved' # {}
  BY <1>2 DEF Heads, Pending, Reserved, TypeOK
<1>3. QED  BY <1>1, <1>2 DEF GiveBack

\* release_slot loses no wake-up.
LEMMA ReleaseWakes ==
  ASSUME TypeOK, NoLostWakeup, NEW r \in Requests, NEW place \in Settled,
         ReleaseSlot(r, place), r \notin Pending, r \notin Reserved
  PROVE  NoLostWakeup'
<1>1. CASE slot[r] = "held"
  BY <1>1, GiveBackWakes DEF ReleaseSlot, NoLostWakeup
<1>2. CASE slot[r] # "held"
  BY <1>2 DEF ReleaseSlot, Goto, NoLostWakeup, Pending, Reserved, TypeOK, Settled
<1>3. QED  BY <1>1, <1>2

\* No step leaves a free slot beside a waiter that nobody will wake.
LEMMA WakeupStep == TypeOK /\ NoLostWakeup /\ [Next]_vars => NoLostWakeup'
<1> SUFFICES ASSUME TypeOK, NoLostWakeup, [Next]_vars PROVE NoLostWakeup'
  OBVIOUS
<1>1. ASSUME UNCHANGED slots, Reserved' = Reserved, Pending' \subseteq Pending
      PROVE  NoLostWakeup'
  BY <1>1 DEF NoLostWakeup
<1>2. ASSUME NEW r \in Requests, Serve(r) PROVE NoLostWakeup'
  <2>1. CASE Authenticate(r) \/ RefuseBody(r) \/ AbortBody(r) \/ UpstreamAnswers(r)
               \/ NextChunk(r) \/ YieldChunk(r) \/ StreamEnds(r) \/ CancelStream(r)
    <3>1. UNCHANGED slots
      BY <2>1 DEF Authenticate, RefuseBody, RefuseMedia, AbortBody, UpstreamAnswers, NextChunk,
                  YieldChunk, StreamEnds, CancelStream, Reject
    <3>2. Reserved' = Reserved /\ Pending' = Pending
      BY <2>1 DEF Authenticate, RefuseBody, RefuseMedia, AbortBody, UpstreamAnswers, NextChunk,
                  YieldChunk, StreamEnds, CancelStream, Reject, Goto, Reserved,
                  Pending, TypeOK
    <3>3. QED  BY <1>1, <3>1, <3>2
  <2>2. CASE Acquire(r)
    <3>1. CASE Locked
      <4>1. slots' = slots /\ Reserved' = Reserved
        BY <2>2, <3>1 DEF Acquire, Goto, Reserved, TypeOK
      <4>2. slots > 0 => Reserved # {}
        BY <3>1 DEF Locked, NoLostWakeup, TypeOK
      <4>3. QED  BY <4>1, <4>2 DEF NoLostWakeup
    <3>2. CASE ~Locked
      <4>1. Pending' = {}
        BY <2>2, <3>2 DEF Acquire, Locked, Goto, Pending, TypeOK
      <4>2. QED  BY <4>1 DEF NoLostWakeup
    <3>3. QED  BY <3>1, <3>2
  <2>3. CASE QueueDeadline(r)
    <3>1. UNCHANGED slots /\ Reserved' = Reserved /\ Pending' \subseteq Pending
      BY <2>3 DEF QueueDeadline, Goto, Reserved, Pending, TypeOK
    <3>2. QED  BY <1>1, <3>1
  <2>4. CASE TakeGrant(r)
    <3>1. CASE slots > 0 /\ Pending # {}
      <4>1. Reserved' # {}
        BY <2>4, <3>1 DEF TakeGrant, Heads, Pending, Reserved, TypeOK
      <4>2. QED  BY <4>1 DEF NoLostWakeup
    <3>2. CASE ~(slots > 0 /\ Pending # {})
      <4>1. slots' = slots /\ Pending' = Pending
        BY <2>4, <3>2 DEF TakeGrant, Goto, Pending, TypeOK
      <4>2. QED  BY <3>2, <4>1 DEF NoLostWakeup
    <3>3. QED  BY <3>1, <3>2
  <2>5. CASE QueueTimeout(r)
    <3>1. CASE pc[r] = "timed_out" /\ Goto(r, "done") /\ UNCHANGED slots
      BY <1>1, <3>1 DEF Goto, Reserved, Pending, TypeOK
    <3>2. CASE pc[r] = "grant_lost" /\ GiveBack(r, "done")
      BY <3>2, GiveBackWakes DEF Pending, Settled, Places, NoLostWakeup
    <3>3. QED  BY <2>5, <3>1, <3>2 DEF QueueTimeout
  <2>6. CASE UpstreamFails(r) \/ CloseBody(r) \/ Cleanup(r) \/ FinaliseGenerator(r)
    <3>1. PICK place \in {"done", "background"} : ReleaseSlot(r, place)
      BY <2>6 DEF UpstreamFails, CloseBody, Cleanup, FinaliseGenerator
    <3>2. r \notin Pending /\ r \notin Reserved /\ place \in Settled
      BY <2>6 DEF UpstreamFails, CloseBody, Cleanup, FinaliseGenerator, Pending,
                  Reserved, Settled, Places
    <3>3. QED  BY <3>1, <3>2, ReleaseWakes
  <2>7. QED  BY <1>2, <2>1, <2>2, <2>3, <2>4, <2>5, <2>6 DEF Serve
<1>3. ASSUME NEW r \in Requests, Disconnect(r) PROVE NoLostWakeup'
  BY <1>1, <1>3 DEF Disconnect, Reserved, Pending
<1>4. CASE Idle \/ UNCHANGED vars
  BY <1>1, <1>4 DEF Idle, vars, Reserved, Pending
<1>5. QED  BY <1>2, <1>3, <1>4 DEF Next

\* A task that leaves the deque disturbs no other entry, and the only futures
\* that are resolved are those at its head.
LEMMA OrderStep == TypeOK /\ DequeOrder /\ [Next]_vars => DequeOrder'
<1> SUFFICES ASSUME TypeOK, DequeOrder, [Next]_vars PROVE DequeOrder'
  OBVIOUS
\* Nobody enters or leaves the deque, and only its head may be granted.
<1>1. ASSUME ahead' = ahead, InDeque' = InDeque, Pending' \subseteq Pending,
             Reserved' \subseteq Reserved \cup Heads
      PROVE  DequeOrder'
  <2>1. ASSUME NEW p \in Heads, NEW q \in Pending', p \notin Pending' PROVE p \in ahead[q]
    BY <1>1, <2>1 DEF DequeOrder, Heads, Pending, InDeque, Queue
  <2>2. \A p \in Reserved' : p \notin Pending'
    BY DEF Reserved, Pending
  <2>3. QED  BY <1>1, <2>1, <2>2 DEF DequeOrder
\* r leaves the deque, and only its head may be granted.
<1>2. ASSUME NEW r \in Requests, LeaveDeque(r), InDeque' = InDeque \ {r},
             Pending' \subseteq Pending, Reserved' \subseteq (Reserved \ {r}) \cup Heads
      PROVE  DequeOrder'
  <2>1. \A q \in Requests \ {r} : ahead'[q] = ahead[q] \ {r}
    BY <1>2 DEF LeaveDeque
  <2>2. ahead'[r] = {}
    BY <1>2 DEF LeaveDeque
  <2>3. ASSUME NEW p \in Heads, NEW q \in Pending', p \notin Pending' PROVE p \in ahead[q]
    BY <1>2, <2>3 DEF DequeOrder, Heads, Pending, InDeque, Queue
  <2>4. Pending' \subseteq InDeque' /\ Reserved' \subseteq InDeque' /\ InDeque' \subseteq Requests
    BY DEF Pending, Reserved, InDeque, Queue
  <2>5. \A p \in Reserved' : p \notin Pending'
    BY DEF Reserved, Pending
  <2>6. QED  BY <1>2, <2>1, <2>2, <2>3, <2>4, <2>5 DEF DequeOrder
<1>3. ASSUME NEW r \in Requests, Serve(r) PROVE DequeOrder'
  <2>1. CASE Authenticate(r) \/ RefuseBody(r) \/ AbortBody(r) \/ UpstreamAnswers(r)
               \/ NextChunk(r) \/ YieldChunk(r) \/ StreamEnds(r) \/ CancelStream(r)
    <3>1. UNCHANGED ahead
      BY <2>1 DEF Authenticate, RefuseBody, RefuseMedia, AbortBody, UpstreamAnswers, NextChunk,
                  YieldChunk, StreamEnds, CancelStream, Reject
    <3>2. Reserved' = Reserved /\ Pending' = Pending /\ InDeque' = InDeque
      BY <2>1 DEF Authenticate, RefuseBody, RefuseMedia, AbortBody, UpstreamAnswers, NextChunk,
                  YieldChunk, StreamEnds, CancelStream, Reject, Goto, Reserved,
                  Pending, InDeque, Queue, TypeOK
    <3>3. QED  BY <1>1, <3>1, <3>2
  <2>2. CASE Acquire(r)
    <3>1. CASE Locked
      <4>1. /\ ahead' = [ahead EXCEPT ![r] = InDeque]
            /\ InDeque' = InDeque \cup {r} /\ r \notin InDeque
            /\ Pending' = Pending \cup {r} /\ Reserved' = Reserved
        BY <2>2, <3>1 DEF Acquire, Goto, InDeque, Pending, Reserved, Queue, TypeOK
      <4>2. Reserved \subseteq InDeque /\ InDeque \subseteq Requests
        BY DEF Reserved, InDeque, Queue
      <4>3. QED  BY <4>1, <4>2 DEF DequeOrder, TypeOK
    <3>2. CASE ~Locked
      <4>1. ahead' = ahead /\ InDeque' = InDeque /\ Pending' = Pending /\ Reserved' = Reserved
        BY <2>2, <3>2 DEF Acquire, Goto, InDeque, Pending, Reserved, Queue, TypeOK
      <4>2. QED  BY <1>1, <4>1
    <3>3. QED  BY <3>1, <3>2
  <2>3. CASE QueueDeadline(r)
    <3>1. /\ ahead' = ahead /\ InDeque' = InDeque
          /\ Pending' \subseteq Pending /\ Reserved' = Reserved
      BY <2>3 DEF QueueDeadline, Goto, InDeque, Pending, Reserved, Queue, TypeOK
    <3>2. QED  BY <1>1, <3>1
  <2>4. CASE TakeGrant(r)
    <3>1. /\ LeaveDeque(r) /\ InDeque' = InDeque \ {r} /\ Pending' \subseteq Pending
          /\ Reserved' \subseteq (Reserved \ {r}) \cup Heads
      BY <2>4 DEF TakeGrant, Goto, InDeque, Pending, Reserved, Heads, Queue, TypeOK
    <3>2. QED  BY <1>2, <3>1
  <2>5. CASE QueueTimeout(r)
    <3>1. /\ LeaveDeque(r) /\ InDeque' = InDeque \ {r} /\ Pending' \subseteq Pending
          /\ Reserved' \subseteq (Reserved \ {r}) \cup Heads
      BY <2>5 DEF QueueTimeout, GiveBack, Goto, InDeque, Pending, Reserved, Heads,
                  Queue, TypeOK
    <3>2. QED  BY <1>2, <3>1
  <2>6. CASE UpstreamFails(r) \/ CloseBody(r) \/ Cleanup(r) \/ FinaliseGenerator(r)
    <3>1. PICK place \in {"done", "background"} : ReleaseSlot(r, place)
      BY <2>6 DEF UpstreamFails, CloseBody, Cleanup, FinaliseGenerator
    <3>2. ahead' = ahead /\ r \notin InDeque
      BY <2>6 DEF UpstreamFails, CloseBody, Cleanup, FinaliseGenerator, InDeque, Queue
    <3>3. /\ InDeque' = InDeque /\ Pending' \subseteq Pending
          /\ Reserved' \subseteq Reserved \cup Heads
      BY <3>1, <3>2 DEF ReleaseSlot, GiveBack, Goto, InDeque, Pending, Reserved,
                        Heads, Queue, TypeOK
    <3>4. QED  BY <1>1, <3>2, <3>3
  <2>7. QED  BY <1>3, <2>1, <2>2, <2>3, <2>4, <2>5, <2>6 DEF Serve
<1>4. ASSUME NEW r \in Requests, Disconnect(r) PROVE DequeOrder'
  BY <1>1, <1>4 DEF Disconnect, Reserved, Pending, InDeque
<1>5. CASE Idle \/ UNCHANGED vars
  BY <1>1, <1>5 DEF Idle, vars, Reserved, Pending, InDeque
<1>6. QED  BY <1>3, <1>4, <1>5 DEF Next

-----------------------------------------------------------------------------
(* The theorems.                                                           *)

LEMMA InvStep == IInv /\ [Next]_vars => IInv'
BY TypeStep, PlaceStep, CountStep, WakeupStep, OrderStep DEF IInv

LEMMA Invariance == Spec => []IInv
BY InitInv, InvStep, PTL DEF Spec

\* Whatever deadlines, disconnects, upstream errors and generator
\* finalisations occur, no slot of the gateway is ever lost or created, and
\* the gauge shows the slots held: for every number of requests and slots.
THEOREM SlotsConserved == Spec => []SlotConservation
<1>1. IInv => SlotConservation
  BY DEF IInv
<1>2. QED  BY <1>1, Invariance, PTL

\* A request that is being served by the model server holds a slot.
THEOREM UpstreamProtected == Spec => []UpstreamNeedsSlot
<1>1. IInv => UpstreamNeedsSlot
  BY DEF IInv, TypeOK, SlotByPlace, SettledWhenDone, UpstreamNeedsSlot, Places
<1>2. QED  BY <1>1, Invariance, PTL

\* A request that is over has returned its slot and closed its upstream.
THEOREM EveryRequestSettles == Spec => []SettledWhenDone
<1>1. IInv => SettledWhenDone
  BY DEF IInv
<1>2. QED  BY <1>1, Invariance, PTL

\* A free slot is never left beside a waiter that nobody will wake.
THEOREM WakeupsKept == Spec => []NoLostWakeup
<1>1. IInv => NoLostWakeup
  BY DEF IInv
<1>2. QED  BY <1>1, Invariance, PTL

\* Slots are handed out in the order in which requests joined the queue.
THEOREM ArrivalOrderKept == Spec => FirstComeFirstServed
<1>1. ASSUME IInv, [Next]_vars, NEW r \in Requests, slot[r] = "none", slot'[r] = "held",
             NEW q \in Pending
      PROVE  r \in ahead[q]
  <2>1. CASE UNCHANGED vars
    BY <1>1, <2>1 DEF vars
  <2>2. ASSUME NEW p \in Requests, Serve(p) PROVE r \in ahead[q]
    <3>1. CASE Acquire(p)
      BY <1>1, <3>1 DEF Acquire, Locked
    <3>2. CASE TakeGrant(p)
      <4>1. p = r
        BY <1>1, <3>2 DEF TakeGrant, StartCall, IInv, TypeOK
      <4>2. r \in Reserved
        BY <3>2, <4>1 DEF TakeGrant, Reserved
      <4>3. QED  BY <1>1, <4>2 DEF IInv, DequeOrder
    <3>3. CASE UpstreamFails(p) \/ CloseBody(p) \/ Cleanup(p) \/ FinaliseGenerator(p)
      BY <1>1, <3>3 DEF UpstreamFails, CloseBody, Cleanup, FinaliseGenerator,
                        ReleaseSlot, IInv, TypeOK
    <3>4. CASE \/ Authenticate(p) \/ RefuseBody(p) \/ AbortBody(p) \/ QueueDeadline(p)
               \/ QueueTimeout(p) \/ UpstreamAnswers(p) \/ NextChunk(p)
               \/ YieldChunk(p) \/ StreamEnds(p) \/ CancelStream(p)
      BY <1>1, <3>4 DEF Authenticate, RefuseBody, RefuseMedia, AbortBody, QueueDeadline,
                        QueueTimeout, UpstreamAnswers, NextChunk, YieldChunk,
                        StreamEnds, CancelStream, Reject
    <3>5. QED  BY <2>2, <3>1, <3>2, <3>3, <3>4 DEF Serve
  <2>3. ASSUME NEW p \in Requests, Disconnect(p) PROVE r \in ahead[q]
    BY <1>1, <2>3 DEF Disconnect
  <2>4. QED  BY <1>1, <2>1, <2>2, <2>3 DEF Next, Idle
<1>2. IInv /\ [Next]_vars =>
        [\A r \in Requests :
            slot[r] = "none" /\ slot'[r] = "held" => \A q \in Pending : r \in ahead[q]]_vars
  BY <1>1
<1>3. QED  BY <1>2, Invariance, PTL DEF Spec, FirstComeFirstServed

-----------------------------------------------------------------------------
(* The refinement.                                                         *)

\* While a waiter is granted a slot, or a slot is free, fewer than
\* MaxConcurrency requests hold one.
LEMMA RoomInPool ==
  ASSUME IInv, slots > 0 \/ Reserved # {}
  PROVE  Cardinality(Holding) < MaxConcurrency
<1>1. Reserved # {} => Cardinality(Reserved) > 0
  BY CountedSetsFinite, FS_EmptySet
<1>2. QED
  BY <1>1, CountedSetsFinite, GatewayAssumption DEF IInv, TypeOK, SlotConservation

\* The pool's users are the requests that hold a slot.
LEMMA PoolUsers == Pool!Using = Holding
BY DEF Pool!Using, Holding, PoolPhase

\* SlotPool counts with the same Cardinality.
LEMMA PoolCounts == \A S : Pool!Cardinality(S) = Cardinality(S)
BY DEF Pool!Cardinality, Cardinality, Pool!IsFiniteSet, IsFiniteSet

\* A step that changes no slot and takes nobody in or out of the queue, nor to
\* the end, is invisible to the pool.
LEMMA PoolStutter ==
  ASSUME TypeOK, slot' = slot,
         \A q \in Requests : \/ pc'[q] = pc[q]
                             \/ pc[q] \in Queue /\ pc'[q] \in Queue
                             \/ slot[q] # "none"
                             \/ pc[q] \notin Queue \cup {"done"} /\ pc'[q] \notin Queue \cup {"done"}
  PROVE  UNCHANGED Pool!vars
<1>1. \A q \in Requests : PoolPhase(q)' = PoolPhase(q)
  BY DEF PoolPhase, TypeOK, Queue
<1>2. QED  BY <1>1 DEF Pool!vars

\* One request moves in the pool and the others stay where they are.
LEMMA PoolMove ==
  ASSUME NEW r \in Requests, NEW from, NEW to, PoolPhase(r) = from, PoolPhase(r)' = to,
         \A q \in Requests \ {r} : PoolPhase(q)' = PoolPhase(q)
  PROVE  Pool!Move(r, from, to)
BY DEF Pool!Move

\* release_slot takes the request out of the pool, once.
LEMMA PoolRelease ==
  ASSUME IInv, NEW r \in Requests, NEW place \in {"done", "background"},
         ReleaseSlot(r, place), r \notin InDeque, slot[r] # "none"
  PROVE  Pool!Next \/ UNCHANGED Pool!vars
<1> USE DEF IInv
<1>1. /\ r \notin Pending /\ place \in Settled
      /\ \A q \in Requests \ {r} :
           pc'[q] = pc[q] \/ (pc[q] = "queued" /\ pc'[q] = "granted")
      /\ slot' = [slot EXCEPT ![r] = IF @ = "held" THEN "returned" ELSE @]
  BY ReleasePlace DEF Pending, InDeque, Queue, Settled, Places
<1>2. \A q \in Requests \ {r} : PoolPhase(q)' = PoolPhase(q)
  BY <1>1 DEF PoolPhase, TypeOK, Queue
<1>3. CASE slot[r] = "held"
  <2>1. PoolPhase(r) = "using" /\ PoolPhase(r)' = "left"
    BY <1>1, <1>3 DEF PoolPhase, TypeOK
  <2>2. QED  BY <1>2, <2>1, PoolMove DEF Pool!Next, Pool!Return
<1>4. CASE slot[r] # "held"
  <2>1. PoolPhase(r)' = PoolPhase(r)
    BY <1>1, <1>4 DEF PoolPhase, TypeOK
  <2>2. QED  BY <1>2, <2>1 DEF Pool!vars
<1>5. QED  BY <1>3, <1>4

\* Every step of the handler is a step of the pool or invisible to it.
LEMMA PoolStep ==
  ASSUME IInv, NEW r \in Requests, Serve(r)
  PROVE  Pool!Next \/ UNCHANGED Pool!vars
<1> USE DEF IInv
<1>1. CASE Authenticate(r) \/ RefuseBody(r) \/ AbortBody(r)
  <2>1. CASE \E a \in Answers : Reject(r, a)
    <3>1. /\ slot' = slot /\ slot[r] = "none" /\ pc[r] \in {"new", "body"}
          /\ pc' = [pc EXCEPT ![r] = "done"]
      BY <1>1, <2>1 DEF Authenticate, RefuseBody, RefuseMedia, AbortBody, Reject, Goto, SlotByPlace
    <3>2. \A q \in Requests \ {r} : PoolPhase(q)' = PoolPhase(q)
      BY <3>1 DEF PoolPhase, TypeOK
    <3>3. PoolPhase(r) = "outside" /\ PoolPhase(r)' = "left"
      BY <3>1 DEF PoolPhase, TypeOK, Queue
    <3>4. QED  BY <3>2, <3>3, PoolMove DEF Pool!Next, Pool!Refuse
  <2>2. CASE pc[r] = "new" /\ Goto(r, "body") /\ slot' = slot
    BY <2>2, PoolStutter DEF Goto, TypeOK, Queue
  <2>3. QED
    BY <1>1, <2>1, <2>2 DEF Authenticate, AuthenticationRefusals, RefuseBody, RefuseMedia,
             AbortBody, Answers
<1>2. CASE Acquire(r)
  <2>1. slot[r] = "none" /\ pc[r] = "body" /\ PoolPhase(r) = "outside"
    BY <1>2 DEF Acquire, SlotByPlace, PoolPhase, Queue
  <2>2. CASE Locked
    <3>1. pc' = [pc EXCEPT ![r] = "queued"] /\ slot' = slot
      BY <1>2, <2>2 DEF Acquire, Goto
    <3>2. /\ PoolPhase(r)' = "waiting"
          /\ \A q \in Requests \ {r} : PoolPhase(q)' = PoolPhase(q)
      BY <2>1, <3>1 DEF PoolPhase, TypeOK, Queue
    <3>3. QED  BY <2>1, <3>2, PoolMove DEF Pool!Next, Pool!Wait
  <2>3. CASE ~Locked
    <3>1. pc' = [pc EXCEPT ![r] = "calling"] /\ slot' = [slot EXCEPT ![r] = "held"]
      BY <1>2, <2>3 DEF Acquire, Goto, StartCall
    <3>2. /\ PoolPhase(r)' = "using"
          /\ \A q \in Requests \ {r} : PoolPhase(q)' = PoolPhase(q)
      BY <3>1 DEF PoolPhase, TypeOK
    <3>3. Pool!HasRoom
      <4>1. slots > 0
        BY <2>3 DEF Locked, TypeOK
      <4>2. QED  BY <4>1, RoomInPool, PoolUsers, PoolCounts DEF Pool!HasRoom
    <3>4. QED  BY <2>1, <3>2, <3>3, PoolMove DEF Pool!Next, Pool!TakeNow
  <2>4. QED  BY <2>2, <2>3
<1>3. CASE QueueDeadline(r)
  BY <1>3, PoolStutter DEF QueueDeadline, Goto, TypeOK, Queue
<1>4. CASE TakeGrant(r)
  <2>1. /\ pc[r] = "granted" /\ slot' = [slot EXCEPT ![r] = "held"] /\ pc'[r] = "calling"
        /\ \A q \in Requests \ {r} :
             pc'[q] = pc[q] \/ (pc[q] = "queued" /\ pc'[q] = "granted")
    BY <1>4 DEF TakeGrant, StartCall, Goto, Heads, Pending, TypeOK
  <2>2. /\ PoolPhase(r) = "waiting" /\ PoolPhase(r)' = "using"
        /\ \A q \in Requests \ {r} : PoolPhase(q)' = PoolPhase(q)
    BY <2>1 DEF PoolPhase, TypeOK, Queue, SlotByPlace
  <2>3. Pool!HasRoom
    <3>1. Reserved # {}
      BY <2>1 DEF Reserved
    <3>2. QED  BY <3>1, RoomInPool, PoolUsers, PoolCounts DEF Pool!HasRoom
  <2>4. QED  BY <2>2, <2>3, PoolMove DEF Pool!Next, Pool!Take
<1>5. CASE QueueTimeout(r)
  <2>1. /\ pc[r] \in Queue /\ slot[r] = "none" /\ slot' = slot /\ pc'[r] = "done"
        /\ \A q \in Requests \ {r} :
             pc'[q] = pc[q] \/ (pc[q] = "queued" /\ pc'[q] = "granted")
    BY <1>5 DEF QueueTimeout, GiveBack, Goto, Heads, Pending, TypeOK, Queue, SlotByPlace
  <2>2. /\ PoolPhase(r) = "waiting" /\ PoolPhase(r)' = "left"
        /\ \A q \in Requests \ {r} : PoolPhase(q)' = PoolPhase(q)
    BY <2>1 DEF PoolPhase, TypeOK, Queue
  <2>3. QED  BY <2>2, PoolMove DEF Pool!Next, Pool!GiveUp
<1>6. CASE UpstreamFails(r) \/ CloseBody(r) \/ Cleanup(r) \/ FinaliseGenerator(r)
  <2>1. PICK place \in {"done", "background"} : ReleaseSlot(r, place)
    BY <1>6 DEF UpstreamFails, CloseBody, Cleanup, FinaliseGenerator
  <2>2. r \notin InDeque
    BY <1>6 DEF UpstreamFails, CloseBody, Cleanup, FinaliseGenerator, InDeque, Queue
  <2>3. CASE slot[r] # "none"
    BY <2>1, <2>2, <2>3, PoolRelease
  <2>4. CASE slot[r] = "none"
    <3>1. pc[r] = "done" /\ slot' = slot /\ pc' = [pc EXCEPT ![r] = "done"]
      BY <1>6, <2>4 DEF UpstreamFails, CloseBody, Cleanup, FinaliseGenerator,
                        ReleaseSlot, Goto, SlotByPlace, Responding
    <3>2. QED  BY <3>1, PoolStutter DEF TypeOK
  <2>5. QED  BY <2>3, <2>4
<1>7. CASE UpstreamAnswers(r) \/ NextChunk(r) \/ YieldChunk(r) \/ StreamEnds(r)
             \/ CancelStream(r)
  BY <1>7, PoolStutter DEF UpstreamAnswers, NextChunk, YieldChunk, StreamEnds,
                           CancelStream, Goto, TypeOK, Queue
<1>8. QED
  BY <1>1, <1>2, <1>3, <1>4, <1>5, <1>6, <1>7 DEF Serve

\* The handler refines the slot pool's safety part: at most MaxConcurrency
\* requests use a slot at a time and each goes through the pool once.
THEOREM RefinesPool == Spec => Pool!Init /\ [][Pool!Next]_(Pool!vars)
<1>1. Init => Pool!Init
  BY DEF Init, Pool!Init, PoolPhase, Queue
<1>2. IInv /\ [Next]_vars => [Pool!Next]_(Pool!vars)
  <2> SUFFICES ASSUME IInv, [Next]_vars PROVE Pool!Next \/ UNCHANGED Pool!vars
    OBVIOUS
  <2>1. CASE Idle \/ UNCHANGED vars
    BY <2>1, PoolStutter DEF Idle, vars, IInv
  <2>2. ASSUME NEW r \in Requests, Disconnect(r) PROVE UNCHANGED Pool!vars
    BY <2>2, PoolStutter DEF Disconnect, IInv
  <2>3. QED  BY <2>1, <2>2, PoolStep DEF Next
<1>3. QED  BY <1>1, <1>2, Invariance, PTL DEF Spec
=============================================================================
