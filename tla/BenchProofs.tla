----------------------------- MODULE BenchProofs -----------------------------
(***************************************************************************)
(* Theorems about BenchRun for any levels, numbers of requests and         *)
(* workload cases: the sampler, the order and completeness of the results, *)
(* and the wall times, whatever the requests return and in any order.      *)
(***************************************************************************)
EXTENDS BenchRun, SequenceTheorems, TLAPS

Phases == {"preparing", "running", "closing", "joining", "writing", "reported", "failed"}
Tasks == {"waiting", "running", "finished", "raised", "cancelled"}
Rows == [concurrency : Nat, position : Nat, item : Nat, case : Nat, success : BOOLEAN]

Types ==
    /\ phase \in Phases /\ lv \in 1..(Len(Levels) + 1)
    /\ task \in [Items -> Tasks] /\ error \in BOOLEAN
    /\ results \in Seq(Rows)

\* Behind the last level nothing is left to do.
Behind ==
    /\ phase \in {"preparing", "running"} => lv \in Positions
    /\ lv = Len(Levels) + 1 => \A i \in Items : task[i] = "finished"
    /\ phase # "failed" /\ phase \notin {"preparing", "running"} /\ ~error => lv = Len(Levels) + 1
    /\ phase \in {"writing", "reported"} => ~error

\* The results of the levels that are over, in order.
Ordered ==
    /\ Len(results) = (lv - 1) * PerLevel
    /\ \A k \in DOMAIN results :
          /\ results[k].position = ((k - 1) \div PerLevel) + 1
          /\ results[k].item = (k - 1) % PerLevel
          /\ results[k].case = results[k].item % Cases

Sampled ==
    /\ sampler = "returned" => stop /\ late
    /\ phase \in {"writing", "reported"} => sampler = "returned"

\* The inductive invariant.
IInv == Types /\ Behind /\ Ordered /\ Sampled

-----------------------------------------------------------------------------
(* Arithmetic.                                                             *)

LEMMA Constants ==
    /\ Len(Levels) \in Nat \ {0} /\ PerLevel \in Nat \ {0} /\ Cases \in Nat \ {0}
    /\ \A p \in Positions : Levels[p] \in Nat \ {0}
BY BenchAssumption DEF Positions

LEMMA DivMod ==
    ASSUME NEW P \in Nat \ {0}, NEW q \in Nat, NEW r \in 0..(P - 1)
    PROVE  (q * P + r) \div P = q /\ (q * P + r) % P = r
OBVIOUS

LEMMA Below ==
    ASSUME NEW P \in Nat \ {0}, NEW L \in Nat, NEW q \in Nat, q < L, NEW r \in 0..(P - 1)
    PROVE  q * P + r + 1 \in 1..(L * P)
<1>1. L - q - 1 \in Nat
  OBVIOUS
<1>2. (L - q - 1) * P >= 0 /\ q * P \in Nat /\ L * P \in Nat
  BY <1>1
<1>3. L * P = q * P + P + (L - q - 1) * P
  OBVIOUS
<1>4. QED  BY <1>2, <1>3

-----------------------------------------------------------------------------
(* Steps.                                                                  *)

LEMMA InitInv == Init => IInv
<1> SUFFICES ASSUME Init PROVE IInv
  OBVIOUS
<1>0. task \in [Items -> Tasks] /\ results \in Seq(Rows) /\ lv \in Positions
  BY Constants DEF Init, Tasks, AllWaiting, Positions
<1>1. Types
  <2>1. error \in BOOLEAN /\ phase \in Phases
    BY DEF Init, Phases
  <2>2. lv \in 1..(Len(Levels) + 1)
    BY <1>0, Constants DEF Positions
  <2>3. QED  BY <1>0, <2>1, <2>2 DEF Types
<1>6. Behind
  BY <1>0, Constants DEF Init, Behind
<1>2. Ordered
  BY Constants DEF Init, Ordered
<1>5. Sampled
  BY DEF Init, Sampled
<1>7. QED  BY <1>1, <1>2, <1>5, <1>6 DEF IInv

\* What FinishLevel appends.
LEMMA LevelRows ==
    ASSUME IInv, phase = "running"
    PROVE  /\ LevelResults \in Seq(Rows) /\ Len(LevelResults) = PerLevel
           /\ \A j \in 1..PerLevel :
                 /\ LevelResults[j].position = lv /\ LevelResults[j].item = j - 1
                 /\ LevelResults[j].case = (j - 1) % Cases
<1>1. lv \in Positions /\ Levels[lv] \in Nat /\ lv \in Nat
  BY Constants DEF IInv, Behind, Positions
<1>2. \A j \in 1..PerLevel : j - 1 \in Nat /\ (j - 1) % Cases \in Nat
  BY Constants
<1>3. \A j \in 1..PerLevel : LevelResults[j] \in Rows
  BY <1>1, <1>2 DEF LevelResults, Rows
<1>4. QED  BY <1>3, Constants DEF LevelResults

LEMMA OrderedAfterLevel ==
    ASSUME IInv, FinishLevel
    PROVE  Ordered' /\ results' \in Seq(Rows)
<1> DEFINE n == (lv - 1) * PerLevel
<1>1. /\ phase = "running" /\ results' = results \o LevelResults /\ lv' = lv + 1
      /\ results \in Seq(Rows) /\ lv \in Nat \ {0} /\ Len(results) = n
  BY DEF FinishLevel, Extend, IInv, Types, Ordered
<1>2. /\ n \in Nat /\ (lv' - 1) * PerLevel = n + PerLevel
  BY <1>1, Constants
<1> HIDE DEF n
<1>3. results' \in Seq(Rows) /\ Len(results') = n + PerLevel
  <2>1. LevelResults \in Seq(Rows) /\ Len(LevelResults) = PerLevel
    BY <1>1, LevelRows
  <2>2. results' \in Seq(Rows) /\ Len(results') = Len(results) + Len(LevelResults)
    BY <1>1, <2>1, ConcatProperties
  <2>3. QED  BY <1>1, <2>1, <2>2
<1>4. ASSUME NEW k \in DOMAIN results'
      PROVE  /\ results'[k].position = ((k - 1) \div PerLevel) + 1
             /\ results'[k].item = (k - 1) % PerLevel
             /\ results'[k].case = results'[k].item % Cases
  <2>1. k \in 1..(n + PerLevel)
    BY <1>3, <1>4
  <2>2. CASE k <= n
    <3>1. k \in DOMAIN results /\ results'[k] = results[k]
      BY <1>1, <1>2, <2>1, <2>2, LevelRows
    <3>2. QED  BY <3>1 DEF IInv, Ordered
  <2>3. CASE k > n
    <3>1. PICK j \in 1..PerLevel : k = n + j
      BY <1>2, <2>1, <2>3, Constants
    <3>2. results'[k] = LevelResults[j]
      BY <1>1, <1>2, <3>1, LevelRows
    <3>3. (n + (j - 1)) \div PerLevel = lv - 1 /\ (n + (j - 1)) % PerLevel = j - 1
      <4>1. lv - 1 \in Nat /\ j - 1 \in 0..(PerLevel - 1) /\ PerLevel \in Nat \ {0}
        BY <1>1, <3>1, Constants
      <4>2. QED  BY <4>1, DivMod DEF n
    <3>4. k - 1 = n + (j - 1)
      BY <1>2, <3>1
    <3>5. /\ results'[k].position = lv /\ results'[k].item = j - 1
          /\ results'[k].case = (j - 1) % Cases
      BY <1>1, <3>2, LevelRows
    <3>6. QED  BY <1>1, <3>3, <3>4, <3>5
  <2>4. QED  BY <1>2, <2>1, <2>2, <2>3
<1>5. QED  BY <1>2, <1>3, <1>4 DEF Ordered

LEMMA SampledStep == IInv /\ [Next]_vars => Sampled'
<1> SUFFICES ASSUME IInv, [Next]_vars PROVE Sampled'
  OBVIOUS
<1> USE DEF IInv, Sampled
<1>1. CASE \E i \in Items : Begin(i) \/ Complete(i) \/ Raise(i)
  BY <1>1 DEF Begin, Complete, Raise
<1>2. CASE Prepare \/ Refuse \/ FinishLevel \/ AbortLevel
  BY <1>2 DEF Prepare, Refuse, FinishLevel, AbortLevel
<1>3. CASE CloseClient \/ Join \/ WriteReport
  BY <1>3 DEF CloseClient, Join, WriteReport
<1>4. CASE SnapshotEnds
  BY <1>4 DEF SnapshotEnds, Sampler
<1>5. CASE SnapshotRaises \/ PauseEnds \/ UNCHANGED vars
  BY <1>5 DEF SnapshotRaises, PauseEnds, Sampler, vars
<1>6. QED  BY <1>1, <1>2, <1>3, <1>4, <1>5 DEF Next, Over

LEMMA BehindStep ==
    ASSUME IInv, [Next]_vars
    PROVE  Behind' /\ Ordered' /\ Types'
<1> DEFINE Goal == Behind' /\ Ordered' /\ Types'
<1>1. Types /\ Behind /\ Ordered
  BY DEF IInv
<1>2. ASSUME NEW i \in Items, Begin(i) \/ Complete(i) \/ Raise(i) PROVE Goal
  <2>1. /\ UNCHANGED <<phase, lv, results, error>> /\ task[i] \in {"waiting", "running"}
        /\ \E t \in Tasks : task' = [task EXCEPT ![i] = t]
    BY <1>2 DEF Begin, Complete, Raise, Tasks
  <2>2. lv # Len(Levels) + 1
    BY <1>1, <2>1 DEF Behind
  <2>3. QED  BY <1>1, <2>1, <2>2 DEF Types, Behind, Ordered
<1>3. CASE FinishLevel
  <2>1. Ordered' /\ results' \in Seq(Rows)
    BY <1>3, OrderedAfterLevel
  <2>2. /\ phase = "running" /\ lv \in Positions /\ lv' = lv + 1 /\ error' = error
        /\ \A i \in Items : task[i] = "finished"
    BY <1>1, <1>3 DEF FinishLevel, Behind
  <2>3. CASE lv < Len(Levels)
    BY <1>1, <1>3, <2>1, <2>2, <2>3, Constants
       DEF FinishLevel, AllWaiting, Types, Behind, Positions, Tasks
  <2>4. CASE ~(lv < Len(Levels))
    BY <1>1, <1>3, <2>1, <2>2, <2>4, Constants DEF FinishLevel, Types, Behind, Positions, Phases
  <2>5. QED  BY <2>3, <2>4
<1>4. CASE Join
  <2>1. task' \in [Items -> Tasks] /\ \A i \in Items : task[i] = "finished" => task'[i] = "finished"
    BY <1>1, <1>4 DEF Join, Types, Tasks
  <2>2. /\ phase = "joining" /\ UNCHANGED <<lv, results, error>>
        /\ phase' = IF sampler = "returned" /\ ~error THEN "writing" ELSE "failed"
    BY <1>4 DEF Join
  <2>3. QED  BY <1>1, <2>1, <2>2 DEF Types, Behind, Ordered, Phases
<1>5. CASE Prepare \/ Refuse \/ CloseClient \/ WriteReport
  BY <1>1, <1>5 DEF Prepare, Refuse, CloseClient, WriteReport, Types, Behind, Ordered, Phases
<1>6. CASE AbortLevel
  BY <1>1, <1>6, Constants DEF AbortLevel, Types, Behind, Ordered, Phases
<1>7. CASE SnapshotEnds \/ SnapshotRaises \/ PauseEnds \/ UNCHANGED vars
  BY <1>1, <1>7 DEF SnapshotEnds, SnapshotRaises, PauseEnds, Sampler, vars, Types, Behind, Ordered
<1>8. QED  BY <1>2, <1>3, <1>4, <1>5, <1>6, <1>7 DEF Next, Over

LEMMA Invariance == Spec => []IInv
<1>1. IInv /\ [Next]_vars => IInv'
  BY SampledStep, BehindStep DEF IInv
<1>2. QED  BY <1>1, InitInv, PTL DEF Spec

-----------------------------------------------------------------------------
\* The GPU is sampled until after the last request.
THEOREM SamplerOutlivesLoad == Spec => []SamplingOutlivesLoad
<1>1. IInv => SamplingOutlivesLoad
  BY DEF IInv, Sampled, SamplingOutlivesLoad
<1>2. QED  BY <1>1, Invariance, PTL

\* A report has one result for each item of each level, in their order.
THEOREM ReportsAreComplete == Spec => []ReportIsComplete
<1>1. IInv => ReportIsComplete
  <2> SUFFICES ASSUME IInv, phase = "reported" PROVE ReportIsComplete
    BY DEF ReportIsComplete
  <2>1. lv = Len(Levels) + 1
    BY DEF IInv, Behind
  <2>2. (lv - 1) * PerLevel = Len(Levels) * PerLevel
    BY <2>1, Constants
  <2>3. QED  BY <2>1, <2>2 DEF IInv, Behind, Ordered, ReportIsComplete
<1>2. QED  BY <1>1, Invariance, PTL

LEMMA SameCases == IInv => SameCasesAtEveryLevel
<1> SUFFICES ASSUME IInv, phase = "reported" PROVE SameCasesAtEveryLevel
  BY DEF SameCasesAtEveryLevel
<1>1. lv = Len(Levels) + 1
  BY DEF IInv, Behind
<1>2. Len(results) = Len(Levels) * PerLevel /\ results \in Seq(Rows)
  BY <1>1, Constants DEF IInv, Ordered, Types
<1>3. ASSUME NEW c \in 0..(Cases - 1), c < PerLevel, NEW p \in Positions
      PROVE  \E k \in DOMAIN results : results[k].position = p /\ results[k].case = c
  <2> DEFINE k == (p - 1) * PerLevel + c + 1
  <2>1. /\ p \in Nat /\ p - 1 \in Nat /\ p - 1 < Len(Levels) /\ c \in 0..(PerLevel - 1)
        /\ PerLevel \in Nat \ {0} /\ Len(Levels) \in Nat
    BY <1>3, Constants DEF Positions
  <2>2. k \in DOMAIN results
    BY <1>2, <2>1, Below
  <2>3. ((p - 1) * PerLevel + c) \div PerLevel = p - 1 /\ ((p - 1) * PerLevel + c) % PerLevel = c
    BY <2>1, DivMod
  <2>4. k - 1 = (p - 1) * PerLevel + c
    BY <2>1
  <2>5. /\ results[k].position = (p - 1) + 1 /\ results[k].item = c
        /\ results[k].case = results[k].item % Cases
    BY <2>2, <2>3, <2>4 DEF IInv, Ordered
  <2>6. c % Cases = c
    BY <1>3, Constants
  <2> HIDE DEF k
  <2>7. QED  BY <2>1, <2>2, <2>5, <2>6
<1>4. \A j, k \in DOMAIN results :
         results[j].item = results[k].item => results[j].case = results[k].case
  BY DEF IInv, Ordered
<1>5. QED  BY <1>3, <1>4 DEF SameCasesAtEveryLevel

\* Every level asks the same cases in the same order.
THEOREM LevelsAskTheSame == Spec => []SameCasesAtEveryLevel
<1>1. QED  BY SameCases, Invariance, PTL

-----------------------------------------------------------------------------
(* Types, and the throughput of levels that differ.                        *)

Row == [concurrency : Concurrencies, position : Positions,
        item : Items, case : 0..(Cases - 1), success : BOOLEAN]

LEMMA LevelTypes ==
    ASSUME IInv, phase = "running"
    PROVE  /\ lv \in Positions /\ Levels[lv] \in Concurrencies
           /\ LevelResults \in Seq(Row) /\ Len(LevelResults) = PerLevel
           /\ \A j \in 1..PerLevel : LevelResults[j].concurrency = Levels[lv]
<1>1. lv \in Positions /\ Levels[lv] \in Concurrencies
  BY DEF IInv, Behind, Concurrencies
<1>2. \A j \in 1..PerLevel : j - 1 \in Items /\ (j - 1) % Cases \in 0..(Cases - 1)
  BY Constants DEF Items
<1>3. \A j \in 1..PerLevel : LevelResults[j] \in Row
  BY <1>1, <1>2 DEF LevelResults, Row
<1>4. QED  BY <1>1, <1>3, Constants DEF LevelResults

LEMMA TypeStep == IInv /\ TypeOK /\ [Next]_vars => TypeOK'
<1> SUFFICES ASSUME IInv, TypeOK, [Next]_vars PROVE TypeOK'
  OBVIOUS
<1>1. ASSUME NEW i \in Items, Begin(i) \/ Complete(i) \/ Raise(i) PROVE TypeOK'
  BY <1>1 DEF Begin, Complete, Raise, Outcomes, TypeOK
<1>2. CASE FinishLevel
  <2>1. /\ phase = "running" /\ results' = results \o LevelResults /\ lv' = lv + 1
        /\ wall' = [wall EXCEPT ![Levels[lv]] = {lv}]
        /\ UNCHANGED <<error, sampler, stop, late>>
    BY <1>2 DEF FinishLevel, Extend, Span
  <2>2. /\ lv \in Positions /\ Levels[lv] \in Concurrencies
        /\ LevelResults \in Seq(Row) /\ results \in Seq(Row)
    BY <2>1, LevelTypes DEF TypeOK, Row
  <2>3. results' \in Seq(Row)
    BY <2>1, <2>2, ConcatProperties
  <2>4. lv' \in 1..(Len(Levels) + 1) /\ {lv} \in SUBSET Positions
    BY <2>1, <2>2, Constants DEF Positions
  <2>5. wall' \in [Concurrencies -> SUBSET Positions]
    BY <2>1, <2>4 DEF TypeOK
  <2>6. /\ task' \in [Items -> {"waiting", "running", "finished", "raised", "cancelled"}]
        /\ outcome' \in [Items -> {"none", "success", "failure"}]
        /\ phase' \in {"running", "closing"}
    BY <1>2, <2>1 DEF FinishLevel, AllWaiting, NoOutcome, TypeOK
  <2>7. QED  BY <2>1, <2>3, <2>4, <2>5, <2>6 DEF TypeOK, Row
<1>3. CASE Join
  BY <1>3 DEF Join, TypeOK
<1>4. CASE Prepare \/ Refuse \/ AbortLevel \/ CloseClient \/ WriteReport
  BY <1>4 DEF Prepare, Refuse, AbortLevel, CloseClient, WriteReport, TypeOK
<1>5. CASE SnapshotEnds \/ SnapshotRaises \/ PauseEnds \/ UNCHANGED vars
  BY <1>5 DEF SnapshotEnds, SnapshotRaises, PauseEnds, Sampler, vars, TypeOK
<1>6. QED  BY <1>1, <1>2, <1>3, <1>4, <1>5 DEF Next, Over

\* Every result names a level that was asked for, an item and a workload case.
THEOREM TypeCorrect == Spec => []TypeOK
<1>1. Init => TypeOK
  <2> SUFFICES ASSUME Init PROVE TypeOK
    OBVIOUS
  <2>1. results \in Seq(Row)
    BY DEF Init
  <2>2. lv \in 1..(Len(Levels) + 1) /\ wall \in [Concurrencies -> SUBSET Positions]
    BY Constants DEF Init
  <2>3. QED  BY <2>1, <2>2 DEF Init, TypeOK, Row, AllWaiting, NoOutcome
<1>2. QED  BY <1>1, TypeStep, Invariance, PTL DEF Spec

Distinct == \A p, q \in Positions : Levels[p] = Levels[q] => p = q

\* The wall time of a concurrency is that of its level, and so are its results.
Timed ==
    /\ \A p \in Positions : p < lv => wall[Levels[p]] = {p}
    /\ \A k \in DOMAIN results : results[k].concurrency = Levels[results[k].position]

LEMMA TimedStep ==
    ASSUME Distinct, IInv, TypeOK, Timed, [Next]_vars
    PROVE  Timed'
<1>1. CASE FinishLevel
  <2>1. /\ phase = "running" /\ results' = results \o LevelResults /\ lv' = lv + 1
        /\ wall' = [wall EXCEPT ![Levels[lv]] = {lv}]
    BY <1>1 DEF FinishLevel, Extend, Span
  <2>2. /\ lv \in Positions /\ Levels[lv] \in Concurrencies /\ results \in Seq(Row)
        /\ LevelResults \in Seq(Row) /\ Len(LevelResults) = PerLevel
    BY <2>1, LevelTypes DEF TypeOK, Row
  <2>3. ASSUME NEW p \in Positions, p < lv' PROVE wall'[Levels[p]] = {p}
    <3>1. wall \in [Concurrencies -> SUBSET Positions] /\ Levels[p] \in Concurrencies
      BY DEF TypeOK, Concurrencies
    <3>2. CASE p = lv
      BY <2>1, <2>2, <3>1, <3>2
    <3>3. CASE p # lv
      <4>1. p < lv
        BY <2>1, <2>2, <2>3, <3>3, Constants DEF Positions
      <4>2. Levels[p] # Levels[lv]
        BY <2>2, <3>3 DEF Distinct
      <4>3. QED  BY <2>1, <3>1, <4>1, <4>2 DEF Timed
    <3>4. QED  BY <3>2, <3>3
  <2>4. ASSUME NEW k \in DOMAIN results'
        PROVE  results'[k].concurrency = Levels[results'[k].position]
    <3>1. k \in 1..(Len(results) + PerLevel) /\ Len(results) \in Nat
      BY <2>1, <2>2, <2>4, Constants
    <3>2. CASE k <= Len(results)
      <4>1. k \in DOMAIN results /\ results'[k] = results[k]
        BY <2>1, <2>2, <3>1, <3>2
      <4>2. QED  BY <4>1 DEF Timed
    <3>3. CASE k > Len(results)
      <4>1. PICK j \in 1..PerLevel : k = Len(results) + j
        BY <3>1, <3>3, Constants
      <4>2. results'[k] = LevelResults[j]
        BY <2>1, <2>2, <3>1, <4>1
      <4>3. QED  BY <2>1, <4>2, LevelRows, LevelTypes
    <3>4. QED  BY <3>1, <3>2, <3>3
  <2>5. QED  BY <2>3, <2>4 DEF Timed, Positions
<1>2. CASE ~FinishLevel
  <2>1. UNCHANGED <<lv, results, wall>>
    BY <1>2 DEF Next, Over, Begin, Complete, Raise, Prepare, Refuse, AbortLevel, CloseClient, Join,
                WriteReport, SnapshotEnds, SnapshotRaises, PauseEnds, Sampler, vars
  <2>2. QED  BY <2>1 DEF Timed, Positions
<1>3. QED  BY <1>1, <1>2

\* If no concurrency is given twice, a report divides the tokens of a level by
\* the wall time of that same level.
THEOREM DistinctLevelsAreTimed ==
    ASSUME Distinct
    PROVE  Spec => []ThroughputPerLevel
<1>1. Init => Timed
  BY Constants DEF Init, Timed, Positions
<1>2. ASSUME IInv, TypeOK, Timed PROVE ThroughputPerLevel
  <2> SUFFICES ASSUME phase = "reported", NEW c \in Concurrencies
               PROVE  MeasuredAt(c) = wall[c]
    BY DEF ThroughputPerLevel
  <2>1. PICK p \in Positions : c = Levels[p]
    BY DEF Concurrencies
  <2>2. lv = Len(Levels) + 1
    BY <1>2 DEF IInv, Behind
  <2>3. wall[c] = {p}
    BY <1>2, <2>1, <2>2, Constants DEF Timed, Positions
  <2>4. \A k \in Group(c) : results[k].position = p
    <3>1. \A k \in DOMAIN results : results[k].position \in Positions
      <4>1. results \in Seq(Row)
        BY <1>2 DEF TypeOK, Row
      <4>2. \A k \in DOMAIN results : results[k] \in Row
        BY <4>1
      <4>3. QED  BY <4>2 DEF Row
    <3>2. QED  BY <1>2, <2>1, <3>1 DEF Group, Timed, Distinct
  <2>5. \E k \in Group(c) : results[k].position = p
    <3>1. SameCasesAtEveryLevel
      BY <1>2, SameCases
    <3>2. 0 \in 0..(Cases - 1) /\ 0 < PerLevel
      BY Constants
    <3>3. PICK k \in DOMAIN results : results[k].position = p /\ results[k].case = 0
      BY <3>1, <3>2 DEF SameCasesAtEveryLevel
    <3>4. QED  BY <1>2, <2>1, <3>3 DEF Group, Timed
  <2>6. QED  BY <2>3, <2>4, <2>5 DEF MeasuredAt
<1>3. IInv /\ TypeOK /\ Timed /\ [Next]_vars => Timed'
  BY TimedStep
<1>4. QED  BY <1>1, <1>2, <1>3, Invariance, TypeCorrect, PTL DEF Spec
=============================================================================
