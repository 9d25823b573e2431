----------------------------- MODULE B029Proofs -------------------------------
(***************************************************************************)
(* Theorems about B029Run for any runs, directories, cases and answers.    *)
(* The argument: a directory only ever receives the files of one run, all  *)
(* of them, while it is empty; and what a run knows of its report is what  *)
(* the comparison made of its answer.                                      *)
(***************************************************************************)
EXTENDS B029Run, FiniteSetTheorems, TLAPS

Places == {"reading", "asking", "embedding", "publishing", "writing", "renamed",
           "cleaning", "published", "failed", "killed"}

Types ==
    /\ pc \in [Runs -> Places]
    /\ target \in [Runs -> Outputs]
    /\ answer \in [Runs -> Answers \cup {NoAnswer}]
    /\ DOMAIN report = Runs /\ hasTemp \in [Runs -> BOOLEAN]
    /\ DOMAIN content = Outputs /\ case \in Cases /\ layout \in Layouts

\* A directory that holds something holds the whole report of a run that got as
\* far as its rename; one that got there unhurt finds its report in place.
Placed ==
    /\ \A d \in Outputs : content[d] # {} =>
          \E r \in Runs : /\ target[r] = d /\ content[d] = FilesOf(r)
                          /\ pc[r] \in {"renamed", "published", "killed"}
    /\ \A r \in Runs : pc[r] \in {"renamed", "published"} => content[target[r]] = FilesOf(r)

\* A temporary directory belongs to a run that writes or cleans, or was killed.
TempByPlace == \A r \in Runs : hasTemp[r] => pc[r] \in {"writing", "cleaning", "killed"}

\* What run r reports is what the comparison made of the answer it still knows.
Reported(r) ==
    LET comparison == CompareRecords(Normalized(answer[r]))
    IN  /\ report[r].status = comparison.status
        /\ report[r].missing = comparison.missing
        /\ report[r].passed = Passes(comparison)

Shown(r) == \E d \in Outputs : content[d] = FilesOf(r)

\* So it is from the evaluation to the end, and as long as the report is there.
Evaluated ==
    \A r \in Runs :
        pc[r] \in {"publishing", "writing", "renamed", "published"} \/ Shown(r) => Reported(r)

\* The inductive invariant.
IInv == Types /\ Placed /\ TempByPlace /\ Evaluated

-----------------------------------------------------------------------------
(* The files of two runs have nothing in common.                           *)

LEMMA FilesAreDistinct ==
    ASSUME NEW q \in Runs, NEW r \in Runs
    PROVE  /\ FilesOf(r) # {}
           /\ FilesOf(q) \cap FilesOf(r) # {} => q = r
<1>1. "result.json" \in Files
  BY DEF Files, FILES
<1>2. <<"result.json", r>> \in FilesOf(r)
  BY <1>1 DEF FilesOf
<1>3. ASSUME NEW x \in FilesOf(q) \cap FilesOf(r) PROVE q = r
  <2>1. PICK f \in Files : x = <<f, q>>
    BY <1>3 DEF FilesOf
  <2>2. PICK g \in Files : x = <<g, r>>
    BY <1>3 DEF FilesOf
  <2>3. QED  BY <2>1, <2>2
<1>4. QED  BY <1>2, <1>3

\* Only a comparison without differences is a match.
LEMMA MatchMeansEqual ==
    ASSUME NEW x, CompareRecords(Normalized(x)).status = "match"
    PROVE  \A f \in Fields : x[f] \in {"same", "respelled"}
<1> SUFFICES ASSUME NEW f \in Fields PROVE x[f] \in {"same", "respelled"}
  OBVIOUS
<1> DEFINE n == Normalized(x)
<1>1. ReviewFields(n) = {} /\ Differences(n) = {}
  BY DEF CompareRecords
<1>2. n[f] # "null" /\ Normalize(n[f]) = "same"
  BY <1>1 DEF ReviewFields, Differences, Unreadable
<1>3. n[f] = x[f]
  BY <1>2 DEF Normalized, UsableFieldValue
<1>4. QED  BY <1>2, <1>3 DEF Normalize
-----------------------------------------------------------------------------
(* The steps of a run, seen by what they do to its place and to the        *)
(* directories.                                                            *)

\* Run r moves to a place where it has nothing published, or to the end.
Moves(r, to) == pc' = [pc EXCEPT ![r] = to] /\ UNCHANGED <<target, content>>

Early == {"reading", "asking", "embedding", "publishing", "writing", "cleaning"}

\* Every step of the system is one of these.
LEMMA StepKinds ==
    ASSUME IInv, [Next]_vars
    PROVE  \/ UNCHANGED <<pc, target, content>>
           \/ \E r \in Runs, to \in Early \cup {"failed", "killed"} :
                 pc[r] \in Early /\ Moves(r, to)
           \/ \E r \in Runs, to \in {"published", "killed"} :
                 pc[r] = "renamed" /\ Moves(r, to)
           \/ \E r \in Runs : /\ pc[r] = "writing" /\ pc' = [pc EXCEPT ![r] = "renamed"]
                              /\ content[target[r]] = {} /\ UNCHANGED target
                              /\ content' = [content EXCEPT ![target[r]] = FilesOf(r)]
<1>1. ASSUME NEW r \in Runs, Step(r)
      PROVE  \/ UNCHANGED <<pc, target, content>>
             \/ \E to \in Early \cup {"failed", "killed"} : pc[r] \in Early /\ Moves(r, to)
             \/ \E to \in {"published", "killed"} : pc[r] = "renamed" /\ Moves(r, to)
             \/ /\ pc[r] = "writing" /\ pc' = [pc EXCEPT ![r] = "renamed"]
                /\ content[target[r]] = {} /\ UNCHANGED target
                /\ content' = [content EXCEPT ![target[r]] = FilesOf(r)]
  <2>1. CASE ReadCase(r)
    BY <2>1 DEF ReadCase, RefuseArguments, RefuseCase, RefuseDocument, Go, Moves, Early,
                Known, Given, Disk
  <2>2. CASE Extract(r) \/ Embed(r) \/ VisionUnusable(r)
    BY <2>2 DEF Extract, Embed, VisionUnusable, Go, Moves, Early, Known, Given, Disk
  <2>3. CASE GatewayFails(r)
    BY <2>3 DEF GatewayFails, RefuseVectors, Go, Moves, Early, Given, Disk
  <2>4. CASE Prepare(r)
    BY <2>4 DEF Prepare, Go, Moves, Early, Given
  <2>5. CASE WriteFile(r) \/ WriteFails(r)
    BY <2>5 DEF WriteFile, WriteFails, Go, Moves, Early, Given, Disk
  <2>6. CASE Rename(r)
    <3>1. CASE content[target[r]] = {}
      BY <2>6, <3>1 DEF Rename, Publish, Go, Given, FilesOf
    <3>2. CASE content[target[r]] # {}
      BY <2>6, <3>2 DEF Rename, Go, Moves, Early, Given, Disk
    <3>3. QED  BY <3>1, <3>2
  <2>7. CASE Finish(r)
    BY <2>7 DEF Finish, Go, Moves, Early, Given
  <2>8. QED  BY <1>1, <2>1, <2>2, <2>3, <2>4, <2>5, <2>6, <2>7 DEF Step
<1>2. ASSUME NEW r \in Runs, Kill(r)
      PROVE  \E to \in {"killed"} : (pc[r] \in Early \/ pc[r] = "renamed") /\ Moves(r, to)
  BY <1>2 DEF Kill, Working, Early, Moves, Given, Disk
<1>3. CASE (\E d \in Outputs : MakeOutput(d)) \/ WriteFixtures \/ Done \/ UNCHANGED vars
  BY <1>3 DEF MakeOutput, WriteFixtures, Done, vars, Given, Disk
<1>4. QED  BY <1>1, <1>2, <1>3 DEF Next
-----------------------------------------------------------------------------
\* Before the first step nothing is known or published.
LEMMA InitInv == Init => IInv
<1> SUFFICES ASSUME Init PROVE IInv
  OBVIOUS
<1>1. Types
  BY DEF Init, FixturesInit, Types, Places
<1>2. Placed /\ TempByPlace
  BY DEF Init, Placed, TempByPlace
<1>3. Evaluated
  BY FilesAreDistinct DEF Init, Evaluated, Shown
<1>4. QED  BY <1>1, <1>2, <1>3 DEF IInv

-----------------------------------------------------------------------------
(* One conjunct after the other.                                           *)

LEMMA PlacesStep ==
    ASSUME IInv, [Next]_vars
    PROVE  /\ pc' \in [Runs -> Places] /\ target' \in [Runs -> Outputs]
           /\ DOMAIN content' = Outputs
<1>1. pc \in [Runs -> Places] /\ target \in [Runs -> Outputs] /\ DOMAIN content = Outputs
  BY DEF IInv, Types
<1>2. QED  BY <1>1, StepKinds DEF Moves, Early, Places

\* A report appears in a directory that was empty, and nowhere else.
LEMMA PlacedStep == IInv /\ [Next]_vars => Placed'
<1> SUFFICES ASSUME IInv, [Next]_vars PROVE Placed'
  OBVIOUS
<1>1. pc \in [Runs -> Places] /\ target \in [Runs -> Outputs] /\ DOMAIN content = Outputs
  BY DEF IInv, Types
<1>2. Placed
  BY DEF IInv
<1>3. CASE UNCHANGED <<pc, target, content>>
  BY <1>2, <1>3 DEF Placed
<1>4. CASE \E r \in Runs, to \in Early \cup {"failed", "killed"} : pc[r] \in Early /\ Moves(r, to)
  BY <1>1, <1>2, <1>4 DEF Placed, Moves, Early
<1>5. CASE \E r \in Runs, to \in {"published", "killed"} : pc[r] = "renamed" /\ Moves(r, to)
  BY <1>1, <1>2, <1>5 DEF Placed, Moves
<1>6. ASSUME NEW r \in Runs, pc[r] = "writing", pc' = [pc EXCEPT ![r] = "renamed"],
             content[target[r]] = {}, UNCHANGED target,
             content' = [content EXCEPT ![target[r]] = FilesOf(r)]
      PROVE  Placed'
  <2>1. ASSUME NEW d \in Outputs, content'[d] # {}
        PROVE  \E q \in Runs : /\ target'[q] = d /\ content'[d] = FilesOf(q)
                              /\ pc'[q] \in {"renamed", "published", "killed"}
    <3>1. CASE d = target[r]
      BY <1>1, <1>6, <3>1
    <3>2. CASE d # target[r]
      <4>1. content'[d] = content[d]
        BY <1>1, <1>6, <3>2
      <4>2. PICK q \in Runs : /\ target[q] = d /\ content[d] = FilesOf(q)
                              /\ pc[q] \in {"renamed", "published", "killed"}
        BY <1>2, <2>1, <4>1 DEF Placed
      <4>3. QED  BY <1>1, <1>6, <4>1, <4>2
    <3>3. QED  BY <3>1, <3>2
  <2>2. ASSUME NEW q \in Runs, pc'[q] \in {"renamed", "published"}
        PROVE  content'[target'[q]] = FilesOf(q)
    <3>1. CASE q = r
      BY <1>1, <1>6, <3>1
    <3>2. CASE q # r
      <4>1. content[target[q]] = FilesOf(q)
        BY <1>1, <1>2, <1>6, <2>2, <3>2 DEF Placed
      <4>2. target[q] # target[r]
        BY <1>6, <4>1, FilesAreDistinct
      <4>3. QED  BY <1>1, <1>6, <4>1, <4>2
    <3>3. QED  BY <3>1, <3>2
  <2>3. QED  BY <2>1, <2>2 DEF Placed
<1>7. QED  BY <1>3, <1>4, <1>5, <1>6, StepKinds

\* The temporary directory is made by Prepare and gone with the rename or the
\* end of the command.
LEMMA TempStep == IInv /\ [Next]_vars => TempByPlace' /\ hasTemp' \in [Runs -> BOOLEAN]
<1> SUFFICES ASSUME IInv, [Next]_vars PROVE TempByPlace' /\ hasTemp' \in [Runs -> BOOLEAN]
  OBVIOUS
<1>1. pc \in [Runs -> Places] /\ hasTemp \in [Runs -> BOOLEAN] /\ TempByPlace
  BY DEF IInv, Types
<1> USE <1>1 DEF TempByPlace
<1>2. ASSUME NEW r \in Runs, Step(r) PROVE TempByPlace' /\ hasTemp' \in [Runs -> BOOLEAN]
  <2>1. CASE ReadCase(r)
    BY <2>1 DEF ReadCase, RefuseArguments, RefuseCase, RefuseDocument, Go, Disk
  <2>2. CASE Extract(r) \/ Embed(r) \/ VisionUnusable(r)
    BY <2>2 DEF Extract, Embed, VisionUnusable, Go, Disk
  <2>3. CASE GatewayFails(r)
    BY <2>3 DEF GatewayFails, RefuseVectors, Go, Disk
  <2>4. CASE Prepare(r)
    BY <2>4 DEF Prepare, Go
  <2>5. CASE WriteFile(r) \/ WriteFails(r)
    BY <2>5 DEF WriteFile, WriteFails, Go, Disk
  <2>6. CASE Rename(r)
    BY <2>6 DEF Rename, Publish, Go, Disk
  <2>7. CASE Finish(r)
    BY <2>7 DEF Finish, Go
  <2>8. QED  BY <1>2, <2>1, <2>2, <2>3, <2>4, <2>5, <2>6, <2>7 DEF Step
<1>3. ASSUME NEW r \in Runs, Kill(r) PROVE TempByPlace' /\ hasTemp' \in [Runs -> BOOLEAN]
  BY <1>3 DEF Kill, Disk
<1>4. CASE (\E d \in Outputs : MakeOutput(d)) \/ WriteFixtures \/ Done \/ UNCHANGED vars
  BY <1>4 DEF MakeOutput, WriteFixtures, Done, vars, Disk
<1>5. QED  BY <1>2, <1>3, <1>4 DEF Next

\* Only runs that got as far as the rename have their files in a directory.
LEMMA ShownIsRenamed ==
    ASSUME IInv, NEW r \in Runs, Shown(r)
    PROVE  pc[r] \in {"renamed", "published", "killed"}
<1>1. PICK d \in Outputs : content[d] = FilesOf(r)
  BY DEF Shown
<1>2. PICK q \in Runs : content[d] = FilesOf(q) /\ pc[q] \in {"renamed", "published", "killed"}
  BY <1>1, FilesAreDistinct DEF IInv, Placed
<1>3. q = r
  BY <1>1, <1>2, FilesAreDistinct
<1>4. QED  BY <1>2, <1>3

\* Files appear only by the rename of the run that wrote them.
LEMMA ShownByRename ==
    ASSUME IInv, [Next]_vars, NEW r \in Runs, Shown(r)'
    PROVE  Shown(r) \/ (pc[r] = "writing" /\ pc'[r] = "renamed")
<1>1. pc \in [Runs -> Places] /\ target \in [Runs -> Outputs] /\ DOMAIN content = Outputs
  BY DEF IInv, Types
<1>2. PICK d \in Outputs : content'[d] = FilesOf(r)
  BY DEF Shown
<1>3. CASE UNCHANGED content
  BY <1>2, <1>3 DEF Shown
<1>4. ASSUME NEW q \in Runs, pc[q] = "writing", pc' = [pc EXCEPT ![q] = "renamed"],
             content' = [content EXCEPT ![target[q]] = FilesOf(q)]
      PROVE  Shown(r) \/ (pc[r] = "writing" /\ pc'[r] = "renamed")
  <2>1. CASE d = target[q]
    <3>1. content'[d] = FilesOf(q)
      BY <1>1, <1>4, <2>1
    <3>2. q = r
      BY <1>2, <3>1, FilesAreDistinct
    <3>3. QED  BY <1>1, <1>4, <3>2
  <2>2. CASE d # target[q]
    BY <1>1, <1>2, <1>4, <2>2 DEF Shown
  <2>3. QED  BY <2>1, <2>2
<1>5. QED  BY <1>3, <1>4, StepKinds DEF Moves

\* The case is chosen once.
LEMMA CaseStays == [Next]_vars => UNCHANGED <<layout, case>>
<1> SUFFICES ASSUME [Next]_vars PROVE UNCHANGED <<layout, case>>
  OBVIOUS
<1>1. ASSUME NEW r \in Runs, Step(r) \/ Kill(r) PROVE UNCHANGED <<layout, case>>
  BY <1>1 DEF Step, Kill, ReadCase, Extract, GatewayFails, VisionUnusable, Embed, Prepare,
              WriteFile, WriteFails, Rename, Finish, Given, fixtures
<1>2. CASE (\E d \in Outputs : MakeOutput(d)) \/ Done \/ UNCHANGED vars
  BY <1>2 DEF MakeOutput, Done, vars, Given, fixtures
<1>3. CASE WriteFixtures
  BY <1>3 DEF WriteFixtures, Generate, Open, Write
<1>4. QED  BY <1>1, <1>2, <1>3 DEF Next

\* A run that knows its report and keeps it, or has just evaluated; all others
\* are at a place where they have nothing to report.
Keeps(q) ==
    \/ /\ answer'[q] = answer[q] /\ report'[q] = report[q]
       /\ \/ pc'[q] = pc[q]
          \/ pc'[q] \notin {"publishing", "writing", "renamed", "published"}
          \/ pc[q] \in {"publishing", "writing", "renamed", "published"}
    \/ /\ pc[q] \in Early
       /\ pc'[q] \notin {"publishing", "writing", "renamed", "published"}
    \/ /\ pc[q] \in Early /\ answer'[q] = answer[q]
       /\ LET comparison == CompareRecords(Normalized(answer[q]))
          IN  /\ report'[q].status = comparison.status
              /\ report'[q].missing = comparison.missing
              /\ report'[q].passed = Passes(comparison)

LEMMA EachKeeps ==
    ASSUME IInv, [Next]_vars
    PROVE  /\ answer' \in [Runs -> Answers \cup {NoAnswer}] /\ DOMAIN report' = Runs
           /\ \A q \in Runs : Keeps(q)
<1> DEFINE Goal == /\ answer' \in [Runs -> Answers \cup {NoAnswer}] /\ DOMAIN report' = Runs
                   /\ \A q \in Runs : Keeps(q)
<1>1. /\ pc \in [Runs -> Places] /\ answer \in [Runs -> Answers \cup {NoAnswer}]
      /\ DOMAIN report = Runs
  BY DEF IInv, Types
<1> USE <1>1
<1>2. ASSUME NEW r \in Runs, Forget(r), pc[r] \in Early,
             pc' = [pc EXCEPT ![r] = "failed"] \/ pc' = [pc EXCEPT ![r] = "cleaning"]
                                             \/ pc' = [pc EXCEPT ![r] = "killed"]
      PROVE  Goal
  BY <1>2 DEF Forget, Keeps
<1>3. ASSUME NEW r \in Runs, Step(r) PROVE Goal
  <2>1. CASE ReadCase(r)
    BY <2>1 DEF ReadCase, RefuseArguments, RefuseCase, RefuseDocument, Go, Known, Keeps
  <2>2. CASE Extract(r)
    BY <2>2 DEF Extract, Go, Keeps, Early
  <2>3. CASE Embed(r)
    BY <2>3 DEF Embed, Go, Keeps, Early
  <2>4. CASE VisionUnusable(r)
    BY <2>4 DEF VisionUnusable, Go, Known, Keeps
  <2>5. CASE GatewayFails(r)
    BY <1>2, <2>5 DEF GatewayFails, RefuseVectors, Go, Early
  <2>6. CASE Prepare(r)
    <3>1. CASE Forget(r)
      BY <1>2, <2>6, <3>1 DEF Prepare, Go, Early, Known, Forget, Keeps
    <3>2. CASE UNCHANGED Known
      BY <2>6, <3>2 DEF Prepare, Go, Known, Keeps
    <3>3. QED  BY <2>6, <3>1, <3>2 DEF Prepare
  <2>7. CASE WriteFile(r)
    BY <2>7 DEF WriteFile, Known, Keeps
  <2>8. CASE WriteFails(r)
    BY <1>2, <2>8 DEF WriteFails, Go, Early
  <2>9. CASE Rename(r)
    <3>1. CASE content[target[r]] = {}
      BY <2>9, <3>1 DEF Rename, Publish, Go, Known, Keeps
    <3>2. CASE content[target[r]] # {}
      BY <1>2, <2>9, <3>2 DEF Rename, Go, Early
    <3>3. QED  BY <3>1, <3>2
  <2>10. CASE Finish(r)
    BY <2>10 DEF Finish, Go, Known, Keeps
  <2>11. QED  BY <1>3, <2>1, <2>2, <2>3, <2>4, <2>5, <2>6, <2>7, <2>8, <2>9, <2>10 DEF Step
<1>4. ASSUME NEW r \in Runs, Kill(r) PROVE Goal
  <2>1. CASE pc[r] = "renamed"
    BY <1>4, <2>1 DEF Kill, Known, Keeps
  <2>2. CASE pc[r] # "renamed"
    BY <1>2, <1>4, <2>2 DEF Kill, Working, Early
  <2>3. QED  BY <2>1, <2>2
<1>5. CASE (\E d \in Outputs : MakeOutput(d)) \/ WriteFixtures \/ Done \/ UNCHANGED vars
  BY <1>5 DEF MakeOutput, WriteFixtures, Done, vars, Known, Keeps
<1>6. QED  BY <1>3, <1>4, <1>5 DEF Next

\* A report is made from the answer, and the two are forgotten together.
LEMMA EvaluatedStep ==
    ASSUME IInv, [Next]_vars
    PROVE  Evaluated'
<1> SUFFICES ASSUME NEW r \in Runs,
                    pc'[r] \in {"publishing", "writing", "renamed", "published"} \/ Shown(r)'
             PROVE  Reported(r)'
  BY DEF Evaluated
<1>1. case' = case /\ layout' = layout
  BY CaseStays
<1>2. \A comparison : Passes(comparison)' = Passes(comparison)
  BY <1>1 DEF Passes, Expected
<1>3. Keeps(r)
  BY EachKeeps
<1>4. pc[r] \in Early => ~Shown(r)
  BY ShownIsRenamed DEF Early
<1>5. Shown(r)' => Shown(r) \/ (pc[r] = "writing" /\ pc'[r] = "renamed")
  BY ShownByRename
<1>6. Evaluated
  BY DEF IInv
<1>7. CASE Reported(r) /\ answer'[r] = answer[r] /\ report'[r] = report[r]
  BY <1>1, <1>7 DEF Reported, Passes, Expected
<1>8. CASE /\ answer'[r] = answer[r]
           /\ LET comparison == CompareRecords(Normalized(answer[r]))
              IN  /\ report'[r].status = comparison.status
                  /\ report'[r].missing = comparison.missing
                  /\ report'[r].passed = Passes(comparison)
  BY <1>1, <1>8 DEF Reported, Passes, Expected
<1>9. QED  BY <1>3, <1>4, <1>5, <1>6, <1>7, <1>8 DEF Keeps, Evaluated

LEMMA InvStep == IInv /\ [Next]_vars => IInv'
<1> SUFFICES ASSUME IInv, [Next]_vars PROVE IInv'
  OBVIOUS
<1>1. case' \in Cases /\ layout' \in Layouts
  BY CaseStays DEF IInv, Types
<1>2. QED  BY <1>1, PlacesStep, PlacedStep, TempStep, EachKeeps, EvaluatedStep DEF IInv, Types

LEMMA Invariance == Spec => []IInv
<1>1. QED  BY InitInv, InvStep, PTL DEF Spec

-----------------------------------------------------------------------------
\* The exit status of `poc b029 run` tells whether this run's report is in
\* place, for any number of runs and directories.
THEOREM ExitStatusIsTrue == Spec => []ExitTellsTheTruth
<1>1. ASSUME IInv PROVE ExitTellsTheTruth
  <2>1. /\ pc \in [Runs -> Places] /\ hasTemp \in [Runs -> BOOLEAN] /\ TempByPlace /\ Placed
    BY <1>1 DEF IInv, Types
  <2>2. ASSUME NEW r \in Runs, pc[r] = "published" PROVE Published(r)
    BY <2>1, <2>2 DEF Placed, Published
  <2>3. ASSUME NEW r \in Runs, pc[r] = "failed" PROVE ~hasTemp[r]
    BY <2>1, <2>3 DEF TempByPlace
  <2>4. ASSUME NEW r \in Runs, pc[r] = "failed", NEW d \in Outputs
        PROVE  content[d] \cap FilesOf(r) = {}
    <3>1. CASE content[d] # {}
      <4>1. PICK q \in Runs : content[d] = FilesOf(q)
                              /\ pc[q] \in {"renamed", "published", "killed"}
        BY <2>1, <3>1 DEF Placed
      <4>2. q # r
        BY <2>4, <4>1
      <4>3. QED  BY <4>1, <4>2, FilesAreDistinct
    <3>2. QED  BY <3>1
  <2>5. QED  BY <2>2, <2>3, <2>4 DEF ExitTellsTheTruth
<1>2. QED  BY <1>1, Invariance, PTL

-----------------------------------------------------------------------------
(* The evaluation.                                                         *)

Elements(s) == {s[i] : i \in DOMAIN s}

LEMMA ElementsOfConcatenation ==
    ASSUME NEW s \in Seq(Fields), NEW t \in Seq(Fields)
    PROVE  s \o t \in Seq(Fields) /\ Elements(s \o t) = Elements(s) \cup Elements(t)
<1>1. s \o t \in Seq(Fields)
  OBVIOUS
<1>2. /\ DOMAIN s = 1..Len(s) /\ DOMAIN t = 1..Len(t) /\ Len(s) \in Nat /\ Len(t) \in Nat
      /\ DOMAIN (s \o t) = 1..(Len(s) + Len(t))
  OBVIOUS
<1>3. ASSUME NEW i \in DOMAIN (s \o t) PROVE (s \o t)[i] \in Elements(s) \cup Elements(t)
  <2>1. CASE i <= Len(s)
    <3>1. i \in DOMAIN s /\ (s \o t)[i] = s[i]
      BY <1>2, <2>1
    <3>2. QED  BY <3>1 DEF Elements
  <2>2. CASE i > Len(s)
    <3>1. i - Len(s) \in DOMAIN t /\ (s \o t)[i] = t[i - Len(s)]
      BY <1>2, <2>2
    <3>2. QED  BY <3>1 DEF Elements
  <2>3. QED  BY <1>2, <2>1, <2>2
<1>4. ASSUME NEW i \in DOMAIN s PROVE s[i] \in Elements(s \o t)
  <2>1. i \in DOMAIN (s \o t) /\ (s \o t)[i] = s[i]
    BY <1>2
  <2>2. QED  BY <2>1 DEF Elements
<1>5. ASSUME NEW i \in DOMAIN t PROVE t[i] \in Elements(s \o t)
  <2>1. Len(s) + i \in DOMAIN (s \o t) /\ (s \o t)[Len(s) + i] = t[i]
    BY <1>2
  <2>2. QED  BY <2>1 DEF Elements
<1>6. QED  BY <1>1, <1>3, <1>4, <1>5 DEF Elements

\* The fields in their order are those of the set.
LEMMA OrderKeepsFields ==
    ASSUME NEW S \in SUBSET Fields
    PROVE  Elements(InOrder(FIELD_ORDER, S)) = S
<1> DEFINE F(i) == FIELD_ORDER[i]
<1>1. Fields = {F(1), F(2), F(3), F(4), F(5), F(6)}
  BY DEF Fields, FIELD_ORDER
<1>2. ASSUME NEW i \in 1..6
      PROVE  Pick(FIELD_ORDER, i, S) \in Seq(Fields) /\ Elements(Pick(FIELD_ORDER, i, S)) = S \cap {F(i)}
  <2>1. F(i) \in Fields
    BY <1>1
  <2>2. <<F(i)>> \in Seq(Fields) /\ Elements(<<F(i)>>) = {F(i)}
    BY <2>1 DEF Elements
  <2>3. <<>> \in Seq(Fields) /\ Elements(<<>>) = {}
    BY DEF Elements
  <2>4. QED  BY <2>2, <2>3 DEF Pick
<1> DEFINE s2 == Pick(FIELD_ORDER, 1, S) \o Pick(FIELD_ORDER, 2, S)
           s3 == s2 \o Pick(FIELD_ORDER, 3, S)
           s4 == s3 \o Pick(FIELD_ORDER, 4, S)
           s5 == s4 \o Pick(FIELD_ORDER, 5, S)
           s6 == s5 \o Pick(FIELD_ORDER, 6, S)
<1>3. InOrder(FIELD_ORDER, S) = s6
  BY DEF InOrder
<1> HIDE DEF F, s2, s3, s4, s5, s6
<1>4. s2 \in Seq(Fields) /\ Elements(s2) = S \cap {F(1), F(2)}
  BY <1>2, ElementsOfConcatenation DEF s2
<1>5. s3 \in Seq(Fields) /\ Elements(s3) = S \cap {F(1), F(2), F(3)}
  BY <1>2, <1>4, ElementsOfConcatenation DEF s3
<1>6. s4 \in Seq(Fields) /\ Elements(s4) = S \cap {F(1), F(2), F(3), F(4)}
  BY <1>2, <1>5, ElementsOfConcatenation DEF s4
<1>7. s5 \in Seq(Fields) /\ Elements(s5) = S \cap {F(1), F(2), F(3), F(4), F(5)}
  BY <1>2, <1>6, ElementsOfConcatenation DEF s5
<1>8. s6 \in Seq(Fields) /\ Elements(s6) = S \cap {F(1), F(2), F(3), F(4), F(5), F(6)}
  BY <1>2, <1>7, ElementsOfConcatenation DEF s6
<1>9. QED  BY <1>1, <1>3, <1>8

\* A comparison asks for a review exactly if a field could not be read, and
\* names those that could not.
LEMMA ReviewNamesTheUnread ==
    ASSUME NEW x
    PROVE  LET comparison == CompareRecords(Normalized(x))
               unread == {f \in Fields : x[f] \in Unreadable}
           IN  /\ comparison.status = "needs_human_review" <=> unread # {}
               /\ Elements(comparison.missing) = unread
<1> DEFINE n == Normalized(x)
           unread == {f \in Fields : x[f] \in Unreadable}
<1>1. \A f \in Fields : n[f] = IF x[f] \in Unreadable THEN "null" ELSE x[f]
  BY DEF Normalized, UsableFieldValue
<1>2. ReviewFields(n) = unread
  BY <1>1 DEF ReviewFields, Unreadable
<1>3. Elements(InOrder(FIELD_ORDER, unread)) = unread
  BY OrderKeepsFields
<1>4. Elements(<<>>) = {}
  BY DEF Elements
<1> HIDE DEF n, unread
<1>5. CASE unread # {}
  <2>1. /\ CompareRecords(n).status = "needs_human_review"
        /\ CompareRecords(n).missing = InOrder(FIELD_ORDER, unread)
    BY <1>2, <1>5 DEF CompareRecords
  <2>2. QED  BY <1>3, <1>5, <2>1 DEF n, unread
<1>6. CASE unread = {}
  <2>1. /\ CompareRecords(n).status \in {"match", "mismatch"}
        /\ CompareRecords(n).missing = <<>>
    BY <1>2, <1>6 DEF CompareRecords
  <2>2. QED  BY <1>4, <1>6, <2>1 DEF n, unread
<1>7. QED  BY <1>5, <1>6

\* Whatever Vision answers, a published report asks for a review exactly if a
\* field could not be read, names those fields, and is a match only if all
\* fields were read and equal Kintone's.
THEOREM MatchesAreRead == Spec => []UnreadIsNeverMatch
<1>1. ASSUME IInv, NEW r \in Runs, Published(r) PROVE Reported(r)
  BY <1>1 DEF IInv, Types, Evaluated, Shown, Published
<1>2. ASSUME IInv, NEW r \in Runs, Published(r)
      PROVE  LET unread == {f \in Fields : answer[r][f] \in Unreadable}
             IN  /\ report[r].status = "needs_human_review" <=> unread # {}
                 /\ Elements(report[r].missing) = unread
                 /\ report[r].status = "match" =>
                       \A f \in Fields : answer[r][f] \in {"same", "respelled"}
  <2>1. Reported(r)
    BY <1>1, <1>2
  <2>2. QED  BY <2>1, MatchMeansEqual, ReviewNamesTheUnread DEF Reported
<1>3. ASSUME IInv PROVE UnreadIsNeverMatch
  BY <1>2, <1>3 DEF UnreadIsNeverMatch, Elements
<1>4. QED  BY <1>3, Invariance, PTL

\* The two generators list the fields as the comparison does.
LEMMA OneOrder ==
    ASSUME layout \in Layouts
    PROVE  ExpectedOrder[layout] = FIELD_ORDER
<1>1. ExpectedOrder["cli"] = FIELD_ORDER /\ ExpectedOrder["tool"] = AsDict
  BY DEF ExpectedOrder
<1>2. AsDict = FIELD_ORDER
  BY DEF AsDict, FIELD_ORDER
<1>3. QED  BY <1>1, <1>2 DEF Layouts

\* A comparison passes exactly if every field was read and those that differ
\* are those of the case.
LEMMA PassingIsFair ==
    ASSUME NEW x, case \subseteq Fields, layout \in Layouts
    PROVE  Passes(CompareRecords(Normalized(x))) <=>
               /\ {f \in Fields : x[f] \notin {"same", "respelled"}} = case
               /\ \A f \in case : x[f] \notin Unreadable
<1> DEFINE n == Normalized(x)
           Wrong == {f \in Fields : x[f] \notin {"same", "respelled"}}
<1>1. \A f \in Fields : n[f] = IF x[f] \in Unreadable THEN "null" ELSE x[f]
  BY DEF Normalized, UsableFieldValue
<1>2. Differences(n) = Wrong
  BY <1>1 DEF Differences, Normalize, Unreadable
<1>3. ASSUME NEW f \in ReviewFields(n) PROVE f \in Wrong /\ x[f] \in Unreadable
  BY <1>1, <1>3 DEF ReviewFields, Unreadable
<1>4. ASSUME NEW f \in Fields, x[f] \in Unreadable PROVE f \in ReviewFields(n)
  BY <1>1, <1>4 DEF ReviewFields, Unreadable
<1>5. CASE ReviewFields(n) # {}
  <2>1. ~Passes(CompareRecords(n))
    BY <1>5 DEF CompareRecords, Passes, Expected
  <2>2. QED  BY <1>3, <1>5, <2>1
<1>6. CASE ReviewFields(n) = {}
  <2>1. CompareRecords(n) = [status |-> IF Wrong # {} THEN "mismatch" ELSE "match",
                             differences |-> InOrder(FIELD_ORDER, Wrong), missing |-> <<>>]
    BY <1>2, <1>6 DEF CompareRecords
  <2>2. InOrder(FIELD_ORDER, Wrong) = InOrder(FIELD_ORDER, case) => Wrong = case
    BY OrderKeepsFields
  <2>3. Passes(CompareRecords(n)) <=> Wrong = case
    <3> HIDE DEF n, Wrong
    <3>1. /\ CompareRecords(n).status = IF Wrong # {} THEN "mismatch" ELSE "match"
          /\ CompareRecords(n).differences = InOrder(FIELD_ORDER, Wrong)
      BY <2>1
    <3>2. /\ Expected.status = IF case = {} THEN "match" ELSE "mismatch"
          /\ Expected.differences = InOrder(FIELD_ORDER, case)
      BY OneOrder DEF Expected
    <3>3. QED  BY <2>2, <3>1, <3>2 DEF Passes
  <2>4. QED  BY <1>4, <1>6, <2>3
<1>7. QED  BY <1>5, <1>6

\* Whatever Vision answers and whatever the case expects: a published
\* evaluation passes exactly if the fields that Vision read otherwise than
\* Kintone has them are those of the case, and it could read them.
THEOREM EvaluationsAreFair == Spec => []EvaluationIsFair
<1>1. ASSUME IInv PROVE EvaluationIsFair
  <2>1. case \subseteq Fields /\ layout \in Layouts
    BY <1>1, FixtureAssumption DEF IInv, Types
  <2>2. ASSUME NEW r \in Runs, Published(r) PROVE Reported(r)
    BY <1>1, <2>2 DEF IInv, Types, Evaluated, Shown, Published
  <2>3. QED  BY <2>1, <2>2, PassingIsFair DEF Reported, EvaluationIsFair, Misread
<1>2. QED  BY <1>1, Invariance, PTL

-----------------------------------------------------------------------------
(* Refinement: from outside, an output directory is a place that somebody  *)
(* writes once.                                                            *)

\* What the mapping makes of a directory that holds nothing, or one report.
LEMMA Seen ==
    ASSUME NEW d \in Outputs
    PROVE  /\ content[d] = {} => ReportIn(d) = "nobody"
           /\ \A r \in Runs : content[d] = FilesOf(r) => ReportIn(d) = r
<1>1. content[d] = {} => \A r \in Runs : content[d] # FilesOf(r)
  BY FilesAreDistinct
<1>2. content[d] = {} => ReportIn(d) = "nobody"
  BY <1>1 DEF ReportIn
<1>3. ASSUME NEW r \in Runs, content[d] = FilesOf(r) PROVE ReportIn(d) = r
  <2>1. content[d] # {}
    BY <1>3, <1>1
  <2>2. ReportIn(d) = CHOOSE q \in Runs : content[d] = FilesOf(q)
    BY <1>3, <2>1 DEF ReportIn
  <2>3. \A q \in Runs : content[d] = FilesOf(q) => q = r
    BY <1>3, FilesAreDistinct
  <2>4. QED  BY <1>3, <2>2, <2>3
<1>4. QED  BY <1>2, <1>3

LEMMA SeenAfter ==
    ASSUME NEW d \in Outputs
    PROVE  \A r \in Runs : content'[d] = FilesOf(r) => ReportIn(d)' = r
<1>1. ASSUME NEW r \in Runs, content'[d] = FilesOf(r) PROVE ReportIn(d)' = r
  <2>1. content'[d] # {}
    BY <1>1, FilesAreDistinct
  <2>2. ReportIn(d)' = CHOOSE q \in Runs : content'[d] = FilesOf(q)
    BY <1>1, <2>1 DEF ReportIn, FilesOf
  <2>3. \A q \in Runs : content'[d] = FilesOf(q) => q = r
    BY <1>1, FilesAreDistinct
  <2>4. QED  BY <1>1, <2>2, <2>3
<1>2. QED  BY <1>1

\* A run of the command does to its directory what WriteOnce allows: for any
\* runs and directories, a report appears whole, in one step, and stays.
THEOREM RunsWriteOnce == Spec => ImplementsWriteOnce
<1> DEFINE by == [d \in Outputs |-> ReportIn(d)]
<1>1. Init => Once!Init
  <2> SUFFICES ASSUME Init PROVE by = [d \in Outputs |-> "nobody"]
    BY DEF Once!Init
  <2>1. \A d \in Outputs : content[d] = {}
    BY DEF Init
  <2>2. QED  BY <2>1, Seen
<1>2. IInv /\ [Next]_vars => [Once!Next]_by
  <2> SUFFICES ASSUME IInv, [Next]_vars PROVE Once!Next \/ by' = by
    OBVIOUS
  <2>1. CASE UNCHANGED content
    BY <2>1 DEF ReportIn, FilesOf
  <2>2. ASSUME NEW r \in Runs, NEW d \in Outputs, content[d] = {},
               content' = [content EXCEPT ![d] = FilesOf(r)]
        PROVE  Once!Next
    <3>1. DOMAIN content = Outputs
      BY DEF IInv, Types
    <3>2. by[d] = "nobody"
      BY <2>2, Seen
    <3>3. ReportIn(d)' = r
      BY <2>2, <3>1, SeenAfter
    <3>4. ASSUME NEW e \in Outputs, e # d PROVE ReportIn(e)' = ReportIn(e)
      BY <2>2, <3>1, <3>4 DEF ReportIn, FilesOf
    <3>5. by' = [by EXCEPT ![d] = r]
      BY <3>3, <3>4
    <3>6. QED  BY <3>2, <3>5 DEF Once!Next, Once!Publish
  <2>3. CASE \E r \in Runs : /\ content[target[r]] = {}
                             /\ content' = [content EXCEPT ![target[r]] = FilesOf(r)]
    BY <2>2, <2>3 DEF IInv, Types
  <2>4. QED  BY <2>1, <2>3, StepKinds DEF Moves
<1>3. QED  BY <1>1, <1>2, Invariance, PTL DEF ImplementsWriteOnce, Once!Spec, Spec

-----------------------------------------------------------------------------
(* The order in which the generators write.                                *)

FixInv == FixturesTypeOK /\ torndoc = [r \in Runs |-> FALSE]

LEMMA Layout ==
    /\ Len(Order["cli"]) = 2 /\ Order["cli"][1] = "png" /\ Order["cli"][2] = "case"
    /\ Len(Order["tool"]) = 7
    /\ Order["tool"][1] = "png" /\ Order["tool"][2] = "pdf" /\ Order["tool"][3] = "case"
    /\ Order["tool"][4] = "kintone-export" /\ Order["tool"][5] = "ground-truth"
    /\ Order["tool"][6] = "rules" /\ Order["tool"][7] = "SHA256SUMS"
<1>1. Order["cli"] = <<"png", "case">> \o <<>>
  BY DEF Order, Layouts, CaseFiles, SharedFiles
<1>2. Order["tool"] = <<"png", "pdf", "case">> \o
                      <<"kintone-export", "ground-truth", "rules", "SHA256SUMS">>
  BY DEF Order, Layouts, CaseFiles, SharedFiles
<1>3. QED  BY <1>1, <1>2

LEMMA Positions ==
    ASSUME FixturesTypeOK
    PROVE  /\ "case" \in Whole => \A kind \in {"png", "pdf"} : DocumentFor(kind) \in Whole
           /\ "SHA256SUMS" \in Whole => Whole = FixtureFiles
<1>1. written \in 0..Len(Order[layout])
  BY DEF FixturesTypeOK
<1>2. CASE layout = "cli"
  <2>1. written \in 0..2 /\ Order[layout][1] = "png" /\ Order[layout][2] = "case"
    BY <1>1, <1>2, Layout
  <2>2. Whole = {Order[layout][i] : i \in 1..written}
    BY DEF Whole
  <2>3. "case" \in Whole => written = 2
    BY <2>1, <2>2
  <2>4. written = 2 => "png" \in Whole
    BY <2>1, <2>2
  <2>5. "SHA256SUMS" \notin Whole
    BY <2>1, <2>2
  <2>6. QED  BY <1>2, <2>3, <2>4, <2>5 DEF DocumentFor
<1>3. CASE layout = "tool"
  <2> DEFINE files == Order[layout]
  <2>1. /\ written \in 0..7 /\ Len(files) = 7
        /\ files[1] = "png" /\ files[2] = "pdf" /\ files[3] = "case"
        /\ files[4] = "kintone-export" /\ files[5] = "ground-truth"
        /\ files[6] = "rules" /\ files[7] = "SHA256SUMS"
    BY <1>1, <1>3, Layout
  <2>2. DOMAIN files = 1..7
    BY <1>3, Layout DEF Order, Layouts, CaseFiles, SharedFiles
  <2> HIDE DEF files
  <2>3. Whole = {files[i] : i \in 1..written} /\ FixtureFiles = {files[i] : i \in 1..7}
    BY <2>2 DEF Whole, FixtureFiles, files
  <2>4. "case" \in Whole => written >= 3
    BY <2>1, <2>3
  <2>5. written >= 3 => "png" \in Whole /\ "pdf" \in Whole
    BY <2>1, <2>3
  <2>6. "SHA256SUMS" \in Whole => written = 7
    BY <2>1, <2>3
  <2>7. QED  BY <1>3, <2>3, <2>4, <2>5, <2>6 DEF DocumentFor
<1>4. QED  BY <1>2, <1>3 DEF FixturesTypeOK, Layouts

LEMMA FixStep == FixInv /\ [Next]_vars => FixInv'
<1> SUFFICES ASSUME FixInv, [Next]_vars PROVE FixInv'
  OBVIOUS
<1>1. FixturesTypeOK /\ torndoc = [r \in Runs |-> FALSE]
  BY DEF FixInv
<1>2. CASE UNCHANGED <<fixtures, torndoc>>
  BY <1>1, <1>2 DEF FixInv, FixturesTypeOK, fixtures
<1>3. ASSUME NEW r \in Runs, ReadCase(r) PROVE FixInv'
  <2>1. UNCHANGED fixtures
    BY <1>3 DEF ReadCase, Given
  <2>2. ASSUME NEW kind \in {"png", "pdf"}, CaseReadable(kind),
               torndoc' = [torndoc EXCEPT ![r] = DocumentFor(kind) \notin Whole]
        PROVE  UNCHANGED torndoc
    <3>1. DocumentFor(kind) \in Whole
      BY <1>1, <2>2, Positions DEF CaseReadable
    <3>2. QED  BY <1>1, <2>2, <3>1
  <2>3. UNCHANGED torndoc
    BY <1>3, <2>2 DEF ReadCase, RefuseArguments, RefuseCase, RefuseDocument
  <2>4. QED  BY <1>2, <2>1, <2>3
<1>4. CASE WriteFixtures
  <2>1. UNCHANGED <<torndoc, layout, case>>
    BY <1>4 DEF WriteFixtures, Generate, Open, Write
  <2>2. FixturesTypeOK'
    <3>1. Order' = Order
      BY DEF Order, CaseFiles, SharedFiles, Layouts
    <3>2. Len(Order[layout]) \in Nat
      BY <1>1, Layout DEF FixturesTypeOK, Layouts
    <3>3. written \in 0..Len(Order[layout]) /\ (torn => written < Len(Order[layout]))
      BY <1>1 DEF FixturesTypeOK
    <3>4. CASE Open
      BY <1>1, <2>1, <3>1, <3>3, <3>4 DEF Open, FixturesTypeOK
    <3>5. CASE Write
      <4>1. written < Len(Order[layout]) /\ torn' = FALSE /\ written' = written + 1
        BY <3>3, <3>5 DEF Write
      <4>2. written' \in 0..Len(Order[layout])
        BY <3>2, <3>3, <4>1
      <4>3. ~torn' /\ torn' \in BOOLEAN
        BY <4>1
      <4>4. QED  BY <1>1, <2>1, <3>1, <4>2, <4>3 DEF FixturesTypeOK
    <3>6. QED  BY <1>4, <3>4, <3>5 DEF WriteFixtures, Generate
  <2>3. QED  BY <1>1, <2>1, <2>2 DEF FixInv
<1>5. ASSUME NEW r \in Runs, Step(r) \/ Kill(r), ~ReadCase(r) PROVE UNCHANGED <<fixtures, torndoc>>
  BY <1>5 DEF Step, Kill, Extract, GatewayFails, RefuseVectors, VisionUnusable, Embed, Prepare,
              WriteFile, WriteFails, Rename, Publish, Finish, Go, Given
<1>6. CASE (\E d \in Outputs : MakeOutput(d)) \/ Done \/ UNCHANGED vars
  BY <1>2, <1>6 DEF MakeOutput, Done, vars, Given, fixtures
<1>7. QED  BY <1>2, <1>3, <1>4, <1>5, <1>6 DEF Next

LEMMA FixInvariance == Spec => []FixInv
<1>1. Init => FixInv
  <2>1. Len(Order["cli"]) = 2 /\ Len(Order["tool"]) = 7
    BY Layout
  <2> SUFFICES ASSUME Init PROVE FixInv
    OBVIOUS
  <2>2. layout \in Layouts /\ case \in Cases /\ written = 0 /\ torn = FALSE
    BY DEF Init, FixturesInit
  <2>3. Len(Order[layout]) \in Nat
    BY <2>1, <2>2 DEF Layouts
  <2>4. written \in 0..Len(Order[layout])
    BY <2>2, <2>3
  <2>5. ~torn /\ torn \in BOOLEAN
    BY <2>2
  <2>6. FixturesTypeOK
    BY <2>2, <2>4, <2>5 DEF FixturesTypeOK
  <2>7. QED  BY <2>6 DEF Init, FixInv
<1>2. QED  BY <1>1, FixStep, PTL DEF Spec

\* A run that reads while a generator is at work, or that reads what a dead one
\* left, reads a whole document; the sums come last.
THEOREM FixturesReadWhole == Spec => []FixturesAreWholeWhenUsed
<1>1. FixInv => FixturesAreWholeWhenUsed
  BY Positions DEF FixInv, FixturesAreWholeWhenUsed
<1>2. QED  BY <1>1, FixInvariance, PTL

-----------------------------------------------------------------------------
(* Types.                                                                  *)

Statuses == {"none", "match", "mismatch", "needs_human_review"}

\* What TypeOK adds to the other invariants.
Values ==
    /\ broken \in [Runs -> BOOLEAN] /\ torndoc \in [Runs -> BOOLEAN]
    /\ \A r \in Runs : report[r].status \in Statuses
    /\ temp \in [Runs -> SUBSET Files] /\ exists \subseteq Outputs
    /\ content \in [Outputs -> SUBSET (Files \X Runs)]

\* The files are written one after the other.
LEMMA NextFile ==
    ASSUME NEW S \in SUBSET Files, S # Files
    PROVE  FILES[Cardinality(S) + 1] \in Files
<1>1. FILES[1] \in Files /\ FILES[2] \in Files /\ FILES[3] \in Files
      /\ DOMAIN FILES = 1..3 /\ Files = {FILES[1], FILES[2], FILES[3]}
  BY DEF FILES, Files
<1>2. FILES[1] # FILES[2] /\ FILES[1] # FILES[3] /\ FILES[2] # FILES[3]
  BY DEF FILES
<1> DEFINE a == FILES[1]  b == FILES[2]  c == FILES[3]
<1>3. a # b /\ c \notin {a, b} /\ Files = ({a} \cup {b}) \cup {c}
  BY <1>1, <1>2
<1> HIDE DEF a, b, c
<1>4. IsFiniteSet({a}) /\ Cardinality({a}) = 1
  BY FS_Singleton
<1>5. IsFiniteSet({a} \cup {b}) /\ Cardinality({a} \cup {b}) = 2
  BY <1>3, <1>4, FS_AddElement
<1>6. IsFiniteSet(Files) /\ Cardinality(Files) = 3
  BY <1>3, <1>5, FS_AddElement
<1>7. Cardinality(S) \in Nat /\ Cardinality(S) < 3
  BY <1>6, FS_Subset, FS_CardinalityType
<1>8. Cardinality(S) + 1 \in {1, 2, 3}
  BY <1>7
<1>9. QED  BY <1>1, <1>8

LEMMA ValuesStep == IInv /\ Values /\ [Next]_vars => Values'
<1> SUFFICES ASSUME IInv, Values, [Next]_vars PROVE Values'
  OBVIOUS
<1>1. DOMAIN report = Runs /\ target \in [Runs -> Outputs]
  BY DEF IInv, Types
<1>2. ASSUME NEW r \in Runs, Forget(r)
      PROVE  \A q \in Runs : report'[q].status \in Statuses
  BY <1>1, <1>2 DEF Forget, NoReport, Statuses, Values
<1>3. ASSUME NEW r \in Runs, Step(r) \/ Kill(r) PROVE Values'
  <2>1. CASE ReadCase(r)
    BY <2>1 DEF ReadCase, RefuseArguments, RefuseCase, RefuseDocument, Known, Disk, Values
  <2>2. CASE Extract(r)
    BY <2>2 DEF Extract, Disk, Values
  <2>3. CASE GatewayFails(r)
    BY <1>2, <2>3 DEF GatewayFails, Disk, Values
  <2>4. CASE VisionUnusable(r)
    BY <2>4 DEF VisionUnusable, Known, Disk, Values
  <2>5. CASE Embed(r)
    <3> DEFINE comparison == CompareRecords(Normalized(answer[r]))
    <3>1. comparison.status \in Statuses
      BY DEF CompareRecords, Statuses
    <3>2. \A q \in Runs : report'[q].status = IF q = r THEN comparison.status ELSE report[q].status
      BY <1>1, <2>5 DEF Embed
    <3> HIDE DEF comparison
    <3>3. QED  BY <2>5, <3>1, <3>2 DEF Embed, Disk, Values
  <2>6. CASE Prepare(r)
    BY <1>2, <2>6 DEF Prepare, Known, Values
  <2>7. CASE WriteFile(r)
    <3>1. FILES[Cardinality(temp[r]) + 1] \in Files
      BY <2>7, NextFile DEF WriteFile, Values
    <3>2. temp' = [temp EXCEPT ![r] = temp[r] \cup {FILES[Cardinality(temp[r]) + 1]}]
      BY <2>7 DEF WriteFile
    <3>3. temp' \in [Runs -> SUBSET Files]
      BY <3>1, <3>2 DEF Values
    <3>4. QED  BY <2>7, <3>3 DEF WriteFile, Known, Values
  <2>8. CASE WriteFails(r)
    BY <1>2, <2>8 DEF WriteFails, Disk, Values
  <2>9. CASE Rename(r)
    <3>1. CASE Publish(r)
      <4>1. {<<f, r>> : f \in temp[r]} \in SUBSET (Files \X Runs)
        BY DEF Values
      <4>2. QED  BY <1>1, <2>9, <3>1, <4>1 DEF Rename, Publish, Known, Values
    <3>2. CASE Forget(r) /\ UNCHANGED Disk
      BY <1>2, <2>9, <3>2 DEF Rename, Disk, Values
    <3>3. QED  BY <2>9, <3>1, <3>2 DEF Rename
  <2>10. CASE Finish(r)
    BY <2>10 DEF Finish, Known, Values
  <2>11. CASE Kill(r)
    BY <1>2, <2>11 DEF Kill, Known, Disk, Values
  <2>12. QED
    BY <1>3, <2>1, <2>2, <2>3, <2>4, <2>5, <2>6, <2>7, <2>8, <2>9, <2>10, <2>11 DEF Step
<1>4. CASE (\E d \in Outputs : MakeOutput(d)) \/ WriteFixtures \/ Done \/ UNCHANGED vars
  BY <1>4 DEF MakeOutput, WriteFixtures, Done, vars, Known, Disk, Values
<1>5. QED  BY <1>3, <1>4 DEF Next

\* A run that waits for nothing more has no temporary directory unless it was
\* killed, and everything else is of its type.
THEOREM TypeCorrect == Spec => []TypeOK
<1>1. Init => Values
  BY DEF Init, Values, NoReport, Statuses
<1>2. ASSUME IInv, Values, FixturesTypeOK PROVE TypeOK
  BY <1>2 DEF IInv, Types, TempByPlace, Places, Working, Over, Values, Statuses, TypeOK
<1>3. FixInv => FixturesTypeOK
  BY DEF FixInv
<1>4. QED  BY <1>1, <1>2, <1>3, ValuesStep, Invariance, FixInvariance, PTL DEF Spec
=============================================================================
