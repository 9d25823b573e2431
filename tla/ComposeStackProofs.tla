------------------------- MODULE ComposeStackProofs --------------------------
(***************************************************************************)
(* Theorems about ComposeStack for any number of runs of init_secrets.sh,  *)
(* services, kills, edits and crashes.  The argument: what a run has seen  *)
(* or done to a secret at its place cannot be undone by others, except for *)
(* the value, and that only by a run that overlaps.                        *)
(***************************************************************************)
EXTENDS ComposeStack, TLAPS

Steps == {"idle", "checking", "creating", "filling", "owning", "closing",
          "done", "failed", "killed"}

SecretTypes ==
    /\ file \in [Secrets -> Files]
    /\ step \in [Inits -> Steps] /\ place \in [Inits -> DOMAIN Calls]

\* The file of call k.
F(k) == file[Calls[k][1]]

Made == Wholes \cup {"empty"}

\* Where a run stands, what that says of the secret there; what it has left
\* behind is settled for good.
Past(i, k) == step[i] = "done" \/ place[i] > k
Settled(k) == F(k).private /\ F(k).owner = Calls[k][2] /\ F(k).value \in Made

Here(i, k) ==
    /\ step[i] = "creating" => F(k).value # "directory"
    /\ step[i] \in {"filling", "owning", "closing"} => F(k).value \in Made
    /\ step[i] = "closing" => F(k).owner = Calls[k][2]

Progress ==
    \A i \in Inits, k \in DOMAIN Calls :
        (Past(i, k) => Settled(k)) /\ (place[i] = k => Here(i, k))

\* Somebody was stopped where a file is empty, or is about to fill it.
Emptied ==
    \A k \in DOMAIN Calls : F(k).value = "empty" =>
        \E i \in Inits : place[i] = k /\ step[i] \in {"filling", "failed", "killed"}

\* One run at a time knows what it will find.
Alone ==
    ~overlapped => \A i \in Inits :
        /\ Running(i) => \A j \in Inits : Running(j) => i = j
        /\ step[i] = "creating" => file[Current(i)].value = "absent"
        /\ step[i] = "filling" => file[Current(i)].value = "empty"

\* The inductive invariant of the secrets.
SInv == SecretTypes /\ Progress /\ Emptied /\ Alone

-----------------------------------------------------------------------------
LEMMA CallFacts ==
    /\ Len(Calls) \in Nat /\ DOMAIN Calls = 1..Len(Calls) /\ 1 \in DOMAIN Calls
    /\ \A k \in DOMAIN Calls : /\ Calls[k][1] \in Secrets
                               /\ Calls[k][2] \in {"root", "10001", "472", "1000"}
    /\ \A j, k \in DOMAIN Calls : Calls[j][1] = Calls[k][1] => j = k
<1> DEFINE C == {CreateSecrets[k] : k \in DOMAIN CreateSecrets}
<1>1. Calls \in Seq(C) /\ Calls # <<>>
  BY ComposeAssumption
<1>2. \A c \in C : c[2] \in {"root", "10001", "472", "1000"}
  BY DEF CreateSecrets
<1> HIDE DEF C
<1>3. Len(Calls) \in Nat /\ DOMAIN Calls = 1..Len(Calls) /\ 1 \in DOMAIN Calls
  BY <1>1
<1>4. \A k \in DOMAIN Calls : Calls[k] \in C
  BY <1>1
<1>5. QED  BY <1>2, <1>3, <1>4, ComposeAssumption DEF Secrets

LEMMA Names == "empty" \notin Wholes /\ "absent" \notin Made /\ "directory" \notin Made
BY ComposeAssumption DEF Wholes, Made

-----------------------------------------------------------------------------
LEMMA SInit == Init => SInv
<1> SUFFICES ASSUME Init PROVE SInv
  OBVIOUS
<1> USE CallFacts
<1>1. PICK f \in Secrets, v \in {"absent", "given", "directory"} :
          file = [[g \in Secrets |-> Absent] EXCEPT
                     ![f] = [value |-> v, owner |-> "root", private |-> v = "absent"]]
  BY DEF Init
<1>2. file \in [Secrets -> Files]
  BY <1>1 DEF Files, Absent, Wholes
<1>3. \A g \in Secrets : file[g].value # "empty"
  BY <1>1 DEF Absent
<1>4. step = [i \in Inits |-> "idle"] /\ place = [i \in Inits |-> 1]
  BY DEF Init
<1>5. Progress
  BY <1>4 DEF Progress, Past, Here
<1>6. Emptied
  BY <1>3 DEF Emptied, F
<1>7. Alone
  BY <1>4 DEF Alone, Running
<1>8. QED  BY <1>2, <1>4, <1>5, <1>6, <1>7 DEF SInv, SecretTypes, Steps

\* What a step does to the secrets: one run moves, and changes at most the file
\* at its place.
LEMMA SecretSteps ==
    ASSUME [Next]_vars
    PROVE  \/ UNCHANGED secretVars
           \/ \E i \in Inits : InitStep(i) \/ KillInit(i)
BY DEF Next, vars, Edit, Validate, Up, Down, ReadSecrets, Serve, Restart, Crash, Outside

LEMMA TypesStep == SInv /\ [Next]_vars => SecretTypes'
<1> SUFFICES ASSUME SInv, [Next]_vars PROVE SecretTypes'
  OBVIOUS
<1> USE CallFacts
<1>1. SecretTypes
  BY DEF SInv
<1>2. CASE UNCHANGED secretVars
  BY <1>1, <1>2 DEF SecretTypes, secretVars
<1>3. ASSUME NEW i \in Inits, InitStep(i) \/ KillInit(i) PROVE SecretTypes'
  <2>1. Current(i) \in Secrets /\ file[Current(i)] \in Files
    BY <1>1 DEF SecretTypes, Current
  <2>2. CASE Begin(i) \/ Check(i) \/ KillInit(i)
    BY <1>1, <2>2 DEF Begin, Check, KillInit, Go, SecretTypes, Steps
  <2>3. CASE Create(i)
    BY <1>1, <2>1, <2>3 DEF Create, Go, SecretTypes, Steps, Files, Absent
  <2>4. CASE Fill(i)
    <3>1. step' \in [Inits -> Steps] /\ place' = place
      BY <1>1, <2>4 DEF Fill, Go, SecretTypes, Steps
    <3>2. CASE file' = [file EXCEPT ![Current(i)].value = i]
      BY <1>1, <2>1, <3>1, <3>2 DEF SecretTypes, Files, Wholes
    <3>3. QED  BY <1>1, <2>4, <3>1, <3>2 DEF Fill, SecretTypes
  <2>5. CASE Own(i)
    BY <1>1, <2>1, <2>5 DEF Own, Go, SecretTypes, Steps, Files
  <2>6. CASE Close(i)
    <3>1. file' \in [Secrets -> Files]
      BY <1>1, <2>1, <2>6 DEF Close, SecretTypes, Files
    <3>2. step' \in [Inits -> Steps]
      BY <1>1, <2>6 DEF Close, Go, SecretTypes, Steps
    <3>3. place' \in [Inits -> DOMAIN Calls]
      BY <1>1, <2>6 DEF Close, SecretTypes
    <3>4. QED  BY <3>1, <3>2, <3>3 DEF SecretTypes
  <2>7. QED  BY <1>3, <2>2, <2>3, <2>4, <2>5, <2>6 DEF InitStep
<1>4. QED  BY <1>2, <1>3, SecretSteps

-----------------------------------------------------------------------------
(* What each step of a run does to the file at its place.                  *)

\* The files of all calls but the one at place k are as before.
Only(k) == \A j \in DOMAIN Calls : j # k => F(j)' = F(j)

LEMMA CreateEffect ==
    ASSUME SecretTypes, NEW i \in Inits, Create(i), NEW k \in DOMAIN Calls, k = place[i]
    PROVE  /\ Only(k) /\ F(k)'.value = "empty"
           /\ F(k).value # "absent" =>
                 F(k)'.owner = F(k).owner /\ F(k)'.private = F(k).private
<1>1. Calls[k][1] \in Secrets /\ F(k) \in Files
  BY CallFacts DEF SecretTypes, F
<1> DEFINE old == IF F(k).value = "absent" THEN Absent ELSE F(k)
<1>2. file' = [file EXCEPT ![Calls[k][1]] = [old EXCEPT !.value = "empty"]]
  BY DEF Create, Current, F
<1>3. F(k)' = [old EXCEPT !.value = "empty"]
  BY <1>1, <1>2 DEF SecretTypes, F
<1>4. Only(k)
  BY <1>2, CallFacts DEF Only, F, SecretTypes
<1>5. old \in Files
  BY <1>1 DEF Files, Absent
<1>6. F(k)'.value = "empty" /\ F(k)'.owner = old.owner /\ F(k)'.private = old.private
  BY <1>3, <1>5 DEF Files
<1>7. QED  BY <1>4, <1>6

LEMMA FillEffect ==
    ASSUME SecretTypes, NEW i \in Inits, NEW k \in DOMAIN Calls, k = place[i],
           file' = [file EXCEPT ![Current(i)].value = i]
    PROVE  /\ Only(k) /\ F(k)'.value = i
           /\ F(k)'.owner = F(k).owner /\ F(k)'.private = F(k).private
<1>1. Calls[k][1] \in Secrets /\ F(k) \in Files
  BY CallFacts DEF SecretTypes, F
<1>2. F(k)' = [F(k) EXCEPT !.value = i]
  BY <1>1 DEF SecretTypes, F, Current
<1>3. Only(k)
  BY CallFacts DEF Only, F, SecretTypes, Current
<1>4. QED  BY <1>1, <1>2, <1>3 DEF Files

LEMMA OwnEffect ==
    ASSUME SecretTypes, NEW i \in Inits, Own(i), NEW k \in DOMAIN Calls, k = place[i]
    PROVE  /\ Only(k) /\ F(k)'.owner = Calls[k][2]
           /\ F(k)'.value = F(k).value /\ F(k)'.private = F(k).private
<1>1. Calls[k][1] \in Secrets /\ F(k) \in Files
  BY CallFacts DEF SecretTypes, F
<1>2. F(k)' = [F(k) EXCEPT !.owner = Calls[k][2]]
  BY <1>1 DEF SecretTypes, F, Current, Own
<1>3. Only(k)
  BY CallFacts DEF Only, F, SecretTypes, Current, Own
<1>4. QED  BY <1>1, <1>2, <1>3 DEF Files

LEMMA CloseEffect ==
    ASSUME SecretTypes, NEW i \in Inits, Close(i), NEW k \in DOMAIN Calls, k = place[i]
    PROVE  /\ Only(k) /\ F(k)'.private
           /\ F(k)'.value = F(k).value /\ F(k)'.owner = F(k).owner
<1>1. Calls[k][1] \in Secrets /\ F(k) \in Files
  BY CallFacts DEF SecretTypes, F
<1>2. F(k)' = [F(k) EXCEPT !.private = TRUE]
  BY <1>1 DEF SecretTypes, F, Current, Close
<1>3. Only(k)
  BY CallFacts DEF Only, F, SecretTypes, Current, Close
<1>4. QED  BY <1>1, <1>2, <1>3 DEF Files

LEMMA Unchanged == ASSUME UNCHANGED file PROVE \A k \in DOMAIN Calls : F(k)' = F(k)
BY DEF F

-----------------------------------------------------------------------------
\* What is made stays made, and what is settled stays settled.
LEMMA Kept ==
    ASSUME SInv, NEW i \in Inits, InitStep(i) \/ KillInit(i), NEW k \in DOMAIN Calls
    PROVE  /\ F(k).value \in Made => F(k)'.value \in Made
           /\ F(k).value # "directory" => F(k)'.value # "directory"
           /\ F(k).owner = Calls[k][2] /\ F(k).value \in Made => F(k)'.owner = Calls[k][2]
           /\ F(k).private /\ F(k).value \in Made => F(k)'.private
<1>1. SecretTypes
  BY DEF SInv
<1>2. PICK p \in DOMAIN Calls : p = place[i]
  BY <1>1 DEF SecretTypes
<1>3. CASE Begin(i) \/ Check(i) \/ KillInit(i)
  BY <1>3, Unchanged DEF Begin, Check, KillInit
<1>4. CASE Create(i)
  BY <1>1, <1>2, <1>4, CreateEffect, Names DEF Only, Made
<1>5. CASE Fill(i)
  BY <1>1, <1>2, <1>5, FillEffect, Unchanged, Names DEF Fill, Only, Made, Wholes
<1>6. CASE Own(i)
  BY <1>1, <1>2, <1>6, OwnEffect DEF Only
<1>7. CASE Close(i)
  BY <1>1, <1>2, <1>7, CloseEffect DEF Only
<1>8. QED  BY <1>3, <1>4, <1>5, <1>6, <1>7 DEF InitStep

LEMMA ProgressStep == SInv /\ [Next]_vars => Progress'
<1> SUFFICES ASSUME SInv, [Next]_vars PROVE Progress'
  OBVIOUS
<1>1. SecretTypes /\ Progress
  BY DEF SInv
<1>2. CASE UNCHANGED secretVars
  BY <1>1, <1>2 DEF secretVars, Progress, Past, Settled, Here, F
<1>3. ASSUME NEW i \in Inits, InitStep(i) \/ KillInit(i),
             NEW j \in Inits, NEW k \in DOMAIN Calls
      PROVE  (Past(j, k)' => Settled(k)') /\ (place'[j] = k => Here(j, k)')
  <2>1. (Past(j, k) => Settled(k)) /\ (place[j] = k => Here(j, k))
    BY <1>1 DEF Progress
  <2>2. Settled(k) => Settled(k)'
    BY <1>3, Kept DEF Settled
  <2>3. CASE step'[j] = step[j] /\ place'[j] = place[j]
    BY <1>3, <2>1, <2>2, <2>3, Kept DEF Past, Here
  <2>4. CASE j = i
    <3>1. PICK p \in DOMAIN Calls : p = place[i]
      BY <1>1 DEF SecretTypes
    <3>2. CASE Begin(i) \/ Check(i) \/ KillInit(i)
      BY <1>1, <2>1, <2>2, <2>4, <3>1, <3>2, Unchanged
         DEF Begin, Check, KillInit, Running, Go, SecretTypes, Past, Here, Current, F, Made
    <3>3. CASE Create(i)
      BY <1>1, <2>1, <2>2, <2>4, <3>1, <3>3, CreateEffect
         DEF Create, Go, SecretTypes, Past, Here, Made
    <3>4. CASE Fill(i)
      BY <1>1, <1>3, <2>1, <2>2, <2>4, <3>1, <3>4, Kept
         DEF Fill, Go, SecretTypes, Past, Here, Made
    <3>5. CASE Own(i)
      BY <1>1, <2>1, <2>2, <2>4, <3>1, <3>5, OwnEffect
         DEF Own, Go, SecretTypes, Past, Here
    <3>6. CASE Close(i)
      <4>1. Settled(p)'
        BY <1>1, <2>4, <3>1, <3>6, CloseEffect DEF Close, Progress, Here, Settled
      <4>2. /\ step'[i] \in {"checking", "done"}
            /\ \/ place'[i] = place[i] + 1 /\ step'[i] = "checking"
               \/ place'[i] = place[i] /\ ~(place[i] < Len(Calls)) /\ step'[i] = "done"
        BY <1>1, <3>6 DEF Close, Go, SecretTypes
      <4>3. Past(i, k)' => k = p \/ Past(i, k)
        BY <3>1, <4>2, CallFacts DEF Past
      <4>4. QED  BY <2>1, <2>2, <2>4, <4>1, <4>2, <4>3 DEF Here
    <3>7. QED  BY <1>3, <3>2, <3>3, <3>4, <3>5, <3>6 DEF InitStep
  <2>5. j # i => step'[j] = step[j] /\ place'[j] = place[j]
    BY <1>1, <1>3 DEF InitStep, Begin, Check, KillInit, Create, Fill, Own, Close, Go, SecretTypes
  <2>6. QED  BY <2>3, <2>4, <2>5
<1>4. QED  BY <1>2, <1>3, SecretSteps DEF Progress

LEMMA EmptiedStep == SInv /\ [Next]_vars => Emptied'
<1> SUFFICES ASSUME SInv, [Next]_vars PROVE Emptied'
  OBVIOUS
<1>1. SecretTypes /\ Emptied
  BY DEF SInv
<1>2. CASE UNCHANGED secretVars
  BY <1>1, <1>2 DEF secretVars, Emptied, F
<1>3. ASSUME NEW i \in Inits, InitStep(i) \/ KillInit(i), NEW k \in DOMAIN Calls,
             F(k)'.value = "empty"
      PROVE  \E j \in Inits : place'[j] = k /\ step'[j] \in {"filling", "failed", "killed"}
  <2>1. PICK p \in DOMAIN Calls : p = place[i]
    BY <1>1 DEF SecretTypes
  <2>2. CASE Create(i) /\ k = p
    BY <1>1, <2>1, <2>2 DEF Create, Go, SecretTypes
  <2>3. CASE Fill(i) /\ k = p
    <3>1. CASE file' = [file EXCEPT ![Current(i)].value = i]
      <4>1. F(k)'.value = i
        BY <1>1, <2>1, <2>3, <3>1, FillEffect
      <4>2. QED  BY <1>3, <4>1, Names DEF Wholes
    <3>2. CASE Go(i, "filling", "failed")
      BY <1>1, <2>1, <2>3, <3>2 DEF Fill, Go, SecretTypes
    <3>3. QED  BY <2>3, <3>1, <3>2 DEF Fill
  <2>4. CASE ~(Create(i) \/ Fill(i)) \/ k # p
    <3>1. F(k).value = "empty"
      <4>1. CASE Begin(i) \/ Check(i) \/ KillInit(i)
        BY <1>3, <4>1, Unchanged DEF Begin, Check, KillInit
      <4>2. CASE Create(i)
        BY <1>1, <1>3, <2>1, <2>4, <4>2, CreateEffect DEF Only
      <4>3. CASE Fill(i)
        BY <1>1, <1>3, <2>1, <2>4, <4>3, FillEffect, Unchanged DEF Fill, Only
      <4>4. CASE Own(i)
        BY <1>1, <1>3, <2>1, <4>4, OwnEffect DEF Only
      <4>5. CASE Close(i)
        BY <1>1, <1>3, <2>1, <4>5, CloseEffect DEF Only
      <4>6. QED  BY <1>3, <4>1, <4>2, <4>3, <4>4, <4>5 DEF InitStep
    <3>2. PICK j \in Inits : place[j] = k /\ step[j] \in {"filling", "failed", "killed"}
      BY <1>1, <3>1 DEF Emptied
    <3>3. CASE j = i
      <4>1. k = p /\ ~Create(i) /\ ~Fill(i)
        BY <2>1, <2>4, <3>2, <3>3
      <4>2. KillInit(i)
        BY <1>3, <3>2, <3>3, <4>1 DEF InitStep, Begin, Check, Own, Close, Go
      <4>3. QED  BY <1>1, <3>2, <3>3, <4>2 DEF KillInit, SecretTypes
    <3>4. CASE j # i
      BY <1>1, <1>3, <3>2, <3>4
         DEF InitStep, Begin, Check, KillInit, Create, Fill, Own, Close, Go, SecretTypes
    <3>5. QED  BY <3>3, <3>4
  <2>5. QED  BY <2>2, <2>3, <2>4
<1>4. QED  BY <1>2, <1>3, SecretSteps DEF Emptied

LEMMA AloneStep == SInv /\ [Next]_vars => Alone'
<1> SUFFICES ASSUME SInv, [Next]_vars PROVE Alone'
  OBVIOUS
<1>1. SecretTypes /\ Alone
  BY DEF SInv
<1>2. CASE UNCHANGED secretVars
  BY <1>1, <1>2 DEF secretVars, Alone, Running, Current
<1>3. ASSUME NEW i \in Inits, InitStep(i) \/ KillInit(i), ~overlapped', NEW j \in Inits
      PROVE  /\ Running(j)' => \A q \in Inits : Running(q)' => j = q
             /\ step'[j] = "creating" => file'[Current(j)'].value = "absent"
             /\ step'[j] = "filling" => file'[Current(j)'].value = "empty"
  <2>1. ~overlapped
    BY <1>3 DEF InitStep, Begin, Check, KillInit, Create, Fill, Own, Close
  <2>2. \A q \in Inits : q # i => ~Running(q) /\ step'[q] = step[q]
    <3>1. Begin(i) \/ Running(i)
      BY <1>3 DEF InitStep, Check, KillInit, Create, Fill, Own, Close, Go, Running
    <3>2. \A q \in Inits : q # i => ~Running(q)
      BY <1>1, <1>3, <2>1, <3>1 DEF Alone, Begin
    <3>3. QED  BY <1>1, <1>3, <3>2
               DEF InitStep, Begin, Check, KillInit, Create, Fill, Own, Close, Go, SecretTypes
  <2>3. \A q \in Inits : q # i => ~Running(q)'
    BY <2>2 DEF Running
  <2>4. CASE j # i
    BY <2>2, <2>3, <2>4 DEF Running
  <2>5. CASE j = i
    <3>1. PICK p \in DOMAIN Calls : p = place[i]
      BY <1>1 DEF SecretTypes
    <3>2. step'[i] = "creating" => Check(i)
      BY <1>1, <1>3 DEF InitStep, Begin, KillInit, Create, Fill, Own, Close, Go, SecretTypes
    <3>3. step'[i] = "filling" => Create(i)
      BY <1>1, <1>3 DEF InitStep, Begin, KillInit, Check, Fill, Own, Close, Go, SecretTypes
    <3>4. step'[i] = "creating" => file'[Current(i)'].value = "absent"
      BY <1>1, <3>2 DEF Check, Go, SecretTypes, Current
    <3>5. step'[i] = "filling" => file'[Current(i)'].value = "empty"
      BY <1>1, <3>1, <3>3, CreateEffect DEF Create, Current, F
    <3>6. QED  BY <2>3, <2>5, <3>4, <3>5
  <2>6. QED  BY <2>4, <2>5
<1>4. QED  BY <1>2, <1>3, SecretSteps DEF Alone, Running, Current

LEMMA SecretsInvariant == Spec => []SInv
<1>1. SInv /\ [Next]_vars => SInv'
  BY TypesStep, ProgressStep, EmptiedStep, AloneStep DEF SInv
<1>2. QED  BY <1>1, SInit, PTL DEF Spec

-----------------------------------------------------------------------------
\* When init_secrets.sh has succeeded and no other run of it is under way,
\* every secret is provisioned, but for files that a run was stopped in.
THEOREM SuccessProvisions == Spec => []SuccessMeansProvisioned
<1>1. SInv => SuccessMeansProvisioned
  <2> SUFFICES ASSUME SInv, NEW i \in Inits, step[i] = "done",
                      \A j \in Inits : ~Running(j), NEW k \in DOMAIN Calls
               PROVE  LET f == file[Calls[k][1]]
                      IN  /\ f.private /\ f.owner = Calls[k][2]
                          /\ \/ f.value \in Wholes
                             \/ /\ f.value = "empty"
                                /\ \E j \in Inits : step[j] \in {"failed", "killed"} /\ place[j] = k
    BY DEF SuccessMeansProvisioned
  <2>1. Settled(k)
    BY DEF SInv, Progress, Past
  <2>2. F(k).value = "empty" =>
           \E j \in Inits : step[j] \in {"failed", "killed"} /\ place[j] = k
    BY DEF SInv, Emptied, Running
  <2>3. QED  BY <2>1, <2>2 DEF Settled, F, Made
<1>2. QED  BY <1>1, SecretsInvariant, PTL

LEMMA ValueKept ==
    ASSUME SInv, [Next]_vars, ~overlapped', NEW f \in Secrets, file[f].value \in Wholes
    PROVE  file'[f].value = file[f].value
<1>1. SecretTypes /\ Alone
  BY DEF SInv
<1>2. PICK k \in DOMAIN Calls : f = Calls[k][1]
  BY DEF Secrets
<1>3. CASE UNCHANGED secretVars
  BY <1>3 DEF secretVars
<1>4. ASSUME NEW i \in Inits, InitStep(i) \/ KillInit(i) PROVE F(k)'.value = F(k).value
  <2>1. PICK p \in DOMAIN Calls : p = place[i]
    BY <1>1 DEF SecretTypes
  <2>2. ~overlapped
    BY <1>4 DEF InitStep, Begin, Check, KillInit, Create, Fill, Own, Close
  <2>3. F(k).value \notin {"absent", "empty"}
    BY <1>2, Names DEF F, Made
  <2>4. step[i] \in {"creating", "filling"} => k # p
    BY <1>1, <2>1, <2>2, <2>3 DEF Alone, Current, F
  <2>5. CASE Begin(i) \/ Check(i) \/ KillInit(i)
    BY <2>5, Unchanged DEF Begin, Check, KillInit
  <2>6. CASE Create(i)
    BY <1>1, <2>1, <2>4, <2>6, CreateEffect DEF Only, Create, Go
  <2>7. CASE Fill(i)
    BY <1>1, <2>1, <2>4, <2>7, FillEffect, Unchanged DEF Only, Fill, Go
  <2>8. CASE Own(i)
    BY <1>1, <2>1, <2>8, OwnEffect DEF Only
  <2>9. CASE Close(i)
    BY <1>1, <2>1, <2>9, CloseEffect DEF Only
  <2>10. QED  BY <1>4, <2>5, <2>6, <2>7, <2>8, <2>9 DEF InitStep
<1>5. QED  BY <1>2, <1>3, <1>4, SecretSteps DEF F

\* A secret that was written is never drawn again, unless two runs overlap.
THEOREM SecretsAreKept == Spec => SecretsKept
<1>1. SInv /\ [Next]_vars =>
         [\A f \in Secrets :
             file[f].value \in Wholes /\ ~overlapped' => file'[f].value = file[f].value]_vars
  BY ValueKept
<1>2. QED  BY <1>1, SecretsInvariant, PTL DEF Spec, SecretsKept

-----------------------------------------------------------------------------
(* The configuration.                                                      *)

\* What stack.sh has had validated, and what the containers were made with.
CInv == /\ env \in Environments /\ checked \in BOOLEAN
        /\ created \in [Services -> Environments]
        /\ ~gap => /\ checked => Valid(env)
                   /\ \A s \in Services : at[s] # "none" => Valid(created[s])
        /\ at \in [Services -> {"none", "starting", "read", "serving", "exited"}]

\* What the validator lets through and docker compose reads like it is pinned.
LEMMA ValidIsPinned ==
    ASSUME NEW e \in Environments, Valid(e), ReadAlike(e)
    PROVE  ComposeReads[e.images] = "pinned"
<1>1. e.images \in Notations
  BY DEF Environments
<1>2. CASE e.images = "pinned"
  BY <1>2 DEF ComposeReads
<1>3. CASE e.images \in {"decorated", "unclosed"}
  <2>1. /\ ValidatorReads["decorated"] = "text" /\ ComposeReads["decorated"] = "latest"
        /\ ValidatorReads["unclosed"] = "text" /\ ComposeReads["unclosed"] = "error"
    BY DEF ValidatorReads, ComposeReads
  <2>2. ValidatorReads[e.images] # ComposeReads[e.images]
    BY <1>3, <2>1
  <2>3. QED  BY <2>2 DEF ReadAlike
<1>4. CASE e.images \in {"latest", "blank", "missing"}
  <2>1. /\ ValidatorReads["latest"] = "latest" /\ ValidatorReads["blank"] = "no tag"
        /\ ValidatorReads["missing"] = "error"
    BY DEF ValidatorReads
  <2>2. ValidatorReads[e.images] \in {"no tag", "latest", "error"}
    BY <1>4, <2>1
  <2>3. QED  BY <2>2 DEF Valid
<1>5. QED  BY <1>1, <1>2, <1>3, <1>4 DEF Notations

LEMMA CStep == CInv /\ [Next]_vars => CInv'
<1> SUFFICES ASSUME CInv, [Next]_vars PROVE CInv'
  OBVIOUS
<1> USE DEF CInv
<1>1. CASE UNCHANGED <<stackVars, created, at>>
  BY <1>1 DEF stackVars
<1>2. ASSUME NEW i \in Inits, InitStep(i) \/ KillInit(i) PROVE UNCHANGED <<stackVars, created, at>>
  BY <1>2 DEF InitStep, KillInit, Begin, Check, Create, Fill, Own, Close, Others, containerVars
<1>3. CASE Edit
  BY <1>3 DEF Edit, containerVars
<1>4. CASE Validate
  BY <1>4 DEF Validate, containerVars
<1>5. CASE Up
  <2>1. PICK fresh \in SUBSET Services :
           /\ created' = [s \in Services |-> IF s \in fresh THEN env ELSE created[s]]
           /\ at' = [s \in Services |-> IF s \in fresh THEN "starting" ELSE at[s]]
    <3> DEFINE fresh == {s \in Services :
                            /\ Understood(env) /\ Present(s)
                            /\ at[s] = "none" \/ Configuration(created[s]) # Configuration(env)}
    <3>1. fresh \in SUBSET Services
      OBVIOUS
    <3>2. /\ created' = [s \in Services |-> IF s \in fresh THEN env ELSE created[s]]
          /\ at' = [s \in Services |-> IF s \in fresh THEN "starting" ELSE at[s]]
      BY <1>5 DEF Up
    <3> HIDE DEF fresh
    <3>3. QED  BY <3>1, <3>2
  <2>2. checked /\ ~checked' /\ checked' \in BOOLEAN /\ UNCHANGED <<env, gap>>
    BY <1>5 DEF Up
  <2>3. ~gap => Valid(env)
    BY <2>2
  <2>4. created' \in [Services -> Environments]
        /\ at' \in [Services -> {"none", "starting", "read", "serving", "exited"}]
    BY <2>1
  <2>5. ASSUME ~gap, NEW s \in Services, at'[s] # "none" PROVE Valid(created'[s])
    <3>1. CASE created'[s] = env
      BY <2>3, <2>5, <3>1
    <3>2. CASE created'[s] = created[s] /\ at'[s] = at[s]
      BY <2>5, <3>2
    <3>3. QED  BY <2>1, <3>1, <3>2
  <2>6. \A s \in Services : Valid(created'[s]) <=> Valid(created[s])'
    BY DEF Valid
  <2>7. QED  BY <2>2, <2>4, <2>5, <2>6
<1>6. CASE Down
  BY <1>6 DEF Down
<1>7. ASSUME NEW s \in Services, ReadSecrets(s) \/ Serve(s) \/ Restart(s) \/ Crash(s)
      PROVE  CInv'
  <2>1. UNCHANGED <<env, checked, gap, created>>
    BY <1>7 DEF ReadSecrets, Serve, Restart, Crash, Outside, stackVars
  <2>2. /\ at[s] # "none"
        /\ \E to \in {"starting", "read", "serving", "exited"} : at' = [at EXCEPT ![s] = to]
    BY <1>7 DEF ReadSecrets, Serve, Restart, Crash, MoveTo
  <2>3. QED  BY <2>1, <2>2
<1>8. CASE UNCHANGED vars
  BY <1>1, <1>8 DEF vars, containerVars
<1>9. QED  BY <1>1, <1>2, <1>3, <1>4, <1>5, <1>6, <1>7, <1>8 DEF Next

\* Containers were created from a file that the validator accepts, and run pinned
\* images where the two readers agree, unless the file was edited between its
\* validation and its use.
THEOREM ValidatedRuns == Spec => []RunsWhatWasValidated
<1>1. Init => CInv
  BY DEF Init, CInv
<1>2. CInv => RunsWhatWasValidated
  BY ValidIsPinned DEF CInv, RunsWhatWasValidated
<1>3. QED  BY <1>1, <1>2, CStep, PTL DEF Spec

-----------------------------------------------------------------------------
(* The containers' copies of the secrets.                                  *)

\* What a container has read is whole once it serves, and is what the file
\* holds unless two runs overlapped.
Copied(s) ==
    at[s] \in {"read", "serving"} =>
        /\ DOMAIN held[s] = Wants(s)
        /\ \A f \in Wants(s) :
              /\ at[s] = "serving" /\ s # "grafana" => held[s][f] \in Wholes
              /\ held[s][f] \in Wholes => overlapped \/ held[s][f] = file[f].value

HInv == DOMAIN held = Services /\ \A s \in Services : Copied(s)

LEMMA WantsSecrets == \A s \in Services : Wants(s) \subseteq Secrets
BY ComposeAssumption DEF Wants, Secrets

LEMMA HeldStep ==
    ASSUME SInv, CInv, HInv, [Next]_vars
    PROVE  DOMAIN held' = Services
BY DEF HInv, Next, vars, containerVars, InitStep, KillInit, Begin, Check, Create, Fill, Own, Close,
       Others, Edit, Validate, Up, Down, ReadSecrets, Serve, Restart, Crash

\* A service that no step touches keeps what it has, and so do the files.
LEMMA Untouched ==
    ASSUME SInv, [Next]_vars, NEW s \in Services, Copied(s),
           at'[s] = at[s], held'[s] = held[s], created'[s] = created[s]
    PROVE  Copied(s)'
<1>1. Wants(s)' = Wants(s)
  BY DEF Wants
<1>2. overlapped => overlapped'
  BY DEF Next, vars, secretVars, InitStep, KillInit, Begin, Check, Create, Fill, Own, Close,
         Edit, Validate, Up, Down, ReadSecrets, Serve, Restart, Crash, Outside
<1>3. ASSUME NEW f \in Wants(s), file[f].value \in Wholes
      PROVE  overlapped' \/ file'[f].value = file[f].value
  BY <1>3, ValueKept, WantsSecrets
<1>4. ASSUME at[s] \in {"read", "serving"}, NEW f \in Wants(s)
      PROVE  /\ at[s] = "serving" /\ s # "grafana" => held[s][f] \in Wholes
             /\ held[s][f] \in Wholes => overlapped' \/ held[s][f] = file'[f].value
  BY <1>2, <1>3, <1>4 DEF Copied
<1>5. at[s] \in {"read", "serving"} => DOMAIN held[s] = Wants(s)
  BY DEF Copied
<1>6. QED  BY <1>1, <1>4, <1>5 DEF Copied

LEMMA CopiedStep ==
    ASSUME SInv, CInv, HInv, [Next]_vars, NEW s \in Services
    PROVE  Copied(s)'
<1>1. /\ at \in [Services -> {"none", "starting", "read", "serving", "exited"}]
      /\ created \in [Services -> Environments] /\ DOMAIN held = Services /\ Copied(s)
  BY DEF CInv, HInv
<1>2. CASE UNCHANGED containerVars
  BY <1>1, <1>2, Untouched DEF containerVars
<1>3. CASE Up
  BY <1>1, <1>3, Untouched DEF Up, Copied
<1>4. CASE Down
  BY <1>4 DEF Down, Copied
<1>5. ASSUME NEW t \in Services, ReadSecrets(t) \/ Serve(t) \/ Restart(t) \/ Crash(t)
      PROVE  Copied(s)'
  <2>1. UNCHANGED <<secretVars, created>>
    BY <1>5 DEF ReadSecrets, Serve, Restart, Crash, Outside
  <2>2. CASE t # s
    <3>1. at'[s] = at[s] /\ held'[s] = held[s]
      BY <1>1, <1>5, <2>2 DEF ReadSecrets, Serve, Restart, Crash, MoveTo
    <3>2. QED  BY <1>1, <2>1, <3>1, Untouched
  <2>3. CASE t = s /\ at'[s] \notin {"read", "serving"}
    BY <2>3 DEF Copied
  <2>4. CASE t = s /\ at'[s] = "read"
    <3>1. /\ ReadSecrets(s)
          /\ held' = [held EXCEPT ![s] = [f \in Wants(s) |-> file[f].value]]
      BY <1>1, <1>5, <2>4 DEF ReadSecrets, Serve, Restart, Crash, MoveTo
    <3>2. held'[s] = [f \in Wants(s) |-> file[f].value]
      BY <1>1, <3>1
    <3>3. Wants(s)' = Wants(s) /\ file' = file
      BY <2>1 DEF Wants, secretVars
    <3>4. QED  BY <2>4, <3>2, <3>3 DEF Copied
  <2>5. CASE t = s /\ at'[s] = "serving"
    <3>1. at[s] = "read" /\ held' = held /\ \A f \in DOMAIN held[s] : Accepts(s, held[s][f])
      BY <1>1, <1>5, <2>5 DEF ReadSecrets, Serve, Restart, Crash, MoveTo
    <3>2. Wants(s)' = Wants(s) /\ file' = file /\ overlapped' = overlapped
      BY <2>1 DEF Wants, secretVars
    <3>3. /\ DOMAIN held[s] = Wants(s)
          /\ \A f \in Wants(s) : held[s][f] \in Wholes => overlapped \/ held[s][f] = file[f].value
      BY <1>1, <3>1 DEF Copied
    <3>4. s # "grafana" => \A f \in Wants(s) : held[s][f] \in Wholes
      BY <3>1, <3>3 DEF Accepts
    <3>5. QED  BY <2>5, <3>1, <3>2, <3>3, <3>4 DEF Copied
  <2>6. QED  BY <1>1, <1>5, <2>2, <2>3, <2>4, <2>5
<1>6. ASSUME (\E i \in Inits : InitStep(i) \/ KillInit(i)) \/ Edit \/ Validate \/ UNCHANGED vars
      PROVE  UNCHANGED containerVars
  BY <1>6 DEF InitStep, KillInit, Begin, Check, Create, Fill, Own, Close, Others, Edit, Validate, vars
<1>7. QED  BY <1>2, <1>3, <1>4, <1>5, <1>6 DEF Next

\* A service that checks its secrets serves with whole ones, which are still
\* those in the files unless two runs of init_secrets.sh overlapped.
THEOREM ProvisionedServes == Spec => []ServesWhatIsProvisioned
<1>1. Init => CInv /\ HInv
  BY DEF Init, CInv, HInv, Copied
<1>2. SInv /\ CInv /\ HInv /\ [Next]_vars => (CInv /\ HInv)'
  BY CStep, HeldStep, CopiedStep DEF HInv
<1>3. HInv => ServesWhatIsProvisioned
  BY DEF HInv, Copied, ServesWhatIsProvisioned
<1>4. QED  BY <1>1, <1>2, <1>3, SecretsInvariant, PTL DEF Spec

-----------------------------------------------------------------------------
(* Types, and who can read the secrets.                                    *)

\* What TypeOK adds to the other invariants: the bounds, and that a container
\* which is not past its entrypoint has read nothing.
Bounds ==
    /\ overlapped \in BOOLEAN /\ gap \in BOOLEAN
    /\ edits \in 0..MaxEdits /\ crashes \in 0..MaxCrashes
    /\ \A s \in Services : at[s] \notin {"read", "serving"} => held[s] = <<>>

LEMMA BoundsStep ==
    ASSUME CInv, HInv, Bounds, [Next]_vars
    PROVE  Bounds'
<1>1. /\ at \in [Services -> {"none", "starting", "read", "serving", "exited"}]
      /\ DOMAIN held = Services
  BY DEF CInv, HInv
<1>2. ASSUME NEW i \in Inits, InitStep(i) \/ KillInit(i) PROVE Bounds'
  <2>1. UNCHANGED <<gap, edits, crashes, at, held>> /\ overlapped' \in BOOLEAN
    BY <1>2 DEF InitStep, KillInit, Begin, Check, Create, Fill, Own, Close, Others,
                stackVars, containerVars, Bounds
  <2>2. QED  BY <2>1 DEF Bounds
<1>3. CASE Edit
  <2>1. /\ UNCHANGED <<overlapped, crashes, at, held>> /\ gap' \in BOOLEAN
        /\ edits < MaxEdits /\ edits' = edits + 1
    BY <1>3 DEF Edit, secretVars, containerVars, CInv, Bounds
  <2>2. edits' \in 0..MaxEdits
    BY <2>1, ComposeAssumption DEF Bounds
  <2>3. QED  BY <2>1, <2>2 DEF Bounds
<1>4. CASE Validate \/ UNCHANGED vars
  BY <1>4 DEF Validate, vars, secretVars, stackVars, containerVars, Bounds
<1>5. CASE Up
  <2>1. UNCHANGED <<overlapped, gap, edits, crashes>>
    BY <1>5 DEF Up, secretVars
  <2>2. ASSUME NEW s \in Services, at'[s] \notin {"read", "serving"} PROVE held'[s] = <<>>
    BY <1>5, <2>2 DEF Up, Bounds
  <2>3. QED  BY <2>1, <2>2 DEF Bounds
<1>6. CASE Down
  BY <1>6 DEF Down, secretVars, Bounds
<1>7. ASSUME NEW s \in Services, ReadSecrets(s) \/ Serve(s) \/ Restart(s) \/ Crash(s)
      PROVE  Bounds'
  <2>1. UNCHANGED <<overlapped, gap, edits>>
    BY <1>7 DEF ReadSecrets, Serve, Restart, Crash, Outside, secretVars, stackVars
  <2>2. crashes' \in 0..MaxCrashes
    BY <1>7, ComposeAssumption DEF ReadSecrets, Serve, Restart, Crash, Bounds
  <2>3. ASSUME NEW t \in Services, at'[t] \notin {"read", "serving"} PROVE held'[t] = <<>>
    BY <1>1, <1>7, <2>3 DEF ReadSecrets, Serve, Restart, Crash, MoveTo, Bounds
  <2>4. QED  BY <2>1, <2>2, <2>3 DEF Bounds
<1>8. QED  BY <1>2, <1>3, <1>4, <1>5, <1>6, <1>7 DEF Next

\* A container has read its own secrets once it is past its entrypoint, and none
\* before.
THEOREM TypeCorrect == Spec => []TypeOK
<1>1. Init => CInv /\ HInv /\ Bounds
  <2>1. Init => CInv /\ HInv
    BY DEF Init, CInv, HInv, Copied
  <2>2. 0 \in 0..MaxEdits /\ 0 \in 0..MaxCrashes
    BY ComposeAssumption
  <2>3. Init => Bounds
    BY <2>2 DEF Init, Bounds
  <2>4. QED  BY <2>1, <2>3
<1>2. SInv /\ CInv /\ HInv /\ Bounds /\ [Next]_vars => (CInv /\ HInv /\ Bounds)'
  BY CStep, HeldStep, CopiedStep, BoundsStep DEF HInv
<1>3. ASSUME SInv, CInv, HInv, Bounds PROVE TypeOK
  <2>1. ASSUME NEW s \in Services PROVE DOMAIN held[s] \subseteq Mounts[s]
    <3>1. CASE at[s] \in {"read", "serving"}
      BY <1>3, <3>1 DEF HInv, Copied, Wants
    <3>2. CASE at[s] \notin {"read", "serving"}
      BY <1>3, <3>2 DEF Bounds
    <3>3. QED  BY <3>1, <3>2
  <2>2. QED  BY <1>3, <2>1 DEF SInv, SecretTypes, Steps, CInv, Bounds, TypeOK
<1>4. QED  BY <1>1, <1>2, <1>3, SecretsInvariant, PTL DEF Spec

\* Once init_secrets.sh has succeeded, every service without Keycloak can read
\* the secrets it mounts: the one misfit is Keycloak and its database's password.
THEOREM OthersReadTheirSecrets ==
    ASSUME "keycloak" \notin Services
    PROVE  Spec => []SecretsFitTheirReaders
<1>1. ASSUME SInv PROVE SecretsFitTheirReaders
  <2> SUFFICES ASSUME NEW i \in Inits, step[i] = "done",
                      NEW s \in Services, NEW f \in Secrets, f \in Mounts[s]
               PROVE  Readable(s, f)
    BY DEF SecretsFitTheirReaders
  <2>1. PICK k \in DOMAIN Calls : f = Calls[k][1]
    BY DEF Secrets
  <2>2. /\ file[f].owner = Calls[k][2] /\ file[f].value \in Made
    BY <1>1, <2>1 DEF SInv, Progress, Past, Settled, F
  <2>3. file[f].value # "directory"
    BY <2>2, Names
  <2>4. s \in {"gateway", "grafana", "database"}
    BY ComposeAssumption DEF Mounts
  <2>5. PICK c \in DOMAIN CreateSecrets : Calls[k] = CreateSecrets[c]
    BY ComposeAssumption, CallFacts
  <2>6. UserOf[s] = "root" \/ UserOf[s] = Calls[k][2]
    BY <2>1, <2>4, <2>5 DEF CreateSecrets, Mounts, UserOf
  <2>7. QED  BY <2>2, <2>3, <2>6 DEF Readable
<1>2. QED  BY <1>1, SecretsInvariant, PTL
==============================================================================
