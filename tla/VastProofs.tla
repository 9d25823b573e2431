----------------------------- MODULE VastProofs ------------------------------
(***************************************************************************)
(* Theorems about VastStack for any tokens and any number of crashes and   *)
(* edits: the order of the starts, the gateway's token, what a 200 of      *)
(* /readyz and a smoke test that passed mean.                              *)
(***************************************************************************)
EXTENDS VastStack, TLAPS

Places == {"down", "paused", "waiting", "loading", "serving"}

LEMMA Names == /\ Services = {"llm", "embedding", "gateway"}
               /\ "llm" # "embedding" /\ "llm" # "gateway" /\ "embedding" # "gateway"
BY DEF Services, Models

LEMMA Turns ==
    /\ After("missing_auth") = "invalid_auth" /\ After("invalid_auth") = "ready"
    /\ After("ready") = "chat" /\ After("chat") = "vision" /\ After("vision") = "embedding"
    /\ After("embedding") = "checking"
    /\ Requests = {"missing_auth", "invalid_auth"} \cup Bodies
<1>1. DOMAIN REQUESTS = 1..6 /\ Len(REQUESTS) = 6
  BY DEF REQUESTS
<1>2. ASSUME NEW i \in 1..6 PROVE (CHOOSE j \in DOMAIN REQUESTS : REQUESTS[j] = REQUESTS[i]) = i
  <2>1. \A j \in 1..6 : REQUESTS[j] = REQUESTS[i] => j = i
    BY DEF REQUESTS
  <2>2. QED  BY <1>1, <2>1
<1>3. ASSUME NEW i \in 1..6
      PROVE  After(REQUESTS[i]) = IF i = 6 THEN "checking" ELSE REQUESTS[i + 1]
  <2> DEFINE c == CHOOSE j \in DOMAIN REQUESTS : REQUESTS[j] = REQUESTS[i]
  <2>1. After(REQUESTS[i]) = IF c = Len(REQUESTS) THEN "checking" ELSE REQUESTS[c + 1]
    BY DEF After
  <2>2. c = i
    BY <1>2
  <2> HIDE DEF c
  <2>3. QED  BY <1>1, <2>1, <2>2
<1>4. /\ REQUESTS[1] = "missing_auth" /\ REQUESTS[2] = "invalid_auth" /\ REQUESTS[3] = "ready"
      /\ REQUESTS[4] = "chat" /\ REQUESTS[5] = "vision" /\ REQUESTS[6] = "embedding"
  BY DEF REQUESTS
<1>5. Requests = {"missing_auth", "invalid_auth"} \cup Bodies
  BY <1>1, <1>4 DEF Requests, Bodies
<1>6. QED  BY <1>3, <1>4, <1>5

-----------------------------------------------------------------------------
(* The steps of the processes and of the smoke test.                       *)

ServiceStep(s) ==
    \/ Start(s) \/ Configure(s) \/ Misconfigured(s) \/ Probe(s)
    \/ GiveUp(s) \/ Exec(s) \/ Loaded(s) \/ Crash(s)

SmokeStep ==
    \/ SmokeBegin \/ SmokePrepare \/ SmokeKilled
    \/ ExpectUnauthorized \/ BeginCheck \/ ProbeLlm \/ ProbeEmbedding
    \/ Infer \/ SmokeFails \/ CheckBodies \/ SmokeSignalled

LEMMA StepKinds ==
    [Next]_vars => \/ \E s \in Services : ServiceStep(s)
                   \/ Provisioned \/ Reconfigure \/ SmokeStep \/ UNCHANGED vars
BY DEF Next, ServiceStep, SmokeStep

LEMMA SmokeLeavesProcesses == SmokeStep => UNCHANGED Processes
BY DEF SmokeStep, SmokeBegin, SmokePrepare, SmokeKilled, ExpectUnauthorized, BeginCheck,
       ProbeLlm, ProbeEmbedding, Infer, SmokeFails, CheckBodies, SmokeSignalled

-----------------------------------------------------------------------------
(* Starting in order.                                                      *)

\* As long as nothing crashed, what a script has found healthy still is.
Found(s) ==
    /\ at[s] = "waiting" => \A i \in 1..probed[s] : Waits[s][i] \in Healthy
    /\ at[s] \in {"loading", "serving"} => \A i \in 1..Len(Waits[s]) : Waits[s][i] \in Healthy

StartInv ==
    /\ at \in [Services -> Places]
    /\ probed \in [Services -> Nat] /\ crashes \in Nat
    /\ \A s \in Services : at[s] = "paused" => probed[s] = 0
    /\ crashes = 0 => \A s \in Services : Found(s)

LEMMA StartInit == Init => StartInv
BY DEF Init, StartInv, Places, Found

\* Healthy servers stay healthy when nothing crashes.
LEMMA HealthyStays ==
    ASSUME StartInv, NEW s \in Services, ServiceStep(s), crashes' = 0
    PROVE  /\ Healthy \subseteq Healthy' /\ crashes = 0
           /\ Start(s) \/ Configure(s) \/ Misconfigured(s) \/ Probe(s)
                 \/ GiveUp(s) \/ Exec(s) \/ Loaded(s)
<1>1. ~Crash(s)
  BY DEF Crash, StartInv
<1>2. crashes = 0
  BY <1>1 DEF ServiceStep, Start, Configure, Misconfigured, Probe, GiveUp, Exec, Loaded
<1>3. \A m \in Services : at[m] = "serving" => at'[m] = "serving"
  BY <1>1 DEF ServiceStep, Start, Configure, Misconfigured, Probe, GiveUp, Exec, Loaded,
              HasNext, StartInv
<1>4. QED  BY <1>1, <1>2, <1>3 DEF Healthy, ServiceStep, Services

LEMMA StartStep == StartInv /\ [Next]_vars => StartInv'
<1> SUFFICES ASSUME StartInv, [Next]_vars PROVE StartInv'
  OBVIOUS
<1>1. CASE UNCHANGED <<at, probed, crashes>>
  BY <1>1 DEF StartInv, Found, Healthy
<1>2. ASSUME NEW s \in Services, ServiceStep(s) PROVE StartInv'
  <2>1. at' \in [Services -> Places] /\ probed' \in [Services -> Nat]
    BY <1>2 DEF StartInv, Places, ServiceStep, Start, Configure, Misconfigured, Probe, GiveUp,
                Exec, Loaded, Crash
  <2>2. crashes' \in Nat
    BY <1>2 DEF StartInv, ServiceStep, Start, Configure, Misconfigured, Probe, GiveUp,
                Exec, Loaded, Crash
  <2>3. \A t \in Services : at'[t] = "paused" => probed'[t] = 0
    BY <1>2 DEF StartInv, ServiceStep, Start, Configure, Misconfigured, Probe, GiveUp,
                Exec, Loaded, Crash, HasNext
  <2>4. ASSUME crashes' = 0, NEW t \in Services PROVE Found(t)'
    <3>1. Healthy \subseteq Healthy' /\ Found(t)
      BY <1>2, <2>4, HealthyStays DEF StartInv
    <3>2. CASE t # s
      <4>1. at'[t] = at[t] /\ probed'[t] = probed[t]
        BY <1>2, <3>2 DEF StartInv, ServiceStep, Start, Configure, Misconfigured, Probe, GiveUp,
                          Exec, Loaded, Crash
      <4>2. QED  BY <3>1, <4>1 DEF Found
    <3>3. CASE t = s
      <4>1. CASE Start(s) \/ Misconfigured(s) \/ GiveUp(s)
        BY <3>3, <4>1 DEF StartInv, Start, Misconfigured, GiveUp, Found
      <4>2. CASE Configure(s)
        <5>1. at'[s] = "waiting" /\ probed'[s] = 0
          BY <4>2 DEF StartInv, Configure
        <5>2. QED  BY <3>3, <5>1 DEF Found
      <4>3. CASE Probe(s)
        <5>1. /\ at[s] = "waiting" /\ at'[s] = "waiting" /\ probed'[s] = probed[s] + 1
              /\ Waits[s][probed[s] + 1] \in Healthy /\ probed[s] \in Nat
          BY <4>3 DEF StartInv, Probe, HasNext, NextDependency
        <5>2. \A i \in 1..(probed[s] + 1) : i \in 1..probed[s] \/ i = probed[s] + 1
          BY <5>1
        <5>3. \A i \in 1..probed[s] : Waits[s][i] \in Healthy
          BY <3>1, <3>3, <5>1 DEF Found
        <5>4. QED  BY <3>1, <3>3, <5>1, <5>2, <5>3 DEF Found
      <4>4. CASE Exec(s)
        BY <3>1, <3>3, <4>4 DEF StartInv, Exec, Found
      <4>5. CASE Loaded(s)
        BY <3>1, <3>3, <4>5 DEF StartInv, Loaded, Found
      <4>6. QED  BY <1>2, <2>4, <4>1, <4>2, <4>3, <4>4, <4>5, HealthyStays
    <3>4. QED  BY <3>2, <3>3
  <2>5. QED  BY <2>1, <2>2, <2>3, <2>4 DEF StartInv
<1>3. CASE Provisioned \/ Reconfigure \/ UNCHANGED vars
  BY <1>1, <1>3 DEF Provisioned, Reconfigure, vars
<1>4. CASE SmokeStep
  BY <1>1, <1>4, SmokeLeavesProcesses DEF Processes
<1>5. QED  BY <1>2, <1>3, <1>4, StepKinds

\* As long as nothing was killed, nothing starts its program before what it
\* depends on is up.
THEOREM StartsInOrder == Spec => []OrderlyStart
<1>1. StartInv => OrderlyStart
  <2> SUFFICES ASSUME StartInv, crashes = 0 PROVE OrderlyStart
    BY DEF OrderlyStart
  <2>1. Found("llm") /\ Found("gateway")
    BY Names DEF StartInv
  <2>2. Waits["llm"] = <<"embedding">> /\ Waits["gateway"] = <<"llm", "embedding">>
    BY DEF Waits
  <2>3. at["llm"] \in {"loading", "serving"} => "embedding" \in Healthy
    <3>1. Len(<<"embedding">>) = 1 /\ <<"embedding">>[1] = "embedding"
      OBVIOUS
    <3>2. QED  BY <2>1, <2>2, <3>1 DEF Found
  <2>4. at["gateway"] \in {"loading", "serving"} => {"llm", "embedding"} \subseteq Healthy
    <3>1. /\ Len(<<"llm", "embedding">>) = 2 /\ <<"llm", "embedding">>[1] = "llm"
          /\ <<"llm", "embedding">>[2] = "embedding"
      OBVIOUS
    <3>2. QED  BY <2>1, <2>2, <3>1 DEF Found
  <2>5. QED  BY <2>3, <2>4 DEF OrderlyStart, Healthy, Models
<1>2. QED  BY <1>1, StartInit, StartStep, PTL DEF Spec

-----------------------------------------------------------------------------
(* The gateway's token.                                                    *)

TokenInv ==
    /\ at \in [Services -> Places] /\ loaded \in [Services -> Environments]
    /\ env \in Environments
    /\ at["gateway"] \in {"waiting", "loading", "serving"} =>
          tokenFile = loaded["gateway"].token /\ tokenFile \in Tokens
    /\ at["gateway"] = "serving" => accepted = tokenFile

LEMMA TokenStep == TokenInv /\ [Next]_vars => TokenInv'
<1> SUFFICES ASSUME TokenInv, [Next]_vars PROVE TokenInv'
  OBVIOUS
<1> USE Names
<1>1. CASE UNCHANGED <<at, env, loaded, tokenFile, accepted>>
  BY <1>1 DEF TokenInv
<1>2. ASSUME NEW s \in Services, ServiceStep(s) PROVE TokenInv'
  <2>1. CASE Start(s)
    BY <2>1 DEF TokenInv, Start, LoadEnvironment, Places
  <2>2. CASE Configure(s)
    <3>1. CASE s = "gateway"
      BY <2>2, <3>1 DEF TokenInv, Configure, Configured, WriteToken, Places, Models
    <3>2. CASE s # "gateway"
      BY <2>2, <3>2 DEF TokenInv, Configure, WriteToken, Places
    <3>3. QED  BY <3>1, <3>2
  <2>3. CASE Misconfigured(s) \/ GiveUp(s) \/ Crash(s)
    BY <2>3 DEF TokenInv, Misconfigured, GiveUp, Crash, Places
  <2>4. CASE Probe(s)
    BY <2>4 DEF TokenInv, Probe
  <2>5. CASE Exec(s)
    BY <2>5 DEF TokenInv, Exec, Places
  <2>6. CASE Loaded(s)
    BY <2>6 DEF TokenInv, Loaded, Places
  <2>7. QED  BY <1>2, <2>1, <2>2, <2>3, <2>4, <2>5, <2>6 DEF ServiceStep
<1>3. CASE Provisioned \/ UNCHANGED vars
  BY <1>1, <1>3 DEF Provisioned, vars
<1>4. CASE Reconfigure
  BY <1>4 DEF Reconfigure, TokenInv
<1>5. CASE SmokeStep
  BY <1>1, <1>5, SmokeLeavesProcesses DEF Processes
<1>6. QED  BY <1>2, <1>3, <1>4, <1>5, StepKinds

LEMMA TokenInvariant == Spec => []TokenInv
<1>1. Init => TokenInv
  BY Names DEF Init, TokenInv, Places
<1>2. QED  BY <1>1, TokenStep, PTL DEF Spec

\* A gateway that serves compares with the token of its own start.
THEOREM TokenIsOfThisStart == Spec => []TokenOfThisStart
<1>1. TokenInv => TokenOfThisStart
  BY DEF TokenInv, TokenOfThisStart
<1>2. QED  BY <1>1, TokenInvariant, PTL

-----------------------------------------------------------------------------
(* The smoke test and its /readyz.                                         *)

\* What a run that has come this far has been answered, whatever became of its
\* files since.
Asked ==
    /\ step \in {"invalid_auth", "checking"} \cup Bodies \cup Probing
          => "missing_auth" \in answered
    /\ step \in {"checking"} \cup Bodies \cup Probing => "invalid_auth" \in answered
    /\ saved \subseteq answered /\ answered \subseteq Requests
    /\ step = "passed" => answered = Requests /\ ~interrupted

\* Files that are there were never removed, and they hold a token only while the
\* trap is set.
Kept ==
    /\ temp => ~interrupted
    /\ step \in Over \cup {"preparing"} => ~temp \/ held = NoToken

\* What the probes of /readyz have seen.
Seen ==
    /\ step \in Probing => Healthy \subseteq up
    /\ up \subseteq Models
    /\ step = "probe_embedding" /\ llmReady => "llm" \in up
    /\ step = "chat" => up = Models

SmokeInv == Seen /\ Asked /\ Kept

LEMMA SmokeInit == Init => SmokeInv
BY DEF Init, SmokeInv, Seen, Asked, Kept, Probing, Over, Bodies

LEMMA Ends == ASSUME SmokeInv, NEW how \in {"passed", "failed"}, SmokeEnds(how),
                     how = "passed" => answered = Requests /\ ~interrupted
              PROVE  SmokeInv'
<1>1. Seen'
  BY DEF SmokeEnds, Seen, Probing
<1>2. Asked'
  BY DEF SmokeEnds, SmokeInv, Asked, Probing, Bodies
<1>3. Kept'
  BY DEF SmokeEnds, Kept
<1>4. QED  BY <1>1, <1>2, <1>3 DEF SmokeInv

LEMMA SeenStep == TokenInv /\ SmokeInv /\ [Next]_vars => Seen'
<1> SUFFICES ASSUME TokenInv, SmokeInv, [Next]_vars PROVE Seen'
  OBVIOUS
<1>1. CASE UNCHANGED Smoke /\ Healthy' \subseteq Healthy
  BY <1>1 DEF Smoke, SmokeInv, Seen
<1>2. ASSUME NEW s \in Services, ServiceStep(s) PROVE Seen'
  <2>1. CASE Start(s) \/ Configure(s) \/ Misconfigured(s) \/ Probe(s) \/ GiveUp(s) \/ Exec(s)
    <3>1. UNCHANGED Smoke
      BY <2>1 DEF Start, Configure, Misconfigured, Probe, GiveUp, Exec
    <3>2. \A m \in Models : at'[m] = "serving" => at[m] = "serving"
      BY <2>1 DEF Start, Configure, Misconfigured, Probe, GiveUp, Exec, TokenInv, Services
    <3>3. QED  BY <1>1, <3>1, <3>2 DEF Healthy
  <2>2. CASE Loaded(s)
    <3>1. Healthy' \subseteq Healthy \cup ({s} \cap Models)
      BY <2>2 DEF Loaded, Healthy, TokenInv
    <3>2. /\ UNCHANGED <<step, llmReady>>
          /\ up' = IF s \in Models /\ step \in Probing THEN up \cup {s} ELSE up
      BY <2>2 DEF Loaded
    <3>3. QED  BY <3>1, <3>2 DEF SmokeInv, Seen, Probing
  <2>3. CASE Crash(s)
    <3>1. \A m \in Models : at'[m] = "serving" => at[m] = "serving"
      BY <2>3 DEF Crash, TokenInv
    <3>2. CASE UNCHANGED Smoke
      BY <1>1, <3>1, <3>2 DEF Healthy
    <3>3. CASE SmokeEnds("failed")
      BY <3>3, Ends DEF SmokeInv
    <3>4. QED  BY <2>3, <3>2, <3>3 DEF Crash
  <2>4. QED  BY <1>2, <2>1, <2>2, <2>3 DEF ServiceStep
<1>3. CASE Provisioned \/ Reconfigure \/ UNCHANGED vars
  BY <1>1, <1>3 DEF Provisioned, Reconfigure, vars, Smoke, Healthy
<1>4. CASE SmokeStep
  <2>1. Healthy' = Healthy
    BY <1>4, SmokeLeavesProcesses DEF Processes, Healthy
  <2>2. CASE SmokeBegin \/ SmokePrepare \/ SmokeKilled \/ SmokeSignalled
    BY <2>1, <2>2, Turns DEF SmokeBegin, SmokePrepare, SmokeKilled, SmokeSignalled, SmokeInv, Seen,
                             REQUESTS, Probing
  <2>3. CASE ExpectUnauthorized
    BY <2>3, Turns DEF ExpectUnauthorized, Asks, SmokeInv, Seen, Probing
  <2>4. CASE BeginCheck
    BY <2>1, <2>4 DEF BeginCheck, Asks, Seen, Probing, Healthy
  <2>5. CASE ProbeLlm
    <3>1. llmReady' => "llm" \in Healthy
      <4>1. llmReady' = FALSE \/ llmReady' = ("llm" \in Healthy)
        BY <2>5 DEF ProbeLlm
      <4>2. QED  BY <4>1
    <3>2. step = "probe_llm" /\ step' = "probe_embedding" /\ UNCHANGED up
      BY <2>5 DEF ProbeLlm
    <3>3. QED  BY <2>1, <3>1, <3>2 DEF SmokeInv, Seen, Probing
  <2>6. CASE ProbeEmbedding
    <3>1. CASE SmokeEnds("failed")
      BY <3>1, Ends DEF SmokeInv
    <3>2. ASSUME NEW ok \in {FALSE, "embedding" \in Healthy}, llmReady, ok,
                 step' = "chat", UNCHANGED up
          PROVE  Seen'
      <4>1. up = Models
        BY <2>6, <3>2 DEF ProbeEmbedding, SmokeInv, Seen, Probing, Models
      <4>2. QED  BY <3>2, <4>1 DEF Seen, Probing
    <3>3. QED  BY <2>6, <3>1, <3>2, Turns DEF ProbeEmbedding, Answer
  <2>7. CASE Infer
    <3>1. step' \in {"vision", "embedding", "checking"} /\ up' = {}
      BY <2>7, Turns DEF Infer, Asks
    <3>2. QED  BY <3>1 DEF Seen, Probing
  <2>8. CASE SmokeFails \/ CheckBodies
    <3>1. step' \in Over /\ up' = {}
      BY <2>8 DEF SmokeFails, CheckBodies, SmokeEnds, Over
    <3>2. QED  BY <3>1 DEF Seen, Probing, Over
  <2>9. QED  BY <1>4, <2>2, <2>3, <2>4, <2>5, <2>6, <2>7, <2>8 DEF SmokeStep
<1>5. QED  BY <1>2, <1>3, <1>4, StepKinds

LEMMA AskedStep == SmokeInv /\ [Next]_vars => Asked' /\ Kept'
<1> SUFFICES ASSUME SmokeInv, [Next]_vars PROVE Asked' /\ Kept'
  OBVIOUS
<1>0. Asked /\ Kept
  BY DEF SmokeInv
<1>1. CASE UNCHANGED <<step, held, temp, saved, answered, interrupted>>
  BY <1>0, <1>1 DEF Asked, Kept
<1>2. CASE SmokeEnds("failed")
  BY <1>2, Ends DEF SmokeInv
<1>3. ASSUME NEW s \in Services, ServiceStep(s) PROVE Asked' /\ Kept'
  BY <1>1, <1>2, <1>3 DEF ServiceStep, Start, Configure, Misconfigured, Probe, GiveUp, Exec,
                          Loaded, Crash, Smoke
<1>4. CASE Provisioned \/ Reconfigure \/ UNCHANGED vars
  BY <1>1, <1>4 DEF Provisioned, Reconfigure, vars, Smoke
<1>5. CASE SmokeStep
  <2> USE Turns
  <2>1. CASE SmokeBegin \/ SmokeKilled
    <3>1. CASE SmokeBegin
      BY <1>0, <3>1 DEF SmokeBegin, Asked, Kept, Probing, Bodies
    <3>2. CASE SmokeKilled
      <4>1. step = "preparing" /\ step' = "failed" /\ UNCHANGED <<held, temp, saved, answered, interrupted>>
        BY <3>2 DEF SmokeKilled, History
      <4>2. QED  BY <1>0, <4>1 DEF Asked, Kept, Probing, Bodies
    <3>3. QED  BY <2>1, <3>1, <3>2
  <2>2. CASE SmokePrepare
    <3>1. step' = "missing_auth" /\ UNCHANGED <<temp, saved, answered, interrupted>>
      BY <2>2 DEF SmokePrepare, History, REQUESTS
    <3>2. QED  BY <1>0, <3>1 DEF Asked, Kept, Probing, Over, Bodies
  <2>3. CASE ExpectUnauthorized
    BY <1>0, <2>3 DEF ExpectUnauthorized, Asks, Asked, Kept, Probing, Over, Bodies
  <2>4. CASE BeginCheck \/ ProbeLlm
    <3>1. CASE BeginCheck
      <4>1. step = "ready" /\ step' = "probe_llm" /\ UNCHANGED <<held, temp, saved, answered, interrupted>>
        BY <3>1 DEF BeginCheck, Asks, History
      <4>2. QED  BY <1>0, <4>1 DEF Asked, Kept, Probing, Over, Bodies
    <3>2. CASE ProbeLlm
      <4>1. step = "probe_llm" /\ step' = "probe_embedding" /\ UNCHANGED <<held, temp, saved, answered, interrupted>>
        BY <3>2 DEF ProbeLlm, History
      <4>2. QED  BY <1>0, <4>1 DEF Asked, Kept, Probing, Over, Bodies
    <3>3. QED  BY <2>4, <3>1, <3>2
  <2>5. CASE ProbeEmbedding
    <3>1. CASE /\ step = "probe_embedding" /\ step' = "chat"
               /\ saved' = saved \cup {"ready"} /\ answered' = answered \cup {"ready"}
               /\ UNCHANGED <<held, temp, interrupted>>
      BY <1>0, <3>1 DEF Asked, Kept, Probing, Over, Bodies
    <3>2. QED  BY <1>2, <2>5, <3>1 DEF ProbeEmbedding
  <2>6. CASE Infer
    <3>1. PICK q \in {"chat", "vision", "embedding"} :
             /\ step = q /\ step' = After(q)
             /\ \E proper \in {{}, {q}} :
                   saved' = saved \cup proper /\ answered' = answered \cup proper
      BY <2>6 DEF Infer, Asks
    <3>2. step' \in {"vision", "embedding", "checking"} /\ UNCHANGED <<held, temp, interrupted>>
      BY <2>6, <3>1 DEF Infer
    <3>3. q \in Bodies
      BY DEF Bodies
    <3>4. QED  BY <1>0, <3>1, <3>2, <3>3 DEF Asked, Kept, Probing, Over, Bodies
  <2>7. CASE SmokeFails
    BY <1>2, <2>7 DEF SmokeFails
  <2>8. CASE CheckBodies
    <3>1. CASE SmokeEnds("passed") /\ HasFiles /\ Verified(saved) /\ step = "checking"
      <4>1. answered = Requests /\ ~interrupted
        BY <1>0, <3>1 DEF HasFiles, Verified, Asked, Kept
      <4>2. QED  BY <3>1, <4>1, Ends DEF SmokeInv
    <3>2. QED  BY <1>2, <2>8, <3>1 DEF CheckBodies
  <2>9. CASE SmokeSignalled
    BY <1>0, <2>9 DEF SmokeSignalled, Asked, Kept, Over, Bodies
  <2>10. QED  BY <1>5, <2>1, <2>2, <2>3, <2>4, <2>5, <2>6, <2>7, <2>8, <2>9 DEF SmokeStep
<1>6. QED  BY <1>3, <1>4, <1>5, StepKinds

LEMMA SmokeInvariant == Spec => []SmokeInv
<1>1. TokenInv /\ SmokeInv /\ [Next]_vars => SmokeInv'
  BY SeenStep, AskedStep DEF SmokeInv
<1>2. QED  BY <1>1, SmokeInit, TokenInvariant, PTL DEF Spec

\* A 200 of /readyz means that both models were up during the request.
THEOREM ReadyIsSeen == Spec => []ReadyMeansSeen
<1>1. SmokeInv => ReadyMeansSeen
  BY DEF SmokeInv, Seen, ReadyMeansSeen
<1>2. QED  BY <1>1, SmokeInvariant, PTL

\* A smoke test that passed had six proper answers in a run that no signal has
\* robbed of its files, and one that ended has left its token in no file.
THEOREM SmokeTellsTheTruth == Spec => []SmokeIsEarned
<1>1. SmokeInv => SmokeIsEarned
  BY DEF SmokeInv, Asked, Kept, SmokeIsEarned
<1>2. QED  BY <1>1, SmokeInvariant, PTL

-----------------------------------------------------------------------------
(* Types.                                                                  *)

Turn == Requests \cup Probing \cup Over \cup {"preparing", "checking"}

\* The part of TypeOK that the services change, and that of the smoke test.
ServiceTypes ==
    /\ at \in [Services -> Places]
    /\ env \in Environments
    /\ loaded \in [Services -> Environments]
    /\ probed \in [Services -> 0..2]
    /\ \A s \in Services : probed[s] <= Len(Waits[s]) /\ (at[s] = "paused" => probed[s] = 0)
    /\ tokenFile \in Tokens \cup {NoToken}
    /\ accepted \in Tokens \cup {NoToken}
    /\ provisioning \in BOOLEAN
    /\ crashes \in 0..MaxCrashes /\ changes \in 0..MaxChanges

SmokeTypes ==
    /\ step \in Turn
    /\ held \in Tokens \cup {NoToken} /\ temp \in BOOLEAN
    /\ llmReady \in BOOLEAN /\ up \subseteq Models
    /\ saved \subseteq Bodies /\ answered \subseteq Requests /\ interrupted \in BOOLEAN

LEMMA TypesAre == TypeOK <=> ServiceTypes /\ SmokeTypes
BY DEF TypeOK, ServiceTypes, SmokeTypes, Turn, Places

LEMMA WaitsAre == \A s \in Services : Len(Waits[s]) \in 0..2
BY Names DEF Waits

LEMMA TurnsAre ==
    /\ {"missing_auth", "invalid_auth", "ready", "chat", "vision", "embedding", "probe_llm",
        "probe_embedding", "none", "passed", "failed", "preparing", "checking"} \subseteq Turn
    /\ REQUESTS[1] = "missing_auth"
BY Turns DEF Turn, Probing, Over, Bodies, REQUESTS

LEMMA SmokeEndTypes ==
    ASSUME SmokeTypes, NEW how \in {"passed", "failed"}, SmokeEnds(how)
    PROVE  SmokeTypes'
<1>1. interrupted' \in BOOLEAN
  BY Zenon DEF SmokeEnds
<1>2. QED  BY <1>1, TurnsAre DEF SmokeEnds, SmokeTypes

LEMMA ServiceTypesStep == ServiceTypes /\ [Next]_vars => ServiceTypes'
<1> SUFFICES ASSUME ServiceTypes, [Next]_vars PROVE ServiceTypes'
  OBVIOUS
<1> USE DEF ServiceTypes
<1>1. ASSUME NEW s \in Services, ServiceStep(s) PROVE ServiceTypes'
  <2>1. CASE Start(s)
    BY <2>1, WaitsAre DEF Start, LoadEnvironment, Places
  <2>2. CASE Configure(s)
    <3>1. tokenFile' \in Tokens \cup {NoToken}
      BY <2>2 DEF Configure, WriteToken, Environments
    <3>2. QED  BY <2>2, <3>1 DEF Configure, Places
  <2>3. CASE Misconfigured(s) \/ GiveUp(s) \/ Exec(s)
    BY <2>3 DEF Misconfigured, GiveUp, Exec, Places
  <2>4. CASE Probe(s)
    <3>1. /\ probed[s] < Len(Waits[s]) /\ at[s] = "waiting"
          /\ probed' = [probed EXCEPT ![s] = @ + 1]
          /\ UNCHANGED <<at, env, loaded, tokenFile, accepted, provisioning, crashes, changes>>
      BY <2>4 DEF Probe, HasNext
    <3>2. probed[s] + 1 \in 0..2 /\ probed[s] + 1 <= Len(Waits[s])
      <4> DEFINE p == probed[s]
                 n == Len(Waits[s])
      <4>1. p \in 0..2 /\ n \in 0..2 /\ p < n
        BY <3>1, WaitsAre
      <4> HIDE DEF p, n
      <4>2. p + 1 \in 0..2 /\ p + 1 <= n
        BY <4>1
      <4>3. QED  BY <4>2 DEF p, n
    <3>3. QED  BY <3>1, <3>2
  <2>5. CASE Loaded(s)
    BY <2>5 DEF Loaded, Places
  <2>6. CASE Crash(s)
    <3>1. crashes' \in 0..MaxCrashes
      BY <2>6, StackAssumption DEF Crash
    <3>2. QED  BY <2>6, <3>1 DEF Crash, Places
  <2>7. QED  BY <1>1, <2>1, <2>2, <2>3, <2>4, <2>5, <2>6 DEF ServiceStep
<1>2. CASE Provisioned
  BY <1>2 DEF Provisioned
<1>3. CASE Reconfigure
  <2>1. changes' \in 0..MaxChanges
    BY <1>3, StackAssumption DEF Reconfigure
  <2>2. QED  BY <1>3, <2>1 DEF Reconfigure
<1>4. CASE SmokeStep
  BY <1>4, SmokeLeavesProcesses DEF Processes
<1>5. CASE UNCHANGED vars
  BY <1>5 DEF vars
<1>6. QED  BY <1>1, <1>2, <1>3, <1>4, <1>5, StepKinds

LEMMA SmokeTypesStep == SmokeTypes /\ [Next]_vars => SmokeTypes'
<1> SUFFICES ASSUME SmokeTypes, [Next]_vars PROVE SmokeTypes'
  OBVIOUS
<1>1. CASE UNCHANGED Smoke
  BY <1>1 DEF Smoke, SmokeTypes
<1>2. ASSUME NEW s \in Services, ServiceStep(s) PROVE SmokeTypes'
  <2>1. CASE Start(s) \/ Configure(s) \/ Misconfigured(s) \/ Probe(s) \/ GiveUp(s) \/ Exec(s)
    BY <1>1, <2>1 DEF Start, Configure, Misconfigured, Probe, GiveUp, Exec
  <2>2. CASE Loaded(s)
    BY <2>2 DEF Loaded, SmokeTypes
  <2>3. CASE Crash(s)
    BY <1>1, <2>3, SmokeEndTypes DEF Crash
  <2>4. QED  BY <1>2, <2>1, <2>2, <2>3 DEF ServiceStep
<1>3. CASE Provisioned \/ Reconfigure \/ UNCHANGED vars
  BY <1>1, <1>3 DEF Provisioned, Reconfigure, vars, Smoke
<1>4. CASE SmokeStep
  <2>1. CASE SmokeBegin \/ SmokePrepare \/ SmokeKilled
    BY <2>1, TurnsAre DEF SmokeBegin, SmokePrepare, SmokeKilled, History, SmokeTypes
  <2>2. CASE ExpectUnauthorized
    BY <2>2, Turns, TurnsAre DEF ExpectUnauthorized, SmokeTypes
  <2>3. CASE BeginCheck \/ ProbeLlm
    <3>1. CASE BeginCheck
      BY <3>1, TurnsAre DEF BeginCheck, History, SmokeTypes, Healthy
    <3>2. CASE ProbeLlm
      <4>1. llmReady' \in BOOLEAN
        <5>1. llmReady' = FALSE \/ llmReady' = ("llm" \in Healthy)
          BY <3>2, Zenon DEF ProbeLlm
        <5>2. ("llm" \in Healthy) \in BOOLEAN
          BY SMT
        <5>3. QED  BY <5>1, <5>2, Zenon
      <4>2. QED  BY <3>2, <4>1, TurnsAre DEF ProbeLlm, History, SmokeTypes
    <3>3. QED  BY <2>3, <3>1, <3>2
  <2>4. CASE ProbeEmbedding
    <3>1. CASE SmokeEnds("failed")
      BY <3>1, SmokeEndTypes
    <3>2. CASE /\ step' = After("ready")
               /\ saved' = saved \cup {"ready"} /\ answered' = answered \cup {"ready"}
               /\ UNCHANGED <<held, temp, llmReady, up, interrupted>>
      BY <3>2, Turns, TurnsAre DEF SmokeTypes, Bodies
    <3>3. QED  BY <2>4, <3>1, <3>2 DEF ProbeEmbedding
  <2>5. CASE Infer
    <3>1. PICK q \in {"chat", "vision", "embedding"} :
             /\ step' = After(q)
             /\ \E proper \in {{}, {q}} :
                   saved' = saved \cup proper /\ answered' = answered \cup proper
      BY <2>5 DEF Infer
    <3>2. step' \in Turn
      BY <3>1, Turns, TurnsAre
    <3>3. saved' \subseteq Bodies /\ answered' \subseteq Requests
      BY <3>1, Turns DEF SmokeTypes, Bodies
    <3>4. QED  BY <2>5, <3>2, <3>3 DEF Infer, SmokeTypes
  <2>6. CASE SmokeFails
    BY <2>6, SmokeEndTypes DEF SmokeFails
  <2>7. CASE CheckBodies
    BY <2>7, SmokeEndTypes DEF CheckBodies
  <2>8. CASE SmokeSignalled
    BY <2>8 DEF SmokeSignalled, SmokeTypes
  <2>9. QED  BY <1>4, <2>1, <2>2, <2>3, <2>4, <2>5, <2>6, <2>7, <2>8 DEF SmokeStep
<1>5. QED  BY <1>2, <1>3, <1>4, StepKinds

\* No script counts more dependencies than it has, a paused one none, and no run
\* of the smoke test has a step or a body that is not one of its own.
THEOREM TypeCorrect == Spec => []TypeOK
<1>1. Init => ServiceTypes
  BY WaitsAre, StackAssumption DEF Init, ServiceTypes, Places
<1>2. Init => SmokeTypes
  BY TurnsAre DEF Init, SmokeTypes
<1>3. QED  BY <1>1, <1>2, ServiceTypesStep, SmokeTypesStep, TypesAre, PTL DEF Spec
==============================================================================
