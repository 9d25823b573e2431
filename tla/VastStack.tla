----------------------------- MODULE VastStack ------------------------------
(***************************************************************************)
(* The Vast.ai instance (src/deploy/vast): Supervisor starts the embedding *)
(* server, the LLM server and the gateway, and restarts whatever exits.    *)
(* Each start script waits for provisioning, checks its configuration,     *)
(* waits for the servers it depends on and then execs its program.  Beside *)
(* them the smoke test (smoke.sh), a client that asks the gateway one      *)
(* thing after the other; its GET /readyz (gateway/app.py) probes the two  *)
(* model servers in turn.                                                  *)
(***************************************************************************)
EXTENDS Integers, Sequences

CONSTANTS Tokens,        \* values of the API token that are long enough
          NoToken,       \* a missing or short one
          MaxCrashes,    \* bound: exits that no start script decides
          MaxChanges     \* bound: edits of /etc/environment

ASSUME StackAssumption == /\ NoToken \notin Tokens
                          /\ MaxCrashes \in Nat /\ MaxChanges \in Nat

Models == {"llm", "embedding"}
Services == Models \cup {"gateway"}

VARIABLES
    at,            \* where each service's script or program is
    env,           \* /etc/environment: the GPU fractions fit, the API token
    loaded,        \* the environment each running script has loaded
    probed,        \* how many of its dependencies a script has found healthy
    tokenFile,     \* GATEWAY_TOKEN_FILE
    accepted,      \* the token the running gateway compares with
    provisioning,  \* /.provisioning exists
    step,          \* where the smoke test is
    held,          \* the token written to its curl.conf
    temp,          \* its temporary directory exists
    llmReady,      \* what the first probe of its /readyz found
    up,            \* model servers that were up during its /readyz
    saved,         \* answers in its directory that are as they should be
    answered,      \* history: requests of this run answered as they should be
    interrupted,   \* history: a signal has removed the files of this run
    crashes, changes

vars == <<at, env, loaded, probed, tokenFile, accepted, provisioning,
          step, held, temp, llmReady, up, saved, answered, interrupted, crashes, changes>>

Environments == [budget : BOOLEAN, token : Tokens \cup {NoToken}]

\* Faulty variants, here and below: plausible mistakes that the properties
\* must notice.  Nothing uses them.
WaitsInACircle ==
    [embedding |-> <<"llm">>, llm |-> <<"embedding">>, gateway |-> <<"llm", "embedding">>]

\* The dependencies a start script waits for, in its order.
Waits == [embedding |-> <<>>, llm |-> <<"embedding">>, gateway |-> <<"llm", "embedding">>]

\* The requests of the smoke test, in its order; /readyz takes two steps.
REQUESTS == <<"missing_auth", "invalid_auth", "ready", "chat", "vision", "embedding">>
Requests == {REQUESTS[i] : i \in DOMAIN REQUESTS}
After(q) == LET i == CHOOSE i \in DOMAIN REQUESTS : REQUESTS[i] = q
            IN  IF i = Len(REQUESTS) THEN "checking" ELSE REQUESTS[i + 1]
Probing == {"probe_llm", "probe_embedding"}
Bodies == {"ready", "chat", "vision", "embedding"}
Over == {"none", "passed", "failed"}

Healthy == {s \in Models : at[s] = "serving"}

\* The values of processes and files; a script never counts more dependencies
\* than it has, and has found none while it is paused.
TypeOK ==
    /\ at \in [Services -> {"down", "paused", "waiting", "loading", "serving"}]
    /\ env \in Environments
    /\ loaded \in [Services -> Environments]
    /\ probed \in [Services -> 0..2]
    /\ \A s \in Services : /\ probed[s] <= Len(Waits[s])
                           /\ at[s] = "paused" => probed[s] = 0
    /\ tokenFile \in Tokens \cup {NoToken}
    /\ accepted \in Tokens \cup {NoToken}
    /\ provisioning \in BOOLEAN
    /\ step \in Requests \cup Probing \cup Over \cup {"preparing", "checking"}
    /\ held \in Tokens \cup {NoToken} /\ temp \in BOOLEAN
    /\ llmReady \in BOOLEAN /\ up \subseteq Models
    /\ saved \subseteq Bodies /\ answered \subseteq Requests /\ interrupted \in BOOLEAN
    /\ crashes \in 0..MaxCrashes /\ changes \in 0..MaxChanges

Init ==
    /\ at = [s \in Services |-> "down"]
    /\ env \in Environments
    /\ loaded = [s \in Services |-> env]
    /\ probed = [s \in Services |-> 0]
    /\ tokenFile = NoToken /\ accepted = NoToken
    /\ provisioning = TRUE
    /\ step = "none" /\ held = NoToken /\ temp = FALSE
    /\ llmReady = FALSE /\ up = {}
    /\ saved = {} /\ answered = {} /\ interrupted = FALSE
    /\ crashes = 0 /\ changes = 0

-----------------------------------------------------------------------------
(* Supervisor and the start scripts.                                       *)

Smoke == <<step, held, temp, llmReady, up, saved, answered, interrupted>>

\* However smoke.sh ends by itself, its EXIT trap removes the temporary
\* directory.  What it was answered matters only if it passed.
SmokeEnds(how) ==
    /\ step' = how
    /\ held' = NoToken /\ temp' = FALSE /\ llmReady' = FALSE /\ up' = {} /\ saved' = {}
    /\ answered' = IF how = "passed" THEN answered ELSE {}
    /\ interrupted' = (how = "passed" /\ interrupted)

\* load_vast_runtime: the script sources the environment as it is now.
LoadEnvironment(s) == loaded' = [loaded EXCEPT ![s] = env]

\* autostart and autorestart: startsecs=0, so no start is ever "too quick".
\* The script sources the environment before it waits for provisioning.
Start(s) ==
    /\ at[s] = "down"
    /\ at' = [at EXCEPT ![s] = "paused"]
    /\ LoadEnvironment(s)
    /\ probed' = [probed EXCEPT ![s] = 0]
    /\ UNCHANGED <<env, tokenFile, accepted, provisioning, crashes, changes>>
    /\ UNCHANGED Smoke

\* validate_fraction_budget for the models, the token's length for the gateway.
Configured(s) == IF s \in Models THEN loaded[s].budget
                                 ELSE loaded[s].token \in Tokens

WriteTokenOnce(s) ==
    IF s = "gateway" /\ tokenFile = NoToken
    THEN tokenFile' = loaded[s].token ELSE UNCHANGED tokenFile

\* write_token_file, by the gateway's script only.
WriteToken(s) ==
    IF s = "gateway" THEN tokenFile' = loaded[s].token ELSE UNCHANGED tokenFile

\* wait_for_provisioning has returned.
Configure(s) ==
    /\ at[s] = "paused" /\ ~provisioning
    /\ Configured(s)
    /\ at' = [at EXCEPT ![s] = "waiting"]
    /\ WriteToken(s)
    /\ UNCHANGED <<env, loaded, probed, accepted, provisioning, crashes, changes>>
    /\ UNCHANGED Smoke

Misconfigured(s) ==
    /\ at[s] = "paused" /\ ~provisioning
    /\ ~Configured(s)
    /\ at' = [at EXCEPT ![s] = "down"]
    /\ UNCHANGED <<env, loaded, probed, tokenFile, accepted, provisioning, crashes, changes>>
    /\ UNCHANGED Smoke

HasNext(s) == at[s] = "waiting" /\ probed[s] < Len(Waits[s])
NextDependency(s) == Waits[s][probed[s] + 1]

ProbeAnyAnswer(s) ==
    /\ HasNext(s)
    /\ at[NextDependency(s)] \in {"loading", "serving"}
    /\ probed' = [probed EXCEPT ![s] = @ + 1]
    /\ UNCHANGED <<at, env, loaded, tokenFile, accepted, provisioning, crashes, changes>>
    /\ UNCHANGED Smoke

\* wait_for_http: curl --fail succeeds.  A failing curl is tried again, which
\* changes nothing, until the timeout.
Probe(s) ==
    /\ HasNext(s)
    /\ NextDependency(s) \in Healthy
    /\ probed' = [probed EXCEPT ![s] = @ + 1]
    /\ UNCHANGED <<at, env, loaded, tokenFile, accepted, provisioning, crashes, changes>>
    /\ UNCHANGED Smoke

\* The timeout: `set -e` ends the script.
GiveUp(s) ==
    /\ HasNext(s)
    /\ NextDependency(s) \notin Healthy
    /\ at' = [at EXCEPT ![s] = "down"]
    /\ UNCHANGED <<env, loaded, probed, tokenFile, accepted, provisioning, crashes, changes>>
    /\ UNCHANGED Smoke

Exec(s) ==
    /\ at[s] = "waiting" /\ probed[s] = Len(Waits[s])
    /\ at' = [at EXCEPT ![s] = "loading"]
    /\ UNCHANGED <<env, loaded, probed, tokenFile, accepted, provisioning, crashes, changes>>
    /\ UNCHANGED Smoke

\* The program is ready: the model is loaded, or create_app_from_env has read
\* the token file.  A model that comes up is noted for the /readyz in progress.
Loaded(s) ==
    /\ at[s] = "loading"
    /\ at' = [at EXCEPT ![s] = "serving"]
    /\ accepted' = IF s = "gateway" THEN tokenFile ELSE accepted
    /\ up' = IF s \in Models /\ step \in Probing THEN up \cup {s} ELSE up
    /\ UNCHANGED <<env, loaded, probed, tokenFile, provisioning, crashes, changes>>
    /\ UNCHANGED <<step, held, temp, llmReady, saved, answered, interrupted>>

\* A program or a script is killed; a gateway takes the /readyz in progress with
\* it, which curl sees as a failure.
Crash(s) ==
    /\ crashes < MaxCrashes
    /\ at[s] # "down"
    /\ at' = [at EXCEPT ![s] = "down"]
    /\ crashes' = crashes + 1
    /\ IF s = "gateway" /\ step \in Probing THEN SmokeEnds("failed") ELSE UNCHANGED Smoke
    /\ UNCHANGED <<env, loaded, probed, tokenFile, accepted, provisioning, changes>>

Provisioned ==
    /\ provisioning /\ provisioning' = FALSE
    /\ UNCHANGED <<at, env, loaded, probed, tokenFile, accepted, crashes, changes>>
    /\ UNCHANGED Smoke

\* The operator edits /etc/environment.
Reconfigure ==
    /\ changes < MaxChanges
    /\ env' \in Environments \ {env}
    /\ changes' = changes + 1
    /\ UNCHANGED <<at, loaded, probed, tokenFile, accepted, provisioning, crashes>>
    /\ UNCHANGED Smoke

-----------------------------------------------------------------------------
(* smoke.sh and the answers it gets.                                       *)

Processes == <<at, env, loaded, probed, tokenFile, accepted, provisioning, crashes, changes>>

History == <<answered, interrupted>>

\* The arguments are well-formed, the token file is private and its token long
\* enough: mktemp has made the directory, and the trap is not set yet.
SmokeBegin ==
    /\ step \in Over
    /\ step' = "preparing" /\ temp' = TRUE /\ held' = NoToken
    /\ llmReady' = FALSE /\ up' = {}
    /\ saved' = {} /\ answered' = {} /\ interrupted' = FALSE
    /\ UNCHANGED Processes

\* The trap is set; then the token is written, with the other curl
\* configurations and the request bodies.
SmokePrepare ==
    /\ step = "preparing"
    /\ \E t \in Tokens : held' = t
    /\ step' = REQUESTS[1]
    /\ UNCHANGED <<temp, llmReady, up, saved>> /\ UNCHANGED History /\ UNCHANGED Processes

\* A signal before the trap is set ends the script as signals do by default: the
\* directory, still empty, stays behind.
SmokeKilled ==
    /\ step = "preparing"
    /\ step' = "failed"
    /\ UNCHANGED <<held, temp, llmReady, up, saved>> /\ UNCHANGED History
    /\ UNCHANGED Processes

FilesMadeAgain == TRUE

\* curl reads its configuration from the directory and writes the answer to it,
\* and so does the program that checks the answers.
HasFiles == temp

\* curl can start, and somebody listens at the base URL.
Asks(q) == step = q /\ HasFiles /\ at["gateway"] = "serving"

\* expect_unauthorized: neither no token nor a wrong one is accepted.
ExpectUnauthorized ==
    /\ \E q \in {"missing_auth", "invalid_auth"} :
          Asks(q) /\ step' = After(q) /\ answered' = answered \cup {q}
    /\ UNCHANGED <<held, temp, llmReady, up, saved, interrupted>> /\ UNCHANGED Processes

BeginCheck ==
    /\ Asks("ready")
    /\ step' = "probe_llm" /\ up' = Healthy
    /\ UNCHANGED <<held, temp, llmReady, saved>> /\ UNCHANGED History /\ UNCHANGED Processes

\* readyz: a healthy server may still fail the probe, by an error or a timeout.
ProbeLlm ==
    /\ step = "probe_llm"
    /\ \E ok \in {FALSE, "llm" \in Healthy} : llmReady' = ok
    /\ step' = "probe_embedding"
    /\ UNCHANGED <<held, temp, up, saved>> /\ UNCHANGED History /\ UNCHANGED Processes

AnswerOnAny(llm, embedding) == llm \/ embedding

Answer(llm, embedding) == llm /\ embedding

\* A 503 makes curl fail (--fail-with-body), and with it the script.
ProbeEmbedding ==
    /\ step = "probe_embedding"
    /\ \E ok \in {FALSE, "embedding" \in Healthy} :
          IF Answer(llmReady, ok)
          THEN /\ step' = After("ready")
               /\ saved' = saved \cup {"ready"} /\ answered' = answered \cup {"ready"}
               /\ UNCHANGED <<held, temp, llmReady, up, interrupted>>
          ELSE SmokeEnds("failed")
    /\ UNCHANGED Processes

\* A 200 to an inference request may still hold no choice or no vector.
Infer ==
    /\ \E q \in {"chat", "vision", "embedding"} :
          /\ Asks(q) /\ accepted = held
          /\ (IF q = "embedding" THEN "embedding" ELSE "llm") \in Healthy
          /\ step' = After(q)
          /\ \E proper \in {{}, {q}} :
                saved' = saved \cup proper /\ answered' = answered \cup proper
    /\ llmReady' = FALSE /\ up' = {}
    /\ UNCHANGED <<held, temp, interrupted>> /\ UNCHANGED Processes

\* A command fails, curl most often: no connection, 401, 502, no files.
SmokeFails ==
    /\ step \in Requests \cup {"preparing", "checking"}
    /\ SmokeEnds("failed")
    /\ UNCHANGED Processes

Verified(bodies) == bodies = Bodies

\* The Python program reads the four files, or fails for want of them.
CheckBodies ==
    /\ step = "checking"
    /\ IF HasFiles /\ Verified(saved) THEN SmokeEnds("passed") ELSE SmokeEnds("failed")
    /\ UNCHANGED Processes

\* trap cleanup INT TERM: bash runs it when the command in progress has ended.
\* The files go, and the script goes on.
SmokeSignalled ==
    /\ step \in Requests \cup {"checking"} /\ temp
    /\ temp' = FALSE /\ saved' = {} /\ interrupted' = TRUE
    /\ UNCHANGED <<step, held, llmReady, up, answered>> /\ UNCHANGED Processes

-----------------------------------------------------------------------------
Next ==
    \/ \E s \in Services :
          \/ Start(s) \/ Configure(s) \/ Misconfigured(s) \/ Probe(s)
          \/ GiveUp(s) \/ Exec(s) \/ Loaded(s) \/ Crash(s)
    \/ Provisioned \/ Reconfigure
    \/ SmokeBegin \/ SmokePrepare \/ SmokeKilled
    \/ ExpectUnauthorized \/ BeginCheck \/ ProbeLlm \/ ProbeEmbedding
    \/ Infer \/ SmokeFails \/ CheckBodies \/ SmokeSignalled

Spec == Init /\ [][Next]_vars

\* Supervisor restarts what exits, the scripts run on, curl is repeated every
\* two seconds and a model that is not killed loads.  A timeout may always come
\* first; provisioning, the operator and crashes owe nothing.
FairSpec ==
    /\ Spec
    /\ \A s \in Services :
          /\ WF_vars(Start(s)) /\ WF_vars(Configure(s) \/ Misconfigured(s))
          /\ WF_vars(Probe(s)) /\ WF_vars(Exec(s)) /\ WF_vars(Loaded(s))

-----------------------------------------------------------------------------
(* Properties.                                                             *)

\* Start order: as long as nothing was killed, a model server or the gateway
\* only starts its program while everything it depends on is up, so the two
\* models never size their GPU memory at the same time.
OrderlyStart ==
    crashes = 0 =>
        /\ at["llm"] \in {"loading", "serving"} => "embedding" \in Healthy
        /\ at["gateway"] \in {"loading", "serving"} => Healthy = Models

\* A gateway that serves compares with a valid token, the one of the
\* environment its own start script loaded: not a token left in the file by an
\* earlier start, and none when the configuration is missing.
TokenOfThisStart ==
    at["gateway"] = "serving" =>
        accepted \in Tokens /\ accepted = tokenFile /\ accepted = loaded["gateway"].token

\* /readyz answers 200 only if each model server was up at some point of the
\* request.
ReadyMeansSeen == step = "chat" => up = Models

\* A smoke test that passes got a proper answer to each of its six requests, in
\* one run whose files no signal has removed; and a script that has ended, by
\* itself or by a signal, has left its token in no file.
SmokeIsEarned ==
    /\ step = "passed" => answered = Requests /\ ~interrupted
    /\ step \in Over => ~(temp /\ held # NoToken)

\* The stack comes up by itself and stays up once provisioning is over, the
\* configuration is right and nothing is killed any more: no start waits for a
\* start that waits for it, and no earlier exit is final.
GoodConfiguration == ~provisioning /\ env.budget /\ env.token \in Tokens
ComesUp == <>[]GoodConfiguration => <>[](\A s \in Services : at[s] = "serving")
=============================================================================
