---------------------------- MODULE ComposeStack ----------------------------
(***************************************************************************)
(* The Docker Compose target.  scripts/init_secrets.sh writes four secret  *)
(* files; scripts/stack.sh has the configuration validated (stack.py) and  *)
(* calls docker compose; the containers' entrypoints read the secrets that *)
(* compose.yaml mounts and exit on those they cannot use, and Docker       *)
(* starts again what exits.  init_secrets.sh may be killed, repeated, and  *)
(* run twice at once.                                                      *)
(***************************************************************************)
EXTENDS Integers, Sequences, FiniteSets

CONSTANTS Inits,       \* runs of init_secrets.sh
          Calls,       \* their calls of create_secret: a file and its owner
          Services,    \* the services named on stack.sh's command line
          MaxKills,    \* bound: runs of init_secrets.sh that are killed
          MaxEdits,    \* bound: edits of config/gpu.env
          MaxCrashes   \* bound: containers that are killed

\* The users that the containers run as: `user` of the gateway's Dockerfile,
\* and of the images (external).  "root" reads every file.
UserOf == [gateway |-> "10001", grafana |-> "472", keycloak |-> "1000", database |-> "root"]

\* secrets: of the services in compose.yaml.
Mounts == [gateway  |-> {"gateway-token"},
           grafana  |-> {"grafana-admin-password"},
           keycloak |-> {"keycloak-admin-password", "keycloak-db-password"},
           database |-> {"keycloak-db-password"}]

\* The calls in init_secrets.sh, in their order.
CreateSecrets == <<<<"gateway-token", "10001">>, <<"grafana-admin-password", "472">>,
                   <<"keycloak-admin-password", "1000">>, <<"keycloak-db-password", "root">>>>

ASSUME ComposeAssumption ==
    /\ Calls \in Seq({CreateSecrets[k] : k \in DOMAIN CreateSecrets}) /\ Calls # <<>>
    /\ \A j, k \in DOMAIN Calls : Calls[j][1] = Calls[k][1] => j = k
    /\ Services \subseteq DOMAIN Mounts
    /\ \A s \in Services : Mounts[s] \subseteq {Calls[k][1] : k \in DOMAIN Calls}
    /\ Inits \cap {"absent", "empty", "directory", "given"} = {}
    /\ MaxKills \in Nat /\ MaxEdits \in Nat /\ MaxCrashes \in Nat

VARIABLES
    file,         \* secrets/: the value, the owner, and whether the mode is 0600
    step, place,  \* where each run of init_secrets.sh is, and at which secret
    overlapped,   \* two of them ran at once
    env,          \* config/gpu.env
    checked,      \* stack.sh has had it validated and not yet used
    gap,          \* it was edited between a validation and its use
    created,      \* the environment file each container was created from
    at,           \* where each container is
    held,         \* the secrets it has read
    edits, crashes

secretVars == <<file, step, place, overlapped>>
stackVars == <<env, checked, gap, edits>>
containerVars == <<created, at, held, crashes>>
vars == <<secretVars, stackVars, containerVars>>

Secrets == {Calls[k][1] : k \in DOMAIN Calls}

\* A whole value: the run that drew it, or "given" by somebody else.
Wholes == Inits \cup {"given"}
Files == [value : Wholes \cup {"absent", "empty", "directory"},
          owner : {"root", "10001", "472", "1000"}, private : BOOLEAN]
Absent == [value |-> "absent", owner |-> "root", private |-> TRUE]

\* The environment file: how it writes an image, and GATEWAY_AUTH_MODE.
\*   pinned     X=name:tag@digest            latest    X=name:latest
\*   decorated  X=name:latest # note, or X=${Y:-name:latest}
\*   unclosed   X="name:tag                  blank     X= or the line X
\*   missing    there is no file
Notations == {"pinned", "latest", "decorated", "unclosed", "blank", "missing"}
Environments == [images : Notations, mode : {"token", "oidc"}]

Running(i) == step[i] \in {"checking", "creating", "filling", "owning", "closing"}
Current(i) == Calls[place[i]][1]

\* The values of files, scripts and containers; a container has read its
\* secrets exactly when it is past its entrypoint.
TypeOK ==
    /\ file \in [Secrets -> Files]
    /\ step \in [Inits -> {"idle", "checking", "creating", "filling", "owning", "closing",
                           "done", "failed", "killed"}]
    /\ place \in [Inits -> DOMAIN Calls]
    /\ overlapped \in BOOLEAN
    /\ env \in Environments /\ checked \in BOOLEAN /\ gap \in BOOLEAN
    /\ created \in [Services -> Environments]
    /\ at \in [Services -> {"none", "starting", "read", "serving", "exited"}]
    /\ \A s \in Services :
          /\ DOMAIN held[s] \subseteq Mounts[s]
          /\ at[s] \notin {"read", "serving"} => held[s] = <<>>
    /\ edits \in 0..MaxEdits /\ crashes \in 0..MaxCrashes

\* No secret is there yet, or one that somebody copied or a wrong path; config/
\* gpu.env is the example, with the images as the operator has rewritten them.
Init ==
    /\ \E f \in Secrets, v \in {"absent", "given", "directory"} :
          file = [[g \in Secrets |-> Absent] EXCEPT
                     ![f] = [value |-> v, owner |-> "root", private |-> v = "absent"]]
    /\ step = [i \in Inits |-> "idle"] /\ place = [i \in Inits |-> 1]
    /\ overlapped = FALSE
    /\ env \in Environments /\ env.mode = "token"
    /\ checked = FALSE /\ gap = FALSE
    /\ created = [s \in Services |-> env]
    /\ at = [s \in Services |-> "none"] /\ held = [s \in Services |-> <<>>]
    /\ edits = 0 /\ crashes = 0

-----------------------------------------------------------------------------
(* init_secrets.sh.                                                        *)

Go(i, from, to) == step[i] = from /\ step' = [step EXCEPT ![i] = to]

Others == UNCHANGED stackVars /\ UNCHANGED containerVars

Begin(i) ==
    /\ Go(i, "idle", "checking")
    /\ overlapped' = (overlapped \/ \E j \in Inits : Running(j))
    /\ UNCHANGED <<file, place>> /\ Others

\* Faulty variants, here and below: plausible mistakes that the properties
\* must notice.  Nothing uses them.
CheckNothing(i) ==
    /\ Go(i, "checking", "creating")
    /\ UNCHANGED <<file, place, overlapped>> /\ Others

\* create_secret: a file that is there is kept, anything else that is there is
\* refused.
Check(i) ==
    /\ \/ file[Current(i)].value = "absent" /\ Go(i, "checking", "creating")
       \/ file[Current(i)].value \in Wholes \cup {"empty"} /\ Go(i, "checking", "owning")
       \/ file[Current(i)].value = "directory" /\ Go(i, "checking", "failed")
    /\ UNCHANGED <<file, place, overlapped>> /\ Others

\* The redirection, under umask 077: a new file is private and root's; one that
\* another run has made meanwhile is emptied.
Create(i) ==
    /\ Go(i, "creating", "filling")
    /\ file' = [file EXCEPT ![Current(i)] =
                   [IF @.value = "absent" THEN Absent ELSE @ EXCEPT !.value = "empty"]]
    /\ UNCHANGED <<place, overlapped>> /\ Others

\* openssl rand: its one line is written, or it fails and ends the script.
Fill(i) ==
    /\ \/ /\ Go(i, "filling", "owning")
          /\ file' = [file EXCEPT ![Current(i)].value = i]
       \/ Go(i, "filling", "failed") /\ UNCHANGED file
    /\ UNCHANGED <<place, overlapped>> /\ Others

\* chown.
Own(i) ==
    /\ Go(i, "owning", "closing")
    /\ file' = [file EXCEPT ![Current(i)].owner = Calls[place[i]][2]]
    /\ UNCHANGED <<place, overlapped>> /\ Others

CloseNewOnly(i) ==
    /\ step[i] = "closing"
    /\ file' = [file EXCEPT ![Current(i)].private = (@ \/ file[Current(i)].value = i)]
    /\ IF place[i] < Len(Calls)
       THEN Go(i, "closing", "checking") /\ place' = [place EXCEPT ![i] = @ + 1]
       ELSE Go(i, "closing", "done") /\ UNCHANGED place
    /\ UNCHANGED overlapped /\ Others

\* chmod 600, and on to the next secret.
Close(i) ==
    /\ step[i] = "closing"
    /\ file' = [file EXCEPT ![Current(i)].private = TRUE]
    /\ IF place[i] < Len(Calls)
       THEN Go(i, "closing", "checking") /\ place' = [place EXCEPT ![i] = @ + 1]
       ELSE Go(i, "closing", "done") /\ UNCHANGED place
    /\ UNCHANGED overlapped /\ Others

KillInit(i) ==
    /\ Running(i) /\ Cardinality({j \in Inits : step[j] = "killed"}) < MaxKills
    /\ step' = [step EXCEPT ![i] = "killed"]
    /\ UNCHANGED <<file, place, overlapped>> /\ Others

-----------------------------------------------------------------------------
(* stack.sh.                                                               *)

\* The operator edits config/gpu.env.
Edit ==
    /\ edits < MaxEdits
    /\ env' \in Environments \ {env}
    /\ gap' = (gap \/ checked) /\ edits' = edits + 1
    /\ UNCHANGED <<checked, secretVars, containerVars>>

\* What validate_compose takes for the image.  _read_env_file strips a pair of
\* quotes and nothing else, and _expand_compose_defaults expands compose.yaml's
\* own variables only: comments, inner variables and a single quote stay in the
\* text.  A variable that is set to nothing counts as set.
ValidatorReads == [pinned    |-> "pinned", latest   |-> "latest",
                   decorated |-> "text",   unclosed |-> "text",
                   blank     |-> "no tag", missing  |-> "error"]

\* What docker compose makes of the same file: it drops comments, expands inner
\* variables, refuses a quote that is not closed, and takes compose.yaml's
\* default, which is pinned, for a variable that is empty or not set.
ComposeReads == [pinned    |-> "pinned", latest   |-> "latest",
                 decorated |-> "latest", unclosed |-> "error",
                 blank     |-> "pinned", missing  |-> "error"]

ReadAlike(e) == ValidatorReads[e.images] = ComposeReads[e.images]
Understood(e) == ComposeReads[e.images] # "error"

ValidAnyTag(e) == ValidatorReads[e.images] \notin {"no tag", "error"}

\* validate_compose: a file that it cannot read, and an image that has neither
\* tag nor digest or that ends in the mutable tag, are refused.
Valid(e) == ValidatorReads[e.images] \notin {"no tag", "latest", "error"}

\* `local-ai-lab stack validate`; an invalid configuration ends the script.
Validate ==
    /\ ~checked /\ Valid(env)
    /\ checked' = TRUE
    /\ UNCHANGED <<env, gap, edits, secretVars, containerVars>>

Present(s) == \A f \in Mounts[s] : file[f].value # "absent"

\* What a container of docker compose is made from.
Configuration(e) == <<ComposeReads[e.images], e.mode>>

\* docker compose up -d: containers that are not there, or that have another
\* configuration, are created; one whose secret is not there cannot be mounted.
Up ==
    /\ checked /\ checked' = FALSE
    /\ LET fresh == {s \in Services :
                        /\ Understood(env) /\ Present(s)
                        /\ at[s] = "none" \/ Configuration(created[s]) # Configuration(env)}
       IN  /\ created' = [s \in Services |-> IF s \in fresh THEN env ELSE created[s]]
           /\ at' = [s \in Services |-> IF s \in fresh THEN "starting" ELSE at[s]]
           /\ held' = [s \in Services |-> IF s \in fresh THEN <<>> ELSE held[s]]
    /\ UNCHANGED <<env, gap, edits, crashes, secretVars>>

\* docker compose down, which removes the containers.
Down ==
    /\ checked /\ checked' = FALSE
    /\ Understood(env)
    /\ at' = [s \in Services |-> "none"] /\ held' = [s \in Services |-> <<>>]
    /\ UNCHANGED <<env, gap, edits, created, crashes, secretVars>>

-----------------------------------------------------------------------------
(* The containers.                                                         *)

Outside == UNCHANGED secretVars /\ UNCHANGED stackVars

MoveTo(s, from, to) == at[s] = from /\ at' = [at EXCEPT ![s] = to]

\* The gateway wants its token only in token mode.
Wants(s) == IF s = "gateway" /\ created[s].mode = "oidc" THEN {} ELSE Mounts[s]

Readable(s, f) == /\ file[f].value # "directory"
                  /\ UserOf[s] = "root" \/ UserOf[s] = file[f].owner \/ ~file[f].private

\* The entrypoint copies its secrets, or takes them into its environment; cp and
\* tr fail on a file that the container's user may not read.
ReadSecrets(s) ==
    /\ IF \A f \in Wants(s) : Readable(s, f)
       THEN /\ MoveTo(s, "starting", "read")
            /\ held' = [held EXCEPT ![s] = [f \in Wants(s) |-> file[f].value]]
       ELSE MoveTo(s, "starting", "exited") /\ UNCHANGED held
    /\ UNCHANGED <<created, crashes>> /\ Outside

AcceptsAny(s, value) == value \in Wholes \cup {"empty"}

\* read_token_file and keycloak-entrypoint.sh want 32 characters, Postgres a
\* password; Grafana takes what there is.
Accepts(s, value) == value \in Wholes \/ (value = "empty" /\ s = "grafana")

Serve(s) ==
    /\ IF \A f \in DOMAIN held[s] : Accepts(s, held[s][f])
       THEN MoveTo(s, "read", "serving") /\ UNCHANGED held
       ELSE MoveTo(s, "read", "exited") /\ held' = [held EXCEPT ![s] = <<>>]
    /\ UNCHANGED <<created, crashes>> /\ Outside

RestartOnCrashOnly(s) ==
    /\ crashes > 0
    /\ MoveTo(s, "exited", "starting")
    /\ UNCHANGED <<created, held, crashes>> /\ Outside

\* restart: unless-stopped.
Restart(s) ==
    /\ MoveTo(s, "exited", "starting")
    /\ UNCHANGED <<created, held, crashes>> /\ Outside

Crash(s) ==
    /\ crashes < MaxCrashes /\ at[s] \in {"read", "serving"}
    /\ at' = [at EXCEPT ![s] = "exited"] /\ held' = [held EXCEPT ![s] = <<>>]
    /\ crashes' = crashes + 1
    /\ UNCHANGED created /\ Outside

-----------------------------------------------------------------------------
InitStep(i) == Begin(i) \/ Check(i) \/ Create(i) \/ Fill(i) \/ Own(i) \/ Close(i)

Next ==
    \/ \E i \in Inits : InitStep(i) \/ KillInit(i)
    \/ Edit \/ Validate \/ Up \/ Down
    \/ \E s \in Services : ReadSecrets(s) \/ Serve(s) \/ Restart(s) \/ Crash(s)

Spec == Init /\ [][Next]_vars

\* Docker restarts what exits and a container that is not killed runs on; the
\* operator owes nothing.
FairSpec ==
    /\ Spec
    /\ \A s \in Services : WF_vars(ReadSecrets(s)) /\ WF_vars(Serve(s)) /\ WF_vars(Restart(s))

-----------------------------------------------------------------------------
(* Properties.                                                             *)

\* A secret that was written stays what it is, however often init_secrets.sh is
\* repeated after a kill or a failure; only two runs at once may change it.
SecretsKept ==
    [][\A f \in Secrets :
          file[f].value \in Wholes /\ ~overlapped' => file'[f].value = file[f].value]_vars

\* The script's last line: once a run succeeded and none is under way, every
\* secret is private, its owner's, and whole, unless another run was stopped
\* while it filled that very file: an empty file is preserved by all later runs.
SuccessMeansProvisioned ==
    (\E i \in Inits : step[i] = "done") /\ (\A i \in Inits : ~Running(i)) =>
        \A k \in DOMAIN Calls :
            LET f == file[Calls[k][1]]
            IN  /\ f.private /\ f.owner = Calls[k][2]
                /\ \/ f.value \in Wholes
                   \/ /\ f.value = "empty"
                      /\ \E i \in Inits : step[i] \in {"failed", "killed"} /\ place[i] = k

\* A service that checks its secrets serves only with whole ones, and with those
\* that clients and its peers find in the files: what it copied at its start
\* does not go stale unless two runs of init_secrets.sh overlapped.
ServesWhatIsProvisioned ==
    \A s \in Services \ {"grafana"} : at[s] = "serving" =>
        \A f \in Wants(s) :
            /\ held[s][f] \in Wholes
            /\ overlapped \/ held[s][f] = file[f].value

\* Unless the environment file was edited between its validation and its use,
\* every container was created from a file that validate_compose accepts, and
\* runs no mutable image if the validator and docker compose read it alike.
\* They do not always: a "decorated" line passes, and what runs is mutable.
RunsWhatWasValidated ==
    ~gap => \A s \in Services : at[s] # "none" =>
        /\ Valid(created[s])
        /\ ReadAlike(created[s]) => ComposeReads[created[s].images] = "pinned"

\* A container that started too early, when its secret was empty or not yet its
\* owner's, comes up by itself once it can read a whole one, and stays up.
Usable(s) == at[s] # "none" /\ \A f \in Wants(s) : Readable(s, f) /\ Accepts(s, file[f].value)
ComesUpByItself ==
    \A s \in Services : <>[]Usable(s) => <>[](at[s] = "serving")

\* What docs/gpu-stack.md:45 says init_secrets.sh is for: it gives every file to
\* the user that the service runs as, so that the services that mount it can
\* read it.
SecretsFitTheirReaders ==
    (\E i \in Inits : step[i] = "done") /\ (\A i \in Inits : ~Running(i)) =>
        \A s \in Services, f \in Secrets : f \in Mounts[s] => Readable(s, f)
=============================================================================
