# TLA+ models of the Local AI Inference Lab

The repository runs a vision-language model and an embedding model on one GPU
behind an API gateway, and holds the tools that measure and exercise it. This
directory models the parts of it in which order, failure or arithmetic decides
whether the result is right, checks them with TLC on small instances, and proves
their safety properties with TLAPS for instances of any size.

Every definition that models code is listed in `PROJECT.json` under `map` with the
lines it translates. Source paths below are relative to `src/`.

## The system

| Component | State it keeps | Operations | Talks to |
|---|---|---|---|
| Gateway proxy (`src/local_ai_lab/gateway/app.py`) | a semaphore of inference slots, the in-flight gauge, per request the `released` flag, the upstream response and the body generator | `proxy` for three routes, release of the slot on five paths | clients, the two model servers, the authenticator |
| Gateway readiness and metrics (`gateway/app.py`) | none / counters | `/readyz`, `/healthz`, `/metrics` | model servers, Prometheus, the smoke test |
| Authentication (`gateway/auth.py`) | the static token, or a cache of signing keys | `authenticate`, `read_token_file` | Keycloak's key endpoint |
| Benchmark (`bench/command.py`, `runner.py`, `monitoring/gpu.py`) | the level loop, tasks of the current level, results, wall times, the sampler's task and its stop event | levels, requests, snapshots, join | the gateway, `nvidia-smi` in a thread |
| Benchmark client and metrics (`bench/client.py`, `metrics.py`) | none | verdict on one answer, percentiles | |
| Report and manifest files (`bench/report.py`, `manifest.py`) | files under fixed names, temporary files | atomic writes | other writers of the same directory, the disk |
| Long-context workloads (`bench/long_context.py`) | none | cut the source to a token budget | a tokenizer |
| B-029 case runner (`poc_b029/`) | one run's record and report, a temporary directory, the output directory | extract, embed, compare, publish | the gateway, other runs with the same output |
| B-029 fixtures (`poc_b029/fixtures.py`, `tools/generate_b029_synthetic_documents.py`) | a directory of cases, documents, rules and sums | generate, once, into an empty directory | the case runner, which reads it |
| Vast.ai instance (`deploy/vast/ROOT`) | three supervised processes, `/etc/environment`, the token file, `/.provisioning` | start, wait, exec, exit, restart | each other's health endpoints |
| Smoke test (`deploy/vast/smoke.sh`) | a token, a temporary directory of answers | six requests, a check, a cleanup on exit and on signals | the gateway |
| Compose target (`compose.yaml`, `scripts/init_secrets.sh`, `scripts/stack.sh`, `stack.py`, the entrypoints) | four secret files, the environment file, containers | provision, validate, `up`, `down`, copy secrets, serve, restart | Docker, the operator's edits |
| CLI, settings, Caddy wrapper, monitoring configuration | none | checks of inputs, `exec` | |

What is hard in it, and what makes each part correct:

* **Gateway.** A slot has to come back exactly once however a request ends, and
  the ends race: the queue deadline against a grant, a disconnect against the
  stream, the background task against the finalisation of a generator that was
  cancelled at its `yield`. Slots must be handed out in order, a free slot must
  never sleep beside a waiter, and no model call may run without one.
* **Benchmark.** The numbers describe an experiment: all results must be there and
  belong to their level, a throughput must divide a level's tokens by that level's
  time, the GPU samples must cover the load. Exceptions propagate while other tasks still run.
* **Files.** A reader, a crash or a loss of power may come between any two steps.
* **B-029.** A report is published once and whole; a field nobody could read must
  not become a match; the exit status must agree with what is on disk.
* **Fixtures.** The files of a case are written one by one, by a generator that may die,
  while a run may already read them.
* **Vast.ai instance.** Three processes wait for each other, time out, exit and are
  restarted; the stack must come up, in order, with the token of its own start. A
  smoke test that a signal interrupts goes on without its files, must not succeed then,
  and must leave its token nowhere.
* **Compose target.** A secret is drawn once and kept, by a script that may be stopped
  between making the file and filling it, repeated, or run twice; containers copy
  what they find when they start; the environment may change after its validation,
  and the validator does not read every line of it as docker compose does.
* **Calculations.** Boundaries: one value, halves, ties, a clock that stands still.

`PROJECT.json` lists the hazards one by one, with the line at which each bites and
the properties that would notice.

## Modules

| Module | Models | Run |
|---|---|---|
| `SlotPool` | what the gateway promises about slots (abstract specification) | through `Gateway` |
| `Gateway` | `proxy()` in `gateway/app.py` | `gateway_safety`, `gateway_liveness` |
| `BenchRun` | `bench/command.py`, `bench/runner.py`, `monitoring/gpu.py` and the handler in `cli.py` | `bench_run`, `bench_repeated_level` |
| `VastStack` | Supervisor programs, start scripts, `smoke.sh` and its `/readyz` | `vast_stack` |
| `ComposeStack` | `init_secrets.sh`, `stack.sh`, the image checks of `stack.py`, entrypoints, restarts | `compose_stack`, `compose_readers` |
| `WriteOnce` | what `poc b029 run` promises of its output directories (abstract specification) | through `B029Run` |
| `B029Compare` | `poc_b029/compare.py` and the validation of a record | through `B029Run` |
| `B029Fixtures` | both generators of cases, what a reader finds, the expected outcome | through `B029Run` |
| `B029Run` | `poc_b029/command.py`, `client.py`, `report.py`; composes the three above | `b029_run`, `b029_review` |
| `AtomicFile` | `_atomic_write` and its callers, `write_manifest_atomic` | `report_files` |
| `Calculations` | `metrics.py`, the verdicts in `client.py`, `retrieval.py` | `calculations` |
| `LongContext` | `bench/long_context.py` and its command | `long_context` |
| `GatewayProofs`, `BenchProofs`, `VastProofs`, `ComposeStackProofs`, `B029Proofs`, `AtomicFileProofs`, `LongContextProofs`, `CalculationsProofs` | theorems about the module each extends | (TLAPS) |

The `MC` modules give the constants values and hold no logic. Each module also has
a few definitions marked as faulty variants. They are not part of any specification:
each is a mistake the code could contain, and `PROJECT.json` says which property
fails when the definition it stands beside is replaced by it.

### Gateway

The handler runs on one asyncio event loop, so an action is the code between two
points where its task suspends. `pc` says at which of them a request is:

| `pc` | in the code |
|---|---|
| `new`, `body` | in `require_principal`; in `_read_limited_body` |
| `queued`, `granted`, `grant_lost`, `timed_out` | in `wait_for(slots.acquire())`: future pending; resolved by `release()` but task not yet run; deadline fired after that; deadline fired first |
| `calling` | in `client.send` |
| `starting`, `reading`, `sending` | the generator is not started; awaits a chunk; is suspended at `yield` |
| `closing`, `failing` | in its `finally`, on a normal or an exceptional way out |
| `background`, `done` | in the background task; the response is over |

`slots` is the semaphore's counter. `ahead[r]` is the set of waiters in front of `r` in
its deque (a set per waiter and not one sequence, which keeps the proofs in first
order). `slot[r]` becomes `held` at `inflight.inc()` and `returned` when the `released`
flag is set; `ReleaseSlot` is `release_slot()`, a no-op after the first time.

Three mechanisms outside the repository are modelled from how the code uses them and
described in the module's header: `asyncio.Semaphore` with `wait_for`, Starlette's
`StreamingResponse`, and the finalisation of a generator. `release()` adds a slot and at
once reserves it for the first pending waiter; a waiter that runs passes on what has
been returned meanwhile. A generator that raises skips the background task;
one that is cancelled at its `yield` does not run its `finally` until it is collected.

Abstracted: the body's bytes (`RefuseBody` may or may not happen), the kinds of
authentication, headers, the histogram and the counters, which only record.

### BenchRun

`task` is the state of the tasks of the current `gather`, `phase` that of `_run_command`
around them. `Begin` is the passage through the semaphore, in the order of the items.
`Complete` stands for both client functions returning a result, `Raise` for an
exception they let through (an SSE event that is no object, timing that does not move).
After `AbortLevel` the other tasks run on, as they do under `gather`, until `Join`.
The sampler runs beside them and may raise as well. `results[k]` keeps the position
of the level beside its concurrency, which the code does not: the properties need it.
`wall[c]` is what `wall_times[c]` measures: the positions of the levels whose time it
spans. That no level runs more requests than its concurrency is what `asyncio.Semaphore`
promises; `Begin` has it as a guard, and no property repeats it.

### VastStack

`at[s]` is `down`, `paused` (provisioning), `waiting` (in `wait_for_http`), `loading`
(after `exec`) or `serving`. `loaded[s]` is the environment the script sourced when it
started, which an edit of `/etc/environment` does not change. `GiveUp` is the timeout and
may come at any time a dependency is down. A crash is any exit that the scripts do not decide
themselves. `step` is where the smoke test stands: its requests in their order, with
`/readyz` split into its two probes, between which servers may die or come up. `temp` says
that its directory exists, `held` which token it holds there, `saved` which answers lie in it;
`answered` and `interrupted` are history variables, which the script does not have:
what was answered in this run, and whether a signal took the files. The start is two steps.
After `mktemp` (`SmokeBegin`) a signal ends the script and leaves the directory behind, still
empty (`SmokeKilled`): the trap is set five lines later, and only then the token is written
(`SmokePrepare`). From there on INT and TERM remove the files and bash goes on
(`SmokeSignalled`), so that each request and the check of the answers have to find their files
gone (`HasFiles`). bash runs a trap when the command in progress has ended; a signal is
therefore a step between two commands. SIGKILL, for which no trap can be set, is left out: it
leaves directory and token behind in any script.

### ComposeStack

`step[i]` and `place[i]` are a run of `init_secrets.sh` and the secret it is at. Making a
file (the redirection) and filling it (`openssl`) are two steps, so is each of the check,
`chown` and `chmod`. `overlapped` records that two runs were under way at once, which the
script does not prevent: the second then redraws a secret that the first has written, and
`SecretsKept` is promised only without that. `checked` is `stack.sh` between validation
and `exec docker compose`, `gap` that the environment was edited there. `created[s]` is the
configuration of a container, `held[s]` the secrets it has copied. What Docker does (mounts,
recreating containers whose configuration changed, restarting what exits, reading an
environment file) is modelled from `compose.yaml` and from how the scripts call it.

`config/gpu.env` has two readers. `env.images` is how the file writes an image
(`Notations`); `ValidatorReads` is what `_read_env_file` makes of that
(`stack.py:18-46`), `ComposeReads` what docker compose does, and `Valid` the test of
`validate_compose` on the former. They agree on `X=name:tag@digest` and on
`X=name:latest`, not on a comment behind the value, an inner `${Y:-...}`, an unclosed
quotation mark or a name without a value (`ReadAlike` says where they do).

### B029Run, B029Compare and B029Fixtures

A field's value is abstracted to how it relates to the Kintone record: equal, equal up
to case and spaces, different, null, blank, negative, malformed, a date without
separators (which `_usable_field_value` lets through and the record's validation rejects,
so that the run fails), or text that holds document content (which
`_ensure_safe` refuses). `content[d]` is the set of the files in an output directory with
the run that wrote each; `temp[r]` those in the temporary directory. `Rename` succeeds on a
free name or an empty directory, as rename(2) does. `MakeOutput` is another program.
`WriteOnce` is what an observer of the output directories sees; `B029Run` implements it
under the mapping `ReportIn`, whose value for a partial or mixed directory is one that
`WriteOnce` does not know.

`B029Fixtures` writes the files of one directory in the generator's order, `torn` being the
one that is open. One that stops for ever is a generator that died. A run reads what
is there at that moment: a torn PNG does not verify, a torn PDF would be repaired by the
library, so that a run is safe from one only because the case file comes after it.
The two generators lay a directory out differently (`layout`), and the case decides the
outcome against which the report is evaluated (`Passes`). The evaluation compares two lists:
the differences in the order of `FIELD_ORDER`, and those that the case expects in the order
of the generator that wrote it, which for the tool is that of its own `Record.as_dict`
(`ExpectedOrder`).

### AtomicFile

A file has an author and two flags, whole and synced. `named` is what a reader sees,
`durable` what the disk has recorded; `Settle` copies the first to the second when the
operating system likes. A loss of power keeps either, and any part of a file that was
not synced. `job` is the function that is called: `write_manifest_atomic` writes one file
and has an `except` clause (`cleansUp`), `write_report` writes three and has none. Directory entries are not synced by the code and
may be lost with the power; no property says otherwise.

### Calculations and LongContext

A behaviour of `Calculations` is one call of one of four functions: `call` is its input, as far
as it has been read, `work` what the function keeps while it reads, `result` what it returns
or raises. `benchmark_chat` reads one event of the answer per step (`ReadEvent`), and the clock
may move or stand still at each; `EndStream` is any of the ways in which the answer ends,
with the verdict (`Judge`). `rank_rules` puts one rule per step into the order (`InsertRule`).
`summarize` and `benchmark_embedding` answer in one. A property compares the result
with a definition that does not follow the code: a percentile with the number of values
on its sides, the two verdicts with what the events or the document hold, the ranking with
a count of closer rules. Arithmetic is exact; the rounding of floats is not modelled.

`LongContext` is a state machine because the tokenizer may give any count within `MaxDrift` of the sum of
the parts, again at each turn of the loop, and the parts themselves differ from pair to
pair: the marker names the window and the position (`Instructions`). Around it are the command's refusals and the
write of the workload file, which may stop after some of its lines.

## Runs

| Run | Instance | Distinct states | What it shows |
|---|---|---|---|
| `gateway_safety` | 4 requests, 2 slots, symmetry within each kind of route | 842,000 | conservation of slots, no upstream call without one, settlement, no lost wake-up, arrival order |
| `gateway_liveness` | 3 requests, 1 slot, fairness | 64,000 | queue waits end, slots come back, `SlotPool` is implemented |
| `bench_run` | levels 1 and 2, 4 requests each, 3 cases | 46,000 | completeness, equal cases, sampling, throughput per level, termination |
| `bench_repeated_level` | levels 1, 1 | (violation) | see Findings |
| `vast_stack` | 2 kills, 1 edit, 2 tokens, the smoke test again and again, with signals | 695,000 | start order, token, readiness, an honest smoke test, the stack comes up |
| `compose_stack` | 2 runs of `init_secrets.sh` over two secrets, 1 kill, 1 edit, 1 crash, the gateway, six ways to write an image | 1,790,000 | provisioning, kept secrets, validated images, serving with what is provisioned, coming up |
| `compose_readers` | 1 run over all four secrets, Keycloak and its database | (violation) | see Findings |
| `b029_run` | 2 runs, 2 directories, 2 cases, 6 answers, 1 kill | 244,000 | `WriteOnce` is implemented, exit status, unread fields, fair evaluation, whole fixtures, termination |
| `b029_review` | 1 run | (violation) | see Findings |
| `report_files` | 2 calls of either function (three files or one) | 49,000 | never torn, newer files first, in place after return, no leftovers |
| `calculations` | samples up to 5 of 4 values, streams up to 3 events, up to 4 rules of 7 directions, one event or rule at a time | 114,000 | percentiles, verdicts, ranking |
| `long_context` | windows around the overhead, which differs by marker, drift 2 | 178,000 | prompts fit and fill their window, the marker's place, the end of the command |

Why these bounds are enough. Four requests and two slots let a holder, a waiter with
a grant, one that lost its grant and a pending one exist at once, and every action has
at most two actors; the proofs remove the bound for safety. One slot makes every waiter
depend on the others, which is what liveness needs; the symmetry of the safety run would be
unsound there and is not used. Four requests over three cases make the cases wrap, and over
level 2 make tasks wait. Two kills let two servers die on either side of a probe; an edit with
two valid tokens lets a stale token differ from the current one. Two runs of a script
and one kill give every pair of an interrupted run and a later or an overlapping one;
two secrets let one run be at the second while the other is at the first. A container
depends on no other, so one service shows what each does. Two writers give every
overlap of two calls. Two B-029 runs and two directories let them meet or not; one of the
cases expects a match and the other two differences, which the generators must list in
the order of the comparison. Five values make
every percentile interpolate and hit an exact position; three events can be
content, usage and a malformed one in any order. The bounds `MaxCrashes`, `MaxChanges`,
`MaxEdits`, `MaxKills` and `MaxDrift` are named in their modules.

Deadlock is checked except where the system really may stop: `calculations` and
`long_context` are one call each and end; in `compose_stack` and `compose_readers` the
operator may stop while no container is there. The other modules have an explicit step for
the state in which everything is over, or never stop, so that a deadlock in them is
a place where something waits for ever.

Each state machine has a type invariant `TypeOK`, except `Calculations`, whose variables hold
something else in every call. Each is proved (`TypeCorrect` of the proof module); the
configurations list the properties that say more.

### Fairness

* `Gateway!ServerFairness`: the event loop runs every task that is ready and every timer
  that is due, and httpx ends every await of an upstream with its timeout. Nothing is
  assumed of clients. `QueueWaitEnds` needs no more. `SlotsComeBack` has the antecedent
  `PeersProgress`: clients read or disconnect, and answers are finite. Without it
  the property does not hold: the handler sets no limit on a client that stops reading.
* `BenchRun!FairSpec`: requests end by the client's timeouts, `nvidia-smi` by its 10
  seconds, and the loop runs what is ready.
* `VastStack!FairSpec`: Supervisor restarts what exits (`autorestart`, `startsecs=0`),
  scripts run on, `curl` is repeated, a model loads unless it is killed. `ComesUp` is
  conditional on a configuration that stays right. The smoke test owes nothing.
* `ComposeStack!FairSpec`: Docker restarts what exits (`restart: unless-stopped`) and a
  container runs on. Nothing is assumed of `init_secrets.sh` or the operator:
  `ComesUpByItself` is conditional on secrets that become and stay usable.
* `B029Run!FairSpec`, `LongContext!FairSpec`: a process that is not killed runs on. The
  fixture generator may stop at any time. `RunsEnd` and `CommandEnds` also need answers that
  are finite: httpx applies its timeout to each wait for data and not to the whole answer,
  so a peer that sends a little for ever would hold a request for ever.

## Findings

* `bench_repeated_level`: `--concurrency 1,1` is accepted. Results of both levels
  fall under one key of `by_concurrency`, and the wall time of the second replaces that
  of the first (`bench/command.py:121`), so the reported throughput is about twice the real one;
  `docs/gpu-stack.md:92` describes the figure as per level.
* `compose_readers`: `init_secrets.sh` gives `keycloak-db-password` to root with mode 0600
  (`scripts/init_secrets.sh:35`). Keycloak's container, whose other secret the script
  gives to user 1000, mounts the file as well and cannot read it, while
  `docs/gpu-stack.md:45` says that each file is provisioned for the user of its service.
* `b029_review`: an answer that is not valid JSON ends the run without a report
  (`poc_b029/client.py:122`), where the design
  (`docs/superpowers/specs/2026-09-21-b029-synthetic-poc-design.md:91`) asks for
  `needs_human_review`.

Two more differences between words and code, which no run states. `README.md:277` says that
`/readyz` succeeds only when both models are ready. As it asks one after the other, what
holds is `ReadyMeansSeen`: each was up at some moment of the request. And
`docs/gpu-stack.md:30` says that images are locked by version and digest, and the message of
`stack.py:107` that a mutable one is refused. The validator looks only at what it reads:
`X=name:latest # note` and `X=${Y:-name:latest}` do not end in `:latest` for it, pass, and
docker compose, which strips the one and expands the other, runs `name:latest`.
`RunsWhatWasValidated` therefore promises a pinned image only for what both read alike.

## Proofs

`GatewayProofs` proves, for any finite `Requests`, any `Chat` among them and any
positive `MaxConcurrency` (the assumption `GatewayAssumption`):

| Theorem | Says |
|---|---|
| `TypeCorrect` | the type invariant |
| `SlotsConserved` | free, reserved and held slots add up to the limit (`SlotConservation`) |
| `UpstreamProtected` | no model call is open without a slot (`UpstreamNeedsSlot`) |
| `EveryRequestSettles` | a request that is over has returned its slot and closed its upstream (`SettledWhenDone`) |
| `WakeupsKept` | no slot is free beside a pending waiter (`NoLostWakeup`) |
| `ArrivalOrderKept` | slots go to waiters in the order of arrival (`FirstComeFirstServed`) |
| `RefinesPool` | every behaviour starts and steps as `SlotPool` does: the safety half of `ImplementsPool` |

The inductive invariant `IInv` conjoins the type invariant, `SlotByPlace`,
`SettledWhenDone`, `SlotConservation`, `NoLostWakeup` and `DequeOrder`. Conservation by
itself counts slots without saying whose they are: an action that returns a slot keeps
the count only because the task at that place does hold one, which is `SlotByPlace`.
Order needs `DequeOrder`: `ahead` is a total order of the deque, and waiters with a grant
precede those without, so the head that `release()` picks is the oldest pending one. Each
conjunct has a lemma with one step per action.

`AtomicFileProofs` proves, for any writers and any list of files (`FileAssumption`):

| Theorem | Says |
|---|---|
| `FilesAreWhole` | whatever has a file's name is complete (`NeverTorn`) |
| `ReturnedInPlace` | a call that returned undisturbed has all its files in place (`ReturnedMeansInPlace`) |
| `NothingLeftBehind` | with `CleansUp`, a call that is over and was not killed leaves no temporary file (`NoLeftovers`) |
| `FilesStayInOrder` | a file written earlier in a call is never older than one written later (`NewerFirst`) |
| `TypeCorrect` | the type invariant: every call is recorded as started once (`Owned`) |

Its invariant says what is true of a temporary file at each place of its call
(`TempByPlace`), that named and recorded files are whole *and synced* (`NamedSolid`; whole
alone is not inductive, since a loss of power tears what was not synced), and that a call
nobody disturbs is the newest one and has placed the files before its position (`Alone`).
For the order of ages it adds that every call starts once (`Starts`), which makes the age
of a call its place in `started`.

`BenchProofs` proves, for any levels, numbers of requests and of cases (`BenchAssumption`):

| Theorem | Says |
|---|---|
| `SamplerOutlivesLoad` | `SamplingOutlivesLoad` |
| `ReportsAreComplete` | `ReportIsComplete` |
| `LevelsAskTheSame` | `SameCasesAtEveryLevel` |
| `DistinctLevelsAreTimed` | `ThroughputPerLevel`, if no level is given twice |
| `TypeCorrect` | the type invariant |

The invariant says of `results` what the report says, for the levels that are over
(`Ordered`): row `k` is item `(k - 1) % PerLevel` of level `(k - 1) \div PerLevel + 1`. That
a level's rows continue this needs a lemma on quotient and remainder (`DivMod`, `Below`). `Behind`
adds that behind the last level no task is left to overwrite anything.
`DistinctLevelsAreTimed` delimits the finding of `bench_repeated_level`: its hypothesis
(`Distinct`) is what the command line does not check, and with it the wall time
kept for a concurrency is that of the level its results come from (`Timed`), whatever
the number of levels.

`VastProofs` proves, for any tokens, kills and edits (`StackAssumption`):

| Theorem | Says |
|---|---|
| `StartsInOrder` | `OrderlyStart`: until the first kill, a dependency that was found healthy stays so (`Found`) |
| `TokenIsOfThisStart` | `TokenOfThisStart`: from `Configure` on, the file holds the token the script loaded (`TokenInv`) |
| `ReadyIsSeen` | `ReadyMeansSeen`: whatever is healthy during the probes is in `up` (`SmokeInv`) |
| `SmokeTellsTheTruth` | `SmokeIsEarned`: six proper answers in one run with its files, and no token left behind |
| `TypeCorrect` | the type invariant: no script waits behind the end of its list of dependencies |

`ComposeStackProofs` proves, for any runs, calls, services, kills, edits and crashes
(`ComposeAssumption`):

| Theorem | Says |
|---|---|
| `SuccessProvisions` | `SuccessMeansProvisioned` |
| `SecretsAreKept` | the action property `SecretsKept` |
| `ValidatedRuns` | `RunsWhatWasValidated`: what containers run passed the validator's reading, and is pinned where compose reads the same |
| `ProvisionedServes` | `ServesWhatIsProvisioned` |
| `OthersReadTheirSecrets` | `SecretsFitTheirReaders`, if Keycloak is not among the services |
| `TypeCorrect` | the type invariant |

What a run has done to a secret behind it is settled, whatever the others do
(`Progress`): they may redraw or empty a value but never make the file less private or give it
to somebody else, since each call has one owner. An empty file has a run that was stopped
in it or is about to fill it (`Emptied`). Without an overlap at most one run is
under way, and it finds what it has seen (`Alone`), which is what keeps a value, and with it the
copies that containers hold. `OthersReadTheirSecrets` delimits the finding of
`compose_readers`: the gateway, Grafana and the database can read what they mount.

`B029Proofs` proves, for any runs, directories, answers and cases:

| Theorem | Says |
|---|---|
| `RunsWriteOnce` | `Spec => ImplementsWriteOnce`: the refinement of `WriteOnce`, by `Publish` for `Rename` and a stutter for every other step |
| `ExitStatusIsTrue` | `ExitTellsTheTruth` |
| `MatchesAreRead` | `UnreadIsNeverMatch` |
| `FixturesReadWhole` | `FixturesAreWholeWhenUsed` |
| `EvaluationsAreFair` | `EvaluationIsFair` |
| `TypeCorrect` | the type invariant |

The invariant says that a directory holds nothing or the whole report of a run that got as
far as its rename (`Placed`), that only a run that writes, cleans or was killed has
a temporary directory (`TempByPlace`). Files of different runs have nothing in common
(`FilesAreDistinct`), so the mapping finds the one run a directory belongs to.
From the evaluation on, and as long as its report is in a directory, what a run reports is what
the comparison of its answer gave and what its case made of that (`Evaluated`). By
`ReviewNamesTheUnread` the comparison puts unread fields before all others; that a
list of differences is the expected one exactly if the same fields differ follows from
`OrderKeepsFields` and from the two orders being one (`OneOrder`).

`LongContextProofs` proves, for any windows, positions, reserves, sources, overheads and drift
(`ContextAssumption`): `PromptsFit`, `NeedlesAreWhereTheySay` and `PromptsUseTheWindow`, of the
properties `PromptFits`, `NeedleWhereItSays` and `PromptUsesTheWindow`. The invariant of the
loop (`Shrinking`) is that at most `MaxDrift` tokens of the source have been given up: with fewer
tokens than that the sum of the parts is so far below the budget that no drift
makes the prompt exceed it.

`EndingsAreTrue` is the safety half of `CallEnds` (a call that is over has written every case or
refused and left no complete file; by `Complete` no line is written before all cases are
there), and `TypeCorrect` the type invariant.

`CalculationsProofs` proves, for samples and streams of any size and for any number of rules
with vectors of any dimension (`InputAssumption`):

| Theorem | Says |
|---|---|
| `PercentilesGrowAndCut` | `PercentilesAreRight` |
| `SuccessesAreEarned` | `SuccessIsEarned` |
| `TheClosestComeFirst` | `ClosestRulesFirst` |

These are results about data of any length, and the library's induction rules
cannot be used (they take an operator). Two things replace them. Where the code reads its
input step by step, the step is an action, and the induction is that of an invariant: what
`benchmark_chat` keeps is the moment of the first content and the last usage of the events
so far (`Accounts`, `AccountStep`); what `rank_rules` has sorted is a permutation of the rules so
far in which nobody stands before somebody closer, and of equals the earlier comes first
(`RankInv`, `InsertKeepsRank`). Where a definition computes over a whole sequence, the proof
takes the least counterexample of a set of numbers (`LeastNatural`): so for a sum, which
exists and is an integer (`SumExists`, `DotType`), and for a sample in its order, where the
value at place `k` exists because the number of values under a bound grows from none to
all (`OrderedStands`). `RulesAreOrdered` (being closer is a strict order whose ties are transitive)
is the comparison of fractions by their cross products (`Fractions`); it needs vectors with a
direction, and the vectors that `rank_rules` accepts have one (`AcceptedAreComparable`).

Every safety property of a passing run is proved. TLC alone covers what is under fairness, which is out
of the prover's reach together with ENABLED: `QueueWaitEnds`, `SlotsComeBack`, the
fairness half of `ImplementsPool`, `CommandEnds`, `ComesUp`, `ComesUpByItself`, `RunsEnd`, and of
`CallEnds` that the call ends at all; and it finds the counterexamples of the three violated
properties.

## Not modelled, and why

The manifest's schema, the settings, argument parsing, the checks of a document's size and
pages, and those of `stack.py` on ports, mounts and the GPU are checks of one input with no
state: unit tests reach them. JWT verification with its cache of signing keys, Caddy, Docker,
Keycloak, Prometheus and the model servers are other programs or libraries, modelled, where
they matter, from how the code uses them. Rates, means, Markdown and drawings are divisions
and text. `PROJECT.json` gives the reason for each component. `wait_for_http` counts
seconds; the model lets it give up at any moment at which the dependency is down, which allows
more than the code does.

## If the code changes

* A change in a function: `map` in `PROJECT.json` names the definitions that translate it.
* A new way for a request to end: an action of `Gateway`, and one step in each lemma of
  `GatewayProofs`; `SlotByPlace` says what it must do with the slot.
* A lock in `init_secrets.sh`: `overlapped` goes, and with it the conditions in
  `SecretsKept` and `ServesWhatIsProvisioned`.
* `/readyz` with concurrent probes: `ProbeLlm` and `ProbeEmbedding` become independent.
