------------------------------ MODULE BenchRun ------------------------------
(***************************************************************************)
(* One `local-ai-lab bench chat|embedding` command                         *)
(* (src/src/local_ai_lab/bench/command.py, runner.py, report.py and        *)
(* monitoring/gpu.py): the concurrency levels run one after the other,     *)
(* run_concurrent's tasks behind a semaphore, the GPU sampler beside them, *)
(* and the report made when both have ended.  A request that fails is a    *)
(* result; an exception that a request or the sampler lets through ends    *)
(* the command without a report.                                           *)
(***************************************************************************)
EXTENDS Integers, Sequences, FiniteSets

CONSTANTS Levels,     \* parse_concurrency's tuple: the levels in the order given
          PerLevel,   \* requests_per_level
          Cases       \* number of workload cases

ASSUME BenchAssumption ==
    /\ Levels \in Seq(Nat \ {0}) /\ Levels # <<>>
    /\ PerLevel \in Nat \ {0}
    /\ Cases \in Nat \ {0}

VARIABLES
    phase,     \* "preparing", "running" a level, "closing" the HTTP client,
               \* "joining" the sampler, "writing" the report, or the end
    lv,        \* position in Levels of the current level
    task,      \* the tasks of the current gather
    outcome,   \* what each finished task returned
    results,   \* results, in the order of the report's raw.jsonl
    wall,      \* level_wall_seconds: per concurrency, the positions its time spans
    error,     \* an exception is propagating out of the level loop
    sampler,   \* the sampler's task
    stop,      \* gpu_stop
    late       \* a snapshot has ended after gpu_stop was set

vars == <<phase, lv, task, outcome, results, wall, error, sampler, stop, late>>

Items == 0..(PerLevel - 1)
Positions == 1..Len(Levels)
Concurrencies == {Levels[p] : p \in Positions}

Running == {i \in Items : task[i] = "running"}

\* The values of the level loop, the gather and the sampler; a result names a
\* level that was asked for and a workload case that exists.
TypeOK ==
    /\ phase \in {"preparing", "running", "closing", "joining", "writing",
                   "reported", "failed"}
    /\ lv \in 1..(Len(Levels) + 1)
    /\ task \in [Items -> {"waiting", "running", "finished", "raised", "cancelled"}]
    /\ outcome \in [Items -> {"none", "success", "failure"}]
    /\ results \in Seq([concurrency : Concurrencies, position : Positions,
                        item : Items, case : 0..(Cases - 1), success : BOOLEAN])
    /\ wall \in [Concurrencies -> SUBSET Positions]
    /\ error \in BOOLEAN /\ stop \in BOOLEAN /\ late \in BOOLEAN
    /\ sampler \in {"idle", "snapshot", "pausing", "returned", "raised"}

AllWaiting == [i \in Items |-> "waiting"]
NoOutcome == [i \in Items |-> "none"]

\* The event loop is still serving the command.
Live == phase \in {"running", "closing", "joining"}

Init ==
    /\ phase = "preparing" /\ lv = 1
    /\ task = AllWaiting /\ outcome = NoOutcome
    /\ results = <<>>
    /\ wall = [c \in Concurrencies |-> {}]
    /\ error = FALSE
    /\ sampler = "idle" /\ stop = FALSE /\ late = FALSE

-----------------------------------------------------------------------------
(* The command line, and _run_command up to the level loop.                *)

\* The number of requests, the levels, the workload and the token are good:
\* the sampler is started.
Prepare ==
    /\ phase = "preparing"
    /\ phase' = "running" /\ sampler' = "snapshot"
    /\ UNCHANGED <<lv, task, outcome, results, wall, error, stop, late>>

\* One of them is not: a ValueError or an OSError, exit status 2.
Refuse ==
    /\ phase = "preparing"
    /\ phase' = "failed"
    /\ UNCHANGED <<lv, task, outcome, results, wall, error, sampler, stop, late>>

-----------------------------------------------------------------------------
(* run_concurrent.  The tasks reach the semaphore in the order of the items, *)
(* and it serves them first come, first served.  After an exception gather   *)
(* leaves the other tasks running, until asyncio.run cancels what is left.   *)

\* bounded(item) gets past the semaphore and calls operation(item).
Begin(i) ==
    /\ Live
    /\ task[i] = "waiting"
    /\ \A j \in Items : j < i => task[j] # "waiting"
    /\ Cardinality(Running) < Levels[lv]
    /\ task' = [task EXCEPT ![i] = "running"]
    /\ UNCHANGED <<phase, lv, outcome, results, wall, error, sampler, stop, late>>

\* What benchmark_chat and benchmark_embedding return: timeouts, unreachable
\* gateways, non-2xx answers and malformed answers are failures.
Outcomes == {"success", "failure"}

\* An operation returns its RequestResult.
Complete(i) ==
    /\ Live
    /\ task[i] = "running"
    /\ task' = [task EXCEPT ![i] = "finished"]
    /\ \E o \in Outcomes : outcome' = [outcome EXCEPT ![i] = o]
    /\ UNCHANGED <<phase, lv, results, wall, error, sampler, stop, late>>

\* An answer they do not foresee (an event or a document that is not an object,
\* timing out of order) raises out of the task.
Raise(i) ==
    /\ Live
    /\ task[i] = "running"
    /\ task' = [task EXCEPT ![i] = "raised"]
    /\ UNCHANGED <<phase, lv, outcome, results, wall, error, sampler, stop, late>>

-----------------------------------------------------------------------------
(* _run_command.                                                           *)

\* Faulty variants, here and below: plausible mistakes that the properties
\* must notice.  Nothing uses them.
LevelResultsContinued ==
    [k \in 1..PerLevel |->
        [concurrency |-> Levels[lv], position |-> lv, item |-> k - 1,
         case |-> (Len(results) + k - 1) % Cases,
         success |-> outcome[k - 1] = "success"]]

\* results.extend(gather(...)): one result per item, in the order of the items.
LevelResults ==
    [k \in 1..PerLevel |->
        [concurrency |-> Levels[lv], position |-> lv, item |-> k - 1,
         case |-> (k - 1) % Cases, success |-> outcome[k - 1] = "success"]]

ExtendWithSuccesses ==
    results' = results \o SelectSeq(LevelResults, LAMBDA x : x.success)

Extend == results' = results \o LevelResults

SpanOfTheRun == 1..lv

\* level_started is read at the start of each level: the time taken at its end
\* spans this level and no other.
Span == {lv}

\* The level is over: its results and wall time are kept, and the next level
\* starts without an await in between.
FinishLevel ==
    /\ phase = "running"
    /\ \A i \in Items : task[i] = "finished"
    /\ Extend
    /\ wall' = [wall EXCEPT ![Levels[lv]] = Span]
    /\ lv' = lv + 1
    /\ IF lv < Len(Levels)
       THEN task' = AllWaiting /\ outcome' = NoOutcome /\ phase' = phase
       ELSE phase' = "closing" /\ UNCHANGED <<task, outcome>>
    /\ UNCHANGED <<error, sampler, stop, late>>

\* gather raises the first exception.
AbortLevel ==
    /\ phase = "running"
    /\ \E i \in Items : task[i] = "raised"
    /\ phase' = "closing" /\ error' = TRUE
    /\ UNCHANGED <<lv, task, outcome, results, wall, sampler, stop, late>>

\* The client is closed, with requests possibly in flight; then the finally
\* clause sets gpu_stop.
CloseClient ==
    /\ phase = "closing"
    /\ phase' = "joining" /\ stop' = TRUE
    /\ UNCHANGED <<lv, task, outcome, results, wall, error, sampler, late>>

ReportEvenOnError ==
    /\ phase = "joining"
    /\ sampler \in {"returned", "raised"}
    /\ phase' = IF sampler = "returned" THEN "writing" ELSE "failed"
    /\ task' = [i \in Items |-> IF task[i] \in {"waiting", "running"}
                               THEN "cancelled" ELSE task[i]]
    /\ UNCHANGED <<lv, outcome, results, wall, error, sampler, stop, late>>

\* `await gpu_task` returns or raises.  write_report follows only if nothing is
\* propagating; else asyncio.run cancels the tasks that are left.
Join ==
    /\ phase = "joining"
    /\ sampler \in {"returned", "raised"}
    /\ phase' = IF sampler = "returned" /\ ~error THEN "writing" ELSE "failed"
    /\ task' = [i \in Items |-> IF task[i] \in {"waiting", "running"}
                               THEN "cancelled" ELSE task[i]]
    /\ UNCHANGED <<lv, outcome, results, wall, error, sampler, stop, late>>

\* write_report (see AtomicFile) returns, exit status 0, or fails.
WriteReport ==
    /\ phase = "writing"
    /\ phase' \in {"reported", "failed"}
    /\ UNCHANGED <<lv, task, outcome, results, wall, error, sampler, stop, late>>

-----------------------------------------------------------------------------
(* sample_periodically.                                                    *)

Sampler == UNCHANGED <<phase, lv, task, outcome, results, wall, error, stop>>

\* The thread's nvidia-smi ends (a missing binary or a failing one gives no
\* samples); the loop ends only after a snapshot, when the event is set.
SnapshotEnds ==
    /\ sampler = "snapshot"
    /\ sampler' = IF stop THEN "returned" ELSE "pausing"
    /\ late' = stop
    /\ Sampler

\* A line of nvidia-smi's output cannot be parsed.
SnapshotRaises ==
    /\ sampler = "snapshot"
    /\ sampler' = "raised"
    /\ UNCHANGED late
    /\ Sampler

PauseEndsEarly ==
    /\ sampler = "pausing"
    /\ sampler' = IF stop THEN "returned" ELSE "snapshot"
    /\ UNCHANGED late
    /\ Sampler

PauseEndsUnheard ==
    /\ sampler = "pausing"
    /\ ~stop
    /\ sampler' = "snapshot"
    /\ UNCHANGED late
    /\ Sampler

\* wait_for(stop.wait(), interval) ends, by the event or by its timeout.
PauseEnds ==
    /\ sampler = "pausing"
    /\ sampler' = "snapshot"
    /\ UNCHANGED late
    /\ Sampler

-----------------------------------------------------------------------------
Over == phase \in {"reported", "failed"} /\ UNCHANGED vars

Next ==
    \/ \E i \in Items : Begin(i) \/ Complete(i) \/ Raise(i)
    \/ Prepare \/ Refuse
    \/ FinishLevel \/ AbortLevel \/ CloseClient \/ Join \/ WriteReport
    \/ SnapshotEnds \/ SnapshotRaises \/ PauseEnds
    \/ Over

Spec == Init /\ [][Next]_vars

\* Every request ends (the HTTP client's timeouts, and an answer of bounded
\* length), nvidia-smi is killed after its timeout, and the event loop runs
\* what is ready.
FairSpec ==
    /\ Spec
    /\ \A i \in Items : WF_vars(Begin(i)) /\ WF_vars(Complete(i) \/ Raise(i))
    /\ WF_vars(FinishLevel) /\ WF_vars(AbortLevel)
    /\ WF_vars(Prepare \/ Refuse)
    /\ WF_vars(CloseClient) /\ WF_vars(Join) /\ WF_vars(WriteReport)
    /\ WF_vars(SnapshotEnds \/ SnapshotRaises) /\ WF_vars(PauseEnds)

-----------------------------------------------------------------------------
(* The report's numbers.                                                   *)

\* _by_concurrency: the results grouped under one key of by_concurrency.
Group(c) == {k \in DOMAIN results : results[k].concurrency = c}

\* The positions in Levels that a group's requests were sent at.
MeasuredAt(c) == {results[k].position : k \in Group(c)}

-----------------------------------------------------------------------------
(* Properties.                                                             *)

\* A report is complete: one result per item and level, failures included, in
\* the order of the levels and items whatever the order of completion, and
\* none of a run in which something raised.
ReportIsComplete ==
    phase = "reported" =>
        /\ Len(results) = Len(Levels) * PerLevel
        /\ \A k \in DOMAIN results :
             /\ results[k].position = ((k - 1) \div PerLevel) + 1
             /\ results[k].item = (k - 1) % PerLevel
        /\ \A i \in Items : task[i] = "finished"

\* Levels are compared on the same prompts: the n-th request of every level is
\* the same case, and a level reaches every case it has requests for.
SameCasesAtEveryLevel ==
    phase = "reported" =>
        /\ \A j, k \in DOMAIN results :
             results[j].item = results[k].item => results[j].case = results[k].case
        /\ \A c \in 0..(Cases - 1) :
             c < PerLevel => \A p \in Positions : \E k \in DOMAIN results :
                 results[k].position = p /\ results[k].case = c

\* The GPU is sampled for as long as the load runs, and once more after it: the
\* sampler only stops by itself when told to, and a report's last snapshot
\* ended after the last request.
SamplingOutlivesLoad ==
    /\ sampler = "returned" => stop
    /\ phase = "reported" => late

\* The command ends, with a report or without, whatever the requests and the
\* sampler do and in whichever order they end.
CommandEnds == <>(phase \in {"reported", "failed"})

\* by_concurrency divides a level's tokens by the wall time of that level: the
\* requests counted under a concurrency were sent in the time it is divided by,
\* and no others were.  It fails if a concurrency is given twice.
ThroughputPerLevel ==
    phase = "reported" => \A c \in Concurrencies : MeasuredAt(c) = wall[c]
=============================================================================
