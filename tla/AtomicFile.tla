----------------------------- MODULE AtomicFile -----------------------------
(***************************************************************************)
(* Writing result files by way of a temporary file:                        *)
(* write_manifest_atomic (manifest.py) writes one, write_report            *)
(* (bench/report.py) three, one after the other, into a directory that may *)
(* hold an earlier report.  A write may fail, a writer may be killed and   *)
(* the machine may lose power.                                             *)
(***************************************************************************)
EXTENDS Integers, Sequences, FiniteSets

CONSTANTS Writers,     \* calls of one of the functions, on the same paths
          Jobs         \* the functions: the files that a call writes, in its
                       \* order, and whether a failed one removes its temporary file

ASSUME FileAssumption ==
    /\ \A j \in Jobs : j.names \in Seq(STRING) /\ j.names # <<>> /\ j.cleansUp \in BOOLEAN
    /\ "nobody" \notin Writers

VARIABLES
    job,       \* the function that is called
    pc,        \* where each call is
    pos,       \* the position in Names it is at
    temp,      \* its temporary file
    named,     \* the file under each name
    durable,   \* the file that the disk has recorded under each name
    started,   \* the calls, in the order in which they started
    disturbed  \* two calls overlapped, or the power went

vars == <<job, pc, pos, temp, named, durable, started, disturbed>>

Names == job.names
Positions == DOMAIN Names
Nobody == "nobody"

\* A file: who wrote it, whether all of it is there, whether that is on disk.
NoFile == [by |-> Nobody, whole |-> TRUE, synced |-> TRUE]
FileSet == [by : Writers \cup {Nobody}, whole : BOOLEAN, synced : BOOLEAN]

Active(w) == pc[w] \in {"open", "written", "synced", "replaced"}
OnDisk(file) == file.by # Nobody

\* The values of a call; a temporary file is its owner's, and every call that
\* is not idle is recorded as started, once.
TypeOK ==
    /\ job \in Jobs
    /\ pc \in [Writers -> {"idle", "open", "written", "synced", "replaced",
                           "done", "failed", "killed"}]
    /\ pos \in [Writers -> Positions]
    /\ temp \in [Writers -> FileSet]
    /\ \A w \in Writers : temp[w].by \in {w, Nobody}
    /\ named \in [Positions -> FileSet] /\ durable \in [Positions -> FileSet]
    /\ \A i, j \in DOMAIN started : started[i] = started[j] => i = j
    /\ {started[i] : i \in DOMAIN started} = {w \in Writers : pc[w] # "idle"}
    /\ disturbed \in BOOLEAN

Init ==
    /\ job \in Jobs
    /\ pc = [w \in Writers |-> "idle"]
    /\ pos = [w \in Writers |-> 1]
    /\ temp = [w \in Writers |-> NoFile]
    /\ named = [p \in Positions |-> NoFile] /\ durable = named
    /\ started = <<>> /\ disturbed = FALSE

Go(w, from, to) == pc[w] = from /\ pc' = [pc EXCEPT ![w] = to]

-----------------------------------------------------------------------------
NewFile(w) == [by |-> w, whole |-> FALSE, synced |-> FALSE]

\* The call starts, and makes its first temporary file.
Start(w) ==
    /\ Go(w, "idle", "open")
    /\ temp' = [temp EXCEPT ![w] = NewFile(w)]
    /\ started' = Append(started, w)
    /\ disturbed' = (disturbed \/ \E v \in Writers : Active(v))
    /\ UNCHANGED <<pos, named, durable>>

\* handle.write and flush: the bytes are with the operating system, which may
\* write them to disk at any time.
Write(w) ==
    /\ Go(w, "open", "written")
    /\ temp' = [temp EXCEPT ![w].whole = TRUE]
    /\ UNCHANGED <<pos, named, durable, started, disturbed>>

\* Faulty variants, here and below: plausible mistakes that the properties
\* must notice.  Nothing uses them.
SyncSkipped(w) ==
    /\ Go(w, "written", "synced")
    /\ UNCHANGED <<pos, temp, named, durable, started, disturbed>>

\* os.fsync.
Sync(w) ==
    /\ Go(w, "written", "synced")
    /\ temp' = [temp EXCEPT ![w].synced = TRUE]
    /\ UNCHANGED <<pos, named, durable, started, disturbed>>

LeaveTemporary(w) == UNCHANGED temp

\* The except clause of write_manifest_atomic; report.py's has none.
RemoveTemporary(w) ==
    IF job.cleansUp THEN temp' = [temp EXCEPT ![w] = NoFile] ELSE UNCHANGED temp

\* Opening, writing, syncing or replacing fails.
Fail(w) ==
    /\ Go(w, "open", "failed") \/ Go(w, "written", "failed") \/ Go(w, "synced", "failed")
    /\ RemoveTemporary(w)
    /\ UNCHANGED <<pos, named, durable, started, disturbed>>

ReplaceBackwards(w) ==
    /\ Go(w, "synced", "replaced")
    /\ named' = [named EXCEPT ![Len(Names) + 1 - pos[w]] = temp[w]]
    /\ temp' = [temp EXCEPT ![w] = NoFile]
    /\ UNCHANGED <<pos, durable, started, disturbed>>

\* os.replace.
Replace(w) ==
    /\ Go(w, "synced", "replaced")
    /\ named' = [named EXCEPT ![pos[w]] = temp[w]]
    /\ temp' = [temp EXCEPT ![w] = NoFile]
    /\ UNCHANGED <<pos, durable, started, disturbed>>

\* On to the next file.
Advance(w) ==
    /\ pos[w] < Len(Names)
    /\ Go(w, "replaced", "open")
    /\ pos' = [pos EXCEPT ![w] = @ + 1]
    /\ temp' = [temp EXCEPT ![w] = NewFile(w)]
    /\ UNCHANGED <<named, durable, started, disturbed>>

ReturnEarly(w) ==
    /\ Go(w, "replaced", "done")
    /\ UNCHANGED <<pos, temp, named, durable, started, disturbed>>

Return(w) ==
    /\ pos[w] = Len(Names)
    /\ Go(w, "replaced", "done")
    /\ UNCHANGED <<pos, temp, named, durable, started, disturbed>>

-----------------------------------------------------------------------------
Kill(w) ==
    /\ Active(w)
    /\ pc' = [pc EXCEPT ![w] = "killed"]
    /\ UNCHANGED <<pos, temp, named, durable, started, disturbed>>

\* The operating system records a rename on disk, in its own time.
Settle(p) ==
    /\ durable[p] # named[p]
    /\ durable' = [durable EXCEPT ![p] = named[p]]
    /\ UNCHANGED <<pc, pos, temp, named, started, disturbed>>

\* What is left of a file that was not synced may be a part of it.
Survivors(file) == {file} \cup (IF file.synced THEN {} ELSE {[file EXCEPT !.whole = FALSE]})

PowerLoss ==
    /\ \E w \in Writers : Active(w)
    /\ pc' = [w \in Writers |-> IF Active(w) THEN "killed" ELSE pc[w]]
    /\ \E left \in [Positions -> UNION {Survivors(named[p]) \cup Survivors(durable[p]) :
                                           p \in Positions}] :
          /\ \A p \in Positions : left[p] \in Survivors(named[p]) \cup Survivors(durable[p])
          /\ named' = left /\ durable' = left
    /\ disturbed' = TRUE
    /\ UNCHANGED <<pos, temp, started>>

-----------------------------------------------------------------------------
Step(w) == Write(w) \/ Sync(w) \/ Replace(w) \/ Advance(w) \/ Return(w) \/ Fail(w)

Over == (\A w \in Writers : pc[w] # "idle" /\ ~Active(w)) /\ durable = named /\ UNCHANGED vars

Next ==
    /\ \/ \E w \in Writers : Start(w) \/ Step(w) \/ Kill(w)
       \/ \E p \in Positions : Settle(p)
       \/ PowerLoss
       \/ Over
    /\ UNCHANGED job

Spec == Init /\ [][Next]_vars

-----------------------------------------------------------------------------
(* Properties.                                                             *)

\* Under its name a file is always all there: not while it is being written,
\* not after a kill, and not after the power went.
NeverTorn == \A p \in Positions : named[p].whole

\* The n-th call to start, 0 for the file of no call.
Age(w) == IF w = Nobody THEN 0 ELSE CHOOSE i \in DOMAIN started : started[i] = w

\* A call that was killed or failed leaves a mixture of its report and the one
\* before; still, raw.jsonl is never older than summary.json, and that never
\* older than summary.md.
NewerFirst ==
    ~disturbed => \A p, q \in Positions : p < q => Age(named[p].by) >= Age(named[q].by)

\* After a call that returned, all its files are in place until the next call
\* starts.
ReturnedMeansInPlace ==
    \A w \in Writers :
        pc[w] = "done" /\ ~disturbed /\ started[Len(started)] = w =>
            \A p \in Positions : named[p].by = w

\* Where the function has an except clause for it, only a call that was killed
\* leaves a temporary file behind.
NoLeftovers == job.cleansUp => \A w \in Writers : pc[w] \in {"done", "failed"} => ~OnDisk(temp[w])
=============================================================================
