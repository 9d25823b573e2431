------------------------------ MODULE B029Run -------------------------------
(***************************************************************************)
(* `local-ai-lab poc b029 run` (src/src/local_ai_lab/poc_b029/command.py,  *)
(* client.py, report.py): read the case, ask Vision, ask for embeddings,   *)
(* compare, evaluate, and publish three files as one new directory.  The   *)
(* fixture directory may still be written, several runs may be given the   *)
(* same output directory, any step may fail, and a run may be killed       *)
(* between any two steps.                                                  *)
(***************************************************************************)
EXTENDS B029Fixtures

CONSTANTS Runs,      \* runs of the command
          Outputs,   \* values of --output
          Answers,   \* records that Vision may answer
          MaxKills   \* bound: runs that are killed

ASSUME RunAssumption == /\ \A rec \in Answers : DOMAIN rec = Fields /\ Answered(rec)
                        /\ MaxKills \in Nat

VARIABLES
    pc,       \* where each run is
    target,   \* its --output
    answer,   \* the record Vision answered
    broken,   \* Vision's message was no JSON record
    torndoc,  \* the document it read was not whole
    report,   \* the comparison and its evaluation
    temp,     \* the files in its temporary directory
    hasTemp,  \* the temporary directory exists
    exists,   \* output directories that exist
    content   \* their files: pairs of a name and the run that wrote it

vars == <<pc, target, answer, broken, torndoc, report, temp, hasTemp, exists, content, fixtures>>

\* The order of the writes.
FILES == <<"result.json", "evaluation.json", "result.md">>
Files == {FILES[i] : i \in DOMAIN FILES}
FilesOf(r) == {<<f, r>> : f \in Files}

NoAnswer == [f \in Fields |-> "null"]
NoReport == [status |-> "none", differences |-> <<>>, missing |-> <<>>, passed |-> FALSE]

Working == {"reading", "asking", "embedding", "publishing", "writing", "renamed", "cleaning"}
Over == {"published", "failed", "killed"}

\* The values of runs, directories and reports; a run that waits for nothing
\* more has no temporary directory unless it was killed.
TypeOK ==
    /\ pc \in [Runs -> Working \cup Over]
    /\ target \in [Runs -> Outputs]
    /\ answer \in [Runs -> Answers \cup {NoAnswer}]
    /\ broken \in [Runs -> BOOLEAN] /\ torndoc \in [Runs -> BOOLEAN]
    /\ \A r \in Runs :
         /\ report[r].status \in {"none", "match", "mismatch", "needs_human_review"}
         /\ hasTemp[r] => pc[r] \in {"writing", "cleaning", "killed"}
    /\ temp \in [Runs -> SUBSET Files] /\ hasTemp \in [Runs -> BOOLEAN]
    /\ exists \subseteq Outputs
    /\ content \in [Outputs -> SUBSET (Files \X Runs)]
    /\ FixturesTypeOK

Init ==
    /\ pc = [r \in Runs |-> "reading"]
    /\ target \in [Runs -> Outputs]
    /\ answer = [r \in Runs |-> NoAnswer] /\ broken = [r \in Runs |-> FALSE]
    /\ torndoc = [r \in Runs |-> FALSE]
    /\ report = [r \in Runs |-> NoReport]
    /\ temp = [r \in Runs |-> {}] /\ hasTemp = [r \in Runs |-> FALSE]
    /\ exists \in SUBSET Outputs
    /\ content = [d \in Outputs |-> {}]
    /\ FixturesInit

Go(r, from, to) == pc[r] = from /\ pc' = [pc EXCEPT ![r] = to]

Disk  == <<temp, hasTemp, exists, content>>
Given == <<target, fixtures>>
Known == <<answer, report>>

\* What a process knew is gone with it.
Forget(r) ==
    /\ answer' = [answer EXCEPT ![r] = NoAnswer]
    /\ report' = [report EXCEPT ![r] = NoReport]

-----------------------------------------------------------------------------
(* The command, and run_case up to the report.                             *)

\* cli.py: a timeout that is not positive.
RefuseArguments(r) == Go(r, "reading", "failed") /\ UNCHANGED torndoc

\* The manifest or the rules cannot be read, are invalid or point elsewhere.
RefuseCase(r) == Go(r, "reading", "failed") /\ UNCHANGED torndoc

\* The document is of the wrong kind, too large, unreadable or of many pages.
RefuseDocument(r) == Go(r, "reading", "failed") /\ UNCHANGED torndoc

\* The manifest, the document, the rules and the credential.
ReadCase(r) ==
    /\ \/ RefuseArguments(r) \/ RefuseCase(r) \/ RefuseDocument(r)
       \/ \E kind \in {"png", "pdf"} :
             /\ CaseReadable(kind)
             /\ Go(r, "reading", "asking")
             /\ torndoc' = [torndoc EXCEPT ![r] = DocumentFor(kind) \notin Whole]
    /\ UNCHANGED <<broken, Known, Given, Disk>>

\* extract_record: a record of the schema.
Extract(r) ==
    /\ Go(r, "asking", "embedding")
    /\ \E rec \in Answers :
          /\ Validates(Normalized(rec))
          /\ answer' = [answer EXCEPT ![r] = rec]
    /\ UNCHANGED <<broken, torndoc, report, Given, Disk>>

\* _embedding_vectors: not one finite vector of the same length for each text.
RefuseVectors(r) == Go(r, "embedding", "failed")

\* _post, for either request: no usable HTTP answer.
GatewayFails(r) ==
    /\ Go(r, "asking", "failed") \/ Go(r, "embedding", "failed") \/ RefuseVectors(r)
    /\ Forget(r)
    /\ UNCHANGED <<broken, torndoc, Given, Disk>>

\* extract_record: the message is not JSON, or a record that fails the schema.
VisionUnusable(r) ==
    /\ Go(r, "asking", "failed")
    /\ \/ broken' = [broken EXCEPT ![r] = TRUE]
       \/ (\E rec \in Answers : ~Validates(Normalized(rec))) /\ UNCHANGED broken
    /\ UNCHANGED <<torndoc, Known, Given, Disk>>

\* embed_texts answers and rank_rules accepts the vectors; compare_records has
\* run in between, and its result is evaluated against what the case expects.
Embed(r) ==
    /\ Go(r, "embedding", "publishing")
    /\ LET comparison == CompareRecords(Normalized(answer[r]))
       IN  report' = [report EXCEPT ![r] =
               [status |-> comparison.status, differences |-> comparison.differences,
                missing |-> comparison.missing, passed |-> Passes(comparison)]]
    /\ UNCHANGED <<answer, broken, torndoc, Given, Disk>>

-----------------------------------------------------------------------------
(* write_b029_reports.                                                     *)

\* _ensure_safe: what is rendered holds no source document content.
Safe(r) == \A f \in Fields : answer[r][f] # "document"

\* The directory must not exist; then the temporary one is made beside it.
Prepare(r) ==
    /\ \/ /\ target[r] \notin exists /\ Safe(r)
          /\ Go(r, "publishing", "writing")
          /\ hasTemp' = [hasTemp EXCEPT ![r] = TRUE]
          /\ UNCHANGED Known
       \/ Go(r, "publishing", "failed") /\ UNCHANGED hasTemp /\ Forget(r)
    /\ UNCHANGED <<broken, torndoc, Given, temp, exists, content>>

WriteFile(r) ==
    /\ pc[r] = "writing" /\ temp[r] # Files
    /\ temp' = [temp EXCEPT ![r] = @ \cup {FILES[Cardinality(@) + 1]}]
    /\ UNCHANGED <<pc, broken, torndoc, Known, Given, hasTemp, exists, content>>

\* A write fails, with the files so far in the temporary directory.
WriteFails(r) ==
    /\ Go(r, "writing", "cleaning")
    /\ temp[r] # Files
    /\ Forget(r)
    /\ UNCHANGED <<broken, torndoc, Given, Disk>>

Publish(r) ==
    /\ Go(r, "writing", "renamed")
    /\ exists' = exists \cup {target[r]}
    /\ content' = [content EXCEPT ![target[r]] = {<<f, r>> : f \in temp[r]}]
    /\ temp' = [temp EXCEPT ![r] = {}] /\ hasTemp' = [hasTemp EXCEPT ![r] = FALSE]
    /\ UNCHANGED Known

\* Faulty variants, here and below: plausible mistakes that the properties
\* must notice.  Nothing uses them.
RenameReplacing(r) ==
    /\ temp[r] = Files
    /\ Publish(r)
    /\ UNCHANGED <<broken, torndoc, Given>>

RenameOntoFree(r) ==
    /\ temp[r] = Files
    /\ content[target[r]] = {}
    /\ Publish(r)
    /\ UNCHANGED <<broken, torndoc, Given>>

\* temporary_dir.replace: rename(2) takes the name, or replaces an empty
\* directory, and fails on any other.
Rename(r) ==
    /\ temp[r] = Files
    /\ IF content[target[r]] = {}
       THEN Publish(r)
       ELSE Go(r, "writing", "cleaning") /\ Forget(r) /\ UNCHANGED Disk
    /\ UNCHANGED <<broken, torndoc, Given>>

FinishUncleaned(r) ==
    /\ Go(r, "renamed", "published") \/ Go(r, "cleaning", "failed")
    /\ UNCHANGED <<broken, torndoc, Known, Given, Disk>>

\* TemporaryDirectory.__exit__, and the command ends.
Finish(r) ==
    /\ Go(r, "renamed", "published") \/ Go(r, "cleaning", "failed")
    /\ temp' = [temp EXCEPT ![r] = {}] /\ hasTemp' = [hasTemp EXCEPT ![r] = FALSE]
    /\ UNCHANGED <<broken, torndoc, Known, Given, exists, content>>

-----------------------------------------------------------------------------
Kill(r) ==
    /\ Cardinality({q \in Runs : pc[q] = "killed"}) < MaxKills
    /\ pc[r] \in Working
    /\ pc' = [pc EXCEPT ![r] = "killed"]
    /\ IF pc[r] = "renamed" THEN UNCHANGED Known ELSE Forget(r)
    /\ UNCHANGED <<broken, torndoc, Given, Disk>>

\* Another program makes the directory.
MakeOutput(d) ==
    /\ d \notin exists
    /\ exists' = exists \cup {d}
    /\ UNCHANGED <<pc, broken, torndoc, Known, Given, temp, hasTemp, content>>

WriteFixtures ==
    /\ Generate
    /\ UNCHANGED <<pc, target, broken, torndoc, Known, Disk>>

Step(r) ==
    \/ ReadCase(r) \/ Extract(r) \/ GatewayFails(r) \/ VisionUnusable(r) \/ Embed(r)
    \/ Prepare(r) \/ WriteFile(r) \/ WriteFails(r) \/ Rename(r) \/ Finish(r)

Done == (\A r \in Runs : pc[r] \in Over) /\ UNCHANGED vars

Next ==
    \/ \E r \in Runs : Step(r) \/ Kill(r)
    \/ \E d \in Outputs : MakeOutput(d)
    \/ WriteFixtures
    \/ Done

Spec == Init /\ [][Next]_vars

\* The HTTP client has timeouts and a process that is not killed runs on; the
\* generator and other programs owe nothing.
FairSpec == Spec /\ \A r \in Runs : WF_vars(Step(r))

-----------------------------------------------------------------------------
(* Properties.                                                             *)

Published(r) == content[target[r]] = FilesOf(r)

\* Seen from outside, an output directory holds nothing or the whole report of
\* one run, which appears in one step and then stays: never part of a report,
\* never files of two runs, no report replaced by that of a run that found the
\* directory free before, whatever was killed or failed.
ReportIn(d) ==
    CASE content[d] = {} -> "nobody"
      [] \E r \in Runs : content[d] = FilesOf(r)
           -> CHOOSE r \in Runs : content[d] = FilesOf(r)
      [] OTHER -> "nobody's"
Once == INSTANCE WriteOnce WITH Places <- Outputs, Writers <- Runs, Nobody <- "nobody",
                                by <- [d \in Outputs |-> ReportIn(d)]
ImplementsWriteOnce == Once!Spec

\* The exit status tells: success means that this run's report is in place;
\* failure means that nothing of it is, neither a report nor a leftover.
ExitTellsTheTruth ==
    \A r \in Runs :
        /\ pc[r] = "published" => Published(r)
        /\ pc[r] = "failed" =>
              ~hasTemp[r] /\ \A d \in Outputs : content[d] \cap FilesOf(r) = {}

\* What Vision could not read decides a published report before anything that
\* it could read: such a run is a review, which lists exactly those fields, and
\* never a match or a mismatch; and a match means that every field equals
\* Kintone's up to case and spaces.
UnreadIsNeverMatch ==
    \A r \in Runs : Published(r) =>
        LET unread == {f \in Fields : answer[r][f] \in Unreadable}
        IN  /\ report[r].status = "needs_human_review" <=> unread # {}
            /\ {report[r].missing[i] : i \in DOMAIN report[r].missing} = unread
            /\ report[r].status = "match" =>
                  \A f \in Fields : answer[r][f] \in {"same", "respelled"}

\* A published evaluation passes exactly if Vision read every field and found
\* paper and Kintone to differ in the fields in which the case differs, no more
\* and no fewer, whichever generator wrote down what the case expects: both
\* lists are compared in order.  (Which other value it read is not compared.)
Misread(r) == {f \in Fields : answer[r][f] \notin {"same", "respelled"}}
EvaluationIsFair ==
    \A r \in Runs : Published(r) =>
        (report[r].passed <=> /\ Misread(r) = case
                              /\ \A f \in case : answer[r][f] \notin Unreadable)

\* A run that got past reading has read a whole document, although a generator
\* may still be at work or have died, and SHA256SUMS comes after all it sums.
FixturesAreWholeWhenUsed ==
    /\ \A r \in Runs : ~torndoc[r]
    /\ "SHA256SUMS" \in Whole => Whole = FixtureFiles

\* Every run ends, in particular the one that loses the directory to another.
RunsEnd == <>(\A r \in Runs : pc[r] \in Over)

\* What docs/superpowers/specs/2026-09-21-b029-synthetic-poc-design.md:91 says
\* of an answer that is not valid JSON: it gives a result, needs_human_review.
InvalidJsonGoesToReview ==
    \A r \in Runs : broken[r] =>
        pc[r] # "failed" /\ (pc[r] = "published" => report[r].status = "needs_human_review")
=============================================================================
