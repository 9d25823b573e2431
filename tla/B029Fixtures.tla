---------------------------- MODULE B029Fixtures ------------------------------
(***************************************************************************)
(* The directories of synthetic cases and their two generators:            *)
(* `local-ai-lab poc b029 fixtures` (poc_b029/fixtures.py, which writes    *)
(* the rules into the case) and tools/generate_b029_synthetic_documents.py *)
(* (a PNG and a PDF, shared rules, tables and SHA256SUMS).  Neither writes *)
(* atomically and neither starts on a directory that holds files, so what  *)
(* a generator leaves when it fails or is killed stays.  One case stands   *)
(* for the ten, which are written one after the other in the same way.     *)
(***************************************************************************)
EXTENDS B029Compare

CONSTANTS Cases   \* the fields in which paper and Kintone differ, per case

ASSUME FixtureAssumption == \A c \in Cases : c \subseteq Fields

VARIABLES
    layout,    \* whose directory it is
    case,      \* the case it holds
    written,   \* how many of its files are whole
    torn       \* the next one has been opened and is not whole

fixtures == <<layout, case, written, torn>>

\* The fields that differ in case-01 to case-10.
FIXTURES ==
    <<{}, {}, {}, {}, {}, {"actual_quantity"}, {"defect_quantity"}, {"work_order"},
      {"item_code"}, {"work_date", "process"}>>

\* The files of a case, in their order.
CaseFiles == [cli |-> <<"png", "case">>, tool |-> <<"png", "pdf", "case">>]

\* Faulty variants, here and below: plausible mistakes that the properties
\* must notice.  Nothing uses them.
SumsBeforeRules ==
    [cli |-> <<>>, tool |-> <<"kintone-export", "ground-truth", "SHA256SUMS", "rules">>]

\* The files that follow after all cases.
SharedFiles ==
    [cli |-> <<>>, tool |-> <<"kintone-export", "ground-truth", "rules", "SHA256SUMS">>]

Layouts == {"cli", "tool"}
Order == [l \in Layouts |-> CaseFiles[l] \o SharedFiles[l]]

FixtureFiles == {Order[layout][i] : i \in DOMAIN Order[layout]}
Whole == {Order[layout][i] : i \in 1..written}
Torn  == IF torn THEN {Order[layout][written + 1]} ELSE {}

FixturesTypeOK ==
    /\ layout \in Layouts /\ case \in Cases
    /\ written \in 0..Len(Order[layout]) /\ torn \in BOOLEAN
    /\ torn => written < Len(Order[layout])

FixturesInit ==
    /\ layout \in Layouts /\ case \in Cases
    /\ written = 0 /\ torn = FALSE

\* A file is opened for writing, by the generator or by rsvg-convert.
Open ==
    /\ ~torn /\ written < Len(Order[layout])
    /\ torn' = TRUE
    /\ UNCHANGED <<layout, case, written>>

\* It is whole, and closed.
Write ==
    /\ torn
    /\ torn' = FALSE /\ written' = written + 1
    /\ UNCHANGED <<layout, case>>

\* One that is never scheduled again stands for a generator that died.
Generate == Open \/ Write

-----------------------------------------------------------------------------
(* What a run finds in the directory.  Files only ever become whole, so to *)
(* read them one by one is to read them at the moment of the last.         *)

\* The file that the case names for --document.
DocumentFor(kind) == IF layout = "cli" THEN "png" ELSE kind

\* A truncated PNG fails its verification; a truncated PDF is repaired.
Openable(file) == file \in Whole \/ (file \in Torn /\ file = "pdf")

\* The rules are in the case, or in rules.synthetic.json beside it.
RulesReadable == layout = "cli" \/ "rules" \in Whole

CaseReadable(kind) ==
    "case" \in Whole /\ Openable(DocumentFor(kind)) /\ RulesReadable

-----------------------------------------------------------------------------
(* The outcome that a case expects, and the evaluation of a report.        *)

\* The order of the tool's own record class.
AsDictByProcess ==
    <<"process", "work_date", "work_order", "item_code", "actual_quantity", "defect_quantity">>

AsDict ==
    <<"work_date", "work_order", "process", "item_code", "actual_quantity", "defect_quantity">>

\* Each generator lists the differences in the order that it keeps itself.
ExpectedOrder == [cli |-> FIELD_ORDER, tool |-> AsDict]

Expected ==
    [status |-> IF case = {} THEN "match" ELSE "mismatch",
     differences |-> InOrder(ExpectedOrder[layout], case)]

Passes(report) ==
    /\ report.status = Expected.status
    /\ report.differences = Expected.differences
=============================================================================
