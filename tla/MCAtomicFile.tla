---------------------------- MODULE MCAtomicFile ----------------------------
(* Small instances of AtomicFile for TLC.                                  *)
EXTENDS AtomicFile

WriteReport == [names |-> <<"raw.jsonl", "summary.json", "summary.md">>, cleansUp |-> FALSE]
WriteManifest == [names |-> <<"manifest.json">>, cleansUp |-> TRUE]
BothJobs == {WriteReport, WriteManifest}
=============================================================================
