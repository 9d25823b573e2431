---------------------------- MODULE MCBenchRun ------------------------------
(* Small instances of BenchRun for TLC.                                    *)
EXTENDS BenchRun

RisingLevels == <<1, 2>>
RepeatedLevels == <<1, 1>>
=============================================================================
