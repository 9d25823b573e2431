---------------------------- MODULE MCVastStack -----------------------------
(* Small instances of VastStack for TLC.                                   *)
EXTENDS VastStack
=============================================================================
