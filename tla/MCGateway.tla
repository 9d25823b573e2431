----------------------------- MODULE MCGateway ------------------------------
(* Small instances of Gateway for TLC.                                     *)
EXTENDS Gateway, TLC

\* Requests of one kind are interchangeable.
Symmetry == Permutations(Chat) \cup Permutations(Requests \ Chat)
=============================================================================
