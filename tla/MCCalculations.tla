--------------------------- MODULE MCCalculations ---------------------------
(* Bounded inputs of Calculations for TLC.                                 *)
EXTENDS Calculations

SmallSamples == UNION {[1..n -> 0..3] : n \in 1..5}
Directions == {<<1, 0>>, <<2, 0>>, <<1, 1>>, <<0, 1>>, <<-1, 1>>, <<-2, 0>>, <<0, 0>>}
FewRules == UNION {[1..n -> Directions] : n \in 1..5}
            \cup {<<<<1, 0>>, <<1>>>>, <<<<1, 0>>, <<0, 1>>, <<>>>>, <<<<>>, <<>>>>}
=============================================================================
