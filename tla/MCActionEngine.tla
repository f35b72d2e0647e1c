--------------------------- MODULE MCActionEngine ---------------------------
(* Instances of ActionEngine for TLC.                                        *)
EXTENDS ActionEngine, TLC

(* Polls, cancels and (where no temporal property is checked) goals are      *)
(* interchangeable: no action or property names one.                         *)
Symmetry == Permutations(Goals) \cup Permutations(Polls) \cup Permutations(Cancels)
=============================================================================
