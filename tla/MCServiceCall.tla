--------------------------- MODULE MCServiceCall ---------------------------
(* Instances of ServiceCall for TLC.                                         *)
EXTENDS ServiceCall, TLC

(* Calls and producers are interchangeable: no action or property names one. *)
Symmetry == Permutations(Calls) \cup Permutations(Producers)
=============================================================================
