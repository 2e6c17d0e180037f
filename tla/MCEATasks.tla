----------------------------- MODULE MCEATasks -----------------------------
(* Small instances of EATasks for TLC.                                     *)
EXTENDS EATasks, TLC

Symmetry == Permutations(Callers) \cup Permutations(Tasks)
=============================================================================
