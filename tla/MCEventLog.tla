----------------------------- MODULE MCEventLog -----------------------------
(* Small instances of EventLog for TLC.                                    *)
EXTENDS EventLog, TLC

Symmetry ==
  Permutations(Sessions) \cup Permutations(EventIds) \cup Permutations(Runs)
=============================================================================
