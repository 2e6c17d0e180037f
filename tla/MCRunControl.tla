---------------------------- MODULE MCRunControl ----------------------------
(* Small instances of RunControl, watched through RunViews, for TLC.       *)
EXTENDS RunViews, TLC

CONSTANT r1

Good == [run |-> r1, foreign |-> FALSE, drifted |-> FALSE]

\* pending-runs.yaml names the run, or names it after an entry that aborts the
\* pass.
Files ==
  { <<Good>>,
    <<[Good EXCEPT !.foreign = TRUE], Good>> }

\* The bounds of the instance. A recovery that is under way or was blocked does
\* not meet a cancel or another resume; each meets starts and orchestrations.
\* An operator views a run that is only started and orchestrated.
Under(verbs) == \E c \in Callers : call[c].verb \in verbs
Logged(name) == \E r \in Runs : name \in ToSet(log[r])

RecoveryApart ==
  ~ /\ Under({"rehydrate"}) \/ Logged("resume-blocked")
    /\ Under({"cancel", "resume"}) \/ Logged("cancelled")

ViewsApart ==
  \/ view = NoView
  \/ ~ \/ Under({"rehydrate", "resume", "cancel"})
       \/ \E name \in {"resume-blocked", "resumed", "cancelled"} : Logged(name)

BoundedSpec == ViewInit /\ [][ViewNext /\ RecoveryApart' /\ ViewsApart']_viewVars

Symmetry == Permutations(Callers)
=============================================================================
