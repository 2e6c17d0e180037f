------------------------------ MODULE TillDone ------------------------------
(***************************************************************************)
(* run_till_done: the plan, act, check loop of a coding run. An iteration  *)
(* asks for a result, emits milestones into a capture stream and either    *)
(* ends the loop or goes round again. There is no await in the loop, so an *)
(* iteration is one step.                                                  *)
(***************************************************************************)
EXTENDS Integers, Sequences

CONSTANTS
  Configs,  \* the LoopConfigs: [max_iterations |-> ..., check_failure_max |-> ...]
  NoOutcome \* the loop has not returned

ASSUME ConfigsAssumption ==
  Configs \subseteq [max_iterations : Int, check_failure_max : Nat]

ASSUME NoOutcomeAssumption == NoOutcome \notin {"completed", "escalated"}

VARIABLES
  config,   \* the LoopConfig of this loop
  results,  \* the IterationResults so far; their number is `iteration`
  failures, \* consecutive_check_failures
  stream,   \* the events of the stream: the iteration and the milestone
  outcome   \* the LoopOutcome returned

loopVars == <<config, results, failures, stream, outcome>>

Results == [check_passed : BOOLEAN, plan_revised : BOOLEAN]

\* IterationResult.done
Done(r) == r.check_passed /\ ~r.plan_revised

iteration == Len(results)

\* The milestones of MILESTONE_CATALOG in the phases plan and code, and the
\* artifact event, which has no milestone.
Catalog == {"drafted", "approval_requested", "ready", "revision_cataloged",
            "iteration_started", "plan_drafted", "plan_approved", "changes_applied",
            "check_passed", "check_failed", "plan_revised", "iteration_complete",
            "loop_escalated", "terminal"} \cup {"plan_revision_artifact"}

\* Mutant: a revised plan is only traced.
VerdictUnshown(r) ==
  IF r.plan_revised THEN <<"plan_revised", "ready">>
  ELSE IF r.check_passed THEN <<"check_passed">> ELSE <<"iteration_complete">>

\* What an iteration emits after changes_applied.
Verdict(r) ==
  IF r.plan_revised THEN <<"revision_cataloged", "plan_revised", "plan_revision_artifact", "ready">>
  ELSE IF r.check_passed THEN <<"check_passed">> ELSE <<"iteration_complete">>

Work(r) ==
  <<"iteration_started", "drafted", "approval_requested", "ready", "changes_applied">>
  \o Verdict(r)
  \o IF Done(r) THEN <<"iteration_complete", "terminal">> ELSE <<>>

Emit(i, names) ==
  stream' = stream \o [n \in DOMAIN names |-> [iteration |-> i, what |-> names[n]]]

-----------------------------------------------------------------------------

LoopInit ==
  /\ config \in Configs
  /\ results = <<>>
  /\ failures = 0
  /\ stream = <<>>
  /\ outcome = NoOutcome

\* The head of the loop: another iteration, and its result.
Obtain(r) ==
  /\ outcome = NoOutcome
  /\ iteration < config.max_iterations
  /\ results' = Append(results, r)

IsLast(i) == i >= config.max_iterations

\* The last iteration escalates before it looks at the result.
LastIteration(r) ==
  /\ Obtain(r)
  /\ IsLast(iteration + 1)
  /\ Emit(iteration + 1, <<"iteration_started", "loop_escalated">>)
  /\ outcome' = "escalated"
  /\ UNCHANGED <<config, failures>>

\* Mutant: a passed check ends the loop, whether or not the plan was revised.
IterateNaive(r) ==
  /\ Obtain(r)
  /\ ~IsLast(iteration + 1)
  /\ Emit(iteration + 1, Work(r))
  /\ failures' = IF r.check_passed THEN failures ELSE failures + 1
  /\ outcome' = IF r.check_passed THEN "completed" ELSE NoOutcome
  /\ UNCHANGED config

\* The counter of failures is neither reset nor compared with its limit.
Iterate(r) ==
  /\ Obtain(r)
  /\ ~IsLast(iteration + 1)
  /\ Emit(iteration + 1, Work(r))
  /\ failures' = IF r.check_passed THEN failures ELSE failures + 1
  /\ outcome' = IF Done(r) THEN "completed" ELSE NoOutcome
  /\ UNCHANGED config

\* The loop was never entered: max_iterations is not positive.
Exhausted ==
  /\ outcome = NoOutcome
  /\ iteration >= config.max_iterations
  /\ Emit(iteration, <<"loop_escalated">>)
  /\ outcome' = "escalated"
  /\ UNCHANGED <<config, results, failures>>

LoopNext ==
  \/ \E r \in Results : LastIteration(r) \/ Iterate(r)
  \/ Exhausted

LoopSpec == LoopInit /\ [][LoopNext]_loopVars

-----------------------------------------------------------------------------
(* Properties                                                              *)

(***************************************************************************)
(* Types, and every event emitted is in the milestone catalog, without     *)
(* which _emit_progress raises out of the middle of an iteration.          *)
(***************************************************************************)
LoopTypeOK ==
  /\ config \in Configs
  /\ results \in Seq(Results)
  /\ failures \in 0..Len(results)
  /\ \A n \in DOMAIN stream :
       stream[n].iteration \in 0..Len(results) /\ stream[n].what \in Catalog
  /\ outcome \in {NoOutcome, "completed", "escalated"}

(***************************************************************************)
(* The verdict of run_till_done has its cause and is the last word of the  *)
(* stream, said once: it completes only on an iteration that passed its    *)
(* check without revising the plan, goes round again only behind one that  *)
(* did not, and escalates only when the iterations are used up or the last *)
(* check_failure_max checks failed. That the last iteration's pass is lost *)
(* or that failures alone escalate is asserted neither way.                *)
(***************************************************************************)
VerdictHasCause ==
  /\ \A i \in DOMAIN results : i < iteration => ~Done(results[i])
  /\ outcome = "completed" => iteration > 0 /\ Done(results[iteration])
  /\ outcome = "escalated" =>
       \/ iteration >= config.max_iterations
       \/ /\ iteration >= config.check_failure_max
          /\ \A i \in DOMAIN results :
               i > iteration - config.check_failure_max => ~results[i].check_passed
  /\ outcome # NoOutcome =>
       /\ {n \in DOMAIN stream : stream[n].what \in {"terminal", "loop_escalated"}} = {Len(stream)}
       /\ stream[Len(stream)] =
            [iteration |-> iteration,
             what |-> IF outcome = "completed" THEN "terminal" ELSE "loop_escalated"]

RevisionEvents == {"revision_cataloged", "plan_revised", "plan_revision_artifact"}

\* The iterations that reported a revised plan.
Revisions == {i \in DOMAIN results : results[i].plan_revised}

\* The iterations that have an event of this name in the stream.
ShownBy(name) == {stream[n].iteration : n \in {n \in DOMAIN stream : stream[n].what = name}}

(***************************************************************************)
(* No opaque re-planning: an iteration that revised the plan and was       *)
(* followed by another has its events of the revision in the stream, and   *)
(* no iteration that did not has; each stands there once and in order, the *)
(* artifact after the milestone that catalogs it. Of a revision in the     *)
(* last iteration nothing is said here.                                    *)
(***************************************************************************)
RevisionsAreShown ==
  LET Of(name) == {n \in DOMAIN stream : stream[n].what = name} IN
  /\ \A name \in RevisionEvents :
       /\ ShownBy(name) \subseteq Revisions
       /\ {i \in Revisions : i < iteration} \subseteq ShownBy(name)
       /\ \A m, n \in Of(name) : m < n => stream[m].iteration < stream[n].iteration
  /\ \A m \in Of("revision_cataloged"), n \in Of("plan_revision_artifact") :
       stream[m].iteration = stream[n].iteration => m < n

-----------------------------------------------------------------------------
(* Statements of the documents and tests that the code does not keep       *)

(***************************************************************************)
(* check_failure_max consecutive failed checks escalate: no iteration      *)
(* follows them.                                                           *)
(***************************************************************************)
FailuresEscalate ==
  \A i \in DOMAIN results :
    LET limit == config.check_failure_max IN
    i > limit => \E j \in (i - limit)..(i - 1) : results[j].check_passed

(***************************************************************************)
(* Every revision emits its events (test_plan_revision.py:6, "on every     *)
(* revision"). The last iteration allowed escalates before it looks at its *)
(* result, and its revision is shown nowhere.                              *)
(***************************************************************************)
EveryRevisionShown ==
  outcome # NoOutcome => \A name \in RevisionEvents : Revisions = ShownBy(name)

(***************************************************************************)
(* A pass ends the loop as completed, whichever iteration it is obtained   *)
(* in. In the last one allowed, and with max_iterations = 1 in the first,  *)
(* it escalates.                                                           *)
(***************************************************************************)
PassCompletes ==
  outcome # NoOutcome =>
    (outcome = "completed" <=> \E i \in DOMAIN results : Done(results[i]))
=============================================================================
