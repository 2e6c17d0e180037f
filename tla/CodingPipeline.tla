--------------------------- MODULE CodingPipeline ---------------------------
(***************************************************************************)
(* A pipeline (domain/pipeline.py), the adversarial reviews at its         *)
(* checkpoints and the engine that walks it. A caller constructs the       *)
(* pipeline, has its checkpoints reviewed, as often as it likes, and       *)
(* executes the pipeline with the outcomes it has so far. A review is a    *)
(* transaction on the log of the run; one that raises (a closed run, a     *)
(* duplicate event id) is rolled back and takes no step. The engine has no *)
(* await: nothing else happens while it runs.                              *)
(***************************************************************************)
EXTENDS Naturals, Sequences, FiniteSets, SequencesExt

CONSTANTS
  Nodes,       \* node ids
  Checkpoints, \* those whose kind is review_checkpoint
  Candidates,  \* what callers hand to Pipeline(): [start |-> ..., routes |-> ...]
  Policies,    \* tool policies: the rules for adversarial_review and the default
  Detected,    \* the finding classes that handbacks give cause for
  MaxSteps,    \* the arguments max_steps, None where it is left out
  MaxEvents,   \* bound: no review begins once the log has so many events
  None         \* no node, no action, no finding

Outcomes  == {"success", "failure"}
Decisions == {"auto-allow", "approval-required", "forbidden"}
Destructive == "destructive_tool_misuse"

Detectors ==
  {"prompt_injection", "approval_boundary_misuse", "malformed_memory_knowledge", Destructive}

ASSUME PipelineAssumption ==
  /\ IsFiniteSet(Nodes) /\ Nodes # {}
  /\ None \notin Nodes \cup Candidates \cup Outcomes \cup {"continue", "branch", "abort"}
  /\ Checkpoints \subseteq Nodes
  /\ Detected \subseteq Detectors
  /\ MaxSteps \subseteq Nat \cup {None}

VARIABLES
  pipeline, \* the pipeline constructed, None before
  policy,   \* the ToolPolicy of the reviews
  outcomes, \* outcomes[n]: the outcome the caller has for node n, or None
  log,      \* the events of the run in seq order
  engine    \* execute(): step limit, current node, visited nodes, status

vars == <<pipeline, policy, outcomes, log, engine>>

-----------------------------------------------------------------------------
(* The pipeline                                                            *)

\* Pipeline.__post_init__: nodes exist, and a node has one route per outcome.
Valid(p) ==
  /\ p.start \in Nodes
  /\ \A r \in p.routes :
       /\ r.from \in Nodes
       /\ r.to \in Nodes \cup {None}
       /\ \A s \in p.routes : s.from = r.from /\ s.outcome = r.outcome => s = r

\* Pipeline.route: the routes for an outcome, one or none.
RoutesFor(n, o) == {r \in pipeline.routes : r.from = n /\ r.outcome = o}

\* What does not pass is refused, and the caller tries another one.
Construct ==
  /\ pipeline = None
  /\ \E p \in Candidates : Valid(p) /\ pipeline' = p
  /\ UNCHANGED <<policy, outcomes, log, engine>>

-----------------------------------------------------------------------------
(* The reviews                                                             *)

\* The first rule for the finding's class, or for every action, decides.
PolicyDecision(f) ==
  LET i == SelectInSeq(policy.rules, LAMBDA r : r.action \in {None, f})
  IN IF i > 0 THEN policy.rules[i].decision
     ELSE IF f = Destructive THEN "forbidden" ELSE policy.default

Gate(findings) ==
  IF findings = {} THEN "continue"
  ELSE IF \E f \in findings : f = Destructive \/ PolicyDecision(f) = "forbidden"
       THEN "abort" ELSE "branch"

\* Mutant: only an aborted checkpoint fails its node.
GateOutcomeLenient(findings) == IF Gate(findings) = "abort" THEN "failure" ELSE "success"

GateOutcome(findings) == IF Gate(findings) = "continue" THEN "success" ELSE "failure"

Waiting(n) == [node |-> n, what |-> "approval_waiting", gate |-> None]
Finding(n, f, gate) == [node |-> n, what |-> f, gate |-> gate]

\* Mutant: approval is asked for what policy does not forbid.
ApprovalRequestBranchOnly(n, findings) ==
  IF Gate(findings) = "branch" THEN <<Waiting(n)>> ELSE <<>>

\* _request_approval: whatever the gate is, findings need an approval.
ApprovalRequest(n, findings) ==
  IF findings = {} THEN <<>> ELSE <<Waiting(n)>>

\* _emit_finding_events: one event for each finding, in the order in which
\* _detect asks its detectors, or one that says none.
FindingEvents(n, findings) ==
  LET Of(f) == IF f \in findings THEN <<Finding(n, f, Gate(findings))>> ELSE <<>>
  IN IF findings = {} THEN <<Finding(n, "none", "continue")>>
     ELSE Of("prompt_injection") \o Of("approval_boundary_misuse")
          \o Of("malformed_memory_knowledge") \o Of(Destructive)

\* append(): evt-approval-{run}-adversarial_review-waiting is one id for all
\* the reviews of a run, the other events have fresh ones.
MayAppend(events) ==
  \A i \in DOMAIN events, j \in DOMAIN log :
    ~(events[i].what = "approval_waiting" /\ log[j].what = "approval_waiting")

Review(n, findings) ==
  LET events == ApprovalRequest(n, findings) \o FindingEvents(n, findings) IN
  /\ pipeline # None /\ engine.status # "running"
  /\ Len(log) < MaxEvents
  /\ MayAppend(events)
  /\ log' = log \o events
  /\ outcomes' = [outcomes EXCEPT ![n] = GateOutcome(findings)]
  /\ UNCHANGED <<pipeline, policy, engine>>

\* The caller decides on the outcome of a node that is not a checkpoint.
Supply(n, o) ==
  /\ pipeline # None /\ engine.status # "running"
  /\ outcomes' = [outcomes EXCEPT ![n] = o]
  /\ UNCHANGED <<pipeline, policy, log, engine>>

-----------------------------------------------------------------------------
(* The engine                                                              *)

Idle == [limit |-> 0, at |-> None, visited |-> <<>>, status |-> "idle"]

\* max_steps of at least 1, or twice the number of nodes.
Execute(max) ==
  /\ pipeline # None /\ engine.status # "running"
  /\ engine' = [limit |-> IF max = None THEN 2 * Cardinality(Nodes) ELSE max,
                at |-> pipeline.start, visited |-> <<>>,
                status |-> IF max = 0 THEN "raised" ELSE "running"]
  /\ UNCHANGED <<pipeline, policy, outcomes, log>>

Running == engine.status = "running"

\* Mutant: running out of steps is a way to finish, as the last node did.
StopCompleted ==
  /\ Running
  /\ Len(engine.visited) >= engine.limit
  /\ engine' = [engine EXCEPT !.at = None, !.status =
                  IF Last(engine.visited).outcome = "failure" THEN "aborted" ELSE "completed"]
  /\ UNCHANGED <<pipeline, policy, outcomes, log>>

\* Mutant: when the steps are used up, the pipeline is tried again.
StopRestarts ==
  /\ Running
  /\ Len(engine.visited) >= engine.limit
  /\ engine' = [engine EXCEPT !.visited = <<>>, !.at = pipeline.start]
  /\ UNCHANGED <<pipeline, policy, outcomes, log>>

\* The step limit is reached.
Stop ==
  /\ Running
  /\ Len(engine.visited) >= engine.limit
  /\ engine' = [engine EXCEPT !.status = "raised", !.at = None]
  /\ UNCHANGED <<pipeline, policy, outcomes, log>>

\* No outcome for the node, or no route for its outcome.
Miss ==
  /\ Running
  /\ Len(engine.visited) < engine.limit
  /\ outcomes[engine.at] # None => RoutesFor(engine.at, outcomes[engine.at]) = {}
  /\ engine' = [engine EXCEPT !.status = "raised", !.at = None]
  /\ UNCHANGED <<pipeline, policy, outcomes, log>>

\* Mutant: the end of the pipeline is success, whatever the last outcome.
StatusAfterLenient(o, to) == IF to = None THEN "completed" ELSE "running"

StatusAfter(o, to) ==
  IF to # None THEN "running" ELSE IF o = "failure" THEN "aborted" ELSE "completed"

Visit ==
  /\ Running
  /\ Len(engine.visited) < engine.limit
  /\ outcomes[engine.at] # None
  /\ LET o == outcomes[engine.at] IN
     \E r \in RoutesFor(engine.at, o) :
       engine' = [engine EXCEPT
                    !.visited = Append(@, [node |-> engine.at, outcome |-> o]),
                    !.at = r.to,
                    !.status = StatusAfter(o, r.to)]
  /\ UNCHANGED <<pipeline, policy, outcomes, log>>

-----------------------------------------------------------------------------

Init ==
  /\ pipeline = None
  /\ policy \in Policies
  /\ outcomes = [n \in Nodes |-> None]
  /\ log = <<>>
  /\ engine = Idle

Step == Stop \/ Miss \/ Visit

Next ==
  \/ Construct
  \/ \E n \in Checkpoints, findings \in SUBSET Detected : Review(n, findings)
  \/ \E n \in Nodes \ Checkpoints, o \in Outcomes : Supply(n, o)
  \/ \E max \in MaxSteps : Execute(max)
  \/ Step

Spec == Init /\ [][Next]_vars

\* The engine does not wait for anything.
FairSpec == Spec /\ WF_vars(Step)

-----------------------------------------------------------------------------
(* Properties                                                              *)

Events ==
  [node : Checkpoints, what : {"approval_waiting", "none"} \cup Detectors,
   gate : {"continue", "branch", "abort", None}]

TypeOK ==
  /\ pipeline = None \/ Valid(pipeline)
  /\ policy \in Policies
  /\ outcomes \in [Nodes -> Outcomes \cup {None}]
  /\ log \in Seq(Events)
  /\ engine.at \in Nodes \cup {None} /\ (Running => engine.at # None)
  /\ engine.visited \in Seq([node : Nodes, outcome : Outcomes])
  /\ engine.status \in {"idle", "running", "completed", "aborted", "raised"}
  /\ Len(engine.visited) <= engine.limit

(***************************************************************************)
(* However often a checkpoint was reviewed, with reviews that raised in    *)
(* between, the outcome the engine is given for it is what the last review *)
(* event of the log says: success after a gate that continues, and failure *)
(* after one that branches or aborts.                                      *)
(***************************************************************************)
OutcomeMatchesLog ==
  \A n \in Checkpoints :
    LET said == {i \in DOMAIN log : log[i].node = n /\ log[i].gate # None} IN
    /\ outcomes[n] # None <=> said # {}
    /\ \A i \in said : (\A j \in said : j <= i) =>
         outcomes[n] = IF log[i].gate = "continue" THEN "success" ELSE "failure"

(***************************************************************************)
(* A finding that blocks is in the log only behind the approval request of *)
(* its own review, and there is one such review in a run: the next one     *)
(* with findings raises, because the approval has one id per run.          *)
(***************************************************************************)
BlockedBehindApproval ==
  \A i \in DOMAIN log : log[i].gate \in {"branch", "abort"} =>
    /\ \E j \in 1..(i - 1) : log[j] = Waiting(log[i].node)
    /\ \A j \in DOMAIN log : log[j].what = "approval_waiting" => log[j].node = log[i].node

(***************************************************************************)
(* An execution that ends with a result has visited no node twice: the     *)
(* outcomes are fixed, so a loop edge taken once is taken until the limit. *)
(***************************************************************************)
FinishedRouteIsSimple ==
  engine.status \in {"completed", "aborted"} =>
    \A i, j \in DOMAIN engine.visited :
      engine.visited[i].node = engine.visited[j].node => i = j

(***************************************************************************)
(* A pipeline completes only after a success of its last node; a failed    *)
(* checkpoint before it was left by a route declared for its failure.      *)
(***************************************************************************)
CompletedEndsInSuccess ==
  /\ engine.status = "completed" => Last(engine.visited).outcome = "success"
  /\ engine.status = "aborted" => Last(engine.visited).outcome = "failure"

(***************************************************************************)
(* Every execution returns or raises, also of a pipeline with loop edges.  *)
(***************************************************************************)
EngineEnds == Running ~> ~Running
=============================================================================
