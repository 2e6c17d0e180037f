-------------------------- MODULE MCCodingPipeline --------------------------
(* Small instances for TLC of a coding run: its pipeline, and its          *)
(* till-done loop, which share no state.                                   *)
EXTENDS CodingPipeline, TillDone

CONSTANTS gate, work, recheck

\* Success leads from the gate over the work to the second gate; failures have
\* any set of routes, those that Pipeline() refuses included.
ChainCandidates ==
  LET chain == {[from |-> gate, outcome |-> "success", to |-> work],
                [from |-> work, outcome |-> "success", to |-> recheck],
                [from |-> recheck, outcome |-> "success", to |-> None]}
      failing == [from : Nodes, outcome : {"failure"}, to : Nodes \cup {None}]
  IN [start : {gate}, routes : {chain \cup fs : fs \in SUBSET failing}]

\* The presets have no rule for the review; a custom policy may have some.
SomePolicies ==
  {[rules |-> <<>>, default |-> "approval-required"],
   [rules |-> <<[action |-> Destructive, decision |-> "auto-allow"],
                [action |-> None, decision |-> "forbidden"]>>, default |-> "auto-allow"]}

SmallConfigs == [max_iterations : 0..4, check_failure_max : {2}]

\* Neither part reads what the other writes, so it is enough to let one move
\* while the other is in its first state, with one of the configurations.
LoopIdle == stream = <<>> /\ config = CHOOSE c \in Configs : TRUE
PipelineIdle == pipeline = None

\* The loop has returned, and nothing follows.
Returned == outcome # NoOutcome /\ UNCHANGED <<vars, loopVars>>

Either ==
  \/ Next /\ LoopIdle /\ UNCHANGED loopVars
  \/ LoopNext /\ PipelineIdle /\ UNCHANGED vars
  \/ Returned

CodingInit == Init /\ LoopInit

CodingSpec ==
  /\ CodingInit
  /\ [][Either]_<<vars, loopVars>>
  /\ WF_vars(Step)
=============================================================================
