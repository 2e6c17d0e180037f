\* Two checkpoints with work between them, and every set of failure routes; and
\* every result of every iteration of a loop of up to four.
CONSTANTS
  gate = gate
  work = work
  recheck = recheck
  Nodes = {gate, work, recheck}
  Checkpoints = {gate, recheck}
  Candidates <- ChainCandidates
  Policies <- SomePolicies
  Detected = {"prompt_injection", "destructive_tool_misuse"}
  MaxSteps = {1, None}
  MaxEvents = 3
  None = None
  Configs <- SmallConfigs
  NoOutcome = NoOutcome
SPECIFICATION CodingSpec
INVARIANTS OutcomeMatchesLog BlockedBehindApproval FinishedRouteIsSimple CompletedEndsInSuccess
  VerdictHasCause RevisionsAreShown
PROPERTIES EngineEnds
