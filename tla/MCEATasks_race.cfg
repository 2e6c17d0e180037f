\* Two transactions on one task, its approval and its log.
CONSTANTS
  Tasks = {t1}
  Callers = {c1, c2}
  Verbs = {"create_task", "transition_task", "request_approval", "resolve_approval"}
  Decisions = {"granted", "denied_abandon", "timeout"}
  MaxEvents = 8
  None = None
SPECIFICATION Spec
SYMMETRY Symmetry
INVARIANTS WaitingMatchesRecord LastDecisionRules TaskStateIsLogged
PROPERTIES DecidedStaysDecided
CHECK_DEADLOCK FALSE
