\* An approval is requested and denied for good.
CONSTANTS
  Tasks = {t1}
  Callers = {c1}
  Verbs = {"create_task", "transition_task", "request_approval", "resolve_approval"}
  Decisions = {"denied_abandon"}
  MaxEvents = 8
  None = None
SPECIFICATION Spec
INVARIANTS AbandonedTasksEnd
CHECK_DEADLOCK FALSE
