\* Each routine on up to two items, against one operator who makes one call.
CONSTANTS
  Tasks = {t1, t2}
  Routine = ro
  Callers = {ro, op}
  Verbs = {"create_task", "transition_task", "request_approval", "resolve_approval"}
  Decisions = {"granted", "denied_abandon", "denied_alternate", "timeout"}
  MaxEvents = 30
  Assets <- MCAssets
  Requests <- MCRequests
  Blank = ""
  None = None
SPECIFICATION RoutineSpec
INVARIANTS OutcomesAreLogged NothingGrantedUnasked
PROPERTIES RoutineEnds
CHECK_DEADLOCK FALSE
