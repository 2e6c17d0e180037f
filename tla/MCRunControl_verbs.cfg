\* Two coroutines start, resume, cancel, orchestrate or recover one run, recovery
\* from a file that may be out of date, while an operator views it.
CONSTANTS
  r1 = r1
  Runs = {r1}
  Callers = {c1, c2}
  Verbs = {"start", "resume", "cancel", "orchestrate", "rehydrate"}
  PendingFiles <- Files
  None = None
SPECIFICATION BoundedSpec
SYMMETRY Symmetry
INVARIANTS ScriptInOrder SoleOrchestrator RefusedOnlyByVerbs CompletedIsRecorded StateIsExplained
PROPERTIES CompletedIsFinal
CHECK_DEADLOCK FALSE
