\* Three sessions race on every statement of append() for one run while its
\* state changes.
CONSTANTS
  Runs = {r1}
  EventIds = {e1, e2, e3}
  Sessions = {s1, s2, s3}
  Readers = {c1}
  States = {created, completed}
  Created = created
  TerminalStates = {completed}
  None = None
SPECIFICATION Spec
SYMMETRY Symmetry
INVARIANTS SeqContiguous OneWriterPerRun ReaderMissesNothing
PROPERTIES ImplementsRunLog
