\* A client follows a growing log, is woken now and then, and reconnects.
CONSTANTS
  Clients = {c1}
  MaxSeq = 4
SPECIFICATION FairSpec
INVARIANTS FramesConsecutive NoHoleAfterReconnect
PROPERTIES WokenCatchesUp
