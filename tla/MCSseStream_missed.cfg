\* The same client, and the events it is promised.
CONSTANTS
  Clients = {c1}
  MaxSeq = 2
SPECIFICATION FairSpec
PROPERTIES EveryEventArrives
