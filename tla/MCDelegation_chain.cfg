\* Three runs in a chain; an EA helper and a coding routine serve the run at the top.
CONSTANTS
  r0 = r0
  r1 = r1
  r2 = r2
  e1 = e1
  k1 = k1
  p1 = p1
  tmp = tmp
  h1 = h1
  s1 = s1
  o1 = o1
  Runs = {r0, r1, r2}
  Root = r0
  Manifests <- MCManifests
  Outputs = {o1}
  TmpPath = tmp
  EAHelpers = {e1}
  CodingHelpers = {k1}
  ParentRun <- MCParentRun
  Checkpoints = {"plan-approved"}
  MaxRecords = 2
  MaxLives = 2
  MaxWork = 4
  None = None
SPECIFICATION Spec
INVARIANTS GrantsBounded AllowlistsKeepHosts RefusalsExplained
CHECK_DEADLOCK FALSE
