\* Each kind of session against files that are right or wrong in one respect.
CONSTANTS
  Starts <- MCStarts
  Extensions <- MCExtensions
  Declared <- MCDeclared
  ChannelNames <- MCChannelNames
  Presets <- MCPresets
  Overrides <- MCOverrides
  ToolSets <- MCToolSets
  Roles <- MCRoles
  Statuses <- MCStatuses
  MaxHops = 5
  MaxReports = 1
  MaxErrors = 1
  MaxInvokes = 2
  None = None
SPECIFICATION Spec
INVARIANTS ViewIsFiltered ProvidersStay OverridesAreLocal RevisitOnlyThroughFallback
CHECK_DEADLOCK FALSE
