\* The EA profile is hydrated twice in one process, without a registry.
CONSTANTS
  Starts <- HydrateStarts
  Extensions <- MCExtensions
  Declared <- MCDeclared
  ChannelNames <- MCChannelNames
  Presets <- MCPresets
  Overrides <- MCOverrides
  ToolSets <- MCToolSets
  Roles <- MCRoles
  Statuses <- MCStatuses
  MaxHops = 5
  MaxReports = 1
  MaxErrors = 1
  MaxInvokes = 2
  None = None
SPECIFICATION Spec
INVARIANT RefusedForCause
CHECK_DEADLOCK FALSE
