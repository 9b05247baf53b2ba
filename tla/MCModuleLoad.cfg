\* Four modules, three loads, two threads.
SPECIFICATION Spec
CONSTANTS
  DebugAssertions = TRUE
  Modules <- MCModules
  MaxLoads = 3
  MaxThreads = 2
  PageSize = 16
  Pages = 3
INVARIANTS
  ContextsCleanAndBounded
  CallsLand
  EntriesExact
  FaultsAttributed
  FailedLoadsLeaveNothing
CHECK_DEADLOCK FALSE
