\* The same modules in a build without debug assertions, one thread.
SPECIFICATION Spec
CONSTANTS
  DebugAssertions = FALSE
  Modules <- MCModules
  MaxLoads = 1
  MaxThreads = 1
  PageSize = 16
  Pages = 2
INVARIANTS
  CallsLand
CHECK_DEADLOCK FALSE
