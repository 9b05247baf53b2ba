\* Seven modules, three instances, two names; i32 of four bits, i64 of six;
\* MEMORY_MAX is 2^20 instead of 2^32.
SPECIFICATION Spec
CONSTANTS
  Modules <- MCModules
  Names = {"a", "b"}
  MaxInstances = 3
  MaxLookups = 1
  PageSize = 4096
  I32Bits = 4
  I64Bits = 6
  TableMax = 1024
  MemoryMax = 1048576
INVARIANTS
  StorageBacked
  ContextsIntact
  NothingLeaks
PROPERTIES
  HandlesStable
  ImplementsLinking
CHECK_DEADLOCK FALSE
