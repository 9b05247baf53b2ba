SPECIFICATION Spec
CONSTANTS
  Types <- NumTypes
  BlockTypes <- NumBlockTypes
  FuncTypes <- NumFuncTypes
  Results <- NumResults
  Locals <- NumLocals
  Globals <- NumGlobals
  HasMemory = FALSE
  MaxStack = 2
  MaxDepth = 3
  OnlyValid = TRUE
INVARIANTS
  NeverFails
  EdgesLand
  ReachabilityAgrees
  FallsThrough
  StackAgrees
