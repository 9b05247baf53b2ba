SPECIFICATION Spec
CONSTANTS
  Types <- WasmTypes
  BlockTypes <- VecBlockTypes
  FuncTypes <- VecFuncTypes
  Results <- VecResults
  Locals <- VecLocals
  Globals <- VecGlobals
  HasMemory = TRUE
  MaxStack = 2
  MaxDepth = 2
  OnlyValid = TRUE
INVARIANTS
  TypeOK
  NeverFails
  WellTyped
