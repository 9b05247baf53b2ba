SPECIFICATION Spec
CONSTANTS
  Thread = {t1, t2}
  Inst = {"A", "B"}
  Func = {"fa", "fb"}
  Home <- MCHome
  Callees <- MCCallees
  Traps <- MCTraps
  NParams <- MCNParams
  NResults <- MCNResults
  HostSp = {6, 7}
  MaxWasmStack = 4
  NoFunc = NoFunc
  NoTrap = NoTrap
INVARIANTS
  TypeOK
  ContextsRestored
  AssertionsHold
  BacktraceExact
  HandlersBeforeWasm
  EnteredStackBounded
PROPERTIES
  CallsProgress
  ImplementsHostCall
CHECK_DEADLOCK FALSE
