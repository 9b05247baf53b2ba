SPECIFICATION Spec
CONSTANTS
  c1 = c1  c2 = c2  h1 = h1  h2 = h2  e1 = e1  e2 = e2  e3 = e3
  NoEntry = NoEntry
  Group <- MCGroup
  Size <- MCSize
  CrossRefs <- MCCrossRefs
  SelfRefs <- MCSelfRefs
  Module <- MCModule
  Groups <- MCGroups
  Coll <- MCColl
  Handle <- MCHandle
  Entry <- MCEntry
  OverlappingDrops = TRUE
INVARIANT
  NeverFails
