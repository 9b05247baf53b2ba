SPECIFICATION Spec
CONSTANTS
  TypeSections <- MCTypeSections
  ImportSections <- MCImportSections
  FunctionSections <- MCFunctionSections
  TableSections <- MCTableSections
  MemorySections <- MCMemorySections
  GlobalSections <- MCGlobalSections
  ExportSections <- MCExportSections
  StartFunctions = {1}
  ElementSections <- MCElementSections
  DataSections <- MCDataSections
  CustomSections <- MCCustomSections
  MaxModules = 2
  MaxCustom = 1
INVARIANTS
  AssertionsHold
  TypeOK
  RecGroupsPartition
  TypesInternedFaithfully
  EscapesNumbered
  IndexSpacesAligned
  AcceptedLeavesReady
CHECK_DEADLOCK FALSE
