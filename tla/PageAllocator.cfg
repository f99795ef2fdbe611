SPECIFICATION Spec
CONSTANTS
  PageCount <- MCPageCount
  MaxFreeRuns <- MCMaxFreeRuns
INVARIANTS
  FreelistSound
  Conservation
PROPERTIES
  FailedCallChangesNothing
  ImplementsPool
