SPECIFICATION Spec
CONSTANTS
  Names = {n1}
  LongNames = {}
  Subnet <- Subnet28
  MaxClients = 1
  MaxStarts <- Lifecycle_MaxStarts
  Init2Results = {TRUE, FALSE}
  EngineReturns = TRUE
  CreateResults = {TRUE, FALSE}
  Calls <- LifecycleCalls
  Callers = {c1}
PROPERTY StopReturns
CHECK_DEADLOCK FALSE
