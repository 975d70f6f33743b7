SPECIFICATION Spec
CONSTANTS
  Callers = {c1}
  Names = {n1, n2}
  LongNames = {n2}
  Subnet <- Subnet28
  MaxClients = 3
  MaxStarts <- Lifecycle_MaxStarts
  Init2Results = {TRUE, FALSE}
  EngineReturns = TRUE
  CreateResults = {TRUE, FALSE}
  Calls <- ServerCalls
INVARIANT TypeOK
INVARIANT ScanIsFirstFit
INVARIANT ProfileFitsBuffer
INVARIANT UniqueLiveFittingNames
INVARIANT DistinctLiveAddresses
INVARIANT JoinsAreValid
CHECK_DEADLOCK FALSE
