SPECIFICATION Spec
CONSTANTS
  Callers = {c1}
  Names = {n1, n2}
  Subnet <- Subnet28
  MaxClients <- Registry_MaxClients
  MaxStarts = 1
  Init2Results = {TRUE}
  EngineReturns = TRUE
  CreateResults = {TRUE}
  Calls <- RegistryCalls
  LongNames = {}
PROPERTY RevokedAddressesReused
