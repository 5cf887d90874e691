CONSTANTS
  Threads <- MCThreads
  EntryPoints = {"Call", "Create", "SetupSeedNode", "SetupRegularNode", "RequestSeed",
                 "CreateAttestationReport"}
  GasLimits = {3}
  QueryGasLimits = {1, 5}
  Cost <- MCCost
  MaxCalls = 2
  MaxIters = 1
  Keys = {1, 2}
  KVVals = {"v1"}
  NoVal = NoVal
  None = None
  Requests <- MCRequests
  DbMayFail = TRUE
  Addrs = {"a1"}
  Amounts = {0}
  Codes = {"none"}
  EmptyCode = "none"
  CellIdx = {1}
  CellVals = {"zero", "s1"}
  ZeroCell = "zero"
  NoAccount = NoAccount

SPECIFICATION Spec
INVARIANT TypeOK
INVARIANT OwnedBuffersReleasedOnce
INVARIANT GasAccounting
CHECK_DEADLOCK FALSE
