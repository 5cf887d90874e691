CONSTANTS
  Threads <- MCThreads
  EntryPoints = {"Call", "Create"}
  GasLimits = {3}
  QueryGasLimits = {1}
  Cost <- MCCost
  MaxCalls = 3
  MaxIters = 1
  Keys = {1}
  KVVals = {"v1"}
  NoVal = NoVal
  None = None
  Requests <- MCOwnershipRequests
  DbMayFail = FALSE
  Addrs = {"a1"}
  Amounts = {0}
  Codes = {"none"}
  EmptyCode = "none"
  CellIdx = {1}
  CellVals = {"zero", "s1"}
  ZeroCell = "zero"
  NoAccount = NoAccount

SPECIFICATION Spec
PROPERTY BridgeOwnership
CHECK_DEADLOCK FALSE
