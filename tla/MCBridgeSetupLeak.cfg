CONSTANTS
  Threads <- MCOneThread
  EntryPoints = {"SetupSeedNode", "Call"}
  GasLimits = {1}
  QueryGasLimits = {1}
  Cost <- MCCost
  MaxCalls = 2
  MaxIters = 1
  Keys = {1, 2}
  KVVals = {"v1"}
  NoVal = NoVal
  None = None
  Requests <- MCRequests
  DbMayFail = FALSE
  Addrs = {"a1"}
  Amounts = {0}
  Codes = {"none"}
  EmptyCode = "none"
  CellIdx = {1}
  CellVals = {"zero", "s1"}
  ZeroCell = "zero"
  NoAccount = NoAccount

SPECIFICATION Spec
INVARIANT NoLeakAfterReturn
CHECK_DEADLOCK FALSE
