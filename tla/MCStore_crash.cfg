SPECIFICATION Spec
CONSTANTS
  NBlocks = 10
  Names = {"a"}
  PinNames = {"p"}
  Payloads = {"small", "big"}
  NBlk <- MCNBlk
  Retain = 3
  ObjMax = 2
  PinMax = 1
  Reserve = 1
  MaxCommits = 5
  MaxTxOps = 1
  Faults = {}
  MaxFaults = 0
  MaxCrashes = 1
INVARIANTS TypeOK CheckClean Recoverable
PROPERTY ImplementsPromise
CHECK_DEADLOCK FALSE
