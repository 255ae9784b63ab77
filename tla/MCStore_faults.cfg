SPECIFICATION Spec
CONSTANTS
  NBlocks = 10
  Names = {"a"}
  PinNames = {"p"}
  Payloads = {"big"}
  NBlk <- MCNBlk
  Retain = 2
  ObjMax = 2
  PinMax = 1
  Reserve = 1
  MaxCommits = 4
  MaxTxOps = 1
  Faults = {"write", "flush"}
  MaxFaults = 1
  MaxCrashes = 2
INVARIANT AlwaysMountable
PROPERTIES ImplementsPromise RetainedStable
CHECK_DEADLOCK FALSE
