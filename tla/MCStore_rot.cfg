SPECIFICATION Spec
CONSTANTS
  NBlocks = 10
  Names = {"a"}
  PinNames = {"p"}
  Payloads = {"empty", "big"}
  NBlk <- MCNBlk
  Retain = 3
  ObjMax = 2
  PinMax = 1
  Reserve = 1
  MaxCommits = 4
  MaxTxOps = 1
  Faults = {"rot"}
  MaxFaults = 1
  MaxCrashes = 1
INVARIANT CurrentIntact
PROPERTIES RetainedStable FreshGeneration
CHECK_DEADLOCK FALSE
