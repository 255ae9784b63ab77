SPECIFICATION Spec
CONSTANTS
  NBlocks = 10
  Names = {"a"}
  PinNames = {"p"}
  Payloads = {"small", "big"}
  NBlk <- MCNBlk
  Retain = 2
  ObjMax = 2
  PinMax = 1
  Reserve = 1
  MaxCommits = 4
  MaxTxOps = 1
  Faults = {"flush"}
  MaxFaults = 1
  MaxCrashes = 1
INVARIANT RetainedReadable
CHECK_DEADLOCK FALSE
