SPECIFICATION MCSpec
CONSTANTS
    a = a
    Names = {a}
    None = None
    Cut <- MCCut
    Workloads <- MCWorkloads
    Slots = 2
    KnownMax = 1
    StepsMax = 3
    MaxTasks = 3
    MaxTools = 1
    MaxDoubt = 1
    MaxBoots = 2
    Parts = {"executor"}
    Size = 3
    ReadMax = 2
    Rooms = {1, 2}
    SubsMax = 1
    Kinds = {"a", "b"}
    MaxEvents = 5
    MaxPolls = 1
    NBlocks = 3
    Values = {1, 2}
    IoMax = 2
    Wrap = 4
    Scenarios <- MCScenarios
    MaxCalls = 3
CHECK_DEADLOCK FALSE
INVARIANT BothOrNeither
