SPECIFICATION MCSpec
CONSTANTS
  Users = {3, 4, 5}
  Core = 3
  Grant <- MCGrant
  Programs <- MCPrograms
  endpoint = endpoint
  Eps = {endpoint}
  Vmos = {v}
  sovereign = sovereign
  channel = channel
  None = None
  Handles = 3
  Maps = 1
  Queue = 1
  Slice = 2
  Pages = 7
  TaskPages = 2
  TablePages = 1
  CleanMax = 1
  MaxIds = 4
  MaxSleep = 1
  Regions <- MCRegions
  Storage = {1}
  MemSlots = {1, 2}
  VmoPages = 2
  MmioPages = {0}
  MaxOps = 7
  MaxSteps = 5
INVARIANTS TasksSound ResourcesExact MemoryExact HandlesSound
PROPERTIES Lifecycle TasksProceed
CHECK_DEADLOCK FALSE
