\* Nothing need happen once the bounds are reached.
SPECIFICATION Spec
CONSTANTS
  Cpus = {c1, c2}
  page = page
  Pages = {page}
  Requests <- Ranges
  Masked = TRUE
  Timeouts = TRUE
  MaxGen = 2
  MaxHotplug = 1
SYMMETRY CpuSymmetry
INVARIANTS FrameReuseSafe SlotSound
CHECK_DEADLOCK FALSE
