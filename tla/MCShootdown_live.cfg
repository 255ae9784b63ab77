\* Nothing need happen once the bounds are reached.
SPECIFICATION FairSpec
CONSTANTS
  Cpus = {c1, c2}
  page = page
  Pages = {page}
  Requests <- Covering
  Masked = TRUE
  Timeouts = FALSE
  MaxGen = 2
  MaxHotplug = 1
PROPERTY HolderCompletes
CHECK_DEADLOCK FALSE
