\* No deadlock check: EveryTicketServed says that nobody is stuck, and callers
\* need not call.
SPECIFICATION FairSpec
CONSTANTS
  Cpus = {c1, c2}
  NoOwner = NoOwner
  Wrap = 3
  NmiCpus = {c1}
  TryCpus = {c1}
INVARIANTS MutualExclusion ContextsSound
PROPERTIES Fifo EveryTicketServed
CHECK_DEADLOCK FALSE
