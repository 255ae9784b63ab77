SPECIFICATION MCSpec
CONSTANTS
  Scenarios <- MCScenarios
  Iss <- MCIss
  Modulus = 16
  Retries = 3
  DupAcks = 2
  TlsScenarios <- MCTlsScenarios
  MaxWrites = 1
  MaxTimeouts = 1
  Pools <- MCPools
  ChainMax = 3
  Answers <- MCAnswers
  PieceSizes = {1, 2, 3, 7}
  HeadMax = 20
  LineMax = 4
  DataMax = 3
  ArenaMax = 3
  TrailerMax = 2
  BlocksMax = 2
  SizeMax = 15
  Kinds = {"text", "tools", "close", "rate_limit", "bad_request", "garbled", "empty"}
  Attempts = 2
  StepsMax = 2
  MaxAsks = 2
  MaxProbes = 1
  ArpEntries = 2
  ArpTtl = 2
  ArpRetry = 2
  Socks = 1
  Ports = 4
  PerTry = 2
  Tries = 2
  PingTime = 2
  Ids = {1, 2}
  MaxOps = 2
  MaxNow = 9
  MaxFaults = 1
  RxBufs = 2
  IdxWrap = 4
  Losses = {0, 2}
  MaxIn = 5
  MaxOut = 2
  MaxWait = 1
  Bytes = {0, 1}
  SeedLen = 5
  RctCutoff = 3
  AptWindow = 5
  AptCutoff = 3
  Interval = 2
  EmptyMax = 1
  TriesMax = 2
  MaxCalls = 4
INVARIANTS TcpExact TlsSound ChainRight HttpRight ProviderSound ResolverSound CardExact RandomSound
PROPERTY CallsEnd
CHECK_DEADLOCK FALSE
