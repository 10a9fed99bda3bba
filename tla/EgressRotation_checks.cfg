\* A provider's fetch and a screenshot capture of one retailer, in two processes.
CONSTANTS
  p1 = p1
  p2 = p2
  slot = slot
  gate = gate
  api = api
  worker = worker
  f1 = f1
  f2 = f2
  r1 = r1
  NoProxy = NoProxy
  NoRetailer = NoRetailer
  Urls <- GateAndSlot
  HostKey <- OneGateway
  Direct <- OnlySlot
  Processes <- TwoProcesses
  Fetches <- TwoFetches
  HostOf <- Apart
  KindOf <- HttpAndShots
  RetailerOf <- SameRetailer
  Retailers <- OneRetailer
  Outages <- AllOrTheHost
  MaxAttempts = 3
  MaxFailures = 2
  TurnModulus = 6
SPECIFICATION Spec
INVARIANTS PoolTypeOK NeverFailsBehindProxy SkipsAreEarned
\* Every fetch may be over.
CHECK_DEADLOCK FALSE
