\* Two IPC handlers, two request tasks, store errors, restarts, a fair runtime.
SPECIFICATION FairSpec
CONSTANTS
  wide = wide
  host = host
  client = client
  Cidr <- MCCidr
  Addr <- MCAddr
  NetsOf <- MCNetsOf
  HomeNet <- MCHomeNet
  HostNet <- MCHostNet
  Life = {2}
  Day = 1
  Expiry <- MCExpiry
  MaxTime = 1
  Task = {t1, t2}
  Conn = {k1, k2}
  Outcomes <- Faults
  MaxStrikes = 2
  MaxCommands = 2
  MaxTargets = 1
INVARIANTS
  TypeOK
  AuditExplains
  QuietUnbanIsFinal
PROPERTIES
  ImplementsLedger
  StrikesSettle
