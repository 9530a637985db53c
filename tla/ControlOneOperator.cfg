\* One operator's commands beside a daemon that boots, takes an infraction and
\* ends, with store errors.
SPECIFICATION FairControlSpec
CONSTANTS
  wide = wide
  host = host
  client = client
  Cidr <- MCCidr
  Addr <- MCAddr
  NetsOf <- MCNetsOf
  HomeNet <- MCHomeNet
  HostNet <- MCHostNet
  Life = {1}
  Day = 1
  Expiry <- MCExpiry
  MaxTime = 1
  Task = {t1}
  Conn = {k1}
  Cli = {p1}
  Outcomes <- Faults
  MaxStrikes = 1
  MaxCommands = 2
  MaxTargets = 1
  MaxChunks = 2
INVARIANTS
  ControlTypeOK
  MemoryMirrorsStore
  CountMatchesAudit
  ActiveAreLogged
PROPERTIES
  SharesLedger
  CommandsEnd
