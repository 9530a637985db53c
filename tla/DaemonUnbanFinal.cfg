\* An unban against a record still queued; no store error.
SPECIFICATION Spec
CONSTANTS
  wide = wide
  host = host
  client = client
  Cidr <- MCCidr
  Addr <- MCAddr
  NetsOf <- MCNetsOf
  HomeNet <- MCHomeNet
  HostNet <- MCHostNet
  Life = {2}
  Day = 1
  Expiry <- MCExpiry
  MaxTime = 1
  Task = {t1, t2}
  Conn = {k1}
  Outcomes <- NoFaults
  MaxStrikes = 2
  MaxCommands = 2
  MaxTargets = 1
INVARIANT UnbanIsFinal
