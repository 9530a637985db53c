\* What quarantine status calls enforced: two operators and no infraction.
SPECIFICATION Spec
CONSTANTS
  wide = wide
  host = host
  client = client
  Cidr <- MCCidr
  Addr <- MCAddr
  NetsOf <- MCNetsOf
  HomeNet <- MCHomeNet
  HostNet <- MCHostNet
  Life = {2}
  Day = 1
  Expiry <- MCExpiry
  MaxTime = 1
  Task = {t1}
  Conn = {k1, k2}
  Outcomes <- NoFaults
  MaxStrikes = 0
  MaxCommands = 2
  MaxTargets = 1
INVARIANT ActiveRowsAreEnforced
