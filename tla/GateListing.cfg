\* The real units, an instant hours after the epoch.
SPECIFICATION GateSpec
CONSTANTS
  wide = wide
  client = client
  Cidr <- MCCidr
  Addr <- MCAddr
  NetsOf <- MCNetsOf
  HomeNet <- MCNet
  HostNet <- MCNet
  Expiry <- MCExpiry
  Task = {t1, t2}
  Milli = 1000
  Hour = 3600
  Start = 10000000
  Steps = {1, 3599998}
  MaxTime = 13600005
  MaxHits = 2
INVARIANT GateBansAreListed
