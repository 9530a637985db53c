\* Two processes on one database file.
SPECIFICATION StoreSpec
CONSTANTS
  wide = wide
  host = host
  client = client
  Cidr <- MCCidr
  Addr <- MCAddr
  NetsOf <- MCNetsOf
  HomeNet <- MCHomeNet
  HostNet <- MCHostNet
  Expiry <- MCExpiry
  Handle = {cli, daemon}
  MaxEvents = 3
INVARIANT AuditExplains
CHECK_DEADLOCK FALSE
