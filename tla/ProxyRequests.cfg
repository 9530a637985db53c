\* Three connections, two requests between them, a ring of one record.
SPECIFICATION Spec
CONSTANTS
  mesh = mesh
  visitor = visitor
  local = local
  c1 = c1
  c2 = c2
  c3 = c3
  page = page
  robots = robots
  bot = bot
  NoAgent = none
  Conn = {c1, c2, c3}
  Client = {mesh, visitor, local}
  ClientOf <- MCClientOf
  Trusted = {mesh}
  Loopback = {local}
  Path = {page, robots}
  Agent = {bot}
  Decoy = {none}
  Spared <- MCSpared
  Defended = TRUE
  Hedged <- MCHedged
  Request <- MCRequest
  Entry <- MCEntry
  Capacity = 1
INVARIANTS
  TypeOK
  CountersAgree
  ThreatsAccounted
  BarredNeverForwarded
  RingIsNewest
CHECK_DEADLOCK FALSE
