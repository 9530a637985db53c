SPECIFICATION Spec
CONSTANTS
  u1 = u1  u2 = u2  peer = peer
  Hello <- MCHello
  Claims <- MCClaims
  PeekSize = 84
  Element <- MCElement
  Number <- MCNumber
  Coding <- MCCoding
  Chunked <- MCChunked
  MaxBody = 9
  Peer = peer
  Name <- MCName
  Literal = {"[6]"}
  Cut = "["
  Addr = {u1, u2}
  Config <- MCConfig
  Message <- MCMessage
  Char <- MCChar
  Text <- MCText
  MaxBytes <- MCMaxBytes
  Field <- MCField
  Query <- MCQuery
  Entry <- MCEntry
  Capacity = 3
  ask = ask  fresh = fresh  old = old  huge = huge
  Request = {ask}
  Content = {fresh, old, huge}
  Small = {fresh, old}
  Absent = absent
INVARIANTS
  HelloIsRead PrefixUnderstates BrowserNeverCondemned
  AcceptedLengthIsUnambiguous MessageReachesItsRoute OneNameOneRoute
  LargeBodiesOnlyStreamed
  ScrubbedIsClean RowsReadBack SecretsStayOut QueriesAreNewest
  AcmeTypeOK StableTokenIsServed
PROPERTIES ImplementsLookup RequestsAreAnswered
\* A behaviour ends with its result, or with files at rest.
CHECK_DEADLOCK FALSE
