\* Fields of the CSV export as a spreadsheet reads them.
SPECIFICATION Spec
CONSTANTS
  u1 = u1  u2 = u2  peer = peer
  Hello <- MCHello
  Claims <- MCClaims
  PeekSize = 84
  Element <- MCElement
  Number <- MCNumber
  Coding <- MCCoding
  Chunked <- MCChunked
  MaxBody = 9
  Peer = peer
  Name <- MCName
  Literal = {"[6]"}
  Cut = "["
  Addr = {u1, u2}
  Config <- MCConfig
  Message <- MCMessage
  Char <- MCChar
  Text <- MCText
  MaxBytes <- MCMaxBytes
  Field <- MCField
  Query <- MCQuery
  Entry <- MCEntry
  Capacity = 3
  ask = ask  fresh = fresh  old = old  huge = huge
  Request = {ask}
  Content = {fresh, old, huge}
  Small = {fresh, old}
  Absent = absent
INVARIANT NoFieldOpensFormula
CHECK_DEADLOCK FALSE
