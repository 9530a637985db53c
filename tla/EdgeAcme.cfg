\* A token's file that grows between its two looks.
SPECIFICATION Spec
CONSTANTS
  u1 = u1  u2 = u2  peer = peer
  Hello <- MCHello
  Claims <- MCClaims
  PeekSize = 84
  Element <- MCElement
  Number <- MCNumber
  Coding <- MCCoding
  Chunked <- MCChunked
  MaxBody = 9
  Peer = peer
  Name <- MCName
  Literal = {"[6]"}
  Cut = "["
  Addr = {u1, u2}
  Config <- MCConfig
  Message <- MCMessage
  Char <- MCChar
  Text <- MCText
  MaxBytes <- MCMaxBytes
  Field <- MCField
  Query <- MCQuery
  Entry <- MCEntry
  Capacity = 3
  ask = ask  fresh = fresh  old = old  huge = huge
  Request = {ask}
  Content = {fresh, old, huge}
  Small = {fresh, old}
  Absent = absent
INVARIANT TokensAreCapped
CHECK_DEADLOCK FALSE
