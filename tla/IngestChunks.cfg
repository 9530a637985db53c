\* Logs of two lines, readable or not, in chunks of two, in both builds; the command ends.
SPECIFICATION Spec
CONSTANTS
  Width = 3
  Size <- MCSize
  Home = 2
  Word = 1048576
  Line <- MCLine
  Unreadable = unreadable
  Exclude <- MCExclude
  Duration <- MCDuration
  Chunk = 2
  Start = 10
  MaxTime = 11
  MaxLines = 2
INVARIANTS
  IngestTypeOK
  BansAreWanted
  NothingMissed
  ExactSparesExcluded
  BansLastAsAsked
CHECK_DEADLOCK FALSE
