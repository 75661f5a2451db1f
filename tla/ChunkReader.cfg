CONSTANTS
  c1 = c1
  c2 = c2
  short = short
  long = long
  Clones = {c1, c2}
  Versions = {short, long}
  Size <- MCSize
  Starts = {0, 2}
  Lengths = {0, 2}
  U64 = 16
  NoFile = NoFile
  NoSource = NoSource
SPECIFICATION FairSpec
INVARIANTS
  AnswersAreTheirRanges
  RangeReadersStayInside
PROPERTIES
  CallsEnd
