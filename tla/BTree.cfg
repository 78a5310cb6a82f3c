SPECIFICATION Spec
CONSTANTS
  short = short
  long = long
  other = other
  Keys <- MCKeys
  Values <- MCValues
  KeySize <- MCKeySize
  ValueSize <- MCValueSize
  LeafBytes = 24
  InnerBytes = 40
  Kept = 6
  StackBuffer = 1
  Starts <- MCStarts
  Written <- MCWritten
  MaxDepth = 4
  MaxCalls = 3
INVARIANTS
  FoundWhereKept
  WellFormed
  NodesAccounted
PROPERTIES
  ImplementsDictionary
