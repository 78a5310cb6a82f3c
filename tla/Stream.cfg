SPECIFICATION Spec
CONSTANTS
  MinCapacity = 4
  More = 4
  LongestInteger = 4
  Samples <- MCSamples
  Exchange <- MCExchange
  ReuseStreams = FALSE
  MaxValues = 3
INVARIANTS
  VersionsExchange
  TableFits
