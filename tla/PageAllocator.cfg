SPECIFICATION Spec
CONSTANTS
  Blocks = {b1, b2, b3, b4}
  NoBlock = NoBlock
  PagesPerBlock = 3
INVARIANTS
  PagesKept
  BlocksCounted
PROPERTIES
  TrimReturnsBlocks
