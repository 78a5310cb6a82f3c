SPECIFICATION Spec
CONSTANTS
  MaxCachedPages = 6
  MaxSize = 15
  MaxPinned = 1
  Starts <- MCStarts
INVARIANTS
  DirtyKept
  HeldIsCached
  DivertedOnce
  FreePagesUnused
PROPERTIES
  CacheBounded
