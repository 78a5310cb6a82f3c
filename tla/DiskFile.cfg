SPECIFICATION Spec
CONSTANTS
  o1 = o1
  o2 = o2
  o3 = o3
  Objects <- MCObjects
  PageSize = 2
  BlockSize = 2
  MaxOffset = 20
  Settings <- MCSettings
  Inodes <- MCInodes
  MaxPages = 2
VIEW MCView
INVARIANTS
  ReadsCommitted
PROPERTIES
  GrowsAlone
  TempOwned
  ImplementsLockProtocol
