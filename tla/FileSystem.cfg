SPECIFICATION Spec
CONSTANTS
  ByteValues = 4
  FolderBytes = 3
  MaxSize = 6
  Names <- MCNames
  NameBytes <- MCNameBytes
  Paths <- MCPaths
  LongPaths <- MCLongPaths
  Attributes <- MCAttributes
  MaxDepth = 6
  OneUser = TRUE
  Starts <- MCStarts
  MaxEntries = 1
  Imports <- MCImports
  VisitStack = 1
  SinkEntries = 2
  LongestEntry = 14
  BufferBytes = 16
  MaxHandles = 3
  MaxCalls = 4
INVARIANTS
  OwnedOnce
PROPERTIES
  ImplementsFileTree
VIEW
  MCView
