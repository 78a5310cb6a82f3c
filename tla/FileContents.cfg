SPECIFICATION Spec
CONSTANTS
  PageSize = 2
  TableBytes = 10
  HighWaterMark = 2
  InitialFree = {{}, {0, 2, 4, 5, 7, 9}}
  Writes = {1, 2, 5}
  Reads = {1, 3, 4}
  MaxCalls = 8
INVARIANTS
  PagesListed
PROPERTIES
  ImplementsByteFile
