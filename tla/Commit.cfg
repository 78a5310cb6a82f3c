SPECIFICATION Spec
CONSTANTS
  r1 = r1
  Readers <- MCReaders
  InitialSize = 3
  InitialFree <- MCInitialFree
  MaxEntries = 1
  MaxPages = 10
  MaxGrown = 4
  MaxEdits = 2
  Fates <- MCFates
INVARIANTS
  PagesAccounted
  SizeAsCommitted
  ReadYourWrites
  Atomicity
PROPERTIES
  ImplementsAtomicStore
