SPECIFICATION Spec
CONSTANTS
  TableBytes = 10
  MaxSize = 16
  MaxContent = 3
  MaxEdits = 3
  MaxCommits = 2
  Starts <- MCStarts
INVARIANTS
  PagesPartitioned
  DivertedIntact
PROPERTIES
  GrowsLast
