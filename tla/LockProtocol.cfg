SPECIFICATION FairSpec
CONSTANTS
  Procs = {p1, p2, p3}
INVARIANTS
  IInv
  CommitExclusion
PROPERTIES
  NoOvertaking
  KeepsLockTable
  CommitGranted
  ReadGranted
