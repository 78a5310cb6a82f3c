SPECIFICATION EitherSpec
CONSTANTS
  Threads = {t1, t2, t3, t4}
  Testers = {t1, t2, t3}
  Awaited = {0, 1}
INVARIANTS
  IInv
PROPERTIES
  NobodyForgotten
  ImplementsReadWriteLock
