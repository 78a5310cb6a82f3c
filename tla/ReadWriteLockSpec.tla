---------------------------- MODULE ReadWriteLockSpec ----------------------------
(*********************************************************************************)
(* What a SharedLock promises: every step takes or drops the lock as a             *)
(* ReadWriteLock allows.                                                           *)
(*********************************************************************************)
EXTENDS ReadWriteLock

CONSTANT Threads
VARIABLE l

Init == l = Unlocked

LockShared(p) == p \notin l.s /\ FreeForShared(l) /\ l' = TakeShared(l, p)
Lock(p) == FreeForExclusive(l) /\ l' = TakeExclusive(l, p)
Unlock(p) == p \in l.s \cup l.x /\ l' = Drop(l, p)

Next == \E p \in Threads : LockShared(p) \/ Lock(p) \/ Unlock(p)

Spec == Init /\ [][Next]_l
===================================================================================
