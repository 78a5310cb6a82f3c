------------------------------ MODULE ReadWriteLock ------------------------------
(*********************************************************************************)
(* A lock that is held by any number of processes in shared mode or by one in      *)
(* exclusive mode: what LockProtocol takes its primitive locks to be, and what      *)
(* SharedLock implements.  A lock is a record of its shared and exclusive holders.  *)
(*********************************************************************************)
Unlocked == [s |-> {}, x |-> {}]

(* lock_shared succeeds unless the lock is held exclusively, lock unless it is     *)
(* held at all.                                                                    *)
FreeForShared(l) == l.x = {}
FreeForExclusive(l) == l.x = {} /\ l.s = {}

TakeShared(l, p) == [l EXCEPT !.s = @ \cup {p}]
TakeExclusive(l, p) == [l EXCEPT !.x = @ \cup {p}]
Drop(l, p) == [s |-> l.s \ {p}, x |-> l.x \ {p}]
===================================================================================
