----------------------------- MODULE FileLockWindows -----------------------------
(*********************************************************************************)
(* CompoundFs/FileLockWindows.cpp: the regions LockFileEx locks.  A region may not  *)
(* overlap one that is locked, even through the same handle, unless both only share *)
(* it, and is given up as it was taken.  Locks are the records of FileLockLinux.    *)
(*********************************************************************************)
EXTENDS Integers

(* LOCKFILE_EXCLUSIVE_LOCK: which of the calls lock exclusively. *)
Exclusive == [lock |-> TRUE, lock_shared |-> FALSE, try_lock |-> TRUE, try_lock_shared |-> FALSE]

Overlap(a, b) == a[1] < b[2] /\ b[1] < a[2]

(* LockFileEx fails with LOCKFILE_FAIL_IMMEDIATELY, and waits without. *)
Free(locks, i, h, range, x) ==
  \A l \in locks : l.i = i /\ Overlap(l.at, range) => ~x /\ ~l.x

With(locks, i, h, range, x) == locks \cup {[i |-> i, h |-> h, at |-> range, x |-> x]}

(* UnlockFileEx. *)
Without(locks, i, h, range) == {l \in locks : ~(l.i = i /\ l.h = h /\ l.at = range)}
==================================================================================
