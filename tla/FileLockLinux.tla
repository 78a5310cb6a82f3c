------------------------------ MODULE FileLockLinux ------------------------------
(*********************************************************************************)
(* CompoundFs/FileLockLinux.cpp: open file description locks.  They belong to the  *)
(* description h of a file i and cover bytes: what a description locks again       *)
(* changes its mode, what it unlocks is cut out of whatever it held there.         *)
(*                                                                                 *)
(* A lock is a record [i, h, at, x]: the file, the description, the range <<first, *)
(* end>> and whether it is exclusive.  Here every lock is on a single byte.        *)
(*********************************************************************************)
EXTENDS Integers

(* Mutant of Exclusive: lock() takes a read lock. *)
ExclusiveTryOnly == [lock |-> FALSE, lock_shared |-> FALSE, try_lock |-> TRUE, try_lock_shared |-> FALSE]

(* F_WRLCK or F_RDLCK: which of the calls lock exclusively. *)
Exclusive == [lock |-> TRUE, lock_shared |-> FALSE, try_lock |-> TRUE, try_lock_shared |-> FALSE]

(* fl_start and fl_len: the bytes of a range. *)
Bytes(range) == {<<b, b + 1>> : b \in range[1]..(range[2] - 1)}

Of(locks, i, h) == {l \in locks : l.i = i /\ l.h = h}

(* F_OFD_SETLK fails, and F_OFD_SETLKW waits, while another description has a lock  *)
(* on one of the bytes, unless both only share it.                                  *)
Free(locks, i, h, range, x) ==
  \A l \in locks \ Of(locks, i, h) :
    l.i = i /\ l.at \in Bytes(range) => ~x /\ ~l.x

Without(locks, i, h, range) == {l \in locks : ~(l \in Of(locks, i, h) /\ l.at \in Bytes(range))}

With(locks, i, h, range, x) ==
  Without(locks, i, h, range) \cup {[i |-> i, h |-> h, at |-> b, x |-> x] : b \in Bytes(range)}
==================================================================================
