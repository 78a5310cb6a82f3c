-------------------------------- MODULE LockModes --------------------------------
(*********************************************************************************)
(* What the locking protocol promises its users: the compatibility table of       *)
(* README.md ("The Locking Protocol").  Every process is in one mode: it holds    *)
(* nothing, a reader lock R, the writer lock W, or the exclusive commit lock X.   *)
(* X is only reached from W and is only left through W or by giving up both.      *)
(*********************************************************************************)
CONSTANT Procs

VARIABLE mode

Modes == {"none", "R", "W", "X"}

(* The table: may a process be granted m while another one holds h? *)
Compatible(m, h) ==
  \/ h = "none"
  \/ m = "R" /\ h \in {"R", "W"}
  \/ m = "W" /\ h = "R"
  \/ m = "X" /\ h = "none"

Init == mode = [p \in Procs |-> "none"]

Request(p, from, m) ==
  /\ mode[p] = from
  /\ \A q \in Procs \ {p} : Compatible(m, mode[q])
  /\ mode' = [mode EXCEPT ![p] = m]

Release(p, from, m) ==
  /\ mode[p] = from
  /\ mode' = [mode EXCEPT ![p] = m]

Next ==
  \E p \in Procs :
    \/ Request(p, "none", "R")
    \/ Request(p, "none", "W")
    \/ Request(p, "W", "X")
    \/ Release(p, "R", "none")
    \/ Release(p, "W", "none")
    \/ Release(p, "X", "W")
    \/ Release(p, "X", "none")

Spec == Init /\ [][Next]_mode
===================================================================================
