-------------------------------- MODULE AtomicStore --------------------------------
(*********************************************************************************)
(* What the commit protocol promises (README.md, "Transactional Write-Operations" *)
(* and "Two Phase Write-Operations"): the store holds one database, a commit       *)
(* replaces it in one go by the writer's, and a reader sees, for as long as it is  *)
(* open, the database there was when it was let in.  No commit happens while a     *)
(* reader is open.                                                                 *)
(*********************************************************************************)
CONSTANTS Readers, NoDatabase

VARIABLES
  db,        \* the committed database: what opening the file would show
  work,      \* what a commit of the current writer would make of it
  snap       \* what each open reader sees, NoDatabase when it is not open

NoReader == \A r \in Readers : snap[r] = NoDatabase

Init ==
  /\ work = db
  /\ snap = [r \in Readers |-> NoDatabase]

(* What the writer makes of the database is its own business. *)
Write == UNCHANGED <<db, snap>>

Commit == NoReader /\ db' = work /\ UNCHANGED <<work, snap>>

Open(r) ==
  /\ snap[r] = NoDatabase
  /\ snap' = [snap EXCEPT ![r] = db]
  /\ UNCHANGED <<db, work>>

Close(r) ==
  /\ snap' = [snap EXCEPT ![r] = NoDatabase]
  /\ UNCHANGED <<db, work>>

Next == Write \/ Commit \/ \E r \in Readers : Open(r) \/ Close(r)

Spec == Init /\ [][Next]_<<db, work, snap>>
===================================================================================
