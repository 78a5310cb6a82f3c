--------------------------------- MODULE MCDiskFile --------------------------------
(* Three file objects on one name, on each of the platforms. *)
EXTENDS DiskFile, TLC

CONSTANTS o1, o2, o3
MCObjects == {o1, o2, o3}
MCInodes == 1..2

Setting(p, modes, pages, n, tries) ==
  [platform |-> p, modes |-> modes, pages |-> pages, writes |-> n, tries |-> tries]

(* Two users who open, create, move and remove files; one who changes the file and    *)
(* one who reads it, or creates it anew; three who contend for the locks.             *)
Names == (o1 :> DOMAIN Posix!Flags \cup {"temp"}) @@ (o2 :> DOMAIN Posix!Flags \cup {"temp"})
         @@ (o3 :> {})
Pages(second) == (o1 :> {"Open", "lock"}) @@ (o2 :> {second, "lock"}) @@ (o3 :> {})
Locks == (o1 :> {"Open", "lock"}) @@ (o2 :> {"Open", "lock"}) @@ (o3 :> {"ReadOnly", "lock"})

MCSettings ==
  {Setting(p, Names, 0, 0, FALSE) : p \in {"posix", "windows"}}
    \cup {Setting(p, Pages("CreateAlways"), 2, 1, FALSE) : p \in {"posix", "windows"}}
    \cup {Setting("memory", Pages("ReadOnly"), 2, 1, FALSE)}
    \cup {Setting(p, Locks, 0, 0, TRUE) : p \in {"posix", "windows", "memory"}}

(* The known deviation of README.md. *)
MCAssign == {Setting("posix", Locks, 0, 0, FALSE)}

(* What a file that is gone contained does not matter. *)
MCView ==
  <<setting, path, [i \in Inodes |-> IF Gone(i) THEN <<>> ELSE <<data[i], stable[i]>>], open,
    obj, locks, pc, call, writes>>
====================================================================================
