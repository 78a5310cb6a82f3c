----------------------------- MODULE MCCommitProtocol -----------------------------
(* A file of three pages: the root, one page in use and a free one. *)
EXTENDS CommitProtocol

CONSTANTS r1
MCReaders == {r1}
MCInitialFree == {2}

Fate(rs, c, n, power, throws, opened) ==
  [readers |-> rs, commits |-> c, crashes |-> n, power |-> power, throws |-> throws, file |-> opened]

(* Two transactions of which the process does not survive one; two whose operations may *)
(* throw, with a reader, so that the user goes on after a throw, or opens the file again *)
(* that it was left half committed; one that may throw, in a process that may die twice, *)
(* with a reader; one with two power failures; and an empty file, a reader and a          *)
(* transaction.                                                                         *)
MCFates == {Fate({}, 2, 1, FALSE, FALSE, "committed"), Fate({r1}, 2, 0, FALSE, TRUE, "committed"),
            Fate({r1}, 1, 2, FALSE, TRUE, "committed"), Fate({}, 1, 2, TRUE, FALSE, "committed"),
            Fate({r1}, 1, 1, FALSE, FALSE, "empty")}

(* Two transactions, of which the first may throw. *)
MCFailedCommit == {Fate({}, 2, 0, FALSE, TRUE, "committed")}

(* The known deviations of README.md: a power failure after the first of two commits, *)
(* a user who goes on after a throw, and a new file whose first user dies at once or   *)
(* is not the only one.                                                               *)
MCPowerTwice == {Fate({}, 2, 1, TRUE, FALSE, "committed")}
MCThrow == {Fate({}, 1, 0, FALSE, TRUE, "committed")}
MCOrphaned == {Fate({}, 1, 1, FALSE, FALSE, "orphaned")}
MCRaced == {Fate({}, 1, 1, FALSE, FALSE, "raced")}
===================================================================================
