--------------------------------- MODULE MCBTree ---------------------------------
(* Thirteen keys of one byte; a leaf takes four short values or three long ones, an   *)
(* inner node five separators.  The other bytes are what a rename may come upon.      *)
EXTENDS BTree

CONSTANTS short, long, other

MCKeys == 1 .. 13
MCValues == {short, long, other}
MCWritten == {short, long}
MCKeySize == [k \in MCKeys |-> 1]
MCValueSize == (short :> 1) @@ (long :> 3) @@ (other :> 3)

Filled(keys) == [i \in DOMAIN keys |-> <<keys[i], long>>]
Up(n) == [i \in 1 .. n |-> i]
MCStarts == {<<<<6, short>>>>, Filled(Up(12)), Filled(Reverse(Up(13)))}
===================================================================================
