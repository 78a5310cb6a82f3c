-------------------------------- MODULE MCFreeStore --------------------------------
(* A file of twelve pages with a tree, a file of one table and one of two tables.     *)
EXTENDS FreeStore

Table(next, ivs) == [next |-> next, ivs |-> ivs]

MCStarts ==
  {[size |-> 12,
    tree |-> {0, 2, 3, 5},
    files |-> {[first |-> 4, last |-> 4, size |-> 1], [first |-> 8, last |-> 10, size |-> 3]},
    fd |-> [first |-> 1, last |-> 1, size |-> 0],
    table |-> [p \in Pages |->
                 CASE p = 4 -> Table(INVALID, <<Single(6)>>)
                   [] p = 8 -> Table(10, <<Single(7), Single(9)>>)
                   [] p = 10 -> Table(INVALID, <<Single(11)>>)
                   [] OTHER -> EmptyTable]]}
===================================================================================
