------------------------------- MODULE MCCacheManager -------------------------------
(* Six pages of a tree, and a FreeStore of three pages: in one table whose first page   *)
(* was handed out already, when four pages of the tree were changed; or in two tables   *)
(* that nobody has looked at.                                                           *)
EXTENDS CacheManager

List(loaded, current, count, pages, rest) ==
  [allocator |-> TRUE, loaded |-> loaded, head |-> 6, pages |-> pages, current |-> current,
   rest |-> rest, count |-> count, stillInUse |-> {}]

Start(n, now, committed, dirty, read, contents) ==
  [used |-> 0 .. 5, size |-> 10, maxChanges |-> n, store |-> now, committed |-> committed,
   class |-> [id \in Pages |-> IF id \in dirty THEN "Dirty"
                               ELSE IF id \in read THEN "Read" ELSE "none"],
   modified |-> dirty, content |-> contents]

OneTable == List(FALSE, <<>>, 3, <<7, 8, 9>>, <<>>)
TwoTables == List(FALSE, <<>>, 2, <<7>>, <<[page |-> 8, pages |-> <<9>>]>>)

Started(n) ==
  Start(n, List(TRUE, <<8, 9>>, 2, <<7, 8, 9>>, <<>>), OneTable, 0 .. 3, {6}, {7})
Fresh(n, dirty) == Start(n, TwoTables, TwoTables, dirty, {}, {})

MCStarts == {Started(2), Fresh(2, {0})}
MCFullCache == {Fresh(2, 0 .. 4)}
===================================================================================
