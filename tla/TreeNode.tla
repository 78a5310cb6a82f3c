--------------------------------- MODULE TreeNode ---------------------------------
(*********************************************************************************)
(* CompoundFs/Leaf.h and InnerNode.h: the two kinds of pages a BTree is made of.    *)
(* The sorted table of a node is a function on its keys; how much of the page it     *)
(* takes is counted in the bytes of the code.                                       *)
(*********************************************************************************)
EXTENDS Integers, FiniteSetsExt, Functions, TLC

CONSTANTS
  LeafBytes,            \* sizeof(Leaf::m_data)
  InnerBytes,           \* sizeof(InnerNode::m_data)
  KeySize, ValueSize    \* the bytes of each key and each value

ASSUME BytesOK == {LeafBytes, InnerBytes} \subseteq Nat

Leaf(items, prev, next) == [type |-> "Leaf", items |-> items, prev |-> prev, next |-> next]
InnerNode(leftMost, right) == [type |-> "Inner", leftMost |-> leftMost, right |-> right]

(* TableKeyCompare: the part of a table from lowerBound of k on. *)
NotLess(keys, k) == {l \in keys : l >= k}

(* The first key at which the keys up to it take more than half. *)
SplitPoint(keys, Size(_), half) ==
  Min({k \in keys : MapThenSumSet(Size, {l \in keys : l <= k}) > half})

-----------------------------------------------------------------------------------
(* Leaf.h.  Each string has a byte for its length; the table has two bytes per item. *)
ItemData(items) == [k \in DOMAIN items |-> KeySize[k] + 1 + ValueSize[items[k]] + 1]
LeafData(items) == SumFunction(ItemData(items))
LeafUsed(items) == LeafData(items) + 2 * Cardinality(DOMAIN items)
LeafHasSpace(items, k, v) == LeafUsed(items) + 2 + KeySize[k] + ValueSize[v] + 2 <= LeafBytes

Without(items, k) == Restrict(items, DOMAIN items \ {k})

SplitLeaf(items, k, v) ==
  LET data == ItemData(items)
      keys == DOMAIN items
      at == SplitPoint(keys, LAMBDA l : data[l], LeafData(items) \div 2)
      left == Restrict(items, {l \in keys : l < at})
      right == Restrict(items, {l \in keys : l >= at})
  IN IF Max(DOMAIN left) < k THEN <<left, (k :> v) @@ right>> ELSE <<(k :> v) @@ left, right>>

-----------------------------------------------------------------------------------
(* InnerNode.h.  A separator takes its bytes, their length and a page id. *)
InnerData(n) == MapThenSumSet(LAMBDA k : KeySize[k] + 1 + 4, DOMAIN n.right)
InnerUsed(n) == InnerData(n) + 2 * Cardinality(DOMAIN n.right)
InnerHasSpace(n, k) == InnerUsed(n) + KeySize[k] + 1 + 4 + 2 <= InnerBytes

(* getLeft of separator k, or of the end of the table. *)
PageBefore(n, keys) == IF keys = {} THEN n.leftMost ELSE n.right[Max(keys)]
GetLeft(n, k) == PageBefore(n, DOMAIN n.right \ NotLess(DOMAIN n.right, k))
(* Mutant of FindPage: a key that is a separator is searched to its left. *)
FindPageLeft(n, k) == PageBefore(n, {l \in DOMAIN n.right : l < k})
FindPage(n, k) == PageBefore(n, {l \in DOMAIN n.right : l <= k})

FindKey(n, k) ==
  LET above == NotLess(DOMAIN n.right, k)
  IN IF above = {} THEN Max(DOMAIN n.right) ELSE Min(above)

InsertPage(n, k, page) == [n EXCEPT !.right = (k :> page) @@ @]

(* Mutant of RemovePage: the page right of the first separator goes with the leftmost. *)
RemovePageFirst(n, k) ==
  LET upTo == {l \in DOMAIN n.right : l <= k}
  IN [n EXCEPT !.right = Without(@, IF upTo = {} THEN Min(DOMAIN n.right) ELSE Max(upTo))]

(* remove: the page in which k is searched goes, and the separator before it, or the  *)
(* first one when it is the leftmost page.                                           *)
RemovePage(n, k) ==
  LET upTo == {l \in DOMAIN n.right : l <= k}
      first == Min(DOMAIN n.right)
  IN IF upTo = {} THEN InnerNode(n.right[first], Without(n.right, first))
     ELSE [n EXCEPT !.right = Without(@, Max(upTo))]

(* The parts before and after separator at, which moves up. *)
Below(n, at) == InnerNode(n.leftMost, Restrict(n.right, {l \in DOMAIN n.right : l < at}))
Above(n, at) == InnerNode(n.right[at], Restrict(n.right, {l \in DOMAIN n.right : l > at}))
InnerSplitPoint(n, half) ==
  SplitPoint(DOMAIN n.right, LAMBDA k : KeySize[k] + 1 + 4, half)

SplitInner(n, k, page) ==
  LET at == InnerSplitPoint(n, InnerData(n) \div 2)
  IN IF k < at THEN <<InsertPage(Below(n, at), k, page), at, Above(n, at)>>
     ELSE <<Below(n, at), at, InsertPage(Above(n, at), k, page)>>

Merge(left, k, right) == InnerNode(left.leftMost, (k :> right.leftMost) @@ left.right @@ right.right)

(* The byte for the length of the key is not counted. *)
CanMerge(left, k, right) ==
  InnerBytes - InnerUsed(left) >= InnerUsed(right) + KeySize[k] + 4 + 2

(* Both take the separator of the parent over; a new one moves up. *)
Redistribute(left, k, right) ==
  IF InnerUsed(left) < InnerUsed(right)
  THEN LET at == InnerSplitPoint(right, (InnerData(right) - InnerData(left)) \div 2)
       IN <<Merge(left, k, Below(right, at)), at, Above(right, at)>>
  ELSE LET at == InnerSplitPoint(left, InnerData(left) - (InnerData(left) - InnerData(right)) \div 2)
       IN <<Below(left, at), at, Merge(Above(left, at), k, right)>>
===================================================================================
