---------------------------------- MODULE BTree ----------------------------------
(*********************************************************************************)
(* CompoundFs/BTree.cpp: the tree in which the directory keeps its entries.  A step *)
(* is a call.  Pages that the tree gives up stay in freePages until the commit, so   *)
(* none comes back to it in the transaction this module is about.                   *)
(*********************************************************************************)
EXTENDS TreeNode, Sequences, SequencesExt

CONSTANTS
  Keys, Values,
  Kept,                 \* the key of the commit block, which nobody removes
  StackBuffer,          \* nodes an InnerNodeStack keeps in its buffer: 5
  Starts,               \* sequences of <<key, value>> the tree is first filled with
  Written,              \* bound: the Values its users insert
  MaxDepth,             \* bound: levels of a tree
  MaxCalls              \* bound: calls that change the tree

VARIABLES
  tree,                 \* the nodes on their pages, m_freePages, pages allocated so far
  answer,               \* what the last call returned
  contents,             \* what the leaves of the tree hold: ContentsOf(tree)
  calls

vars == <<tree, answer, contents, calls>>

INVALID == -1           \* PageIdx::INVALID
Root == 0               \* m_rootIndex

Stack == INSTANCE SmallBufferStack WITH SIZE <- StackBuffer, NoElement <- INVALID

-----------------------------------------------------------------------------------
(* Nodes of a tree t, the first of them the root. *)
Node(t, p) == t.node[p]
Put(t, p, n) == [t EXCEPT !.node[p] = n]
NewPage(t, n) == [t EXCEPT !.node = (t.size :> n) @@ @, !.size = @ + 1]
Free(t, p) == [t EXCEPT !.freePages = Append(@, p)]
EmptyTree ==
  [node |-> Root :> Leaf(<<>>, INVALID, INVALID), freePages |-> <<>>, size |-> Root + 1]

(* findLeaf: the leaf of k, and the inner nodes above it. *)
FindLeaf(t, k) ==
  LET path[level \in 1 .. MaxDepth] ==
        IF level = 1 THEN [leaf |-> Root, stack |-> Stack!EmptyStack]
        ELSE LET up == path[level - 1]
                 n == Node(t, up.leaf)
             IN IF n.type = "Leaf" THEN up
                ELSE [leaf |-> FindPage(n, k), stack |-> Stack!Push(up.stack, up.leaf)]
  IN path[MaxDepth]

LeafOf(t, k) == FindLeaf(t, k).leaf
Items(t, k) == Node(t, LeafOf(t, k)).items

(* visitAllNodes *)
Children(n) == IF n.type = "Leaf" THEN {} ELSE {n.leftMost} \cup Range(n.right)
AllNodes(t) ==
  FoldSet(LAMBDA level, ps : ps \cup UNION {Children(Node(t, p)) : p \in ps},
          {Root}, 1 .. MaxDepth)
Leaves(t) == {p \in AllNodes(t) : Node(t, p).type = "Leaf"}

ContentsOf(t) == FoldSet(LAMBDA p, items : Node(t, p).items @@ items, <<>>, Leaves(t))

Promise == INSTANCE Dictionary WITH map <- contents

-----------------------------------------------------------------------------------
(* growTree: the root stays where it is, its left half moves to a new page. *)
GrowTree(t, k, right) ==
  LET moved == t.size
      t2 == NewPage(t, Node(t, Root))
      t3 == IF Node(t, Root).type = "Leaf" THEN [t2 EXCEPT !.node[right].prev = moved] ELSE t2
  IN Put(t3, Root, InnerNode(moved, k :> right))

(* propagate: up the stack while there is no space for a separator. *)
Propagate(t, stack, k, right) ==
  LET Up(s, level) ==
        LET p == Stack!Top(s.stack)
            halves == SplitInner(Node(s.t, p), s.key, s.right)
        IN IF s.done THEN s
           ELSE IF InnerHasSpace(Node(s.t, p), s.key)
           THEN [s EXCEPT !.t = Put(@, p, InsertPage(Node(@, p), s.key, s.right)), !.done = TRUE]
           ELSE [t |-> Put(NewPage(s.t, halves[3]), p, halves[1]), stack |-> Stack!Pop(s.stack),
                 key |-> halves[2], right |-> s.t.size, done |-> FALSE]
      start == [t |-> t, stack |-> stack, key |-> k, right |-> right, done |-> FALSE]
      top == FoldLeft(Up, start, [level \in 1 .. Stack!StackSize(stack) |-> level])
  IN IF top.done THEN top.t ELSE GrowTree(top.t, top.key, top.right)

(* insertNewKey.  The leaf after the new one keeps its link to the old one. *)
InsertNewKey(t, path, k, v) ==
  LET p == path.leaf
      leaf == Node(t, p)
      halves == SplitLeaf(leaf.items, k, v)
      right == t.size
      t2 == Put(NewPage(t, Leaf(halves[2], p, leaf.next)),
                p, Leaf(halves[1], leaf.prev, right))
  IN IF LeafHasSpace(leaf.items, k, v)
     THEN [t EXCEPT !.node[p].items = (k :> v) @@ @]
     ELSE Propagate(t2, path.stack, Min(DOMAIN halves[2]), right)

(* insertExistingKey, when the policy lets the present value go. *)
InsertExistingKey(t, path, k, v) ==
  LET p == path.leaf
      old == Node(t, p).items[k]
  IN IF ValueSize[old] = ValueSize[v] THEN [t EXCEPT !.node[p].items[k] = v]
     ELSE InsertNewKey([t EXCEPT !.node[p].items = Without(@, k)], path, k, v)

InsertKey(t, k, v, replace) ==
  LET path == FindLeaf(t, k)
  IN IF k \notin DOMAIN Items(t, k) THEN InsertNewKey(t, path, k, v)
     ELSE IF replace THEN InsertExistingKey(t, path, k, v)
     ELSE t

InsertAnswer(t, k, replace) ==
  IF k \notin DOMAIN Items(t, k) THEN Promise!Inserted
  ELSE IF replace THEN Promise!Replaced(Items(t, k)[k])
  ELSE Promise!Unchanged(Items(t, k)[k])

-----------------------------------------------------------------------------------
(* unlinkLeaveNode *)
Unlink(t, p) ==
  LET leaf == Node(t, p)
      t2 == IF leaf.prev = INVALID THEN t ELSE [t EXCEPT !.node[leaf.prev].next = leaf.next]
  IN IF leaf.next = INVALID THEN t2 ELSE [t2 EXCEPT !.node[leaf.next].prev = leaf.prev]

(* handleUnderflow of the node in which k was searched.  freed: the page merged away. *)
HandleUnderflow(t, parent, k) ==
  LET up == Node(t, parent)
      at == FindKey(up, k)
      l == GetLeft(up, at)
      r == up.right[at]
      left == Node(t, l)
      right == Node(t, r)
      parts == Redistribute(left, at, right)
      above == InsertPage([up EXCEPT !.right = Without(@, at)], parts[2], r)
  IN IF CanMerge(left, at, right)
     THEN [t |-> Free(Put(t, l, Merge(left, at, right)), r), freed |-> r]
     ELSE [t |-> Put(Put(Put(t, l, parts[1]), r, parts[3]), parent, above), freed |-> INVALID]

(* Mutant of RemoveUp: a node is left with one separator. *)
RemoveUpNoUnderflow(s) ==
  LET p == Stack!Top(s.stack)
      inner == RemovePage(Node(s.t, p), s.key)
      t == Put(s.t, p, inner)
      child == inner.leftMost
  IN IF inner.right # <<>> THEN [s EXCEPT !.t = t, !.done = TRUE]
     ELSE [s EXCEPT !.t = Free(Put(t, p, Node(t, child)), child), !.done = TRUE]

(* One round of the loop in remove: the page of s.key goes from the node on the stack. *)
RemoveUp(s) ==
  LET n == Stack!StackSize(s.stack)
      p == Stack!Top(s.stack)
      inner == RemovePage(Node(s.t, p), s.key)
      t == Put(s.t, p, inner)
      child == inner.leftMost
      u == HandleUnderflow(t, Stack!Element(s.stack, n - 1), s.key)
  IN IF inner.right = <<>>
     THEN [s EXCEPT !.t = Free(Put(t, p, Node(t, child)), child), !.done = TRUE]
     ELSE IF Cardinality(DOMAIN inner.right) > 1 \/ n = 1
     THEN [s EXCEPT !.t = t, !.done = TRUE]
     ELSE IF u.freed = INVALID
     THEN [s EXCEPT !.t = u.t, !.done = TRUE]
     ELSE [s EXCEPT !.t = u.t, !.key = Min(DOMAIN Node(u.t, u.freed).right), !.stack = Stack!Pop(@)]

(* remove.  The root, when it is a leaf, is given up as well, and stays the root. *)
RemoveKey(t, k) ==
  LET path == FindLeaf(t, k)
      p == path.leaf
      t2 == [t EXCEPT !.node[p].items = Without(@, k)]
      start == [t |-> Free(Unlink(t2, p), p), key |-> k, stack |-> path.stack, done |-> FALSE]
      levels == [level \in 1 .. Stack!StackSize(path.stack) |-> level]
  IN IF k \notin DOMAIN Items(t, k) THEN t
     ELSE IF Node(t2, p).items # <<>> THEN t2
     ELSE FoldLeft(LAMBDA s, level : IF s.done THEN s ELSE RemoveUp(s), start, levels).t

RemoveAnswer(t, k) ==
  IF k \in DOMAIN Items(t, k) THEN Promise!Removed(Items(t, k)[k]) ELSE Promise!NotFound

(* The insert of a rename splits the leaf its value lies in: it rewrites the bytes of   *)
(* that leaf in the order of the keys before it copies the value from there.           *)
SplitsItsLeaf(t, k, l) ==
  LeafOf(t, l) = LeafOf(t, k) /\ ~LeafHasSpace(Items(t, l), l, Items(t, k)[k])

(* What a rename reads as the value of k: a view of the bytes in the leaf.  When these   *)
(* were rewritten, any others of that length may be there.                             *)
ValuesRead(t, k, l) ==
  LET v == Items(t, k)[k]
  IN IF SplitsItsLeaf(t, k, l) THEN {w \in Values : ValueSize[w] = ValueSize[v]} ELSE {v}

(* Mutant of RenameKey: the old key goes first. *)
RenameKeyLate(t, k, l, v) == InsertKey(RemoveKey(t, k), l, v, FALSE)

(* rename: a refused insert under the new key leaves the old one. *)
RenameKey(t, k, l, v) ==
  IF l \in DOMAIN Items(t, l) THEN t ELSE RemoveKey(InsertKey(t, l, v, FALSE), k)


-----------------------------------------------------------------------------------
(* A cursor is a leaf and a key in it. *)
NoCursor == <<>>
Cursor(p, k) == <<p, k>>
(* current: the key and the value, looked up in the leaf. *)
Current(t, c) == <<c[2], Node(t, c[1]).items[c[2]]>>

(* begin: lowerBound in the leaf of k, not beyond it. *)
Begin(t, k) ==
  LET p == LeafOf(t, k)
      from == NotLess(DOMAIN Node(t, p).items, k)
  IN IF from = {} THEN NoCursor ELSE Cursor(p, Min(from))

(* next.  A leaf without items has no first one: what a scan finds there is undefined. *)
NextOf(t, c) ==
  LET leaf == Node(t, c[1])
      after == {l \in DOMAIN leaf.items : l > Current(t, c)[1]}
      first == DOMAIN Node(t, leaf.next).items
  IN IF after # {} THEN Cursor(c[1], Min(after))
     ELSE IF leaf.next = INVALID \/ first = {} THEN NoCursor
     ELSE Cursor(leaf.next, Min(first))

(* What a loop from begin(k) over next meets. *)
Scan(t, k) ==
  LET Step(n, s) ==
        IF s.at = NoCursor THEN s
        ELSE [seen |-> Append(s.seen, Current(t, s.at)), at |-> NextOf(t, s.at)]
  IN FoldSet(Step, [seen |-> <<>>, at |-> Begin(t, k)], 1 .. Cardinality(Keys) + 1).seen

-----------------------------------------------------------------------------------
Init ==
  /\ \E start \in Starts :
       tree = FoldLeft(LAMBDA t, kv : InsertKey(t, kv[1], kv[2], TRUE), EmptyTree, start)
  /\ contents = ContentsOf(tree)
  /\ answer = Promise!NotFound
  /\ calls = 0

Call(t, a) ==
  /\ calls < MaxCalls /\ calls' = calls + 1
  /\ tree' = t /\ contents' = ContentsOf(t) /\ answer' = a

CallInsert(k, v, replace) == Call(InsertKey(tree, k, v, replace), InsertAnswer(tree, k, replace))
CallRemove(k) == k # Kept /\ Call(RemoveKey(tree, k), RemoveAnswer(tree, k))
CallRename(k, l) ==
  IF k \in DOMAIN Items(tree, k) \ {Kept}
  THEN \E v \in ValuesRead(tree, k, l) : Call(RenameKey(tree, k, l, v), InsertAnswer(tree, l, FALSE))
  ELSE k # Kept /\ Call(tree, Promise!NotFound)
Done == calls = MaxCalls /\ UNCHANGED vars

Next ==
  \/ \E k \in Keys, v \in Written, replace \in BOOLEAN : CallInsert(k, v, replace)
  \/ \E k \in Keys : CallRemove(k)
  \/ \E k, l \in Keys : CallRename(k, l)
  \/ Done

Spec == Init /\ [][Next]_vars

-----------------------------------------------------------------------------------
TypeOK ==
  /\ DOMAIN tree.node = 0 .. tree.size - 1
  /\ \A p \in DOMAIN tree.node : LET n == Node(tree, p) IN
       \/ n.type = "Leaf" /\ DOMAIN n.items \subseteq Keys /\ Range(n.items) \subseteq Values
       \/ n.type = "Inner" /\ DOMAIN n.right \subseteq Keys /\ Children(n) \subseteq DOMAIN tree.node

(* Every item is in the leaf in which its key is searched. *)
FoundWhereKept ==
  \A p \in Leaves(tree) : \A k \in DOMAIN Node(tree, p).items : LeafOf(tree, k) = p

(* A node fits in its page, all leaves are on one level, none is empty, and an inner   *)
(* node has two separators or more (BTree.cpp asserts as much in handleUnderflow and   *)
(* where the root is replaced), the root in each case apart.                          *)
WellFormed ==
  /\ TypeOK
  /\ \A p \in AllNodes(tree) : LET n == Node(tree, p) IN
       /\ n.type = "Leaf" => LeafUsed(n.items) <= LeafBytes /\ (p # Root => n.items # <<>>)
       /\ n.type = "Inner" =>
            /\ InnerUsed(n) <= InnerBytes
            /\ Cardinality(DOMAIN n.right) >= IF p = Root THEN 1 ELSE 2
            /\ \A c, d \in Children(n) : Node(tree, c).type = Node(tree, d).type
  /\ Cardinality({Stack!StackSize(FindLeaf(tree, k).stack) : k \in Keys}) = 1

(* Each page that was allocated is a node of the tree or was given up, once. *)
NodesAccounted ==
  /\ AllNodes(tree) \cup ToSet(tree.freePages) = 0 .. tree.size - 1
  /\ Cardinality(AllNodes(tree)) + Len(tree.freePages) = tree.size

(* A scan from any key yields the items from there on, in their order.  TestBTree.cpp  *)
(* has this for the first key after removals (removeOfSomeValuesLeavesTheOthersIntact). *)
ScanComplete ==
  \A k \in Keys : LET from == {l \in DOMAIN contents : l >= k} IN
    Scan(tree, k) = [i \in 1 .. Cardinality(from) |->
                       LET l == CHOOSE l \in from : Cardinality({m \in from : m <= l}) = i
                       IN <<l, contents[l]>>]

(* A rename leaves another value under the new key, and only one whose insert splits   *)
(* the leaf of the value (BTree.cpp:257).                                             *)
RenameLosesValue ==
  \E k, l \in Keys, w \in Values :
    /\ answer' = Promise!Inserted
    /\ k \in DOMAIN contents /\ l \notin DOMAIN contents
    /\ contents' = (l :> w) @@ Without(contents, k)
    /\ SplitsItsLeaf(tree, k, l) /\ ValueSize[w] = ValueSize[contents[k]]

(* Whatever splits and merges: a map with its answers, but for the value of a rename    *)
(* that splits its own leaf.  No other item is changed by that, and none is lost.       *)
ImplementsDictionary ==
  Promise!Init /\ [][Promise!Next \/ RenameLosesValue]_<<contents, answer>>

(* A rename keeps the value, as TestBTree.cpp:439 expects of it (in                     *)
(* successfulRenameReturnsInserted: the value of the old key is found under the new     *)
(* one).                                                                              *)
RenameKeepsValue ==
  [][\A k, l \in Keys :
       k \in DOMAIN contents \ DOMAIN contents' /\ l \in DOMAIN contents' \ DOMAIN contents
         => contents'[l] = contents[k]]_contents
===================================================================================
