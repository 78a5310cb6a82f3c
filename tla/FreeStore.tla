--------------------------------- MODULE FreeStore ---------------------------------
(*********************************************************************************)
(* CompoundFs/FreeStore.h with what its users do to it in a transaction: the tree   *)
(* (BTree), files (FileWriter, deleteFile), evictions of the cache, and              *)
(* DirectoryStructure::commit and rollback.  The pages of the file are known by      *)
(* what they are used for, and the file tables by their contents.                    *)
(*********************************************************************************)
EXTENDS FileTable

CONSTANTS
  MaxSize,              \* bound: pages of the file
  MaxContent,           \* bound: pages of a file that is written
  MaxEdits,             \* bound: changes in a transaction
  MaxCommits,           \* bound: commits
  Starts                \* the databases to begin with

VARIABLES
  store,                \* the FreeStore, the tables it reads, and the size of the file
  tree, treeFree,       \* the pages of the tree; BTree::m_freePages
  files,                \* the descriptors of the files
  writer,               \* the FileWriter that is open, if any
  diverted,             \* where evicted dirty pages went
  pc,                   \* "txn", or "closed" in a commit, or "undefined"
  base,                 \* the committed database
  edits, commits

vars == <<store, tree, treeFree, files, writer, diverted, pc, base, edits, commits>>

Pages == 0 .. MaxSize            \* and one more, for what is too large
NoWriter == [todo |-> 0, seq |-> <<>>, tables |-> <<>>, size |-> 0]
HeadPage(s) == s.fd.first

(* A FreeStore that was just made.  fresh: what this transaction writes without a log. *)
Opened(table, fd, size) ==
  [table |-> table, size |-> size, fresh |-> {}, allocator |-> TRUE,
   fd |-> fd, left |-> fd.size, loaded |-> FALSE, current |-> <<>>,
   deleted |-> <<>>, freeMeta |-> {}, stillInUse |-> {}]

Init ==
  /\ base \in Starts
  /\ store = Opened(base.table, base.fd, base.size)
  /\ tree = base.tree /\ files = base.files
  /\ treeFree = {} /\ diverted = {} /\ writer = NoWriter
  /\ pc = "txn" /\ edits = 0 /\ commits = 0

-----------------------------------------------------------------------------------
(* FreeStore::allocate *)
LoadHead(s) ==
  IF s.loaded THEN s
  ELSE [s EXCEPT !.loaded = TRUE, !.current = InsertInto(s.table[HeadPage(s)], @)]

(* Mutant of LoadTables: the list still begins with the tables that were loaded. *)
LoadTablesAgain(s, max) ==
  LET chain == Chain(s.table, s.table[HeadPage(s)].next)
  IN IF chain = <<>> \/ TotalLength(s.current) >= max THEN s
     ELSE [s EXCEPT !.freeMeta = @ \cup {chain[1]},
                    !.current = Sort(InsertInto(s.table[chain[1]], @))]

(* Load tables until there is enough. *)
LoadTables(s, max) ==
  LET chain == Chain(s.table, s.table[HeadPage(s)].next)
      Current(n) == FoldLeft(LAMBDA is, p : InsertInto(s.table[p], is),
                             s.current, SubSeq(chain, 1, n))
      n == Min({i \in 0 .. Len(chain) :
                  i = Len(chain) \/ TotalLength(Current(i)) >= max})
  IN IF n = 0 THEN s
     ELSE [s EXCEPT !.freeMeta = @ \cup ToSet(SubSeq(chain, 1, n)),
                    !.table[HeadPage(s)].next = s.table[chain[n]].next,
                    !.current = Sort(Current(n))]

Prepared(s, max) == LoadTables(LoadHead(s), max)

(* popFront of an empty sequence: an assertion, or undefined behaviour without it. *)
PopsEmpty(s, max) == s.allocator /\ s.left > 0 /\ Prepared(s, max).current = <<>>

(* CacheManager::allocatePageInterval.  The FreeStore is not asked again once it had   *)
(* nothing.                                                                          *)
AllocatePages(s, max) ==
  IF s.allocator /\ s.left > 0
    THEN LET p == Prepared(s, max)
             iv == Popped(p.current, max)
         IN [iv |-> iv,
             s |-> [p EXCEPT !.current = PopFront(@, max), !.left = @ - Length(iv),
                             !.fresh = @ \cup PagesOf(<<iv>>)]]
    ELSE LET iv == Interval(s.size, s.size + max)
         IN [iv |-> iv,
             s |-> [s EXCEPT !.allocator = FALSE, !.size = @ + max,
                             !.fresh = @ \cup PagesOf(<<iv>>)]]

-----------------------------------------------------------------------------------
(* A transaction.  One call of one user at a time. *)
Edit ==
  /\ pc = "txn" /\ edits < MaxEdits /\ commits < MaxCommits
  /\ edits' = edits + 1

(* One allocation; what it returned is for Use. *)
Allocating(max, Use(_)) ==
  /\ ~PopsEmpty(store, max)
  /\ LET a == AllocatePages(store, max)
     IN a.s.size <= MaxSize /\ store' = a.s /\ Use(a.iv)

NewTreePage ==
  /\ Edit
  /\ Allocating(1, LAMBDA iv : tree' = tree \cup {iv.begin})
  /\ UNCHANGED <<treeFree, files, writer, diverted, pc, base, commits>>

(* The root stays where it is. *)
FreeTreePage ==
  /\ Edit
  /\ \E p \in tree \ {0} : tree' = tree \ {p} /\ treeFree' = treeFree \cup {p}
  /\ UNCHANGED <<store, files, writer, diverted, pc, base, commits>>

(* The cache evicts a dirty page: a page of the old tree, each of them once. *)
EvictDirty ==
  /\ Edit
  /\ Cardinality(diverted) < Cardinality(base.tree)
  /\ Allocating(1, LAMBDA iv : diverted' = diverted \cup {iv.begin})
  /\ UNCHANGED <<tree, treeFree, files, writer, pc, base, commits>>

DeleteFile ==
  /\ Edit
  /\ \E f \in files :
       files' = files \ {f} /\ store' = [store EXCEPT !.deleted = Append(@, f)]
  /\ UNCHANGED <<tree, treeFree, writer, diverted, pc, base, commits>>

(* FileWriter: write, one round of its loop at a time, then the tables, then close. *)
OpenWriter ==
  /\ Edit
  /\ writer = NoWriter
  /\ \E n \in 1 .. MaxContent : writer' = [NoWriter EXCEPT !.todo = n, !.size = n]
  /\ UNCHANGED <<store, tree, treeFree, files, diverted, pc, base, commits>>

WriteContent ==
  /\ pc = "txn" /\ writer.todo > 0
  /\ Allocating(writer.todo, LAMBDA iv :
       writer' = [writer EXCEPT !.todo = @ - Length(iv), !.seq = PushBack(@, iv)])
  /\ UNCHANGED <<tree, treeFree, files, diverted, pc, base, edits, commits>>

PushFileTable ==
  /\ pc = "txn" /\ writer.todo = 0 /\ writer.seq # <<>>
  /\ ~PopsEmpty(store, 1)
  /\ LET a == AllocatePages(store, 1)
         p == a.iv.begin
         t == [a.s.table EXCEPT
                 ![p] = [next |-> INVALID, ivs |-> Transferred(writer.seq)]]
     IN /\ a.s.size <= MaxSize
        /\ store' = [a.s EXCEPT !.table =
                       IF writer.tables = <<>> THEN t
                       ELSE [t EXCEPT ![Last(writer.tables)].next = p]]
        /\ writer' = [writer EXCEPT !.seq = NotTransferred(@), !.tables = Append(@, p)]
  /\ UNCHANGED <<tree, treeFree, files, diverted, pc, base, edits, commits>>

CloseWriter ==
  /\ pc = "txn" /\ writer.todo = 0 /\ writer.seq = <<>> /\ writer.tables # <<>>
  /\ files' = files \cup {[first |-> writer.tables[1], last |-> Last(writer.tables),
                           size |-> writer.size]}
  /\ writer' = NoWriter
  /\ UNCHANGED <<store, tree, treeFree, diverted, pc, base, edits, commits>>

(* Some allocation finds the FreeStore's count wrong. *)
Undefined ==
  /\ pc = "txn"
  /\ \/ edits < MaxEdits /\ commits < MaxCommits /\ PopsEmpty(store, 1)
     \/ writer.todo > 0 /\ PopsEmpty(store, writer.todo)
     \/ writer.seq # <<>> /\ PopsEmpty(store, 1)
  /\ pc' = "undefined"
  /\ UNCHANGED <<store, tree, treeFree, files, writer, diverted, base, edits, commits>>

-----------------------------------------------------------------------------------
(* FreeStore::close *)

(* What allocations took is no longer in the tables. *)
SettleCount(s) ==
  IF s.fd.size = s.left THEN s
  ELSE [s EXCEPT !.fd.last = IF s.table[HeadPage(s)].next = INVALID THEN HeadPage(s) ELSE @,
                 !.fd.size = s.left,
                 !.table[HeadPage(s)] = Clear(@)]

OnePage(f) == f.first = f.last

(* Mutant of CollectShortFiles: the sizes of the short files are not added. *)
CollectShortFilesUncounted(s) ==
  [s EXCEPT !.freeMeta = @ \cup {f.first : f \in {g \in ToSet(s.deleted) : OnePage(g)}},
            !.deleted = SelectSeq(@, LAMBDA f : ~OnePage(f)),
            !.fd.size = @ + FoldLeft(LAMBDA n, f : n + f.size, 0,
                                     SelectSeq(s.deleted, LAMBDA f : ~OnePage(f)))]

(* onePageOptimization *)
CollectShortFiles(s) ==
  [s EXCEPT !.freeMeta = @ \cup {f.first : f \in {g \in ToSet(s.deleted) : OnePage(g)}},
            !.fd.size = @ + FoldLeft(LAMBDA n, f : n + f.size, 0, s.deleted),
            !.deleted = SelectSeq(@, LAMBDA f : ~OnePage(f))]
ShortFilePages(s) ==
  FoldLeft(LAMBDA is, f : InsertInto(s.table[f.first], is), <<>>,
           SelectSeq(s.deleted, OnePage))

(* addRemainingPagesToIntervalSequence: adds to is, and takes m_current. *)
Single(p) == Interval(p, p + 1)
Remaining(s, is) ==
  LET pages == SetToSeq(s.freeMeta) \o SetToSeq(s.stillInUse)
  IN MoveTo([i \in DOMAIN pages |-> Single(pages[i])], is)

(* Page p gets a table whose old contents nobody needs: newPage, asNewPage. *)
AsNewPage(s, p) ==
  [s EXCEPT !.table[p] = EmptyTable, !.size = Max({@, p + 1}), !.fresh = @ \cup {p}]
(* A page of this transaction's: it is known to the cache, as new or as dirty. *)
Repurpose(s, p) == [s EXCEPT !.table[p] = EmptyTable]

(* Mutant of AllocateTable: pages in use for evicted pages are not spared. *)
AllocateAnyTable(s, is) ==
  LET p == is[1].begin
  IN [p |-> p, is |-> PopFront(is, 1),
      s |-> IF p \in s.freeMeta THEN Repurpose(s, p) ELSE AsNewPage(s, p)]

(* allocateFileTableFromIntervalSequence: of is, when its first page may be reused. *)
AllocateTable(s, is) ==
  LET p == is[1].begin
  IN IF p \in s.stillInUse THEN [p |-> s.size, is |-> is, s |-> AsNewPage(s, s.size)]
     ELSE [p |-> p, is |-> PopFront(is, 1),
           s |-> IF p \in s.freeMeta THEN Repurpose(s, p) ELSE AsNewPage(s, p)]

(* pushFileTables: w is the loop's state, is what still needs a table.               *)
PushNext(w) ==
  LET a == AllocateTable(w.s, w.is)
      next == [next |-> w.s.table[w.cur].next, ivs |-> Transferred(a.is)]
  IN [cur |-> a.p, is |-> NotTransferred(a.is),
      s |-> [a.s EXCEPT !.table = [@ EXCEPT ![a.p] = next, ![w.cur].next = a.p]]]

PushFileTables(s, is) ==
  IF is = <<>> THEN s
  ELSE LET start == [cur |-> HeadPage(s), is |-> NotTransferred(is),
                     s |-> [s EXCEPT !.table[HeadPage(s)].ivs = Transferred(is)]]
           end == FoldSet(LAMBDA i, w : IF w.is = <<>> \/ w.s.size > MaxSize THEN w ELSE PushNext(w),
                           start, Pages)
       IN [end.s EXCEPT !.fd.last = IF OnePage(s.fd) THEN end.cur ELSE @]

ChainFile(s, f) ==
  [s EXCEPT !.table[s.fd.last].next = f.first, !.fd.last = f.last]

Finalize(s) ==
  LET short == CollectShortFiles(s)
      is == Remaining(short, ShortFilePages(s))
      all == IF is = <<>> THEN short ELSE LoadHead(short)
      counted == [all EXCEPT !.fd.size = @ + Cardinality(all.freeMeta)
                                           + Cardinality(all.stillInUse)]
      pushed == PushFileTables(counted, Sort(MoveTo(all.current, is)))
      done == FoldLeft(ChainFile, pushed, pushed.deleted)
  IN [done EXCEPT !.deleted = <<>>]

Close(s) ==
  [Finalize(SettleCount(s)) EXCEPT !.freeMeta = {}, !.stillInUse = {}, !.current = <<>>]

-----------------------------------------------------------------------------------
(* DirectoryStructure::commit up to CommitHandler::commit *)
CloseStore ==
  /\ pc = "txn" /\ writer = NoWriter /\ commits < MaxCommits
  /\ LET s == Close([store EXCEPT !.freeMeta = @ \cup treeFree, !.stillInUse = diverted,
                                  !.allocator = FALSE])
     IN s.size <= MaxSize /\ store' = s
  /\ treeFree' = {}
  /\ pc' = "closed"
  /\ UNCHANGED <<tree, files, writer, diverted, base, edits, commits>>

(* CommitHandler::commit and the rest *)
Commit ==
  /\ pc = "closed"
  /\ base' = [table |-> store.table, fd |-> store.fd, size |-> store.size,
              tree |-> tree, files |-> files]
  /\ store' = Opened(store.table, store.fd, store.size)
  /\ diverted' = {}
  /\ pc' = "txn" /\ edits' = 0 /\ commits' = commits + 1
  /\ UNCHANGED <<tree, treeFree, files, writer>>

(* A rollback, or the opening of the file after a crash. *)
Rollback ==
  /\ store' = Opened(base.table, base.fd, base.size)
  /\ tree' = base.tree /\ files' = base.files
  /\ treeFree' = {} /\ diverted' = {} /\ writer' = NoWriter
  /\ pc' = "txn" /\ edits' = 0
  /\ UNCHANGED <<base, commits>>

Next ==
  \/ NewTreePage \/ FreeTreePage \/ EvictDirty \/ DeleteFile
  \/ OpenWriter \/ WriteContent \/ PushFileTable \/ CloseWriter
  \/ Undefined \/ CloseStore \/ Commit \/ Rollback

Spec == Init /\ [][Next]_vars

-----------------------------------------------------------------------------------
TypeOK ==
  /\ store.table \in [Pages -> [next : Pages \cup {INVALID},
                               ivs : Seq([begin : Nat, end : Nat])]]
  /\ store.size \in 0 .. MaxSize /\ store.left \in Nat /\ store.fd.size \in Nat
  /\ tree \cup treeFree \cup diverted \cup store.freeMeta \subseteq 0 .. store.size - 1
  /\ pc \in {"txn", "closed", "undefined"}

FilePages(table, fs) == UNION {ChainPages(table, f.first) : f \in fs}
FileWeight(table, fs) == FoldSet(LAMBDA f, n : n + ChainWeight(table, f.first), 0, fs)

(* The tables of the FreeStore that are not loaded yet, and what they list. *)
Unloaded(s) == IF s.loaded THEN s.table[HeadPage(s)].next ELSE HeadPage(s)
FreeLength(s) == TotalLength(s.current) + TotalLength(ChainIntervals(s.table, Unloaded(s)))

(* Every page of the file is used for exactly one thing or free: no page is handed    *)
(* out that somebody uses, or twice, none is given back twice, and none is lost,      *)
(* through allocation, deferred deletion, close and rollback (FreeStore.h).           *)
PagesPartitioned ==
  /\ TypeOK
  /\ LET s == store
         sets == IF pc = "closed" THEN tree
                 ELSE tree \cup treeFree \cup diverted \cup s.freeMeta
                      \cup (IF s.loaded THEN {HeadPage(s)} ELSE {})
         setsWeight == IF pc = "closed" THEN Cardinality(tree)
                       ELSE Cardinality(tree) + Cardinality(treeFree) + Cardinality(diverted)
                            + Cardinality(s.freeMeta) + (IF s.loaded THEN 1 ELSE 0)
         free == IF pc = "closed" THEN HeadPage(s) ELSE Unloaded(s)
         runs == s.current \o writer.seq
                   \o FoldLeft(LAMBDA is, p : is \o s.table[p].ivs, <<>>, writer.tables)
         deleted == ToSet(s.deleted)
     IN /\ sets \cup ToSet(writer.tables) \cup PagesOf(runs) \cup ChainPages(s.table, free)
             \cup FilePages(s.table, files \cup deleted) = 0 .. s.size - 1
        /\ setsWeight + Len(writer.tables) + TotalLength(runs) + ChainWeight(s.table, free)
             + FileWeight(s.table, files) + FileWeight(s.table, deleted) = s.size

InUse(db) ==
  db.tree \cup FilePages(db.table, db.files) \cup ToSet(Chain(db.table, db.fd.first))

(* What a transaction writes without a log is no page of the committed database, which *)
(* a crash brings back: the space of a deleted file is available in the next           *)
(* transaction (FreeStore.h:68).                                                      *)
OldDataIntact == store.fresh \cap InUse(base) = {}

(* The tables that close writes are not the pages the commit is still to copy the      *)
(* evicted pages from (FreeStore.h:188).                                              *)
DivertedIntact ==
  pc = "closed" => diverted \cap ToSet(Chain(store.table, HeadPage(store))) = {}

(* Before the file grows all free space is used (FreeStore.h:16). *)
GrowsLast ==
  [][pc = "txn" /\ pc' = "txn" /\ store'.size > store.size => FreeLength(store) = 0]_vars

(* popFront is not called on an empty sequence (IntervalSequence.h:71). *)
NeverPopsEmpty == pc # "undefined"
===================================================================================
