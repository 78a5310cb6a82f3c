------------------------------ MODULE CommitProtocol ------------------------------
(*********************************************************************************)
(* The core of CompoundFs: one writer changing a compound file through its page    *)
(* cache (CacheManager), committing it (DirectoryStructure::commit and             *)
(* CommitHandler), rolling it back, and being opened again after a crash           *)
(* (Composite, RollbackHandler), with read-only users beside it.                   *)
(*                                                                                 *)
(* The steps are the operations on the file, which other processes and crashes     *)
(* can come between; what only touches the writer's memory is part of the step     *)
(* that does it.  The locks are taken as LockProtocol provides them: W for the     *)
(* writer's lifetime, R for a reader's, X only when no reader holds R.             *)
(*********************************************************************************)
EXTENDS Integers, Sequences, FiniteSets, FiniteSetsExt, Functions

CONSTANTS
  Readers,              \* read-only users of the file
  InitialSize,          \* pages of the file the model starts from
  InitialFree,          \* those of them its FreeStore holds
  MaxEntries,           \* entries of a log page (LogPage::MAX_ENTRIES)
  MaxPages,             \* bound: the file never grows beyond this
  MaxGrown,             \* bound: pages a transaction may grow the file to
  MaxEdits,             \* bound: changes of pages in a behaviour
  Fates                 \* bound: what can befall a behaviour (see fate)

Pages == 0..(MaxPages - 1)
Root == 0               \* the tree page that holds the commit block

ASSUME ConstantsOK ==
  /\ InitialSize \in 1..MaxPages /\ MaxPages \in Nat /\ MaxEntries \in Nat \ {0}
  /\ InitialFree \subseteq 1..(InitialSize - 1)
  /\ {MaxGrown, MaxEdits} \subseteq Nat
  /\ IsFiniteSet(Readers)
  /\ Fates \subseteq [readers : SUBSET Readers, commits : Nat, crashes : Nat,
                     power : BOOLEAN, throws : BOOLEAN,
                     file : {"committed", "empty", "orphaned", "raced"}]

VARIABLES
  fate,                 \* what befalls the behaviour: the readers there are, the number of
                        \* commits begun and of crashes, whether crashes lose what was not
                        \* flushed, whether the file operations of a commit can throw, and
                        \* whether the file is empty, its first user may die at once
                        \* ("orphaned") or others have seen it empty too ("raced")
  (* the file *)
  page,                 \* contents, as every process reads them
  size,                 \* fileSizeInPages()
  disk,                 \* what a power failure may leave of it
  (* the writing process *)
  pc,                   \* where it is
  class, data,          \* m_pageCache: class and contents of the cached pages
  divert,               \* m_divertedPageIds (the identity where nothing is diverted)
  newIds,               \* m_newPageIds
  free,                 \* pages the tables of the FreeStore list
  left,                 \* m_currentFileSize, in pages: how many of them it takes to be left
  freed,                \* pages given back in this transaction
  todo,                 \* the dirty pages a commit works through, in its order
  done,                 \* how many of them it has worked through
  logs,                 \* the log entries a recovery works through
  cut,                  \* the size a commit or rollback will cut the file to
  (* the readers *)
  rst, rsize, rdivert,
  (* history *)
  view,                 \* what the writer has made of the pages in use
  base, target,         \* the databases before and after the last commit begun
  past,                 \* the databases commits were begun on
  edits, commits, crashes

file == <<page, size, disk>>
cache == <<class, data, divert, newIds>>
store == <<free, left, freed>>
work == <<todo, done, logs, cut>>
readers == <<rst, rsize, rdivert>>
history == <<base, target, past, edits, commits, crashes>>
vars == <<fate, file, pc, cache, store, work, readers, view, history>>

-----------------------------------------------------------------------------------
(* Pages.  A tree or file page is told from others by a stamp v.  The root page     *)
(* also holds the commit block (the size of the file, here with the number t of     *)
(* the commit) and stands for what hangs off it: the pages in use and the           *)
(* FreeStore, whose descriptor in the commit block counts the pages its tables list.  *)
(* A page that was only allocated has no valid checksum (Blank).                     *)
Blank == [k |-> "blank"]
Data(v) == [k |-> "data", v |-> v]
RootPage(v, t, s, l, f, n) ==
  [k |-> "root", v |-> v, t |-> t, size |-> s, live |-> l, free |-> f, count |-> n]
LogPage(i, entries) == [k |-> "log", at |-> i, e |-> entries]

Identity == [p \in Pages |-> p]

(* RollbackHandler::readLogs: the log pages at the end of a file of s pages; the     *)
(* signature of a log page depends on its place.                                    *)
IsLog(c, i) == c.k = "log" /\ c.at = i
ReadLogs(pg, s) ==
  LET first == CHOOSE i \in 0..s : /\ i = 0 \/ ~IsLog(pg[i - 1], i - 1)
                                  /\ \A j \in i..(s - 1) : IsLog(pg[j], j)
  IN  UNION {pg[i].e : i \in first..(s - 1)}

(* The page found for p when the entries of a log are used as diversions. *)
LogDivert(entries) ==
  [p \in Pages |-> LET copies == {e \in entries : e[1] = p}
                   IN  IF copies = {} THEN p ELSE (CHOOSE e \in copies : TRUE)[2]]

(* The database a user finds who looks pages up through d (just the root page, when   *)
(* there is no commit block on it, which is an exception).                            *)
HasRoot(pg, d) == pg[d[Root]].k = "root"
Database(pg, d) == [p \in IF HasRoot(pg, d) THEN pg[d[Root]].live ELSE {Root} |-> pg[d[p]]]

(* ... and the one that opening the file would find or restore; none if it is empty. *)
NoDatabase == <<>>
Recovered(pg, s) ==
  IF s = 0 THEN NoDatabase ELSE Database(pg, LogDivert(ReadLogs(pg, s)))

-----------------------------------------------------------------------------------
(* File operations.  What was written since the last flush may or may not survive   *)
(* a power failure, page by page (a page is the unit of an atomic write).  Changes   *)
(* of the size survive in their order: each truncation that is not flushed starts    *)
(* another image of the disk.  While it is not on the disk the pages it cut off are  *)
(* what they were, and the others may have been written since.                       *)
Image(pg, s) ==
  [pages |-> [p \in Pages |-> IF p < s THEN {pg[p]} ELSE {}], sizes |-> {s}, cut |-> MaxPages]

OnDisk(d, pg, s) ==
  [d EXCEPT !.pages = [p \in Pages |-> IF p < s THEN @[p] \cup {pg[p]} ELSE @[p]]]

SetFile(pg, s) ==
  /\ s <= MaxPages
  /\ page' = pg /\ size' = s
  /\ disk' = IF ~fate.power THEN disk
             ELSE [e \in DOMAIN disk |->
                     IF e < Len(disk) THEN OnDisk(disk[e], pg, disk[e].cut)
                     ELSE [OnDisk(disk[e], pg, s) EXCEPT !.sizes = @ \cup {s}]]

WritePage(p, c) == SetFile([page EXCEPT ![p] = c], size)
NewInterval(n) == SetFile(page, size + n)

Truncate(s) ==
  /\ page' = [p \in Pages |-> IF p < s THEN page[p] ELSE Blank] /\ size' = s
  /\ disk' = IF ~fate.power THEN disk
             ELSE LET last == disk[Len(disk)].pages
                  IN  Append([e \in DOMAIN disk |->
                                [disk[e] EXCEPT !.cut = IF s < @ THEN s ELSE @]],
                             [Image(page, s) EXCEPT !.pages =
                                [p \in Pages |-> IF p < s THEN last[p] ELSE {}]])

FlushFile ==
  /\ disk' = IF fate.power THEN <<Image(page, size)>> ELSE disk
  /\ UNCHANGED <<page, size>>

-----------------------------------------------------------------------------------
(* The page cache.  *)
Cached(id) == class[id] # "none"
Found(p) == LET id == divert[p] IN IF Cached(id) THEN data[id] ELSE page[id]
(* Mutant of ClassOf: a page that was diverted is taken for an old one again. *)
ClassOfForgetsNew(id) == "Dirty"

ClassOf(id) == IF id \in newIds THEN "New" ELSE "Dirty"

SetCached(id, c, d) == class' = [class EXCEPT ![id] = c] /\ data' = [data EXCEPT ![id] = d]
Forget(id) == SetCached(id, "none", Blank)

NothingCached == [p \in Pages |-> "none"]
NoData == [p \in Pages |-> Blank]
ClearCache == class' = NothingCached /\ data' = NoData /\ divert' = Identity /\ newIds' = {}

Diverted == {p \in Pages : divert[p] # p}
DirtyPages == Diverted \cup {p \in Pages : class[p] = "Dirty"}

(* FreeStore::allocate goes by its count; the file grows when that is zero. *)
AllocateFree(id) == left > 0 /\ id \in free /\ free' = free \ {id} /\ left' = left - 1
AllocateGrown(id) == left = 0 /\ id = size /\ size < MaxGrown /\ UNCHANGED <<free, left>>
PopsEmpty == left > 0 /\ free = {}

-----------------------------------------------------------------------------------
(* Locks, as the lock table has them. *)
HoldsX ==
  pc \in {"update", "writeNew", "flushNew", "truncate", "release", "cut", "cutRelease", "initWrite"}
NoReader == \A r \in Readers : rst[r] = "closed"

Goto(from, to) == pc = from /\ pc' = to

NoWork == todo' = <<>> /\ done' = 0 /\ logs' = {} /\ cut' = 0

-----------------------------------------------------------------------------------
(* The first phase of a write operation.                                            *)
InTransaction == pc = "txn" /\ commits < fate.commits


(* loadPage *)
Load(p) ==
  /\ InTransaction /\ p \in DOMAIN view
  /\ ~Cached(divert[p])
  /\ SetCached(divert[p], "Read", page[divert[p]])
  /\ UNCHANGED <<file, pc, divert, newIds, store, work, readers, view, history>>

(* loadPage, makePageWritable and a change of the page *)
Modify(p) ==
  /\ InTransaction /\ p \in DOMAIN view
  /\ edits < MaxEdits /\ edits' = edits + 1
  /\ LET id == divert[p]
     IN  SetCached(id, ClassOf(id), [Found(p) EXCEPT !.v = edits + 1])
  /\ view' = [view EXCEPT ![p].v = edits + 1]
  /\ UNCHANGED <<file, pc, divert, newIds, store, work, readers,
                 base, target, past, commits, crashes>>

(* newPage, and what is put on the page *)
NewPage(id) ==
  /\ InTransaction
  /\ edits < MaxEdits /\ edits' = edits + 1
  /\ \/ AllocateFree(id) /\ UNCHANGED file
     \/ AllocateGrown(id) /\ NewInterval(1)
  /\ SetCached(id, "New", Data(edits + 1))
  /\ newIds' = newIds \cup {id}
  /\ view' = [p \in DOMAIN view \cup {id} |-> IF p = id THEN Data(edits + 1) ELSE view[p]]
  /\ UNCHANGED <<pc, divert, freed, work, readers, base, target, past, commits, crashes>>

(* FreeStore::deallocate, deleteFile: the page is available in the next transaction. *)
FreePage(p) ==
  /\ InTransaction /\ p \in DOMAIN view \ {Root}
  /\ freed' = freed \cup {p}
  /\ view' = Restrict(view, DOMAIN view \ {p})
  /\ UNCHANGED <<file, pc, cache, free, left, work, readers, history>>

(* trim: the three ways a page leaves the cache. *)
EvictRead(id) ==
  /\ InTransaction /\ class[id] = "Read"
  /\ Forget(id)
  /\ UNCHANGED <<file, pc, divert, newIds, store, work, readers, view, history>>

EvictNew(id) ==
  /\ InTransaction /\ class[id] = "New"
  /\ WritePage(id, data[id])
  /\ Forget(id)
  /\ UNCHANGED <<pc, divert, newIds, store, work, readers, view, history>>

(* Where the page went.  Mutant: it is not noted. *)
DivertUnnoted(p, id) == divert' = divert /\ newIds' = newIds \cup {id}
Divert(p, id) == divert' = [divert EXCEPT ![p] = id] /\ newIds' = newIds \cup {id}

EvictDirty(p, id) ==
  /\ InTransaction /\ class[p] = "Dirty"
  /\ \/ AllocateFree(id) /\ WritePage(id, data[p])
     \/ AllocateGrown(id) /\ SetFile([page EXCEPT ![id] = data[p]], size + 1)
  /\ Forget(p)
  /\ Divert(p, id)
  /\ UNCHANGED <<pc, freed, work, readers, view, history>>

-----------------------------------------------------------------------------------
(* Commit.                                                                          *)

Orders(S) == {f \in [1..Cardinality(S) -> S] : \A i, j \in DOMAIN f : f[i] = f[j] => i = j}

(* What the FreeStore holds when it is closed: with the pages freed in the            *)
(* transaction (deallocate, deleteFile) those evicted pages were diverted to          *)
(* (deallocateStillInUse).  Mutant: without the latter.                               *)
ReturnedButDiverted == free \cup freed
Returned == free \cup freed \cup {divert[p] : p \in Diverted}

(* DirectoryStructure::commit up to CommitHandler::commit: the FreeStore is closed    *)
(* and the commit block goes into the root page, which is dirty from then on.         *)
CommitBegin ==
  /\ InTransaction /\ pc' = "copyGrow"
  /\ commits' = commits + 1
  /\ LET newfree == Returned
         id == divert[Root]
         count == left + Cardinality(freed) + Cardinality(Diverted)
         root == [Found(Root) EXCEPT !.t = commits + 1, !.size = size, !.live = DOMAIN view,
                                     !.free = newfree, !.count = count]
     IN  /\ SetCached(id, ClassOf(id), root)
         /\ view' = [view EXCEPT ![Root] = root]
         /\ free' = newfree /\ left' = count /\ freed' = {}
  /\ todo' \in Orders(DirtyPages \cup {Root})
  /\ done' = 0 /\ cut' = size
  /\ base' = Recovered(page, size) /\ target' = view' /\ past' = past \cup {base'}
  /\ UNCHANGED <<file, divert, newIds, logs, readers, edits, crashes>>

Step(from, to) ==
  /\ Goto(from, to)
  /\ UNCHANGED <<cache, store, logs, cut, todo, readers, view, history>>

(* copyDirtyPages: room for the copies, then the originals one by one. *)
CopyGrow ==
  /\ Step("copyGrow", "copy")
  /\ NewInterval(Len(todo))
  /\ UNCHANGED done

CopyPage ==
  /\ Step("copy", IF done + 1 = Len(todo) THEN "flushCopies" ELSE "copy")
  /\ WritePage(cut + done, page[todo[done + 1]])
  /\ done' = done + 1

(* Mutant of FlushCopies: no flush between the copies and the logs. *)
FlushCopiesLater == Step("flushCopies", "logGrow") /\ UNCHANGED file /\ done' = 0

FlushCopies == Step("flushCopies", "logGrow") /\ FlushFile /\ done' = 0

(* writeLogs: a new last page, then the next entries on it. *)
LogGrow == Step("logGrow", "logWrite") /\ NewInterval(1) /\ UNCHANGED done

LogWrite ==
  LET next == IF done + MaxEntries < Len(todo) THEN done + MaxEntries ELSE Len(todo)
      entries == {<<todo[i], cut + i - 1>> : i \in (done + 1)..next}
  IN  /\ Step("logWrite", IF next = Len(todo) THEN "flushLogs" ELSE "logGrow")
      /\ WritePage(size - 1, LogPage(size - 1, entries))
      /\ done' = next

FlushLogs == Step("flushLogs", "lockX") /\ FlushFile /\ done' = 0

(* Mutant of LockX: readers are not waited for. *)
LockXAmongReaders == Step("lockX", "update") /\ UNCHANGED <<file, done>>

(* exclusiveLockedCommit: the X lock waits for the readers to leave. *)
LockX == Step("lockX", "update") /\ NoReader /\ UNCHANGED <<file, done>>

(* updateDirtyPages: from the cache, or else from where the page was evicted to. *)
UpdateDirty ==
  /\ Goto("update", IF done + 1 = Len(todo) THEN "writeNew" ELSE "update")
  /\ LET p == todo[done + 1]
         id == divert[p]
     IN  /\ WritePage(p, Found(p))
         /\ Forget(id)
  /\ done' = done + 1
  /\ divert' = IF done + 1 = Len(todo) THEN Identity ELSE divert
  /\ UNCHANGED <<newIds, store, logs, cut, todo, readers, view, history>>

(* writeCachedPages *)
WriteNew(p) ==
  /\ pc \in {"writeNew", "initWrite"} /\ class[p] \in {"New", "Dirty"}
  /\ WritePage(p, data[p])
  /\ Forget(p)
  /\ UNCHANGED <<pc, divert, newIds, store, work, readers, view, history>>

WrittenNew ==
  /\ Goto("writeNew", "flushNew") \/ Goto("initWrite", "release")
  /\ \A p \in Pages : class[p] \in {"none", "Read"}
  /\ ClearCache
  /\ UNCHANGED <<file, store, work, readers, view, history>>

FlushNew == Step("flushNew", "truncate") /\ FlushFile /\ UNCHANGED done

(* Mutant of CutLogs: only the log pages are cut off, the copies stay. *)
CutOnlyLogs == Step("truncate", "release") /\ Truncate(cut + Len(todo)) /\ UNCHANGED done

CutLogs == Step("truncate", "release") /\ Truncate(cut) /\ UNCHANGED done

(* The writer keeps W and goes on with a FreeStore opened from the commit block (with *)
(* one that does not have its root where it belongs, the model ends).                 *)
Release ==
  /\ Goto("release", "txn") /\ Root \in DOMAIN view
  /\ NoWork
  /\ UNCHANGED <<file, cache, store, readers, view, history>>

-----------------------------------------------------------------------------------
(* Rollback, by the user or for a commit that threw (RollbackOnException).  The       *)
(* commit block is read from the root page as the cache shows it: the one that was    *)
(* last stored, which is that of the failed commit when a commit threw.  The file is   *)
(* cut to its size and the FreeStore opened with its count, but on the tables that     *)
(* are on the file.  When nothing is to be cut off no lock is needed.                  *)
Reopen ==
  /\ free' = page[Root].free /\ freed' = {}
  /\ view' = Database(page, Identity)

BeginRollback(block) ==
  /\ ClearCache
  /\ left' = block.count
  /\ IF block.size < size
     THEN pc' = "cutLock" /\ cut' = block.size /\ todo' = <<>> /\ done' = 0 /\ logs' = {}
                          /\ UNCHANGED <<free, freed, view>>
     ELSE pc' = "txn" /\ Reopen /\ NoWork

Rollback ==
  /\ pc = "txn"
  /\ BeginRollback(Found(Root))
  /\ UNCHANGED <<file, readers, history>>

LockCut == Step("cutLock", "cut") /\ NoReader /\ UNCHANGED <<file, done>>

CutFile == Step("cut", "cutRelease") /\ Truncate(cut) /\ UNCHANGED done

ReleaseCut ==
  /\ Goto("cutRelease", "txn")
  /\ Reopen /\ NoWork
  /\ UNCHANGED <<file, cache, left, readers, history>>

(* A file operation of a commit throws before the X lock is taken: the FileSystem is   *)
(* rolled back to the block of the commit that failed, and its user goes on with it.   *)
ThrowBeforeLock ==
  /\ fate.throws
  /\ pc \in {"copyGrow", "copy", "flushCopies", "logGrow", "logWrite", "flushLogs"}
  /\ BeginRollback(Found(Root))
  /\ UNCHANGED <<file, readers, history>>

(* One throws while it is held, in a commit or a rollback: the CommitLock goes, and   *)
(* W with it; what the guard then tries of a rollback clears the cache and throws for *)
(* want of W, which the guard swallows.  The FileSystem is left without a lock.       *)
CloseWriter(to) ==
  /\ pc' = to
  /\ ClearCache /\ NoWork
  /\ free' = {} /\ left' = 0 /\ freed' = {} /\ view' = <<>>

ThrowUnderLock ==
  /\ fate.throws
  /\ pc \in {"update", "writeNew", "flushNew", "truncate", "cut"}
  /\ CloseWriter("failed")
  /\ UNCHANGED <<file, readers, history>>

(* The FreeStore's count is too high, and an allocation (newPage, or the eviction of a *)
(* dirty page) pops a page off an empty sequence: an assertion ends the process, and    *)
(* without it the behaviour is undefined and not followed further.                     *)
AllocateNothing ==
  /\ InTransaction /\ PopsEmpty
  /\ edits < MaxEdits \/ \E p \in Pages : class[p] = "Dirty"
  /\ CloseWriter("undefined")
  /\ UNCHANGED <<file, readers, history>>

(* Its user may write on, with the allocator gone, so the file grows.  (This is in    *)
(* UnlockedSpec only, and only until the file is opened again.)                       *)
WriteUnlocked ==
  /\ pc = "failed"
  /\ size < MaxPages
  /\ SetFile([page EXCEPT ![size] = Data(0)], size + 1)
  /\ UNCHANGED <<pc, cache, store, work, readers, view, history>>

-----------------------------------------------------------------------------------
(* Opening the file for writing (Composite::initializeExisting): W, the log entries, *)
(* the copies back to the originals, a flush, and a rollback.                        *)
OpenWriter ==
  /\ pc \in {"closed", "failed", "undefined"} /\ size > 0 /\ pc' = "revert"
  /\ logs' = ReadLogs(page, size)
  /\ UNCHANGED <<file, cache, store, todo, done, cut, readers, view, history>>

RevertPage(p, c) ==
  /\ pc = "revert" /\ <<p, c>> \in logs
  /\ WritePage(p, page[c])
  /\ logs' = logs \ {<<p, c>>}
  /\ UNCHANGED <<pc, cache, store, todo, done, cut, readers, view, history>>

FlushReverted == logs = {} /\ Step("revert", "reopen") /\ FlushFile /\ UNCHANGED done

OpenRollback ==
  /\ pc = "reopen"
  /\ IF HasRoot(page, Identity) THEN BeginRollback(page[Root]) ELSE CloseWriter("closed")
  /\ UNCHANGED <<file, readers, history>>

(* Opening an empty file (Composite::initializeNew): two new pages, the root and the   *)
(* first one of the FreeStore, and a commit that has no dirty pages.  Composite::open   *)
(* looks at the size before it has W, so the file may have grown since.                *)
OpenNew ==
  /\ pc \in {"closed", "failed", "undefined"} /\ (size = 0 \/ fate.file = "raced")
  /\ pc' = "init" /\ cut' = size
  /\ base' = Recovered(page, size) /\ past' = past \cup {base'}
  /\ UNCHANGED <<file, cache, store, todo, done, logs, readers, view, target, edits, commits, crashes>>

InitialPage ==
  /\ pc = "init" /\ size < cut + 2
  /\ NewInterval(1)
  /\ SetCached(size, "New", Data(0)) /\ newIds' = newIds \cup {size}
  /\ UNCHANGED <<pc, divert, store, work, readers, view, history>>

(* lockedWriteCachedPages, whose lock also waits for readers. *)
InitialCommit ==
  /\ Goto("init", "initWrite") /\ size = cut + 2 /\ NoReader
  /\ SetCached(cut, "New", RootPage(0, 0, size, newIds, {}, 0))
  /\ view' = Restrict(data', newIds)
  /\ target' = view'
  /\ UNCHANGED <<file, divert, newIds, store, work, readers, base, past, edits, commits, crashes>>

-----------------------------------------------------------------------------------
(* Read-only users (Composite::initializeReadOnly): R, the size of the file, the      *)
(* log pages below it; then the originals are looked up in their copies.              *)
Closed(r) ==
  /\ rst' = [rst EXCEPT ![r] = "closed"]
  /\ rsize' = [rsize EXCEPT ![r] = 0]
  /\ rdivert' = [rdivert EXCEPT ![r] = Identity]

OpenReader(r) ==
  /\ r \in fate.readers /\ rst[r] = "closed" /\ ~HoldsX
  /\ rst' = [rst EXCEPT ![r] = "opening"]
  /\ rsize' = [rsize EXCEPT ![r] = size]
  /\ UNCHANGED <<file, pc, cache, store, work, rdivert, view, history>>

VirtualRevert(r) ==
  LET d == LogDivert(ReadLogs(page, rsize[r]))
  IN  /\ rst[r] = "opening"
      /\ IF HasRoot(page, d)
         THEN /\ rst' = [rst EXCEPT ![r] = "reading"] /\ rdivert' = [rdivert EXCEPT ![r] = d]
              /\ UNCHANGED rsize
         ELSE Closed(r)
      /\ UNCHANGED <<file, pc, cache, store, work, view, history>>

CloseReader(r) ==
  /\ rst[r] # "closed"
  /\ Closed(r)
  /\ UNCHANGED <<file, pc, cache, store, work, view, history>>

-----------------------------------------------------------------------------------
(* The writing process ends or dies; the operating system keeps the file. *)
Initializing == pc \in {"init", "initWrite"}

Crash ==
  /\ pc \notin {"closed", "failed", "undefined"} /\ (Initializing => fate.file = "orphaned")
  /\ crashes < fate.crashes /\ crashes' = crashes + 1
  /\ CloseWriter("closed")
  /\ UNCHANGED <<file, readers, base, target, past, edits, commits>>

(* The files an image of the disk stands for, when their size is s. *)
Images(pages, s) ==
  LET Choose(p, pgs) == {[pg EXCEPT ![p] = c] : pg \in pgs, c \in pages[p]}
  IN  FoldSet(Choose, {NoData}, 0..(s - 1))

(* The machine dies. *)
PowerFailure ==
  /\ fate.power /\ crashes < fate.crashes /\ crashes' = crashes + 1
  /\ \E e \in DOMAIN disk : \E s \in disk[e].sizes : \E pg \in Images(disk[e].pages, s) :
       page' = pg /\ size' = s /\ disk' = <<Image(pg, s)>>
  /\ CloseWriter("closed")
  /\ rst' = [r \in Readers |-> "closed"]
  /\ rsize' = [r \in Readers |-> 0]
  /\ rdivert' = [r \in Readers |-> Identity]
  /\ UNCHANGED <<base, target, past, edits, commits>>

-----------------------------------------------------------------------------------
InitialRoot ==
  RootPage(0, 0, InitialSize, 0..(InitialSize - 1) \ InitialFree, InitialFree,
           Cardinality(InitialFree))

(* A file some commit left behind, with nobody using it; or an empty one. *)
Init ==
  /\ fate \in Fates
  /\ size = IF fate.file = "committed" THEN InitialSize ELSE 0
  /\ page = [p \in Pages |-> IF p >= size THEN Blank ELSE IF p = Root THEN InitialRoot ELSE Data(0)]
  /\ disk = <<Image(page, size)>>
  /\ pc = "closed"
  /\ class = NothingCached /\ data = NoData /\ divert = Identity /\ newIds = {}
  /\ free = {} /\ left = 0 /\ freed = {}
  /\ todo = <<>> /\ done = 0 /\ logs = {} /\ cut = 0
  /\ rst = [r \in Readers |-> "closed"]
  /\ rsize = [r \in Readers |-> 0]
  /\ rdivert = [r \in Readers |-> Identity]
  /\ view = <<>>
  /\ base = Recovered(page, size) /\ target = base /\ past = {base}
  /\ edits = 0 /\ commits = 0 /\ crashes = 0

Transaction ==
  \/ \E p \in Pages : Load(p) \/ Modify(p) \/ NewPage(p) \/ FreePage(p)
  \/ \E id \in Pages : EvictRead(id) \/ EvictNew(id)
  \/ \E p, id \in Pages : EvictDirty(p, id)
  \/ AllocateNothing

Commit ==
  \/ CommitBegin \/ CopyGrow \/ CopyPage \/ FlushCopies \/ LogGrow \/ LogWrite \/ FlushLogs
  \/ LockX \/ UpdateDirty \/ (\E p \in Pages : WriteNew(p)) \/ WrittenNew \/ FlushNew
  \/ CutLogs \/ Release

RollBack == Rollback \/ LockCut \/ CutFile \/ ReleaseCut

Throw == ThrowBeforeLock \/ ThrowUnderLock

Open ==
  \/ OpenWriter \/ (\E p, c \in Pages : RevertPage(p, c)) \/ FlushReverted \/ OpenRollback
  \/ OpenNew \/ InitialPage \/ InitialCommit

Read == \E r \in Readers : OpenReader(r) \/ VirtualRevert(r) \/ CloseReader(r)

Next ==
  /\ Transaction \/ Commit \/ RollBack \/ Throw \/ Open \/ Read \/ Crash \/ PowerFailure
  /\ UNCHANGED fate

Spec == Init /\ [][Next]_vars

(* ... with a user who goes on using a FileSystem whose commit threw. *)
UnlockedSpec == Init /\ [][Next \/ (WriteUnlocked /\ UNCHANGED fate)]_vars

-----------------------------------------------------------------------------------
Content(c) ==
  \/ c = Blank
  \/ c.k = "data" /\ c = Data(c.v) /\ c.v \in 0..MaxEdits
  \/ /\ c.k = "root" /\ c = RootPage(c.v, c.t, c.size, c.live, c.free, c.count)
     /\ c.v \in 0..MaxEdits /\ c.t \in 0..fate.commits /\ c.size \in 0..MaxPages
     /\ c.live \subseteq Pages /\ c.free \subseteq Pages /\ c.count \in Nat
  \/ c.k = "log" /\ c = LogPage(c.at, c.e) /\ c.at \in Pages /\ c.e \subseteq Pages \X Pages

PCs == {"closed", "failed", "undefined", "revert", "reopen", "txn", "init", "initWrite",
        "copyGrow", "copy", "flushCopies", "logGrow", "logWrite", "flushLogs", "lockX",
        "update", "writeNew", "flushNew", "truncate", "release",
        "cutLock", "cut", "cutRelease"}

TypeOK ==
  /\ fate \in Fates
  /\ DOMAIN page = Pages /\ \A p \in Pages : Content(page[p]) /\ (p >= size => page[p] = Blank)
  /\ size \in 0..MaxPages
  /\ \A e \in DOMAIN disk : /\ \A p \in Pages : \A c \in disk[e].pages[p] : Content(c)
                            /\ disk[e].sizes \subseteq 0..MaxPages
  /\ pc \in PCs
  /\ class \in [Pages -> {"none", "Read", "New", "Dirty"}]
  /\ DOMAIN data = Pages /\ \A p \in Pages : Content(data[p]) /\ (~Cached(p) => data[p] = Blank)
  /\ divert \in [Pages -> Pages]
  /\ newIds \subseteq Pages /\ free \subseteq Pages /\ left \in Nat /\ freed \subseteq Pages
  /\ todo \in Seq(Pages) /\ done \in 0..MaxPages /\ cut \in 0..MaxPages
  /\ logs \subseteq Pages \X Pages
  /\ rst \in [Readers -> {"closed", "opening", "reading"}]
  /\ rsize \in [Readers -> 0..MaxPages]
  /\ rdivert \in [Readers -> [Pages -> Pages]]
  /\ DOMAIN view \subseteq Pages /\ \A p \in DOMAIN view : Content(view[p])
  /\ edits \in 0..MaxEdits /\ commits \in 0..fate.commits /\ crashes \in 0..fate.crashes

(* The writer finds on every page what it last put there, whether the page is cached, *)
(* was evicted as New to its own place or as Dirty to another one, or was read in     *)
(* again and changed once more since (CacheManager.cpp, divertPage).                  *)
ReadYourWrites ==
  pc \in {"txn", "copyGrow", "copy", "flushCopies", "logGrow", "logWrite", "flushLogs", "lockX"}
    => \A p \in DOMAIN view : Found(p) = view[p]

(* What the file shows to whoever can open it.  While an empty file is initialized that *)
(* is nobody: a writer waits for W, and a reader for the commit, or throws.            *)
Shown == IF Initializing THEN base ELSE Recovered(page, size)

(* README.md, "Transactional Write-Operations": at any moment the file, opened again, *)
(* shows the database as it was before the last commit begun or as that commit makes  *)
(* it, nothing in between.                                                            *)
Atomicity == Shown \in {base, target}

(* README.md:11: neither crashes nor power failures nor exceptions of the file system *)
(* cripple the data: what the file shows is a database of some commit.                *)
NotCrippled == Shown \in past \cup {target}

(* No page of the committed file that is in use can be handed out, also after a commit *)
(* that threw; and unless one did, every page is in use or in the FreeStore, which      *)
(* counts them right: none is leaked by an eviction, a rollback or a crash.             *)
PagesAccounted ==
  /\ TypeOK
  /\ Shown # NoDatabase =>
       LET root == Shown[Root]
       IN  /\ root.live \cup root.free \subseteq 0..(root.size - 1) /\ root.live \cap root.free = {}
           /\ ~fate.throws => /\ root.live \cup root.free = 0..(root.size - 1)
                              /\ root.count = Cardinality(root.free)

(* IntervalSequence.h:71, "assert(!empty());": the FreeStore never counts on a page its *)
(* tables do not list.                                                                *)
NeverAllocatesNothing == pc # "undefined"

(* README.md, steps 12 and "The Rollback Procedure": what a commit, a rollback or a   *)
(* recovery leaves is a file of exactly the size its commit block gives               *)
(* (DirectoryStructure.cpp asserts it after a commit).                                *)
SizeAsCommitted == ~fate.throws /\ pc \in {"release", "cutRelease"} => size = page[Root].size

(* The database of an open reader, and the whole as AtomicStore has it.               *)
ReaderSees(r) ==
  IF rst[r] = "reading" THEN Database(page, rdivert[r]) ELSE NoDatabase

Store == INSTANCE AtomicStore WITH
  db <- Shown, work <- target, snap <- [r \in Readers |-> ReaderSees(r)]

(* Commits are atomic and take effect when the log is cut off; evictions, rollbacks,  *)
(* crashes and recoveries at any point change nothing; and a reader sees the database *)
(* it was opened on for as long as it stays open, also on a file a crash left half    *)
(* committed, while a writer recovers it.  A power failure alone may also undo a       *)
(* commit, one whose truncation is not flushed yet.                                   *)
LosesUnflushed ==
  fate.power /\ crashes' > crashes /\ Shown' \in {base, target}

ImplementsAtomicStore ==
  Store!Init /\ [][Store!Next \/ LosesUnflushed]_<<page, size, pc, base, target, rst, rdivert>>
===================================================================================
