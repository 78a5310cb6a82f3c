# A formal model of CompoundFs

CompoundFs keeps a file system in one file of the operating system. One writer at a time
changes it in transactions, any number of readers look at it meanwhile, and crashes, power
failures and exceptions are supposed to leave either the old or the new state. These
TLA+ modules model the parts of the code that have to make this true, TLC checks them on
small instances, and TLAPS proves theorems about them for all instances.

All paths below are relative to `src/CompoundFs/` unless they start with `src/`.

## 1. Inventory

| Component | Sources | State | Operations |
|---|---|---|---|
| Lock protocol | `LockProtocol.h`, `Lock.h` | the locks `m_gate`, `m_shared`, `m_writer` | `readAccess`, `writeAccess`, `commitAccess`, their `try` variants, release and destruction of `Lock` and `CommitLock` |
| Primitive locks | `SharedLock.*`, `FileLock*.h/.cpp` | a flag, a counter and a condition variable; in the class for tests also who waits and whether `unlock` may return; or byte-range locks of the OS | lock, try_lock, unlock, each exclusive and shared; `waitForWaiting`, `unlockRelease`, `makeUnlockBlock` |
| File layer | `FileInterface.h`, `PosixFile`, `WindowsFile`, `MemoryFile`, `WrappedFile`, `ReadOnlyFile`, `TempFile`, `FileIo.h` | handles, their locks, names of temporary files; pages and size of the file | open, move, close, `newInterval`, `readPage(s)`, `writePage(s)`, `flushFile`, `truncate`, the accesses, checksums |
| Page cache | `CacheManager`, `Cache.h`, `PageMetaData.h` | `m_pageCache` (class Read, New or Dirty), `m_divertedPageIds`, `m_newPageIds` | `loadPage`, `newPage`, `setPageDirty`, `repurpose`, `trim` with its three evictions |
| Commit and recovery | `CommitHandler`, `RollbackHandler`, `LogPage.h`, `CommitBlock` | the cache above, the log at the end of the file, the commit block in the root page | `commit`, `rollback`, `revertPartialCommit`, `virtualRevertPartialCommit` |
| Opening | `Composite` | none | `initializeNew`, `initializeExisting`, `initializeReadOnly` |
| Free space | `FreeStore.h`, `FileTable.h`, `IntervalSequence.h`, `Interval.h` | the list of free intervals in file tables, its byte size, pages given back in this transaction | `allocate`, `deallocate`, `deallocateStillInUse`, `deleteFile`, `close` |
| Directory structure | `DirectoryStructure` | the tree, the FreeStore, the largest folder id | `commit`, `rollback`, `init`, `makeSubFolder`, `addAttribute`, `createFile`, `appendFile`, `updateFile`, `rename`, `remove`, cursors |
| File system interface | `FileSystem`, `Path`, `FileSystemHelper`, `FileSystemVisitor` | open readers and writers by handle; the folder stacks of the visitors, a temporary file | create, append, read, write, close, rename, remove, queries, `createPath`, `reducePath`, `commit`, `rollback`; copy, list, walk, compare |
| B+tree | `BTree`, `Leaf.h`, `InnerNode.h` | nodes in pages, the pages given up | insert, remove, rename, find, `begin`, `next` |
| Keys and values | `ByteString.h`, `DirectoryKey`, `TreeValue` | strings of bytes, values of eight types | compare, put into a stream, take out of it |
| File contents | `FileReader.h`, `FileWriter.h` | position, intervals, the last table | open, append, read, write, close |
| Page memory | `PageAllocator` | blocks, the position in the current one, a list of free pages | allocate, release, trim |
| Rfx reflection library | `src/Rfx` | a blob, the lengths of the versioned values in it; the part of it still to be read | write, swap, read, of values of nested types |
| Python binding | `src/py_txfs/Bindings.cpp` | none | the calls of a FileSystem, `dir`, `sub_folder`, `import_files` |
| Sandboxes, tests | `src/Sandbox`, `src/TestDriver`, `src/TestRfx` | | left aside: experiments, most of them commented out, and tests |

How they interact. `FileSystem` calls `DirectoryStructure`, which keeps the `BTree` and the
`FreeStore`; both reach their pages through the `CacheManager`. The cache calls back: to
make room it evicts pages, for that it allocates pages, and the allocator it was given is
`FreeStore::allocate`. `DirectoryStructure::commit` closes the FreeStore, writes the commit
block into the root page and calls `CommitHandler::commit`, which takes the lock from
`LockProtocol` that `Cache::m_lock` is traded in for. Processes share nothing but the file
and its locks.

What makes each part correct, and what is hard about it:

- **Locks**: the table of `src/README.md` (R with R and W, W with R, X alone), no lock
  leaked by a failed attempt, an exception or a dead process, nobody waiting in a circle, a
  committer eventually served. Hard: two locks are taken in two steps and in two modes.
- **Cache**: the writer reads what it wrote, whichever way a page left the cache.
  Hard: a page can be evicted, loaded, changed and evicted again under another identity.
- **Commit and recovery**: at any moment, opening the file shows the database before or
  after the commit. Hard: crashes between any two writes, also in the recovery; writes that
  reach the disk in any order; exceptions before and under the X lock; readers that open a
  half-committed file.
- **Free space**: each page is in use or free, never both. Hard: evictions, rollbacks
  and failed commits give pages back in different ways.
- **Opening**: two openers must not initialize the same file twice.
- **Directory and file system**: what is under each path is what the calls made of it, in
  spite of the ids folders have and the descriptors files have; each page has one owner;
  rollback takes everything back. Hard: files are open while their entries are removed,
  replaced, renamed or copied; a refused call has already made folders.
- **Keys and values**: the order of the bytes is the order of the names in a folder, and what goes into a stream
  comes out of it. Hard: names and values that are one byte too long throw in the middle of a call.
- **B+tree**: it is a map; a key is found where it is kept; nodes fit in their pages; no page
  is lost. Hard: splits, merges and redistributions at several levels in one call, keys of
  different sizes, links between leaves.
- **File contents**: what is read is what was written. Hard: calls that end on, before or
  behind a page boundary, tables that fill up on the way, a reader beside an appending writer.
- **File layer**: a reader gets what was committed although a call on several pages takes several system calls;
  the locks of a file are its own and do not disturb each other. Hard: handles are reused, moved and die with their process.
- **Page memory**: no page in two hands, none lost, whole blocks returned. Hard: the count of
  blocks is a second book beside the references that decide.
- **Rfx**: a program reads what another version of it wrote, as far as both know it. Hard: what is
  skipped has nested versions of its own, in the bytes and in the table behind them.

`PROJECT.json` lists the hazards one by one, each at its line, with the properties that
would notice it.

## 2. Modules

| Module | Models |
|---|---|
| `LockProtocol` | `LockProtocol.h` and `Lock.h`, one step per operation on one of the three locks |
| `LockModes` | the lock table of `src/README.md`: what the lock protocol promises |
| `LockProtocolProofs` | theorems about `LockProtocol` |
| `ReadWriteLock` | the locks `LockProtocol` is made of: who may take one, and what that does to it |
| `SharedLock` | `SharedLock.h`: such a lock for threads, with its mutex and condition variable |
| `ReadWriteLockSpec` | what a `SharedLock` promises: a `ReadWriteLock`, one step per call |
| `SharedLockProofs` | theorems about `SharedLock` |
| `DebugSharedLock` | `DebugSharedLock` of `SharedLock.h/.cpp`, the class with which tests order their threads |
| `CommitProtocol` | a writer, its cache, commit, rollback, recovery, readers, crashes, power failures, exceptions |
| `AtomicStore` | what all that promises: one database, replaced in one go, and snapshots |
| `MCCommitProtocol` | a file of three pages |
| `IntervalSequence` | `Interval.h`, `IntervalSequence.h` |
| `FileTable` | `FileTable.h`, and lists of file tables |
| `FreeStore` | `FreeStore.h`, and what the tree, the files, the cache, commits and rollbacks do to it |
| `MCFreeStore` | a file of twelve pages |
| `CacheManager` | `CacheManager.cpp` with the calls under way in it, and `FreeStore::allocate` as what it calls |
| `MCCacheManager` | a cache of six pages |
| `Dictionary` | what a `BTree` promises: a map, and the answer of each call |
| `TreeNode` | `Leaf.h`, `InnerNode.h`: the pages of a tree, their splits and merges, their bytes |
| `SmallBufferStack` | `SmallBufferStack.h`: a stack whose first elements are in a buffer of its own |
| `SmallBufferStackProofs` | theorems about that stack |
| `BTree` | `BTree.cpp`, one step per call |
| `MCBTree` | thirteen keys, trees of one to three levels |
| `ByteString` | `ByteString.h`, `DirectoryKey` of `DirectoryStructure.h`: keys as bytes, their order, streams |
| `ByteStringProofs` | theorems about them |
| `TreeValue` | `TreeValue.h/.cpp`: values of the tree and their streams |
| `FileTree` | what a file system promises: entries under paths, handles, answers, commit and rollback |
| `FileSystem` | `FileSystem.cpp`, `Path.cpp`, `DirectoryStructure.cpp`, one step per call |
| `FileSystemHelper` | `FileSystemHelper.cpp`: copy and list, as sequences of those calls; `dir`, `sub_folder` and `importFiles` of `src/py_txfs/Bindings.cpp` |
| `FileSystemVisitor` | `FileSystemVisitor.h/.cpp`: walk, compare and copy of trees, and the sinks |
| `MCFileSystem` | three names and one that is too long, three paths |
| `ByteFile` | what a file promises: bytes, added at the end and read in pieces |
| `FileContents` | `FileWriter.h`, `FileReader.h` on pages and tables |
| `PageAllocator` | `PageAllocator.cpp` |
| `PageAllocatorProofs` | theorems about `PageAllocator` |
| `FileLockLinux`, `FileLockWindows` | the byte ranges of a file that a process locks, as each system has them |
| `PosixFile`, `WindowsFile`, `MemoryFile` | what the operations of these classes make of a file, call by call |
| `DiskFile` | file objects on one name: opened, moved, removed, locked, read, written; `TempFile`, `ReadOnlyFile`, `WrappedFile` |
| `MCDiskFile` | two or three file objects, files of two pages |
| `Blob` | `Blob.h`, `PushBits.h` of Rfx: a buffer that grows, values as bytes in it |
| `FixupTable` | `CompressedInteger.h`, `FixupTable.h` |
| `Stream` | `Stream.h`, `StreamRule.h`, `TypeUtils.h`: types, how their values are written and read |
| `MCStream` | two versions of types of each kind, within each other |

How they fit together: `LockProtocol` stands on `ReadWriteLock`, which `SharedLock` is shown to
implement, and `CommitProtocol` on the lock table that `LockProtocol` is shown to implement.
`FileSystem` stands on the map that `BTree` implements (`Dictionary`) and on files of one
block per page, which `FileContents` refines to bytes. `CacheManager`, `FreeStore` and
`CommitProtocol` show the same transaction at three distances: calls in the cache, lists of
free pages, contents of the file.

### LockProtocol

`pc[p]` is the point process `p` has reached in a call; `gate`, `shared` and `writer` are
the holders of the three locks, in shared (`s`) or exclusive (`x`) mode. A call is split
where it touches a lock: `ReadCall`, `ReadGate`, `ReadShared`, `ReadReturn` are the lines
of `readAccess`, the last one being the destructor of the `shared_lock` on the gate. The
`try` calls branch where the code does. `CommitRelease` is `CommitLock::release`;
`CommitDestroyShared` and `CommitDestroyWriter` are its destruction by an exception, in the
order C++ destroys the members. `Crash` is the operating system taking the locks from a
dead process. Each process makes one call at a time, as a FileSystem does.

`LockModes` is the table alone: each process has a mode and `Request` is allowed when the
table says so. `KeepsLockTable` maps a process to the strongest mode its primitive locks
give it.

### SharedLock

A step is one critical section of `m_mutex`, one `notify_all`, or the access to `m_shared`
that `unlock_shared` makes after it has given the mutex back (`SharedLock.h:128`). That access
is a data race: other threads may write `m_shared` at the same time. `seen[p]` holds the values
the access of thread `p` may return, which are what `p` itself wrote and all that was written
since. `wait` with its predicate is the pair `Lock`, `LockWait` (or `LockShared`,
`LockSharedWait`): a woken thread looks at the predicate again, and `WakeUp` wakes one for no
reason. `waiting` is the condition variable. `ImplementsReadWriteLock` maps the lock to the threads that are between
their lock and their unlock.

`DebugSharedLock` extends this by the class the tests use: a behaviour has a lock of one class or of the
other (`debug`). `queued` is `m_waiting`, `unlockRelease` is `m_unlockRelease`, and `asleep` has the threads
in the waits of `unlock` and `waitForWaiting`: all sleep on the one condition variable, and what notifies it does
so under the mutex, but for `unlockRelease` and `unlock_shared`. `test` is what a thread does beside: it waits for a count
of waiting threads, or releases those held up in `unlock`. The holder of the exclusive lock does neither, as in
the tests: it would wait for threads that wait for it.

### CommitProtocol

A step of this module is one operation on the file, since that is what another process or a
crash can come between; what only happens in the writer's memory belongs to the step it
precedes. The locks appear as the lock table has them: `LockX` and `LockCut` wait until no
reader is open, a reader is let in unless the writer is in the part of its program that
holds X (`HoldsX`), and there is one writer. `LockProtocol` justifies this.

| State | Code |
|---|---|
| `page`, `size` | the file |
| `disk` | which files a power failure may leave (see below) |
| `pc` | where the writer is: closed, in a transaction, at a step of commit, rollback or recovery |
| `class`, `data` | `m_pageCache` |
| `divert`, `newIds` | `m_divertedPageIds`, `m_newPageIds` |
| `free`, `left`, `freed` | the pages the FreeStore's tables list; `m_currentFileSize`, in pages; what was given back in this transaction |
| `todo`, `done`, `cut` | locals of `CommitHandler::commit`: the dirty pages in the order they were found, the loop's position, the size to cut to |
| `logs` | the log entries a recovery works through, in any order |
| `rst`, `rsize`, `rdivert` | a reader: opening or reading, the size it read, its diversions |
| `view` | history: what the writer put on each page in use |
| `base`, `target`, `past` | history: the databases before and after the commit under way, and all earlier ones |

A page holds a stamp of its last change instead of bytes. The root page also holds the
commit block and stands for the tree and the FreeStore: which pages are in use and which
are free. A page just allocated is `Blank`, without a valid checksum. A log page knows its
place, which is what its signature depends on.

*Transaction*: `Load`, `Modify`, `NewPage`, `FreePage`, and the three evictions `EvictRead`,
`EvictNew`, `EvictDirty`, which can happen at any time (in the code, when the cache is full;
which pages go depends on counters the properties do not). *Commit*: from `CommitBegin`
(`DirectoryStructure::commit` up to the call of `CommitHandler::commit`) over copies, flush,
log pages, flush, X lock, updates, new pages, flush, truncation, to `Release`. *Rollback*:
by the user (`Rollback`), for an exception (`ThrowBeforeLock`) or at the end of a recovery
(`OpenRollback`): all through `BeginRollback`. `ThrowUnderLock` is the exception that
destroys the CommitLock. *Open*: `OpenWriter` to `OpenRollback` is `initializeExisting`,
`OpenReader` and `VirtualRevert` are `initializeReadOnly`. `OpenNew` to `InitialCommit` is `initializeNew`:
two new pages and a commit without dirty pages, which takes X, writes them and has no log, no flush and nothing
to cut off. Meanwhile nobody can open the file, so `Shown` is still the empty one; a reader that comes between the
two pages and the commit finds no commit block and throws.

*The disk.* `disk` is only used when `fate.power` is TRUE. Since the last flush each page may
have any of the contents it had, independently of the others; a page is atomic
(`src/README.md:29`). Truncations take effect in their order: `disk` has one image per
truncation that is not flushed. While a truncation is not on the disk the pages it cut off
have their old contents, and the pages it kept may have been written since. A disk that
mixes even more is not considered, so the counterexample below does not depend on one.

*Fates.* What can go wrong in a behaviour is chosen at its start: `fate` is a member of the constant `Fates`
and says how many readers and commits there are, how many crashes, whether a crash is one of the process or of the machine,
whether file operations throw, and whether the file is empty at first.

*The FreeStore* is here a list in one table, `free`, and the count `left` that the code goes by
(`m_currentFileSize`): `AllocateFree` takes a page while the count is above zero, `AllocateGrown` grows the file
when it is not, and `AllocateNothing` is what is left when the count is too high: `popFront` of an empty sequence, where the
writer ends. The commit block (`RootPage`) has the count as its descriptor does.

*Rollback after a commit that threw.* `BeginRollback` takes the block the cache shows
(`DirectoryStructure.cpp:269`). After `ThrowBeforeLock` that is the failed commit's, which `CommitBegin` has put there: the file is
cut to its size, and its count goes into `left`, while `Reopen` reads the list and the tree from the file. The user
goes on with that FreeStore (the variant `FailedCommit` shows what comes of it), and commits it or rolls it back once more. The
block has two things more, which are left out: the highest folder number, of which some are then skipped, and the last table of the list, which
is always the first while the list has one table. With longer lists the next `close` chains files behind a table the file may not have.

*Exceptions.* A file operation that throws has no effect; it can throw at every step of a
commit, and under the X lock of a rollback. An exception in a transaction is a `Rollback`, one
while opening a file is a `Crash` of the opener.

`AtomicStore` has a database, a work copy and one snapshot per reader. `db` maps to
`Shown`, which is `Recovered(page, size)`: what opening the file *now* would show, whatever state a commit is
in. A commit takes effect in the one step that cuts the log off.

### FreeStore

`CommitProtocol` has the FreeStore as a list in one table; this module has the real one: lists of file
tables in the file. All of it is one thread, so a step is a call of one of its users, or one
round of a loop in which evictions may come between.

| State | Code |
|---|---|
| `store.table` | the `FileTable` on each page, if there is one |
| `store.fd`, `left` | `m_fileDescriptor`, `m_currentFileSize` (in pages) |
| `store.loaded`, `current` | `m_freeListHeadPage`, `m_current` |
| `store.deleted`, `freeMeta`, `stillInUse` | `m_filesToDelete`, `m_freeMetaDataPages`, `m_stillInUsePages` |
| `store.allocator` | `m_pageIntervalAllocator` of the cache: set, or reset when it had nothing |
| `store.size`, `fresh` | the size of the file; history: the pages this transaction writes without a log |
| `tree`, `treeFree`, `files`, `writer` | the pages of the BTree, `m_freePages`, the descriptors in the directory, a `FileWriter` |
| `diverted` | where `evictDirtyPages` put pages |
| `base` | history: the committed database, which rollback and recovery bring back |

`allocate` is `AllocatePages`, which every user of the allocator calls through
`Allocating`. `close` is `Close`, in the order of the code: `SettleCount`, and then `Finalize` with the
short files, the pages given back, the head if it was not loaded, the tables (`AllocateTable` finds a page for
each) and the long files. It happens in `CloseStore`, after which `Commit` is the `CommitHandler`. A list entry of more than
one page takes ten bytes of a table, one of a single page four, and `TableBytes` (4084 in the
code) says how many there are. `PopsEmpty` is the one thing the code does not survive; the
transaction then is `Undefined`, and ends in a `Rollback`: the opening of the file after the
process stopped. A commit that throws is `CommitProtocol`'s.

### CacheManager

`CommitProtocol` evicts pages when it likes, one at a time. This module says which pages go
and when: `stack` holds the calls under way, the innermost first, and a step is what happens up to
the next call. `trimCheck` is part of whatever puts a page in the cache (`Emplace`); when it trims,
a `"trim"` frame lies on the stack with the victims it chose, the class of each as it was then,
which is what the vector of `PrioritizedPage` holds. For each dirty one there is an `"allocate"`
frame on top of it, which runs `FreeStore::allocate` and may load tables: there `Emplace` is met
again. A page is found in the cache before the allocation (`EvictDirty`) and used after it
(`AllocatedForDirty`); if it is gone by then the transaction is `"undefined"`.

| State | Code |
|---|---|
| `class`, `divert`, `newIds` | `m_pageCache`, `m_divertedPageIds`, `m_newPageIds` |
| `store` | the FreeStore and its list: `head` and its `pages`, the `rest` of the tables, `m_current`, the count, `m_stillInUsePages` |
| `used`, `content`, `freed` | pages of tree and tables; of the contents of files; given back (`m_freePages`, `m_freeMetaDataPages`) |
| `pins` | buffers a user holds (`use_count` of the page above one) |
| `phase` | in a transaction, or while the FreeStore is being closed and the commit block stored, without an allocator |
| `modified`, `saved` | history: pages that were changed; ids that are in the file as last changed |

A transaction ends in a `Rollback`; what the commit does then is `CommitProtocol`.

### BTree

A step is a call: an insertion with its policy, a removal, a rename (`CallInsert`, `CallRemove`,
`CallRename`), each with all the splits, merges and redistributions it causes, or the scan of a
cursor. A tree is only touched by the writer, so nothing comes between.

| State | Code |
|---|---|
| `tree.node` | the pages of the tree: a `Leaf` with its items and links, an `InnerNode` with `leftMost` and its separators |
| `tree.freePages`, `size` | `m_freePages`; how many pages were allocated |
| `answer` | what the call returned |
| `contents`, `calls` | history: what the leaves hold together; a bound |

`TreeNode` counts the bytes of a node (`KeySize`, `ValueSize` of what it holds against `LeafBytes`,
`InnerBytes`), and from that come `hasSpace`, the place of a split and the choice between merging and
redistributing: keys and values of different sizes make the cases that keys of one size do
not. The order of the bytes in a page is left out. `InsertNewKey`, `Propagate`, `GrowTree` are the way up
of an insertion; removal pops the stack of inner nodes that `FindLeaf` filled, as `BTree::remove` does. That stack is a
`SmallBufferStack` with room for one node (`StackBuffer`, five in the code), so that trees of two levels leave it in its
buffer and higher ones take it to the vector. What its operations do is proved, see section 4; copying one (`SmallBufferStack.h:25-57`) is
left out, as the program never does.

Pages the tree gives up are not used again in the same transaction, as in the code. `Kept` is the
key of the commit block: nobody removes it, so the tree never gets empty. A rename hands a view of the old leaf to the insertion
(`BTree.cpp:257`). When that splits this leaf (`SplitsItsLeaf`), `Leaf::split` has rewritten its bytes by the time it copies the
value, and `ValuesRead` is any value of that length. Which bytes these are depends on their order in the page, which is left out.

`Dictionary` is the promise: a map, and the answer each call gives about it. The tree keeps it but for `RenameLosesValue`.

### FileSystem

The writer's calls on paths. `FileSystem` has `FileSystem.cpp`, `Path.cpp` and
`DirectoryStructure.cpp`; `FileSystemHelper` and `FileSystemVisitor` build the copies, walks and
comparisons out of those calls, `FileSystemVisitor` has the specification.

| State | Code |
|---|---|
| `fs.dir` | `m_btree`: the bytes of a `DirectoryKey` to the stream of a `TreeValue`: a folder id, a file descriptor or an attribute |
| `fs.maxFolderId` | `m_maxFolderId` |
| `fs.filesToDelete`, `free`, `size` | `m_filesToDelete` and the list of the FreeStore, the size of the file |
| `fs.table`, `page` | the tables of files, the blocks on their pages |
| `saved` | `fs` as of the last commit, which a rollback brings back |
| `openWriters`, `openReaders`, `nextHandle` | `m_openWriters`, `m_openReaders`, `m_nextHandle` |
| `answer`, `view`, `calls` | what the call returned; history: what there is to see; a bound |

The map is the one `BTree` is shown to be, with renames that keep their value and cursors that find every entry
(which the variant `BTreeRename` and the run `b_tree_scan` show `BTree` does not always give). A file is one table with whole pages of one block each: what
tables and offsets do is `FileContents`.

A name is a string of bytes (`NameBytes`), and a key has the bytes of its folder before it, the lowest first, as in the file.
A path is the sequence of its names; how a path string is cut at its slashes is left out, but
for what follows from it: an empty name at the head of a path stays in the root (`Plain`), and `RootPath`
is the path of one empty name. Keys and values have a longest length, and what is longer throws
where it is put into a stream: in a call that changes something all of the transaction is
then rolled back and every file closed (`Throw`); a call that only looks throws and leaves everything as it is; `CreatePath` throws
and keeps the folders it has made. Values are compared as `TreeValue` does, for which `Unknown` is not equal
to itself.

`Create` and `Normalize` are the two ways a path is walked: the first makes the folders that are missing,
also for a call that then refuses; `CreatePath` and `ReducePath` are these walks alone. `CloseAllFiles` comes first in `Commit`
and in `Rollback`. A descriptor is put back into the directory by `UpdateFile` when its writer is closed, which is where
a file that was removed or renamed in the meantime matters. `BoundCalls` are the calls the Python class has;
`Step` adds the others, and `Tools` what the helpers, the visitors and the Python functions `dir`, `sub_folder` and
`importFiles` make of them. `view` is computed anew when the file system, the committed one or the open files change.

`FileTree` is the promise: entries under paths, no ids, no bytes, no pages. It is kept under conditions that
the guards of the model state and the code does not check:

- `OneUser`: nobody removes, renames, replaces or appends to a path that is open for writing, or renames
  a folder into itself (variant `FileHandles` below).
- `Apart`: `copy` does not copy a folder into itself, which would not end, nor makes folders
  above its destination, as its cursor to the source would then show another entry (`FileSystemHelper.cpp:176`).
- `ToRoot`: nothing but a folder is copied to the root, where it would get the empty name. `copy` of
  the root itself is left out: the helper takes the parent of the destination for the destination
  and copies the root onto itself (`FileSystemHelper.cpp:163`).
- `Copyable`: a copy by visitors meets no entry of another kind where it has a folder, which leaves it
  with an empty stack, and does not write onto files it has still to read.
- `Importable`: `importFiles` takes the handle it gets without asking whether there is one. It makes no folder for a directory that is
  empty: `createPath` makes those above the last name.

The buffered sinks keep up to `SinkEntries` entries and then go to a temporary file, in which an entry is
the stream of its key and that of its value, each behind its length. It comes back through a buffer of `BufferBytes`, which is
filled up when less than the longest entry (`LongestEntry`) is left in it, wherever that cuts the next one. A
walk keeps its cursors, and a copy or comparison its pairs of folders, on a `SmallBufferStack` (`VisitStack`). The
readers a comparison leaves open stay open, as in the code (`left`).

### FileContents

One file: a `FileWriter`, a `FileReader`, and what they do to pages and tables.

| State | Code |
|---|---|
| `tx` | the transaction: the file's tables, free pages, size of the file, the descriptor in the directory, descriptors of deleted files |
| `saved` | `tx` as of the last commit |
| `byte` | the bytes on each page |
| `writer` | `m_fileDescriptor`, `m_pageSequence`, `m_currentFileTable` of a FileWriter |
| `reader` | position, size, intervals still to be read, the next table of a FileReader |
| `answer`, `view`, `calls` | what was read; history: the file as bytes, now and as committed; a bound |

A page has `PageSize` bytes. `Write` has the three parts of `FileWriter::writeIterator`: up to the end of the
last page, whole pages by runs, the rest on a new page. Intervals go to tables when there
are more than `HighWaterMark`, and a table takes `TableBytes`, so a file of a few pages
has several tables, and appending opens the last one again. `Read` is the mirror image. `ByteFile` is the promise: bytes come back in the order they
went in, a reader keeps what it opened, a rollback brings the old file back.

While a file is written its last table may already list more than its descriptor in the directory
says: `FileWriter` pushes tables before it is closed, and the size in the descriptor decides.

### PageAllocator

`block` and `pos` are the block pages are carved from and how far, `freePages` the list, `count` is
`m_blocksAllocated`. A block is freed by the last reference to it: `Alive` is what the current
block, the pages in use (`pages`) and the list refer to. `First`, `Reuse` and `Bump` are the branches of
`allocate`, `Release` is the deleter of a page, and `Trim` returns the blocks of which all pages are in the list.
`BumpThrows` is an `AllocBlock` that finds no memory; it only belongs to `SpecOutOfMemory`.

### DiskFile

| Variable | In the code |
|---|---|
| `setting` | the platform, and what each user may do (a bound) |
| `path`, `data` | which file has the name, what each file contains: the operating system's |
| `open` | the open files, by handle; the system reuses the lowest |
| `obj` | a file object: `m_file` or `m_handle`, the handle in `m_lockProtocol`, `m_readOnly`, `m_path` of a `TempFile` |
| `locks` | the byte ranges locked, behind `MaxFileSize` (`FileLockPosition.h`) |
| `pc` | where an object's user is in a call of `LockProtocol`, as there |
| `call` | a call of the file that takes several system calls, and how far it is |
| `stable`, `writes` | history: each file as it was when X was last given up; a bound |

A step is one system call. `readPages` and `writePages` go block by block, `newInterval` asks for the
size and sets it, a constructor with `CreateAlways` opens, takes W and X, truncates and gives them back.
`PosixFile` and `WindowsFile` say what each call makes of a file, `DiskFile` is who makes them when.
The steps of `LockProtocol` are taken on byte ranges: `LockSteps` is the table of them,
`ImplementsLockProtocol` the proof that it and the ranges are right. Users keep to the lock table, as `CommitHandler` does: the code has no other
protection (`FileInterface.h:27`).

A process that dies (`Die`) loses its handles and with them its locks; the file stays, also a temporary
one. So it does when `remove` throws in the destructor of a `TempFile`, which Windows makes it do while
another object has the file open. A `MemoryFile` lives as long as the process whose threads share it. Its vector is
only safe to grow under readers within the 1024 pages reserved; the model has no such limit. Its new pages
have any contents, those of files are zero.

Left out: short writes (`PosixFile.cpp:209` ignores the count, and `write` then goes on at the wrong place), files that
do not end with a page, two calls at once through one object, `flushFile`, which changes nothing processes
can see (`CommitProtocol` has what it is for).

### Stream

Rfx is a library beside the file system. A type is a record of its `kind` and what it is made of, a value a number,
a tuple or a set; the overloads and concepts that choose a `StreamRule` are the predicates at the beginning of the module.

| State | Code |
|---|---|
| `out` | a `StreamOut`: `m_blob` with `m_size`, `m_capacity` and storage, `m_fixups` with `m_sizeInBytes` |
| `archive` | the `Blob` its result is assigned to, which keeps its storage |
| `in` | a `StreamIn`: `m_begin`, `m_end`, `m_fixups`, `m_currentFixup`; what a call ended in |
| `sent`, `got`, `phase`, `values` | history: what was written, what was read over which old value; a bound |

A step writes or reads one value, with all that is nested in it. `WriteVersioned` reserves an entry of the table,
fills it with the length and writes the number of entries that came with the value; `ReadVersioned` narrows the stream to that
length, reads what this version knows, and skips the rest of both. `Exchange` says which types a program
reads for which. Old values matter: what was not written keeps them. A byte is a part of a value or a digit of
an integer, so a reader that is off by a byte gets something else than a value (`Garbage`).

Left out: an array of plain numbers read into one of another length, which has no lengths to go by and throws; the
value an `optional` is read into, which the code does not initialize (`StreamRule.h:185`) and the model takes as the default; comparisons of
blobs; blobs that were moved from.

## 3. Runs

Passing runs. All of them check for deadlock: there is always something to do.

| Run | Instance | Shows |
|---|---|---|
| `lock_protocol` | 3 processes | `IInv`, `CommitExclusion`, `NoOvertaking`, `KeepsLockTable`, `CommitGranted`, `ReadGranted` |
| `shared_lock` | 4 threads, or 3 with a `DebugSharedLock` | `IInv`, `NobodyForgotten`, `ImplementsReadWriteLock` |
| `commit` | no reader, 2 commits and 1 crash; 1 reader, 2 commits and exceptions; 1 reader, 1 commit, 2 crashes and exceptions; no reader, 1 commit, 2 crashes or power failures; an empty file, 1 reader, 1 commit, 1 crash | `PagesAccounted`, `SizeAsCommitted`, `ReadYourWrites`, `Atomicity`, `ImplementsAtomicStore` |
| `cache_trim` | a cache of 6 pages, 2 changes from a transaction that has 4 dirty pages, or 1 | `DirtyKept`, `HeldIsCached`, `DivertedOnce`, `FreePagesUnused`, `CacheBounded` |
| `free_store` | 2 commits, 3 changes each | `PagesPartitioned`, `DivertedIntact`, `GrowsLast` |
| `b_tree` | 13 keys, 3 calls from trees of one, two and three levels | `FoundWhereKept`, `WellFormed`, `NodesAccounted`, `ImplementsDictionary` |
| `file_system` | 3 names, 3 paths and the root, 4 calls, 3 handles | `OwnedOnce`, `ImplementsFileTree` |
| `file_contents` | pages of 2 bytes, 8 calls that write 1, 2 or 5 bytes and read 1, 3 or 4 | `PagesListed`, `ImplementsByteFile` |
| `page_allocator` | 4 blocks of 3 pages, no bound on the calls | `PagesKept`, `BlocksCounted`, `TrimReturnsBlocks` |
| `disk_file` | 2 objects that open, move and remove; 2 that read, write and create; 3 that lock; on each platform | `ReadsCommitted`, `GrowsAlone`, `TempOwned`, `ImplementsLockProtocol` |
| `streams` | 16 types, of which each may be read as another version, 3 values | `VersionsExchange`, `TableFits` |

Where a module has a type invariant that is not named here it is the first conjunct of another one:
of `PagesAccounted` in `CommitProtocol`, of `PagesPartitioned`, `WellFormed`, `OwnedOnce`, `PagesListed`, `DirtyKept` and `ReadsCommitted`.

Three processes are enough to have two readers overlap beside a committer, or a second writer
wait behind a reader and a committer. Four threads let two share a `SharedLock`, one of which reads the
counter late, while one of each kind waits. In `commit` the file starts with the root, one
page in use and one free page and may grow by one page in a transaction (`MaxGrown`), so
that allocation meets the FreeStore with and without pages. Two changes of pages (`MaxEdits`)
allow a page to be evicted, loaded, changed and evicted again. A commit then has up to three
dirty pages, and since a log page takes one entry (`MaxEntries`) up to three log pages.
`MaxPages` is large enough never to stop a step. Two commits let the second
transaction use what the first one freed, and go on after a first one that threw; two crashes let the recovery be interrupted. An exception
under X leaves what a crash there leaves, so the second transaction beside a reader has exceptions only. After
the last commit the writer changes nothing more. A new file is initialized by one process that
lives to its commit, before the others look at its size; `MCOrphaned` and `MCRaced` are the other cases.

In `free_store` a table has ten bytes: two single pages or one run, so that three free pages make a list
of tables and `close` has to find pages for them. The file starts with a tree of four pages and two files
over six pages that are not adjacent, one with a list of two tables (chained as it is) and one
with a single table (merged). Three changes (`MaxEdits`) are enough to delete both and divert a page,
or to write a file of up to three pages (`MaxContent`) into what was freed. `MaxSize` is
sixteen pages; no step that would need more is looked at.

In `cache_trim` six pages are the limit, of which a trim keeps three, so up to two pages go at once.
One instance begins with four dirty pages, the FreeStore's table loaded: one more change and
the cache evicts dirty pages, a second one changes an evicted page after it came back. The other
begins with a FreeStore that was not asked yet. With two changes (`maxChanges`) and one
dirty page, three dirty pages at most, all of which a trim keeps: the case in which an
eviction has tables loaded is the variant `TrimReentered` below. `MaxPinned` is one page besides the one a call
returns; `MaxSize` never stops a step.

In `b_tree` a leaf takes four short values or three long ones and an inner node five separators.
The trees are an almost empty one and two that were filled upwards and downwards until they have two
and three levels, with nodes that one more key splits and one less merges. Three calls
(`MaxCalls`) on any of the thirteen keys then split, merge, redistribute and shrink at
each level, and undo what a call before them did. They insert two values of different length (`Written`); a third,
as long as one of them, is what a rename may come upon. `MaxDepth` is one level more than any tree gets.

In `file_system` the paths are `/1`, `/2` and `/1/2`, the first with an empty name before it: a folder, an entry beside
it and one in it, each of which can be a file, a folder or an attribute. The name 2 begins with the byte
that is all of the name 1, so the order of the keys is tried where it is not the order of lengths. A byte has four values (`ByteValues`), a folder number three bytes
(`FolderBytes`) and a string six at most (`MaxSize`): of the names one is too long, at the end of a path and in
the middle of one (`LongPaths`), and of the attributes one. The run starts with an empty file system or with two committed files and free
pages. Four calls (`MaxCalls`) are enough to open, write, commit, change what is open, and take it
back, and for a call that is refused or throws after three that matter to it; three handles (`MaxHandles`) for two open files and
a copy. A stack of one (`VisitStack`), sinks of two entries (`SinkEntries`) and a buffer of sixteen
bytes (`BufferBytes`), of which an entry takes up to fourteen (`LongestEntry`), make a walk of three entries leave each of them; a copied folder is
read by one entry at a time (`MaxEntries`). Entries moved by renames and copies come down to five
names; `MaxDepth` stops what would be deeper. `MCView` leaves out the answer of the last call, which no
step reads; the properties see it, as TLC checks them on every step it takes.

In `shared_lock` two threads that wait are enough for both counts (`Awaited`) to be passed and missed beside a third
that waits for them.

In `file_contents` a call of five bytes fills the last page, writes whole pages and begins another; two
intervals (`HighWaterMark`) are pushed to tables of ten bytes, which two single pages or one run fill, so that the
second write already begins a second table. The free pages are none, or single ones and a run of
two. Eight calls write, append, replace, read in the middle, commit and roll back.

In `page_allocator` trim meets a current block, one that a page in use keeps, and two that go.

In `disk_file` files have two pages of two cells, and a block is one page, so that a call on two pages takes two system
calls between which others read, write, grow and truncate. One write (`writes`) in a behaviour is enough to
tell old from new. Two inodes let a name be removed and taken by another file while the first is still open, and
handles be reused. Whoever opens and moves does not lock, and who locks alone writes nothing: the settings (`Settings`) keep
these apart, which interact only through `CreateAlways` and the end of a process. `MCView` forgets what files contained that are gone.

In `streams` a byte of an integer counts to four (`More`) and the buffer starts with four bytes (`MinCapacity`), so
lengths take one to three bytes and the buffer grows. `LongestInteger` is one byte more than any
takes. Three values (`MaxValues`) make one stream or several, the later ones over a used blob.

*Fairness.* Only `lock_protocol` and `shared_lock` have liveness properties. `Fairness` is weak fairness of
taking a lock that stays free, of the steps nothing can hold up, and of giving a lock up that
one is done with. In `SharedLock` each thread that can take a step of its call takes one, and gives the
lock up at some time; `NobodyForgotten` then says that nobody sleeps on for ever while the lock stays
free, nor in `unlock` once it may return. `EitherSpec` asks the same of both classes. It does not say that everybody gets the lock: threads that keep sharing it keep `lock`
out. The same is true one level up: readers hold the gate in shared mode while they pass through it, so
readers that overlap for ever keep a committer from it, whatever the fairness of a single lock.
`CommitGranted` and `NoOvertaking` hold from the gate on. The first is what every mutex and `fcntl` give; the second is the scheduler;
the third is the assumption that readers close and commits end. Nobody is obliged to make a call.

One run ends in a violation, a place where the code does not do what the repository says of it (see
`findings` in `PROJECT.json`):

| Run | Property | What happens |
|---|---|---|
| `b_tree_scan` | `ScanComplete` | A cursor from `begin(k)` misses keys. `begin` looks for a lower bound in the leaf of `k` only and reports the end when that has just smaller keys, although the next leaf goes on (`BTree.cpp:285`): a folder whose first entry begins a leaf lists as empty. One removal leads there. A longer way to the same is the leaf that follows a split and keeps its `prev` (`BTree.cpp:72`): when a leaf is removed later, that link leads to the wrong neighbour, which gets a `next` that jumps over leaves. Lookups go down from the root and find everything. |

These are the deviations modelling met besides. Each is a variant of a run, to be made by hand: a copy of the
run's cfg with the changes of the second column, and the property as the only one. In the passing
runs a parameter or a bound keeps them out, and what is said there holds only without them. `FailedCommit` and
`BTreeRename` alone happen in the passing runs too: what these check holds with them, and `ImplementsDictionary` names the one exception.

| Variant | The cfg, with | Property | What happens |
|---|---|---|---|
| `PowerTwice` | `Commit.cfg`, `Fates <- MCPowerTwice` | `NotCrippled` | The truncation that ends a commit is not flushed. The next transaction evicts a page into space the commit freed. The machine dies with the page written and the truncation not: the log is back, the recovery restores the old root, and that lists the overwritten page. |
| `ThrowUnlocked` | `Commit.cfg`, `SPECIFICATION UnlockedSpec`, `Fates <- MCThrow` | `NotCrippled` | A commit throws under the X lock. Both locks are given up, the failing rollback is swallowed and the FileSystem can be used on. The next page it appends comes behind the log, where the recovery does not look. |
| `FailedCommit` | `Commit.cfg`, `Fates <- MCFailedCommit` | `NeverAllocatesNothing` | After a commit that threw before the X lock, the FreeStore counts the pages that commit was to free, which its list does not have (`DirectoryStructure.cpp:269`). The transaction that follows allocates what there is, the count is still not zero, and `popFront` meets an empty sequence (`IntervalSequence.h:71`). One page freed, a commit that throws and two allocations lead there. A failed commit that only allocated leaves the count too low instead, and the file grows although pages are free. |
| `NewFileDies` | `Commit.cfg`, `Fates <- MCOrphaned` | `Atomicity` | The process that makes a new file dies before its commit has written the pages. The file is not empty any more, so `Composite::open` takes it for an existing one, finds no commit block and throws, now and always. |
| `NewFileRaced` | `Commit.cfg`, `Fates <- MCRaced` | `SizeAsCommitted` | A process has seen an empty file (`Composite.h:20`), waits for W while another initializes it, and then initializes it too, behind the pages of the first. The debug build asserts (`Composite.cpp:16`); the release build has its root on a page nobody will look at, and what it commits is lost. |
| `DivertedLate` | `CacheTrim.cfg` | `DivertedGivenBack` | The commit gives back the pages others were diverted to and then closes the FreeStore and stores the commit block, which load and change pages (`DirectoryStructure.cpp:247`). A page diverted now is in no list: after the commit it belongs to nobody. |
| `TrimReentered` | `CacheTrim.cfg`, `Starts <- MCFullCache` | `EvictedIsCached` | The cache is full of dirty pages, and the first eviction asks the FreeStore for a page. That loads a table; the cache is over its limit and trims, evicting the same pages with allocations of its own. Back in the outer eviction the page is gone. The table's intervals are in `m_current` twice, so a page would also be handed out twice. |
| `FreeStoreCount` | `FreeStore.cfg` | `NeverPopsEmpty` | `close` stores a long free list in free pages of that list, but adds all of them to the size (`FreeStore.h:225`). A later transaction allocates all there is, the size is still not zero and `popFront` meets an empty sequence. With real tables this takes about a thousand free runs. |
| `FreeStoreCrash` | `FreeStore.cfg` | `OldDataIntact` | The first pages of the list may be content of a file deleted in this transaction. As pages of class New the commit writes tables over them without a log; if it dies then, the old database is back with a file that shows a table. With real tables this takes about four hundred deleted files of one page. |
| `BTreeRename` | `BTree.cfg` | `RenameKeepsValue` | A rename whose insert splits the leaf it takes its value from puts other bytes under the new key (`BTree.cpp:257`), where `src/TestDriver/TestBTree.cpp:439` expects the old value: a file or folder that was renamed may have the descriptor of another one. |
| `BTreeMerge` | `BTree.cfg`, `InnerBytes = 47` | `WellFormed` | Two inner nodes are merged into one that does not fit in its page: `canMergeWith` is off by one (`InnerNode.h:269`), which shows when a node has 47 bytes. |
| `FileHandles` | `FileSystem.cfg`, `OneUser = FALSE` | `OwnedOnce` | A file open for appending is replaced or removed: its pages are deleted then and again when the writer closes. With two writers on a path the pages of one belong to nobody. |
| `PosixAssign` | `DiskFile.cfg`, `SPECIFICATION AssignSpec`, `Settings <- MCAssign` | `ImplementsLockProtocol` | `PosixFile::operator=` takes over the file but not its locks (`PosixFile.cpp:100`): `m_lockProtocol` still has the handle that was closed before. It locks nothing, or the file that gets the handle next. |
| `StreamReused` | `Stream.cfg`, `ReuseStreams = TRUE` | `VersionsExchange` | `swapBlob` hands the blob out and leaves the table (`Stream.h:63`): what the same `StreamOut` writes next has the lengths of the first blob before its own, and cannot be read. |
| `PageOutOfMemory` | `PageAllocator.cfg`, `SPECIFICATION SpecOutOfMemory` | `InsideBlocks` | `allocBlock` throws when the position already is at the end of the block; the next page handed out lies behind it (`PageAllocator.cpp:36`). |

A commit that throws before the X lock is rolled back to the size of the failed commit too
(`DirectoryStructure.cpp:269`): the file keeps pages nobody
owns. For this reason `SizeAsCommitted`, and that no page is lost in `PagesAccounted`, say nothing of a behaviour whose `fate` has exceptions
(that no page in use can be handed out, what the writer and the readers see and what the file shows is checked in those too, through
a second transaction on what such a rollback left), and
the fate with power failures has one transaction only (the variant `PowerTwice` has two); in `commit` nobody writes through a FileSystem that lost its
lock (`UnlockedSpec`, in the variant `ThrowUnlocked`, has the step more that shows what else can happen).

The properties:

- `IInv`: in `LockProtocol`, each lock is held by the processes at certain points of their
  calls and no others; in `SharedLock`, the flag and the counter say who holds the lock
  (`Counted`), and a thread that sleeps while it could have the lock is about to be notified
  (`NoLostWakeUp`).
- `NobodyForgotten`: see *Fairness*; and `m_waiting` is the number of threads that wait for the lock, of which nobody sleeps through
  the count it waits for (`CountTold`).
- `ReadYourWrites`: the writer finds on every page what it last put there.
- `Atomicity`: opening the file at any moment would show `base` or `target`.
- `NotCrippled`: it would show the database of some commit. Weaker than `Atomicity`, and
  what `src/README.md:11` promises.
- `PagesAccounted`: no page of the committed file is both used and free; each is one of them, and the
  FreeStore counts the free ones right, unless a commit threw.
- `NodesAccounted`: each page ever allocated is a node of the tree or was given up, once.
- `SizeAsCommitted`: a commit, rollback or recovery leaves a file of the size its commit
  block gives.
- `DirtyKept`: a page that was changed is in the cache with a class that says so, or in the file
  where it is looked for.
- `HeldIsCached`: the cache keeps a page that a user, a call under way or the FreeStore holds.
- `DivertedOnce`: no two pages are diverted to one, and none is diverted twice.
- `FreePagesUnused`: what is still to be handed out is free, not cached, and listed once.
- `CacheBounded`: a call that puts a page in leaves the cache within its limit, held pages apart.
- `PagesPartitioned`: each page of the file is in the tree, in a file, diverted to, given back, or in
  the free list, in one of them and once.
- `DivertedIntact`: no table of the new free list lies on a page that the commit still copies from.
- `GrowsLast`: the file grows in a transaction only when the free list is empty.
- `FoundWhereKept`: the way down from the root leads to the leaf that keeps the key.
- `WellFormed`: nodes fit in their pages, none but the root is empty or has a single separator, and
  all leaves are on one level.
- `ScanComplete`: a cursor that starts at a key passes all keys from there on.
- `ImplementsDictionary`: the tree is the map its calls make of it, and answers accordingly, but for the value of
  a rename that splits the leaf the value lies in.
- `RenameKeepsValue`: an entry that is renamed has the value it had.
- `NeverAllocatesNothing`, `NeverPopsEmpty`: an allocation finds a page in the list when the count says there is one.
- `OwnedOnce`: each page of the file belongs to one file, or to one being written, or to one being
  deleted, or is free.
- `ImplementsFileTree`: what is under each path, and each answer, is what the calls before make of it;
  a rollback brings back what was committed; an open reader sees no change.
- `PagesListed`: a file's tables list as many pages as its size calls for, and no page has two users.
- `ImplementsByteFile`: what is read is what was written, in whatever pieces.
- `PagesKept`, `BlocksCounted`, `TrimReturnsBlocks`: no page of the allocator is lost or in two
  hands; `m_blocksAllocated` is the number of blocks that live; a trim leaves no block that only
  the list keeps.
- `ReadsCommitted`: a reader gets every cell it asks for as it was committed, however many system calls that takes.
- `GrowsAlone`: an interval that `newInterval` returns is new, and nobody else's.
- `TempOwned`: a temporary file exists while an object owns its path, and no longer, unless the process dies.
- `ImplementsLockProtocol`: three byte ranges of each file behave as the locks of `LockProtocol`.
- `VersionsExchange`: what is read is what was written, as far as both versions have it; nothing throws, and
  reading ends where writing did.
- `TableFits`: the table of fixups takes the bytes counted for it while the values were written.
- `OldDataIntact`, `InsideBlocks`, `DivertedGivenBack`: see above.
- `ImplementsAtomicStore`: the above for readers too: what an open reader sees never changes.

## 4. Proofs

`LockProtocolProofs` proves for every set of processes:

| Theorem | States |
|---|---|
| `LocksNotLeaked` | `Spec => []IInv` |
| `CommitExcludesAll` | `Spec => []CommitExclusion` |
| `GateStopsReaders` | `Spec => NoOvertaking` |
| `ImplementsLockTable` | `Spec => KeepsLockTable` |

No assumption on `Procs` is needed. `CommitExclusion` is not inductive: that a committer is alone in
`m_shared` follows from who is where in its call. The invariant `IInv` therefore says of each lock that
its holders are exactly the processes at certain points of their calls (`NoLeakedLock`) and that
each lock is held shared or by one process (`ExclusiveOrShared`). The proof that a
step keeps it (`StepInv`) goes action by action; `Moves` is the one fact that all of them need,
how a move of one process changes the set of processes at certain points. The refinement is
proved step by step too (`StepModes`): each action leaves the modes alone, or is a request the
table allows, or a release.

`SharedLockProofs` proves for every finite set of threads:

| Theorem | States |
|---|---|
| `SharedLockSound` | `Spec => []IInv` |
| `IsReadWriteLock` | `Spec => ImplementsReadWriteLock` |

`NoLostWakeUp` is inductive together with the types because it tells the two kinds of sleepers
apart. One in `lock_shared` only went to sleep under an exclusive holder, so the `unlock` that
ended that is still on its way to `notify_all`. One in `lock` may owe its wake-up to an
`unlock_shared` whose late look at the counter is certain to find 0 (`seen[q] = {0}`): when
somebody shares the lock meanwhile, the look may fail, but then the lock is not free either, and
the last `unlock_shared` after that is a new promise. `Holding` says for every action what it does
to the lock, and both `Counted` and the refinement use only that.

`PageAllocatorProofs` proves for every finite set of blocks and every size of a block:

| Theorem | States |
|---|---|
| `NoPageLost` | `Spec => []PagesKept` |
| `CountCorrect` | `Spec => []BlocksCounted` |
| `TrimComplete` | `Spec => TrimReturnsBlocks` |
| `TypeCorrect` | `Spec => []TypeOK` |

The assumption is `MemoryOK`: addresses are finitely many, and a block has at least two pages (the code has
sixteen). The three invariants are inductive together: that the count stays right when `trim` lets
blocks go needs that they really die, that is that no page of them is in use and none of them is
the current block (`LetGo`). The first holds because all their pages are in the list and
no page is in list and use (`PagesKept`), the second because of the current block at most `pos` pages, fewer than
all, were ever carved.

`SmallBufferStackProofs` proves for every size of the buffer and every set of elements:

| Theorem | States |
|---|---|
| `PushAppends` | `push` appends to what is on the stack |
| `PopTakesTop` | `top` is the last of it, `pop` leaves the others |

What is on the stack (`Contents`) is the same sequence whether it is in the buffer or in the vector. The
lemma that counts is `SwitchKeeps`: after `switchToVectorOnOverflow` there is room for one more, so that
`emplace_back` stays inside the buffer, and nothing of what was on the stack has changed.

`ByteStringProofs` proves for every number of values of a byte, every width of a folder number and strings of every length:

| Theorem | States |
|---|---|
| `KeysOrdered` | the order of the keys is a strict total order |
| `NamesOrdered` | in a folder the keys are ordered as the names are |
| `FolderContiguous` | what lies between two keys of a folder is a key of that folder |
| `StringReadBack` | a string that was put into a buffer behind its length is read back from there |

The assumption is `ByteStringOK`: a byte has at least one value and the powers of their number are positive numbers. The first is what
`BTree` takes for granted of its keys, the second and third what a cursor of `DirectoryStructure` relies on, which goes on until
it meets a key of another folder. Totality comes from the first place at which two strings differ
(a least element of a set of numbers), transitivity from comparing the two places.

Only model-checked: the liveness properties (fairness and ENABLED are out of the prover's
reach), and so far everything about `CommitProtocol`, `CacheManager`, `FreeStore`, `BTree`,
`FileSystem`, `FileContents`, `DiskFile` and `Stream`. What `BTree`, `FileSystem`, `FileContents` and `Stream` compute, they
compute by folds over sequences of any length or by recursion, and induction over data is not
available to the provers here.

## 5. Not modelled, and the plan

Still to be modelled:

- The short write: `PosixFile` does not go on after a `write` that wrote less.
- A FreeStore of several tables that is opened again on the descriptor of a commit that threw.
- The growth of the file between the closing of the FreeStore and `getCompositeSize` in `DirectoryStructure::commit`.

Theorems planned: `CommitProtocol`'s types and, without power failures, `Atomicity` and the
refinement of `AtomicStore` (the inductive invariant says for every `pc` which pages of the
log are complete and which originals are already overwritten); `FreeStore` keeps free and used
pages apart; the types of `FileContents`.

Left out for good: the byte layout of pages, the cutting of path strings, checksums and hashes; what the Python
binding prints and how its objects are kept alive (`src/py_txfs/Bindings.cpp:47` prints the minor version twice); moving and copying a
`SmallBufferStack`, which the program does not do and which would not compile or start from an uninitialized end; `TreeVisitor` in
`FileSystemHelper.cpp:123`, which nothing uses; the sandboxes and the test drivers.
