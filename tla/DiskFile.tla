--------------------------------- MODULE DiskFile ---------------------------------
(*********************************************************************************)
(* The FileInterface of CompoundFs on the three platforms: PosixFile over           *)
(* FileLockLinux, WindowsFile over FileLockWindows, MemoryFile behind WrappedFile;  *)
(* with ReadOnlyFile and TempFile on top, and LockProtocol over byte ranges.        *)
(*                                                                                  *)
(* Each file object is used by a process (a thread, on a MemoryFile) of its own.    *)
(* A step is one call of the operating system.  The users keep to the lock table:   *)
(* with R they read what was committed, with W they add pages and write to those,   *)
(* with X they write anywhere and truncate.                                         *)
(*********************************************************************************)
EXTENDS Integers, Sequences, FiniteSets, FiniteSetsExt

CONSTANTS
  Objects,              \* the file objects
  PageSize, BlockSize,  \* cells of a page, and of a block of a read or write
  MaxOffset,            \* the last position a lock can have
  MaxPages,             \* bound: pages of a file
  Inodes,               \* bound: files that can exist at once, by name or as open
  Settings              \* bound: the platforms, users, sizes and writes to look at

ASSUME FilesOK ==
  /\ {PageSize, BlockSize, MaxOffset, MaxPages} \subseteq Nat
  /\ PageSize > 0 /\ BlockSize > 0
  /\ Inodes \subseteq Nat \ {0} /\ IsFiniteSet(Inodes) /\ IsFiniteSet(Objects)
  /\ \A s \in Settings :
       /\ s.platform \in {"posix", "windows", "memory"} /\ s.tries \in BOOLEAN
       /\ s.pages \in 0..MaxPages /\ s.writes \in Nat
       /\ s.modes \in [Objects -> SUBSET {"CreateNew", "CreateAlways", "Open", "OpenExisting",
                                         "ReadOnly", "temp", "lock"}]

VARIABLES
  setting,              \* the platform, how each user opens files and whether he takes locks and
                        \* tries to, how long files get, how many writes there are
  path,                 \* the file that has the name, 0 if none has
  data,                 \* the cells of each file
  open,                 \* the file of each handle, 0 if the handle is not in use
  obj,                  \* the file objects
  locks,                \* the byte ranges locked (see FileLockLinux)
  pc,                   \* how far each process is in LockProtocol's calls
  call,                 \* what else it is doing
  stable,               \* history: the cells of each file when X was last given up
  writes                \* history: how many writes there were

vars == <<setting, path, data, open, obj, locks, pc, call, stable, writes>>

platform == setting.platform

Posix == INSTANCE PosixFile
Windows == INSTANCE WindowsFile
Memory == INSTANCE MemoryFile
LinuxLock == INSTANCE FileLockLinux
WindowsLock == INSTANCE FileLockWindows

Handles == 1..Cardinality(Objects)

-----------------------------------------------------------------------------------
(* The byte each lock is on: behind any page a file can have.                        *)
GateBegin == MaxOffset - 3
SharedBegin == GateBegin + 1
WriteBegin == SharedBegin + 1

(* Mutant of LockRange: the ranges overlap. *)
LockRangeOverlapping ==
  [gate |-> <<GateBegin, GateBegin + 1>>, shared |-> <<SharedBegin, SharedBegin + 2>>,
   writer |-> <<WriteBegin, WriteBegin + 1>>]

LockRange ==
  [gate |-> <<GateBegin, GateBegin + 1>>, shared |-> <<SharedBegin, SharedBegin + 1>>,
   writer |-> <<WriteBegin, WriteBegin + 1>>]

ASSUME LocksBehindFile == MaxPages * PageSize < GateBegin

(* The SharedLocks of a MemoryFile are what the regions of Windows are: they do not   *)
(* know who holds them.                                                               *)
Free(i, h, lock, x) ==
  IF platform = "posix" THEN LinuxLock!Free(locks, i, h, LockRange[lock], x)
  ELSE WindowsLock!Free(locks, i, h, LockRange[lock], x)

With(i, h, lock, x) ==
  IF platform = "posix" THEN LinuxLock!With(locks, i, h, LockRange[lock], x)
  ELSE WindowsLock!With(locks, i, h, LockRange[lock], x)

Without(i, h, lock) ==
  IF platform = "posix" THEN LinuxLock!Without(locks, i, h, LockRange[lock])
  ELSE WindowsLock!Without(locks, i, h, LockRange[lock])

Exclusive == IF platform = "posix" THEN LinuxLock!Exclusive ELSE WindowsLock!Exclusive

(* The steps of the calls of LockProtocol: from where to where, and what is done with *)
(* which lock.                                                                        *)
LockStep(from, to, does, lock) == [from |-> from, to |-> to, does |-> does, lock |-> lock]

ReadAccess ==
  {LockStep("idle", "readGate", "calls", "gate"),
   LockStep("readGate", "readShared", "lock_shared", "gate"),
   LockStep("readShared", "readReturn", "lock_shared", "shared"),
   LockStep("readReturn", "reading", "unlocks", "gate"),
   LockStep("reading", "idle", "unlocks", "shared")}

TryWriteAccess == {LockStep("idle", "writing", "try_lock", "writer")}

TryReadAccess ==
  {LockStep("idle", "tryReadShared", "try_lock_shared", "gate"),
   LockStep("tryReadShared", "readReturn", "try_lock_shared", "shared"),
   LockStep("tryReadShared", "readFail", "fails_shared", "shared"),
   LockStep("readFail", "idle", "unlocks", "gate")}

WriteAccess ==
  {LockStep("idle", "waitWriter", "calls", "writer"),
   LockStep("waitWriter", "writing", "lock", "writer"),
   LockStep("writing", "idle", "unlocks", "writer")}

CommitAccess ==
  {LockStep("writing", "commitGate", "calls", "gate"),
   LockStep("commitGate", "commitShared", "lock", "gate"),
   LockStep("commitShared", "commitReturn", "lock", "shared"),
   LockStep("commitReturn", "committing", "unlocks", "gate"),
   LockStep("committing", "writing", "unlocks", "shared"),
   LockStep("committing", "abandon", "unlocks", "shared"),
   LockStep("abandon", "idle", "unlocks", "writer")}

TryCommitAccess ==
  {LockStep("writing", "tryCommitShared", "try_lock", "gate"),
   LockStep("tryCommitShared", "commitReturn", "try_lock", "shared"),
   LockStep("tryCommitShared", "commitFail", "fails", "shared"),
   LockStep("commitFail", "writing", "unlocks", "gate")}

TryLockSteps == TryReadAccess \cup TryWriteAccess \cup TryCommitAccess
LockSteps == ReadAccess \cup WriteAccess \cup CommitAccess \cup TryLockSteps

Applies(s, i, h) ==
  \/ s.does = "calls" /\ UNCHANGED locks
  \/ s.does = "unlocks" /\ locks' = Without(i, h, s.lock)
  \/ s.does = "fails" /\ ~Free(i, h, s.lock, TRUE) /\ UNCHANGED locks
  \/ s.does = "fails_shared" /\ ~Free(i, h, s.lock, FALSE) /\ UNCHANGED locks
  \/ /\ s.does \in DOMAIN Exclusive
     /\ Free(i, h, s.lock, Exclusive[s.does])
     /\ locks' = With(i, h, s.lock, Exclusive[s.does])

-----------------------------------------------------------------------------------
(* File objects: the handle (m_file), the one its locks are for (m_lockProtocol),     *)
(* whether it may write, and the file the path of a TempFile is removed for.          *)
NoFile == [h |-> 0, lh |-> 0, ro |-> FALSE, temp |-> 0]
Idle == [op |-> "none"]

FileOf(o) == IF obj[o].h = 0 THEN 0 ELSE open[obj[o].h]
LockedFile(o) == IF obj[o].lh = 0 THEN 0 ELSE open[obj[o].lh]
AtRest(o) == pc[o] = "idle" /\ call[o] = Idle

(* Nobody has the file any more. *)
Gone(i) == path # i /\ \A h \in Handles : open[h] # i

Flags(mode) == IF platform = "windows" THEN Windows!Flags[mode] ELSE Posix!Flags[mode]

TypeOK ==
  /\ path \in Inodes \cup {0}
  /\ \A i \in Inodes : DOMAIN data[i] \subseteq 1..(MaxPages * PageSize)
  /\ open \in [Handles -> Inodes \cup {0}]
  /\ obj \in [Objects -> [h : Handles \cup {0}, lh : Handles \cup {0}, ro : BOOLEAN,
                          temp : Inodes \cup {0}]]
  /\ \A o \in Objects : AtRest(o) \/ FileOf(o) # 0
  /\ \A h \in Handles : open[h] # 0 <=> \E o \in Objects : obj[o].h = h
  /\ \A l \in locks : open[l.h] = l.i

(* A file with all its pages, or none.  A MemoryFile has no name, and always exists. *)
Init ==
  /\ setting \in Settings
  /\ path \in {0, Min(Inodes)} /\ (platform = "memory" \/ setting.writes > 0 => path # 0)
  /\ data = [i \in Inodes |-> IF i = path THEN [c \in 1..(setting.pages * PageSize) |-> 0] ELSE <<>>]
  /\ stable = data
  /\ open = [h \in Handles |-> 0]
  /\ obj = [o \in Objects |-> NoFile]
  /\ locks = {}
  /\ pc = [o \in Objects |-> "idle"]
  /\ call = [o \in Objects |-> Idle]
  /\ writes = 0

-----------------------------------------------------------------------------------
(* Constructors: the lowest handle that is free.  CreateAlways goes on as Create.     *)
Opens(o, i, mode, temp) ==
  LET h == Min({k \in Handles : open[k] = 0})
  IN  /\ open' = [open EXCEPT ![h] = i]
      /\ obj' = [obj EXCEPT ![o] = [h |-> h, lh |-> h, ro |-> "write" \notin Flags(mode),
                                    temp |-> IF temp THEN i ELSE 0]]
      /\ call' = [call EXCEPT ![o] = IF mode = "CreateAlways" THEN [op |-> "create"] ELSE Idle]
      /\ UNCHANGED <<setting, locks, pc, writes>>

OpenFile(o, mode, temp) ==
  /\ obj[o] = NoFile /\ platform # "memory"
  /\ \/ /\ path # 0 /\ "excl" \notin Flags(mode)
        /\ Opens(o, path, mode, temp)
        /\ UNCHANGED <<path, data, stable>>
     \/ /\ path = 0 /\ "create" \in Flags(mode)
        /\ \E i \in Inodes :
             /\ Gone(i) /\ \A k \in Inodes : Gone(k) => i <= k
             /\ Opens(o, i, mode, temp)
             /\ path' = i
             /\ data' = [data EXCEPT ![i] = <<>>]
             /\ stable' = [stable EXCEPT ![i] = <<>>]

(* TempFile: its name is its own. *)
OpenTemp(o) ==
  /\ "temp" \in setting.modes[o] /\ \A q \in Objects : obj[q].temp = 0
  /\ OpenFile(o, "CreateAlways", TRUE)

(* A WrappedFile on the MemoryFile all threads share, or a ReadOnlyFile of one. *)
Wrap(o, mode) ==
  /\ obj[o] = NoFile /\ platform = "memory" /\ mode \in {"Open", "ReadOnly"}
  /\ Opens(o, path, mode, FALSE)
  /\ UNCHANGED <<path, data, stable>>

(* close(): the number is free for the next file. *)
Closed(o) == [h \in Handles |-> IF h = obj[o].h THEN 0 ELSE open[h]]

(* remove() of a TempFile's path.  Windows refuses while somebody has the file open: *)
(* files are opened without FILE_SHARE_DELETE.                                       *)
Removable(o) ==
  obj[o].temp # 0 /\ platform = "windows" =>
    \A h \in Handles : open[h] = path => h = obj[o].h \/ path = 0

Removed(o) == IF obj[o].temp # 0 THEN 0 ELSE path

(* Destructors, and close() of an object that is not used any more. *)
Destroy(o) ==
  /\ obj[o] # NoFile /\ AtRest(o)
  /\ Removable(o)
  /\ path' = Removed(o)
  /\ open' = Closed(o)
  /\ obj' = [obj EXCEPT ![o] = NoFile]
  /\ UNCHANGED <<setting, data, locks, pc, call, stable, writes>>

(* What is in the file when X is given up is what readers are to find (with a log, if   *)
(* the commit was not finished).                                                       *)
StableAfter(o) ==
  IF pc[o] = "committing" THEN [stable EXCEPT ![FileOf(o)] = data[FileOf(o)]] ELSE stable

(* The process dies: the system closes its files.  So it does when remove() throws in  *)
(* the destructor of a TempFile.  A MemoryFile dies with all its users.                *)
Die(o) ==
  /\ obj[o] # NoFile /\ platform # "memory"
  /\ open' = Closed(o)
  /\ locks' = {l \in locks : l.h # obj[o].h}
  /\ obj' = [obj EXCEPT ![o] = NoFile]
  /\ pc' = [pc EXCEPT ![o] = "idle"]
  /\ call' = [call EXCEPT ![o] = Idle]
  /\ stable' = StableAfter(o)
  /\ UNCHANGED <<setting, path, data, writes>>

(* Mutant of MoveConstruct: both TempFiles have the path. *)
MoveConstructPathKept(from, to) ==
  /\ obj[to] = NoFile /\ obj[from].h # 0 /\ AtRest(from) /\ platform # "memory"
  /\ obj' = [obj EXCEPT ![to] = Posix!Constructed(obj[from]),
                        ![from] = [NoFile EXCEPT !.temp = obj[from].temp]]
  /\ UNCHANGED <<setting, path, data, open, locks, pc, call, stable, writes>>

(* The moved-from object is of no use but to be destroyed or assigned to. *)
MoveConstruct(from, to) ==
  /\ obj[to] = NoFile /\ obj[from].h # 0 /\ AtRest(from) /\ platform # "memory"
  /\ obj' = [obj EXCEPT ![to] = IF platform = "windows" THEN Windows!Constructed(obj[from])
                                ELSE Posix!Constructed(obj[from]),
                        ![from] = NoFile]
  /\ UNCHANGED <<setting, path, data, open, locks, pc, call, stable, writes>>


(* TempFile::operator= closes and removes what the object had.  When Windows refuses to *)
(* remove it the object is left without a file, but with the path.                      *)
MoveAssign(from, to) ==
  /\ from # to /\ obj[from].h # 0 /\ AtRest(from) /\ AtRest(to)
  /\ platform = "windows"
  /\ open' = Closed(to)
  /\ \/ /\ Removable(to)
        /\ path' = Removed(to)
        /\ obj' = [obj EXCEPT ![to] = Windows!Assigned(obj[to], obj[from]), ![from] = NoFile]
     \/ /\ ~Removable(to)
        /\ obj' = [obj EXCEPT ![to] = [NoFile EXCEPT !.temp = obj[to].temp]]
        /\ UNCHANGED path
  /\ UNCHANGED <<setting, data, locks, pc, call, stable, writes>>

(* The same with a PosixFile.  See AssignSpec. *)
MoveAssignPosix(from, to) ==
  /\ from # to /\ obj[from].h # 0 /\ AtRest(from) /\ AtRest(to)
  /\ platform = "posix"
  /\ open' = Closed(to)
  /\ path' = Removed(to)
  /\ obj' = [obj EXCEPT ![to] = Posix!Assigned(obj[to], obj[from]), ![from] = NoFile]
  /\ UNCHANGED <<setting, data, locks, pc, call, stable, writes>>

-----------------------------------------------------------------------------------
(* The calls of LockProtocol.  A ReadOnlyFile, or one opened for reading, only reads   *)
(* (defaultAccess).  A constructor that creates the file truncates it under X and      *)
(* gives both locks up before it returns; the exclusive one when its statement ends.   *)
InCreate == {"waitWriter", "commitGate", "commitShared", "commitReturn", "committing"}

MayTake(o, s) ==
  CASE call[o].op = "none" ->
         /\ "lock" \in setting.modes[o]
         /\ s.from = "idle" /\ s.to \in {"waitWriter", "writing"} => ~obj[o].ro
    [] call[o].op = "create" ->
         s.to \in InCreate \/ (s.from = "waitWriter" /\ s.to = "writing")
    [] call[o].op = "created" ->
         (s.from = "committing" /\ s.to = "writing") \/ (s.from = "writing" /\ s.to = "idle")
    [] OTHER -> FALSE

TakeLockStep(o, s) ==
  /\ FileOf(o) # 0 /\ LockedFile(o) # 0
  /\ pc[o] = s.from /\ MayTake(o, s) /\ (s \in TryLockSteps => setting.tries)
  /\ pc' = [pc EXCEPT ![o] = s.to]
  /\ Applies(s, LockedFile(o), obj[o].lh)
  /\ call' = IF call[o].op = "created" /\ s.to = "idle" THEN [call EXCEPT ![o] = Idle] ELSE call
  /\ stable' = StableAfter(o)
  /\ UNCHANGED <<setting, path, data, open, obj, writes>>

-----------------------------------------------------------------------------------
(* The operations on pages. *)
SizeOf(f) ==
  CASE platform = "posix" -> Posix!FileSizeInPages(f)
    [] platform = "windows" -> Windows!FileSizeInPages(f)
    [] platform = "memory" -> Memory!FileSizeInPages(f)

ReadPageOf(f, id, offset, n) ==
  CASE platform = "posix" -> Posix!ReadPage(f, id, offset, n)
    [] platform = "windows" -> Windows!ReadPage(f, id, offset, n)
    [] platform = "memory" -> Memory!ReadPage(f, id, offset, n)

ReadPagesOf(f, first, end) ==
  CASE platform = "posix" -> Posix!ReadPages(f, first, end)
    [] platform = "windows" -> Windows!ReadPages(f, first, end)
    [] platform = "memory" -> Memory!ReadPages(f, first, end)

WritePageOf(f, id, offset, n) ==
  CASE platform = "posix" -> Posix!WritePage(f, id, offset, n)
    [] platform = "windows" -> Windows!WritePage(f, id, offset, n)
    [] platform = "memory" -> Memory!WritePage(f, id, offset, n)

WritePagesOf(f, first, end) ==
  CASE platform = "posix" -> Posix!WritePages(f, first, end)
    [] platform = "windows" -> Windows!WritePages(f, first, end)
    [] platform = "memory" -> Memory!WritePages(f, first, end)

NextRead(n) ==
  CASE platform = "posix" -> Posix!ReadPagesInBlocks(n)
    [] platform = "windows" -> Windows!ReadPagesInBlocks(n)
    [] platform = "memory" -> Memory!NextPage(n)

NextWrite(n) ==
  CASE platform = "posix" -> Posix!WritePagesInBlocks(n)
    [] platform = "windows" -> Windows!WritePagesInBlocks(n)
    [] platform = "memory" -> Memory!NextPage(n)

Cells(f, at, n) ==
  CASE platform = "posix" -> Posix!Cells(f, at, n)
    [] platform = "windows" -> Windows!Cells(f, at, n)
    [] platform = "memory" -> Memory!Cells(f, at, n)

Put(f, at, n, value) ==
  CASE platform = "posix" -> Posix!Put(f, at, n, value)
    [] platform = "windows" -> Windows!Put(f, at, n, value)
    [] platform = "memory" -> Memory!Put(f, at, n, value)

Truncated(f, pages) ==
  CASE platform = "posix" -> Posix!Truncate(f, pages)
    [] platform = "windows" -> Windows!Truncate(f, pages)
    [] platform = "memory" -> Memory!Truncate(f, pages)

NewInterval(length, pages) ==
  CASE platform = "posix" -> Posix!NewInterval(length, pages)
    [] platform = "windows" -> Windows!NewInterval(length, pages)
    [] platform = "memory" -> Memory!NewInterval(length, pages)

CanUse(o) == FileOf(o) # 0 /\ call[o] = Idle
Begin(o, c) ==
  /\ call' = [call EXCEPT ![o] = c]
  /\ UNCHANGED <<setting, path, data, open, obj, locks, pc, stable>>

(* readPage and readPages under R, in what was committed.  at is the position the      *)
(* handle was set to, left what of the buffer is still to be filled.                   *)
BeginRead(o, access) ==
  /\ CanUse(o) /\ pc[o] = "reading" /\ access.ok
  /\ access.at + access.n <= Len(stable[FileOf(o)])
  /\ Begin(o, [op |-> "read", at |-> access.at, n |-> access.n, left |-> access.n, got |-> <<>>])
  /\ UNCHANGED writes

ReadPage(o, id, offset, n) == BeginRead(o, ReadPageOf(data[FileOf(o)], id, offset, n))
ReadPages(o, first, end) == BeginRead(o, ReadPagesOf(data[FileOf(o)], first, end))

(* One read: the position advances by what was read, the buffer by what was asked for.  *)
(* The at() of a MemoryFile throws when the page is gone.                               *)
ReadBlock(o) ==
  LET c == call[o]
      n == NextRead(c.left)
      f == data[FileOf(o)]
      missing == platform = "memory" /\ c.at + Len(c.got) >= Len(f)
  IN  /\ c.op = "read" /\ c.left > 0
      /\ Begin(o, IF missing THEN Idle
                  ELSE [c EXCEPT !.left = c.left - n,
                                 !.got = c.got \o Cells(f, c.at + Len(c.got), n)])
      /\ UNCHANGED writes

ReadReturn(o) ==
  /\ call[o].op = "read" /\ call[o].left = 0
  /\ Begin(o, Idle) /\ UNCHANGED writes

(* writePage and writePages: with W behind what was committed, with X anywhere.        *)
BeginWrite(o, access) ==
  /\ CanUse(o) /\ ~obj[o].ro /\ access.ok /\ writes < setting.writes
  /\ pc[o] = "committing" \/ (pc[o] = "writing" /\ access.at >= Len(stable[FileOf(o)]))
  /\ Begin(o, [op |-> "write", at |-> access.at, left |-> access.n, value |-> writes + 1])
  /\ writes' = writes + 1

WritePage(o, id, offset, n) == BeginWrite(o, WritePageOf(data[FileOf(o)], id, offset, n))
WritePages(o, first, end) == BeginWrite(o, WritePagesOf(data[FileOf(o)], first, end))

(* One write, or the at() of a MemoryFile that throws: the pages before stay written.  *)
WriteBlock(o) ==
  LET c == call[o]
      n == NextWrite(c.left)
      f == data[FileOf(o)]
      missing == platform = "memory" /\ c.at >= Len(f)
  IN  /\ c.op = "write"
      /\ data' = [data EXCEPT ![FileOf(o)] = Put(f, c.at, n, c.value)]
      /\ call' = [call EXCEPT ![o] =
                    IF missing \/ n = c.left THEN Idle
                    ELSE [c EXCEPT !.at = c.at + n, !.left = c.left - n]]
      /\ UNCHANGED <<setting, path, open, obj, locks, pc, stable, writes>>

(* newInterval: asks for the length, then makes the file longer. *)
GrowBegin(o, pages) ==
  /\ CanUse(o) /\ ~obj[o].ro /\ pc[o] \in {"writing", "committing"}
  /\ SizeOf(data[FileOf(o)]) + pages <= setting.pages
  /\ Begin(o, [op |-> "grow", length |-> Len(data[FileOf(o)]), pages |-> pages])
  /\ UNCHANGED writes

(* A MemoryFile has more pages one by one; what they contain is unknown. *)
GrowEnd(o) ==
  LET c == call[o]
      f == data[FileOf(o)]
  IN  /\ c.op = "grow"
      /\ \/ /\ platform = "memory"
            /\ \E value \in 0..writes :
                 data' = [data EXCEPT ![FileOf(o)] = Memory!AddPage(f, value)]
            /\ call' = [call EXCEPT ![o] = IF Len(f) + PageSize = c.length + c.pages * PageSize
                                          THEN Idle ELSE c]
         \/ /\ platform = "posix"
            /\ data' = [data EXCEPT ![FileOf(o)] = Posix!Grow(f, c.length, c.pages)]
            /\ call' = [call EXCEPT ![o] = Idle]
         \/ /\ platform = "windows"
            /\ data' = [data EXCEPT ![FileOf(o)] = Windows!Grow(f, c.length, c.pages)]
            /\ call' = [call EXCEPT ![o] = Idle]
      /\ UNCHANGED <<setting, path, open, obj, locks, pc, stable, writes>>

(* truncate: at the end of a commit, and in the constructor that creates the file. *)
TruncateTo(o, pages) ==
  /\ data' = [data EXCEPT ![FileOf(o)] = Truncated(@, pages)]
  /\ UNCHANGED <<setting, path, open, obj, locks, pc, stable, writes>>

Truncate(o, pages) ==
  /\ CanUse(o) /\ ~obj[o].ro /\ pc[o] = "committing"
  /\ pages < SizeOf(data[FileOf(o)])
  /\ TruncateTo(o, pages) /\ UNCHANGED call

(* Mutant of Create: the file is truncated without the commit lock. *)
CreateUnlocked(o) ==
  /\ call[o].op = "create"
  /\ call' = [call EXCEPT ![o] = Idle]
  /\ TruncateTo(o, 0)

Create(o) ==
  /\ call[o].op = "create" /\ pc[o] = "committing"
  /\ call' = [call EXCEPT ![o] = [op |-> "created"]]
  /\ TruncateTo(o, 0)
-----------------------------------------------------------------------------------
PageIds == 0..(MaxPages - 1)

OpenNext(o) ==
  \/ \E mode \in setting.modes[o] \ {"temp", "lock"} : OpenFile(o, mode, FALSE) \/ Wrap(o, mode)
  \/ OpenTemp(o) \/ Destroy(o) \/ Die(o) \/ Create(o)
  \/ \E to \in Objects : MoveConstruct(o, to) \/ MoveAssign(o, to)

PageNext(o) ==
  \/ \E id \in PageIds, n \in 1..PageSize :       \* from the middle of a page
       ReadPage(o, id, PageSize - 1, n) \/ WritePage(o, id, PageSize - 1, n)
  \/ \E first \in PageIds, end \in 1..MaxPages :
       first < end /\ (ReadPages(o, first, end) \/ WritePages(o, first, end))
  \/ ReadBlock(o) \/ ReadReturn(o) \/ WriteBlock(o)
  \/ (\E pages \in 1..MaxPages : GrowBegin(o, pages)) \/ GrowEnd(o)
  \/ \E pages \in PageIds : Truncate(o, pages)

Next ==
  \E o \in Objects :
    \/ OpenNext(o)
    \/ PageNext(o)
    \/ \E s \in LockSteps : TakeLockStep(o, s)

Spec == Init /\ [][Next]_vars

(* PosixFiles are assigned to as well. *)
AssignSpec ==
  Init /\ [][Next \/ \E from, to \in Objects : MoveAssignPosix(from, to)]_vars

-----------------------------------------------------------------------------------
(* FileInterface.h, "All APIs will throw exceptions on failures": a reader gets all it *)
(* asks for, as it was committed, however many calls that takes and whatever others do *)
(* to the file meanwhile: grow it, write behind what was committed, create it anew.    *)
ReadsCommitted ==
  /\ TypeOK
  /\ \A o \in Objects :
       LET c == call[o]
       IN  c.op = "read" =>
            /\ c.got = SubSeq(stable[FileOf(o)], c.at + 1, c.at + Len(c.got))
            /\ Len(c.got) + c.left = c.n

(* newInterval looks for the end of the file and moves it in two calls: the interval   *)
(* it returns is what the file has more, behind the pages it had, so no page is given   *)
(* to two writers and none that was there is cut off.                                   *)
GrowsAlone ==
  [][\A o \in Objects :
       call[o].op = "grow" /\ call'[o].op = "none" /\ obj'[o] = obj[o] =>
         LET iv == NewInterval(call[o].length, call[o].pages)
             f == data[FileOf(o)]
             g == data'[FileOf(o)]
         IN  /\ platform # "memory" => Len(f) = iv[1] * PageSize
             /\ SizeOf(g) = iv[2]
             /\ SubSeq(g, 1, iv[1] * PageSize) = SubSeq(f, 1, iv[1] * PageSize)]_vars

(* The file of a TempFile is there for as long as an object owns its path and no        *)
(* longer: nobody else removes it, a move takes it along, and only a process that dies  *)
(* leaves it behind.                                                                    *)
TempOwned ==
  [][/\ path # 0 /\ path' # path =>
          (\E o \in Objects : obj[o].temp = path) /\ \A o \in Objects : obj'[o].temp # path
     /\ path # 0 /\ (\E o \in Objects : obj[o].temp = path)
          /\ (\A o \in Objects : obj'[o].temp # path)
          => path' = 0 \/ \E o \in Objects : Die(o)]_vars

(* Who has a lock on the byte of m_gate, m_shared or m_writer. *)
Holders(i, lock, x) ==
  {o \in Objects : \E l \in locks :
     l.i = i /\ l.h = obj[o].lh /\ l.x = x /\ WindowsLock!Overlap(l.at, LockRange[lock])}

Protocol(i) == INSTANCE LockProtocol WITH
  Procs <- Objects,
  pc <- [o \in Objects |-> IF FileOf(o) = i THEN pc[o] ELSE "idle"],
  gate <- [s |-> Holders(i, "gate", FALSE), x |-> Holders(i, "gate", TRUE)],
  shared <- [s |-> Holders(i, "shared", FALSE), x |-> Holders(i, "shared", TRUE)],
  writer <- Holders(i, "writer", TRUE)

(* FileLockPosition.h: the byte ranges behind the file are the three locks of           *)
(* LockProtocol, for every file on its own: none of them conflicts with, replaces or    *)
(* cuts another, and closing a file gives back what its process held.                   *)
ImplementsLockProtocol ==
  /\ \A i \in Inodes : Protocol(i)!Init
  /\ [][\A i \in Inodes : UNCHANGED Protocol(i)!vars \/ Protocol(i)!Next]_vars
===================================================================================
