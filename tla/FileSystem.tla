-------------------------------- MODULE FileSystem --------------------------------
(*********************************************************************************)
(* CompoundFs/FileSystem.cpp with Path.cpp and DirectoryStructure.cpp: files,        *)
(* folders and attributes under paths, files open for writing and reading, commit    *)
(* and rollback.  A step is a call.  The BTree is the map it promises to be; pages    *)
(* come from the FreeStore's list of the last commit and then from the end of the     *)
(* file; a file is one table of pages of one block each (FileContents has the rest).  *)
(*********************************************************************************)
EXTENDS ByteString, TreeValue, SequencesExt, Functions, FiniteSetsExt, TLC

CONSTANTS
  Names,                \* of entries: numbers, in the order of the names
  NameBytes,            \* name -> its bytes; 0 is the empty name
  Paths,                \* the paths the calls use, sequences of names
  LongPaths,            \* more of them, with a name that makes a key too long
  Attributes,           \* TreeValues the calls add
  MaxDepth,             \* bound: names in a path at which an entry is looked for
  OneUser,              \* whether the calls respect the open writers (see Busy)
  Starts,               \* sequences of paths of files that are there, committed
  MaxHandles,           \* bound: handles given out
  MaxCalls              \* bound: calls

ASSUME ConstantsOK ==
  /\ 0 \in Names /\ Names \subseteq Nat /\ NameBytes[0] = <<>>
  /\ Paths \cup LongPaths \subseteq Seq(Names) \ {<<>>} /\ MaxDepth \in Nat
  /\ \A m, n \in Names : m < n <=> Less(NameBytes[m], NameBytes[n])
  /\ Starts \subseteq Seq(Paths) /\ OneUser \in BOOLEAN
  /\ MaxHandles \in Nat /\ MaxCalls \in Nat

VARIABLES
  fs,                   \* the transaction, see Fresh
  saved,                \* fs as of the last commit
  openWriters,          \* handle -> FileWriter
  openReaders,          \* handle -> the file, and whether the caller knows the handle
  nextHandle,
  answer,               \* what the last call returned
  view,                 \* ViewOf the state
  calls

vars == <<fs, saved, openWriters, openReaders, nextHandle, answer, view, calls>>

INVALID == -1
Root == 0               \* Folder::Root
SystemFolder == 1
NoFolder == -1          \* std::nullopt
Thrown == -2            \* no folder either: the call throws
Default == [first |-> INVALID, length |-> 0]      \* FileDescriptor()

Fresh == [dir |-> <<>>,             \* m_btree: key -> stream of a TreeValue
          maxFolderId |-> 2,
          filesToDelete |-> <<>>,   \* of the FreeStore
          table |-> <<>>,           \* first table -> the pages it lists
          page |-> <<>>,            \* page of content -> block
          free |-> {},              \* what the FreeStore may hand out
          size |-> 0]               \* of the file, in pages

FolderValue(id) == Variant("Folder", <<id>>)
FileValue(fd) == Variant("File", <<fd.first, fd.length>>)

(* What a call returns: std::nullopt or false, true, a handle, a number of entries. *)
No == <<>>
Yes == <<0>>
Handle(h) == <<h>>
Removed(n) == <<n>>
Said(kind, what) == <<-2, kind>> \o what
Threw == <<-4>>

-----------------------------------------------------------------------------------
(* DirectoryStructure *)
RootKey == DirectoryKey(Root, <<>>)               \* of RootPath: no entry has it
CommitBlockKey == DirectoryKey(SystemFolder, <<0>>)

Has(s, key) == key \in DOMAIN s.dir
Value(s, key) == FromStream(s.dir[key])
KindOf(value) == IF value.type \in {"File", "Folder"} THEN value.type ELSE "Attribute"
Is(s, key, kind) == Has(s, key) /\ KindOf(Value(s, key)) = kind
Set(s, key, value) == [s EXCEPT !.dir = (key :> ToStream(value)) @@ @]
FolderOf(value) == value.fields[1]
FileOf(value) == [first |-> value.fields[1], length |-> value.fields[2]]

SubFolder(s, key) ==
  IF key = RootKey THEN Root
  ELSE IF Is(s, key, "Folder") THEN FolderOf(Value(s, key)) ELSE NoFolder

GetAttribute(s, key) == IF Is(s, key, "Attribute") THEN ToStream(Value(s, key)) ELSE No

(* makeSubFolder, when the key is new. *)
NewFolder(s, key) == [Set(s, key, FolderValue(s.maxFolderId)) EXCEPT !.maxFolderId = @ + 1]
MakeFolder(s, key) == IF key = RootKey \/ Has(s, key) THEN s ELSE NewFolder(s, key)

(* Cursors: the first key that is not less, the next key, while it is of the folder.  *)
NoKey == <<>>
First(keys, folder) ==
  LET k == CHOOSE k \in keys : \A l \in keys : ~Less(l, k)
  IN IF keys = {} THEN NoKey ELSE IF GetFolder(k) # folder THEN NoKey ELSE k
Begin(s, key) == First({k \in DOMAIN s.dir : ~Less(k, key)}, GetFolder(key))
NextOf(s, key) == First({k \in DOMAIN s.dir : Less(key, k)}, GetFolder(key))

(* At most n keys from a cursor on; all keys of a folder. *)
KeysFrom(s, cursor, n) ==
  LET Go(keys, i) ==
        IF Last(keys) = NoKey THEN keys ELSE Append(keys, NextOf(s, Last(keys)))
  IN SelectSeq(FoldLeft(Go, <<cursor>>, [i \in 1 .. n - 1 |-> i]), LAMBDA k : k # NoKey)
KeysIn(s, folder) ==
  KeysFrom(s, Begin(s, DirectoryKey(folder, <<>>)), Cardinality(DOMAIN s.dir))

(* Mutant of DeleteFile: the pages are free at once. *)
DeleteFileAtOnce(s, fd) ==
  IF fd = Default THEN s ELSE [s EXCEPT !.free = @ \cup {fd.first} \cup ToSet(s.table[fd.first])]

DeleteFile(s, fd) == IF fd = Default THEN s ELSE [s EXCEPT !.filesToDelete = Append(@, fd)]

Without(s, key) == [s EXCEPT !.dir = Restrict(@, DOMAIN @ \ {key})]

(* rename of a key that is there to one that is not. *)
RenameKey(s, key, to) == [Without(s, key) EXCEPT !.dir = (to :> s.dir[key]) @@ @]

(* Mutant of RemoveKey: a folder goes without what is in it. *)
RemoveKeyAlone(s, key) == [s |-> Without(s, key), removed |-> IF Has(s, key) THEN 1 ELSE 0]

(* remove: the transaction after it, and how many entries are gone. *)
RECURSIVE RemoveKey(_, _)
RemoveKey(s, key) ==
  LET t == Without(s, key)
      value == Value(s, key)
      RemoveNext(r, k) == LET q == RemoveKey(r.s, k) IN [s |-> q.s, removed |-> r.removed + q.removed]
  IN CASE ~Has(s, key) -> [s |-> s, removed |-> 0]
       [] Is(s, key, "Folder") ->
            FoldLeft(RemoveNext, [s |-> t, removed |-> 1], KeysIn(t, FolderOf(value)))
       [] Is(s, key, "File") -> [s |-> DeleteFile(t, FileOf(value)), removed |-> 1]
       [] Is(s, key, "Attribute") -> [s |-> t, removed |-> 1]

(* A file that was removed in the meantime is deleted with its new pages. *)
UpdateFile(s, key, fd) ==
  IF ~Has(s, key) THEN DeleteFile(s, fd)
  ELSE IF Is(s, key, "File") THEN Set(s, key, FileValue(fd))
  ELSE s

-----------------------------------------------------------------------------------
(* Path: subFolderWalk, as create and as normalize, and the key of what is left of    *)
(* the path.  A key that is too long throws.                                          *)
KeyOf(folder, name) == DirectoryKey(folder, NameBytes[name])
Walk(s, path, Visit(_, _)) ==
  LET Go(w, i) ==
        LET key == KeyOf(w.folder, path[i])
            t == Visit(w.s, key)
        IN IF w.folder \in {NoFolder, Thrown} THEN w
           ELSE IF ~Fits(key) THEN [w EXCEPT !.folder = Thrown]
           ELSE IF i = Len(path) THEN w
           ELSE [s |-> t, folder |-> SubFolder(t, key)]
  IN FoldLeft(Go, [s |-> s, folder |-> Root], [i \in DOMAIN path |-> i])
Create(s, path) == Walk(s, path, MakeFolder)
Normalize(s, path) == Walk(s, path, LAMBDA t, key : t)
Key(w, path) == KeyOf(w.folder, Last(path))

(* find: the key of an entry, as a cursor. *)
Find(s, path) ==
  LET w == Normalize(s, path)
  IN IF w.folder >= Root /\ Has(s, Key(w, path)) THEN Key(w, path) ELSE NoKey

-----------------------------------------------------------------------------------
(* Pages: those of the FreeStore before the file grows. *)
NextPage(s) == IF s.free = {} THEN s.size ELSE Min(s.free)
Allocated(s) ==
  IF s.free = {} THEN [s EXCEPT !.size = @ + 1] ELSE [s EXCEPT !.free = @ \ {Min(@)}]

Pages(s, fd) == IF fd = Default THEN <<>> ELSE SubSeq(s.table[fd.first], 1, fd.length)
Blocks(s, pages) == [i \in DOMAIN pages |-> s.page[pages[i]]]
Content(s, fd) == Blocks(s, Pages(s, fd))
FilePages(s, fd) == IF fd = Default THEN <<>> ELSE <<fd.first>> \o s.table[fd.first]

(* FileWriter: openAppend, write, and close with its table. *)
NewWriter(key, path) == [key |-> key, path |-> path, first |-> INVALID, pages |-> <<>>]
OpenAppend(s, w, fd) == [w EXCEPT !.first = fd.first, !.pages = Pages(s, fd)]
Written(s, block) == [Allocated(s) EXCEPT !.page = (NextPage(s) :> block) @@ @]
CloseTable(s, w) ==
  IF w.pages = <<>> THEN s
  ELSE IF w.first = INVALID
  THEN [Allocated(s) EXCEPT !.table = (NextPage(s) :> w.pages) @@ @]
  ELSE [s EXCEPT !.table[w.first] = w.pages]
Closed(s, w) ==
  [first |-> IF w.pages # <<>> /\ w.first = INVALID THEN NextPage(s) ELSE w.first,
   length |-> Len(w.pages)]

(* close of one file, and closeAllFiles. *)
CloseFile(s, w) == UpdateFile(CloseTable(s, w), w.key, Closed(s, w))
CloseAllFiles(s) ==
  FoldLeft(LAMBDA t, h : CloseFile(t, openWriters[h]), s,
           SelectSeq([h \in 1 .. MaxHandles |-> h], LAMBDA h : h \in DOMAIN openWriters))

-----------------------------------------------------------------------------------
(* What is found under which path, with the content of a file. *)
NameIn(key) == CHOOSE n \in Names : NameBytes[n] = NameOf(key)
Found(s) ==
  LET In(path, folder) ==
        {<<Append(path, NameIn(k)), k>> : k \in {l \in DOMAIN s.dir : GetFolder(l) = folder}}
      Deeper(found, depth) ==
        found \cup UNION {In(f[1], SubFolder(s, f[2])) : f \in {g \in found : Is(s, g[2], "Folder")}}
  IN FoldLeft(Deeper, In(<<>>, Root), [i \in 1 .. MaxDepth - 1 |-> i])
Shape(s, key) ==
  LET value == Value(s, key)
      kind == KindOf(value)
  IN CASE kind = "File" -> [type |-> kind, content |-> Content(s, FileOf(value))]
       [] kind = "Folder" -> [type |-> kind]
       [] kind = "Attribute" -> [type |-> kind, value |-> s.dir[key]]
EntriesOf(s) == FoldSet(LAMBDA f, es : (f[1] :> Shape(s, f[2])) @@ es, <<>>, Found(s))

(* The empty names a path begins with stay in the root folder. *)
Plain(path) ==
  LET named == {i \in DOMAIN path : path[i] # 0}
  IN IF named = {} THEN <<>> ELSE SubSeq(path, Min(named), Len(path))

(* What there is to see of a state: the paths, now and as committed, and open files.  *)
ViewOf(s, old, ws, rs) ==
  [entries |-> EntriesOf(s),
   committed |-> EntriesOf([old EXCEPT !.page = s.page]),
   writers |-> [h \in DOMAIN ws |-> [path |-> Plain(ws[h].path), content |-> Blocks(s, ws[h].pages)]],
   readers |-> [h \in {i \in DOMAIN rs : rs[i].known} |-> Content(s, rs[h].file)]]

-----------------------------------------------------------------------------------
Reader(fd, known) == [file |-> fd, known |-> known]

(* A call leaves s and returns a. *)
Call(s, a) == calls' = calls + 1 /\ fs' = s /\ answer' = a
OpensNothing == UNCHANGED <<openWriters, openReaders, nextHandle>>
Return(s, a) == Call(s, a) /\ OpensNothing /\ UNCHANGED saved

(* Paths at or below which a file is open for writing. *)
Busy(p) == OneUser /\ \E h \in DOMAIN openWriters : IsPrefix(Plain(p), Plain(openWriters[h].path))

(* Content that was written stays on its pages, up to the size of the last commit,    *)
(* which the commit block has, as it has the number of the next folder.               *)
CommitBlock(s) == LET cb == Value(s, CommitBlockKey).fields IN [size |-> cb[1], maxFolderId |-> cb[2]]
RolledBack(s) ==
  LET cb == CommitBlock(s)
  IN [saved EXCEPT !.page = Restrict(s.page, DOMAIN s.page \cap (0 .. cb.size - 1)),
                   !.size = cb.size, !.maxFolderId = cb.maxFolderId]

(* rollback, and the end of every call in which an exception is thrown                *)
(* (RollbackOnException), whatever it has made of s by then.                          *)
RollbackFrom(s, a) ==
  /\ Call(RolledBack(CloseAllFiles(s)), a) /\ UNCHANGED <<saved, nextHandle>>
  /\ openWriters' = <<>> /\ openReaders' = <<>>
Rollback == RollbackFrom(fs, Yes)
Throw(s) == RollbackFrom(s, Threw)

(* A call that changes something goes on after its walk, unless a key was too long;   *)
(* one that only looks does not roll back.                                            *)
Changing(w, Rest(_)) == IF w.folder = Thrown THEN Throw(w.s) ELSE Rest(w)
Looking(w, Rest(_)) == IF w.folder = Thrown THEN Return(fs, Threw) ELSE Rest(w)

AddOpenWriter(s, w) ==
  /\ nextHandle <= MaxHandles /\ nextHandle' = nextHandle + 1
  /\ openWriters' = openWriters @@ (nextHandle :> w)
  /\ Call(s, Handle(nextHandle)) /\ UNCHANGED <<saved, openReaders>>

CreateFile(p) ==
  LET Rest(w) ==
        LET key == Key(w, p)
            before == IF Has(w.s, key) THEN FileOf(Value(w.s, key)) ELSE Default
        IN IF w.folder = NoFolder \/ (Has(w.s, key) /\ ~Is(w.s, key, "File")) THEN Return(w.s, No)
           ELSE AddOpenWriter(DeleteFile(Set(w.s, key, FileValue(Default)), before), NewWriter(key, p))
  IN ~Busy(p) /\ Changing(Create(fs, p), Rest)

AppendFile(p) ==
  LET Rest(w) ==
        LET key == Key(w, p)
            t == IF Has(w.s, key) THEN w.s ELSE Set(w.s, key, FileValue(Default))
        IN IF w.folder = NoFolder \/ ~Is(t, key, "File") THEN Return(w.s, No)
           ELSE AddOpenWriter(t, OpenAppend(t, NewWriter(key, p), FileOf(Value(t, key))))
  IN ~Busy(p) /\ Changing(Create(fs, p), Rest)

ReadFile(p) ==
  LET Rest(w) ==
        LET key == Key(w, p)
        IN IF w.folder = NoFolder \/ ~Is(fs, key, "File") THEN Return(fs, No)
           ELSE /\ nextHandle <= MaxHandles /\ nextHandle' = nextHandle + 1
                /\ openReaders' = openReaders @@ (nextHandle :> Reader(FileOf(Value(fs, key)), TRUE))
                /\ Call(fs, Handle(nextHandle)) /\ UNCHANGED <<saved, openWriters>>
  IN Looking(Normalize(fs, p), Rest)

(* subFolder, getAttribute and fileSize of a path, of which one has an answer.         *)
Ask(p) ==
  LET Rest(w) ==
        LET key == Key(w, p)
            value == Value(fs, key)
            kind == KindOf(value)
        IN IF w.folder = NoFolder \/ ~Has(fs, key) THEN Return(fs, No)
           ELSE Return(fs, CASE kind = "Folder" -> Said(1, <<>>)
                             [] kind = "Attribute" -> Said(2, GetAttribute(fs, key))
                             [] kind = "File" -> Said(3, <<FileOf(value).length>>))
  IN Looking(Normalize(fs, p), Rest)

(* createPath and reducePath: the walk alone, which leaves the last name as it is.  No *)
(* exception takes back what createPath has made.                                     *)
Unnamed(p) == [p EXCEPT ![Len(p)] = 0]
Arrived(w) == IF w.folder = Thrown THEN Threw ELSE IF w.folder = NoFolder THEN No ELSE Yes
CreatePath(p) == LET w == Create(fs, Unnamed(p)) IN Return(w.s, Arrived(w))
ReducePath(p) == Return(fs, Arrived(Normalize(fs, Unnamed(p))))

(* fileSize of a handle. *)
AskWriter(h) == Return(fs, Said(4, <<Len(openWriters[h].pages)>>))
AskReader(h) == Return(fs, Said(4, <<openReaders[h].file.length>>))

Write(h) ==
  /\ Call(Written(fs, h), Handle(h)) /\ UNCHANGED <<saved, openReaders, nextHandle>>
  /\ openWriters' = [openWriters EXCEPT ![h].pages = Append(@, NextPage(fs))]

CloseWriter(h) ==
  /\ Call(CloseFile(fs, openWriters[h]), Handle(h)) /\ UNCHANGED <<saved, openReaders, nextHandle>>
  /\ openWriters' = Restrict(openWriters, DOMAIN openWriters \ {h})

CloseReader(h) ==
  /\ Call(fs, Handle(h)) /\ UNCHANGED <<saved, openWriters, nextHandle>>
  /\ openReaders' = Restrict(openReaders, DOMAIN openReaders \ {h})

MakeSubFolder(p) ==
  LET Rest(w) ==
        LET key == Key(w, p)
            t == MakeFolder(w.s, key)
        IN IF w.folder = NoFolder \/ SubFolder(t, key) = NoFolder THEN Return(w.s, No)
           ELSE Return(t, Yes)
  IN Changing(Create(fs, p), Rest)

(* addAttribute, which may replace an attribute of any type; a value that does not    *)
(* fit throws before that is asked.                                                   *)
AddAttribute(p, value) ==
  LET Rest(w) ==
        LET key == Key(w, p)
        IN IF w.folder = NoFolder THEN Return(w.s, No)
           ELSE IF ~Fits(ToStream(value)) THEN Throw(w.s)
           ELSE IF Has(w.s, key) /\ ~Is(w.s, key, "Attribute") THEN Return(w.s, No)
           ELSE Return(Set(w.s, key, value), Yes)
  IN Changing(Create(fs, p), Rest)

Rename(p, q) ==
  LET from == Normalize(fs, p)
      Rest(to) ==
        LET k == Key(from, p)
            l == Key(to, q)
        IN IF to.folder = NoFolder \/ ~Has(to.s, k) \/ Has(to.s, l) THEN Return(to.s, No)
           ELSE Return(RenameKey(to.s, k, l), Yes)
  IN /\ ~Busy(p) /\ (OneUser => ~IsStrictPrefix(Plain(p), Plain(q)))
     /\ CASE from.folder = Thrown -> Throw(fs)
          [] from.folder = NoFolder -> Return(fs, No)
          [] from.folder >= Root -> Changing(Create(fs, q), Rest)

RemovePath(p) ==
  LET Rest(w) ==
        LET r == RemoveKey(fs, Key(w, p))
        IN IF w.folder = NoFolder THEN Return(fs, Removed(0)) ELSE Return(r.s, Removed(r.removed))
  IN ~Busy(p) /\ Changing(Normalize(fs, p), Rest)

(* FreeStore::close: what was deleted can be handed out in the next transaction. *)
CloseFreeStore(s) ==
  [s EXCEPT !.filesToDelete = <<>>,
            !.free = @ \cup UNION {ToSet(FilePages(s, fd)) : fd \in ToSet(s.filesToDelete)}]

(* The commit block has the size of the file when the FreeStore is closed. *)
StoreCommitBlock(s) == Set(s, CommitBlockKey, Variant("String", <<s.size, s.maxFolderId>>))

Commit ==
  /\ fs' = StoreCommitBlock(CloseFreeStore(CloseAllFiles(fs))) /\ saved' = fs'
  /\ openWriters' = <<>> /\ openReaders' = <<>>
  /\ calls < MaxCalls /\ calls' = calls + 1 /\ answer' = Yes /\ UNCHANGED nextHandle

-----------------------------------------------------------------------------------
(* A file of one block, put there and committed; what was there is deleted. *)
Filled(s, p) ==
  LET w == Create(s, p)
      key == Key(w, p)
      before == IF Has(w.s, key) THEN FileOf(Value(w.s, key)) ELSE Default
      t == DeleteFile(Set(Written(w.s, 0), key, FileValue(Default)), before)
  IN CloseFile(t, [NewWriter(key, p) EXCEPT !.pages = <<NextPage(w.s)>>])

Init ==
  /\ \E files \in Starts : fs = StoreCommitBlock(CloseFreeStore(FoldLeft(Filled, Fresh, files)))
  /\ saved = fs
  /\ openWriters = <<>> /\ openReaders = <<>> /\ nextHandle = 1
  /\ view = ViewOf(fs, saved, openWriters, openReaders)
  /\ answer = No /\ calls = 0

Done == calls = MaxCalls /\ UNCHANGED vars

(* The calls of a FileSystem that the Python class has, and the others (in which of    *)
(* them is reading: see FileContents); FileSystemVisitor has Next, with all that is     *)
(* made of them.                                                                      *)
BoundCalls ==
  \/ \E p \in Paths \cup LongPaths :
       \/ CreateFile(p) \/ AppendFile(p) \/ ReadFile(p) \/ RemovePath(p) \/ Ask(p)
       \/ \E value \in Attributes : AddAttribute(p, value)
  \/ \E h \in DOMAIN openWriters : Write(h) \/ CloseWriter(h) \/ AskWriter(h)
  \/ \E h \in DOMAIN openReaders : openReaders[h].known /\ (CloseReader(h) \/ AskReader(h))
  \/ Commit \/ Rollback
Step ==
  \/ BoundCalls
  \/ \E p \in Paths \cup LongPaths :
       \/ MakeSubFolder(p) \/ CreatePath(p) \/ ReducePath(p)
       \/ \E q \in Paths : Rename(p, q) \/ Rename(q, p)

(* A descriptor is that of an empty file, or names a table of the file and no more    *)
(* pages than it lists; folders were numbered before maxFolderId.                     *)
Descriptors(s) ==
  {fd \in [first : DOMAIN s.table, length : 1 .. MaxCalls + 1] : fd.length <= Len(s.table[fd.first])}
FsOK(s) ==
  LET files == Descriptors(s) \cup {Default}
      folders == {Root} \cup 2 .. s.maxFolderId - 1
      values == {FileValue(fd) : fd \in files} \cup {FolderValue(id) : id \in folders} \cup Attributes
  IN /\ CommitBlockKey \in DOMAIN s.dir
     /\ DOMAIN s.dir \ {CommitBlockKey}
          \subseteq {KeyOf(folder, name) : folder \in folders, name \in Names} \ {RootKey}
     /\ \A k \in DOMAIN s.dir \ {CommitBlockKey} : Fits(k) /\ Value(s, k) \in values
     /\ s.maxFolderId \in Nat
     /\ s.filesToDelete \in Seq(Descriptors(s))
     /\ s.free \subseteq 0 .. s.size - 1
     /\ DOMAIN s.table \subseteq 0 .. s.size - 1
     /\ \A p \in DOMAIN s.table : ToSet(s.table[p]) \subseteq DOMAIN fs.page
     /\ DOMAIN s.page \subseteq 0 .. fs.size - 1

(* The types, now and of what a rollback goes back to.                                *)
TypeOK ==
  /\ FsOK(fs) /\ FsOK(saved)
  /\ \A h \in DOMAIN openWriters :
       LET w == openWriters[h]
       IN /\ w.path \in Paths /\ NameOf(w.key) = NameBytes[Last(w.path)]
          /\ w.first \in DOMAIN fs.table \cup {INVALID} /\ ToSet(w.pages) \subseteq DOMAIN fs.page
  /\ \A h \in DOMAIN openReaders : openReaders[h] \in [file : Descriptors(fs) \cup {Default}, known : BOOLEAN]
  /\ nextHandle \in 1 .. MaxHandles + 1
  /\ DOMAIN openWriters \cup DOMAIN openReaders \subseteq 1 .. nextHandle - 1
  /\ answer \in Seq(Int) /\ calls \in 0 .. MaxCalls

(* Each page of the file belongs to one file, to one that is being written, to one    *)
(* that is to be deleted, or is free: none has two owners, none is lost.              *)
NewPages(w) ==
  SubSeq(w.pages, IF w.first = INVALID THEN 1 ELSE Len(fs.table[w.first]) + 1, Len(w.pages))
OwnedOnce ==
  /\ TypeOK
  /\ LET files == {k \in DOMAIN fs.dir : Is(fs, k, "File")}
         owned == {<<"file", k, FilePages(fs, FileOf(Value(fs, k)))>> : k \in files}
                  \cup {<<"writer", h, NewPages(openWriters[h])>> : h \in DOMAIN openWriters}
                  \cup {<<"deleted", i, FilePages(fs, fs.filesToDelete[i])>> : i \in DOMAIN fs.filesToDelete}
     IN /\ UNION {ToSet(o[3]) : o \in owned} \cup fs.free = 0 .. fs.size - 1
        /\ MapThenSumSet(LAMBDA o : Len(o[3]), owned) + Cardinality(fs.free) = fs.size
===================================================================================
