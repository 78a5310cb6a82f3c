----------------------------- MODULE FileSystemVisitor ----------------------------
(*********************************************************************************)
(* CompoundFs/FileSystemVisitor.h and .cpp: the walk over a tree and the visitors     *)
(* that compare it with another one or copy it, here within one FileSystem.  A        *)
(* FileSystem and all that is done with it make up the specification.                 *)
(*********************************************************************************)
EXTENDS FileSystemHelper

CONSTANTS
  VisitStack,           \* elements a stack of the visitors has room for: 10
  SinkEntries,          \* how many entries an FsBufferSink keeps
  LongestEntry,         \* 512
  BufferBytes           \* of a TempFileBuffer: 4096

ASSUME SinksOK ==
  /\ VisitStack \in Nat \ {0} /\ SinkEntries \in Nat \ {0}
  /\ LongestEntry = 2 * (1 + MaxSize) /\ BufferBytes \in Nat /\ BufferBytes >= LongestEntry

Stack == INSTANCE SmallBufferStack WITH SIZE <- VisitStack, NoElement <- INVALID

RootPath == <<0>>

(* The walk of visit: the cursor, the cursors to go back to, the entries visited.     *)
BeginOf(folder) == Begin(fs, DirectoryKey(folder, <<>>))
Settled(w) ==
  LET Back(v, i) ==
        IF v.cursor # NoKey \/ Stack!IsEmpty(v.stack) THEN v
        ELSE [v EXCEPT !.cursor = Stack!Top(v.stack), !.stack = Stack!Pop(@)]
  IN FoldLeft(Back, w, [i \in 1 .. Stack!StackSize(w.stack) |-> i])
Visited(w) ==
  LET key == w.cursor
      seen == [w EXCEPT !.entries = Append(@, Entry(key, Value(fs, key)))]
  IN IF key = NoKey THEN w
     ELSE IF Is(fs, key, "Folder")
     THEN Settled([seen EXCEPT !.stack = Stack!Push(@, NextOf(fs, key)),
                               !.cursor = BeginOf(FolderOf(Value(fs, key)))])
     ELSE Settled([seen EXCEPT !.cursor = NextOf(fs, key)])

(* prepareVisit: the root has no entry, and is visited all the same. *)
Prepared(p) ==
  LET key == Find(fs, p)
  IN IF p = RootPath THEN <<Entry(RootKey, FolderValue(Root))>>
     ELSE IF key # NoKey THEN <<Entry(key, Value(fs, key))>> ELSE <<>>
Walked(p) ==
  LET entries == Prepared(p)
      value == Head(entries).value
      below == IF KindOf(value) = "Folder" THEN BeginOf(FolderOf(value)) ELSE NoKey
  IN IF entries = <<>> THEN <<>>
     ELSE FoldLeft(LAMBDA w, i : Visited(w),
                   [cursor |-> below, stack |-> Stack!EmptyStack, entries |-> entries],
                   [i \in 1 .. Cardinality(DOMAIN fs.dir) |-> i]).entries

(* currentDestPath: under the folder that goes with the folder of the source. *)
Folders(stack, key) ==
  FoldLeft(LAMBDA s, i : IF Stack!Top(s).source = GetFolder(key) THEN s ELSE Stack!Pop(s),
           stack, [i \in 2 .. Stack!StackSize(stack) |-> i])
Under(stack, key) == DirectoryKey(Stack!Top(stack).dest, NameOf(key))
SourceDestFolder(source, dest) == [source |-> source, dest |-> dest]

-----------------------------------------------------------------------------------
Shown(entries) == <<-1>> \o [i \in DOMAIN entries |-> NameIn(entries[i].key)]
Equal == <<1, 1>>
NotEqual == <<1, 2>>
NotFound == <<1, 3>>

(* visit, with a visitor that only looks. *)
Visit(walked) == Return(fs, Shown(walked))

(* A visitor is a copying with a stack, and with a result where it compares.           *)
FsCopyVisitor == [stack |-> Stack!EmptyStack] @@ Copying
FsCompareVisitor == [result |-> Equal] @@ FsCopyVisitor

(* FsCompareVisitor: an entry of the one tree and what is there in the other; the     *)
(* readers of files that are compared stay open.                                      *)
CompareEntry(c, entry, path) ==
  LET first == Stack!IsEmpty(c.stack)
      stack == IF first THEN c.stack ELSE Folders(c.stack, entry.key)
      w == Normalize(fs, path)
      to == IF first THEN Key(w, path) ELSE Under(stack, entry.key)
      value == entry.value
      there == IF to = RootKey THEN FolderValue(Root) ELSE Value(fs, to)
      a == FileOf(value)
      b == FileOf(there)
  IN CASE c.result # Equal -> c
       [] c.result = Equal /\ ((first /\ w.folder = NoFolder) \/ (to # RootKey /\ ~Has(fs, to))) ->
            [c EXCEPT !.result = NotFound]
       [] OTHER ->
            IF value.type # there.type THEN [c EXCEPT !.result = NotEqual]
            ELSE CASE KindOf(value) = "Folder" ->
                        [c EXCEPT !.stack = Stack!Push(stack, SourceDestFolder(FolderOf(value), FolderOf(there)))]
                   [] KindOf(value) = "Attribute" ->
                        [c EXCEPT !.stack = stack, !.result = IF SameValue(value, there) THEN Equal ELSE NotEqual]
                   [] KindOf(value) = "File" ->
                        [c EXCEPT !.stack = stack, !.next = @ + 2,
                                  !.left = (c.next :> Reader(a, FALSE)) @@ (c.next + 1 :> Reader(b, FALSE)) @@ @,
                                  !.result = IF Content(fs, a) = Content(fs, b) THEN Equal ELSE NotEqual]
Compare(walked, q) ==
  LET c == FoldLeft(LAMBDA d, entry : CompareEntry(d, entry, q), FsCompareVisitor, walked)
  IN ReturnCopy(c, c.result)

(* TempFileBuffer: entries go to a file and come back through a buffer, which is       *)
(* filled up when less is left in it than the longest entry takes.                    *)
Stored(entry) == WithLength(entry.key) \o WithLength(ToStream(entry.value))
Read(file, n) == SubSeq(file, 1, Min({n, Len(file)}))
Rest(file, n) == SubSeq(file, Len(Read(file, n)) + 1, Len(file))
TempFile(file) == [buffer |-> <<>>, pos |-> 0, rest |-> file, entries |-> <<>>]
StartReading(b) ==
  [b EXCEPT !.buffer = Read(b.rest, BufferBytes), !.rest = Rest(@, BufferBytes)]
Reload(b) ==
  IF Len(b.buffer) < BufferBytes \/ BufferBytes - b.pos >= LongestEntry THEN b
  ELSE [b EXCEPT !.buffer = SubSeq(@, b.pos + 1, Len(@)) \o Read(b.rest, b.pos), !.pos = 0,
                 !.rest = Rest(@, b.pos)]
ReadEntry(b) ==
  LET key == StringAt(b.buffer, b.pos)
      stream == StringAt(b.buffer, b.pos + 1 + Len(key))
  IN Reload([b EXCEPT !.pos = @ + 2 + Len(key) + Len(stream),
                      !.entries = Append(@, Entry(key, FromStream(stream)))])
ReadBack(entries) ==
  FoldLeft(LAMBDA b, entry : IF b.pos = Len(b.buffer) THEN b ELSE ReadEntry(b),
           StartReading(TempFile(FlattenSeq([i \in DOMAIN entries |-> Stored(entries[i])]))),
           entries).entries

(* An FsBufferSink before an FsFileBufferSink: whole portions go to the file; at the   *)
(* end come the entries of the file and then those of the last portion.               *)
PassedOn(entries) ==
  LET whole == (Len(entries) \div SinkEntries) * SinkEntries
  IN ReadBack(SubSeq(entries, 1, whole)) \o SubSeq(entries, whole + 1, Len(entries))

(* FsCopyVisitor behind these sinks, which go on when the visitor says Break: all is   *)
(* copied at the end of the walk.                                                     *)
CopyVisited(c, entry, path) ==
  LET first == Stack!IsEmpty(c.stack)
      stack == IF first THEN c.stack ELSE Folders(c.stack, entry.key)
      w == IF first THEN Create(c.s, path) ELSE [s |-> c.s, folder |-> Root]
      to == IF first THEN Key(w, path) ELSE Under(stack, entry.key)
      d == [c EXCEPT !.s = w.s, !.stack = stack]
      t == MakeFolder(w.s, to)
      kind == KindOf(entry.value)
  IN CASE kind = "Folder" /\ w.folder # NoFolder ->
            [d EXCEPT !.s = t,
                      !.stack = Stack!Push(@, SourceDestFolder(FolderOf(entry.value), SubFolder(t, to)))]
       [] kind # "Folder" /\ w.folder # NoFolder -> CopyEntry(d, entry, to)
       [] kind = "File" /\ w.folder = NoFolder ->
            [d EXCEPT !.left = (c.next :> Reader(FileOf(Value(c.s, entry.key)), FALSE)) @@ @, !.next = @ + 1]
       [] kind # "File" /\ w.folder = NoFolder -> d

(* Where a folder meets something else, the visitor takes a folder from an empty      *)
(* stack; what is copied onto a file that is still to be copied changes that: both     *)
(* are left out, and what would get the empty name in the root.                       *)
TypeAt(r) == IF r = <<>> THEN "Folder" ELSE view.entries[r].type
Tree(p) == At(p) \cup ({<<>>} \cap {p})
Copyable(p, q) ==
  \A r \in Tree(p) :
    LET m == Moved(p, q, r)
    IN /\ m \in Tree(<<>>) /\ TypeAt(r) = "Folder" => TypeAt(m) = "Folder"
       /\ p # q /\ m \in At(p) => TypeAt(r) = "Folder" /\ TypeAt(m) = "Folder"
       /\ m = <<>> => TypeAt(r) = "Folder"
CopyTree(p, walked, q) ==
  LET c == FoldLeft(LAMBDA d, entry : CopyVisited(d, entry, q), FsCopyVisitor, PassedOn(walked))
  IN Copyable(Plain(p), Plain(q)) /\ ~Busy(q) /\ ReturnCopy(c, Yes)

-----------------------------------------------------------------------------------
Tools ==
  \/ \E p \in Paths : ListFolder(p) \/ \E q \in Paths \cup {RootPath} : Copy(p, q)
  \/ \E p \in Paths \cup LongPaths : Dir(p)
  \/ \E p \in Paths \cup {RootPath} :
       \/ List(p) \/ \E files \in Imports : ImportFiles(p, files)
       \/ \E walked \in {Walked(p)} :
            Visit(walked) \/ \E q \in Paths \cup {RootPath} : Compare(walked, q) \/ CopyTree(p, walked, q)

(* No entry is so deep that it is not looked for, and every folder has a number. *)
Next ==
  \/ /\ calls < MaxCalls
     /\ Step \/ Tools
     /\ view' = IF UNCHANGED <<fs, saved, openWriters, openReaders>> THEN view
                ELSE ViewOf(fs', saved', openWriters', openReaders')
     /\ \A r \in DOMAIN view'.entries : Len(r) < MaxDepth
     /\ fs'.maxFolderId <= ByteValues ^ FolderBytes
  \/ Done

Spec == Init /\ [][Next]_vars

Promise == INSTANCE FileTree WITH
  Paths <- {Plain(p) : p \in Paths \cup LongPaths},
  LongNames <- {n \in Names : ~Fits(KeyOf(Root, n))},
  Attributes <- {ToStream(value) : value \in Attributes},
  LongValues <- {ToStream(value) : value \in {v \in Attributes : ~Fits(ToStream(v))}},
  entries <- view.entries, committed <- view.committed,
  writers <- view.writers, readers <- view.readers

(* A tree of files: every call does to the paths, and answers, what it should, a walk  *)
(* passes every entry once and in order, and no page of a file in the tree, of one     *)
(* that is being written or read, or of one that a rollback brings back is ever given  *)
(* to another.                                                                         *)
ImplementsFileTree == Promise!Spec
===================================================================================
