----------------------------- MODULE FileSystemHelper -----------------------------
(*********************************************************************************)
(* CompoundFs/FileSystemHelper.cpp: copy, of a file or an attribute, or of a folder  *)
(* with what is in it, by the calls of a FileSystem; from and to the same one.  And    *)
(* importFiles of py_txfs/Bindings.cpp, which does the same with files of the disk.    *)
(*********************************************************************************)
EXTENDS FileSystem

CONSTANTS
  MaxEntries,           \* of a folder copied at a time: 64
  Imports               \* what may be imported: sequences of ImportedFolder and ImportedFile

ASSUME HelperOK == MaxEntries \in Nat \ {0}

BufferBlocks == 32      \* m_buffer, in blocks

(* A copy under way: the transaction, the readers that stay open, the next handle    *)
(* and the number of entries copied.                                                  *)
Copying == [s |-> fs, left |-> <<>>, next |-> nextHandle, copied |-> 0]

(* copyPhysicalFile goes on by whole buffers: after the end of the file it writes     *)
(* what the buffer still holds.                                                       *)
Copied(content) ==
  LET n == Len(content)
      size == Min({n, BufferBlocks})
      rounded == IF n = 0 THEN 0 ELSE ((n + size - 1) \div size) * size
  IN [i \in 1 .. rounded |-> content[IF i <= n THEN i ELSE i - size]]

(* A new file under a key, written and closed; what was there is deleted. *)
WithFile(s, key, content) ==
  LET t == DeleteFile(Set(s, key, FileValue(Default)),
                      IF Has(s, key) THEN FileOf(Value(s, key)) ELSE Default)
      Put(w, block) == [s |-> Written(w.s, block), pages |-> Append(w.pages, NextPage(w.s))]
      w == FoldLeft(Put, [s |-> t, pages |-> <<>>], content)
  IN CloseFile(w.s, [NewWriter(key, <<>>) EXCEPT !.pages = w.pages])

(* A TreeEntry is a key and its value, as a cursor had them.  The reader stays open   *)
(* where no file can be made.                                                         *)
Entry(key, value) == [key |-> key, value |-> value]
CopyFile(c, from, to) ==
  LET fd == FileOf(Value(c.s, from))
  IN IF Has(c.s, to) /\ ~Is(c.s, to, "File")
     THEN [c EXCEPT !.left = (c.next :> Reader(fd, FALSE)) @@ @, !.next = @ + 1]
     ELSE [c EXCEPT !.s = WithFile(@, to, Copied(Content(@, fd))),
                    !.next = @ + 2, !.copied = @ + 1]

(* copyType and copyFolder: a folder that is already there is filled up.  Entries are *)
(* read MaxEntries at a time; the last one, or the place where it was, leads on.      *)
RECURSIVE CopyEntries(_, _, _)
CopyFolder(c, from, to) == CopyEntries(c, Begin(c.s, DirectoryKey(from, <<>>)), to)
CopyEntry(c, entry, to) ==
  LET kind == KindOf(entry.value)
      t == MakeFolder(c.s, to)
      folder == SubFolder(t, to)
  IN CASE kind = "File" -> CopyFile(c, entry.key, to)
       [] kind = "Attribute" ->
            IF Has(c.s, to) /\ ~Is(c.s, to, "Attribute") THEN c
            ELSE [c EXCEPT !.s = Set(@, to, entry.value), !.copied = @ + 1]
       [] kind = "Folder" ->
            IF folder = NoFolder THEN c
            ELSE [CopyFolder([c EXCEPT !.s = t], FolderOf(entry.value), folder) EXCEPT !.copied = @ + 1]
CopyEntries(c, cursor, to) ==
  LET keys == KeysFrom(c.s, cursor, MaxEntries)
      entries == [i \in DOMAIN keys |-> Entry(keys[i], Value(c.s, keys[i]))]
      d == FoldLeft(LAMBDA e, entry : CopyEntry(e, entry, DirectoryKey(to, NameOf(entry.key))), c, entries)
      last == Last(keys)
  IN IF cursor = NoKey THEN c
     ELSE CopyEntries(d, IF Has(d.s, last) THEN NextOf(d.s, last) ELSE Begin(d.s, last), to)

(* A call that made a copy c. *)
ReturnCopy(c, a) ==
  /\ c.next <= MaxHandles + 1 /\ nextHandle' = c.next
  /\ openReaders' = openReaders @@ c.left
  /\ Call(c.s, a) /\ UNCHANGED <<saved, openWriters>>

(* What is at or below a path, and where that goes in a copy from p to q. *)
At(p) == {r \in DOMAIN view.entries : IsPrefix(p, r)}
Moved(p, q, r) == q \o SubSeq(r, Len(p) + 1, Len(r))

(* Neither is in the other: a copy of a folder into itself does not end. *)
Apart(p, q) == p = q \/ \A r \in At(p) : ~IsStrictPrefix(p, q) /\ Moved(p, q, r) \notin At(p)

(* What is not a folder would get the empty name in the root. *)
ToRoot(s, key, to) == to = RootKey /\ ~Is(s, key, "Folder")

(* The cursor to the source was set before the folders above q are made: it then      *)
(* shows some other entry of its leaf.                                                *)
Copy(p, q) ==
  LET from == Normalize(fs, p)
      k == Key(from, p)
      to == Create(fs, q)
      found == IF to.s = fs THEN {k} ELSE {l \in DOMAIN fs.dir : ~Is(fs, l, "Folder")}
  IN /\ Apart(Plain(p), Plain(q)) /\ ~Busy(q)
     /\ IF from.folder = NoFolder \/ ~Has(fs, k) THEN Return(fs, Removed(0))
        ELSE /\ OneUser => to.s = fs
             /\ IF to.folder = NoFolder THEN Return(to.s, Removed(0))
                ELSE \E l \in found :
                       LET c == CopyEntry([Copying EXCEPT !.s = to.s], Entry(l, Value(fs, l)), Key(to, q))
                       IN ~ToRoot(fs, l, Key(to, q)) /\ ReturnCopy(c, Removed(c.copied))

(* retrieveFolderContents: the names in a folder. *)
List(p) ==
  LET w == Normalize(fs, p)
      folder == SubFolder(fs, Key(w, p))
      keys == KeysIn(fs, folder)
  IN Return(fs, <<-3>> \o IF w.folder = NoFolder \/ folder = NoFolder THEN <<>>
                          ELSE [i \in DOMAIN keys |-> NameIn(keys[i])])

-----------------------------------------------------------------------------------
(* py_txfs/Bindings.cpp.  What a cursor comes by to the end of its folder: for dir the *)
(* names, from that of the path on, and for sub_folder the values too, but for the     *)
(* numbers of folders.                                                                *)
Entries(cursor) ==
  LET keys == KeysFrom(fs, cursor, Cardinality(DOMAIN fs.dir))
  IN [i \in DOMAIN keys |-> Entry(keys[i], Value(fs, keys[i]))]
Dir(p) ==
  LET Rest(w) ==
        LET all == IF w.folder = NoFolder THEN <<>> ELSE Entries(Begin(fs, Key(w, p)))
        IN Return(fs, <<-3>> \o [i \in DOMAIN all |-> NameIn(all[i].key)])
  IN Looking(Normalize(fs, p), Rest)
AsVariant(value) ==
  IF value.type = "File" THEN <<FileOf(value).length>>
  ELSE IF value.type \in {"Folder", "Unknown"} THEN <<>> ELSE value.fields
ListFolder(p) ==
  LET key == Find(fs, p)
      all == Entries(Begin(fs, DirectoryKey(SubFolder(fs, key), <<>>)))
  IN /\ key # NoKey /\ Is(fs, key, "Folder")
     /\ Return(fs, <<-5>> \o FlattenSeq([i \in DOMAIN all |-> <<NameIn(all[i].key)>> \o AsVariant(all[i].value)]))

(* importFiles: the entries of a folder of the disk, each after the one it is in, go  *)
(* below q.  Of a folder only those above it are made; a file is written by the       *)
(* buffer, of which the last one is not full.                                         *)
ImportedFolder(path) == [kind |-> "Folder", path |-> path]
ImportedFile(path, content) == [kind |-> "File", path |-> path, content |-> content]
ImportEntry(c, e, q) ==
  LET w == Create(c.s, q \o e.path)
  IN IF e.kind = "Folder" THEN [c EXCEPT !.s = w.s]
     ELSE [c EXCEPT !.s = WithFile(w.s, Key(w, q \o e.path), e.content), !.next = @ + 1]

(* Where no file can be made, importFiles takes a handle from nothing: left out. *)
Importable(q, entries) ==
  \A i \in DOMAIN entries :
    LET path == Plain(q \o entries[i].path)
        above == {SubSeq(path, 1, n) : n \in 1 .. Len(path) - 1} \cap DOMAIN view.entries
    IN /\ \A r \in above : view.entries[r].type = "Folder"
       /\ path \in DOMAIN view.entries => view.entries[path].type = entries[i].kind
ImportFiles(q, entries) ==
  LET c == FoldLeft(LAMBDA d, e : ImportEntry(d, e, q), Copying, entries)
  IN ~Busy(q) /\ Importable(q, entries) /\ ReturnCopy(c, Yes)
===================================================================================
