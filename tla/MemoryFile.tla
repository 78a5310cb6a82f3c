-------------------------------- MODULE MemoryFile -------------------------------
(*********************************************************************************)
(* CompoundFs/MemoryFile.cpp: a file of whole pages in memory, shared by the         *)
(* threads of a process through WrappedFile.  A file is a sequence of cells as in    *)
(* PosixFile; its pages are read, written and added one after the other.             *)
(*********************************************************************************)
EXTENDS Integers, Sequences

CONSTANT PageSize       \* cells of a page

FileSizeInPages(f) == Len(f) \div PageSize

Access(ok, at, n) == [ok |-> ok, at |-> at, n |-> n]

(* m_file.at(id): throws when there is no such page.  The other calls look their pages   *)
(* up one by one, when their turn comes.                                                 *)
ReadPage(f, id, offset, n) ==
  Access(id < FileSizeInPages(f) /\ offset + n <= PageSize, id * PageSize + offset, n)
WritePage(f, id, offset, n) ==
  Access(id < FileSizeInPages(f) /\ offset + n <= PageSize, id * PageSize + offset, n)

ReadPages(f, first, end) == Access(TRUE, first * PageSize, (end - first) * PageSize)
WritePages(f, first, end) == Access(TRUE, first * PageSize, (end - first) * PageSize)

(* They copy a page at a time. *)
NextPage(n) == IF PageSize < n THEN PageSize ELSE n

Cells(f, at, n) == SubSeq(f, at + 1, at + n)
Put(f, at, n, value) == [c \in DOMAIN f |-> IF c \in (at + 1)..(at + n) THEN value ELSE f[c]]

(* newInterval adds a page at a time.  PageAllocator does not clear a page that was       *)
(* truncated away and is used again: it has any contents.                                *)
AddPage(f, value) == f \o [c \in 1..PageSize |-> value]
NewInterval(length, pages) == <<length \div PageSize, length \div PageSize + pages>>

Truncate(f, pages) == SubSeq(f, 1, pages * PageSize)
==================================================================================
