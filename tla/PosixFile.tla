-------------------------------- MODULE PosixFile --------------------------------
(*********************************************************************************)
(* CompoundFs/PosixFile.cpp: what its operations make of a file.  A file f is the   *)
(* sequence of its cells, PageSize to a page; a position counts cells from zero.    *)
(*********************************************************************************)
EXTENDS Integers, Sequences

CONSTANTS
  PageSize,             \* cells of a page
  BlockSize             \* cells one call of read or write is asked for at most

(* mapToPosixFileModes: what open() is asked for. *)
Flags ==
  [CreateNew |-> {"create", "excl", "write"}, CreateAlways |-> {"create", "write"},
   Open |-> {"create", "write"}, OpenExisting |-> {"write"}, ReadOnly |-> {}]

(* The size is rounded up to pages. *)
FileSizeInPages(f) == (Len(f) + PageSize - 1) \div PageSize

(* What a call on pages comes to: whether it is made (or throws, and nothing happens),  *)
(* the position it begins at, and how many cells it reads or writes.                    *)
Access(ok, at, n) == [ok |-> ok, at |-> at, n |-> n]

ReadPage(f, id, offset, n) ==
  Access(offset + n <= PageSize /\ id < FileSizeInPages(f), id * PageSize + offset, n)
ReadPages(f, first, end) ==
  Access(end <= FileSizeInPages(f), first * PageSize, (end - first) * PageSize)

WritePage(f, id, offset, n) ==
  Access(offset + n <= PageSize /\ id < FileSizeInPages(f), id * PageSize + offset, n)
WritePages(f, first, end) ==
  Access(end <= FileSizeInPages(f), first * PageSize, (end - first) * PageSize)

(* What the next call of read or write is asked for when n cells are left. *)
ReadPagesInBlocks(n) == IF BlockSize < n THEN BlockSize ELSE n
WritePagesInBlocks(n) == IF BlockSize < n THEN BlockSize ELSE n

(* read(): what the file has at a position. *)
Cells(f, at, n) == SubSeq(f, at + 1, IF at + n < Len(f) THEN at + n ELSE Len(f))

(* ftruncate(): what is added is zero. *)
Resize(f, n) == [c \in 1..n |-> IF c \in DOMAIN f THEN f[c] ELSE 0]

(* write(): extends the file if need be. *)
Put(f, at, n, value) ==
  LET long == IF Len(f) < at + n THEN Resize(f, at + n) ELSE f
  IN  [c \in DOMAIN long |-> IF c \in (at + 1)..(at + n) THEN value ELSE long[c]]

(* newInterval: the length is asked for first, and the file then resized from there. *)
Grow(f, length, pages) == Resize(f, length + pages * PageSize)
NewInterval(length, pages) == <<length \div PageSize, length \div PageSize + pages>>

Truncate(f, pages) == Resize(f, pages * PageSize)

(* The move constructor makes locks for the description it takes over, operator= keeps *)
(* those the object has.                                                               *)
Constructed(from) == [from EXCEPT !.lh = from.h]
Assigned(to, from) == [from EXCEPT !.lh = to.lh]
==================================================================================
