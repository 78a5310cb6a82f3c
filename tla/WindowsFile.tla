------------------------------- MODULE WindowsFile -------------------------------
(*********************************************************************************)
(* CompoundFs/WindowsFile.cpp, as PosixFile has it for the other systems.           *)
(*********************************************************************************)
EXTENDS Integers, Sequences

CONSTANTS
  PageSize,             \* cells of a page
  BlockSize             \* cells one call of ReadFile or WriteFile is asked for at most

(* mapToWindowsFileModes and mapToWindowsAccessFlags. *)
Flags ==
  [CreateNew |-> {"create", "excl", "write"}, CreateAlways |-> {"create", "write"},
   Open |-> {"create", "write"}, OpenExisting |-> {"write"}, ReadOnly |-> {}]

(* The size is rounded up to pages. *)
FileSizeInPages(f) == (Len(f) + PageSize - 1) \div PageSize

Access(ok, at, n) == [ok |-> ok, at |-> at, n |-> n]

ReadPage(f, id, offset, n) ==
  Access(offset + n <= PageSize /\ id < FileSizeInPages(f), PageSize * id + offset, n)
ReadPages(f, first, end) ==
  Access(end <= FileSizeInPages(f), PageSize * first, (end - first) * PageSize)

WritePage(f, id, offset, n) ==
  Access(offset + n <= PageSize /\ id < FileSizeInPages(f), PageSize * id + offset, n)
WritePages(f, first, end) ==
  Access(end <= FileSizeInPages(f), PageSize * first, (end - first) * PageSize)

ReadPagesInBlocks(n) == IF BlockSize < n THEN BlockSize ELSE n
WritePagesInBlocks(n) == IF BlockSize < n THEN BlockSize ELSE n

(* ReadFile. *)
Cells(f, at, n) == SubSeq(f, at + 1, IF at + n < Len(f) THEN at + n ELSE Len(f))

(* SetEndOfFile at a position.  What is added is not initialized; the file systems that *)
(* are used give zeros.                                                                 *)
EndAt(f, n) == [c \in 1..n |-> IF c <= Len(f) THEN f[c] ELSE 0]

(* WriteFile. *)
Put(f, at, n, value) ==
  LET long == IF Len(f) < at + n THEN EndAt(f, at + n) ELSE f
  IN  [c \in DOMAIN long |-> IF c \in (at + 1)..(at + n) THEN value ELSE long[c]]

Grow(f, length, pages) == EndAt(f, PageSize * pages + length)
NewInterval(length, pages) == <<length \div PageSize, length \div PageSize + pages>>

Truncate(f, pages) == EndAt(f, PageSize * pages)

(* The move constructor makes locks for the handle it takes over, operator= takes the   *)
(* locks over as well.                                                                  *)
Constructed(from) == [from EXCEPT !.lh = from.h]
Assigned(to, from) == from
==================================================================================
