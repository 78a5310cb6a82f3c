------------------------------- MODULE FileContents -------------------------------
(*********************************************************************************)
(* CompoundFs/FileWriter.h and FileReader.h: the bytes of a file, on pages that a    *)
(* list of FileTables names.  One file of a FileSystem, written anew, appended to    *)
(* and read, with commits and rollbacks; what a transaction overwrites is free when  *)
(* it is committed.                                                                  *)
(*********************************************************************************)
EXTENDS FileTable, Functions

CONSTANTS
  PageSize,             \* 4096
  HighWaterMark,        \* intervals a writer keeps before it writes them to tables
  InitialFree,          \* sets of free pages to begin with
  Writes, Reads,        \* how many bytes calls write and read
  MaxCalls              \* bound: calls

ASSUME ConstantsOK ==
  /\ PageSize \in Nat \ {0} /\ HighWaterMark \in Nat \ {0} /\ MaxCalls \in Nat
  /\ InitialFree \subseteq SUBSET Nat /\ Writes \subseteq Nat \ {0} /\ Reads \subseteq Nat \ {0}

VARIABLES
  tx,                   \* the transaction: table, free and other pages, size, file, deleted
  saved,                \* tx as of the last commit
  byte,                 \* <<page, offset>> -> byte, in the file
  writer,               \* FileWriter: fd, seq, table; NoWriter
  reader,               \* FileReader: pos, size, seq, next, and fd, what was opened; NoReader
  answer,               \* the bytes the last call returned
  view,                 \* ViewOf the state
  calls

vars == <<tx, saved, byte, writer, reader, answer, view, calls>>

Default == [first |-> INVALID, last |-> INVALID, size |-> 0]    \* FileDescriptor()
NoWriter == <<>>
NoReader == <<>>

PagesFor(bytes) == (bytes + PageSize - 1) \div PageSize

-----------------------------------------------------------------------------------
(* Pages: runs of free ones, then new ones. *)
FirstRun(free, max) ==
  LET from == Min(free)
      to == Min({p \in from + 1 .. from + max : p \notin free \/ p = from + max})
  IN Interval(from, to)
NextRun(t, max) == IF t.free = {} THEN Interval(t.size, t.size + max) ELSE FirstRun(t.free, max)
Taken(t, iv) ==
  IF t.free = {} THEN [t EXCEPT !.size = iv.end]
  ELSE [t EXCEPT !.free = @ \ (iv.begin .. iv.end - 1)]

(* A writer at work: the transaction t, the writer w and the bytes of the file b. *)
Working == [t |-> tx, w |-> writer, b |-> byte]

(* writePage and writePages: bytes to the page from an offset on, then to the pages   *)
(* that follow it.                                                                    *)
Put(b, page, offset, bytes) ==
  LET Place(n) == <<page + (n \div PageSize), n % PageSize>>
  IN [l \in {Place(offset + i - 1) : i \in DOMAIN bytes} |->
        bytes[(l[1] - page) * PageSize + l[2] - offset + 1]] @@ b

-----------------------------------------------------------------------------------
(* FileWriter *)

(* pushFileTable: the intervals go to the writer's table and, where it is full, to    *)
(* new ones behind it.                                                                *)
NewTable(k) ==
  LET p == NextRun(k.t, 1).begin
  IN [k EXCEPT !.t = [Taken(@, NextRun(@, 1)) EXCEPT !.table = (p :> EmptyTable) @@ @], !.w.table = p]
Fill(k) ==
  [k EXCEPT !.t.table[k.w.table].ivs = Transferred(k.w.seq), !.w.seq = NotTransferred(@)]
Continue(k) ==
  LET n == NewTable(k)
  IN IF k.w.seq = <<>> THEN k
     ELSE Fill([n EXCEPT !.t.table[k.w.table].next = n.w.table])
PushFileTable(k) ==
  LET cur == Fill(IF k.w.table = INVALID THEN NewTable(k) ELSE k)
      first == IF cur.w.fd.first = INVALID THEN [cur EXCEPT !.w.fd.first = cur.w.table] ELSE cur
  IN IF k.w.seq = <<>> THEN k
     ELSE FoldLeft(LAMBDA c, i : Continue(c), first, k.w.seq)

OpenAppend(t, fd) ==
  IF fd = Default THEN [fd |-> fd, seq |-> <<>>, table |-> INVALID]
  ELSE [fd |-> fd, seq |-> InsertInto(t.table[fd.last], <<>>), table |-> fd.last]

(* The parts of a write: up to the end of the last page, whole pages, the rest.       *)
FillPage(k, bytes) ==
  IF bytes = <<>> THEN k
  ELSE [k EXCEPT !.b = Put(@, Last(k.w.seq).end - 1, k.w.fd.size % PageSize, bytes)]
PutRun(k, iv, bytes) ==
  [t |-> Taken(k.t, iv), w |-> [k.w EXCEPT !.seq = PushBack(@, iv)], b |-> Put(k.b, iv.begin, 0, bytes)]
FullPages(k, bytes) ==
  FoldLeft(LAMBDA c, i :
             LET pages == Len(c.left) \div PageSize
                 iv == NextRun(c.k.t, pages)
                 n == Length(iv) * PageSize
             IN IF pages = 0 THEN c
                ELSE [k |-> PutRun(c.k, iv, SubSeq(c.left, 1, n)),
                      left |-> SubSeq(c.left, n + 1, Len(c.left))],
           [k |-> k, left |-> bytes], bytes).k
LastPage(k, bytes) == IF bytes = <<>> THEN k ELSE PutRun(k, NextRun(k.t, 1), bytes)

Flushed(k) ==
  LET p == PushFileTable(k)
  IN IF Len(k.w.seq) < HighWaterMark THEN k
     ELSE [p EXCEPT !.w.seq = InsertInto(p.t.table[p.w.table], @)]

Written(k, bytes) ==
  LET room == (PageSize - (k.w.fd.size % PageSize)) % PageSize
      head == Min({room, Len(bytes)})
      whole == ((Len(bytes) - head) \div PageSize) * PageSize
      filled == FillPage(k, SubSeq(bytes, 1, head))
      full == FullPages(filled, SubSeq(bytes, head + 1, head + whole))
      all == LastPage(full, SubSeq(bytes, head + whole + 1, Len(bytes)))
  IN Flushed([all EXCEPT !.w.fd.size = @ + Len(bytes)])

(* close, and updateFile with what it returns. *)
Closed(k) ==
  LET p == PushFileTable(k)
  IN [p.t EXCEPT !.file = IF p.w.table = INVALID THEN p.w.fd ELSE [p.w.fd EXCEPT !.last = p.w.table]]

-----------------------------------------------------------------------------------
(* FileReader *)
Opened(t, fd) ==
  [pos |-> 0, size |-> fd.size, fd |-> fd,
   seq |-> IF fd = Default THEN <<>> ELSE InsertInto(t.table[fd.first], <<>>),
   next |-> IF fd = Default THEN INVALID ELSE t.table[fd.first].next]

(* nextInterval loads the next table when there is nothing left of the last one. *)
Loaded(r) ==
  IF r.seq # <<>> \/ r.next = INVALID THEN r
  ELSE [r EXCEPT !.seq = InsertInto(tx.table[r.next], @), !.next = tx.table[r.next].next]
Dropped(r, max) == [r EXCEPT !.seq = PopFront(@, max)]

Get(page, offset, n) ==
  LET Place(m) == <<page + (m \div PageSize), m % PageSize>>
  IN [i \in 1 .. n |-> byte[Place(offset + i - 1)]]

(* Mutant of RestOfPage: a page that is read to its end is kept. *)
RestOfPageKept(g, n) ==
  LET offset == g.r.pos % PageSize
      page == g.r.seq[1].begin
      whole == offset + n > PageSize
      m == IF whole THEN PageSize - offset ELSE n
  IN IF offset = 0 THEN g
     ELSE [r |-> IF whole THEN Dropped(g.r, 1) ELSE g.r, bytes |-> Get(page, offset, m)]

(* The parts of a read of n bytes: g has the reader and the bytes. *)
RestOfPage(g, n) ==
  LET offset == g.r.pos % PageSize
      page == g.r.seq[1].begin
      whole == offset + n >= PageSize
      m == IF whole THEN PageSize - offset ELSE n
  IN IF offset = 0 THEN g
     ELSE [r |-> IF whole THEN Dropped(g.r, 1) ELSE g.r, bytes |-> Get(page, offset, m)]
ReadPages(g, n) ==
  FoldLeft(LAMBDA c, i :
             LET pages == (n - Len(c.bytes)) \div PageSize
                 r == Loaded(c.r)
                 iv == Popped(r.seq, pages)
             IN IF pages = 0 THEN c
                ELSE [r |-> Dropped(r, pages), bytes |-> c.bytes \o Get(iv.begin, 0, Length(iv) * PageSize)],
           g, [i \in 1 .. n |-> i])
StartOfPage(g, n) ==
  LET m == n - Len(g.bytes)
      r == Loaded(g.r)
  IN IF m = 0 THEN g ELSE [r |-> r, bytes |-> g.bytes \o Get(r.seq[1].begin, 0, m)]

(* What a read of up to max bytes makes of the reader, and the bytes. *)
ReadBytes(r, max) ==
  LET n == Min({max, r.size - r.pos})
      g == StartOfPage(ReadPages(RestOfPage([r |-> r, bytes |-> <<>>], n), n), n)
  IN IF n = 0 THEN [r |-> r, bytes |-> <<>>] ELSE [g EXCEPT !.r.pos = @ + n]

-----------------------------------------------------------------------------------
(* The bytes on the pages of a list of intervals, and what there is to see of a file,  *)
(* as it is and as committed, of a writer and of a reader.                            *)
BytesOn(b, is, n) ==
  LET pages == FlattenSeq([i \in DOMAIN is |-> [j \in 1 .. Length(is[i]) |-> is[i].begin + j - 1]])
  IN [i \in 1 .. n |-> b[<<pages[((i - 1) \div PageSize) + 1], (i - 1) % PageSize>>]]
ContentOf(t, b, fd) == BytesOn(b, ChainIntervals(t.table, fd.first), fd.size)
WriterIntervals(t, w) ==
  LET before == SelectSeq(Chain(t.table, w.fd.first), LAMBDA p : p # w.table)
  IN FlattenSeq([i \in DOMAIN before |-> t.table[before[i]].ivs]) \o w.seq
ViewOf(t, old, b, w, r) ==
  [content |-> ContentOf(t, b, t.file), committed |-> ContentOf(old, b, old.file),
   writing |-> IF w = NoWriter THEN <<>> ELSE <<BytesOn(b, WriterIntervals(t, w), w.fd.size)>>,
   reading |-> IF r = NoReader THEN <<>> ELSE <<ContentOf(t, b, r.fd)>>]

-----------------------------------------------------------------------------------
Call == calls < MaxCalls /\ calls' = calls + 1
Same == answer' = <<>> /\ UNCHANGED <<saved, reader>>

(* The old file is deleted: createFile. *)
CreateNew ==
  /\ Call /\ Same /\ writer = NoWriter
  /\ tx' = [tx EXCEPT !.file = Default, !.deleted = @ \cup ({tx.file.first} \ {INVALID})]
  /\ writer' = OpenAppend(tx, Default) /\ UNCHANGED byte

AppendTo ==
  /\ Call /\ Same /\ writer = NoWriter
  /\ writer' = OpenAppend(tx, tx.file) /\ UNCHANGED <<tx, byte>>

(* The bytes of each call are others. *)
Piece(n, call) == [i \in 1 .. n |-> 10 * call + i]
Write(n) ==
  LET k == Written(Working, Piece(n, calls))
  IN /\ Call /\ Same /\ writer # NoWriter
     /\ tx' = k.t /\ writer' = k.w /\ byte' = k.b

Close ==
  /\ Call /\ Same /\ writer # NoWriter
  /\ tx' = Closed(Working) /\ writer' = NoWriter /\ UNCHANGED byte

OpenReader ==
  /\ Call /\ reader' = Opened(tx, tx.file) /\ answer' = <<>>
  /\ UNCHANGED <<tx, saved, byte, writer>>

Read(n) ==
  LET g == ReadBytes(reader, n)
  IN /\ Call /\ reader # NoReader
     /\ reader' = g.r /\ answer' = g.bytes /\ UNCHANGED <<tx, saved, byte, writer>>

EndOfTransaction(t) ==
  /\ Call /\ tx' = t /\ saved' = t
  /\ writer' = NoWriter /\ reader' = NoReader /\ answer' = <<>>
(* Mutant of Freed: the tables of a deleted file are not given back. *)
FreedContents(t) == UNION {PagesOf(ChainIntervals(t.table, p)) : p \in t.deleted}
Freed(t) == UNION {ChainPages(t.table, p) : p \in t.deleted}
Commit ==
  LET t == IF writer = NoWriter THEN tx ELSE Closed(Working)
  IN /\ EndOfTransaction([t EXCEPT !.deleted = {}, !.free = @ \cup Freed(t)])
     /\ UNCHANGED byte
(* The file is cut to its old size. *)
Rollback ==
  /\ EndOfTransaction(saved)
  /\ byte' = Restrict(byte, {l \in DOMAIN byte : l[1] < saved.size})

Init ==
  /\ \E free \in InitialFree :
       LET size == Max({-1} \cup free) + 1
       IN tx = [table |-> <<>>, free |-> free, other |-> (0 .. size - 1) \ free, size |-> size,
                file |-> Default, deleted |-> {}]
  /\ saved = tx /\ byte = <<>> /\ writer = NoWriter /\ reader = NoReader
  /\ answer = <<>> /\ calls = 0 /\ view = ViewOf(tx, saved, byte, writer, reader)

Done == calls = MaxCalls /\ UNCHANGED vars

Step ==
  \/ CreateNew \/ AppendTo \/ Close \/ OpenReader \/ Commit \/ Rollback
  \/ \E n \in Writes : Write(n)
  \/ \E n \in Reads : Read(n)

Next == (Step /\ view' = ViewOf(tx', saved', byte', writer', reader')) \/ Done

Spec == Init /\ [][Next]_vars

-----------------------------------------------------------------------------------
Promise == INSTANCE ByteFile WITH
  Pieces <- {Piece(n, c) : n \in Writes, c \in 0 .. MaxCalls}, Sizes <- Reads,
  content <- view.content, committed <- view.committed,
  writing <- view.writing, reading <- view.reading,
  position <- IF reader = NoReader THEN 0 ELSE reader.pos

(* What is written is what is read, in whatever pieces: bytes come where the offset   *)
(* says, on pages and tables of any number; a reader goes on with what it opened       *)
(* while the file is appended to or overwritten, and a rollback brings the old back.  *)
ImplementsByteFile == Promise!Spec

(* The types, now and of what a rollback goes back to. *)
IsDescriptor(t, fd) ==
  fd = Default \/ (fd.first \in DOMAIN t.table /\ fd.last \in DOMAIN t.table /\ fd.size > 0)
TypeOK ==
  /\ \A t \in {tx, saved} :
       /\ IsDescriptor(t, t.file) /\ t.deleted \subseteq DOMAIN t.table
       /\ t.free \cup DOMAIN t.table \subseteq 0 .. t.size - 1
       /\ \A p \in DOMAIN t.table :
            /\ t.table[p].next \in DOMAIN t.table \cup {INVALID}
            /\ \A iv \in ToSet(t.table[p].ivs) : 0 <= iv.begin /\ iv.begin < iv.end /\ iv.end <= t.size
            /\ Fitting(t.table[p].ivs) = Len(t.table[p].ivs)
  /\ DOMAIN byte \subseteq (0 .. tx.size - 1) \X (0 .. PageSize - 1)
  /\ writer # NoWriter => writer.table \in DOMAIN tx.table \cup {INVALID}
  /\ reader # NoReader => reader.pos \in 0 .. reader.size /\ reader.next \in DOMAIN tx.table \cup {INVALID}
  /\ calls \in 0 .. MaxCalls

(* The tables list the pages that the size calls for, none twice, and each page        *)
(* belongs to the file, to one that is deleted, to one that is written, is free or    *)
(* another's.                                                                         *)
Listed(t, p) == ChainPages(t.table, p)
ListsOK(t, fd) ==
  /\ ChainWeight(t.table, fd.first) = Cardinality(Listed(t, fd.first))
  /\ TotalLength(ChainIntervals(t.table, fd.first)) = PagesFor(fd.size)
  /\ fd # Default => Last(Chain(t.table, fd.first)) = fd.last
PagesListed ==
  /\ TypeOK
  /\ LET files == ({tx.file.first} \cup tx.deleted
                   \cup (IF writer = NoWriter THEN {} ELSE {writer.fd.first})) \ {INVALID}
         new == IF writer = NoWriter THEN {} ELSE PagesOf(writer.seq) \ Listed(tx, writer.fd.first)
         parts == {Listed(tx, p) : p \in files} \cup {new, tx.free, tx.other}
     IN /\ ListsOK(saved, saved.file)
        /\ IF writer = NoWriter THEN ListsOK(tx, tx.file)
           ELSE TotalLength(WriterIntervals(tx, writer)) = PagesFor(writer.fd.size)
        /\ UNION parts = 0 .. tx.size - 1
        /\ \A a, b \in parts : a = b \/ a \cap b = {}
===================================================================================
