-------------------------------- MODULE FileTable --------------------------------
(*********************************************************************************)
(* CompoundFs/FileTable.h: a page that lists intervals and links to a next page.   *)
(* A list of tables describes the contents of a file, and of the FreeStore.        *)
(*********************************************************************************)
EXTENDS IntervalSequence, FiniteSetsExt

CONSTANT TableBytes           \* sizeof(m_data)

ASSUME TableBytesOK == TableBytes \in Nat /\ TableBytes >= 10

INVALID == -1                 \* PageIdx::INVALID

EmptyTable == [next |-> INVALID, ivs |-> <<>>]
Clear(t) == [t EXCEPT !.ivs = <<>>]

(* One page index and, for more than one page, another one and a mark. *)
Bytes(iv) == IF Length(iv) > 1 THEN 10 ELSE 4

(* How many intervals transferFrom takes. *)
Fitting(is) ==
  Max({n \in 0 .. Len(is) :
         FoldLeft(LAMBDA b, iv : b + Bytes(iv), 0, SubSeq(is, 1, n)) <= TableBytes})
Transferred(is) == SubSeq(is, 1, Fitting(is))
NotTransferred(is) == SubSeq(is, Fitting(is) + 1, Len(is))

InsertInto(t, is) == MoveTo(t.ivs, is)

(* The tables from page p on.  A list longer than the number of tables has a cycle. *)
Chain(table, p) ==
  FoldSet(LAMBDA i, c : IF c = <<>> THEN IF p = INVALID THEN c ELSE <<p>>
                        ELSE IF table[Last(c)].next = INVALID THEN c
                        ELSE Append(c, table[Last(c)].next),
          <<>>, DOMAIN table)

ChainIntervals(table, p) ==
  FoldLeft(LAMBDA is, q : is \o table[q].ivs, <<>>, Chain(table, p))

(* The tables and the pages they list. *)
ChainPages(table, p) == ToSet(Chain(table, p)) \cup PagesOf(ChainIntervals(table, p))
ChainWeight(table, p) == Len(Chain(table, p)) + TotalLength(ChainIntervals(table, p))
===================================================================================
