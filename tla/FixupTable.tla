-------------------------------- MODULE FixupTable --------------------------------
(*********************************************************************************)
(* Rfx/CompressedInteger.h and Rfx/FixupTable.h: integers in as many bytes as they    *)
(* need, and the lengths of the versioned values of a stream, written so.             *)
(*********************************************************************************)
EXTENDS Integers, Sequences, SequencesExt, FiniteSetsExt

CONSTANTS
  More,                 \* 128: what a byte of a compressed integer counts up to
  LongestInteger        \* compressedSize of the greatest size_t

ASSUME CompressionOK == More \in Nat \ {0, 1} /\ LongestInteger \in Nat \ {0}

(* A byte holds a digit and whether more of them follow. *)
Byte(digit, more) == [kind |-> "size", digit |-> digit, more |-> more]
IsByte(b) == b.kind = "size"

CompressedSize(n) == Min({k \in 1 .. LongestInteger : n < More^k})
Compressed(n) ==
  LET size == CompressedSize(n)
  IN [k \in 1 .. size |-> Byte((n \div More^(k - 1)) % More, k < size)]

(* The integer at the beginning of bytes, and how many they are: 0 if it does not     *)
(* end, or is too long, where the code throws.                                        *)
NoInteger == [value |-> 0, size |-> 0]
Decompressed(bytes) ==
  LET ends == {k \in 1 .. Min({Len(bytes), LongestInteger}) : IsByte(bytes[k]) /\ ~bytes[k].more}
      size == IF ends = {} THEN 0 ELSE Min(ends)
  IN IF size = 0 \/ \E k \in 1 .. size : ~IsByte(bytes[k]) THEN NoInteger
     ELSE [value |-> FoldLeft(LAMBDA n, k : n + bytes[k].digit * More^(k - 1), 0, [k \in 1 .. size |-> k]),
           size |-> size]

-----------------------------------------------------------------------------------
Unset == -1             \* numeric_limits<size_t>::max()

NoFixups == [lengths |-> <<>>, sizeInBytes |-> 0]

(* Mutant of Fixup: the length is not counted. *)
FixupUncounted(f, i, length) == [f EXCEPT !.lengths[i] = length]

(* nextFixup reserves a place in the table, and the function it returns fills it. *)
NextFixup(f) == [f EXCEPT !.lengths = Append(@, Unset)]
Fixup(f, i, length) ==
  IF f.lengths[i] = length THEN f
  ELSE [f EXCEPT !.lengths[i] = length, !.sizeInBytes = @ + CompressedSize(length)]

SizeInBytes(f) == f.sizeInBytes + CompressedSize(Len(f.lengths))

WriteTable(f) == Compressed(Len(f.lengths)) \o FlattenSeq([i \in DOMAIN f.lengths |-> Compressed(f.lengths[i])])

(* read: the table and how many bytes it took, none if it breaks off. *)
NoTable == [lengths |-> <<>>, size |-> 0]
ReadTable(bytes) ==
  LET count == Decompressed(bytes)
      Next(t) == Decompressed(SubSeq(bytes, t.size + 1, Len(bytes)))
      Add(t, n) == [lengths |-> Append(t.lengths, n.value), size |-> t.size + n.size]
      Entry(t, i) == IF t = NoTable \/ Next(t).size = 0 THEN NoTable ELSE Add(t, Next(t))
  IN IF count.size = 0 THEN NoTable
     ELSE FoldLeft(Entry, [lengths |-> <<>>, size |-> count.size], [i \in 1 .. count.value |-> i])
===================================================================================
