----------------------------------- MODULE Blob -----------------------------------
(*********************************************************************************)
(* Rfx/Blob.h and the copying of values of Rfx/PushBits.h: a buffer of bytes that    *)
(* grows by powers of two and keeps its storage for the next use.                     *)
(*********************************************************************************)
EXTENDS Integers, Sequences, SequencesExt, FiniteSetsExt

CONSTANT MinCapacity          \* 1024

ASSUME MinCapacityOK == MinCapacity \in Nat

Uninitialized == [kind |-> "new"]      \* a byte of new storage

(* m_size and m_storage, whose length is m_capacity. *)
EmptyBlob == [size |-> 0, storage |-> <<>>]
Capacity(b) == Len(b.storage)
Bytes(b) == SubSeq(b.storage, 1, b.size)

BitCeil(n) == 2^(CHOOSE k \in 0 .. n : 2^k >= n /\ (k = 0 \/ 2^(k - 1) < n))

BlobOf(size) ==
  [size |-> size, storage |-> [i \in 1 .. Max({BitCeil(size), MinCapacity}) |-> Uninitialized]]

(* Bytes from position at + 1 on are overwritten. *)
Put(b, at, bytes) ==
  [b EXCEPT !.storage = SubSeq(@, 1, at) \o bytes \o SubSeq(@, at + Len(bytes) + 1, Len(@))]

Reserve(b, capacity) ==
  IF Capacity(b) >= capacity THEN b ELSE Put([BlobOf(capacity) EXCEPT !.size = b.size], 0, Bytes(b))
Resize(b, size) == [Reserve(b, size) EXCEPT !.size = size]
Grow(b, size) == Resize(b, b.size + size)
Clear(b) == Resize(b, 0)

(* The copy constructor, and operator=, which keeps the storage if it is enough. *)
CopyOf(b) == Put(BlobOf(b.size), 0, Bytes(b))
Assigned(b, other) ==
  IF b.storage = <<>> \/ other.size > Capacity(b) THEN CopyOf(other)
  ELSE [Put(b, 0, Bytes(other)) EXCEPT !.size = other.size]

-----------------------------------------------------------------------------------
(* A value that takes w bytes, in memory; and what w bytes are as a value. *)
BitsOf(v, w) == [i \in 1 .. w |-> [kind |-> "bits", of |-> v, at |-> i, width |-> w]]
Garbage == -1
ValueOf(bytes) ==
  IF bytes[1].kind = "bits" /\ bytes = BitsOf(bytes[1].of, Len(bytes)) THEN bytes[1].of ELSE Garbage

(* pushBits, of one value and of a range. *)
PushBits(b, v, w) == Put(Grow(b, w), b.size, BitsOf(v, w))
PushRange(b, vs, w) ==
  LET bytes == FlattenSeq([i \in DOMAIN vs |-> BitsOf(vs[i], w)])
  IN Put(Grow(b, Len(bytes)), b.size, bytes)

(* popBits: whether there are enough bytes, and what they are. *)
EnoughBits(bytes, n, w) == Len(bytes) >= n * w
PopBits(bytes, w) == ValueOf(SubSeq(bytes, 1, w))
PopRange(bytes, n, w) == [i \in 1 .. n |-> ValueOf(SubSeq(bytes, (i - 1) * w + 1, i * w))]
===================================================================================
