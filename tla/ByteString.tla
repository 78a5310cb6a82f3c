--------------------------------- MODULE ByteString --------------------------------
(*********************************************************************************)
(* CompoundFs/ByteString.h: strings of bytes, their order, and how numbers and other  *)
(* strings are put into them; DirectoryKey of CompoundFs/DirectoryStructure.h, the     *)
(* keys of the tree.                                                                  *)
(*********************************************************************************)
EXTENDS Integers, Sequences

CONSTANTS
  ByteValues,           \* 256
  FolderBytes,          \* bytes of a Folder: 4
  MaxSize               \* of a string: 255

ASSUME ByteStringOK ==
  /\ ByteValues \in Nat \ {0} /\ FolderBytes \in Nat /\ MaxSize \in Nat
  /\ \A i \in 1 .. FolderBytes : ByteValues ^ (i - 1) \in Nat \ {0}

(* std::lexicographical_compare: the first byte that differs decides, and a string    *)
(* comes before the ones it begins.                                                   *)
Less(a, b) ==
  \E n \in 0 .. Len(a) :
    /\ n < Len(b) /\ \A i \in 1 .. n : a[i] = b[i]
    /\ n = Len(a) \/ a[n + 1] < b[n + 1]

(* ByteStringStream throws when more is pushed. *)
Fits(stream) == Len(stream) <= MaxSize

(* A number as its bytes, the lowest one first, and back. *)
Bytes(n) == [i \in 1 .. FolderBytes |-> (n \div ByteValues ^ (i - 1)) % ByteValues]
Number(b) ==
  LET upTo[i \in 0 .. FolderBytes] ==
        IF i = 0 THEN 0 ELSE upTo[i - 1] + b[i] * ByteValues ^ (i - 1)
  IN upTo[FolderBytes]

(* DirectoryKey: the folder and the name in it. *)
DirectoryKey(folder, name) == Bytes(folder) \o name
GetFolder(key) == Number(key)
NameOf(key) == SubSeq(key, FolderBytes + 1, Len(key))

(* toStream and fromStream: a string in a page or a buffer has its length before it.  *)
WithLength(b) == <<Len(b)>> \o b
StringAt(buffer, pos) == SubSeq(buffer, pos + 2, pos + 1 + buffer[pos + 1])
===================================================================================
