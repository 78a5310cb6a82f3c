--------------------------------- MODULE TreeValue ---------------------------------
(*********************************************************************************)
(* CompoundFs/TreeValue.h and .cpp: what is under a key of the tree.  In a stream a    *)
(* number takes one place, whatever its size.                                         *)
(*********************************************************************************)
EXTENDS Integers, Sequences

Types == <<"File", "Folder", "Version", "Double", "Int64", "Int32", "String", "Unknown">>

(* The variant: which of the types it holds, and that. *)
Variant(type, fields) == [type |-> type, fields |-> fields]

(* How much of a stream is a value of the type; an empty struct takes a byte too. *)
Width(type, rest) ==
  CASE type = "File" -> 2 [] type = "Version" -> 3 [] type = "String" -> Len(rest) [] OTHER -> 1

ToStream(v) == <<(CHOOSE i \in DOMAIN Types : Types[i] = v.type) - 1>> \o v.fields

(* An index that is not known reads as Unknown. *)
DefaultCreate(index) == IF index < Len(Types) THEN Types[index + 1] ELSE "Unknown"
FromStream(stream) ==
  LET type == DefaultCreate(Head(stream))
  IN Variant(type, SubSeq(Tail(stream), 1, Width(type, Tail(stream))))

(* What is unknown is not even equal to itself. *)
SameValue(v, w) == v.type # "Unknown" /\ v = w
===================================================================================
