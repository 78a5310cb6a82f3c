---------------------------------- MODULE Stream ----------------------------------
(*********************************************************************************)
(* Rfx/Stream.h with Rfx/StreamRule.h and Rfx/TypeUtils.h: values of nested types     *)
(* are written to a blob and read back, perhaps by a program that has an older or a    *)
(* newer version of their types.  A versioned value is as long as the table of fixups  *)
(* at the end of the blob says, and is followed by the number of fixups in it.        *)
(*********************************************************************************)
EXTENDS Blob, FixupTable

CONSTANTS
  Samples,              \* type -> values of it that are written
  Exchange,             \* pairs of types: as written, and as read
  ReuseStreams,         \* whether a StreamOut is used on after swapBlob
  MaxValues             \* bound: values written

ASSUME StreamsOK ==
  /\ \A e \in Exchange : {e[1], e[2]} \subseteq DOMAIN Samples
  /\ ReuseStreams \in BOOLEAN /\ MaxValues \in Nat

VARIABLES
  out,                  \* the StreamOut
  sent,                 \* history: what was written to it, with its type
  archive,              \* a Blob that the finished ones are copied to
  in,                   \* the StreamIn on it
  got,                  \* history: what was read: the type, the value, what was there before
  phase,                \* "writing" or "reading"
  values                \* how many were written, to this stream and those before

vars == <<out, sent, archive, in, got, phase, values>>

-----------------------------------------------------------------------------------
(* The types.  Numbers, enumerations and bytes are bits; the others are made of some. *)
Bits(w) == [kind |-> "bits", width |-> w]
Struct(ts) == [kind |-> "struct", of |-> ts]
Tuple(ts) == [kind |-> "tuple", of |-> ts]
Pair(t, u) == [kind |-> "pair", of |-> <<t, u>>]
Variant(ts) == [kind |-> "variant", of |-> ts]
Vector(t) == [kind |-> "vector", of |-> t]
SetOf(t) == [kind |-> "set", of |-> t]
Optional(t) == [kind |-> "optional", of |-> t]
Array(t, n) == [kind |-> "array", of |-> t, n |-> n]
Builtin(t, n) == [kind |-> "builtin", of |-> t, n |-> n]
Bool == Bits(1)

BitStreamable(t) == t.kind = "bits"
HasForEachMember(t) == t.kind = "struct"
CanInsert(t) == t.kind = "set"
CanResize(t) == t.kind = "vector"
DynamicContainer(t) == CanInsert(t) \/ CanResize(t)
FixedSizeContainer(t) == t.kind = "array"
FixedSizeArray(t) == t.kind = "builtin" \/ FixedSizeContainer(t)
TupleLike(t) == t.kind \in {"tuple", "pair"}

IsVersioned(t) ==
  \/ HasForEachMember(t) \/ t.kind = "variant"
  \/ TupleLike(t) /\ t.kind = "tuple"
  \/ FixedSizeArray(t) /\ FixedSizeContainer(t)

Indices(n) == [i \in 1 .. n |-> i]

(* T {}: what a value is before something is read into it. *)
RECURSIVE Default(_)
Default(t) ==
  CASE BitStreamable(t) -> 0
    [] HasForEachMember(t) \/ TupleLike(t) -> [i \in DOMAIN t.of |-> Default(t.of[i])]
    [] CanInsert(t) -> {}
    [] FixedSizeArray(t) -> [i \in 1 .. t.n |-> Default(t.of)]
    [] t.kind = "variant" -> <<0, Default(t.of[1])>>
    [] t.kind \in {"vector", "optional"} -> <<>>

-----------------------------------------------------------------------------------
(* StreamOut *)
NewOut == [blob |-> EmptyBlob, fixups |-> NoFixups]

WriteSize(o, n) == [o EXCEPT !.blob = Put(Grow(@, CompressedSize(n)), @.size, Compressed(n))]

RECURSIVE Write(_, _, _)

WriteRange(o, t, vs) ==
  IF BitStreamable(t) THEN [o EXCEPT !.blob = PushRange(@, vs, t.width)]
  ELSE FoldLeft(LAMBDA p, v : Write(p, t, v), o, vs)

(* The rules: for structs, pairs and tuples, containers, variants, arrays, optionals. *)
WriteMembers(o, t, v) == FoldLeft(LAMBDA p, i : Write(p, t.of[i], v[i]), o, Indices(Len(t.of)))
WriteContainer(o, t, v) ==
  LET elements == IF CanInsert(t) THEN SetToSeq(v) ELSE v
  IN WriteRange(WriteSize(o, Len(elements)), t.of, elements)
WriteVariant(o, t, v) == Write(WriteSize(o, v[1]), t.of[v[1] + 1], v[2])
WriteArray(o, t, v) == WriteRange(o, t.of, v)
WriteOptional(o, t, v) ==
  LET p == Write(o, Bool, Len(v)) IN IF v = <<>> THEN p ELSE Write(p, t.of, v[1])

WriteRule(o, t, v) ==
  CASE HasForEachMember(t) \/ TupleLike(t) -> WriteMembers(o, t, v)
    [] DynamicContainer(t) -> WriteContainer(o, t, v)
    [] t.kind = "variant" -> WriteVariant(o, t, v)
    [] FixedSizeArray(t) -> WriteArray(o, t, v)
    [] t.kind = "optional" -> WriteOptional(o, t, v)

WriteVersioned(o, t, v) ==
  LET index == Len(o.fixups.lengths) + 1
      p == WriteRule([o EXCEPT !.fixups = NextFixup(@)], t, v)
      q == [p EXCEPT !.fixups = Fixup(@, index, p.blob.size - o.blob.size)]
  IN WriteSize(q, Len(q.fixups.lengths) - index + 1)

Write(o, t, v) ==
  IF BitStreamable(t) THEN [o EXCEPT !.blob = PushBits(@, v, t.width)]
  ELSE IF IsVersioned(t) THEN WriteVersioned(o, t, v)
  ELSE WriteRule(o, t, v)

(* The table is written backwards from the end of the blob. *)
StoreFixups(o) ==
  LET blob == Grow(o.blob, SizeInBytes(o.fixups))
      table == Reverse(WriteTable(o.fixups))
  IN Put(blob, blob.size - Len(table), table)

-----------------------------------------------------------------------------------
(* StreamIn.  What throws, or fails an assertion, changes nothing more. *)
OpenIn(blob) ==
  LET table == ReadTable(Reverse(Bytes(blob)))
  IN [bytes |-> Bytes(blob), first |-> 0, last |-> blob.size - table.size,
      lengths |-> table.lengths, current |-> 0,
      status |-> IF table = NoTable THEN "thrown" ELSE "ok"]

AsRange(s) == SubSeq(s.bytes, s.first + 1, s.last)
IsEmpty(s) == s.first = s.last
Result(s, v) == [in |-> s, value |-> v]
Throw(s, v) == Result([s EXCEPT !.status = "thrown"], v)

ReadBits(s, t, old) ==
  IF ~EnoughBits(AsRange(s), 1, t.width) THEN Throw(s, old)
  ELSE Result([s EXCEPT !.first = @ + t.width], PopBits(AsRange(s), t.width))

ReadSize(s) ==
  LET n == Decompressed(AsRange(s))
  IN IF s.status # "ok" \/ n.size = 0 THEN Throw(s, 0)
     ELSE Result([s EXCEPT !.first = @ + n.size], n.value)

(* current and what comes n fixups behind it *)
AdvanceBy(s, current, n) ==
  IF s.status # "ok" \/ Len(s.lengths) < current + n THEN [s EXCEPT !.status = "thrown"]
  ELSE [s EXCEPT !.current = current + n]

RECURSIVE Read(_, _, _)

(* operator(): a member that is missing stays as it is. *)
ReadMember(s, t, old) == IF IsEmpty(s) THEN Result(s, old) ELSE Read(s, t, old)

ReadRange(s, t, olds) ==
  LET n == Len(olds)
      Element(r, i) == LET e == Read(r.in, t, olds[i]) IN Result(e.in, Append(r.value, e.value))
  IN IF ~BitStreamable(t) THEN FoldLeft(Element, Result(s, <<>>), Indices(n))
     ELSE IF ~EnoughBits(AsRange(s), n, t.width) THEN Throw(s, olds)
     ELSE Result([s EXCEPT !.first = @ + n * t.width], PopRange(AsRange(s), n, t.width))

ReadMembers(s, t, old) ==
  LET Member(r, i) ==
        LET m == ReadMember(r.in, t.of[i], old[i]) IN Result(m.in, Append(r.value, m.value))
  IN FoldLeft(Member, Result(s, <<>>), Indices(Len(t.of)))

ReadResized(s, t, old) ==
  LET size == ReadSize(s)
      Old(i) == IF i <= Len(old) THEN old[i] ELSE Default(t.of)
  IN ReadRange(size.in, t.of, [i \in 1 .. size.value |-> Old(i)])
ReadInserted(s, t) ==
  LET size == ReadSize(s)
      Insert(r, i) ==
        LET e == Read(r.in, t.of, Default(t.of)) IN Result(e.in, r.value \cup {e.value})
  IN FoldLeft(Insert, Result(size.in, {}), Indices(size.value))

(* An alternative this version does not know becomes the default one. *)
ReadVariant(s, t, old) ==
  LET index == ReadSize(s)
      alternative == t.of[index.value + 1]
      r == Read(index.in, alternative, Default(alternative))
  IN IF index.value < Len(t.of) THEN Result(r.in, <<index.value, r.value>>)
     ELSE Result(index.in, Default(t))

ReadArray(s, t, old) == ReadRange(s, t.of, old)

ReadOptional(s, t, old) ==
  LET flag == Read(s, Bool, 0)
      r == Read(flag.in, t.of, Default(t.of))
  IN IF flag.value = 1 THEN Result(r.in, <<r.value>>) ELSE Result(flag.in, <<>>)

ReadRule(s, t, old) ==
  CASE HasForEachMember(t) \/ TupleLike(t) -> ReadMembers(s, t, old)
    [] CanResize(t) -> ReadResized(s, t, old)
    [] CanInsert(t) -> ReadInserted(s, t)
    [] t.kind = "variant" -> ReadVariant(s, t, old)
    [] FixedSizeArray(t) -> ReadArray(s, t, old)
    [] t.kind = "optional" -> ReadOptional(s, t, old)

Asserted(s, ok) == IF s.status = "ok" /\ ~ok THEN [s EXCEPT !.status = "assertion"] ELSE s

(* Mutant of ReadVersioned: the fixups of members this version skips are not skipped. *)
ReadVersionedOneFixup(s, t, old) ==
  LET into == AdvanceBy(s, s.current, 1)
      inside == [into EXCEPT !.last = s.first + s.lengths[s.current + 1]]
      r == ReadRule(Asserted(inside, inside.last <= s.last), t, old)
      behind == [Asserted(r.in, r.in.first <= r.in.last) EXCEPT !.first = r.in.last, !.last = s.last]
      advance == ReadSize(behind)
  IN IF into.status # "ok" THEN Result(into, old) ELSE Result(advance.in, r.value)

ReadVersioned(s, t, old) ==
  LET into == AdvanceBy(s, s.current, 1)
      inside == [into EXCEPT !.last = s.first + s.lengths[s.current + 1]]
      r == ReadRule(Asserted(inside, inside.last <= s.last), t, old)
      behind == [Asserted(r.in, r.in.first <= r.in.last) EXCEPT !.first = r.in.last, !.last = s.last]
      advance == ReadSize(behind)
  IN IF into.status # "ok" THEN Result(into, old)
     ELSE Result(AdvanceBy(advance.in, s.current, advance.value), r.value)

Read(s, t, old) ==
  IF s.status # "ok" THEN Result(s, old)
  ELSE IF BitStreamable(t) THEN ReadBits(s, t, old)
  ELSE IF IsVersioned(t) THEN ReadVersioned(s, t, old)
  ELSE ReadRule(s, t, old)

-----------------------------------------------------------------------------------
NoIn == OpenIn(EmptyBlob)

Init ==
  /\ out = NewOut /\ sent = <<>>
  /\ archive = EmptyBlob /\ in = NoIn /\ got = <<>>
  /\ phase = "writing" /\ values = 0

WriteValue(t, v) ==
  /\ phase = "writing" /\ values < MaxValues /\ values' = values + 1
  /\ out' = Write(out, t, v) /\ sent' = Append(sent, [type |-> t, value |-> v])
  /\ UNCHANGED <<archive, in, got, phase>>

(* swapBlob; the blob is kept where the one before it was, and read from there. *)
SwapBlob ==
  /\ phase = "writing" /\ phase' = "reading"
  /\ archive' = Assigned(archive, StoreFixups(out))
  /\ out' = [out EXCEPT !.blob = EmptyBlob]
  /\ in' = OpenIn(archive')
  /\ UNCHANGED <<sent, got, values>>

ReadValue(u, old) ==
  /\ phase = "reading" /\ Len(got) < Len(sent)
  /\ <<sent[Len(got) + 1].type, u>> \in Exchange
  /\ LET r == Read(in, u, old)
     IN in' = r.in /\ got' = Append(got, [type |-> u, value |-> r.value, old |-> old])
  /\ UNCHANGED <<out, sent, archive, phase, values>>

NextStream ==
  /\ phase = "reading" /\ Len(got) = Len(sent) /\ values < MaxValues
  /\ phase' = "writing"
  /\ out' = IF ReuseStreams THEN out ELSE NewOut
  /\ sent' = <<>> /\ got' = <<>> /\ in' = NoIn
  /\ UNCHANGED <<archive, values>>

Done == phase = "reading" /\ Len(got) = Len(sent) /\ values = MaxValues /\ UNCHANGED vars

Next ==
  \/ \E t \in DOMAIN Samples : \E v \in Samples[t] : WriteValue(t, v)
  \/ SwapBlob \/ NextStream \/ Done
  \/ \E u \in DOMAIN Samples : \E old \in {Default(u)} \cup Samples[u] : ReadValue(u, old)

Spec == Init /\ [][Next]_vars

-----------------------------------------------------------------------------------
(* What a value v of type t is in type u: members the one type does not have are       *)
(* dropped, and those the other does not have stay as they are in old.                *)
RECURSIVE Merged(_, _, _, _)
Merged(t, u, v, old) ==
  LET Element(x) == Merged(t.of, u.of, x, Default(u.of))
  IN CASE BitStreamable(u) -> v
       [] HasForEachMember(u) \/ TupleLike(u) ->
            [i \in DOMAIN u.of |-> IF i <= Len(t.of) THEN Merged(t.of[i], u.of[i], v[i], old[i]) ELSE old[i]]
       [] CanInsert(u) -> {Element(x) : x \in v}
       [] CanResize(u) ->
            [i \in DOMAIN v |-> IF i <= Len(old) THEN Merged(t.of, u.of, v[i], old[i]) ELSE Element(v[i])]
       [] FixedSizeArray(u) -> [i \in 1 .. u.n |-> Merged(t.of, u.of, v[i], old[i])]
       [] u.kind = "optional" -> [i \in DOMAIN v |-> Element(v[i])]
       [] u.kind = "variant" ->
            IF v[1] >= Len(u.of) THEN Default(u)
            ELSE <<v[1], Merged(t.of[v[1] + 1], u.of[v[1] + 1], v[2], Default(u.of[v[1] + 1]))>>

(* Programs with different versions of a type understand each other: what is read is   *)
(* what was written, as far as both versions have it, nothing throws, no assertion     *)
(* fails, and reading ends where writing did, in the bytes and in the table            *)
(* (Stream.h:112-138).                                                                *)
VersionsExchange ==
  phase = "reading" =>
    /\ in.status = "ok"
    /\ \A k \in DOMAIN got :
         got[k].value = Merged(sent[k].type, got[k].type, sent[k].value, got[k].old)
    /\ Len(got) = Len(sent) => IsEmpty(in) /\ in.current = Len(in.lengths)

(* The table takes the bytes that were counted for it while the stream was written    *)
(* (the assertion at Stream.h:78).                                                    *)
TableFits == Len(WriteTable(out.fixups)) = SizeInBytes(out.fixups)
===================================================================================
