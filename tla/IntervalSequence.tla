----------------------------- MODULE IntervalSequence -----------------------------
(*********************************************************************************)
(* CompoundFs/Interval.h and IntervalSequence.h: runs of pages, [begin, end).      *)
(* m_totalLength is not kept: it is the sum of the lengths.                        *)
(*********************************************************************************)
EXTENDS Integers, Sequences, SequencesExt, TLC

Interval(b, e) == [begin |-> b, end |-> e]
Length(iv) == iv.end - iv.begin

(* A run that continues the last one is merged with it. *)
PushBack(is, iv) ==
  IF is # <<>> /\ Last(is).end = iv.begin
    THEN [is EXCEPT ![Len(is)].end = iv.end]
    ELSE Append(is, iv)

MoveTo(from, is) == FoldLeft(PushBack, is, from)

TotalLength(is) == FoldLeft(LAMBDA n, iv : n + Length(iv), 0, is)

(* What popFront(maxSize) returns, and what it leaves. *)
Popped(is, max) ==
  Interval(is[1].begin, IF Length(is[1]) <= max THEN is[1].end ELSE is[1].begin + max)
PopFront(is, max) ==
  IF Length(is[1]) <= max THEN Tail(is) ELSE [is EXCEPT ![1].begin = @ + max]

Before(iv, jv) == iv.begin < jv.begin \/ (iv.begin = jv.begin /\ iv.end < jv.end)
Sort(is) == MoveTo(SortSeq(is, Before), <<>>)

PagesOf(is) == UNION {iv.begin .. iv.end - 1 : iv \in ToSet(is)}
===================================================================================
