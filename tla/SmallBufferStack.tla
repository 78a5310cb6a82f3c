------------------------------ MODULE SmallBufferStack ------------------------------
(*********************************************************************************)
(* CompoundFs/SmallBufferStack.h: the stack that the tree and the visitors go down   *)
(* with.  Its first elements are in a buffer of its own; the one that does not fit    *)
(* takes all of them to a vector, where they stay.                                    *)
(*********************************************************************************)
EXTENDS Integers, Sequences

CONSTANTS
  SIZE,                 \* elements the buffer holds
  NoElement             \* what is in a part of the buffer without an element

(* FixedStack: the elements before end are alive. *)
FixedStack(buffer, end) == [fixed |-> TRUE, buffer |-> buffer, end |-> end]
Vector(elements) == [fixed |-> FALSE, elements |-> elements]

EmptyStack == FixedStack([i \in 1 .. SIZE |-> NoElement], 0)

StackSize(s) == IF s.fixed THEN s.end ELSE Len(s.elements)
IsEmpty(s) == StackSize(s) = 0
(* The n-th from the bottom. *)
Element(s, n) == IF s.fixed THEN s.buffer[n] ELSE s.elements[n]
Top(s) == Element(s, StackSize(s))

(* The move to the vector, before the push that would not fit. *)
SwitchToVectorOnOverflow(s) ==
  IF s.fixed /\ s.end = SIZE THEN Vector([i \in 1 .. s.end |-> s.buffer[i]]) ELSE s

EmplaceBack(s, v) ==
  IF s.fixed THEN FixedStack([s.buffer EXCEPT ![s.end + 1] = v], s.end + 1)
  ELSE Vector(Append(s.elements, v))

Push(s, v) == EmplaceBack(SwitchToVectorOnOverflow(s), v)

Pop(s) ==
  IF s.fixed THEN FixedStack([s.buffer EXCEPT ![s.end] = NoElement], s.end - 1)
  ELSE Vector(SubSeq(s.elements, 1, Len(s.elements) - 1))

-----------------------------------------------------------------------------------
(* A stack of elements of T, and what is on one, from the bottom. *)
IsStack(s, T) ==
  \/ \E buffer \in [1 .. SIZE -> T \cup {NoElement}], end \in 0 .. SIZE :
       /\ s = FixedStack(buffer, end)
       /\ \A i \in 1 .. SIZE : buffer[i] \in T <=> i <= end
  \/ \E elements \in Seq(T) : s = Vector(elements)

Contents(s) == [i \in 1 .. StackSize(s) |-> Element(s, i)]
===================================================================================
