--------------------------- MODULE SmallBufferStackProofs ---------------------------
(*********************************************************************************)
(* A SmallBufferStack is a stack, whatever its buffer holds: what is on it is a       *)
(* sequence, to which push appends and from which pop takes the last element.         *)
(*********************************************************************************)
EXTENDS SmallBufferStack, TLAPS

(* A new stack has nothing on it. *)
LEMMA EmptyIsStack ==
  ASSUME SIZE \in Nat, NEW T, NoElement \notin T
  PROVE  IsStack(EmptyStack, T) /\ Contents(EmptyStack) = <<>>
<1> DEFINE buffer == [i \in 1 .. SIZE |-> NoElement]
<1>1. IsStack(EmptyStack, T)
  <2>1. buffer \in [1 .. SIZE -> T \cup {NoElement}] /\ 0 \in 0 .. SIZE
    OBVIOUS
  <2>2. \A i \in 1 .. SIZE : buffer[i] \in T <=> i <= 0
    OBVIOUS
  <2>3. EmptyStack = FixedStack(buffer, 0)
    BY DEF EmptyStack
  <2> HIDE DEF buffer
  <2> QED
    BY <2>1, <2>2, <2>3 DEF IsStack
<1>2. StackSize(EmptyStack) = 0
  BY DEF EmptyStack, FixedStack, StackSize
<1> QED
  BY <1>1, <1>2 DEF Contents

(* A stack in its buffer is full at most. *)
LEMMA FixedFields ==
  ASSUME SIZE \in Nat, NEW T, NEW s, IsStack(s, T), s.fixed
  PROVE  /\ s = FixedStack(s.buffer, s.end)
         /\ s.end \in 0 .. SIZE /\ s.buffer \in [1 .. SIZE -> T \cup {NoElement}]
         /\ \A i \in 1 .. SIZE : s.buffer[i] \in T <=> i <= s.end
<1>1. \A elements : s # Vector(elements)
  BY DEF Vector
<1>2. PICK buffer \in [1 .. SIZE -> T \cup {NoElement}], end \in 0 .. SIZE :
        /\ s = FixedStack(buffer, end)
        /\ \A i \in 1 .. SIZE : buffer[i] \in T <=> i <= end
  BY <1>1 DEF IsStack
<1>3. s.buffer = buffer /\ s.end = end
  BY <1>2 DEF FixedStack
<1> QED
  BY <1>2, <1>3

(* A stack that left its buffer has its elements in a vector. *)
LEMMA VectorFields ==
  ASSUME SIZE \in Nat, NEW T, NEW s, IsStack(s, T), ~s.fixed
  PROVE  s = Vector(s.elements) /\ s.elements \in Seq(T)
<1>1. \A buffer, end : s # FixedStack(buffer, end)
  BY DEF FixedStack
<1>2. PICK elements \in Seq(T) : s = Vector(elements)
  BY <1>1 DEF IsStack
<1>3. s.elements = elements
  BY <1>2 DEF Vector
<1> QED
  BY <1>2, <1>3

(* How many elements there are is a number, in the buffer or out of it. *)
LEMMA StackSizeNat ==
  ASSUME SIZE \in Nat, NEW T, NEW s, IsStack(s, T)
  PROVE  StackSize(s) \in Nat
  BY FixedFields, VectorFields DEF StackSize

(* The move to a vector takes everything along and leaves room for one more.          *)
LEMMA SwitchKeeps ==
  ASSUME SIZE \in Nat, NEW T, NEW s, IsStack(s, T)
  PROVE  LET t == SwitchToVectorOnOverflow(s)
         IN IsStack(t, T) /\ Contents(t) = Contents(s) /\ (t.fixed => t.end < SIZE)
<1> DEFINE t == SwitchToVectorOnOverflow(s)
           moved == [i \in 1 .. s.end |-> s.buffer[i]]
<1>1. CASE s.fixed /\ s.end = SIZE
  <2>1. t = Vector(moved)
    BY <1>1 DEF SwitchToVectorOnOverflow
  <2>2. moved \in Seq(T) /\ Len(moved) = s.end /\ \A i \in 1 .. s.end : moved[i] = s.buffer[i]
    BY <1>1, FixedFields
  <2>3. IsStack(t, T) /\ ~t.fixed
    <3>1. IsStack(t, T)
      BY <2>1, <2>2 DEF IsStack
    <3> QED
      BY <3>1, <2>1 DEF Vector
  <2>4. StackSize(t) = s.end /\ StackSize(s) = s.end
    BY <1>1, <2>1, <2>2 DEF StackSize, Vector
  <2>5. \A i \in 1 .. s.end : Element(t, i) = Element(s, i)
    BY <1>1, <2>1, <2>2 DEF Element, Vector
  <2> QED
    BY <2>3, <2>4, <2>5 DEF Contents
<1>2. CASE s.fixed /\ s.end # SIZE
  <2>1. t = s
    BY <1>2 DEF SwitchToVectorOnOverflow
  <2> QED
    BY <1>2, <2>1, FixedFields
<1>3. CASE ~s.fixed
  <2>1. t = s
    BY <1>3 DEF SwitchToVectorOnOverflow
  <2> QED
    BY <1>3, <2>1
<1> QED
  BY <1>1, <1>2, <1>3

(* push appends; nothing is written behind the buffer (SmallBufferStack.h:106-117).    *)
THEOREM PushAppends ==
  ASSUME SIZE \in Nat, NEW T, NoElement \notin T, NEW s, IsStack(s, T), NEW v \in T
  PROVE  /\ IsStack(Push(s, v), T)
         /\ Contents(Push(s, v)) = Append(Contents(s), v)
<1> DEFINE t == SwitchToVectorOnOverflow(s)
           u == EmplaceBack(t, v)
           n == StackSize(t)
<1>1. IsStack(t, T) /\ Contents(t) = Contents(s) /\ (t.fixed => t.end < SIZE)
  BY SwitchKeeps
<1> HIDE DEF t
<1>2. n \in Nat
  BY <1>1, StackSizeNat
<1>3. IsStack(u, T) /\ StackSize(u) = n + 1 /\ Element(u, n + 1) = v
      /\ \A i \in 1 .. n : Element(u, i) = Element(t, i)
  <2>1. CASE t.fixed
    <3> DEFINE longer == [t.buffer EXCEPT ![t.end + 1] = v]
    <3>1. /\ t.end \in Nat /\ t.end < SIZE /\ n = t.end
          /\ t.buffer \in [1 .. SIZE -> T \cup {NoElement}]
          /\ \A i \in 1 .. SIZE : t.buffer[i] \in T <=> i <= t.end
      BY <1>1, <2>1, FixedFields DEF StackSize
    <3>2. u = FixedStack(longer, t.end + 1)
      BY <2>1 DEF EmplaceBack
    <3>3. /\ longer \in [1 .. SIZE -> T \cup {NoElement}] /\ longer[t.end + 1] = v
          /\ \A i \in 1 .. SIZE : i # t.end + 1 => longer[i] = t.buffer[i]
      BY <3>1
    <3>4. \A i \in 1 .. SIZE : longer[i] \in T <=> i <= t.end + 1
      BY <3>1, <3>3
    <3>5. t.end + 1 \in 0 .. SIZE
      BY <3>1
    <3>6. IsStack(u, T)
      BY <3>1, <3>2, <3>3, <3>4, <3>5 DEF IsStack
    <3> QED
      BY <2>1, <3>1, <3>2, <3>3, <3>6 DEF StackSize, Element, FixedStack
  <2>2. CASE ~t.fixed
    <3>1. t.elements \in Seq(T) /\ n = Len(t.elements)
      BY <1>1, <2>2, VectorFields DEF StackSize
    <3>2. u = Vector(Append(t.elements, v))
      BY <2>2 DEF EmplaceBack
    <3>3. IsStack(u, T)
      <4>1. Append(t.elements, v) \in Seq(T)
        BY <3>1
      <4> QED
        BY <3>2, <4>1 DEF IsStack
    <3> QED
      BY <2>2, <3>1, <3>2, <3>3 DEF StackSize, Element, Vector
  <2> QED
    BY <2>1, <2>2
<1>4. Contents(u) = Append(Contents(t), v)
  <2>1. Len(Contents(t)) = n /\ \A i \in 1 .. n : Contents(t)[i] = Element(t, i)
    BY <1>2 DEF Contents
  <2> QED
    BY <1>2, <1>3, <2>1 DEF Contents
<1> QED
  BY <1>1, <1>3, <1>4 DEF Push, t

(* top and pop: the last element, and the stack without it. *)
THEOREM PopTakesTop ==
  ASSUME SIZE \in Nat, NEW T, NoElement \notin T, NEW s, IsStack(s, T), ~IsEmpty(s)
  PROVE  /\ IsStack(Pop(s), T)
         /\ Contents(s) = Append(Contents(Pop(s)), Top(s))
<1> DEFINE n == StackSize(s)
           u == Pop(s)
<1>1. n \in Nat /\ n > 0
  BY StackSizeNat DEF IsEmpty
<1>2. IsStack(u, T) /\ StackSize(u) = n - 1
      /\ \A i \in 1 .. n - 1 : Element(u, i) = Element(s, i)
  <2>1. CASE s.fixed
    <3> DEFINE shorter == [s.buffer EXCEPT ![s.end] = NoElement]
    <3>1. /\ s.end \in 1 .. SIZE /\ n = s.end
          /\ s.buffer \in [1 .. SIZE -> T \cup {NoElement}]
          /\ \A i \in 1 .. SIZE : s.buffer[i] \in T <=> i <= s.end
      BY <1>1, <2>1, FixedFields DEF StackSize
    <3>2. u = FixedStack(shorter, s.end - 1)
      BY <2>1 DEF Pop
    <3>3. /\ shorter \in [1 .. SIZE -> T \cup {NoElement}] /\ shorter[s.end] = NoElement
          /\ \A i \in 1 .. SIZE : i # s.end => shorter[i] = s.buffer[i]
      BY <3>1
    <3>4. \A i \in 1 .. SIZE : shorter[i] \in T <=> i <= s.end - 1
      BY <3>1, <3>3
    <3>5. s.end - 1 \in 0 .. SIZE
      BY <3>1
    <3>6. IsStack(u, T)
      BY <3>1, <3>2, <3>3, <3>4, <3>5 DEF IsStack
    <3> QED
      BY <2>1, <3>1, <3>2, <3>3, <3>6 DEF StackSize, Element, FixedStack
  <2>2. CASE ~s.fixed
    <3>1. s.elements \in Seq(T) /\ n = Len(s.elements)
      BY <2>2, VectorFields DEF StackSize
    <3>2. u = Vector(SubSeq(s.elements, 1, n - 1))
      BY <2>2, <3>1 DEF Pop
    <3>3. /\ SubSeq(s.elements, 1, n - 1) \in Seq(T) /\ Len(SubSeq(s.elements, 1, n - 1)) = n - 1
          /\ \A i \in 1 .. n - 1 : SubSeq(s.elements, 1, n - 1)[i] = s.elements[i]
      BY <1>1, <3>1
    <3>4. IsStack(u, T)
      BY <3>2, <3>3 DEF IsStack
    <3> QED
      BY <2>2, <3>2, <3>3, <3>4 DEF StackSize, Element, Vector
  <2> QED
    BY <2>1, <2>2
<1>3. Contents(s) = Append(Contents(u), Top(s))
  <2>1. Len(Contents(u)) = n - 1 /\ \A i \in 1 .. n - 1 : Contents(u)[i] = Element(s, i)
    BY <1>1, <1>2 DEF Contents
  <2>2. Top(s) = Element(s, n)
    BY DEF Top
  <2>3. Contents(s) = [i \in 1 .. n |-> Element(s, i)]
    BY DEF Contents
  <2>4. Contents(u) = [i \in 1 .. n - 1 |-> Element(s, i)]
    BY <1>1, <1>2 DEF Contents
  <2> HIDE DEF n, u
  <2> QED
    BY <1>1, <2>2, <2>3, <2>4
<1> QED
  BY <1>2, <1>3
===================================================================================
