--------------------------------- MODULE MCStream ---------------------------------
(* Two versions of each type that has versions, within each other; integers of one to *)
(* three bytes.                                                                       *)
EXTENDS Stream, TLC

B1 == Bits(1)
B2 == Bits(2)
A0 == Struct(<<B2>>)
A1 == Struct(<<B2, Vector(B1)>>)
C0 == Struct(<<A0, B1>>)
C1 == Struct(<<A1, B1, Optional(A1)>>)
T0 == Tuple(<<B1, SetOf(A0)>>)
T1 == Tuple(<<B1, SetOf(A1), Pair(A1, B2)>>)
V0 == Variant(<<B1, A0>>)
V1 == Variant(<<B1, A1, C1>>)
L0 == Vector(V0)
L1 == Vector(V1)
R0 == Array(A0, 1)
R1 == Array(A1, 2)
D == Builtin(B2, 2)

MCSamples ==
  (A0 :> {<<1>>}) @@ (A1 :> {<<2, <<>>>>, <<1, <<3, 4>>>>})
  @@ (C0 :> {<<<<1>>, 2>>}) @@ (C1 :> {<<<<2, <<3>>>>, 4, <<<<1, <<>>>>>>>>, <<<<1, <<>>>>, 2, <<>>>>})
  @@ (T0 :> {<<1, {<<2>>, <<3>>}>>}) @@ (T1 :> {<<1, {<<2, <<>>>>, <<2, <<3>>>>}, <<<<4, <<5>>>>, 6>>>>})
  @@ (V0 :> {<<1, <<2>>>>}) @@ (V1 :> {<<0, 3>>, <<2, <<<<1, <<2>>>>, 3, <<>>>>>>})
  @@ (L0 :> {<<<<0, 1>>>>}) @@ (L1 :> {<<<<2, <<<<1, <<2>>>>, 3, <<>>>>>>, <<1, <<5, <<6>>>>>>>>})
  @@ (R0 :> {<<<<7>>>>}) @@ (R1 :> {<<<<1, <<2>>>>, <<3, <<>>>>>>})
  @@ (D :> {<<8, 9>>})

Families == {{A0, A1}, {C0, C1}, {T0, T1}, {V0, V1}, {L0, L1}, {R0}, {R1}, {D}}
MCExchange == UNION {f \X f : f \in Families} \cup {<<R1, R0>>}
===================================================================================
