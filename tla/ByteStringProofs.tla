------------------------------ MODULE ByteStringProofs ------------------------------
(*********************************************************************************)
(* The order of the keys: it is a total order, the keys of a folder lie together in   *)
(* it, and among themselves they are ordered as the names.  This is what the cursors  *)
(* of the directory rest on.                                                          *)
(*********************************************************************************)
EXTENDS ByteString, WellFoundedInduction, SequenceTheorems, TLAPS

Strings == Seq(Int)

(* A string is not before itself. *)
LEMMA LessIrreflexive ==
  ASSUME NEW a \in Strings
  PROVE  ~Less(a, a)
<1>1. \A n \in 0 .. Len(a) : n < Len(a) => a[n + 1] \in Int
  BY DEF Strings
<1> QED
  BY <1>1 DEF Less, Strings

(* What is before a string that is before another is before that one. *)
LEMMA LessTransitive ==
  ASSUME NEW a \in Strings, NEW b \in Strings, NEW c \in Strings, Less(a, b), Less(b, c)
  PROVE  Less(a, c)
<1>1. PICK m \in 0 .. Len(a) :
        /\ m < Len(b) /\ \A i \in 1 .. m : a[i] = b[i]
        /\ m = Len(a) \/ a[m + 1] < b[m + 1]
  BY DEF Less
<1>2. PICK n \in 0 .. Len(b) :
        /\ n < Len(c) /\ \A i \in 1 .. n : b[i] = c[i]
        /\ n = Len(b) \/ b[n + 1] < c[n + 1]
  BY DEF Less
<1>3. Len(a) \in Nat /\ Len(b) \in Nat /\ Len(c) \in Nat
  BY DEF Strings
<1>4. /\ \A i \in 1 .. Len(a) : a[i] \in Int
      /\ \A i \in 1 .. Len(b) : b[i] \in Int
      /\ \A i \in 1 .. Len(c) : c[i] \in Int
  BY DEF Strings
<1>5. CASE m <= n
  <2>1. m < Len(c) /\ \A i \in 1 .. m : a[i] = c[i]
    BY <1>1, <1>2, <1>3, <1>5
  <2>2. m = Len(a) \/ a[m + 1] < c[m + 1]
    <3>1. CASE m = n
      BY <1>1, <1>2, <1>3, <1>4, <3>1
    <3>2. CASE m < n
      <4>1. b[m + 1] = c[m + 1]
        BY <1>2, <3>2
      <4> QED
        BY <1>1, <4>1
    <3> QED
      BY <1>5, <3>1, <3>2
  <2> QED
    BY <2>1, <2>2 DEF Less
<1>6. CASE n < m
  <2>1. n \in 0 .. Len(a) /\ n < Len(c) /\ \A i \in 1 .. n : a[i] = c[i]
    BY <1>1, <1>2, <1>3, <1>6
  <2>2. a[n + 1] = b[n + 1] /\ n # Len(b)
    BY <1>1, <1>2, <1>3, <1>6
  <2>3. a[n + 1] < c[n + 1]
    BY <1>2, <2>2
  <2> QED
    BY <2>1, <2>3 DEF Less
<1> QED
  BY <1>5, <1>6

(* A property of some number is one of a least number. *)
LEMMA LeastNumber ==
  ASSUME NEW T, T \subseteq Nat, T # {}
  PROVE  \E x \in T : \A y \in T : x <= y
<1> DEFINE R == OpToRel(<, Nat)
<1>1. IsWellFoundedOn(R, Nat)
  BY NatLessThanWellFounded
<1>2. \A x, y \in Nat : x < y => <<x, y>> \in R
  BY DEF OpToRel
<1> HIDE DEF R
<1>3. PICK x \in T : \A y \in T : <<y, x>> \notin R
  BY <1>1, WFMin
<1>4. \A y \in T : ~(y < x)
  BY <1>2, <1>3
<1> QED
  BY <1>4

(* Of two strings that differ one is before the other. *)
LEMMA LessTotal ==
  ASSUME NEW a \in Strings, NEW b \in Strings, a # b
  PROVE  Less(a, b) \/ Less(b, a)
<1> DEFINE differ == {i \in Nat : i \in 1 .. Len(a) /\ i \in 1 .. Len(b) /\ a[i] # b[i]}
<1>1. Len(a) \in Nat /\ Len(b) \in Nat
  BY DEF Strings
<1>2. CASE differ = {}
  <2>1. \A i \in 1 .. Len(a) : i <= Len(b) => a[i] = b[i]
    BY <1>1, <1>2
  <2>2. Len(a) # Len(b)
    BY <2>1 DEF Strings
  <2>3. CASE Len(a) < Len(b)
    BY <1>1, <2>1, <2>3 DEF Less
  <2>4. CASE Len(b) < Len(a)
    BY <1>1, <2>1, <2>4 DEF Less
  <2> QED
    BY <1>1, <2>2, <2>3, <2>4
<1>3. CASE differ # {}
  <2>1. PICK x \in differ : \A y \in differ : x <= y
    BY <1>3, LeastNumber
  <2>2. /\ x - 1 \in 0 .. Len(a) /\ x - 1 \in 0 .. Len(b)
        /\ x - 1 < Len(a) /\ x - 1 < Len(b) /\ (x - 1) + 1 = x
    BY <1>1, <2>1
  <2>3. \A i \in 1 .. x - 1 : a[i] = b[i]
    BY <1>1, <2>1
  <2>4. a[x] < b[x] \/ b[x] < a[x]
    <3>1. a[x] \in Int /\ b[x] \in Int /\ a[x] # b[x]
      BY <2>1 DEF Strings
    <3> QED
      BY <3>1
  <2> HIDE DEF differ
  <2> QED
    BY <2>2, <2>3, <2>4 DEF Less
<1> QED
  BY <1>2, <1>3

(* The order of the keys (lexicographical_compare of ByteStringView::operator<) is a  *)
(* strict total order, so that of any keys one at most comes first.                   *)
THEOREM KeysOrdered ==
  /\ \A a \in Strings : ~Less(a, a)
  /\ \A a, b, c \in Strings : Less(a, b) /\ Less(b, c) => Less(a, c)
  /\ \A a, b \in Strings : a # b => Less(a, b) \/ Less(b, a)
BY LessIrreflexive, LessTransitive, LessTotal

-----------------------------------------------------------------------------------
(* A key is the bytes of its folder and then those of its name. *)
LEMMA KeyParts ==
  ASSUME ByteStringOK, NEW folder \in Nat, NEW name \in Strings
  PROVE  /\ DirectoryKey(folder, name) \in Strings
         /\ Len(DirectoryKey(folder, name)) = FolderBytes + Len(name)
         /\ \A i \in 1 .. FolderBytes : DirectoryKey(folder, name)[i] = Bytes(folder)[i]
         /\ \A i \in 1 .. Len(name) : DirectoryKey(folder, name)[FolderBytes + i] = name[i]
<1>1. \A i \in 1 .. FolderBytes : Bytes(folder)[i] \in Int
  <2> TAKE i \in 1 .. FolderBytes
  <2>1. ByteValues ^ (i - 1) \in Nat \ {0} /\ ByteValues \in Nat \ {0}
    BY DEF ByteStringOK
  <2>2. Bytes(folder)[i] = (folder \div ByteValues ^ (i - 1)) % ByteValues
    BY DEF Bytes
  <2> DEFINE w == ByteValues ^ (i - 1)
  <2>3. w \in Nat \ {0} /\ Bytes(folder)[i] = (folder \div w) % ByteValues
    BY <2>1, <2>2
  <2> HIDE DEF w
  <2>4. folder \div w \in Int
    BY <2>3
  <2> QED
    BY <2>1, <2>3, <2>4
<1>2. Bytes(folder) \in Seq(Int) /\ Len(Bytes(folder)) = FolderBytes
  BY <1>1 DEF Bytes, ByteStringOK
<1> DEFINE key == Bytes(folder) \o name
<1>3. name \in Seq(Int)
  BY DEF Strings
<1>4. key \in Seq(Int) /\ Len(key) = FolderBytes + Len(name)
  BY <1>2, <1>3
<1>5. \A i \in 1 .. FolderBytes : key[i] = Bytes(folder)[i]
  BY <1>2, <1>3
<1>6. \A i \in 1 .. Len(name) : key[FolderBytes + i] = name[i]
  BY <1>2, <1>3
<1> HIDE DEF key
<1>7. DirectoryKey(folder, name) = key
  BY DEF DirectoryKey, key
<1> QED
  BY <1>4, <1>5, <1>6, <1>7 DEF Strings

(* In a folder keys are ordered as the names are (DirectoryKey of                     *)
(* DirectoryStructure.h under the order of the tree).                                 *)
THEOREM NamesOrdered ==
  ASSUME ByteStringOK, NEW folder \in Nat, NEW m \in Strings, NEW n \in Strings
  PROVE  Less(DirectoryKey(folder, m), DirectoryKey(folder, n)) <=> Less(m, n)
<1> DEFINE a == DirectoryKey(folder, m)
           b == DirectoryKey(folder, n)
<1>1. /\ Len(a) = FolderBytes + Len(m) /\ Len(b) = FolderBytes + Len(n)
      /\ FolderBytes \in Nat /\ Len(m) \in Nat /\ Len(n) \in Nat
  <2>1. Len(a) = FolderBytes + Len(m) /\ Len(b) = FolderBytes + Len(n)
    BY KeyParts
  <2> QED
    BY <2>1 DEF ByteStringOK, Strings
<1>2. /\ \A i \in 1 .. FolderBytes : a[i] = b[i]
      /\ \A i \in 1 .. Len(m) : a[FolderBytes + i] = m[i]
      /\ \A i \in 1 .. Len(n) : b[FolderBytes + i] = n[i]
  BY KeyParts
<1>3. \A i \in 1 .. FolderBytes : a[i] \in Int
  <2>1. a \in Strings
    BY KeyParts
  <2> HIDE DEF a
  <2> QED
    BY <1>1, <2>1 DEF Strings
<1> HIDE DEF a, b
<1>4. ASSUME Less(a, b) PROVE Less(m, n)
  <2>1. PICK k \in 0 .. Len(a) :
          /\ k < Len(b) /\ \A i \in 1 .. k : a[i] = b[i]
          /\ k = Len(a) \/ a[k + 1] < b[k + 1]
    BY <1>4 DEF Less
  <2>2. k >= FolderBytes
    BY <1>1, <1>2, <1>3, <2>1
  <2> DEFINE j == k - FolderBytes
  <2>3. j \in 0 .. Len(m) /\ j < Len(n) /\ k = FolderBytes + j
    BY <1>1, <2>1, <2>2
  <2> HIDE DEF j
  <2>4. ASSUME NEW i \in 1 .. j PROVE m[i] = n[i]
    <3>1. FolderBytes + i \in 1 .. k /\ i \in 1 .. Len(m) /\ i \in 1 .. Len(n)
      BY <1>1, <2>3
    <3> QED
      BY <1>2, <2>1, <3>1
  <2>5. j = Len(m) \/ m[j + 1] < n[j + 1]
    <3>1. CASE k = Len(a)
      BY <1>1, <1>2, <2>3, <3>1
    <3>2. CASE k # Len(a)
      <4>1. j + 1 \in 1 .. Len(m) /\ j + 1 \in 1 .. Len(n) /\ k + 1 = FolderBytes + (j + 1)
        BY <1>1, <2>3, <3>2
      <4>2. a[k + 1] = m[j + 1] /\ b[k + 1] = n[j + 1]
        BY <1>2, <4>1
      <4> QED
        BY <2>1, <3>2, <4>2
    <3> QED
      BY <3>1, <3>2
  <2> QED
    BY <2>3, <2>4, <2>5 DEF Less
<1>5. ASSUME Less(m, n) PROVE Less(a, b)
  <2>1. PICK j \in 0 .. Len(m) :
          /\ j < Len(n) /\ \A i \in 1 .. j : m[i] = n[i]
          /\ j = Len(m) \/ m[j + 1] < n[j + 1]
    BY <1>5 DEF Less
  <2> DEFINE k == FolderBytes + j
  <2>2. k \in 0 .. Len(a) /\ k < Len(b) /\ (k = Len(a) <=> j = Len(m))
    BY <1>1, <2>1
  <2>3. ASSUME NEW i \in 1 .. k PROVE a[i] = b[i]
    <3>1. CASE i <= FolderBytes
      BY <1>1, <1>2, <3>1
    <3>2. CASE i > FolderBytes
      <4>1. PICK l \in 1 .. j : i = FolderBytes + l
        <5>1. i - FolderBytes \in 1 .. j /\ i = FolderBytes + (i - FolderBytes)
          BY <1>1, <3>2
        <5> QED
          BY <5>1
      <4>2. l \in 1 .. Len(m) /\ l \in 1 .. Len(n)
        BY <1>1, <2>1
      <4> QED
        BY <1>2, <2>1, <4>1, <4>2
    <3> QED
      BY <1>1, <3>1, <3>2
  <2>4. k = Len(a) \/ a[k + 1] < b[k + 1]
    <3>1. CASE j = Len(m)
      BY <2>2, <3>1
    <3>2. CASE j # Len(m)
      <4>1. j + 1 \in 1 .. Len(m) /\ j + 1 \in 1 .. Len(n) /\ k + 1 = FolderBytes + (j + 1)
        BY <1>1, <2>1, <3>2
      <4>2. a[k + 1] = m[j + 1] /\ b[k + 1] = n[j + 1]
        BY <1>2, <4>1
      <4> QED
        BY <2>1, <3>2, <4>2
    <3> QED
      BY <3>1, <3>2
  <2> QED
    BY <2>2, <2>3, <2>4 DEF Less
<1> QED
  BY <1>4, <1>5 DEF a, b

(* What lies between two keys of a folder is a key of that folder: a cursor that goes *)
(* from key to key and stops at one of another folder (DirectoryStructure::next) has   *)
(* missed none.                                                                       *)
THEOREM FolderContiguous ==
  ASSUME ByteStringOK, NEW folder \in Nat, NEW m \in Strings, NEW n \in Strings,
         NEW key \in Strings,
         Less(DirectoryKey(folder, m), key), Less(key, DirectoryKey(folder, n))
  PROVE  \E name \in Strings : key = DirectoryKey(folder, name)
<1> DEFINE a == DirectoryKey(folder, m)
           b == DirectoryKey(folder, n)
           p == Bytes(folder)
<1>1. /\ Len(a) = FolderBytes + Len(m) /\ Len(b) = FolderBytes + Len(n)
      /\ a \in Strings /\ Less(a, key) /\ Less(key, b)
      /\ \A i \in 1 .. FolderBytes : a[i] = p[i] /\ b[i] = p[i]
  BY KeyParts
<1>2. /\ FolderBytes \in Nat /\ Len(m) \in Nat /\ Len(n) \in Nat /\ Len(key) \in Nat
      /\ \A i \in 1 .. Len(key) : key[i] \in Int
  BY DEF ByteStringOK, Strings
<1> HIDE DEF a, b, p
<1>3. \A i \in 1 .. FolderBytes : p[i] \in Int
  <2>1. \A i \in 1 .. FolderBytes : a[i] \in Int
    BY <1>1, <1>2 DEF Strings
  <2> QED
    BY <1>1, <2>1
<1>4. PICK j \in 0 .. Len(a) :
        /\ j < Len(key) /\ \A i \in 1 .. j : a[i] = key[i]
        /\ j = Len(a) \/ a[j + 1] < key[j + 1]
  BY <1>1 DEF Less
<1>5. PICK k \in 0 .. Len(key) :
        /\ k < Len(b) /\ \A i \in 1 .. k : key[i] = b[i]
        /\ k = Len(key) \/ key[k + 1] < b[k + 1]
  BY <1>1 DEF Less
<1>6. k >= FolderBytes
  <2> SUFFICES ASSUME k < FolderBytes PROVE FALSE
    BY <1>2
  <2>1. CASE j >= FolderBytes
    BY <1>1, <1>2, <1>4, <1>5, <2>1
  <2>2. CASE j < FolderBytes
    <3>1. j # Len(a) /\ a[j + 1] < key[j + 1] /\ a[j + 1] = p[j + 1] /\ p[j + 1] \in Int
      BY <1>1, <1>2, <1>4, <1>3, <2>2
    <3>2. CASE j < k
      <4>1. key[j + 1] = b[j + 1] /\ b[j + 1] = p[j + 1]
        BY <1>1, <1>2, <1>5, <2>2, <3>2
      <4> QED
        BY <3>1, <4>1
    <3>3. CASE j = k
      <4>1. key[j + 1] < b[j + 1] /\ b[j + 1] = p[j + 1] /\ key[j + 1] \in Int
        BY <1>1, <1>2, <1>4, <1>5, <2>2, <3>3
      <4> QED
        BY <3>1, <4>1
    <3>4. CASE k < j
      <4>1. a[k + 1] = key[k + 1] /\ key[k + 1] < b[k + 1]
        BY <1>2, <1>4, <1>5, <3>4
      <4>2. a[k + 1] = p[k + 1] /\ b[k + 1] = p[k + 1] /\ p[k + 1] \in Int
        BY <1>1, <1>2, <1>3
      <4> QED
        BY <4>1, <4>2
    <3> QED
      BY <1>2, <3>2, <3>3, <3>4
  <2> QED
    BY <1>2, <2>1, <2>2
<1>7. \A i \in 1 .. FolderBytes : key[i] = p[i]
  BY <1>1, <1>2, <1>5, <1>6
<1> DEFINE name == SubSeq(key, FolderBytes + 1, Len(key))
<1>8. /\ name \in Strings /\ Len(name) = Len(key) - FolderBytes
      /\ \A i \in 1 .. Len(name) : name[i] = key[FolderBytes + i]
  BY <1>2, <1>5, <1>6 DEF Strings
<1> HIDE DEF name
<1>9. key = DirectoryKey(folder, name)
  <2> DEFINE c == DirectoryKey(folder, name)
  <2>1. /\ c \in Strings /\ Len(c) = FolderBytes + Len(name)
        /\ \A i \in 1 .. FolderBytes : c[i] = p[i]
        /\ \A i \in 1 .. Len(name) : c[FolderBytes + i] = name[i]
    BY <1>8, KeyParts DEF p
  <2> HIDE DEF c
  <2>2. Len(c) = Len(key)
    BY <1>2, <1>5, <1>6, <1>8, <2>1
  <2>3. ASSUME NEW i \in 1 .. Len(key) PROVE c[i] = key[i]
    <3>1. CASE i <= FolderBytes
      BY <1>2, <1>7, <2>1, <3>1
    <3>2. CASE i > FolderBytes
      <4>1. i - FolderBytes \in 1 .. Len(name) /\ i = FolderBytes + (i - FolderBytes)
        BY <1>2, <1>8, <3>2
      <4> QED
        BY <1>8, <2>1, <4>1
    <3> QED
      BY <1>2, <3>1, <3>2
  <2>4. c = key
    BY <2>1, <2>2, <2>3, SeqEqual DEF Strings
  <2> QED
    BY <2>4 DEF c
<1> QED
  BY <1>8, <1>9

(* A string after another: first the one, then the other. *)
LEMMA Concatenated ==
  ASSUME NEW s \in Strings, NEW t \in Strings
  PROVE  /\ s \o t \in Strings /\ Len(s \o t) = Len(s) + Len(t)
         /\ \A i \in 1 .. Len(s) : (s \o t)[i] = s[i]
         /\ \A i \in 1 .. Len(t) : (s \o t)[Len(s) + i] = t[i]
<1>1. /\ s \o t \in Strings /\ Len(s \o t) = Len(s) + Len(t)
      /\ \A i \in 1 .. Len(s) + Len(t) : (s \o t)[i] = IF i <= Len(s) THEN s[i] ELSE t[i - Len(s)]
  BY ConcatProperties DEF Strings
<1>2. Len(s) \in Nat /\ Len(t) \in Nat
  BY DEF Strings
<1>3. ASSUME NEW i \in 1 .. Len(t) PROVE (s \o t)[Len(s) + i] = t[i]
  <2>1. Len(s) + i \in 1 .. Len(s) + Len(t) /\ ~(Len(s) + i <= Len(s)) /\ (Len(s) + i) - Len(s) = i
    BY <1>2
  <2> QED
    BY <1>1, <2>1
<1> QED
  BY <1>1, <1>2, <1>3

(* A string put into a buffer with its length before it is read back from there       *)
(* (toStream and ByteStringView::fromStream), whatever is before and behind it.        *)
THEOREM StringReadBack ==
  ASSUME NEW front \in Strings, NEW b \in Strings, NEW back \in Strings
  PROVE  StringAt(front \o WithLength(b) \o back, Len(front)) = b
<1> DEFINE buffer == front \o WithLength(b) \o back
           pos == Len(front)
<1>1. pos \in Nat /\ Len(b) \in Nat /\ Len(back) \in Nat
  BY DEF Strings
<1>2. WithLength(b) \in Strings /\ Len(WithLength(b)) = Len(b) + 1
      /\ WithLength(b)[1] = Len(b) /\ \A i \in 1 .. Len(b) : WithLength(b)[i + 1] = b[i]
  BY <1>1 DEF WithLength, Strings
<1>3. /\ buffer \in Strings /\ Len(buffer) = pos + (Len(b) + 1) + Len(back)
      /\ \A i \in 1 .. Len(b) + 1 : buffer[pos + i] = WithLength(b)[i]
  <2> DEFINE w == WithLength(b)
  <2>1. w \in Strings /\ Len(w) = Len(b) + 1
    BY <1>2
  <2> HIDE DEF w
  <2>2. /\ front \o w \in Strings /\ Len(front \o w) = pos + Len(w)
        /\ \A i \in 1 .. Len(w) : (front \o w)[pos + i] = w[i]
    BY <2>1, Concatenated
  <2> DEFINE f == front \o w
  <2>3. f \in Strings /\ Len(f) = pos + Len(w) /\ \A i \in 1 .. Len(w) : f[pos + i] = w[i]
    BY <2>2
  <2> HIDE DEF f
  <2>4. /\ f \o back \in Strings /\ Len(f \o back) = Len(f) + Len(back)
        /\ \A i \in 1 .. Len(f) : (f \o back)[i] = f[i]
    BY <2>3, Concatenated
  <2>5. \A i \in 1 .. Len(w) : pos + i \in 1 .. Len(f)
    BY <1>1, <2>1, <2>3
  <2>6. \A i \in 1 .. Len(w) : (f \o back)[pos + i] = w[i]
    BY <2>3, <2>4, <2>5
  <2> QED
    BY <2>1, <2>3, <2>4, <2>6 DEF f, w
<1> HIDE DEF buffer, pos
<1>4. buffer[pos + 1] = Len(b)
  BY <1>1, <1>2, <1>3
<1>5. \A i \in 1 .. Len(b) : buffer[pos + (i + 1)] = b[i]
  <2> TAKE i \in 1 .. Len(b)
  <2>1. i + 1 \in 1 .. Len(b) + 1
    BY <1>1
  <2> QED
    BY <1>2, <1>3, <2>1
<1> DEFINE read == SubSeq(buffer, pos + 2, pos + 1 + Len(b))
<1>6. /\ read \in Strings /\ Len(read) = Len(b)
      /\ \A i \in 1 .. Len(b) : read[i] = buffer[pos + (i + 1)]
  <2>1. \A i \in pos + 2 .. pos + 1 + Len(b) : buffer[i] \in Int
    BY <1>1, <1>3 DEF Strings
  <2>2. /\ read \in Seq(Int)
        /\ Len(read) = IF pos + 2 <= pos + 1 + Len(b) THEN (pos + 1 + Len(b)) - (pos + 2) + 1 ELSE 0
        /\ \A i \in 1 .. (pos + 1 + Len(b)) - (pos + 2) + 1 : read[i] = buffer[(pos + 2) + i - 1]
    BY <1>1, <2>1, SubSeqProperties
  <2> HIDE DEF read
  <2>3. (pos + 1 + Len(b)) - (pos + 2) + 1 = Len(b) /\ Len(read) = Len(b)
    BY <1>1, <2>2
  <2>4. \A i \in 1 .. Len(b) : (pos + 2) + i - 1 = pos + (i + 1)
    BY <1>1
  <2> QED
    BY <2>2, <2>3, <2>4 DEF Strings
<1> HIDE DEF read
<1>7. read = b
  BY <1>5, <1>6, SeqEqual DEF Strings
<1> QED
  BY <1>4, <1>7 DEF StringAt, read, buffer, pos
===================================================================================
