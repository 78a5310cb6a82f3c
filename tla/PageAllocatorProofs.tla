---------------------------- MODULE PageAllocatorProofs ----------------------------
(*********************************************************************************)
(* Proofs about PageAllocator for any number of blocks and any size of a block: no   *)
(* page is lost or handed out twice, no page lies outside of its block, and the      *)
(* count of blocks, which trim corrects without looking at the references, is the    *)
(* number of the blocks that live.                                                   *)
(*********************************************************************************)
EXTENDS PageAllocator, FiniteSetTheorems, TLAPS

(* A block has PagesPerBlock pages, so that as many pages of it are all of them. *)
LEMMA BlockSize ==
  ASSUME NEW b
  PROVE  IsFiniteSet(PagesOf(b)) /\ Cardinality(PagesOf(b)) = PagesPerBlock
  <1>1. IsFiniteSet({b}) /\ Cardinality({b}) = 1
    <2>1. {b} = {} \cup {b} OBVIOUS
    <2>. QED BY <2>1, FS_EmptySet, FS_AddElement
  <1>2. /\ IsFiniteSet(0 .. PagesPerBlock - 1)
        /\ Cardinality(0 .. PagesPerBlock - 1) = PagesPerBlock
    BY MemoryOK, FS_Interval
  <1>3. Cardinality(PagesOf(b)) = 1 * PagesPerBlock /\ IsFiniteSet(PagesOf(b))
    BY <1>1, <1>2, FS_Product DEF PagesOf
  <1>. QED BY <1>3, MemoryOK

LEMMA AliveFinite ==
  ASSUME TypeOK
  PROVE  /\ Alive \subseteq Blocks /\ IsFiniteSet(Alive)
         /\ Cardinality(Alive) \in Nat
  <1>1. Alive \subseteq Blocks
    BY DEF Alive, Referenced, TypeOK, InsideBlocks
  <1>. QED BY <1>1, MemoryOK, FS_Subset, FS_CardinalityType

(* Before the first block there are no pages. *)
LEMMA NoPages ==
  ASSUME TypeOK, PagesKept, block = NoBlock
  PROVE  pages = {} /\ freePages = {} /\ pos = 0
  <1>1. Alive = {} /\ pos = 0 BY DEF PagesKept
  <1>2. ASSUME NEW page \in pages \cup freePages PROVE FALSE
    <2>1. page[1] \in Referenced(pages, freePages) BY DEF Referenced
    <2>2. page[1] \in Blocks BY DEF TypeOK, InsideBlocks
    <2>. QED BY <1>1, <2>1, <2>2, MemoryOK DEF Alive
  <1>. QED BY <1>1, <1>2

LEMMA InitInv == Init => IInv
  <1> SUFFICES ASSUME Init PROVE IInv OBVIOUS
  <1>1. TypeOK BY MemoryOK DEF Init, TypeOK, InsideBlocks
  <1>2. Alive = {} BY DEF Init, Alive, Referenced
  <1>3. PagesKept BY <1>2 DEF Init, PagesKept
  <1>4. BlocksCounted BY <1>2, FS_EmptySet DEF Init, BlocksCounted
  <1>. QED BY <1>1, <1>3, <1>4 DEF IInv

-----------------------------------------------------------------------------------
LEMMA FirstInv == ASSUME IInv, NEW b \in Blocks, First(b) PROVE IInv'
  <1>1. TypeOK /\ pages = {} /\ freePages = {} /\ pos = 0
    BY NoPages DEF IInv, First
  <1>2. b # NoBlock BY MemoryOK
  <1>3. Alive' = {b} BY <1>1, <1>2 DEF First, Alive, Referenced
  <1>4. TypeOK' BY <1>1, MemoryOK DEF First, TypeOK, InsideBlocks
  <1>5. Carved(b)' = {b} \X (0 .. pos' - 1)
    BY <1>1 DEF First, Carved
  <1>6. PagesKept' BY <1>1, <1>2, <1>3, <1>5 DEF First, PagesKept
  <1>7. BlocksCounted'
    <2>1. {b} = {} \cup {b} OBVIOUS
    <2>2. Cardinality({b}) = 1 BY <2>1, FS_EmptySet, FS_AddElement
    <2>. QED BY <1>3, <2>2 DEF First, BlocksCounted
  <1>. QED BY <1>4, <1>6, <1>7 DEF IInv

(* A page that goes from the list to a user or back stays in its block. *)
LEMMA Exchanged ==
  ASSUME IInv, pages' \cup freePages' = pages \cup freePages, pages' \cap freePages' = {},
         UNCHANGED <<block, pos, count>>
  PROVE  IInv'
  <1>1. Alive' = Alive BY DEF Alive, Referenced
  <1>2. \A b : Carved(b)' = Carved(b) BY DEF Carved
  <1>3. TypeOK' BY DEF IInv, TypeOK, InsideBlocks
  <1>4. PagesKept' BY <1>1, <1>2 DEF IInv, PagesKept
  <1>5. BlocksCounted' BY <1>1 DEF IInv, BlocksCounted
  <1>. QED BY <1>3, <1>4, <1>5 DEF IInv

LEMMA BumpInv == ASSUME IInv, Bump PROVE IInv'
  <1>0. TypeOK /\ PagesKept /\ BlocksCounted /\ block \in Blocks /\ block # NoBlock
    BY MemoryOK DEF IInv, Bump, TypeOK
  <1> DEFINE new == <<block, pos>>
  <1>1. /\ freePages = {} /\ freePages' = {} /\ pages' = pages \cup {new}
        /\ pos \in Nat /\ pos < PagesPerBlock
    BY <1>0, MemoryOK DEF Bump, TypeOK
  <1>2. InsideBlocks' BY <1>0, <1>1, MemoryOK DEF TypeOK, InsideBlocks
  <1>3. Carved(block) = {block} \X (0 .. pos - 1) BY <1>0 DEF PagesKept
  <1>4. \A b : b # block => {page \in pages' \cup freePages' : page[1] = b} = Carved(b)
    BY <1>1 DEF Carved
  <1>5. {page \in pages' \cup freePages' : page[1] = block} = {block} \X (0 .. pos)
    <2>1. {page \in pages' \cup freePages' : page[1] = block} = Carved(block) \cup {new}
      BY <1>1 DEF Carved
    <2>. QED BY <1>1, <1>3, <2>1
  <1>6. block \in Alive BY <1>0 DEF Alive
  <1>7. Referenced(pages, freePages)' = Referenced(pages, freePages) \cup {block}
    <2>1. pages' \cup freePages' = (pages \cup freePages) \cup {new} /\ new[1] = block
      BY <1>1
    <2>2. {page[1] : page \in (pages \cup freePages) \cup {new}}
            = {page[1] : page \in pages \cup freePages} \cup {new[1]}
      OBVIOUS
    <2>. QED BY <2>1, <2>2 DEF Referenced
  <1>8. CASE pos + 1 # PagesPerBlock /\ pos' = pos + 1 /\ UNCHANGED <<block, count>>
    <2>1. TypeOK' BY <1>0, <1>1, <1>2, <1>8, MemoryOK DEF TypeOK
    <2>2. Alive' = Alive BY <1>6, <1>7, <1>8 DEF Alive
    <2>3. Carved(block)' = {block'} \X (0 .. pos' - 1)
      BY <1>1, <1>5, <1>8 DEF Carved
    <2>4. \A b \in Alive' \ {block'} : Carved(b)' = PagesOf(b)
      BY <1>0, <1>4, <1>8, <2>2 DEF PagesKept, Carved
    <2>5. PagesKept' BY <1>0, <1>1, <1>8, <2>3, <2>4 DEF PagesKept, Carved
    <2>6. BlocksCounted' BY <1>0, <1>8, <2>2 DEF BlocksCounted
    <2>. QED BY <2>1, <2>5, <2>6 DEF IInv
  <1>9. CASE /\ pos + 1 = PagesPerBlock
             /\ block' \in Blocks \ Alive /\ pos' = 0 /\ count' = count + 1
    <2>1. TypeOK' BY <1>0, <1>1, <1>2, <1>9, MemoryOK DEF TypeOK
    <2>2. Alive' = Alive \cup {block'} /\ block' \notin Alive
      BY <1>6, <1>7, <1>9, MemoryOK DEF Alive
    <2>3. Carved(block')  = {}
      BY <1>9, MemoryOK DEF Carved, Alive, Referenced
    <2>4. {page \in pages' \cup freePages' : page[1] = block'} = {}
      BY <1>4, <1>6, <2>2, <2>3
    <2>5. {block'} \X (0 .. pos' - 1) = {} BY <1>9
    <2>6. {page \in pages' \cup freePages' : page[1] = block} = PagesOf(block)
      <3>1. pos = PagesPerBlock - 1 BY <1>1, <1>9, MemoryOK
      <3>. QED BY <1>5, <3>1 DEF PagesOf
    <2>7. \A b \in Alive' \ {block'} : {page \in pages' \cup freePages' : page[1] = b} = PagesOf(b)
      BY <1>0, <1>4, <2>2, <2>6 DEF PagesKept
    <2>8. block' # NoBlock BY <1>9, MemoryOK
    <2>9. PagesKept' BY <1>1, <2>4, <2>5, <2>7, <2>8 DEF PagesKept, Carved, PagesOf
    <2>10. BlocksCounted'
      BY <1>0, <1>9, <2>2, AliveFinite, FS_AddElement DEF BlocksCounted
    <2>. QED BY <2>1, <2>9, <2>10 DEF IInv
  <1>. QED BY <1>8, <1>9 DEF Bump, AllocBlock

(* What trim lets go: the blocks of which every page is in the list. *)
LEMMA LetGo ==
  ASSUME IInv
  PROVE  /\ Kept \subseteq Touched /\ Touched \subseteq Alive
         /\ \A b \in Touched \ Kept : FreeIn(b) = PagesOf(b) /\ b # block
         /\ \A b \in Touched \ Kept : \A page \in pages : page[1] # b
         /\ \A b \in Kept : FreeIn(b) # PagesOf(b)
  <1>0. TypeOK /\ PagesKept BY DEF IInv
  <1>1. Kept \subseteq Touched BY DEF Kept
  <1>2. Touched \subseteq Alive
    BY <1>0, MemoryOK DEF Touched, Alive, Referenced, TypeOK, InsideBlocks
  <1>3. \A b : FreeIn(b) \subseteq PagesOf(b)
    BY <1>0 DEF FreeIn, PagesOf, TypeOK, InsideBlocks
  <1>4. ASSUME NEW b \in Touched \ Kept PROVE FreeIn(b) = PagesOf(b)
    <2>1. Cardinality(FreeIn(b)) = PagesPerBlock BY <1>4 DEF Kept
    <2>. QED BY <1>3, <2>1, BlockSize, FS_Subset
  <1>5. ASSUME NEW b \in Kept PROVE FreeIn(b) # PagesOf(b)
    <2>1. Cardinality(FreeIn(b)) # PagesPerBlock BY <1>5 DEF Kept
    <2>. QED BY <2>1, BlockSize
  <1>6. ASSUME NEW b \in Touched \ Kept, NEW page \in pages PROVE page[1] # b
    <2>1. SUFFICES ASSUME page[1] = b PROVE FALSE OBVIOUS
    <2>2. page \in PagesOf(b) BY <1>0, <2>1 DEF PagesOf, TypeOK, InsideBlocks
    <2>3. page \in freePages BY <1>4, <2>2 DEF FreeIn
    <2>. QED BY <1>0, <2>3 DEF PagesKept
  <1>7. ASSUME NEW b \in Touched \ Kept PROVE b # block
    <2>1. SUFFICES ASSUME b = block PROVE FALSE OBVIOUS
    <2>2. b # NoBlock BY <1>2, <1>7 DEF Alive
    <2>3. Carved(block) = {block} \X (0 .. pos - 1) BY <1>0, <2>1, <2>2 DEF PagesKept
    <2>4. PagesOf(block) \subseteq Carved(block) BY <1>4, <1>7, <2>1 DEF FreeIn, Carved
    <2>5. <<block, PagesPerBlock - 1>> \in PagesOf(block) BY MemoryOK DEF PagesOf
    <2>6. <<block, PagesPerBlock - 1>> \in {block} \X (0 .. pos - 1) BY <2>3, <2>4, <2>5
    <2>7. PagesPerBlock - 1 \in 0 .. pos - 1 BY <2>6
    <2>. QED BY <1>0, <2>7, MemoryOK DEF TypeOK
  <1>. QED BY <1>1, <1>2, <1>4, <1>5, <1>6, <1>7

LEMMA TrimInv ==
  ASSUME IInv, Trim
  PROVE  IInv' /\ Alive' \subseteq {block} \cup Referenced(pages, {})
  <1>0. TypeOK /\ PagesKept /\ BlocksCounted BY DEF IInv
  <1> DEFINE gone == Touched \ Kept
  <1>1. /\ UNCHANGED <<block, pos, pages>>
        /\ freePages' = {page \in freePages : page[1] \in Kept}
    BY DEF Trim
  <1>2. \A b : b \notin gone => Carved(b)' = Carved(b)
    BY <1>1 DEF Carved, Touched
  <1>3. Alive' = Alive \ gone
    <2>1. Referenced(pages, freePages)' = Referenced(pages, freePages) \ gone
      BY <1>1, LetGo DEF Referenced, Touched
    <2>2. block \notin gone BY LetGo
    <2>. QED BY <1>1, <2>1, <2>2 DEF Alive
  <1>4. count' = Cardinality(Alive') /\ count' \in Nat
    <2>1. IsFiniteSet(Alive) /\ IsFiniteSet(Touched) /\ IsFiniteSet(Kept)
      BY <1>0, AliveFinite, LetGo, FS_Subset
    <2>2. Cardinality(gone) = Cardinality(Touched) - Cardinality(Kept) /\ IsFiniteSet(gone)
      <3>1. Touched \cap Kept = Kept BY LetGo
      <3>. QED BY <2>1, <3>1, FS_Difference
    <2>3. Cardinality(Alive \ gone) = Cardinality(Alive) - Cardinality(gone)
      <3>1. Alive \cap gone = gone BY LetGo
      <3>. QED BY <2>1, <3>1, FS_Difference
    <2>4. Cardinality(Alive \ gone) \in Nat BY <2>1, FS_Difference, FS_CardinalityType
    <2>5. Cardinality(Touched) \in Nat /\ Cardinality(Kept) \in Nat
      BY <2>1, FS_CardinalityType
    <2>6. count \in Nat /\ count = Cardinality(Alive) BY <1>0 DEF TypeOK, BlocksCounted
    <2>. QED BY <1>3, <2>2, <2>3, <2>4, <2>5, <2>6 DEF Trim
  <1>5. TypeOK' BY <1>0, <1>1, <1>4 DEF TypeOK, InsideBlocks
  <1>6. BlocksCounted' BY <1>4 DEF BlocksCounted
  <1>7. PagesKept'
    <2>1. (pages \cap freePages)' = {} BY <1>0, <1>1 DEF PagesKept
    <2>2. block' = NoBlock => pos' = 0 /\ Alive' = {} BY <1>0, <1>1, <1>3 DEF PagesKept
    <2>3. block' # NoBlock => Carved(block)' = {block'} \X (0 .. pos' - 1)
      <3>1. block \notin gone BY LetGo
      <3>2. Carved(block)' = {page \in pages' \cup freePages' : page[1] = block}
        BY <1>1 DEF Carved
      <3>3. {page \in pages' \cup freePages' : page[1] = block} = Carved(block)
        BY <1>1, <3>1 DEF Carved, Touched
      <3>. QED BY <1>0, <1>1, <3>2, <3>3 DEF PagesKept
    <2>4. \A b \in Alive' \ {block'} : Carved(b)' = PagesOf(b)
      BY <1>0, <1>1, <1>2, <1>3 DEF PagesKept
    <2>. QED BY <2>1, <2>2, <2>3, <2>4 DEF PagesKept, Carved, PagesOf
  <1>8. Alive' \subseteq {block} \cup Referenced(pages, {})
    <2>1. SUFFICES ASSUME NEW b \in Alive \ gone, b # block
                   PROVE  \E page \in pages : page[1] = b
      BY <1>3 DEF Referenced
    <2>2. Carved(b) = PagesOf(b) BY <1>0, <2>1 DEF PagesKept
    <2>3. CASE b \in Touched
      <3>1. FreeIn(b) # PagesOf(b) BY <2>1, <2>3, LetGo
      <3>. QED BY <2>2, <3>1 DEF Carved, FreeIn
    <2>4. CASE b \notin Touched
      BY <2>1, <2>4 DEF Alive, Referenced, Touched
    <2>. QED BY <2>3, <2>4
  <1>. QED BY <1>5, <1>6, <1>7, <1>8 DEF IInv

-----------------------------------------------------------------------------------
LEMMA NextInv == ASSUME IInv, [Next]_vars PROVE IInv'
  <1>1. ASSUME NEW b \in Blocks, First(b) PROVE IInv' BY <1>1, FirstInv
  <1>2. ASSUME NEW page \in freePages, Reuse(page) PROVE IInv'
    BY <1>2, Exchanged DEF Reuse, IInv, PagesKept
  <1>3. CASE Bump BY <1>3, BumpInv
  <1>4. ASSUME NEW page \in pages, Release(page) PROVE IInv'
    BY <1>4, Exchanged DEF Release, IInv, PagesKept
  <1>5. CASE Trim BY <1>5, TrimInv
  <1>6. CASE UNCHANGED vars
    BY <1>6, Exchanged DEF vars, IInv, PagesKept
  <1>. QED BY <1>1, <1>2, <1>3, <1>4, <1>5, <1>6 DEF Next

(* The inductive invariant: the pages, the position and the count of the allocator   *)
(* (PageAllocator.cpp) agree in every state it reaches.                              *)
THEOREM Invariant == Spec => []IInv
  BY InitInv, NextInv, PTL DEF Spec

(* Types: no page is carved out of memory that is not the allocator's. *)
THEOREM TypeCorrect == Spec => []TypeOK
  <1>1. IInv => TypeOK BY DEF IInv
  <1>. QED BY <1>1, Invariant, PTL

(* No page is lost, and none has two users (allocate, the deleter of makePage, trim). *)
THEOREM NoPageLost == Spec => []PagesKept
  <1>1. IInv => PagesKept BY DEF IInv
  <1>. QED BY <1>1, Invariant, PTL

(* The statistic trim returns counts the blocks something still refers to. *)
THEOREM CountCorrect == Spec => []BlocksCounted
  <1>1. IInv => BlocksCounted BY DEF IInv
  <1>. QED BY <1>1, Invariant, PTL

(* trim returns every block it can: the promise of PageAllocator.h:16. *)
THEOREM TrimComplete == Spec => TrimReturnsBlocks
  <1>1. ASSUME IInv, [Next]_vars
        PROVE  [Trim => Alive' \subseteq {block} \cup Referenced(pages, {})]_vars
    BY <1>1, TrimInv
  <1>. QED BY <1>1, Invariant, PTL DEF Spec, TrimReturnsBlocks
====
