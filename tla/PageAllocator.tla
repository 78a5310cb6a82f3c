------------------------------- MODULE PageAllocator -------------------------------
(*********************************************************************************)
(* PageAllocator.cpp: the pool the cache's page buffers come from. A block is carved *)
(* into pages from front to back; a page that is given up goes to a list of free     *)
(* pages, and trim returns the blocks of which every page is in that list. Nobody    *)
(* frees a block: it lives while a page of it, the list or the allocator refers to   *)
(* it, so that the number of blocks the allocator keeps is a second book about       *)
(* something the references decide.                                                  *)
(*                                                                                   *)
(* A page is its block and its number in it. The list is a set: what is allocated    *)
(* next from it is left open. Moving an allocator hands all of this over.            *)
(*********************************************************************************)
EXTENDS Integers, FiniteSets

CONSTANTS
  Blocks,            \* the addresses a block can have
  PagesPerBlock,     \* m_pagesPerBlock; the code has at least 16
  NoBlock            \* m_block before the first allocation

ASSUME MemoryOK ==
  /\ IsFiniteSet(Blocks) /\ NoBlock \notin Blocks
  /\ PagesPerBlock \in Nat /\ PagesPerBlock >= 2

VARIABLES
  block,             \* m_block, the block pages are taken from
  pos,               \* m_currentPosInBlock, in pages
  freePages,         \* m_freePages
  pages,             \* the pages in use, each a shared_ptr with its deleter
  count              \* m_blocksAllocated

vars == <<block, pos, freePages, pages, count>>

PagesOf(b) == {b} \X (0 .. PagesPerBlock - 1)

(* A page in use and a page in the list hold on to their block, as m_block does.     *)
Referenced(used, free) == {page[1] : page \in used \cup free}
Alive == ({block} \cup Referenced(pages, freePages)) \ {NoBlock}

Init ==
  /\ block = NoBlock /\ pos = 0 /\ count = 0
  /\ freePages = {} /\ pages = {}

-----------------------------------------------------------------------------------
(* The first allocation fetches a block and takes its first page. *)
First(b) ==
  /\ block = NoBlock /\ b \in Blocks
  /\ block' = b /\ pos' = 1 /\ count' = 1
  /\ pages' = {<<b, 0>>} /\ UNCHANGED freePages

Reuse(page) ==
  /\ block # NoBlock /\ page \in freePages
  /\ freePages' = freePages \ {page} /\ pages' = pages \cup {page}
  /\ UNCHANGED <<block, pos, count>>

(* allocBlock, and the position at its beginning: there is no block at the address. *)
AllocBlock == block' \in Blocks \ Alive /\ pos' = 0 /\ count' = count + 1

(* A page of the current block; its last page makes allocate fetch the next block    *)
(* at once, before the page is returned.                                             *)
Bump ==
  /\ block # NoBlock /\ freePages = {}
  /\ pages' = pages \cup {<<block, pos>>}
  /\ \/ /\ pos + 1 # PagesPerBlock
        /\ pos' = pos + 1 /\ UNCHANGED <<block, count>>
     \/ pos + 1 = PagesPerBlock /\ AllocBlock
  /\ UNCHANGED freePages

(* The deleter of makePage. *)
Release(page) ==
  /\ page \in pages
  /\ pages' = pages \ {page} /\ freePages' = freePages \cup {page}
  /\ UNCHANGED <<block, pos, count>>

(* trim: the blocks with pages in the list, and those of them it keeps. *)
Touched == {page[1] : page \in freePages}
FreeIn(b) == {page \in freePages : page[1] = b}

(* Mutant of Kept: a block is whole when all but one of its pages are free. *)
KeptButLastPage == {b \in Touched : Cardinality(FreeIn(b)) # PagesPerBlock - 1}

Kept == {b \in Touched : Cardinality(FreeIn(b)) # PagesPerBlock}

(* Mutant of Trim: the pages of the blocks that stay are not put back. *)
TrimLosesPages ==
  /\ freePages' = {}
  /\ count' = count - Cardinality(Touched) + Cardinality(Kept)
  /\ UNCHANGED <<block, pos, pages>>

(* Mutant of Trim: the blocks that stay are not counted again. *)
TrimUncounted ==
  /\ freePages' = {page \in freePages : page[1] \in Kept}
  /\ count' = count - Cardinality(Touched)
  /\ UNCHANGED <<block, pos, pages>>

Trim ==
  /\ freePages' = {page \in freePages : page[1] \in Kept}
  /\ count' = count - Cardinality(Touched) + Cardinality(Kept)
  /\ UNCHANGED <<block, pos, pages>>

Next ==
  \/ \E b \in Blocks : First(b)
  \/ \E page \in freePages : Reuse(page)
  \/ Bump
  \/ \E page \in pages : Release(page)
  \/ Trim

Spec == Init /\ [][Next]_vars

(* There is no memory for the next block: the exception drops the page, whose        *)
(* deleter puts it into the list, and the position stays behind the block's end.     *)
BumpThrows ==
  /\ block # NoBlock /\ freePages = {} /\ pos + 1 = PagesPerBlock
  /\ freePages' = {<<block, pos>>} /\ pos' = pos + 1
  /\ UNCHANGED <<block, pages, count>>

(* With little memory: the position behind the end is never corrected, and the page  *)
(* after the ones in the list lies outside of the block. *)
SpecOutOfMemory == Init /\ [][Next \/ BumpThrows]_vars

-----------------------------------------------------------------------------------
(* A page lies in its block: allocate never carves behind the block's end. *)
InsideBlocks == pages \cup freePages \subseteq Blocks \X (0 .. PagesPerBlock - 1)

(* Every page lies in its block, and so will the next one. *)
TypeOK ==
  /\ block \in Blocks \cup {NoBlock}
  /\ pos \in 0 .. PagesPerBlock - 1
  /\ InsideBlocks
  /\ count \in Nat

Carved(b) == {page \in pages \cup freePages : page[1] = b}

(* No page is handed out twice and none is lost: a page is in use or in the list,    *)
(* never both, a block that lives has all of its pages there, and the current one    *)
(* those before the position (makePage's deleter, trim's second loop).               *)
PagesKept ==
  /\ pages \cap freePages = {}
  /\ block = NoBlock => pos = 0 /\ Alive = {}
  /\ block # NoBlock => Carved(block) = {block} \X (0 .. pos - 1)
  /\ \A b \in Alive \ {block} : Carved(b) = PagesOf(b)

(* The count of blocks, which trim corrects by what it believes to let go, is the    *)
(* number of the blocks something refers to.                                         *)
BlocksCounted == count = Cardinality(Alive)

(* "PageAllocator::trim() will return as many blocks as possible to the system"      *)
(* (PageAllocator.h:16): after it a block lives on only as the current one or for a  *)
(* page in use.                                                                      *)
TrimReturnsBlocks ==
  [][Trim => Alive' \subseteq {block} \cup Referenced(pages, {})]_vars

IInv == TypeOK /\ PagesKept /\ BlocksCounted
====
