------------------------------- MODULE CacheManager -------------------------------
(*********************************************************************************)
(* CompoundFs/CacheManager.cpp: what is in the cache, what is evicted and where to, *)
(* and the calls that are under way when an eviction asks the FreeStore for a page,  *)
(* which reads its tables through the cache again.  One transaction, one thread; the *)
(* FreeStore is reduced to its allocate.  A page that is used is known by its index, *)
(* and is in the cache, or has its place in the file, under an id.                   *)
(*********************************************************************************)
EXTENDS Integers, Sequences, SequencesExt, FiniteSetsExt, TLC

CONSTANTS
  MaxCachedPages,       \* CacheManager's maxPages
  MaxSize,              \* bound: pages of the file
  MaxPinned,            \* bound: pages the users hold
  Starts                \* transactions to begin with, each with a bound on its changes

ASSUME MaxCachedPagesOK == MaxCachedPages \in Nat \ {0}

VARIABLES
  class,                \* m_pageCache: the class of what is in it, by id
  divert, newIds,       \* m_divertedPageIds, m_newPageIds
  store,                \* the FreeStore
  size,                 \* of the file
  used,                 \* the pages that are in use, but for contents of files
  content,              \* pages allocated for contents of files
  freed,                \* pages given back in this transaction
  pins,                 \* ids whose buffers the users hold
  stack,                \* the calls under way, the innermost first
  phase,                \* "txn", or "closing" in a commit, or "undefined"
  modified, saved,      \* history: pages changed; ids that are in the file as last changed
  changes, start

cache == <<class, divert, newIds>>
users == <<used, content, freed, phase, changes, start>>
vars == <<class, divert, newIds, store, size, used, content, freed, pins, stack, phase,
          modified, saved, changes, start>>

Pages == 0 .. MaxSize - 1
PageClasses == {"Read", "New", "Dirty"}
Cached == {id \in Pages : class[id] # "none"}

Identity == [p \in Pages |-> p]

(* At the beginning of a transaction, or after some of it. *)
Init ==
  /\ start \in Starts
  /\ class = start.class /\ modified = start.modified /\ content = start.content
  /\ store = start.store /\ size = start.size /\ used = start.used
  /\ divert = Identity /\ newIds = {}
  /\ freed = {} /\ pins = {} /\ stack = <<>> /\ phase = "txn"
  /\ saved = {} /\ changes = 0

-----------------------------------------------------------------------------------
(* Trimming *)
Keep == (MaxCachedPages \div 4) * 3
Rank(c) == CASE c = "Read" -> 1 [] c = "New" -> 2 [] c = "Dirty" -> 3 [] OTHER -> 0

(* Pages held by a call under way, or by the FreeStore. *)
Held(frames) ==
  {f.id : f \in {g \in ToSet(frames) : g.op = "load"}}
    \cup (IF store.loaded THEN {store.head} ELSE {})

(* Mutant of Unpinned: what calls under way hold does not count. *)
UnpinnedByUsers(c, frames) == {id \in Pages \ pins : c[id] # "none"}
Unpinned(c, frames) == {id \in Pages \ (pins \cup Held(frames)) : c[id] # "none"}

(* Which of the pages of a class are used less is left open. *)
Victims(c, frames) ==
  LET unpinned == Unpinned(c, frames)
      n == Max({0, Cardinality(unpinned) - Keep})
  IN {evict \in kSubset(n, unpinned) :
        \A id \in evict, kept \in unpinned \ evict : Rank(c[id]) <= Rank(c[kept])}

(* Mutant of Over: one page too late. *)
OverLate(c) == Cardinality({id \in Pages : c[id] # "none"}) > MaxCachedPages + 1
Over(c) == Cardinality({id \in Pages : c[id] # "none"}) > MaxCachedPages

(* trimCheck, and trim up to its first eviction. *)
TrimCheck(c, frames) ==
  IF ~Over(c) THEN stack' = frames
  ELSE \E evict \in Victims(c, frames) :
         stack' = <<[op |-> "trim", evict |-> evict,
                     dirty |-> {id \in evict : c[id] = "Dirty"},
                     new |-> {id \in evict : c[id] = "New"}]>> \o frames

(* emplace does nothing when there is a page. *)
Emplace(id, c, frames) ==
  /\ class' = IF class[id] = "none" THEN [class EXCEPT ![id] = c] ELSE class
  /\ TrimCheck(class', frames)

ClassOf(id) == IF id \in newIds THEN "New" ELSE "Dirty"
Loading(id) == [op |-> "load", id |-> id]
Allocation == [op |-> "allocate", at |-> "begin", next |-> <<>>]

-----------------------------------------------------------------------------------
(* The users' calls *)
Idle == phase \in {"txn", "closing"} /\ stack = <<>> /\ Cardinality(pins) < MaxPinned
Change == changes < start.maxChanges /\ changes' = changes + 1

LoadPage(p) ==
  /\ Idle /\ p \in used
  /\ LET id == divert[p]
     IN IF class[id] # "none"
          THEN /\ id \notin pins
               /\ pins' = pins \cup {id} /\ UNCHANGED <<class, stack>>
          ELSE Emplace(id, "Read", <<Loading(id)>>) /\ pins' = pins
  /\ UNCHANGED <<divert, newIds, store, size, users, modified, saved>>

(* makePageWritable, and the change *)
SetPageDirty(p) ==
  /\ phase \in {"txn", "closing"} /\ stack = <<>> /\ Change
  /\ p \in used /\ divert[p] \in pins
  /\ class' = [class EXCEPT ![divert[p]] = ClassOf(divert[p])]
  /\ modified' = modified \cup {p} /\ saved' = saved \ {divert[p]}
  /\ UNCHANGED <<divert, newIds, store, size, used, content, freed, pins, stack, phase, start>>

Unpin ==
  /\ stack = <<>> /\ pins # {} /\ pins' = {}
  /\ UNCHANGED <<cache, store, size, users, stack, modified, saved>>

NewPage ==
  /\ Idle /\ Change
  /\ stack' = <<Allocation, [op |-> "new"]>>
  /\ UNCHANGED <<cache, store, size, used, content, freed, phase, start, pins, modified, saved>>

WriteContent ==
  /\ Idle /\ phase = "txn" /\ Change
  /\ stack' = <<Allocation, [op |-> "write"]>>
  /\ UNCHANGED <<cache, store, size, used, content, freed, phase, start, pins, modified, saved>>

FreePage(p) ==
  /\ Idle /\ phase = "txn" /\ Change
  /\ p \in used \ {0} /\ used' = used \ {p} /\ freed' = freed \cup {p}
  /\ modified' = modified \ {p}
  /\ UNCHANGED <<cache, store, size, content, phase, start, pins, stack, saved>>

(* The commit gives back the pages others were diverted to, and closes the FreeStore,   *)
(* which puts its tables on pages given back or free; then it stores the commit block. *)
DivertedIds == {divert[p] : p \in {q \in Pages : divert[q] # q}}

BeginClose ==
  /\ phase = "txn" /\ stack = <<>>
  /\ phase' = "closing"
  /\ store' = [store EXCEPT !.allocator = FALSE, !.stillInUse = DivertedIds]
  /\ UNCHANGED <<cache, size, used, content, freed, pins, stack, modified, saved, changes, start>>

Repurpose(p) ==
  /\ Idle /\ phase = "closing" /\ p \in freed
  /\ LET id == divert[p]
     IN IF class[id] # "none"
          THEN /\ class' = [class EXCEPT ![id] = ClassOf(id)]
               /\ pins' = pins \cup {id} /\ stack' = stack
          ELSE Emplace(id, ClassOf(id), <<Loading(id)>>) /\ pins' = pins
  /\ used' = used \cup {p} /\ freed' = freed \ {p}
  /\ modified' = modified \cup {p} /\ saved' = saved \ {divert[p]}
  /\ UNCHANGED <<divert, newIds, store, size, content, phase, changes, start>>

(* asNewPage: of a page that was free, by newPage and by the closing FreeStore. *)
AsNewPage(id, frames) ==
  /\ newIds' = newIds \cup {id}
  /\ Emplace(id, "New", <<Loading(id)>> \o frames)
  /\ used' = used \cup {id} /\ modified' = modified \cup {id} /\ saved' = saved \ {id}

TakeFreePage ==
  /\ Idle /\ phase = "closing" /\ store.current # <<>>
  /\ AsNewPage(store.current[1], <<>>)
  /\ store' = [store EXCEPT !.current = Tail(@)]
  /\ UNCHANGED <<divert, size, content, freed, pins, phase, changes, start>>

-----------------------------------------------------------------------------------
(* The calls under way *)
Top == stack[1]
Running(op) == phase # "undefined" /\ stack # <<>> /\ Top.op = op

(* The end of loadPage, asNewPage or repurpose.  Users keep the page. *)
Return ==
  /\ Running("load")
  /\ pins' = IF Tail(stack) = <<>> THEN pins \cup {Top.id} ELSE pins
  /\ stack' = Tail(stack)
  /\ UNCHANGED <<cache, store, size, users, modified, saved>>

Fails ==
  /\ phase' = "undefined" /\ stack' = <<>>
  /\ UNCHANGED <<cache, store, size, used, content, freed, pins, modified, saved, changes, start>>

(* evictDirtyPages looks for the page and asks for another one. *)
EvictDirty ==
  /\ Running("trim") /\ Top.dirty # {}
  /\ \E id \in Top.dirty :
       IF class[id] = "none" THEN Fails
       ELSE /\ stack' = <<Allocation, [op |-> "divert", id |-> id],
                          [Top EXCEPT !.dirty = @ \ {id}]>> \o Tail(stack)
            /\ UNCHANGED <<cache, store, size, users, pins, modified, saved>>

(* evictNewPages, removeFromCache *)
EvictOthers ==
  /\ Running("trim") /\ Top.dirty = {}
  /\ IF \E id \in Top.new : class[id] = "none" THEN Fails
     ELSE /\ saved' = saved \cup Top.new
          /\ class' = [id \in Pages |-> IF id \in Top.evict THEN "none" ELSE class[id]]
          /\ stack' = Tail(stack)
          /\ UNCHANGED <<divert, newIds, store, size, users, pins, modified>>

(* Mutant of Divert: the id is not noted to be new. *)
DivertAsOld(p, id) ==
  /\ divert' = [divert EXCEPT ![p] = id] /\ saved' = saved \cup {id}
  /\ newIds' = newIds
(* Mutant of Divert: nobody learns where the page went. *)
DivertUnnoted(p, id) ==
  /\ divert' = divert /\ saved' = saved \cup {id}
  /\ newIds' = newIds \cup {id}
Divert(p, id) ==
  /\ divert' = [divert EXCEPT ![p] = id] /\ saved' = saved \cup {id}
  /\ newIds' = newIds \cup {id}

-----------------------------------------------------------------------------------
(* FreeStore::allocate, of one page *)
At(step) == Running("allocate") /\ Top.at = step
Goto(step, next) == <<[Top EXCEPT !.at = step, !.next = next]>> \o Tail(stack)
Allocated(id) == <<[op |-> "allocated", id |-> id]>> \o Tail(stack)
HeadId == divert[store.head]

(* FreeStore's loadPage *)
LoadFor(p, frames) ==
  IF class[divert[p]] # "none" THEN stack' = frames /\ class' = class
  ELSE Emplace(divert[p], "Read", <<Loading(divert[p])>> \o frames)

(* The FreeStore has nothing, and is not asked again: the file grows. *)
Grow ==
  /\ At("begin") /\ (store.count = 0 \/ ~store.allocator)
  /\ size < MaxSize /\ size' = size + 1
  /\ store' = [store EXCEPT !.allocator = FALSE]
  /\ stack' = Allocated(size)
  /\ UNCHANGED <<cache, users, pins, modified, saved>>

AllocateBegin ==
  /\ At("begin") /\ store.count # 0 /\ store.allocator
  /\ IF store.loaded THEN stack' = Goto("next", store.rest) /\ class' = class
     ELSE LoadFor(store.head, Goto("head", <<>>))
  /\ UNCHANGED <<divert, newIds, store, size, users, pins, modified, saved>>

(* The intervals of the first table, for the first time or not. *)
InsertHead ==
  /\ At("head")
  /\ store' = [store EXCEPT !.loaded = TRUE, !.current = @ \o store.pages]
  /\ stack' = Goto("next", store.rest)
  /\ UNCHANGED <<cache, size, users, pins, modified, saved>>

LoadTable ==
  /\ At("next") /\ Top.next # <<>> /\ store.current = <<>>
  /\ freed' = freed \cup {Top.next[1].page}
  /\ LoadFor(Top.next[1].page, Goto("table", Top.next))
  /\ UNCHANGED <<divert, newIds, store, size, used, content, phase, changes, start, pins,
                 modified, saved>>

InsertTable ==
  /\ At("table")
  /\ store' = [store EXCEPT !.current = @ \o Top.next[1].pages]
  /\ stack' = Goto("next", Tail(Top.next))
  /\ UNCHANGED <<cache, size, users, pins, modified, saved>>

(* Mutant of Popped: the page stays in the list. *)
PoppedNot(free) == free
Popped(free) == Tail(free)

(* The head no longer links the tables that were loaded. *)
PopFront ==
  /\ At("next") /\ (Top.next = <<>> \/ store.current # <<>>)
  /\ IF store.current = <<>> THEN Fails
     ELSE LET free == IF Top.next = store.rest THEN store.current
                      ELSE SortSeq(store.current, <)
          IN /\ store' = [store EXCEPT !.current = Popped(free), !.count = @ - 1,
                                       !.rest = Top.next]
             /\ IF Top.next = store.rest THEN UNCHANGED <<class, modified, saved>>
                ELSE /\ class' = [class EXCEPT ![HeadId] = ClassOf(HeadId)]
                     /\ modified' = modified \cup {store.head} /\ saved' = saved \ {HeadId}
             /\ stack' = Allocated(free[1])
             /\ UNCHANGED <<divert, newIds, size, users, pins>>

(* What the caller does with the page. *)
AllocatedForNew ==
  /\ Running("allocated") /\ stack[2].op = "new"
  /\ AsNewPage(Top.id, SubSeq(stack, 3, Len(stack)))
  /\ UNCHANGED <<divert, store, size, content, freed, pins, phase, changes, start>>

AllocatedForContent ==
  /\ Running("allocated") /\ stack[2].op = "write"
  /\ content' = content \cup {Top.id} /\ stack' = <<>>
  /\ UNCHANGED <<cache, store, size, used, freed, pins, phase, changes, start, modified, saved>>

(* The page to write is the one that was found before the allocation. *)
AllocatedForDirty ==
  /\ Running("allocated") /\ stack[2].op = "divert"
  /\ IF class[stack[2].id] = "none" THEN Fails
     ELSE /\ Divert(stack[2].id, Top.id)
          /\ stack' = SubSeq(stack, 3, Len(stack))
          /\ UNCHANGED <<class, store, size, users, pins, modified>>

Rollback ==
  /\ stack = <<>>
  /\ class' = [id \in Pages |-> "none"] /\ divert' = Identity /\ newIds' = {}
  /\ store' = start.committed /\ size' = start.size /\ used' = start.used
  /\ content' = {} /\ freed' = {} /\ pins' = {} /\ phase' = "txn"
  /\ modified' = {} /\ saved' = {} /\ changes' = 0
  /\ UNCHANGED <<stack, start>>

Next ==
  \/ \E p \in Pages : LoadPage(p) \/ SetPageDirty(p) \/ FreePage(p) \/ Repurpose(p)
  \/ Unpin \/ NewPage \/ WriteContent \/ BeginClose \/ TakeFreePage \/ Return
  \/ EvictDirty \/ EvictOthers \/ Grow \/ AllocateBegin \/ InsertHead \/ LoadTable
  \/ InsertTable \/ PopFront \/ AllocatedForNew \/ AllocatedForContent \/ AllocatedForDirty
  \/ Rollback

Spec == Init /\ [][Next]_vars

-----------------------------------------------------------------------------------
TypeOK ==
  /\ class \in [Pages -> PageClasses \cup {"none"}]
  /\ \A id \in newIds : class[id] # "Dirty"
  /\ divert \in [Pages -> Pages] /\ newIds \cup used \cup content \cup freed \subseteq 0 .. size - 1
  /\ phase \in {"txn", "closing", "undefined"}

(* A page that was changed is in the cache and known to be changed, or in the file     *)
(* where it is looked for (CommitHandler.cpp:120).                                    *)
DirtyKept ==
  /\ TypeOK
  /\ phase # "undefined" =>
    \A p \in modified : class[divert[p]] \in {"New", "Dirty"} \/ divert[p] \in saved

(* A page somebody holds stays in the cache: a second buffer for it would lose the    *)
(* changes of one of them.                                                           *)
HeldIsCached ==
  phase # "undefined" =>
    \A id \in pins \cup {f.id : f \in {g \in ToSet(stack) : g.op = "load"}}
              \cup (IF store.loaded THEN {HeadId} ELSE {}) : class[id] # "none"

(* Dirty pages are diverted to pages that nobody else uses, and divert no second time. *)
DivertedOnce ==
  /\ \A p, q \in Pages : divert[p] = divert[q] => p = q \/ p \notin used \/ q \notin used
  /\ \A p \in Pages : divert[p] # p => divert[divert[p]] = divert[p]

(* A page the FreeStore has to hand out is free, not in the cache, and handed out once  *)
(* (CacheManager.cpp:38).                                                            *)
FreePagesUnused ==
  /\ IsInjective(store.current)
  /\ ToSet(store.current) \cap (newIds \cup content \cup used \cup freed \cup Cached) = {}

(* A call that puts a page in the cache leaves it within its limit, but for pages that  *)
(* are held (CacheManager.h:26).                                                       *)
CacheBounded ==
  [][Running("load") /\ stack' = <<>>
       => \/ Cardinality(Cached') <= MaxCachedPages
          \/ Cardinality(Cached' \ (pins' \cup Held(<<>>)')) <= Keep]_vars

(* The pages that changed ones are diverted to are those the FreeStore got: the others  *)
(* belong to nobody after the commit (DirectoryStructure.cpp:248).                      *)
DivertedGivenBack == phase = "closing" => DivertedIds = store.stillInUse

(* A page that evictDirtyPages found in the cache is still there when the page to       *)
(* divert it to was allocated (CacheManager.cpp:156).                                 *)
EvictedIsCached == phase # "undefined"
===================================================================================
