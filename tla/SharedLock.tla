-------------------------------- MODULE SharedLock --------------------------------
(*********************************************************************************)
(* CompoundFs/SharedLock.h: a reader-writer lock for threads, made of a mutex, a   *)
(* condition variable, a flag and a counter.  One step is one critical section of   *)
(* m_mutex, one notify_all, or the one access to m_shared that is made without the  *)
(* mutex: unlock_shared looks at the counter after it has given the mutex back.     *)
(*********************************************************************************)
EXTENDS Integers, FiniteSets, ReadWriteLock

CONSTANT Threads

ASSUME ThreadsOK == IsFiniteSet(Threads)

VARIABLES
  exclusive,            \* m_exclusive
  shared,               \* m_shared
  waiting,              \* the threads asleep in m_cv.wait
  pc,                   \* how far each thread is in its call
  seen                  \* the values the access without the mutex may read

vars == <<exclusive, shared, waiting, pc, seen>>

PCs == {"idle", "lock", "locked", "unlocked",
        "lockShared", "sharing", "unlockedShared", "notify"}

Init ==
  /\ exclusive = FALSE /\ shared = 0 /\ waiting = {}
  /\ pc = [p \in Threads |-> "idle"]
  /\ seen = [p \in Threads |-> {}]

Goto(p, from, to) == pc[p] = from /\ pc' = [pc EXCEPT ![p] = to]

(* The unsynchronized read races with these writes.  It returns what its own thread  *)
(* wrote or any later value: that is all coherence of one memory location gives.     *)
SetShared(n, s) ==
  /\ shared' = n
  /\ seen' = [q \in Threads |-> IF s[q] = {} THEN {} ELSE s[q] \cup {n}]

-----------------------------------------------------------------------------------
(* lock, try_lock, unlock *)
LockCall(p) == Goto(p, "idle", "lock") /\ UNCHANGED <<exclusive, shared, waiting, seen>>

(* Mutant of Lock: the sharers are overlooked. *)
LockAmongSharers(p) ==
  /\ ~exclusive /\ p \notin waiting
  /\ Goto(p, "lock", "locked")
  /\ exclusive' = TRUE
  /\ UNCHANGED <<shared, waiting, seen>>

Lock(p) ==
  /\ ~exclusive /\ shared = 0 /\ p \notin waiting
  /\ Goto(p, "lock", "locked")
  /\ exclusive' = TRUE
  /\ UNCHANGED <<shared, waiting, seen>>

LockWait(p) ==
  /\ pc[p] = "lock" /\ p \notin waiting
  /\ exclusive \/ shared > 0
  /\ waiting' = waiting \cup {p}
  /\ UNCHANGED <<exclusive, shared, pc, seen>>

TryLock(p) ==
  /\ ~exclusive /\ shared = 0
  /\ Goto(p, "idle", "locked")
  /\ exclusive' = TRUE
  /\ UNCHANGED <<shared, waiting, seen>>

Unlock(p) ==
  /\ Goto(p, "locked", "unlocked")
  /\ exclusive' = FALSE
  /\ UNCHANGED <<shared, waiting, seen>>

(* Mutant of NotifyUnlocked: notify_one. *)
NotifyOneUnlocked(p) ==
  /\ Goto(p, "unlocked", "idle")
  /\ \/ waiting = {} /\ UNCHANGED waiting
     \/ \E q \in waiting : waiting' = waiting \ {q}
  /\ UNCHANGED <<exclusive, shared, seen>>

NotifyUnlocked(p) ==
  /\ Goto(p, "unlocked", "idle")
  /\ waiting' = {}
  /\ UNCHANGED <<exclusive, shared, seen>>

-----------------------------------------------------------------------------------
(* lock_shared, try_lock_shared, unlock_shared *)
LockSharedCall(p) ==
  Goto(p, "idle", "lockShared") /\ UNCHANGED <<exclusive, shared, waiting, seen>>

LockShared(p) ==
  /\ ~exclusive /\ p \notin waiting
  /\ Goto(p, "lockShared", "sharing")
  /\ SetShared(shared + 1, seen)
  /\ UNCHANGED <<exclusive, waiting>>

LockSharedWait(p) ==
  /\ pc[p] = "lockShared" /\ p \notin waiting
  /\ exclusive
  /\ waiting' = waiting \cup {p}
  /\ UNCHANGED <<exclusive, shared, pc, seen>>

TryLockShared(p) ==
  /\ ~exclusive
  /\ Goto(p, "idle", "sharing")
  /\ SetShared(shared + 1, seen)
  /\ UNCHANGED <<exclusive, waiting>>

(* Mutant of UnlockShared: what is looked at is the value before the decrement. *)
UnlockSharedLooksEarly(p) ==
  /\ Goto(p, "sharing", "unlockedShared")
  /\ shared' = shared - 1 /\ seen' = [seen EXCEPT ![p] = {shared}]
  /\ UNCHANGED <<exclusive, waiting>>

UnlockShared(p) ==
  /\ Goto(p, "sharing", "unlockedShared")
  /\ SetShared(shared - 1, [seen EXCEPT ![p] = {shared - 1}])
  /\ UNCHANGED <<exclusive, waiting>>

(* if (m_shared == 0), without the mutex *)
ReadShared(p) ==
  /\ \/ Goto(p, "unlockedShared", "notify") /\ 0 \in seen[p]
     \/ Goto(p, "unlockedShared", "idle") /\ seen[p] \ {0} # {}
  /\ seen' = [seen EXCEPT ![p] = {}]
  /\ UNCHANGED <<exclusive, shared, waiting>>

NotifyShared(p) ==
  /\ Goto(p, "notify", "idle")
  /\ waiting' = {}
  /\ UNCHANGED <<exclusive, shared, seen>>

(* A condition variable may wake a thread for no reason. *)
WakeUp(p) ==
  /\ p \in waiting
  /\ waiting' = waiting \ {p}
  /\ UNCHANGED <<exclusive, shared, pc, seen>>

-----------------------------------------------------------------------------------
Proceed(p) ==
  \/ Lock(p) \/ LockWait(p) \/ NotifyUnlocked(p)
  \/ LockShared(p) \/ LockSharedWait(p) \/ ReadShared(p) \/ NotifyShared(p)

Finish(p) == Unlock(p) \/ UnlockShared(p)

Call(p) == LockCall(p) \/ TryLock(p) \/ LockSharedCall(p) \/ TryLockShared(p)

Next == \E p \in Threads : Proceed(p) \/ Finish(p) \/ Call(p) \/ WakeUp(p)

Spec == Init /\ [][Next]_vars

(* Threads run, and give the lock up when they are done with it. *)
FairSpec == Spec /\ \A p \in Threads : WF_vars(Proceed(p)) /\ WF_vars(Finish(p))

-----------------------------------------------------------------------------------
At(place) == {p \in Threads : pc[p] = place}

TypeOK ==
  /\ exclusive \in BOOLEAN /\ shared \in Nat
  /\ waiting \subseteq At("lock") \cup At("lockShared")
  /\ pc \in [Threads -> PCs]
  /\ seen \in [Threads -> SUBSET Nat]
  /\ \A p \in Threads : seen[p] # {} <=> pc[p] = "unlockedShared"

(* The flag and the counter tell who holds the lock, and the assertions of            *)
(* SharedLock.h:92, 104, 115 and 126 hold.                                           *)
Counted ==
  /\ exclusive <=> At("locked") # {}
  /\ \A p, q \in At("locked") : p = q
  /\ shared = Cardinality(At("sharing"))
  /\ exclusive => shared = 0

(* Who is certain to call notify_all. *)
WillNotify(q) ==
  pc[q] \in {"unlocked", "notify"} \/ (pc[q] = "unlockedShared" /\ seen[q] = {0})

(* No lost wake-up: while a thread sleeps that could have the lock, another is on its  *)
(* way to notify it.  For a sleeper in lock_shared that is the unlock it waits for;    *)
(* for one in lock it may be an unlock_shared, which looks at the counter too late     *)
(* (SharedLock.h:128) and may find it changed by others.                               *)
NoLostWakeUp ==
  \A p \in waiting : ~exclusive =>
    /\ pc[p] = "lockShared" => At("unlocked") # {}
    /\ pc[p] = "lock" /\ shared = 0 => \E q \in Threads : WillNotify(q)

IInv == TypeOK /\ Counted /\ NoLostWakeUp

(* A thread does not sleep for ever in lock while the lock is free and stays so, and   *)
(* one asleep in lock_shared is woken once the exclusive holder is gone.               *)
Woken ==
  \A p \in Threads :
    /\ []<>~(p \in waiting /\ ~exclusive /\ shared = 0)
    /\ p \in waiting /\ pc[p] = "lockShared" ~> p \notin waiting

Abstract == INSTANCE ReadWriteLockSpec WITH
  l <- [s |-> At("sharing"), x |-> At("locked")]

(* SharedLock is the reader-writer lock that LockProtocol builds on. *)
ImplementsReadWriteLock == Abstract!Spec
===================================================================================
