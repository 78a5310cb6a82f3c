------------------------------ MODULE DebugSharedLock ------------------------------
(*********************************************************************************)
(* DebugSharedLock of CompoundFs/SharedLock.h and .cpp: a SharedLock for tests.  It    *)
(* counts the threads that wait for it, lets others wait for a count, and can hold    *)
(* threads up in unlock.  All of them sleep on the one condition variable, and most   *)
(* calls notify it while they have the mutex.  A behaviour has a lock of either class. *)
(*********************************************************************************)
EXTENDS SharedLock

CONSTANTS
  Testers,              \* the threads that use a DebugSharedLock
  Awaited               \* counts they wait for

ASSUME TestersOK == Testers \subseteq Threads /\ Awaited \subseteq Nat

VARIABLES
  debug,                \* whether it is a DebugSharedLock
  queued,               \* m_waiting
  unlockRelease,        \* m_unlockRelease
  asleep,               \* the threads asleep in m_cv.wait of unlock or waitForWaiting
  test                  \* the count a thread waits for, or one of the next two

NoTest == -1
Releasing == -2         \* unlockRelease, before its notify_all

testVars == <<debug, queued, unlockRelease, asleep, test>>
lockVars == <<vars, testVars>>

DebugInit ==
  /\ Init /\ debug \in BOOLEAN
  /\ queued = 0 /\ unlockRelease = TRUE /\ asleep = {} /\ test = [p \in Threads |-> NoTest]

Runs(p) == p \notin waiting \cup asleep
MayCall(p) == Runs(p) /\ test[p] = NoTest

(* notify_all, after which some threads go to sleep, all in one critical section. *)
NotifyAll(lockers, others) == waiting' = lockers /\ asleep' = others
InCall(p) == UNCHANGED <<debug, unlockRelease, test>> /\ MayCall(p)

-----------------------------------------------------------------------------------
(* lock and lock_shared: who has to wait says so first, and again when it has the      *)
(* lock; who has not does both at once.                                               *)
FreeAtOnce(p, held) == Goto(p, "idle", held) /\ NotifyAll({}, {}) /\ UNCHANGED queued
Free(p, place, held) == Goto(p, place, held) /\ NotifyAll({}, {}) /\ queued' = queued - 1

(* Mutant of Queue: those who wait for a count are not told. *)
QueueQuietly(p, place) ==
  /\ Goto(p, "idle", place) /\ queued' = queued + 1
  /\ waiting' = waiting \cup {p} /\ UNCHANGED <<asleep, exclusive, shared, seen>>
Queue(p, place) ==
  /\ Goto(p, "idle", place) /\ queued' = queued + 1
  /\ NotifyAll({p}, {}) /\ UNCHANGED <<exclusive, shared, seen>>

DebugLock(p) ==
  /\ InCall(p)
  /\ \/ /\ ~exclusive /\ shared = 0
        /\ FreeAtOnce(p, "locked") \/ Free(p, "lock", "locked")
        /\ exclusive' = TRUE /\ UNCHANGED <<shared, seen>>
     \/ (exclusive \/ shared > 0) /\ Queue(p, "lock")
     \/ LockWait(p) /\ UNCHANGED <<queued, asleep>>

DebugLockShared(p) ==
  /\ InCall(p)
  /\ \/ /\ ~exclusive
        /\ FreeAtOnce(p, "sharing") \/ Free(p, "lockShared", "sharing")
        /\ SetShared(shared + 1, seen) /\ UNCHANGED exclusive
     \/ exclusive /\ Queue(p, "lockShared")
     \/ LockSharedWait(p) /\ UNCHANGED <<queued, asleep>>

DebugTryLock(p) == InCall(p) /\ TryLock(p) /\ UNCHANGED <<queued, asleep>>
DebugTryLockShared(p) == InCall(p) /\ TryLockShared(p) /\ UNCHANGED <<queued, asleep>>

(* unlock, and the thread that was held up in it. *)
DebugUnlock(p) ==
  /\ InCall(p) /\ exclusive' = FALSE
  /\ IF unlockRelease THEN Goto(p, "locked", "idle") /\ NotifyAll({}, {})
     ELSE Goto(p, "locked", "unlocked") /\ NotifyAll({}, {p})
  /\ UNCHANGED <<queued, shared, seen>>
HeldUp(p) ==
  /\ InCall(p)
  /\ IF unlockRelease THEN Goto(p, "unlocked", "idle") /\ UNCHANGED asleep
     ELSE pc[p] = "unlocked" /\ asleep' = asleep \cup {p} /\ UNCHANGED pc
  /\ UNCHANGED <<exclusive, shared, seen, waiting, queued>>

DebugUnlockShared(p) == InCall(p) /\ UnlockShared(p) /\ UNCHANGED <<queued, asleep>>
DebugNotifyShared(p) ==
  /\ InCall(p) /\ UNCHANGED queued
  /\ \/ ReadShared(p) /\ UNCHANGED asleep
     \/ NotifyShared(p) /\ asleep' = {}

-----------------------------------------------------------------------------------
(* What a test calls beside: not one that holds the lock alone, as it would wait for   *)
(* others that wait for it.                                                           *)
Testing(p) ==
  MayCall(p) /\ pc[p] \in {"idle", "sharing"} /\ UNCHANGED <<exclusive, shared, pc, seen, debug, queued>>

WaitForWaiting(p) ==
  \E n \in Awaited \ {queued} :
    /\ Testing(p)
    /\ test' = [test EXCEPT ![p] = n] /\ asleep' = asleep \cup {p}
    /\ UNCHANGED <<waiting, unlockRelease>>
LookAgain(p) ==
  /\ Runs(p) /\ test[p] \in Awaited
  /\ IF queued = test[p] THEN test' = [test EXCEPT ![p] = NoTest] /\ UNCHANGED asleep
     ELSE asleep' = asleep \cup {p} /\ UNCHANGED test
  /\ UNCHANGED <<vars, debug, queued, unlockRelease>>

UnlockRelease(p) ==
  /\ Testing(p)
  /\ unlockRelease' = TRUE /\ test' = [test EXCEPT ![p] = Releasing]
  /\ UNCHANGED <<waiting, asleep>>
NotifyReleased(p) ==
  /\ test[p] = Releasing /\ test' = [test EXCEPT ![p] = NoTest]
  /\ NotifyAll({}, {}) /\ UNCHANGED <<exclusive, shared, pc, seen, debug, queued, unlockRelease>>

MakeUnlockBlock(p) ==
  Testing(p) /\ unlockRelease' = FALSE /\ UNCHANGED <<waiting, asleep, test>>

DebugWakeUp(p) ==
  \/ WakeUp(p) /\ UNCHANGED testVars
  \/ p \in asleep /\ asleep' = asleep \ {p} /\ UNCHANGED <<vars, debug, queued, unlockRelease, test>>

-----------------------------------------------------------------------------------
(* The calls that began go on, and who has the lock gives it up. *)
DebugProceed(p) ==
  \/ pc[p] \in {"lock", "lockShared"} /\ (DebugLock(p) \/ DebugLockShared(p))
  \/ HeldUp(p) \/ DebugNotifyShared(p) \/ LookAgain(p) \/ NotifyReleased(p)
DebugFinish(p) == DebugUnlock(p) \/ DebugUnlockShared(p)
DebugCall(p) ==
  \/ pc[p] = "idle" /\ (DebugLock(p) \/ DebugLockShared(p))
  \/ DebugTryLock(p) \/ DebugTryLockShared(p)
  \/ WaitForWaiting(p) \/ UnlockRelease(p) \/ MakeUnlockBlock(p)

EitherProceed(p) == (debug /\ DebugProceed(p)) \/ (~debug /\ Proceed(p) /\ UNCHANGED testVars)
EitherFinish(p) == (debug /\ DebugFinish(p)) \/ (~debug /\ Finish(p) /\ UNCHANGED testVars)

EitherNext ==
  \/ \E p \in Testers : debug /\ (DebugProceed(p) \/ DebugFinish(p) \/ DebugCall(p) \/ DebugWakeUp(p))
  \/ ~debug /\ Next /\ UNCHANGED testVars

EitherSpec ==
  /\ DebugInit /\ [][EitherNext]_lockVars
  /\ \A p \in Threads : WF_lockVars(EitherProceed(p)) /\ WF_lockVars(EitherFinish(p))

-----------------------------------------------------------------------------------
(* The count is that of the threads that wait for the lock, and nobody sleeps through  *)
(* the count it waits for.                                                            *)
CountTold ==
  debug => /\ queued = Cardinality(At("lock") \cup At("lockShared"))
           /\ \A p \in asleep : test[p] # queued

(* With either class nobody is forgotten in its sleep: who waits for the lock is       *)
(* woken, who waits for a count sees it, and who is held up in unlock goes on when it  *)
(* is allowed to.                                                                     *)
NobodyForgotten ==
  /\ Woken /\ [][CountTold']_lockVars
  /\ \A p \in Testers : []<>~(p \in asleep /\ pc[p] = "unlocked" /\ unlockRelease)
===================================================================================
