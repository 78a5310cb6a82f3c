----------------------------- MODULE SharedLockProofs -----------------------------
(*********************************************************************************)
(* Proofs about SharedLock for any finite set of threads: the flag and the counter *)
(* say who holds the lock, no wake-up is lost although unlock_shared looks at the   *)
(* counter without the mutex, and the lock is the reader-writer lock that           *)
(* LockProtocol assumes.                                                            *)
(*********************************************************************************)
EXTENDS SharedLock, FiniteSetTheorems, TLAPS

Step(p) == Proceed(p) \/ Finish(p) \/ Call(p) \/ WakeUp(p)

(* The threads at a place are finitely many. *)
LEMMA AtFinite == \A place : IsFiniteSet(At(place))
  <1> TAKE place
  <1>1. At(place) \subseteq Threads BY DEF At
  <1>. QED BY <1>1, ThreadsOK, FS_Subset

(* A thread that goes from one place to another is no longer at the first, is at    *)
(* the second, and nothing else changes.                                            *)
LEMMA Moves ==
  ASSUME TypeOK, NEW p \in Threads, NEW from \in PCs, NEW to \in PCs, from # to,
         Goto(p, from, to)
  PROVE  /\ pc' \in [Threads -> PCs]
         /\ pc[p] = from
         /\ \A q \in Threads : pc'[q] = IF q = p THEN to ELSE pc[q]
         /\ At(to)' = At(to) \cup {p} /\ p \notin At(to)
         /\ At(from)' = At(from) \ {p} /\ p \in At(from)
         /\ \A place : place \notin {from, to} => At(place)' = At(place)
  <1>1. pc' \in [Threads -> PCs] /\ pc[p] = from BY DEF TypeOK, Goto
  <1>2. \A q \in Threads : pc'[q] = IF q = p THEN to ELSE pc[q] BY DEF TypeOK, Goto
  <1>3. At(to)' = At(to) \cup {p} /\ p \notin At(to) BY <1>1, <1>2 DEF At
  <1>4. At(from)' = At(from) \ {p} /\ p \in At(from) BY <1>1, <1>2 DEF At
  <1>5. ASSUME NEW place, place \notin {from, to} PROVE At(place)' = At(place)
    BY <1>1, <1>2, <1>5 DEF At
  <1>. QED BY <1>1, <1>2, <1>3, <1>4, <1>5

LEMMA InitInv == Init => IInv
  <1> SUFFICES ASSUME Init PROVE IInv OBVIOUS
  <1>1. TypeOK BY DEF Init, TypeOK, PCs, At
  <1>2. \A place : place # "idle" => At(place) = {} BY DEF Init, At
  <1>3. Counted BY <1>2, FS_EmptySet DEF Init, Counted
  <1>4. NoLostWakeUp BY DEF Init, NoLostWakeUp
  <1>. QED BY <1>1, <1>3, <1>4 DEF IInv

-----------------------------------------------------------------------------------
(* Types. *)
LEMMA Places ==
  /\ "idle" \in PCs /\ "lock" \in PCs /\ "locked" \in PCs /\ "unlocked" \in PCs
  /\ "lockShared" \in PCs /\ "sharing" \in PCs /\ "unlockedShared" \in PCs
  /\ "notify" \in PCs
  BY DEF PCs

(* Only a thread in lock or lock_shared sleeps. *)
LEMMA Asleep ==
  ASSUME TypeOK, NEW p \in waiting
  PROVE  p \in Threads /\ pc[p] \in {"lock", "lockShared"}
  BY DEF TypeOK, At

(* The type of a state after a thread that is awake goes to another place. *)
LEMMA TypeAfter ==
  ASSUME TypeOK, NEW p \in Threads, NEW from \in PCs, NEW to \in PCs, from # to,
         Goto(p, from, to),
         p \notin waiting \/ from \notin {"lock", "lockShared"}, waiting' \subseteq waiting,
         exclusive' \in BOOLEAN, shared' \in Nat, seen' \in [Threads -> SUBSET Nat],
         \A q \in Threads \ {p} : seen'[q] # {} <=> seen[q] # {},
         seen'[p] # {} <=> to = "unlockedShared"
  PROVE  TypeOK'
  <1>1. /\ pc' \in [Threads -> PCs] /\ pc[p] = from
        /\ \A q \in Threads : pc'[q] = IF q = p THEN to ELSE pc[q]
    BY Moves
  <1>2. p \notin waiting BY <1>1, Asleep
  <1>3. waiting' \subseteq At("lock")' \cup At("lockShared")' BY <1>1, <1>2 DEF TypeOK, At
  <1>4. \A q \in Threads : seen'[q] # {} <=> pc'[q] = "unlockedShared" BY <1>1 DEF TypeOK
  <1>. QED BY <1>1, <1>3, <1>4 DEF TypeOK

(* The same, when the step has nothing to do with the access without the mutex.     *)
LEMMA TypeAfterSimple ==
  ASSUME TypeOK, NEW p \in Threads, NEW from \in PCs, NEW to \in PCs, from # to,
         Goto(p, from, to), "unlockedShared" \notin {from, to},
         p \notin waiting \/ from \notin {"lock", "lockShared"}, waiting' \subseteq waiting,
         exclusive' \in BOOLEAN, shared' \in Nat,
         seen' = seen \/ SetShared(shared', seen)
  PROVE  TypeOK'
  <1>1. pc[p] = from BY DEF Goto
  <1>2. seen[p] = {} BY <1>1 DEF TypeOK
  <1>3. seen' \in [Threads -> SUBSET Nat] BY DEF TypeOK, SetShared
  <1>4. \A q \in Threads : seen'[q] # {} <=> seen[q] # {} BY DEF TypeOK, SetShared
  <1>. QED BY <1>2, <1>3, <1>4, TypeAfter

LEMMA StepType == ASSUME IInv, NEW p \in Threads, Step(p) PROVE TypeOK'
  <1>0. TypeOK /\ exclusive \in BOOLEAN /\ shared \in Nat /\ waiting \subseteq Threads
    BY DEF IInv, TypeOK, At
  <1>1. CASE LockCall(p) BY <1>0, <1>1, Places, TypeAfterSimple DEF LockCall
  <1>2. CASE Lock(p) BY <1>0, <1>2, Places, TypeAfterSimple DEF Lock
  <1>3. CASE LockWait(p) BY <1>0, <1>3 DEF LockWait, TypeOK, At
  <1>4. CASE TryLock(p) BY <1>0, <1>4, Places, TypeAfterSimple DEF TryLock
  <1>5. CASE Unlock(p) BY <1>0, <1>5, Places, TypeAfterSimple DEF Unlock
  <1>6. CASE NotifyUnlocked(p) BY <1>0, <1>6, Places, TypeAfterSimple DEF NotifyUnlocked
  <1>7. CASE LockSharedCall(p) BY <1>0, <1>7, Places, TypeAfterSimple DEF LockSharedCall
  <1>8. CASE LockShared(p)
    <2>1. SetShared(shared', seen) /\ shared' \in Nat
      BY <1>0, <1>8 DEF LockShared, SetShared
    <2>. QED BY <1>0, <1>8, <2>1, Places, TypeAfterSimple DEF LockShared
  <1>9. CASE LockSharedWait(p) BY <1>0, <1>9 DEF LockSharedWait, TypeOK, At
  <1>10. CASE TryLockShared(p)
    <2>1. SetShared(shared', seen) /\ shared' \in Nat
      BY <1>0, <1>10 DEF TryLockShared, SetShared
    <2>. QED BY <1>0, <1>10, <2>1, Places, TypeAfterSimple DEF TryLockShared
  <1>11. CASE UnlockShared(p)
    <2>1. shared # 0
      <3>1. At("sharing") # {} BY <1>11 DEF UnlockShared, Goto, At
      <3>. QED BY <3>1, AtFinite, FS_EmptySet DEF IInv, Counted
    <2>2. shared' \in Nat /\ shared' = shared - 1 BY <1>0, <1>11, <2>1 DEF UnlockShared, SetShared
    <2>3. seen' = [q \in Threads |->
                     IF [seen EXCEPT ![p] = {shared - 1}][q] = {} THEN {}
                     ELSE [seen EXCEPT ![p] = {shared - 1}][q] \cup {shared'}]
      BY <1>11, <2>2 DEF UnlockShared, SetShared
    <2>4. seen' \in [Threads -> SUBSET Nat] BY <1>0, <2>2, <2>3 DEF TypeOK
    <2>5. seen'[p] # {} /\ \A q \in Threads \ {p} : seen'[q] # {} <=> seen[q] # {}
      BY <1>0, <2>3 DEF TypeOK
    <2>. QED BY <1>0, <1>11, <2>2, <2>4, <2>5, Places, TypeAfter DEF UnlockShared
  <1>12. CASE ReadShared(p)
    <2>1. /\ seen' \in [Threads -> SUBSET Nat] /\ seen'[p] = {}
          /\ \A q \in Threads \ {p} : seen'[q] = seen[q]
      BY <1>0, <1>12 DEF ReadShared, TypeOK
    <2>2. CASE Goto(p, "unlockedShared", "notify")
      BY <1>0, <1>12, <2>1, <2>2, Places, TypeAfter DEF ReadShared
    <2>3. CASE Goto(p, "unlockedShared", "idle")
      BY <1>0, <1>12, <2>1, <2>3, Places, TypeAfter DEF ReadShared
    <2>. QED BY <1>12, <2>2, <2>3 DEF ReadShared
  <1>13. CASE NotifyShared(p) BY <1>0, <1>13, Places, TypeAfterSimple DEF NotifyShared
  <1>14. CASE WakeUp(p) BY <1>0, <1>14 DEF WakeUp, TypeOK, At
  <1>. QED BY <1>1, <1>2, <1>3, <1>4, <1>5, <1>6, <1>7, <1>8, <1>9, <1>10, <1>11, <1>12,
              <1>13, <1>14 DEF Step, Proceed, Finish, Call

-----------------------------------------------------------------------------------
(* Who holds the lock. *)

(* A step that neither takes nor drops the lock. *)
Keeps(p) ==
  /\ At("locked")' = At("locked") /\ At("sharing")' = At("sharing")
  /\ exclusive' = exclusive /\ shared' = shared

Takes(p) ==
  /\ ~exclusive /\ shared = 0 /\ exclusive' = TRUE /\ shared' = shared
  /\ p \notin At("locked")
  /\ At("locked")' = At("locked") \cup {p} /\ At("sharing")' = At("sharing")

Drops(p) ==
  /\ exclusive' = FALSE /\ shared' = shared /\ p \in At("locked")
  /\ At("locked")' = At("locked") \ {p} /\ At("sharing")' = At("sharing")

TakesShared(p) ==
  /\ ~exclusive /\ exclusive' = exclusive /\ shared' = shared + 1
  /\ p \notin At("sharing")
  /\ At("sharing")' = At("sharing") \cup {p} /\ At("locked")' = At("locked")

DropsShared(p) ==
  /\ exclusive' = exclusive /\ shared' = shared - 1 /\ p \in At("sharing")
  /\ At("sharing")' = At("sharing") \ {p} /\ At("locked")' = At("locked")

(* What each action does to the lock. *)
LEMMA Holding ==
  ASSUME TypeOK, NEW p \in Threads, Step(p)
  PROVE  Keeps(p) \/ Takes(p) \/ Drops(p) \/ TakesShared(p) \/ DropsShared(p)
  <1>1. CASE LockCall(p) BY <1>1, Places, Moves DEF LockCall, Keeps
  <1>2. CASE Lock(p) BY <1>2, Places, Moves DEF Lock, Takes
  <1>3. CASE LockWait(p) BY <1>3 DEF LockWait, Keeps, At
  <1>4. CASE TryLock(p) BY <1>4, Places, Moves DEF TryLock, Takes
  <1>5. CASE Unlock(p) BY <1>5, Places, Moves DEF Unlock, Drops
  <1>6. CASE NotifyUnlocked(p) BY <1>6, Places, Moves DEF NotifyUnlocked, Keeps
  <1>7. CASE LockSharedCall(p) BY <1>7, Places, Moves DEF LockSharedCall, Keeps
  <1>8. CASE LockShared(p) BY <1>8, Places, Moves DEF LockShared, SetShared, TakesShared
  <1>9. CASE LockSharedWait(p) BY <1>9 DEF LockSharedWait, Keeps, At
  <1>10. CASE TryLockShared(p) BY <1>10, Places, Moves DEF TryLockShared, SetShared, TakesShared
  <1>11. CASE UnlockShared(p) BY <1>11, Places, Moves DEF UnlockShared, SetShared, DropsShared
  <1>12. CASE ReadShared(p) BY <1>12, Places, Moves DEF ReadShared, Keeps
  <1>13. CASE NotifyShared(p) BY <1>13, Places, Moves DEF NotifyShared, Keeps
  <1>14. CASE WakeUp(p) BY <1>14 DEF WakeUp, Keeps, At
  <1>. QED BY <1>1, <1>2, <1>3, <1>4, <1>5, <1>6, <1>7, <1>8, <1>9, <1>10, <1>11, <1>12,
              <1>13, <1>14 DEF Step, Proceed, Finish, Call

LEMMA StepCounted == ASSUME IInv, NEW p \in Threads, Step(p) PROVE Counted'
  <1>0. TypeOK /\ Counted /\ exclusive \in BOOLEAN /\ shared \in Nat BY DEF IInv, TypeOK
  <1>1. CASE Keeps(p)
    BY <1>0, <1>1 DEF Keeps, Counted
  <1>2. CASE Takes(p)
    BY <1>0, <1>2 DEF Takes, Counted
  <1>3. CASE Drops(p)
    BY <1>0, <1>3 DEF Drops, Counted
  <1>4. CASE TakesShared(p)
    <2>1. Cardinality(At("sharing")') = shared + 1
      BY <1>0, <1>4, AtFinite, FS_AddElement DEF TakesShared, Counted
    <2>. QED BY <1>0, <1>4, <2>1 DEF TakesShared, Counted
  <1>5. CASE DropsShared(p)
    <2>1. Cardinality(At("sharing")') = shared - 1
      BY <1>0, <1>5, AtFinite, FS_RemoveElement DEF DropsShared, Counted
    <2>2. shared # 0 BY <1>0, <1>5, AtFinite, FS_EmptySet DEF DropsShared, Counted
    <2>. QED BY <1>0, <1>5, <2>1, <2>2 DEF DropsShared, Counted
  <1>. QED BY <1>0, <1>1, <1>2, <1>3, <1>4, <1>5, Holding

-----------------------------------------------------------------------------------
(* Wake-ups. *)

(* A step that leaves the sleepers and the notifiers as they are, or wakes some. *)
LEMMA WakeKept ==
  ASSUME NoLostWakeUp, waiting' \subseteq waiting,
         exclusive' = exclusive, shared' = shared,
         At("unlocked") \subseteq At("unlocked")',
         \A q \in waiting' : pc'[q] = pc[q],
         \A q \in Threads : WillNotify(q) => WillNotify(q)'
  PROVE  NoLostWakeUp'
  BY DEF NoLostWakeUp

(* Sharing the lock concerns those asleep in lock_shared only.                     *)
LEMMA WakeShared ==
  ASSUME NoLostWakeUp, waiting' \subseteq waiting,
         exclusive' = exclusive, shared \in Nat, shared' = shared + 1,
         At("unlocked") \subseteq At("unlocked")',
         \A q \in waiting' : pc'[q] = pc[q]
  PROVE  NoLostWakeUp'
  <1>1. shared' # 0 OBVIOUS
  <1>. QED BY <1>1 DEF NoLostWakeUp

(* A thread that leaves a place where it is no notifier. *)
LEMMA OthersNotify ==
  ASSUME TypeOK, NEW p \in Threads, NEW from \in PCs, NEW to \in PCs, from # to,
         Goto(p, from, to), from \notin {"unlocked", "notify", "unlockedShared"},
         waiting' \subseteq waiting, p \notin waiting'
  PROVE  /\ At("unlocked") \subseteq At("unlocked")'
         /\ \A q \in waiting' : pc'[q] = pc[q]
         /\ seen' = seen => \A q \in Threads : WillNotify(q) => WillNotify(q)'
  <1>1. pc[p] = from /\ \A q \in Threads : q # p => pc'[q] = pc[q] BY Moves
  <1>2. waiting \subseteq Threads BY DEF TypeOK, At
  <1>3. At("unlocked") \subseteq At("unlocked")' BY <1>1 DEF At
  <1>4. ASSUME seen' = seen, NEW q \in Threads, WillNotify(q) PROVE WillNotify(q)'
    <2>1. q # p BY <1>1, <1>4 DEF WillNotify
    <2>. QED BY <1>1, <1>4, <2>1 DEF WillNotify
  <1>. QED BY <1>1, <1>2, <1>3, <1>4

LEMMA StepWake == ASSUME IInv, NEW p \in Threads, Step(p) PROVE NoLostWakeUp'
  <1>0. /\ TypeOK /\ NoLostWakeUp /\ exclusive \in BOOLEAN /\ shared \in Nat
        /\ waiting \subseteq Threads
    BY DEF IInv, TypeOK, At
  <1>a. pc[p] \notin {"lock", "lockShared"} => p \notin waiting BY <1>0, Asleep
  <1>1. CASE LockCall(p)
    <2>1. Goto(p, "idle", "lock") /\ p \notin waiting BY <1>1, <1>a DEF LockCall, Goto
    <2>. QED BY <1>0, <1>1, <2>1, Places, OthersNotify, WakeKept DEF LockCall
  <1>2. CASE Lock(p) BY <1>2 DEF Lock, NoLostWakeUp
  <1>3. CASE LockWait(p) BY <1>0, <1>3 DEF LockWait, NoLostWakeUp, WillNotify, At
  <1>4. CASE TryLock(p) BY <1>4 DEF TryLock, NoLostWakeUp
  <1>5. CASE Unlock(p)
    <2>1. p \in At("unlocked")' /\ pc'[p] = "unlocked"
      BY <1>0, <1>5, Places, Moves DEF Unlock
    <2>2. WillNotify(p)' BY <2>1 DEF WillNotify
    <2>. QED BY <2>1, <2>2 DEF NoLostWakeUp
  <1>6. CASE NotifyUnlocked(p) BY <1>6 DEF NotifyUnlocked, NoLostWakeUp
  <1>7. CASE LockSharedCall(p)
    <2>1. Goto(p, "idle", "lockShared") /\ p \notin waiting
      BY <1>7, <1>a DEF LockSharedCall, Goto
    <2>. QED BY <1>0, <1>7, <2>1, Places, OthersNotify, WakeKept DEF LockSharedCall
  <1>8. CASE LockShared(p)
    <2>1. Goto(p, "lockShared", "sharing") /\ p \notin waiting /\ shared' = shared + 1
      BY <1>8 DEF LockShared, SetShared
    <2>. QED BY <1>0, <1>8, <2>1, Places, OthersNotify, WakeShared DEF LockShared
  <1>9. CASE LockSharedWait(p) BY <1>9 DEF LockSharedWait, NoLostWakeUp
  <1>10. CASE TryLockShared(p)
    <2>1. Goto(p, "idle", "sharing") /\ p \notin waiting /\ shared' = shared + 1
      BY <1>10, <1>a DEF TryLockShared, SetShared, Goto
    <2>. QED BY <1>0, <1>10, <2>1, Places, OthersNotify, WakeShared DEF TryLockShared
  <1>11. CASE UnlockShared(p)
    <2>1. Goto(p, "sharing", "unlockedShared") /\ p \notin waiting
      BY <1>11, <1>a DEF UnlockShared, Goto
    <2>2. At("unlocked") \subseteq At("unlocked")' /\ \A q \in waiting' : pc'[q] = pc[q]
      BY <1>0, <1>11, <2>1, Places, OthersNotify DEF UnlockShared
    <2>3. pc'[p] = "unlockedShared" BY <1>0, <2>1, Places, Moves
    <2>4. shared' = shared - 1 /\ seen'[p] = {shared'}
      BY <1>0, <1>11 DEF UnlockShared, SetShared, TypeOK
    <2>5. shared' = 0 => WillNotify(p)' BY <2>3, <2>4 DEF WillNotify
    <2>. QED BY <1>0, <1>11, <2>2, <2>5 DEF NoLostWakeUp, UnlockShared
  <1>12. CASE ReadShared(p)
    <2>1. PICK to \in {"notify", "idle"} :
            Goto(p, "unlockedShared", to) /\ (to = "notify" \/ seen[p] \ {0} # {})
      BY <1>12 DEF ReadShared
    <2>2. /\ pc[p] = "unlockedShared"
          /\ \A q \in Threads : pc'[q] = IF q = p THEN to ELSE pc[q]
      BY <1>0, <2>1, Places, Moves
    <2>3. p \notin waiting /\ waiting' = waiting BY <1>12, <2>2, <1>a DEF ReadShared
    <2>4. \A q \in waiting' : pc'[q] = pc[q] BY <1>0, <2>2, <2>3
    <2>5. At("unlocked") \subseteq At("unlocked")' BY <2>2 DEF At
    <2>6. ASSUME NEW q \in Threads, WillNotify(q) PROVE WillNotify(q)'
      <3>1. CASE q = p
        <4>1. seen[p] = {0} BY <2>2, <2>6, <3>1 DEF WillNotify
        <4>. QED BY <2>1, <2>2, <3>1, <4>1 DEF WillNotify
      <3>2. CASE q # p
        <4>1. seen'[q] = seen[q] BY <1>0, <1>12, <3>2 DEF ReadShared, TypeOK
        <4>. QED BY <2>2, <2>6, <3>2, <4>1 DEF WillNotify
      <3>. QED BY <3>1, <3>2
    <2>. QED BY <1>0, <1>12, <2>3, <2>4, <2>5, <2>6, WakeKept DEF ReadShared
  <1>13. CASE NotifyShared(p) BY <1>13 DEF NotifyShared, NoLostWakeUp
  <1>14. CASE WakeUp(p)
    <2>1. At("unlocked")' = At("unlocked") /\ \A q \in Threads : WillNotify(q) => WillNotify(q)'
      BY <1>14 DEF WakeUp, At, WillNotify
    <2>. QED BY <1>0, <1>14, <2>1, WakeKept DEF WakeUp
  <1>. QED BY <1>1, <1>2, <1>3, <1>4, <1>5, <1>6, <1>7, <1>8, <1>9, <1>10, <1>11, <1>12,
              <1>13, <1>14 DEF Step, Proceed, Finish, Call

-----------------------------------------------------------------------------------
LEMMA Inductive == IInv /\ [Next]_vars => IInv'
  <1> SUFFICES ASSUME IInv, [Next]_vars PROVE IInv' OBVIOUS
  <1>1. CASE Next
    <2>1. PICK p \in Threads : Step(p) BY <1>1 DEF Next, Step
    <2>. QED BY <2>1, StepType, StepCounted, StepWake DEF IInv
  <1>2. CASE UNCHANGED vars
    BY <1>2 DEF vars, IInv, TypeOK, Counted, NoLostWakeUp, WillNotify, At
  <1>. QED BY <1>1, <1>2

(* The flag and the counter always say who holds the lock (the assertions of          *)
(* SharedLock.h:92, 104, 115 and 126), and a thread that sleeps while it could have    *)
(* the lock is about to be notified, for any number of threads, although unlock_shared *)
(* reads the counter without the mutex.                                               *)
THEOREM SharedLockSound == Spec => []IInv
  <1>1. Init => IInv BY InitInv
  <1>2. IInv /\ [Next]_vars => IInv' BY Inductive
  <1>. QED BY <1>1, <1>2, PTL DEF Spec

(* SharedLock is a reader-writer lock: every step of any number of threads takes or    *)
(* drops the abstract lock as ReadWriteLock allows, or leaves it alone.               *)
THEOREM IsReadWriteLock == Spec => ImplementsReadWriteLock
  <1> DEFINE held == [s |-> At("sharing"), x |-> At("locked")]
  <1>1. Init => Abstract!Init
    BY DEF Init, At, Abstract!Init, Unlocked, Abstract!Unlocked
  <1>2. IInv /\ [Next]_vars => [Abstract!Next]_held
    <2> SUFFICES ASSUME IInv, [Next]_vars PROVE [Abstract!Next]_held OBVIOUS
    <2>1. CASE UNCHANGED vars BY <2>1 DEF vars, At
    <2>2. CASE Next
      <3>1. PICK p \in Threads : Step(p) BY <2>2 DEF Next, Step
      <3>0. TypeOK /\ Counted BY DEF IInv
      <3>2. CASE Keeps(p) BY <3>2 DEF Keeps
      <3>3. CASE Takes(p)
        <4>1. At("sharing") = {} /\ At("locked") = {}
          BY <3>0, <3>3, AtFinite, FS_EmptySet DEF Takes, Counted
        <4>2. Abstract!Lock(p)
          BY <3>3, <4>1 DEF Takes, Abstract!Lock, Abstract!FreeForExclusive,
                            Abstract!TakeExclusive
        <4>. QED BY <4>2 DEF Abstract!Next
      <3>4. CASE Drops(p)
        <4>1. At("sharing") = {}
          BY <3>0, <3>4, AtFinite, FS_EmptySet DEF Drops, Counted
        <4>2. Abstract!Unlock(p)
          BY <3>4, <4>1 DEF Drops, Abstract!Unlock, Abstract!Drop
        <4>. QED BY <4>2 DEF Abstract!Next
      <3>5. CASE TakesShared(p)
        <4>1. At("locked") = {} BY <3>0, <3>5 DEF TakesShared, Counted
        <4>2. Abstract!LockShared(p)
          BY <3>5, <4>1 DEF TakesShared, Abstract!LockShared, Abstract!FreeForShared,
                            Abstract!TakeShared
        <4>. QED BY <4>2 DEF Abstract!Next
      <3>6. CASE DropsShared(p)
        <4>1. At("locked") = {}
          <5>1. shared # 0
            BY <3>0, <3>6, AtFinite, FS_EmptySet DEF DropsShared, Counted
          <5>. QED BY <3>0, <5>1 DEF Counted
        <4>2. Abstract!Unlock(p)
          BY <3>6, <4>1 DEF DropsShared, Abstract!Unlock, Abstract!Drop
        <4>. QED BY <4>2 DEF Abstract!Next
      <3>. QED BY <3>0, <3>1, <3>2, <3>3, <3>4, <3>5, <3>6, Holding
    <2>. QED BY <2>1, <2>2
  <1>. QED BY <1>1, <1>2, SharedLockSound, PTL DEF Spec, ImplementsReadWriteLock, Abstract!Spec
===================================================================================
