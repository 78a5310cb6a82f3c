---------------------------- MODULE LockProtocolProofs ----------------------------
(*********************************************************************************)
(* Proofs about LockProtocol for any set of processes: the locks are held by       *)
(* exactly the calls that took them, a commit excludes everybody else, nobody      *)
(* overtakes a committer that owns the gate, and the three locks implement the     *)
(* lock table of README.md (module LockModes).                                     *)
(*********************************************************************************)
EXTENDS LockProtocol, TLAPS

(* Every step is a step of one process. *)
Step(p) == Acquire(p) \/ Proceed(p) \/ Finish(p) \/ Call(p) \/ TryCall(p) \/ Crash(p)

LEMMA NextIsStep == ASSUME Next PROVE \E p \in Procs : Step(p)
  BY DEF Next, BlockingNext, Step

(* A process that moves joins the holders its new place belongs to and leaves all  *)
(* others.                                                                          *)
LEMMA Moves ==
  ASSUME TypeOK, NEW p \in Procs, NEW to \in PCs, pc' = [pc EXCEPT ![p] = to]
  PROVE  /\ pc' \in [Procs -> PCs]
         /\ \A H : At(H)' = IF to \in H THEN At(H) \cup {p} ELSE At(H) \ {p}
         /\ \A H : p \in At(H) <=> pc[p] \in H
  <1>1. pc' \in [Procs -> PCs] BY DEF TypeOK
  <1>2. ASSUME NEW H PROVE At(H)' = IF to \in H THEN At(H) \cup {p} ELSE At(H) \ {p}
    <2>1. \A q \in Procs : pc'[q] = IF q = p THEN to ELSE pc[q] BY DEF TypeOK
    <2>. QED BY <2>1 DEF At
  <1>3. \A H : p \in At(H) <=> pc[p] \in H BY DEF At
  <1>. QED BY <1>1, <1>2, <1>3

LEMMA InitInv == Init => IInv
  BY DEF Init, IInv, TypeOK, RWLock, Unlocked, NoLeakedLock, At, ExclusiveOrShared,
         SingleHolder, PCs, HoldsGateShared, HoldsGateExclusive, HoldsShared,
         HoldsExclusive, HoldsWriter

(* A step that moves p and leaves the three locks consistent with its new place     *)
(* preserves the invariant.                                                          *)
LEMMA StepInv == ASSUME IInv, NEW p \in Procs, Step(p) PROVE IInv'
  <1>0. ASSUME NEW to \in PCs, pc' = [pc EXCEPT ![p] = to],
               \/ UNCHANGED gate
               \/ gate' = Drop(gate, p)
               \/ FreeForShared(gate) /\ gate' = TakeShared(gate, p)
               \/ FreeForExclusive(gate) /\ gate' = TakeExclusive(gate, p),
               \/ UNCHANGED shared
               \/ shared' = Drop(shared, p)
               \/ FreeForShared(shared) /\ shared' = TakeShared(shared, p)
               \/ FreeForExclusive(shared) /\ shared' = TakeExclusive(shared, p),
               \/ UNCHANGED writer
               \/ writer' = writer \ {p}
               \/ writer = {} /\ writer' = {p},
               p \in gate'.s <=> to \in HoldsGateShared,
               p \in gate'.x <=> to \in HoldsGateExclusive,
               p \in shared'.s <=> to \in HoldsShared,
               p \in shared'.x <=> to \in HoldsExclusive,
               p \in writer' <=> to \in HoldsWriter
        PROVE  IInv'
    <2>1. pc' \in [Procs -> PCs] BY <1>0, Moves DEF IInv
    <2>2. gate' \in RWLock /\ shared' \in RWLock /\ writer' \in SUBSET Procs
      BY <1>0 DEF IInv, TypeOK, RWLock, Drop, TakeShared, TakeExclusive
    <2>3. /\ gate' = [s |-> At(HoldsGateShared)', x |-> At(HoldsGateExclusive)']
          /\ shared' = [s |-> At(HoldsShared)', x |-> At(HoldsExclusive)']
          /\ writer' = At(HoldsWriter)'
      <3>1. /\ gate'.s \ {p} = gate.s \ {p} /\ gate'.x \ {p} = gate.x \ {p}
            /\ shared'.s \ {p} = shared.s \ {p} /\ shared'.x \ {p} = shared.x \ {p}
            /\ writer' \ {p} = writer \ {p}
        BY <1>0 DEF IInv, TypeOK, RWLock, Drop, TakeShared, TakeExclusive
      <3>2. ASSUME NEW H, NEW S, NEW T, S = At(H), T \ {p} = S \ {p}, p \in T <=> to \in H
            PROVE  T = At(H)'
        <4>1. At(H)' = IF to \in H THEN At(H) \cup {p} ELSE At(H) \ {p}
          BY <1>0, Moves DEF IInv
        <4>2. T = IF p \in T THEN (S \ {p}) \cup {p} ELSE S \ {p}
          BY <3>2
        <4>. QED BY <4>1, <4>2, <3>2
      <3>3. /\ gate'.s = At(HoldsGateShared)' /\ gate'.x = At(HoldsGateExclusive)'
            /\ shared'.s = At(HoldsShared)' /\ shared'.x = At(HoldsExclusive)'
            /\ writer' = At(HoldsWriter)'
        <4>1. /\ gate.s = At(HoldsGateShared) /\ gate.x = At(HoldsGateExclusive)
              /\ shared.s = At(HoldsShared) /\ shared.x = At(HoldsExclusive)
              /\ writer = At(HoldsWriter)
          BY DEF IInv, NoLeakedLock
        <4>. QED BY <4>1, <3>1, <3>2, <1>0
      <3>. QED BY <3>3, <2>2 DEF RWLock
    <2>4. ExclusiveOrShared'
      <3>1. gate \in RWLock /\ shared \in RWLock BY DEF IInv, TypeOK
      <3>2. SingleHolder(gate'.x) /\ (gate'.x # {} => gate'.s = {})
        BY <1>0, <3>1 DEF IInv, RWLock, ExclusiveOrShared, SingleHolder, FreeForShared,
                          FreeForExclusive, Drop, TakeShared, TakeExclusive
      <3>3. SingleHolder(shared'.x) /\ (shared'.x # {} => shared'.s = {})
        BY <1>0, <3>1 DEF IInv, RWLock, ExclusiveOrShared, SingleHolder, FreeForShared,
                          FreeForExclusive, Drop, TakeShared, TakeExclusive
      <3>4. SingleHolder(writer')
        BY <1>0 DEF IInv, ExclusiveOrShared, SingleHolder
      <3>. QED BY <3>2, <3>3, <3>4 DEF ExclusiveOrShared, SingleHolder
    <2>. QED BY <2>1, <2>2, <2>3, <2>4 DEF IInv, TypeOK, NoLeakedLock, At
  <1>1. \A H : p \in At(H) <=> pc[p] \in H BY DEF At
  <1>2. /\ p \in gate.s <=> pc[p] \in HoldsGateShared
        /\ p \in gate.x <=> pc[p] \in HoldsGateExclusive
        /\ p \in shared.s <=> pc[p] \in HoldsShared
        /\ p \in shared.x <=> pc[p] \in HoldsExclusive
        /\ p \in writer <=> pc[p] \in HoldsWriter
        /\ gate \in RWLock /\ shared \in RWLock
    BY <1>1 DEF IInv, NoLeakedLock, TypeOK
  <1> USE <1>2 DEF RWLock, PCs, HoldsGateShared, HoldsGateExclusive, HoldsShared,
              HoldsExclusive, HoldsWriter, TakeShared, TakeExclusive, Drop, Goto
  <1>3. CASE Acquire(p)
    <2>1. CASE ReadGate(p)     BY <2>1, <1>0 DEF ReadGate
    <2>2. CASE ReadShared(p)   BY <2>2, <1>0 DEF ReadShared
    <2>3. CASE WriteLock(p)    BY <2>3, <1>0 DEF WriteLock
    <2>4. CASE CommitGate(p)   BY <2>4, <1>0 DEF CommitGate
    <2>5. CASE CommitShared(p) BY <2>5, <1>0 DEF CommitShared
    <2>. QED BY <1>3, <2>1, <2>2, <2>3, <2>4, <2>5 DEF Acquire
  <1>4. CASE Proceed(p)
    <2>1. CASE ReadReturn(p)          BY <2>1, <1>0 DEF ReadReturn
    <2>2. CASE TryReadShared(p)       BY <2>2, <1>0 DEF TryReadShared
    <2>3. CASE CommitReturn(p)        BY <2>3, <1>0 DEF CommitReturn
    <2>4. CASE TryCommitShared(p)     BY <2>4, <1>0 DEF TryCommitShared
    <2>5. CASE CommitDestroyWriter(p) BY <2>5, <1>0 DEF CommitDestroyWriter
    <2>. QED BY <1>4, <2>1, <2>2, <2>3, <2>4, <2>5 DEF Proceed
  <1>5. CASE Finish(p)
    <2>1. CASE ReadRelease(p)         BY <2>1, <1>0 DEF ReadRelease
    <2>2. CASE CommitRelease(p)       BY <2>2, <1>0 DEF CommitRelease
    <2>3. CASE CommitDestroyShared(p) BY <2>3, <1>0 DEF CommitDestroyShared
    <2>. QED BY <1>5, <2>1, <2>2, <2>3 DEF Finish
  <1>6. CASE Call(p)
    <2>1. CASE ReadCall(p)     BY <2>1, <1>0 DEF ReadCall
    <2>2. CASE WriteCall(p)    BY <2>2, <1>0 DEF WriteCall
    <2>3. CASE WriteRelease(p) BY <2>3, <1>0 DEF WriteRelease
    <2>4. CASE CommitCall(p)   BY <2>4, <1>0 DEF CommitCall
    <2>. QED BY <1>6, <2>1, <2>2, <2>3, <2>4 DEF Call
  <1>7. CASE TryCall(p)
    <2>1. CASE TryReadGate(p)   BY <2>1, <1>0 DEF TryReadGate
    <2>2. CASE TryWriteLock(p)  BY <2>2, <1>0 DEF TryWriteLock
    <2>3. CASE TryCommitGate(p) BY <2>3, <1>0 DEF TryCommitGate
    <2>. QED BY <1>7, <2>1, <2>2, <2>3 DEF TryCall
  <1>8. CASE Crash(p) BY <1>8, <1>0 DEF Crash
  <1>. QED BY <1>3, <1>4, <1>5, <1>6, <1>7, <1>8 DEF Step

(* The inductive invariant.                                                         *)
LEMMA Invariance == Spec => []IInv
  <1>1. ASSUME IInv, [Next]_vars PROVE IInv'
    <2>1. CASE Next BY <1>1, <2>1, NextIsStep, StepInv
    <2>2. CASE UNCHANGED vars
      BY <1>1, <2>2 DEF vars, IInv, TypeOK, NoLeakedLock, At, ExclusiveOrShared, SingleHolder
    <2>. QED BY <1>1, <2>1, <2>2
  <1>. QED BY InitInv, <1>1, PTL DEF Spec

-----------------------------------------------------------------------------------
(* No call, failed attempt, exception or crash leaks one of the three locks, and    *)
(* the variables keep their types (LockProtocol.h, Lock.h).                         *)
THEOREM LocksNotLeaked == Spec => []IInv
  BY Invariance

(* A commit excludes readers and other committers and keeps the writer mutex.       *)
THEOREM CommitExcludesAll == Spec => []CommitExclusion
  <1>1. IInv => CommitExclusion
    <2> SUFFICES ASSUME IInv, NEW p \in shared.x
                 PROVE  shared.s = {} /\ shared.x = {p} /\ writer = {p}
      BY DEF CommitExclusion
    <2>1. p \in At(HoldsExclusive) /\ p \in Procs BY DEF IInv, NoLeakedLock, At
    <2>2. p \in writer
      BY <2>1 DEF IInv, NoLeakedLock, At, HoldsExclusive, HoldsWriter
    <2>. QED BY <2>2 DEF IInv, ExclusiveOrShared, SingleHolder
  <1>. QED BY Invariance, <1>1, PTL

(* While a committer owns the gate and waits, no reader gets m_shared: the fairness *)
(* FileLockingProtocol.md claims, from the gate on.                                 *)
THEOREM GateStopsReaders == Spec => NoOvertaking
  <1>1. ASSUME IInv, Next, NEW w \in Procs, pc[w] = "commitShared"
        PROVE  shared'.s \subseteq shared.s
    <2>1. gate.s = {} /\ \A q \in gate.x : q = w
      BY <1>1 DEF IInv, NoLeakedLock, At, ExclusiveOrShared, SingleHolder, HoldsGateExclusive
    <2>2. \A q \in Procs : pc[q] \notin {"readShared", "tryReadShared"}
      BY <2>1, <1>1 DEF IInv, NoLeakedLock, At, HoldsGateShared
    <2>3. ASSUME NEW p \in Procs, Step(p) PROVE shared'.s \subseteq shared.s
      <3>1. shared \in RWLock BY <1>1 DEF IInv, TypeOK
      <3>2. ~ReadShared(p) /\ ~TryReadShared(p)
        BY <2>2 DEF ReadShared, TryReadShared, Goto
      <3>. QED BY <2>3, <3>1, <3>2 DEF Step, Acquire, Proceed, Finish, Call, TryCall, Crash,
             ReadCall, ReadGate, ReadReturn, TryReadGate, ReadRelease, WriteCall, WriteLock,
             TryWriteLock, WriteRelease, CommitCall, CommitGate, CommitShared, CommitReturn,
             TryCommitGate, TryCommitShared, CommitRelease, CommitDestroyShared,
             CommitDestroyWriter, Drop, TakeExclusive, RWLock
    <2>. QED BY <1>1, <2>3, NextIsStep
  <1>2. IInv /\ [Next]_vars =>
          [\A p \in Procs : pc[p] = "commitShared" => shared'.s \subseteq shared.s]_vars
    BY <1>1 DEF vars
  <1>. QED BY Invariance, <1>2, PTL DEF Spec, NoOvertaking

-----------------------------------------------------------------------------------
(* The mode of a process is a matter of the place it is at. *)
ModeAt(place) ==
  IF place \in HoldsExclusive THEN "X"
  ELSE IF place \in HoldsWriter THEN "W"
  ELSE IF place \in HoldsShared THEN "R" ELSE "none"

ModesArePlaces == \A p \in Procs : Mode(p) = ModeAt(pc[p])

(* Two processes are only ever in modes the table allows together. *)
ModesCompatible ==
  \A p, q \in Procs :
    p # q => /\ Mode(p) = "X" => Mode(q) = "none"
             /\ Mode(p) = "W" => Mode(q) \in {"none", "R"}

LEMMA InvModes == IInv => ModesArePlaces /\ ModesCompatible
  <1> SUFFICES ASSUME IInv PROVE ModesArePlaces /\ ModesCompatible
    OBVIOUS
  <1>1. ModesArePlaces
    BY DEF IInv, NoLeakedLock, At, Mode, ModeAt, ModesArePlaces
  <1>2. ASSUME NEW p \in Procs, NEW q \in Procs, p # q
        PROVE  /\ Mode(p) = "X" => Mode(q) = "none"
               /\ Mode(p) = "W" => Mode(q) \in {"none", "R"}
    <2>1. Mode(p) = "X" => p \in shared.x BY DEF Mode
    <2>2. Mode(p) \in {"X", "W"} => p \in writer
      BY DEF Mode, IInv, NoLeakedLock, At, HoldsExclusive, HoldsWriter
    <2>3. q \in shared.x => q \in writer
      BY DEF IInv, NoLeakedLock, At, HoldsExclusive, HoldsWriter
    <2>4. Mode(p) = "X" => q \notin shared.x /\ q \notin shared.s /\ q \notin writer
      BY <1>2, <2>1, <2>2 DEF IInv, ExclusiveOrShared, SingleHolder
    <2>5. Mode(p) = "W" => q \notin writer /\ q \notin shared.x
      BY <1>2, <2>2, <2>3 DEF IInv, ExclusiveOrShared, SingleHolder
    <2>. QED BY <2>4, <2>5 DEF Mode
  <1>. QED BY <1>1, <1>2 DEF ModesCompatible

(* What a step does to the mode of the process that takes it. *)
LEMMA StepModes ==
  ASSUME IInv, NEW p \in Procs, Step(p)
  PROVE  /\ <<ModeAt(pc[p]), ModeAt(pc'[p])>> \in
              {<<m, m>> : m \in {"none", "R", "W", "X"}} \cup
              {<<"none", "R">>, <<"none", "W">>, <<"W", "X">>, <<"R", "none">>,
               <<"W", "none">>, <<"X", "W">>, <<"X", "none">>}
         /\ \A q \in Procs \ {p} : pc'[q] = pc[q]
  <1>1. pc \in [Procs -> PCs] BY DEF IInv, TypeOK
  <1> USE <1>1 DEF ModeAt, Goto, PCs, HoldsExclusive, HoldsWriter, HoldsShared
  <1>2. CASE Acquire(p)
    BY <1>2 DEF Acquire, ReadGate, ReadShared, WriteLock, CommitGate, CommitShared
  <1>3. CASE Proceed(p)
    BY <1>3 DEF Proceed, ReadReturn, TryReadShared, CommitReturn, TryCommitShared,
                CommitDestroyWriter
  <1>4. CASE Finish(p)
    BY <1>4 DEF Finish, ReadRelease, CommitRelease, CommitDestroyShared
  <1>5. CASE Call(p)
    BY <1>5 DEF Call, ReadCall, WriteCall, WriteRelease, CommitCall
  <1>6. CASE TryCall(p)
    BY <1>6 DEF TryCall, TryReadGate, TryWriteLock, TryCommitGate
  <1>7. CASE Crash(p) BY <1>7 DEF Crash
  <1>. QED BY <1>2, <1>3, <1>4, <1>5, <1>6, <1>7 DEF Step

(* The three locks implement the compatibility table of README.md: every step is a  *)
(* request the table grants, a release, or no change of anybody's mode.             *)
THEOREM ImplementsLockTable == Spec => KeepsLockTable
  <1>1. Init => Modes!Init
    BY DEF Init, Unlocked, Mode, Modes!Init
  <1>2. ASSUME ModesArePlaces, ModesCompatible, ModesArePlaces', ModesCompatible', IInv, Next
        PROVE  [Modes!Next]_[p \in Procs |-> Mode(p)]
    <2> DEFINE mode == [p \in Procs |-> Mode(p)]
    <2>1. PICK p \in Procs : Step(p) BY <1>2, NextIsStep
    <2>2. \A q \in Procs \ {p} : Mode(q)' = Mode(q)
      BY <1>2, <2>1, StepModes DEF ModesArePlaces
    <2>3. mode' = [mode EXCEPT ![p] = Mode(p)'] BY <2>2
    <2>4. \A q \in Procs \ {p} :
            /\ Mode(p)' = "X" => Mode(q) = "none"
            /\ Mode(p)' = "W" => Mode(q) \in {"none", "R"}
            /\ Mode(p)' = "R" => Mode(q) \in {"none", "R", "W"}
      BY <1>2, <2>2 DEF ModesCompatible, Mode
    <2>5. CASE Mode(p)' = Mode(p)
      <3>1. UNCHANGED mode BY <2>2, <2>5
      <3>. QED BY <3>1
    <2>6. CASE <<Mode(p), Mode(p)'>> \in
                 {<<"none", "R">>, <<"none", "W">>, <<"W", "X">>}
      <3>1. PICK from, m : <<from, m>> = <<Mode(p), Mode(p)'>>
                           /\ <<from, m>> \in {<<"none", "R">>, <<"none", "W">>, <<"W", "X">>}
        BY <2>6
      <3>2. \A q \in Procs \ {p} : Modes!Compatible(m, mode[q])
        <4>1. m = Mode(p)' /\ m \in {"R", "W", "X"} BY <3>1
        <4>2. \A q \in Procs : mode[q] = Mode(q) OBVIOUS
        <4> HIDE DEF mode
        <4>. QED BY <4>1, <4>2, <2>4 DEF Modes!Compatible
      <3>3. Modes!Request(p, from, m)
        BY <3>1, <3>2, <2>3 DEF Modes!Request
      <3>. QED BY <3>1, <3>3 DEF Modes!Next
    <2>7. CASE <<Mode(p), Mode(p)'>> \in
                 {<<"R", "none">>, <<"W", "none">>, <<"X", "W">>, <<"X", "none">>}
      <3>1. PICK from, m : <<from, m>> = <<Mode(p), Mode(p)'>>
                           /\ <<from, m>> \in {<<"R", "none">>, <<"W", "none">>,
                                               <<"X", "W">>, <<"X", "none">>}
        BY <2>7
      <3>2. Modes!Release(p, from, m) BY <3>1, <2>3 DEF Modes!Release
      <3>. QED BY <3>1, <3>2 DEF Modes!Next
    <2>. QED
      BY <1>2, <2>1, <2>5, <2>6, <2>7, StepModes DEF ModesArePlaces
  <1>3. UNCHANGED vars => UNCHANGED [p \in Procs |-> Mode(p)]
    BY DEF vars, Mode
  <1>4. Spec => [](ModesArePlaces /\ ModesCompatible)
    BY Invariance, InvModes, PTL
  <1>. QED BY <1>1, <1>2, <1>3, <1>4, Invariance, PTL DEF Spec, KeepsLockTable, Modes!Spec
===================================================================================
