------------------------------- MODULE LockProtocol -------------------------------
(*********************************************************************************)
(* CompoundFs/LockProtocol.h and Lock.h: the three locks every user of a compound *)
(* file goes through.  One step is one operation on one of the three locks        *)
(* (m_gate, m_shared, m_writer), so that every interleaving of the calls of       *)
(* several processes is explored.  pc[p] says how far p is in the call it is in.  *)
(*********************************************************************************)
EXTENDS ReadWriteLock

CONSTANT Procs          \* the processes (or threads, on a MemoryFile)

VARIABLES
  pc,                   \* how far each process is in its call
  gate,                 \* m_gate:   shared and exclusive holders
  shared,               \* m_shared: shared and exclusive holders
  writer                \* m_writer: holders of the writer mutex

vars == <<pc, gate, shared, writer>>

(* Calls in progress.  A name ending in Gate or Shared waits for that lock, one   *)
(* ending in Return holds what it asked for and still has to drop the gate.       *)
PCs == {"idle",
        "readGate", "readShared", "tryReadShared", "readFail", "readReturn", "reading",
        "waitWriter", "writing",
        "commitGate", "commitShared", "tryCommitShared", "commitFail", "commitReturn",
        "committing", "abandon"}

RWLock == [s : SUBSET Procs, x : SUBSET Procs]

TypeOK ==
  /\ pc \in [Procs -> PCs]
  /\ gate \in RWLock
  /\ shared \in RWLock
  /\ writer \in SUBSET Procs

Init ==
  /\ pc = [p \in Procs |-> "idle"]
  /\ gate = Unlocked
  /\ shared = Unlocked
  /\ writer = {}

-----------------------------------------------------------------------------------
Goto(p, from, to) == pc[p] = from /\ pc' = [pc EXCEPT ![p] = to]

-----------------------------------------------------------------------------------
(* readAccess: gate shared, m_shared shared, then the gate is dropped by the       *)
(* destructor of the shared_lock on it.                                            *)
ReadCall(p) == Goto(p, "idle", "readGate") /\ UNCHANGED <<gate, shared, writer>>

(* Mutant of ReadGate: the gate is only waited for, not held. *)
ReadGateNotHeld(p) ==
  /\ Goto(p, "readGate", "readShared")
  /\ FreeForShared(gate)
  /\ UNCHANGED <<gate, shared, writer>>

ReadGate(p) ==
  /\ Goto(p, "readGate", "readShared")
  /\ FreeForShared(gate)
  /\ gate' = TakeShared(gate, p)
  /\ UNCHANGED <<shared, writer>>

ReadShared(p) ==
  /\ Goto(p, "readShared", "readReturn")
  /\ FreeForShared(shared)
  /\ shared' = TakeShared(shared, p)
  /\ UNCHANGED <<gate, writer>>

ReadReturn(p) ==
  /\ \/ Goto(p, "readReturn", "reading")
     \/ Goto(p, "readFail", "idle")
  /\ gate' = Drop(gate, p)
  /\ UNCHANGED <<shared, writer>>

(* tryReadAccess: neither lock is waited for.  A failed attempt on the gate        *)
(* changes nothing.                                                                *)
TryReadGate(p) ==
  /\ Goto(p, "idle", "tryReadShared")
  /\ FreeForShared(gate)
  /\ gate' = TakeShared(gate, p)
  /\ UNCHANGED <<shared, writer>>

TryReadShared(p) ==
  /\ \/ /\ FreeForShared(shared)
        /\ Goto(p, "tryReadShared", "readReturn")
        /\ shared' = TakeShared(shared, p)
     \/ /\ ~FreeForShared(shared)
        /\ Goto(p, "tryReadShared", "readFail")
        /\ UNCHANGED shared
  /\ UNCHANGED <<gate, writer>>

ReadRelease(p) ==
  /\ Goto(p, "reading", "idle")
  /\ shared' = Drop(shared, p)
  /\ UNCHANGED <<gate, writer>>

-----------------------------------------------------------------------------------
(* writeAccess and tryWriteAccess.                                                  *)
WriteCall(p) == Goto(p, "idle", "waitWriter") /\ UNCHANGED <<gate, shared, writer>>

WriteLock(p) ==
  /\ Goto(p, "waitWriter", "writing")
  /\ writer = {}
  /\ writer' = {p}
  /\ UNCHANGED <<gate, shared>>

TryWriteLock(p) ==
  /\ Goto(p, "idle", "writing")
  /\ writer = {}
  /\ writer' = {p}
  /\ UNCHANGED <<gate, shared>>

WriteRelease(p) ==
  /\ Goto(p, "writing", "idle")
  /\ writer' = writer \ {p}
  /\ UNCHANGED <<gate, shared>>

-----------------------------------------------------------------------------------
(* commitAccess: only a holder of m_writer gets past the isSameMutex test.          *)
CommitCall(p) ==
  /\ Goto(p, "writing", "commitGate")
  /\ p \in writer
  /\ UNCHANGED <<gate, shared, writer>>

(* Mutants of CommitGate: the gate is shared with readers; it is not held at all. *)
CommitGateShared(p) ==
  /\ Goto(p, "commitGate", "commitShared")
  /\ FreeForShared(gate)
  /\ gate' = TakeShared(gate, p)
  /\ UNCHANGED <<shared, writer>>

CommitGateNotHeld(p) ==
  /\ Goto(p, "commitGate", "commitShared")
  /\ FreeForExclusive(gate)
  /\ UNCHANGED <<gate, shared, writer>>

CommitGate(p) ==
  /\ Goto(p, "commitGate", "commitShared")
  /\ FreeForExclusive(gate)
  /\ gate' = TakeExclusive(gate, p)
  /\ UNCHANGED <<shared, writer>>

CommitShared(p) ==
  /\ Goto(p, "commitShared", "commitReturn")
  /\ FreeForExclusive(shared)
  /\ shared' = TakeExclusive(shared, p)
  /\ UNCHANGED <<gate, writer>>

(* Mutant of CommitReturn: a failed attempt keeps the gate. *)
CommitReturnKeepsGate(p) ==
  /\ \/ Goto(p, "commitReturn", "committing") /\ gate' = Drop(gate, p)
     \/ Goto(p, "commitFail", "writing") /\ UNCHANGED gate
  /\ UNCHANGED <<shared, writer>>

CommitReturn(p) ==
  /\ \/ Goto(p, "commitReturn", "committing")
     \/ Goto(p, "commitFail", "writing")
  /\ gate' = Drop(gate, p)
  /\ UNCHANGED <<shared, writer>>

(* tryCommitAccess: gives the write lock back when either lock is taken.            *)
TryCommitGate(p) ==
  /\ Goto(p, "writing", "tryCommitShared")
  /\ p \in writer
  /\ FreeForExclusive(gate)
  /\ gate' = TakeExclusive(gate, p)
  /\ UNCHANGED <<shared, writer>>

(* Mutant of TryCommitShared: readers are overlooked. *)
TryCommitAmongReaders(p) ==
  /\ \/ /\ shared.x = {}
        /\ Goto(p, "tryCommitShared", "commitReturn")
        /\ shared' = TakeExclusive(shared, p)
     \/ /\ shared.x # {}
        /\ Goto(p, "tryCommitShared", "commitFail")
        /\ UNCHANGED shared
  /\ UNCHANGED <<gate, writer>>

TryCommitShared(p) ==
  /\ \/ /\ FreeForExclusive(shared)
        /\ Goto(p, "tryCommitShared", "commitReturn")
        /\ shared' = TakeExclusive(shared, p)
     \/ /\ ~FreeForExclusive(shared)
        /\ Goto(p, "tryCommitShared", "commitFail")
        /\ UNCHANGED shared
  /\ UNCHANGED <<gate, writer>>

(* CommitLock::release gives up m_shared and hands the writer lock back.            *)
CommitRelease(p) ==
  /\ Goto(p, "committing", "writing")
  /\ shared' = Drop(shared, p)
  /\ UNCHANGED <<gate, writer>>

(* Mutant of CommitDestroyShared: the members declared in the other order. *)
CommitDestroyWriterFirst(p) ==
  /\ Goto(p, "committing", "abandon")
  /\ writer' = writer \ {p}
  /\ UNCHANGED <<gate, shared>>

(* A CommitLock destroyed by an exception: its members go in reverse order of       *)
(* declaration, m_shared first, m_writer second.                                    *)
CommitDestroyShared(p) ==
  /\ Goto(p, "committing", "abandon")
  /\ shared' = Drop(shared, p)
  /\ UNCHANGED <<gate, writer>>

CommitDestroyWriter(p) ==
  /\ Goto(p, "abandon", "idle")
  /\ writer' = writer \ {p}
  /\ UNCHANGED <<gate, shared>>

(* The operating system drops the file locks of a process that dies.                *)
Crash(p) ==
  /\ pc[p] # "idle"
  /\ pc' = [pc EXCEPT ![p] = "idle"]
  /\ gate' = Drop(gate, p)
  /\ shared' = Drop(shared, p)
  /\ writer' = writer \ {p}

-----------------------------------------------------------------------------------
(* Steps that take a lock, and so may have to wait for it. *)
Acquire(p) ==
  \/ ReadGate(p) \/ ReadShared(p) \/ WriteLock(p) \/ CommitGate(p) \/ CommitShared(p)

(* Steps that nothing can hold up. *)
Proceed(p) ==
  \/ ReadReturn(p) \/ TryReadShared(p) \/ CommitReturn(p) \/ TryCommitShared(p)
  \/ CommitDestroyWriter(p)

(* The user of the file is done with the lock it was given. *)
Finish(p) == ReadRelease(p) \/ CommitRelease(p) \/ CommitDestroyShared(p)

(* Calls and returns nobody is obliged to make. *)
Call(p) == ReadCall(p) \/ WriteCall(p) \/ WriteRelease(p) \/ CommitCall(p)
TryCall(p) == TryReadGate(p) \/ TryWriteLock(p) \/ TryCommitGate(p)

BlockingNext == \E p \in Procs : Acquire(p) \/ Proceed(p) \/ Finish(p) \/ Call(p)

Next == BlockingNext \/ \E p \in Procs : TryCall(p) \/ Crash(p)

Spec == Init /\ [][Next]_vars

(* Readers and committers eventually give their locks up, and a thread that can     *)
(* go on does.  Nothing is promised about WHO gets a contended lock.                *)
Fairness == \A p \in Procs : WF_vars(Acquire(p)) /\ WF_vars(Proceed(p)) /\ WF_vars(Finish(p))
FairSpec == Spec /\ Fairness

-----------------------------------------------------------------------------------
(* Which lock a process holds at each point of its calls. *)
HoldsGateShared == {"readShared", "tryReadShared", "readFail", "readReturn"}
HoldsGateExclusive == {"commitShared", "tryCommitShared", "commitFail", "commitReturn"}
HoldsShared == {"readReturn", "reading"}
HoldsExclusive == {"commitReturn", "committing"}
HoldsWriter == {"writing", "commitGate", "commitShared", "tryCommitShared", "commitFail",
                "commitReturn", "committing", "abandon"}

At(places) == {p \in Procs : pc[p] \in places}

SingleHolder(S) == \A p, q \in S : p = q

(* The locks are held by exactly the processes whose calls have taken and not yet    *)
(* given them up: no exit of a call, failed attempt, exception or crash leaks one.   *)
NoLeakedLock ==
  /\ gate = [s |-> At(HoldsGateShared), x |-> At(HoldsGateExclusive)]
  /\ shared = [s |-> At(HoldsShared), x |-> At(HoldsExclusive)]
  /\ writer = At(HoldsWriter)

(* README.md, lock table: while a commit holds m_shared exclusively nobody reads,     *)
(* nobody else commits, and the writer mutex is still the committer's own, until      *)
(* after m_shared has been given back (also when an exception destroys the lock).     *)
CommitExclusion ==
  \A p \in shared.x : shared.s = {} /\ shared.x = {p} /\ writer = {p}

(* Both locks that can be shared are held either shared or by one process. *)
ExclusiveOrShared ==
  /\ SingleHolder(gate.x) /\ (gate.x # {} => gate.s = {})
  /\ SingleHolder(shared.x) /\ (shared.x # {} => shared.s = {})
  /\ SingleHolder(writer)

IInv == TypeOK /\ NoLeakedLock /\ ExclusiveOrShared

(* FileLockingProtocol.md, "Use m_gate to establish fairness": from the moment a      *)
(* committer owns the gate no reader gets m_shared before it.                         *)
NoOvertaking ==
  [][\A p \in Procs : pc[p] = "commitShared" => shared'.s \subseteq shared.s]_vars

(* A committer that owns the gate gets m_shared once the readers ahead of it leave.   *)
CommitGranted ==
  \A p \in Procs : pc[p] = "commitShared" ~> pc[p] \in {"commitReturn", "idle"}

(* A reader that owns the gate is let in once the commit ahead of it is over: the     *)
(* order gate, m_shared and the writer mutex that is only ever taken first cannot     *)
(* leave the processes waiting for each other.                                        *)
ReadGranted ==
  \A p \in Procs : pc[p] = "readShared" ~> pc[p] \in {"readReturn", "idle"}

(* The compatibility table: the mode of a process as the primitive locks give it.     *)
Mode(p) ==
  IF p \in shared.x THEN "X"
  ELSE IF p \in writer THEN "W"
  ELSE IF p \in shared.s THEN "R" ELSE "none"

Modes == INSTANCE LockModes WITH mode <- [p \in Procs |-> Mode(p)]

(* Every behaviour of the three locks is one the table of README.md allows. *)
KeepsLockTable == Modes!Spec
===================================================================================
