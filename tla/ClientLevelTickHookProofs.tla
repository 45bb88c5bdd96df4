--------------------- MODULE ClientLevelTickHookProofs ---------------------
(***************************************************************************)
(* Proofs about ClientLevelTickHook for every number of game threads and   *)
(* every bound: the types, who accounts for the trampoline in the slot,    *)
(* and the exclusion of the three places that write it.                    *)
(***************************************************************************)
EXTENDS ClientLevelTickHook, FiniteSetTheorems, TLAPS

\* A call of writeSlotPointer is open exactly while its caller waits for it.
CallsFollowThreads ==
  /\ call["install"] # "none" <=> worker = "install"
  /\ call["rollback"] # "none" <=> worker = "rollback"
  /\ call["restore"] # "none" <=> control = "restoring"

\* What the lifecycle and the worker know of each other.
LifecycleInv ==
  /\ NoLateWorker
  /\ control \in {"validate", "register"} => worker = "notJoinable"
  /\ control \in {"validate", "register", "released", "unloaded"} =>
       ~mPatchInstalled
  /\ worker \in {"gate", "patch", "install", "rollback"} => ~mPatchInstalled
  /\ control = "register" => mTargetValidated
  /\ control \in {"restore", "restoring"} => attempt < 3
  /\ ~mTargetValidated => worker = "notJoinable" /\ ~mPatchInstalled
  /\ RegistrationOwned

\* The errno pairs tell how far a call came, and are clean when a patch starts.
ErrnoInv ==
  /\ \A s \in CallSites :
       /\ call[s] \in {"unprotect", "store", "reprotect", "ok"} =>
            errno[s] = "none"
       /\ call[s] = "failed" => errno[s] # "none"
  /\ control \in {"validate", "register"} \/ worker \in {"gate", "patch"} =>
       \A s \in CallSites : errno[s] = "none"
  /\ worker = "install" =>
       errno["rollback"] = "none" /\ errno["restore"] = "none"
  /\ worker # "notJoinable" => errno["restore"] = "none"

\* Where the trampoline cannot be, or why it still is in the slot.
SlotInv ==
  /\ TrampolineAccounted
  /\ call["install"] \in {"unprotect", "store"} => slot # "trampoline"
  /\ errno["install"] = "unprotect" => slot # "trampoline"
  /\ \A s \in {"rollback", "restore"} :
       /\ call[s] \in {"reprotect", "ok"} => slot # "trampoline"
       /\ errno[s] = "reprotect" => slot # "trampoline"
  /\ worker = "rollback" /\ slot = "trampoline" =>
       errno["install"] = "reprotect"

\* Every failure the slot depends on was paid for with an mprotect that failed.
FaultInv ==
  /\ OneFaultIsHandled
  /\ call["install"] = "failed" => faults >= 1
  /\ worker = "rollback" => faults >= 1
  /\ call["rollback"] = "failed" /\ slot = "trampoline" => faults >= 2

PageInv ==
  /\ ExclusiveSlotWrite
  /\ ProtectionAccounted
  /\ \A s \in CallSites : call[s] = "ok" => page = mOriginalProtection

CountInv == CounterTracksCallbacks

IInv ==
  /\ TypeOK
  /\ CallsFollowThreads
  /\ LifecycleInv
  /\ ErrnoInv
  /\ SlotInv
  /\ FaultInv
  /\ PageInv
  /\ CountInv
-----------------------------------------------------------------------------
\* The callbacks in flight are some of the game threads.
LEMMA CountedFinite ==
  /\ IsFiniteSet(Counted)
  /\ Cardinality(Counted) \in 0 .. Cardinality(Threads)
<1>1. Counted \in SUBSET Threads
  BY DEF Counted
<1>2. IsFiniteSet(Counted) /\ Cardinality(Counted) <= Cardinality(Threads)
  BY <1>1, ThreadsAssumption, FS_Subset
<1>3. QED
  BY <1>2, ThreadsAssumption, FS_CardinalityType

\* A thread that starts to record is one more callback, still fewer than the
\* counter can hold.
LEMMA CountedGrows ==
  ASSUME TypeOK, NEW t \in Threads, GameStep(t, "loaded", "counted")
  PROVE  /\ Cardinality(Counted') = Cardinality(Counted) + 1
         /\ Cardinality(Counted') < CounterMod
         /\ Cardinality(Counted) \in Nat
<1>1. Counted' = Counted \cup {t} /\ t \notin Counted
  BY DEF TypeOK, GameStep, Counted
<1>2. IsFiniteSet(Counted) /\ Cardinality(Counted) \in Nat
  BY CountedFinite, FS_CardinalityType
<1>3. Cardinality(Counted \cup {t}) = Cardinality(Counted) + 1
  BY <1>1, <1>2, FS_AddElement
<1>4. Counted' \in SUBSET Threads
  BY DEF Counted
<1>5. Cardinality(Counted') <= Cardinality(Threads)
  BY <1>4, ThreadsAssumption, FS_Subset
<1>6. Cardinality(Threads) \in Nat
  BY ThreadsAssumption, FS_CardinalityType
<1>7. QED
  BY <1>1, <1>2, <1>3, <1>5, <1>6, CounterModAssumption

\* A thread that ends its record is one callback less.
LEMMA CountedShrinks ==
  ASSUME TypeOK, NEW t \in Threads, GameStep(t, "counted", "leaving")
  PROVE  /\ Cardinality(Counted') = Cardinality(Counted) - 1
         /\ Cardinality(Counted') \in Nat
         /\ Cardinality(Counted) < CounterMod
<1>1. Counted' = Counted \ {t} /\ t \in Counted
  BY DEF TypeOK, GameStep, Counted
<1>2. IsFiniteSet(Counted)
  BY CountedFinite
<1>3. /\ Cardinality(Counted \ {t}) = Cardinality(Counted) - 1
      /\ IsFiniteSet(Counted \ {t})
  BY <1>1, <1>2, FS_RemoveElement
<1>4. Cardinality(Counted \ {t}) \in Nat
  BY <1>3, FS_CardinalityType
<1>5. Cardinality(Threads) \in Nat /\ Cardinality(Counted) \in Nat
  BY <1>2, ThreadsAssumption, FS_CardinalityType
<1>6. Cardinality(Counted) <= Cardinality(Threads)
  BY CountedFinite, <1>5
<1>7. QED
  BY <1>1, <1>3, <1>4, <1>5, <1>6, CounterModAssumption

\* The wrapped counter stays in its range.
LEMMA CounterType ==
  \A n \in Int : n % CounterMod \in 0 .. CounterMod - 1
<1>1. CounterMod \in Nat /\ CounterMod > 0
  BY CounterModAssumption, ThreadsAssumption, FS_CardinalityType
<1>2. QED
  BY <1>1

\* A step inside writeSlotPointer, for whichever caller.
LEMMA WriteKeepsIInv ==
  ASSUME IInv, NEW s \in CallSites, WriteSlotPointer(s)
  PROVE  IInv'
<1> USE BoundsAssumption, CounterModAssumption DEF IInv, TypeOK, CallsFollowThreads,
      LifecycleInv, ErrnoInv, SlotInv, FaultInv, PageInv, NoLateWorker,
      RegistrationOwned, TrampolineAccounted, OneFaultIsHandled,
      ExclusiveSlotWrite, ProtectionAccounted, CountInv,
      CounterTracksCallbacks, Counted, Patching, Pointers, Protections,
      CallSites, CallSteps, Errnos, WorkerSteps, ControlSteps, Rest,
      GameSteps, memory, hook, writing, counting, bounds
<1>1. CASE Unprotect(s)
  BY <1>1 DEF Unprotect
<1>2. CASE UnprotectFails(s)
  BY <1>2 DEF UnprotectFails
<1>3. CASE Store(s)
  BY <1>3 DEF Store
<1>4. CASE Reprotect(s)
  BY <1>4 DEF Reprotect
<1>5. CASE ReprotectFails(s)
  BY <1>5 DEF ReprotectFails
<1>6. QED
  BY <1>1, <1>2, <1>3, <1>4, <1>5 DEF WriteSlotPointer

\* The worker's own steps.
LEMMA WorkerKeepsIInv ==
  ASSUME IInv, Worker
  PROVE  IInv'
<1> USE BoundsAssumption, CounterModAssumption DEF IInv, TypeOK, CallsFollowThreads,
      LifecycleInv, ErrnoInv, SlotInv, FaultInv, PageInv, NoLateWorker,
      RegistrationOwned, TrampolineAccounted, OneFaultIsHandled,
      ExclusiveSlotWrite, ProtectionAccounted, CountInv,
      CounterTracksCallbacks, Counted, Patching, Pointers, Protections,
      CallSites, CallSteps, Errnos, WorkerSteps, ControlSteps, Rest,
      GameSteps, memory, hook, writing, counting, bounds
<1>1. CASE LeaveGate
  BY <1>1 DEF LeaveGate
<1>2. CASE PatchRefused
  BY <1>2 DEF PatchRefused
<1>3. CASE PatchBegin
  BY <1>3 DEF PatchBegin, BeginWrite
<1>4. CASE PatchInstalled
  BY <1>4 DEF PatchInstalled, EndWrite
<1>5. CASE PatchFailed
  BY <1>5 DEF PatchFailed, EndWrite
<1>6. CASE RollbackReturns
  BY <1>6 DEF RollbackReturns, EndWrite
<1>7. CASE StopWatching
  BY <1>7 DEF StopWatching
<1>8. CASE WriteSlotPointer("install") \/ WriteSlotPointer("rollback")
  BY <1>8, WriteKeepsIInv
<1>9. QED
  BY <1>1, <1>2, <1>3, <1>4, <1>5, <1>6, <1>7, <1>8 DEF Worker

\* The lifecycle thread.
LEMMA ControlKeepsIInv ==
  ASSUME IInv, Control
  PROVE  IInv'
<1> USE BoundsAssumption, CounterModAssumption DEF IInv, TypeOK, CallsFollowThreads,
      LifecycleInv, ErrnoInv, SlotInv, FaultInv, PageInv, NoLateWorker,
      RegistrationOwned, TrampolineAccounted, OneFaultIsHandled,
      ExclusiveSlotWrite, ProtectionAccounted, CountInv,
      CounterTracksCallbacks, Counted, Patching, Pointers, Protections,
      CallSites, CallSteps, Errnos, WorkerSteps, ControlSteps, Rest,
      GameSteps, memory, hook, writing, counting, bounds
<1>1. CASE ValidateFails
  BY <1>1 DEF ValidateFails
<1>2. CASE Validate
  BY <1>2 DEF Validate
<1>3. CASE Register
  BY <1>3 DEF Register
<1>4. CASE WorkerStartFails
  BY <1>4 DEF WorkerStartFails
<1>5. CASE UninstallBegin
  BY <1>5 DEF UninstallBegin
<1>6. CASE Join
  BY <1>6 DEF Join
<1>7. CASE RestoreRead
  BY <1>7 DEF RestoreRead, BeginWrite
<1>8. CASE RestoreDone
  BY <1>8 DEF RestoreDone, EndWrite
<1>9. CASE RestoreRetry
  BY <1>9 DEF RestoreRetry, EndWrite
<1>10. CASE WriteSlotPointer("restore")
  BY <1>10, WriteKeepsIInv
<1>11. CASE Drained
  BY <1>11 DEF Drained
<1>12. CASE DrainTimeout
  BY <1>12 DEF DrainTimeout
<1>13. CASE Finish
  BY <1>13 DEF Finish
<1>14. CASE Unload
  BY <1>14 DEF Unload
<1>15. CASE InstallReset
  <2>1. Cardinality(Counted) \in 0 .. Cardinality(Threads)
    BY CountedFinite
  <2>2. lost' \in 0 .. Cardinality(Threads) /\ mCallbacksInFlight' = 0
    BY <1>15, <2>1 DEF InstallReset
  <2>3. 0 \in 0 .. CounterMod - 1
    BY CounterType
  <2>4. CountInv'
    BY <1>15, <2>1 DEF InstallReset
  <2>5. Cardinality(Threads) \in Nat
    BY ThreadsAssumption, FS_CardinalityType
  <2>6. mCallbacksInFlight' \in 0 .. CounterMod - 1
    BY <2>2, <2>3
  <2>7. TypeOK'
    <3>1. errno' \in [CallSites -> Errnos]
      BY <1>15 DEF InstallReset
    <3>2. installs' \in 0 .. MaxInstalls
      BY <1>15 DEF InstallReset
    <3>3. QED
      BY <1>15, <2>2, <2>6, <3>1, <3>2 DEF InstallReset
  <2>8. QED
    BY <1>15, <2>4, <2>7 DEF InstallReset
<1>16. QED
  BY <1>1, <1>2, <1>3, <1>4, <1>5, <1>6, <1>7, <1>8, <1>9, <1>10, <1>11, <1>12, <1>13, <1>14, <1>15 DEF Control, UninstallSteps

\* A game thread.
LEMMA GameKeepsIInv ==
  ASSUME IInv, NEW t \in Threads, Game(t)
  PROVE  IInv'
<1> USE BoundsAssumption, CounterModAssumption DEF IInv, TypeOK, CallsFollowThreads,
      LifecycleInv, ErrnoInv, SlotInv, FaultInv, PageInv, NoLateWorker,
      RegistrationOwned, TrampolineAccounted, OneFaultIsHandled,
      ExclusiveSlotWrite, ProtectionAccounted, CountInv,
      CounterTracksCallbacks, Counted, Patching, Pointers, Protections,
      CallSites, CallSteps, Errnos, WorkerSteps, ControlSteps, Rest,
      GameSteps, memory, hook, writing, counting, bounds
<1>1. CASE Enter(t)
  BY <1>1 DEF Enter, GameStep
<1>2. CASE LoadActive(t)
  BY <1>2 DEF LoadActive, GameStep
<1>3. CASE BeginRecord(t)
  <2>1. mCallbacksInFlight' \in 0 .. CounterMod - 1
    BY <1>3, CounterType DEF BeginRecord
  <2>2. /\ Cardinality(Counted') = Cardinality(Counted) + 1
        /\ Cardinality(Counted') < CounterMod
        /\ Cardinality(Counted) \in Nat
    BY <1>3, CountedGrows DEF BeginRecord
  <2>3. CountInv'
    BY <1>3, <2>2 DEF BeginRecord
  <2>4. QED
    BY <1>3, <2>1, <2>3 DEF BeginRecord, GameStep
<1>4. CASE EndRecord(t)
  <2>1. mCallbacksInFlight' \in 0 .. CounterMod - 1
    BY <1>4, CounterType DEF EndRecord
  <2>2. /\ Cardinality(Counted') = Cardinality(Counted) - 1
        /\ Cardinality(Counted') \in Nat
        /\ Cardinality(Counted) < CounterMod
    BY <1>4, CountedShrinks DEF EndRecord
  <2>3. CountInv'
    BY <1>4, <2>2 DEF EndRecord
  <2>4. QED
    BY <1>4, <2>1, <2>3 DEF EndRecord, GameStep
<1>5. CASE BranchToOriginal(t)
  BY <1>5 DEF BranchToOriginal, GameStep
<1>6. QED
  BY <1>1, <1>2, <1>3, <1>4, <1>5 DEF Game

LEMMA InitIInv == Init => IInv
<1> SUFFICES ASSUME Init PROVE IInv
  OBVIOUS
<1>1. Cardinality(Threads) \in Nat
  BY ThreadsAssumption, FS_CardinalityType
<1>2. Counted = {}
  BY DEF Init, Counted
<1>3. Cardinality(Counted) = 0
  BY <1>2, FS_EmptySet
<1>4. TypeOK
  <2>1. 0 \in 0 .. Cardinality(Threads) /\ 0 \in 0 .. CounterMod - 1
    BY <1>1, CounterModAssumption
  <2>2. /\ lost \in 0 .. Cardinality(Threads)
        /\ mCallbacksInFlight \in 0 .. CounterMod - 1
    BY <2>1 DEF Init
  <2>3. call \in [CallSites -> CallSteps] /\ errno \in [CallSites -> Errnos]
    BY DEF Init, CallSites, CallSteps, Errnos
  <2>4. game \in [Threads -> GameSteps]
    BY DEF Init, GameSteps
  <2>5. faults \in 0 .. MaxFaults /\ foreign \in 0 .. MaxForeign
        /\ installs \in 0 .. MaxInstalls /\ attempt \in 0 .. 3
    BY BoundsAssumption DEF Init
  <2>6. QED
    BY <2>2, <2>3, <2>4, <2>5
    DEF Init, TypeOK, Pointers, Protections, WorkerSteps, ControlSteps, Rest
<1>5. CountInv
  BY <1>3 DEF Init, CountInv, CounterTracksCallbacks
<1>6. QED
  BY <1>4, <1>5
  DEF Init, IInv, CallsFollowThreads, LifecycleInv, ErrnoInv, SlotInv,
      FaultInv, PageInv, NoLateWorker, RegistrationOwned,
      TrampolineAccounted, OneFaultIsHandled, ExclusiveSlotWrite,
      ProtectionAccounted, Patching, CallSites

LEMMA NextIInv == IInv /\ [Next]_vars => IInv'
<1> SUFFICES ASSUME IInv, [Next]_vars PROVE IInv'
  OBVIOUS
<1>1. CASE Worker
  BY <1>1, WorkerKeepsIInv
<1>2. CASE Control
  BY <1>2, ControlKeepsIInv
<1>3. CASE \E t \in Threads : Game(t)
  BY <1>3, GameKeepsIInv
<1>4. CASE ForeignWrite
  BY <1>4, BoundsAssumption
  DEF ForeignWrite, IInv, TypeOK, CallsFollowThreads, LifecycleInv, ErrnoInv,
      SlotInv, FaultInv, PageInv, CountInv, NoLateWorker, RegistrationOwned,
      TrampolineAccounted, OneFaultIsHandled, ExclusiveSlotWrite,
      ProtectionAccounted, CounterTracksCallbacks, Counted, Patching, Pointers,
      hook, writing, counting
<1>5. CASE UNCHANGED vars
  BY <1>5
  DEF vars, memory, hook, writing, counting, bounds, IInv, TypeOK,
      CallsFollowThreads, LifecycleInv, ErrnoInv, SlotInv, FaultInv, PageInv,
      CountInv, NoLateWorker, RegistrationOwned, TrampolineAccounted,
      OneFaultIsHandled, ExclusiveSlotWrite, ProtectionAccounted,
      CounterTracksCallbacks, Counted, Patching
<1>6. QED
  BY <1>1, <1>2, <1>3, <1>4, <1>5 DEF Next
-----------------------------------------------------------------------------
\* The strengthened invariant holds in every behaviour of the tick hook.
THEOREM Invariance == Spec => []IInv
  BY InitIInv, NextIInv, PTL DEF Spec

\* Every variable keeps its type: in particular restoreSlot gives up after
\* three attempts and the unsigned counter stays in its range.
THEOREM TypeCorrect == Spec => []TypeOK
<1>1. IInv => TypeOK
  BY DEF IInv
<1>2. QED
  BY <1>1, Invariance, PTL

\* patchSlot, restoreSlot and the rollback account for every trampoline in
\* the vtable, whatever mprotect and other writers of the slot do.
THEOREM TrampolineSafety == Spec => []TrampolineAccounted
<1>1. IInv => TrampolineAccounted
  BY DEF IInv, SlotInv
<1>2. QED
  BY <1>1, Invariance, PTL

\* The worker and uninstall() never write the slot at the same time, and no
\* store goes to a page another of them has protected again.
THEOREM WriteExclusion == Spec => []ExclusiveSlotWrite
<1>1. IInv => ExclusiveSlotWrite
  BY DEF IInv, PageInv
<1>2. QED
  BY <1>1, Invariance, PTL

\* uninstall() waits for the right number of callbacks unless install() reset
\* the counter under a running one.
THEOREM CounterSafety == Spec => []CounterTracksCallbacks
<1>1. IInv => CounterTracksCallbacks
  BY DEF IInv, CountInv
<1>2. QED
  BY <1>1, Invariance, PTL

\* Page protections and registrations left behind are accounted for, whichever
\* calls of mprotect and std::thread fail.
THEOREM RestSafety == Spec => []RestAccounted
<1>1. IInv => RestAccounted
  BY DEF IInv, PageInv, LifecycleInv, RestAccounted
<1>2. QED
  BY <1>1, Invariance, PTL

\* A single failing mprotect never makes the module leave its trampoline
\* behind unaccounted.
THEOREM SingleFault == Spec => []OneFaultIsHandled
<1>1. IInv => OneFaultIsHandled
  BY DEF IInv, FaultInv
<1>2. QED
  BY <1>1, Invariance, PTL

\* If mprotect fails at most once, a module that disable() or unload() releases
\* is not referenced by the vtable: what safeToUnload promises.
THEOREM SafeUnload ==
  MaxFaults < 2 => (Spec => []UnloadLeavesNoTrampoline)
<1> SUFFICES ASSUME MaxFaults < 2 PROVE Spec => []UnloadLeavesNoTrampoline
  OBVIOUS
<1>1. IInv => UnloadLeavesNoTrampoline
  BY BoundsAssumption
  DEF IInv, TypeOK, FaultInv, LifecycleInv, NoLateWorker, OneFaultIsHandled,
      Patching, UnloadLeavesNoTrampoline
<1>2. QED
  BY <1>1, Invariance, PTL
=============================================================================
