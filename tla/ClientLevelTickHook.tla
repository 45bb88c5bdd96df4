------------------------ MODULE ClientLevelTickHook ------------------------
(***************************************************************************)
(* The ClientLevel tick source (src/src/bedrock/ClientLevelTickHook.cpp).  *)
(* A worker thread swaps one vtable pointer for the module's trampoline,   *)
(* game threads run the trampoline and count themselves while they publish *)
(* an event, and the lifecycle thread puts the pointer back, waits for the *)
(* callbacks it can see and says whether the module may be unmapped.       *)
(*                                                                         *)
(* Every access to the slot, the page protection, sActive and the counter  *)
(* is a step of its own, so the threads interleave between them.  The      *)
(* worker's heartbeat gate is a free choice here.                          *)
(***************************************************************************)
EXTENDS Integers, FiniteSets

CONSTANTS
  Threads,       \* game threads that run ClientLevel::_subTick
  CounterMod,    \* 2^32 in the code: the modulus of mCallbacksInFlight
  MaxFaults,     \* bound: mprotect calls that fail
  MaxForeign,    \* bound: writes to the slot by code outside the module
  MaxInstalls    \* bound: calls of install()

ASSUME ThreadsAssumption == IsFiniteSet(Threads)
ASSUME CounterModAssumption ==
  CounterMod \in Nat /\ CounterMod > Cardinality(Threads)
ASSUME BoundsAssumption ==
  MaxFaults \in Nat /\ MaxForeign \in Nat /\ MaxInstalls \in Nat

VARIABLES
  slot,                \* the vtable entry
  page,                \* protection of its page
  mOriginalProtection, \* what queryMemoryProtection saw at validation
  mTargetValidated,
  sActive,             \* sActive = this
  mPatchInstalled,
  mStopRequested,
  mCallbacksInFlight,
  call,                \* writeSlotPointer's activation, one per call site
  errno,               \* the errno pair of each call site
  worker,              \* mWorker
  control,             \* the lifecycle thread
  attempt,             \* restoreSlot's loop counter
  game,                \* each game thread
  lost,                \* history: callbacks running when install() last zeroed the counter
  faults, foreign, installs

hook == <<mTargetValidated, mOriginalProtection, sActive, mPatchInstalled,
          mStopRequested>>
memory == <<slot, page>>
writing == <<call, errno>>
counting == <<mCallbacksInFlight, lost>>
bounds == <<faults, foreign, installs>>
vars == <<memory, hook, writing, counting, worker, control, attempt, game,
          bounds>>

Pointers    == {"original", "trampoline", "other"}
Protections == {"readOnly", "writable"}
CallSites   == {"install", "rollback", "restore"}
CallSteps   == {"none", "unprotect", "store", "reprotect", "ok", "failed"}
Errnos      == {"none", "unprotect", "reprotect"}
WorkerSteps == {"notJoinable", "gate", "patch", "install", "rollback",
                "watch", "done"}
Rest        == {"idle", "refused", "released"}
ControlSteps == Rest \cup {"validate", "register", "join", "restore",
                           "restoring", "drain", "finish", "unloaded"}
GameSteps   == {"outside", "entered", "loaded", "counted", "leaving"}

\* Game threads between the counter's increment and its decrement.
Counted == {t \in Threads : game[t] = "counted"}

Init ==
  /\ slot = "original"
  /\ page = "readOnly"
  /\ mOriginalProtection = "readOnly"
  /\ mTargetValidated = FALSE
  /\ sActive = FALSE
  /\ mPatchInstalled = FALSE
  /\ mStopRequested = FALSE
  /\ mCallbacksInFlight = 0
  /\ call = [s \in CallSites |-> "none"]
  /\ errno = [s \in CallSites |-> "none"]
  /\ worker = "notJoinable"
  /\ control = "idle"
  /\ attempt = 0
  /\ game = [t \in Threads |-> "outside"]
  /\ lost = 0
  /\ faults = 0 /\ foreign = 0 /\ installs = 0
-----------------------------------------------------------------------------
(***************************************************************************)
(* writeSlotPointer: make the page writable, store, put the protection     *)
(* back.  Either mprotect may fail; after the second failure the value is  *)
(* already in the slot although the call reports failure.                  *)
(***************************************************************************)
BeginWrite(s) ==
  /\ call' = [call EXCEPT ![s] = "unprotect"]
  /\ errno' = [errno EXCEPT ![s] = "none"]

Unprotect(s) ==
  /\ call[s] = "unprotect"
  /\ page' = "writable"
  /\ call' = [call EXCEPT ![s] = "store"]
  /\ UNCHANGED <<slot, hook, errno, counting, worker, control, attempt, game,
                 bounds>>

UnprotectFails(s) ==
  /\ call[s] = "unprotect"
  /\ faults < MaxFaults
  /\ faults' = faults + 1
  /\ call' = [call EXCEPT ![s] = "failed"]
  /\ errno' = [errno EXCEPT ![s] = "unprotect"]
  /\ UNCHANGED <<memory, hook, counting, worker, control, attempt, game,
                 foreign, installs>>

Store(s) ==
  /\ call[s] = "store"
  /\ slot' = IF s = "install" THEN "trampoline" ELSE "original"
  /\ call' = [call EXCEPT ![s] = "reprotect"]
  /\ UNCHANGED <<page, hook, errno, counting, worker, control, attempt, game,
                 bounds>>

\* Mutant: the protection is never put back.
ReprotectForgotten(s) ==
  /\ call[s] = "reprotect"
  /\ call' = [call EXCEPT ![s] = "ok"]
  /\ UNCHANGED <<memory, hook, errno, counting, worker, control, attempt, game,
                 bounds>>

Reprotect(s) ==
  /\ call[s] = "reprotect"
  /\ page' = mOriginalProtection
  /\ call' = [call EXCEPT ![s] = "ok"]
  /\ UNCHANGED <<slot, hook, errno, counting, worker, control, attempt, game,
                 bounds>>

ReprotectFails(s) ==
  /\ call[s] = "reprotect"
  /\ faults < MaxFaults
  /\ faults' = faults + 1
  /\ call' = [call EXCEPT ![s] = "failed"]
  /\ errno' = [errno EXCEPT ![s] = "reprotect"]
  /\ UNCHANGED <<memory, hook, counting, worker, control, attempt, game,
                 foreign, installs>>

WriteSlotPointer(s) ==
  \/ Unprotect(s) \/ UnprotectFails(s)
  \/ Store(s)
  \/ Reprotect(s) \/ ReprotectFails(s)

EndWrite(s) ==
  /\ call' = [call EXCEPT ![s] = "none"]
  /\ UNCHANGED errno
-----------------------------------------------------------------------------
(***************************************************************************)
(* The worker thread: workerLoop and patchSlot.                            *)
(***************************************************************************)

\* The gate loop ends: on a stop request the worker returns, otherwise the
\* heartbeat was stable for long enough and it goes on to patch.
LeaveGate ==
  /\ worker = "gate"
  /\ worker' \in {"patch", "done"}
  /\ worker' = "done" => mStopRequested
  /\ UNCHANGED <<memory, hook, writing, counting, control, attempt, game,
                 bounds>>

\* patchSlot refuses a slot that changed since validation.
PatchRefused ==
  /\ worker = "patch"
  /\ slot # "original"
  /\ worker' = "done"
  /\ UNCHANGED <<memory, hook, writing, counting, control, attempt, game,
                 bounds>>

PatchBegin ==
  /\ worker = "patch"
  /\ slot = "original"
  /\ worker' = "install"
  /\ BeginWrite("install")
  /\ UNCHANGED <<memory, hook, counting, control, attempt, game, bounds>>

\* The write succeeded and the slot still holds the trampoline.
PatchInstalled ==
  /\ worker = "install"
  /\ call["install"] = "ok"
  /\ slot = "trampoline"
  /\ mPatchInstalled' = TRUE
  /\ worker' = "watch"
  /\ EndWrite("install")
  /\ UNCHANGED <<memory, mTargetValidated, mOriginalProtection, sActive,
                 mStopRequested, counting, control, attempt, game, bounds>>

\* Mutant: a failed write is not rolled back.
PatchFailedNoRollback ==
  /\ worker = "install"
  /\ \/ call["install"] = "failed"
     \/ call["install"] = "ok" /\ slot # "trampoline"
  /\ worker' = "done"
  /\ EndWrite("install")
  /\ UNCHANGED <<memory, hook, counting, control, attempt, game, bounds>>

\* The write failed or another writer was faster: undo it if the slot holds
\* the trampoline, otherwise give up.
PatchFailed ==
  /\ worker = "install"
  /\ \/ call["install"] = "failed"
     \/ call["install"] = "ok" /\ slot # "trampoline"
  /\ IF slot = "trampoline"
     THEN /\ worker' = "rollback"
          /\ call' = [call EXCEPT !["install"] = "none",
                                  !["rollback"] = "unprotect"]
          /\ errno' = [errno EXCEPT !["rollback"] = "none"]
     ELSE /\ worker' = "done"
          /\ EndWrite("install")
  /\ UNCHANGED <<memory, hook, counting, control, attempt, game, bounds>>

\* Whatever the rollback reports, patchSlot returns false.
RollbackReturns ==
  /\ worker = "rollback"
  /\ call["rollback"] \in {"ok", "failed"}
  /\ worker' = "done"
  /\ EndWrite("rollback")
  /\ UNCHANGED <<memory, hook, counting, control, attempt, game, bounds>>

StopWatching ==
  /\ worker = "watch"
  /\ mStopRequested
  /\ worker' = "done"
  /\ UNCHANGED <<memory, hook, writing, counting, control, attempt, game,
                 bounds>>

Worker ==
  \/ LeaveGate
  \/ PatchRefused \/ PatchBegin \/ PatchInstalled \/ PatchFailed
  \/ RollbackReturns
  \/ StopWatching
  \/ WriteSlotPointer("install") \/ WriteSlotPointer("rollback")
-----------------------------------------------------------------------------
(***************************************************************************)
(* The lifecycle thread: install().                                        *)
(***************************************************************************)

\* A second install() while the worker is joinable or the patch is in place
\* returns at once; otherwise all state of the last session is reset.
InstallReset ==
  /\ control \in Rest
  /\ installs < MaxInstalls
  /\ installs' = installs + 1
  /\ worker = "notJoinable"
  /\ ~mPatchInstalled
  /\ control' = "validate"
  /\ mStopRequested' = FALSE
  /\ mTargetValidated' = FALSE
  /\ mCallbacksInFlight' = 0
  /\ lost' = Cardinality(Counted)
  /\ errno' = [s \in CallSites |-> "none"]
  /\ UNCHANGED <<memory, mOriginalProtection, sActive, mPatchInstalled, call,
                 worker, attempt, game, faults, foreign>>

\* validateTarget refuses a wrong module, RTTI, prefix or permission, and any
\* slot value that is not the original.
ValidateFails ==
  /\ control = "validate"
  /\ control' = "idle"
  /\ UNCHANGED <<memory, hook, writing, counting, worker, attempt, game,
                 bounds>>

Validate ==
  /\ control = "validate"
  /\ slot = "original"
  /\ mTargetValidated' = TRUE
  /\ mOriginalProtection' = page
  /\ control' = "register"
  /\ UNCHANGED <<memory, sActive, mPatchInstalled, mStopRequested, writing,
                 counting, worker, attempt, game, bounds>>

Register ==
  /\ control = "register"
  /\ ~sActive
  /\ sActive' = TRUE
  /\ worker' = "gate"
  /\ control' = "idle"
  /\ UNCHANGED <<memory, mTargetValidated, mOriginalProtection,
                 mPatchInstalled, mStopRequested, writing, counting, attempt,
                 game, bounds>>

\* std::thread throws: the registration is taken back.
WorkerStartFails ==
  /\ control = "register"
  /\ ~sActive
  /\ control' = "idle"
  /\ UNCHANGED <<memory, hook, writing, counting, worker, attempt, game,
                 bounds>>
-----------------------------------------------------------------------------
(***************************************************************************)
(* The lifecycle thread: uninstall(), called by disable() and unload().    *)
(***************************************************************************)
UninstallBegin ==
  /\ control \in Rest
  /\ mStopRequested' = TRUE
  /\ control' = "join"
  /\ UNCHANGED <<memory, mTargetValidated, mOriginalProtection, sActive,
                 mPatchInstalled, writing, counting, worker, attempt, game,
                 bounds>>

\* Mutant: the slot is restored at once, whatever the worker is doing to it.
JoinSkipped ==
  /\ control = "join"
  /\ worker' = worker
  /\ attempt' = 0
  /\ control' = "restore"
  /\ UNCHANGED <<memory, hook, writing, counting, game, bounds>>

Join ==
  /\ control = "join"
  /\ worker \in {"notJoinable", "done"}
  /\ worker' = "notJoinable"
  /\ attempt' = 0
  /\ control' = IF mPatchInstalled THEN "restore" ELSE "drain"
  /\ UNCHANGED <<memory, hook, writing, counting, game, bounds>>

\* One round of restoreSlot's loop reads the slot ...
RestoreRead ==
  /\ control = "restore"
  /\ IF slot = "trampoline"
     THEN control' = "restoring" /\ BeginWrite("restore")
     ELSE control' = "drain" /\ UNCHANGED writing
  /\ mPatchInstalled' = (mPatchInstalled /\ slot # "original")
  /\ UNCHANGED <<memory, mTargetValidated, mOriginalProtection, sActive,
                 mStopRequested, counting, worker, attempt, game, bounds>>

\* ... writes the original, and reads it back ...
RestoreDone ==
  /\ control = "restoring"
  /\ call["restore"] = "ok"
  /\ slot = "original"
  /\ mPatchInstalled' = FALSE
  /\ control' = "drain"
  /\ EndWrite("restore")
  /\ UNCHANGED <<memory, mTargetValidated, mOriginalProtection, sActive,
                 mStopRequested, counting, worker, attempt, game, bounds>>

\* ... and tries again, three times in all.
RestoreRetry ==
  /\ control = "restoring"
  /\ \/ call["restore"] = "failed"
     \/ call["restore"] = "ok" /\ slot # "original"
  /\ attempt' = attempt + 1
  /\ control' = IF attempt + 1 < 3 THEN "restore" ELSE "drain"
  /\ EndWrite("restore")
  /\ UNCHANGED <<memory, hook, counting, worker, game, bounds>>

\* The wait ends when the counter is zero, or after 1000 sleeps of 1 ms.
Drained ==
  /\ control = "drain"
  /\ mCallbacksInFlight = 0
  /\ control' = "finish"
  /\ UNCHANGED <<memory, hook, writing, counting, worker, attempt, game,
                 bounds>>

\* Mutant: the wait has no limit.
DrainForever ==
  /\ control = "drain"
  /\ mCallbacksInFlight # 0
  /\ UNCHANGED vars

DrainTimeout ==
  /\ control = "drain"
  /\ mCallbacksInFlight # 0
  /\ control' = "finish"
  /\ UNCHANGED <<memory, hook, writing, counting, worker, attempt, game,
                 bounds>>

\* A patch still in place keeps the registration and makes safeToUnload false.
Finish ==
  /\ control = "finish"
  /\ control' = IF mPatchInstalled THEN "refused" ELSE "released"
  /\ sActive' = (sActive /\ mPatchInstalled)
  /\ UNCHANGED <<memory, mTargetValidated, mOriginalProtection,
                 mPatchInstalled, mStopRequested, writing, counting, worker,
                 attempt, game, bounds>>

\* unload() returned true and the loader unmaps the module.
Unload ==
  /\ control = "released"
  /\ control' = "unloaded"
  /\ UNCHANGED <<memory, hook, writing, counting, worker, attempt, game,
                 bounds>>

UninstallSteps ==
  \/ Join \/ RestoreRead \/ RestoreDone \/ RestoreRetry
  \/ WriteSlotPointer("restore")
  \/ Drained \/ DrainTimeout \/ Finish

Control ==
  \/ InstallReset \/ ValidateFails \/ Validate \/ Register \/ WorkerStartFails
  \/ UninstallBegin
  \/ UninstallSteps
  \/ Unload
-----------------------------------------------------------------------------
(***************************************************************************)
(* Game threads: the trampoline, recordActive and record.                  *)
(***************************************************************************)
GameStep(t, from, to) ==
  /\ game[t] = from
  /\ game' = [game EXCEPT ![t] = to]
  /\ UNCHANGED <<memory, hook, writing, worker, control, attempt, bounds>>

Enter(t) ==
  /\ slot = "trampoline"
  /\ GameStep(t, "outside", "entered")
  /\ UNCHANGED counting

LoadActive(t) ==
  /\ control # "unloaded"
  /\ GameStep(t, "entered", IF sActive THEN "loaded" ELSE "leaving")
  /\ UNCHANGED counting

\* Mutant: the callback does not count itself.
BeginRecordUncounted(t) ==
  /\ control # "unloaded"
  /\ GameStep(t, "loaded", "counted")
  /\ UNCHANGED counting

BeginRecord(t) ==
  /\ control # "unloaded"
  /\ GameStep(t, "loaded", "counted")
  /\ mCallbacksInFlight' = (mCallbacksInFlight + 1) % CounterMod
  /\ UNCHANGED lost

\* Mutant: the decrement does not wrap, as a signed counter would not.
EndRecordSigned(t) ==
  /\ control # "unloaded"
  /\ GameStep(t, "counted", "leaving")
  /\ mCallbacksInFlight' = mCallbacksInFlight - 1
  /\ UNCHANGED lost

\* The event is published between the two counter updates.
EndRecord(t) ==
  /\ control # "unloaded"
  /\ GameStep(t, "counted", "leaving")
  /\ mCallbacksInFlight' = (mCallbacksInFlight + CounterMod - 1) % CounterMod
  /\ UNCHANGED lost

\* The trampoline restores the registers and branches to the original.
BranchToOriginal(t) ==
  /\ control # "unloaded"
  /\ GameStep(t, "leaving", "outside")
  /\ UNCHANGED counting

Game(t) ==
  \/ Enter(t) \/ LoadActive(t) \/ BeginRecord(t) \/ EndRecord(t)
  \/ BranchToOriginal(t)

\* The "changed by another writer" branches: code outside the module replaces
\* the pointer.
ForeignWrite ==
  /\ foreign < MaxForeign
  /\ foreign' = foreign + 1
  /\ slot # "other"
  /\ slot' = "other"
  /\ UNCHANGED <<page, hook, writing, counting, worker, control, attempt,
                 game, faults, installs>>

Next ==
  \/ Worker
  \/ Control
  \/ \E t \in Threads : Game(t)
  \/ ForeignWrite

Spec == Init /\ [][Next]_vars

\* The worker and a running uninstall() are scheduled.  The gate opens only if
\* Minecraft keeps ticking, a game thread may stay in a listener for ever, and
\* nobody has to call the lifecycle: none of these is fair.
WorkerScheduled == Worker /\ (worker = "gate" => mStopRequested)
Fairness == WF_vars(WorkerScheduled) /\ WF_vars(UninstallSteps)
FairSpec == Spec /\ Fairness
-----------------------------------------------------------------------------
TypeOK ==
  /\ slot \in Pointers
  /\ page \in Protections
  /\ mOriginalProtection \in Protections
  /\ mTargetValidated \in BOOLEAN
  /\ sActive \in BOOLEAN
  /\ mPatchInstalled \in BOOLEAN
  /\ mStopRequested \in BOOLEAN
  /\ mCallbacksInFlight \in 0 .. CounterMod - 1
  /\ call \in [CallSites -> CallSteps]
  /\ errno \in [CallSites -> Errnos]
  /\ worker \in WorkerSteps
  /\ control \in ControlSteps
  /\ attempt \in 0 .. 3
  /\ game \in [Threads -> GameSteps]
  /\ lost \in 0 .. Cardinality(Threads)
  /\ faults \in 0 .. MaxFaults
  /\ foreign \in 0 .. MaxForeign
  /\ installs \in 0 .. MaxInstalls

\* The worker is inside patchSlot, between its first write and its return.
Patching == worker \in {"install", "rollback"}

\* The slot holds the trampoline only while a patch is being made, while
\* mPatchInstalled says so, or after the one double failure the code cannot
\* undo: the patch was stored, the page could not be protected again, and the
\* rollback could not make it writable.  That failure is in the status file
\* (errno pair) until the next install() resets it and refuses to validate.
TrampolineAccounted ==
  slot = "trampoline" =>
    \/ Patching
    \/ mPatchInstalled
    \/ errno["install"] = "reprotect" /\ errno["rollback"] = "unprotect"
    \/ ~mTargetValidated

\* One failing mprotect is always recovered from: a trampoline nobody accounts
\* for costs at least two failures.
OneFaultIsHandled ==
  slot = "trampoline" /\ ~Patching /\ ~mPatchInstalled => faults >= 2

\* The three places that write the slot never overlap, and a store never hits
\* a page that is not writable: one thread's restored protection cannot catch
\* another thread between its mprotect and its store.
ExclusiveSlotWrite ==
  /\ \A s1, s2 \in CallSites :
       call[s1] # "none" /\ call[s2] # "none" => s1 = s2
  /\ \A s \in CallSites : call[s] = "store" => page = "writable"

\* Once uninstall() has joined the worker no patch can appear behind its back:
\* until the next install() arms one, there is no worker.  Both invariants
\* about the slot rest on it.
NoLateWorker ==
  control \in {"restore", "restoring", "drain", "finish", "refused",
               "released", "unloaded"} =>
    worker = "notJoinable"

\* The counter uninstall() waits for is the number of threads inside record(),
\* unless install() zeroed it while one of them was still there.
CounterTracksCallbacks ==
  lost = 0 => mCallbacksInFlight = Cardinality(Counted)

\* A page left with another protection than the recorded one is reported: the
\* last call that wrote the slot keeps its errno.
ProtectionAccounted ==
  page # mOriginalProtection =>
    \/ \E s \in CallSites : call[s] \in {"store", "reprotect"}
    \/ \E s \in CallSites : errno[s] = "reprotect"
    \/ ~mTargetValidated

\* A registered instance has a worker, a patch, or an uninstall() that is about
\* to clear it: the registration conflict of install() cannot happen.
RegistrationOwned ==
  sActive => \/ worker # "notJoinable"
             \/ mPatchInstalled
             \/ control \in {"restore", "restoring", "drain", "finish"}

\* What the slot writers and the lifecycle leave behind them is known to
\* somebody: a page with another protection to the status file, a registration
\* to a worker, a patch or an uninstall().
RestAccounted == ProtectionAccounted /\ RegistrationOwned

\* uninstall() returns whatever the game threads do.
UninstallReturns == control = "join" ~> control \in Rest

\* The claim of the unload path: a module that is unmapped left no pointer to
\* its trampoline in the vtable.
UnloadLeavesNoTrampoline == control = "unloaded" => slot # "trampoline"
=============================================================================
