-------------------------- MODULE DiscoveryProofs ---------------------------
(***************************************************************************)
(* Proofs about the parts that look for the game's methods.  The three     *)
(* vtable probes, for any bounds, threads, delays and faults, account for  *)
(* their trampoline, their registration and their hook; the slot is        *)
(* written only when the gate was right to open; and the counters of the   *)
(* calls are what the calls make them.  The static scan, for any game,     *)
(* stops soon, and what it records and counts is there.                    *)
(***************************************************************************)
EXTENDS Discovery, FiniteSetTheorems, SequenceTheorems, WellFoundedInduction, TLAPS

Fields ==
  /\ DOMAIN probe = {"registered", "stop", "patched", "validated"}
  /\ DOMAIN control = {"at", "attempt"}
  /\ DOMAIN menu = {"live", "original", "state", "observed"}
  /\ DOMAIN interval = {"open", "state", "stable", "slices"}
  /\ DOMAIN bound = {"calls", "samples", "faults", "foreign", "installs"}
  /\ bound.faults \in Nat
  /\ worker \in {"none", "gate", "open", "sampling", "exited"}
  /\ control.at \in {"out", "armed", "join", "restore", "unhook", "drain"}

\* Who is at work, and what the members say then.
Standing ==
  /\ worker # "none" => control.at \in {"out", "join"} /\ probe.registered
  /\ worker \in {"gate", "open"} => ~probe.patched
  /\ interval.open => worker = "sampling"
  /\ control.at = "armed" => probe.registered /\ ~probe.patched
  /\ control.at \in {"join", "restore", "unhook", "drain"} => probe.registered
  /\ control.at = "drain" => ~menu.live

ProbeInv == Fields /\ Standing /\ ProbeIsAccounted

\* A step that touches none of it.
Untouched ==
  /\ UNCHANGED <<worker, slot, probe, profile>>
  /\ control' = control /\ menu'.live = menu.live /\ interval'.open = interval.open
  /\ DOMAIN menu' = DOMAIN menu /\ DOMAIN interval' = DOMAIN interval
  /\ bound'.faults = bound.faults /\ DOMAIN bound' = DOMAIN bound

LEMMA InitialProbe == Init => ProbeInv
<1> SUFFICES ASSUME Init PROVE ProbeInv
  OBVIOUS
<1>1. Fields /\ Standing
  BY DEF Init, Fields, Standing, NoMenu, NoInterval
<1>2. ProbeIsAccounted
  BY DEF Init, ProbeIsAccounted, NoMenu, None, safeToUnload
<1>3. QED
  BY <1>1, <1>2 DEF ProbeInv

LEMMA UntouchedKeepsProbe == ProbeInv /\ Untouched => ProbeInv'
BY DEF ProbeInv, Fields, Standing, ProbeIsAccounted, Untouched, safeToUnload

LEMMA InstallingKeepsProbe ==
  ASSUME ProbeInv, Installing
  PROVE  ProbeInv'
<1> USE DEF ProbeInv, Fields, Standing, ProbeIsAccounted, safeToUnload
<1>1. ASSUME NEW checks, NEW keeps, Arm(checks, keeps) PROVE ProbeInv'
  <2>1. /\ control.at = "out" /\ worker = "none" /\ ~probe.patched /\ ~probe.registered
        /\ ~menu.live /\ ~interval.open
        /\ UNCHANGED <<worker, slot, interval>>
        /\ menu' = NoMenu /\ bound'.faults = bound.faults
        /\ DOMAIN bound' = DOMAIN bound
    BY <1>1 DEF Arm
  <2>2. PICK n \in Outcomes(checks) :
          LET valid == Valid(checks, n)
              ok == valid /\ ~probe.registered
          IN
          /\ probe' = [registered |-> probe.registered \/ ok, stop |-> FALSE,
                       patched |-> FALSE,
                       validated |-> valid \/ (keeps /\ probe.validated)]
          /\ profile' = CASE ok -> profile [] valid /\ ~ok -> "registration_failed"
                          [] OTHER -> "validation_failed"
          /\ control' = [control EXCEPT !.at = IF ok THEN "armed" ELSE "out"]
    BY <1>1 DEF Arm
  <2>3. /\ DOMAIN probe' = DOMAIN probe /\ DOMAIN control' = DOMAIN control
        /\ ~probe'.patched
        /\ \/ probe'.registered /\ control'.at = "armed"
           \/ /\ ~probe'.registered /\ control'.at = "out"
              /\ profile' \in {"registration_failed", "validation_failed"}
    <3>1. CASE Valid(checks, n)
      BY <2>1, <2>2, <3>1
    <3>2. CASE ~Valid(checks, n)
      BY <2>1, <2>2, <3>2
    <3>3. QED
      BY <3>1, <3>2
  <2>4. DOMAIN menu' = DOMAIN menu /\ ~menu'.live
    BY <2>1 DEF NoMenu
  <2>5. QED
    BY <2>1, <2>3, <2>4
<1>2. CASE SubTickInstall \/ SlotInstall \/ V3Install
  BY <1>1, <1>2 DEF SubTickInstall, SlotInstall, V3Install
<1>3. CASE InstallAgain
  BY <1>3 DEF InstallAgain
<1>4. CASE HookMenu
  BY <1>4 DEF HookMenu
<1>5. CASE StoreMenuOriginal
  BY <1>5 DEF StoreMenuOriginal
<1>6. CASE StartWorker
  BY <1>6 DEF StartWorker
<1>7. QED
  BY <1>2, <1>3, <1>4, <1>5, <1>6 DEF Installing

LEMMA WriteOutcomes ==
  ASSUME NEW from, NEW value, NEW w \in Writes(from, value)
  PROVE  /\ w.faults \in 0 .. 1 /\ w.ok \in BOOLEAN
         /\ w.ok => w.slot = value
         /\ w.slot \in {from, value}
         /\ w.slot = from => w.faults = 1 \/ from = value
<1>1. \/ w = [slot |-> value, ok |-> TRUE, faults |-> 0]
      \/ w = [slot |-> from, ok |-> FALSE, faults |-> 1]
      \/ w = [slot |-> value, ok |-> FALSE, faults |-> 1]
  BY Zenon DEF Writes
<1>2. CASE w = [slot |-> value, ok |-> TRUE, faults |-> 0]
  BY <1>2
<1>3. CASE w = [slot |-> from, ok |-> FALSE, faults |-> 1]
  BY <1>3
<1>4. CASE w = [slot |-> value, ok |-> FALSE, faults |-> 1]
  BY <1>4
<1>5. QED
  BY <1>1, <1>2, <1>3, <1>4

\* A failed write and its failed rollback are two faults.
LEMMA PatchOutcomes ==
  ASSUME NEW w \in Patches
  PROVE  /\ w.faults \in Nat /\ w.ok \in BOOLEAN
         /\ w.slot = "trampoline" => w.ok \/ w.faults >= 2
<1>1. CASE w \in Writes("original", "trampoline") /\ (w.slot = "original" \/ w.ok)
  BY <1>1, WriteOutcomes
<1>2. CASE \E b \in Writes("trampoline", "original") :
             w = [slot |-> b.slot, ok |-> FALSE, faults |-> b.faults + 1]
  <2>1. PICK b \in Writes("trampoline", "original") :
          w = [slot |-> b.slot, ok |-> FALSE, faults |-> b.faults + 1]
    BY <1>2
  <2>2. b.faults \in 0 .. 1 /\ (b.slot = "trampoline" => b.faults = 1)
    BY WriteOutcomes
  <2>3. w.slot = b.slot /\ w.ok = FALSE /\ w.faults = b.faults + 1
    BY <2>1
  <2>4. w.faults \in Nat /\ (b.slot = "trampoline" => w.faults >= 2)
    BY <2>2, <2>3
  <2>5. w.ok \in BOOLEAN
    BY <2>3, Zenon
  <2>6. QED
    BY <2>3, <2>4, <2>5, Zenon
<1>3. QED
  BY <1>1, <1>2, Zenon DEF Patches

LEMMA RestoreOutcomes ==
  ASSUME NEW w \in Writes("trampoline", "original")
  PROVE  w.faults \in Nat /\ w.ok \in BOOLEAN /\ (w.ok => w.slot # "trampoline")
BY WriteOutcomes

LEMMA WorkingKeepsProbe ==
  ASSUME ProbeInv, Waiting \/ Patching \/ Sampling
  PROVE  ProbeInv'
<1> USE DEF ProbeInv, Fields, Standing, ProbeIsAccounted, safeToUnload
<1>1. CASE Waiting
  BY <1>1 DEF Waiting, SubTickPoll, SlotPoll, V3Poll, DelayedPoll, Polls, StopWaiting
<1>2. CASE Patching
  <2>1. PatchSlot
    BY <1>2 DEF Patching, SubTickPatch, SlotPatch, V3Patch
  <2>2. CASE slot # "original"
    BY <2>1, <2>2 DEF PatchSlot
  <2>3. CASE slot = "original"
    <3>1. PICK w \in Patches :
            /\ bound' = [bound EXCEPT !.faults = @ + w.faults]
            /\ slot' = w.slot
            /\ probe' = [probe EXCEPT !.patched = w.ok]
            /\ worker' = IF w.ok THEN "sampling" ELSE "exited"
            /\ profile' = IF w.ok THEN "sampling" ELSE "patch_failed"
      BY <2>1, <2>3 DEF PatchSlot
    <3>2. /\ worker = "open" /\ UNCHANGED <<interval, menu, control>>
      BY <2>1 DEF PatchSlot
    <3>3. /\ w.faults \in Nat /\ w.ok \in BOOLEAN
          /\ w.slot = "trampoline" => w.ok \/ w.faults >= 2
      BY PatchOutcomes
    <3>4. CASE w.ok
      BY <3>1, <3>2, <3>3, <3>4
    <3>5. CASE ~w.ok
      BY <3>1, <3>2, <3>3, <3>5
    <3>6. QED
      BY <3>4, <3>5
  <2>4. QED
    BY <2>2, <2>3
<1>3. CASE Sampling
  <2>1. CASE SubTickSample \/ V3Sample
    BY <2>1 DEF SubTickSample, V3Sample, Sample, Report
  <2>2. CASE BeginInterval
    BY <2>2 DEF BeginInterval
  <2>3. CASE SleepSlice
    <3>1. interval'.open = interval.open /\ DOMAIN interval' = DOMAIN interval
      BY <2>3 DEF SleepSlice
    <3>2. Untouched
      BY <2>3, <3>1 DEF SleepSlice, Untouched
    <3>3. QED
      BY <3>2, UntouchedKeepsProbe
  <2>4. CASE EndInterval
    BY <2>4 DEF EndInterval, Report, NoInterval
  <2>5. CASE StopSampling
    BY <2>5 DEF StopSampling, NoInterval
  <2>6. QED
    BY <1>3, <2>1, <2>2, <2>3, <2>4, <2>5 DEF Sampling
<1>4. QED
  BY <1>1, <1>2, <1>3

\* The registration outlives a trampoline that could not be taken back.
LEMMA UninstallingKeepsProbe ==
  ASSUME ProbeInv, Uninstalling
  PROVE  ProbeInv'
<1> USE DEF ProbeInv, Fields, Standing, ProbeIsAccounted, safeToUnload
<1>1. CASE RequestStop
  BY <1>1 DEF RequestStop
<1>2. CASE Join
  BY <1>2 DEF Join
<1>3. CASE Unhook
  BY <1>3 DEF Unhook
<1>4. CASE SubTickRestore \/ SlotRestore \/ V3Restore
  <2>1. RestoreSlot
    BY <1>4 DEF SubTickRestore, SlotRestore, V3Restore
  <2>2. CASE slot = "original" \/ slot = "other"
    BY <2>1, <2>2 DEF RestoreSlot
  <2>3. CASE slot = "trampoline"
    <3>1. PICK w \in Writes("trampoline", "original") :
            /\ bound' = [bound EXCEPT !.faults = @ + w.faults]
            /\ slot' = w.slot
            /\ probe' = [probe EXCEPT !.patched = ~w.ok]
            /\ control' = IF w.ok \/ control.attempt + 1 = Attempts
                          THEN [at |-> "unhook", attempt |-> 0]
                          ELSE [control EXCEPT !.attempt = @ + 1]
      BY <2>1, <2>3 DEF RestoreSlot
    <3>2. control.at = "restore" /\ UNCHANGED <<worker, interval, menu, profile>>
      BY <2>1 DEF RestoreSlot
    <3>3. w.faults \in Nat /\ w.ok \in BOOLEAN /\ (w.ok => w.slot # "trampoline")
      BY RestoreOutcomes
    <3>4. control'.at \in {"unhook", "restore"} /\ DOMAIN control' = DOMAIN control
      BY <3>1, <3>2
    <3>5. CASE w.ok
      BY <3>1, <3>2, <3>3, <3>4, <3>5
    <3>6. CASE ~w.ok
      <4>1. /\ DOMAIN probe' = DOMAIN probe /\ probe'.registered = probe.registered
            /\ probe'.patched = ~w.ok
        BY <3>1
      <4>2. probe'.patched
        BY <3>6, <4>1, Zenon
      <4>3. bound'.faults \in Nat /\ DOMAIN bound' = DOMAIN bound
        BY <3>1, <3>3
      <4>4. QED
        BY <3>2, <3>4, <4>1, <4>2, <4>3
    <3>7. QED
      BY <3>5, <3>6
  <2>4. QED
    BY <2>1, <2>2, <2>3 DEF RestoreSlot
<1>5. CASE SubTickFinish \/ SlotFinish \/ V3Finish
  <2>1. PICK drained \in BOOLEAN : Finish(drained)
    BY <1>5 DEF SubTickFinish, SlotFinish, V3Finish
  <2>2. CASE probe.patched
    BY <2>1, <2>2 DEF Finish
  <2>3. CASE ~probe.patched
    BY <2>1, <2>3 DEF Finish
  <2>4. QED
    BY <2>2, <2>3
<1>6. QED
  BY <1>1, <1>2, <1>3, <1>4, <1>5 DEF Uninstalling

LEMMA GameKeepsProbe ==
  ASSUME ProbeInv, NEW t \in Threads, Recording(t) \/ Asking(t)
  PROVE  ProbeInv'
<1>1. Untouched
  BY DEF Recording, SubTickTrampoline, SlotTrampoline, V3Trampoline, CallSlot,
         recordActive, BeginRecord, SubTickFirst, SubTickLast, SlotClassify, RecordThread,
         EndRecord, Asking, EnterMenu, BeginMenu, LoadMenuOriginal, MenuAnswers,
         MenuObserved, EndMenu,
         Untouched, ProbeInv, Fields
<1>2. QED
  BY <1>1, UntouchedKeepsProbe

LEMMA ProbeInductive == ProbeInv /\ [Next]_vars => ProbeInv'
<1> SUFFICES ASSUME ProbeInv, [Next]_vars PROVE ProbeInv'
  OBVIOUS
<1>1. CASE Pass \/ Beat
  <2>1. Untouched
    BY <1>1 DEF Pass, Beat, Untouched
  <2>2. QED
    BY <2>1, UntouchedKeepsProbe
<1>2. CASE ForeignWrite
  BY <1>2 DEF ForeignWrite, ProbeInv, Fields, Standing, ProbeIsAccounted, safeToUnload
<1>3. CASE UNCHANGED vars
  <2>1. Untouched
    BY <1>3 DEF vars, Untouched
  <2>2. QED
    BY <2>1, UntouchedKeepsProbe
<1>4. QED
  BY <1>1, <1>2, <1>3, InstallingKeepsProbe, WorkingKeepsProbe, UninstallingKeepsProbe,
     GameKeepsProbe DEF Next

\* ProbeSafety: a probe's trampoline is in the vtable only while the probe says so
\* or after a write and its rollback both failed, and a probe that is down has no
\* hook, no thread and no registration without a patch; from install, patchSlot,
\* restoreSlot and uninstall of the three probes.
THEOREM ProbeSafety == Spec => []ProbeIsAccounted
<1>1. ProbeInv => ProbeIsAccounted
  BY DEF ProbeInv
<1>2. QED
  BY <1>1, InitialProbe, ProbeInductive, PTL DEF Spec

-----------------------------------------------------------------------------
(***************************************************************************)
(* The gate.                                                               *)
(***************************************************************************)
\* The last instant at which the worker looked.
LastPoll == IF clock.polled THEN clock.now ELSE clock.now - 1

\* There was a beat not long before t.
HeardBefore(t) == \E b \in clock.beats : b <= t /\ t - b <= MaxStall + 1

\* What SubTick's worker knows: the beats it has seen, and since when they have
\* not stalled.
BeatsSeen ==
  \E seen \in SUBSET clock.beats :
    /\ Cardinality(seen) = gate.beats
    /\ \A b \in clock.beats \ seen : b >= LastPoll

SteadySince(g) ==
  g.start # -1 =>
    /\ g.start \in 0 .. g.advance /\ g.advance \in 0 .. LastPoll
    /\ LastPoll - g.advance <= MaxStall
    /\ \A t \in g.start .. g.advance : HeardBefore(t)
    /\ \E b \in clock.beats : g.advance - 1 <= b /\ b <= g.advance

GateTypes ==
  /\ DOMAIN clock = {"now", "beats", "polled"} /\ clock.now \in Nat
  /\ clock.beats \subseteq 0 .. clock.now
  /\ DOMAIN gate = {"beats", "advance", "start", "first"}
  /\ gate.beats \in Nat /\ gate.advance \in Nat /\ gate.start \in Nat \cup {-1}
  /\ kind \in {"subtick", "slot", "v3"}

\* Why an open gate is open.
OpenGate ==
  worker = "open" =>
    /\ kind = "subtick" => HeardAllAlong
    /\ kind = "v3" => clock.beats # {} /\ clock.now >= Delay
    /\ kind = "slot" => menu.observed /\ clock.now >= Delay

GateInv ==
  /\ GateTypes /\ OpenGate
  /\ kind = "subtick" /\ worker = "gate" => BeatsSeen /\ SteadySince(gate)
  /\ control.at = "armed" => clock = NoClock /\ gate = NoGate
  /\ control.at = "restore" => probe.patched

LEMMA InitialGate == Init => GateInv
<1> SUFFICES ASSUME Init PROVE GateInv
  OBVIOUS
<1>1. kind \in {"subtick", "slot", "v3"}
  BY ProbeConstants DEF Init
<1>2. QED
  BY <1>1 DEF Init, GateInv, GateTypes, OpenGate, NoClock, NoGate

LEMMA NoClockTypes ==
  /\ DOMAIN NoClock = {"now", "beats", "polled"} /\ NoClock.now = 0 /\ NoClock.beats = {}
  /\ NoClock.polled = FALSE
  /\ DOMAIN NoGate = {"beats", "advance", "start", "first"}
  /\ NoGate.beats = 0 /\ NoGate.advance = 0 /\ NoGate.start = -1
BY DEF NoClock, NoGate

\* A step that leaves the gate and its clock alone.
LEMMA GateUntouched ==
  ASSUME ProbeInv, GateInv, UNCHANGED <<kind, clock, gate>>,
         worker' = worker \/ worker' \notin {"gate", "open"},
         worker = "open" /\ menu.observed => menu'.observed,
         control'.at = "armed" => control.at = "armed",
         control'.at = "restore" =>
           \/ control.at = "restore" /\ (probe.patched => probe'.patched)
           \/ probe'.patched
  PROVE  GateInv'
<1>1. GateTypes'
  BY DEF GateInv, GateTypes
<1>2. OpenGate'
  BY DEF GateInv, OpenGate, HeardAllAlong
<1>3. BeatsSeen' <=> BeatsSeen
  BY DEF BeatsSeen, LastPoll
<1>4. SteadySince(gate)' <=> SteadySince(gate)
  BY DEF SteadySince, LastPoll, HeardBefore
<1>5. QED
  BY <1>1, <1>2, <1>3, <1>4 DEF GateInv

\* A step that starts over.
LEMMA GateReset ==
  ASSUME GateInv, kind' = kind, clock' = NoClock, gate' = NoGate, worker' # "open",
         control'.at = "restore" => probe'.patched
  PROVE  GateInv'
<1>1. GateTypes'
  BY NoClockTypes DEF GateInv, GateTypes
<1>2. BeatsSeen'
  <2>1. clock'.beats = {} /\ gate'.beats = 0
    BY NoClockTypes
  <2>2. QED
    BY <2>1, FS_EmptySet DEF BeatsSeen
<1>3. SteadySince(gate)'
  BY NoClockTypes DEF SteadySince
<1>4. QED
  BY <1>1, <1>2, <1>3 DEF GateInv, OpenGate

LEMMA PassKeepsGate ==
  ASSUME ProbeInv, GateInv, Pass
  PROVE  GateInv'
<1>1. /\ worker = "gate" /\ clock.polled
      /\ clock' = [clock EXCEPT !.now = @ + 1, !.polled = FALSE]
      /\ UNCHANGED <<kind, gate, worker, probe, menu, control>>
  BY DEF Pass
<1>2. /\ DOMAIN clock' = {"now", "beats", "polled"} /\ clock'.now = clock.now + 1
      /\ clock'.beats = clock.beats /\ clock'.polled = FALSE
  BY <1>1 DEF GateInv, GateTypes
<1>3. LastPoll' = LastPoll
  BY <1>1, <1>2 DEF LastPoll, GateInv, GateTypes
<1>4. GateTypes'
  BY <1>1, <1>2 DEF GateInv, GateTypes
<1>5. BeatsSeen => BeatsSeen'
  BY <1>1, <1>2, <1>3 DEF BeatsSeen
<1>6. SteadySince(gate) => SteadySince(gate)'
  BY <1>1, <1>2, <1>3 DEF SteadySince, HeardBefore
<1>7. QED
  BY <1>1, <1>4, <1>5, <1>6 DEF GateInv, OpenGate, ProbeInv, Standing

LEMMA BeatKeepsGate ==
  ASSUME ProbeInv, GateInv, Beat
  PROVE  GateInv'
<1>1. /\ worker = "gate" /\ clock' = [clock EXCEPT !.beats = @ \cup {clock.now}]
      /\ UNCHANGED <<kind, gate, worker, probe, menu, control>>
  BY DEF Beat
<1>2. /\ DOMAIN clock' = {"now", "beats", "polled"} /\ clock'.now = clock.now
      /\ clock'.beats = clock.beats \cup {clock.now} /\ clock'.polled = clock.polled
  BY <1>1 DEF GateInv, GateTypes
<1>3. LastPoll' = LastPoll /\ LastPoll <= clock.now
  BY <1>2 DEF LastPoll, GateInv, GateTypes
<1>4. GateTypes'
  BY <1>1, <1>2 DEF GateInv, GateTypes
<1>5. ASSUME BeatsSeen PROVE BeatsSeen'
  <2>1. PICK seen \in SUBSET clock.beats :
          Cardinality(seen) = gate.beats /\ \A b \in clock.beats \ seen : b >= LastPoll
    BY <1>5 DEF BeatsSeen
  <2>2. seen \in SUBSET clock'.beats /\ \A b \in clock'.beats \ seen : b >= LastPoll
    BY <1>2, <1>3, <2>1
  <2>3. QED
    BY <1>1, <1>3, <2>1, <2>2 DEF BeatsSeen
<1>6. SteadySince(gate) => SteadySince(gate)'
  BY <1>1, <1>2, <1>3 DEF SteadySince, HeardBefore
<1>7. QED
  BY <1>1, <1>4, <1>5, <1>6 DEF GateInv, OpenGate, ProbeInv, Standing

LEMMA BeatsFinite ==
  ASSUME GateTypes
  PROVE  IsFiniteSet(clock.beats) /\ Heartbeats \in Nat
<1>1. clock.beats \in SUBSET (0 .. clock.now) /\ IsFiniteSet(0 .. clock.now)
  BY FS_Interval DEF GateTypes
<1>2. IsFiniteSet(clock.beats)
  BY <1>1, FS_Subset
<1>3. QED
  BY <1>2, FS_CardinalityType DEF Heartbeats

\* What the worker has counted is all there is, or the newest beat is as new as
\* its last look.
LEMMA NewBeat ==
  ASSUME GateTypes, BeatsSeen
  PROVE  /\ Heartbeats <= gate.beats => Heartbeats = gate.beats
         /\ Heartbeats > gate.beats => \E b \in clock.beats : b >= LastPoll
<1>1. PICK seen \in SUBSET clock.beats :
        Cardinality(seen) = gate.beats /\ \A b \in clock.beats \ seen : b >= LastPoll
  BY DEF BeatsSeen
<1>2. IsFiniteSet(clock.beats) /\ Heartbeats \in Nat
  BY BeatsFinite
<1>3. gate.beats <= Heartbeats
  BY <1>1, <1>2, FS_Subset DEF Heartbeats
<1>4. CASE seen = clock.beats
  BY <1>1, <1>2, <1>4 DEF Heartbeats
<1>5. CASE seen # clock.beats
  BY <1>1, <1>2, <1>3, <1>5 DEF GateTypes
<1>6. QED
  BY <1>4, <1>5

\* A look at the clock.  The stall that is allowed is counted from the last look,
\* a beat may be as old as the look before it.
LEMMA LooksAhead ==
  ASSUME GateInv, kind = "subtick", worker = "gate", ~clock.polled,
         clock' = [clock EXCEPT !.polled = TRUE], NEW g, g = Observed(gate)
  PROVE  /\ DOMAIN g = {"beats", "advance", "start", "first"}
         /\ g.beats = Heartbeats /\ g.advance \in Nat /\ g.start \in Nat \cup {-1}
         /\ LastPoll' = clock.now /\ clock'.beats = clock.beats
         /\ clock'.now = clock.now /\ DOMAIN clock' = {"now", "beats", "polled"}
         /\ ~Stalled(g) => SteadySince(g)'
<1>1. GateTypes /\ BeatsSeen /\ SteadySince(gate)
  BY DEF GateInv
<1>2. /\ DOMAIN clock' = {"now", "beats", "polled"} /\ clock'.now = clock.now
      /\ clock'.beats = clock.beats /\ clock'.polled = TRUE
      /\ LastPoll = clock.now - 1 /\ LastPoll' = clock.now
      /\ \A t : HeardBefore(t)' <=> HeardBefore(t)
  BY <1>1 DEF GateTypes, LastPoll, HeardBefore
<1>3. MaxStall \in Nat
  BY ProbeConstants
<1>4. Heartbeats \in Nat
  BY <1>1, BeatsFinite
<1>5. CASE Heartbeats > gate.beats
  <2>1. /\ DOMAIN g = {"beats", "advance", "start", "first"} /\ g.beats = Heartbeats
        /\ g.advance = clock.now /\ g.start = IF gate.start = -1 THEN clock.now ELSE gate.start
    BY <1>5 DEF Observed
  <2>2. PICK new \in clock.beats : new >= clock.now - 1
    BY <1>1, <1>2, <1>5, NewBeat
  <2>3. new <= clock.now /\ new \in Nat /\ clock.now \in Nat
    BY <1>1 DEF GateTypes
  <2>4. HeardBefore(clock.now)
    BY <1>3, <2>2, <2>3 DEF HeardBefore
  <2>5. g.start \in 0 .. clock.now
    BY <1>1, <1>2, <2>1, <2>3 DEF SteadySince, GateTypes
  <2>6. ASSUME NEW t \in g.start .. clock.now PROVE HeardBefore(t)
    <3>1. CASE t = clock.now
      BY <2>4, <3>1
    <3>2. CASE t < clock.now /\ t <= gate.advance
      BY <1>1, <2>1, <2>5, <3>2 DEF SteadySince, GateTypes
    <3>3. CASE t < clock.now /\ t > gate.advance
      <4>1. gate.start # -1
        BY <2>1, <2>3, <3>3
      <4>2. PICK b \in clock.beats : gate.advance - 1 <= b /\ b <= gate.advance
        BY <1>1, <4>1 DEF SteadySince
      <4>3. /\ b \in Nat /\ gate.advance \in Nat /\ t \in Nat
            /\ clock.now - 1 - gate.advance <= MaxStall
        BY <1>1, <1>2, <2>3, <2>5, <4>1 DEF SteadySince, GateTypes
      <4>4. b <= t /\ t - b <= MaxStall + 1
        BY <1>3, <2>3, <3>3, <4>2, <4>3
      <4>5. QED
        BY <4>4 DEF HeardBefore
    <3>4. QED
      BY <1>1, <2>3, <2>5, <3>1, <3>2, <3>3 DEF GateTypes
  <2>7. SteadySince(g)'
    <3>1. (clock.now - clock.now) <= MaxStall /\ clock.now \in 0 .. clock.now
      BY <1>3, <2>3
    <3>2. QED
      BY <1>2, <2>1, <2>2, <2>3, <2>5, <2>6, <3>1 DEF SteadySince
  <2>8. QED
    BY <1>2, <2>1, <2>3, <2>5, <2>7
<1>6. CASE ~(Heartbeats > gate.beats)
  <2>1. g = gate /\ gate.beats = Heartbeats
    BY <1>1, <1>4, <1>6, NewBeat DEF Observed, GateTypes
  <2>2. ASSUME ~Stalled(g) PROVE SteadySince(g)'
    BY <1>1, <1>2, <1>3, <2>1, <2>2 DEF SteadySince, Stalled, GateTypes
  <2>3. QED
    BY <1>1, <1>2, <2>1, <2>2 DEF GateTypes
<1>7. QED
  BY <1>5, <1>6

\* The gate opens only on a heartbeat heard all along.
LEMMA SteadyIsHeard ==
  ASSUME GateTypes', NEW g, g.start \in Nat, g.advance \in Nat, SteadySince(g)',
         LastPoll' = clock'.now, clock'.now - g.start >= Stability
  PROVE  HeardAllAlong'
<1>1. /\ clock'.now \in Nat /\ MaxStall \in Nat /\ Stability \in Nat
      /\ g.start <= g.advance /\ g.advance <= clock'.now
      /\ clock'.now - g.advance <= MaxStall
      /\ \A t \in g.start .. g.advance : HeardBefore(t)'
      /\ \E b \in clock'.beats : g.advance - 1 <= b /\ b <= g.advance
  <2>1. MaxStall \in Nat /\ Stability \in Nat
    BY ProbeConstants
  <2>2. QED
    BY <2>1 DEF GateTypes, SteadySince
<1>2. g.start \in 0 .. (clock'.now - Stability)
  BY <1>1
<1>3. PICK b \in clock'.beats : g.advance - 1 <= b /\ b <= g.advance
  BY <1>1
<1>4. b \in Nat
  BY DEF GateTypes
<1>5. ASSUME NEW t \in g.start .. clock'.now PROVE HeardBefore(t)'
  <2>1. CASE t <= g.advance
    BY <1>1, <2>1
  <2>2. CASE t > g.advance
    <3>1. b <= t /\ t - b <= MaxStall + 1
      BY <1>1, <1>3, <1>4, <2>2
    <3>2. QED
      BY <3>1 DEF HeardBefore
  <2>3. QED
    BY <1>1, <2>1, <2>2
<1>6. QED
  BY <1>2, <1>5 DEF HeardAllAlong, HeardBefore

LEMMA PollKeepsGate ==
  ASSUME ProbeInv, GateInv, SubTickPoll
  PROVE  GateInv'
<1>1. PICK g : g = Observed(gate)
  OBVIOUS
<1>2. /\ kind = "subtick" /\ worker = "gate" /\ ~clock.polled
      /\ clock' = [clock EXCEPT !.polled = TRUE]
      /\ UNCHANGED <<kind, probe, menu, control>>
      /\ gate' = IF Stalled(g) THEN [g EXCEPT !.start = -1, !.first = 0] ELSE g
      /\ worker' = IF Steady(g) THEN "open" ELSE worker
  BY <1>1 DEF SubTickPoll, Polls
<1>3. /\ DOMAIN g = {"beats", "advance", "start", "first"}
      /\ g.beats = Heartbeats /\ g.advance \in Nat /\ g.start \in Nat \cup {-1}
      /\ LastPoll' = clock.now /\ clock'.beats = clock.beats
      /\ clock'.now = clock.now /\ DOMAIN clock' = {"now", "beats", "polled"}
      /\ ~Stalled(g) => SteadySince(g)'
  BY <1>1, <1>2, LooksAhead
<1>4. Heartbeats \in Nat
  BY BeatsFinite DEF GateInv
<1>5. /\ DOMAIN gate' = {"beats", "advance", "start", "first"} /\ gate'.beats = Heartbeats
      /\ gate'.advance = g.advance /\ gate'.start \in {-1, g.start}
      /\ Stalled(g) => gate'.start = -1
      /\ ~Stalled(g) => gate' = g
  BY <1>2, <1>3
<1>6. GateTypes'
  BY <1>2, <1>3, <1>4, <1>5 DEF GateInv, GateTypes
<1>7. BeatsSeen'
  BY <1>3, <1>5 DEF BeatsSeen, Heartbeats
<1>8. SteadySince(gate)'
  <2>1. CASE Stalled(g)
    BY <1>5, <2>1 DEF SteadySince
  <2>2. CASE ~Stalled(g)
    BY <1>3, <1>5, <2>2 DEF SteadySince
  <2>3. QED
    BY <2>1, <2>2
<1>9. OpenGate'
  <2>1. ASSUME worker' = "open" PROVE HeardAllAlong'
    <3>1. Steady(g)
      BY <1>2, <2>1
    <3>2. g.start \in Nat /\ ~Stalled(g) /\ clock.now - g.start >= Stability
      BY <1>3, <3>1 DEF Steady
    <3>3. HeardAllAlong'
      <4>1. GateTypes' /\ SteadySince(g)' /\ LastPoll' = clock'.now
            /\ clock'.now - g.start >= Stability
        BY <1>3, <1>6, <3>2
      <4>2. QED
        BY <1>3, <3>2, <4>1, SteadyIsHeard
    <3>4. QED
      BY <3>3
  <2>2. QED
    BY <1>2, <2>1 DEF OpenGate
<1>10. QED
  BY <1>2, <1>6, <1>7, <1>8, <1>9 DEF GateInv, ProbeInv, Standing

LEMMA DelayedPollKeepsGate ==
  ASSUME ProbeInv, GateInv, SlotPoll \/ V3Poll
  PROVE  GateInv'
<1>1. kind \in {"slot", "v3"}
  BY DEF SlotPoll, V3Poll
<1>2. /\ worker = "gate" /\ clock' = [clock EXCEPT !.polled = TRUE]
      /\ UNCHANGED <<kind, gate, probe, menu, control>>
      /\ worker' \in {"open", "exited", "gate"}
      /\ worker' = "open" =>
           /\ clock.now >= Delay
           /\ kind = "slot" => menu.observed
           /\ kind = "v3" => Heartbeats > 0
  <2>1. CASE SlotPoll
    <3> DEFINE ready == menu.observed /\ menu.state # -1
    <3>1. DelayedPoll(ready) /\ kind = "slot"
      BY <2>1 DEF SlotPoll
    <3>2. CASE ready /\ clock.now >= Delay
      BY <3>1, <3>2 DEF DelayedPoll, Polls
    <3>3. CASE ~(ready /\ clock.now >= Delay)
      BY <3>1, <3>3 DEF DelayedPoll, Polls
    <3>4. QED
      BY <3>2, <3>3
  <2>2. CASE V3Poll
    <3>1. DelayedPoll(Heartbeats > 0) /\ kind = "v3"
      BY <2>2 DEF V3Poll
    <3>2. CASE Heartbeats > 0 /\ clock.now >= Delay
      BY <3>1, <3>2 DEF DelayedPoll, Polls
    <3>3. CASE ~(Heartbeats > 0 /\ clock.now >= Delay)
      BY <3>1, <3>3 DEF DelayedPoll, Polls
    <3>4. QED
      BY <3>2, <3>3
  <2>3. QED
    BY <2>1, <2>2
<1>3. /\ clock'.now = clock.now /\ clock'.beats = clock.beats
      /\ DOMAIN clock' = {"now", "beats", "polled"}
  BY <1>2 DEF GateInv, GateTypes
<1>4. Heartbeats > 0 => clock.beats # {}
  BY FS_EmptySet DEF Heartbeats
<1>5. GateTypes'
  BY <1>2, <1>3 DEF GateInv, GateTypes
<1>6. OpenGate'
  BY <1>1, <1>2, <1>3, <1>4 DEF OpenGate
<1>7. QED
  BY <1>1, <1>2, <1>5, <1>6 DEF GateInv, ProbeInv, Standing

LEMMA GateInductive ==
  ASSUME ProbeInv, GateInv, [Next]_vars
  PROVE  GateInv'
<1>1. CASE UNCHANGED vars
  BY <1>1, GateUntouched DEF vars
<1>2. CASE Installing
  <2>1. ASSUME NEW checks, NEW keeps, Arm(checks, keeps) PROVE GateInv'
    <3>1. /\ kind' = kind /\ clock' = NoClock /\ gate' = NoGate /\ worker' = "none"
          /\ control.at = "out"
      BY <2>1 DEF Arm
    <3>2. control'.at # "restore"
      BY <2>1 DEF Arm, ProbeInv, Fields
    <3>3. QED
      BY <3>1, <3>2, GateReset
  <2>2. CASE SubTickInstall \/ SlotInstall \/ V3Install
    BY <2>1, <2>2 DEF SubTickInstall, SlotInstall, V3Install
  <2>3. CASE InstallAgain \/ StoreMenuOriginal
    BY <2>3, GateUntouched DEF InstallAgain, StoreMenuOriginal, ProbeInv, Fields
  <2>4. CASE HookMenu
    <3>1. UNCHANGED <<kind, clock, gate, worker>> /\ control'.at \in {"armed", "out"}
          /\ control.at = "armed" /\ menu'.observed = menu.observed
      BY <2>4 DEF HookMenu, ProbeInv, Fields
    <3>2. QED
      BY <3>1, GateUntouched
  <2>5. CASE StartWorker
    <3>1. /\ UNCHANGED <<kind, clock, gate>> /\ control.at = "armed" /\ control'.at = "out"
          /\ worker' \in {"gate", worker}
      BY <2>5 DEF StartWorker, ProbeInv, Fields
    <3>2. clock' = NoClock /\ gate' = NoGate /\ worker' # "open"
      BY <3>1 DEF GateInv, ProbeInv, Standing
    <3>3. QED
      BY <3>1, <3>2, GateReset
  <2>6. QED
    BY <1>2, <2>2, <2>3, <2>4, <2>5 DEF Installing
<1>3. CASE SubTickPoll
  BY <1>3, PollKeepsGate
<1>4. CASE SlotPoll \/ V3Poll
  BY <1>4, DelayedPollKeepsGate
<1>5. CASE StopWaiting
  <2>1. /\ kind' = kind /\ clock' = NoClock /\ gate' = NoGate /\ worker' = "exited"
        /\ worker # "none" /\ UNCHANGED <<control, probe>>
    BY <1>5 DEF StopWaiting
  <2>2. QED
    BY <2>1, GateReset DEF ProbeInv, Standing
<1>6. CASE Patching
  <2>1. PatchSlot
    BY <1>6 DEF Patching, SubTickPatch, SlotPatch, V3Patch
  <2>2. /\ kind' = kind /\ clock' = NoClock /\ gate' = NoGate /\ control' = control
        /\ worker = "open" /\ worker' # "open"
    BY <2>1 DEF PatchSlot
  <2>3. QED
    BY <2>2, GateReset DEF ProbeInv, Standing
<1>7. CASE Sampling
  <2>1. /\ UNCHANGED <<kind, clock, gate, probe, menu, control>>
        /\ worker' = worker \/ worker' = "exited"
    BY <1>7 DEF Sampling, SubTickSample, V3Sample, Sample, BeginInterval, SleepSlice,
       EndInterval, StopSampling
  <2>2. QED
    BY <2>1, GateUntouched
<1>8. CASE RequestStop
  <2>1. /\ UNCHANGED <<kind, clock, gate, worker, menu>> /\ control'.at = "join"
    BY <1>8 DEF RequestStop, ProbeInv, Fields
  <2>2. QED
    BY <2>1, GateUntouched
<1>9. CASE Join
  <2>1. /\ kind' = kind /\ clock' = NoClock /\ gate' = NoGate /\ worker' = "none"
        /\ probe' = probe /\ control'.at = IF probe.patched THEN "restore" ELSE "unhook"
    BY <1>9 DEF Join, ProbeInv, Fields
  <2>2. QED
    BY <2>1, GateReset
<1>10. CASE SubTickRestore \/ SlotRestore \/ V3Restore
  <2>1. RestoreSlot
    BY <1>10 DEF SubTickRestore, SlotRestore, V3Restore
  <2>2. /\ UNCHANGED <<kind, clock, gate, worker, menu>> /\ control.at = "restore"
    BY <2>1 DEF RestoreSlot
  <2>3. CASE slot = "original" \/ slot = "other"
    BY <2>1, <2>2, <2>3, GateUntouched DEF RestoreSlot
  <2>4. CASE slot = "trampoline"
    <3>1. PICK w \in Writes("trampoline", "original") :
            /\ probe' = [probe EXCEPT !.patched = ~w.ok]
            /\ control' = IF w.ok \/ control.attempt + 1 = Attempts
                          THEN [at |-> "unhook", attempt |-> 0]
                          ELSE [control EXCEPT !.attempt = @ + 1]
      BY <2>1, <2>4 DEF RestoreSlot
    <3>2. CASE w.ok
      BY <2>2, <3>1, <3>2, GateUntouched
    <3>3. CASE ~w.ok
      <4>1. probe'.patched = ~w.ok
        BY <3>1 DEF ProbeInv, Fields
      <4>2. probe'.patched
        BY <3>3, <4>1, Zenon
      <4>3. control'.at \in {"unhook", "restore"}
        BY <2>2, <3>1 DEF ProbeInv, Fields
      <4>4. QED
        BY <2>2, <4>2, <4>3, GateUntouched
    <3>4. QED
      BY <3>2, <3>3
  <2>5. QED
    BY <2>1, <2>3, <2>4 DEF RestoreSlot
<1>11. CASE Unhook
  <2>1. /\ UNCHANGED <<kind, clock, gate, worker>> /\ control'.at = "drain"
        /\ menu'.observed = menu.observed
    BY <1>11 DEF Unhook, ProbeInv, Fields
  <2>2. QED
    BY <2>1, GateUntouched
<1>12. CASE SubTickFinish \/ SlotFinish \/ V3Finish
  <2>1. PICK drained \in BOOLEAN : Finish(drained)
    BY <1>12 DEF SubTickFinish, SlotFinish, V3Finish
  <2>2. /\ UNCHANGED <<kind, clock, gate, worker, menu>> /\ control'.at = "out"
    BY <2>1 DEF Finish, ProbeInv, Fields
  <2>3. QED
    BY <2>2, GateUntouched
<1>13. CASE Pass \/ Beat
  BY <1>13, PassKeepsGate, BeatKeepsGate
<1>14. CASE ForeignWrite
  BY <1>14, GateUntouched DEF ForeignWrite
<1>15. ASSUME NEW t \in Threads, Recording(t) \/ Asking(t) PROVE GateInv'
  <2>1. /\ UNCHANGED <<kind, clock, gate, worker, probe, control>>
        /\ menu.observed => menu'.observed
    BY <1>15 DEF Recording, SubTickTrampoline, SlotTrampoline, V3Trampoline, CallSlot,
       recordActive, BeginRecord, SubTickFirst, SubTickLast, SlotClassify, RecordThread,
       EndRecord, Asking, EnterMenu, BeginMenu, LoadMenuOriginal, MenuAnswers,
         MenuObserved, EndMenu,
       ProbeInv, Fields
  <2>2. QED
    BY <2>1, GateUntouched
<1>16. QED
  BY <1>1, <1>2, <1>3, <1>4, <1>5, <1>6, <1>7, <1>8, <1>9, <1>10, <1>11, <1>12, <1>13,
     <1>14, <1>15 DEF Next, Waiting, Uninstalling

\* Only patchSlot, on an open gate, makes a probe patched.
LEMMA PatchesJustified ==
  ASSUME ProbeInv, GateInv, [Next]_vars, ~probe.patched, probe'.patched
  PROVE  /\ control.at \in {"out", "join"}
         /\ slot = "original"
         /\ kind = "subtick" => HeardAllAlong
         /\ kind = "v3" => clock.beats # {} /\ clock.now >= Delay
         /\ kind = "slot" => menu.observed /\ clock.now >= Delay
<1>1. PatchSlot
  <2>1. CASE Installing
    <3>1. ASSUME NEW checks, NEW keeps, Arm(checks, keeps) PROVE FALSE
      BY <3>1 DEF Arm
    <3>2. CASE SubTickInstall \/ SlotInstall \/ V3Install
      BY <3>1, <3>2 DEF SubTickInstall, SlotInstall, V3Install
    <3>3. CASE InstallAgain \/ HookMenu \/ StoreMenuOriginal \/ StartWorker
      BY <3>3 DEF InstallAgain, HookMenu, StoreMenuOriginal, StartWorker, ProbeInv, Fields
    <3>4. QED
      BY <2>1, <3>2, <3>3 DEF Installing
  <2>2. CASE UNCHANGED vars
    BY <2>2 DEF vars
  <2>3. CASE Waiting \/ Sampling \/ Pass \/ Beat \/ ForeignWrite
    <3>1. probe' = probe
      BY <2>3 DEF Waiting, SubTickPoll, SlotPoll, V3Poll, DelayedPoll, Polls, StopWaiting,
         Sampling, SubTickSample, V3Sample, Sample, BeginInterval, SleepSlice,
         EndInterval, StopSampling, Pass, Beat, ForeignWrite
    <3>2. QED
      BY <3>1
  <2>4. CASE Uninstalling
    <3>1. CASE RequestStop \/ Join \/ Unhook
      BY <3>1 DEF RequestStop, Join, Unhook, ProbeInv, Fields
    <3>2. CASE SubTickRestore \/ SlotRestore \/ V3Restore
      BY <3>2 DEF SubTickRestore, SlotRestore, V3Restore, RestoreSlot, GateInv
    <3>3. CASE SubTickFinish \/ SlotFinish \/ V3Finish
      BY <3>3 DEF SubTickFinish, SlotFinish, V3Finish, Finish, ProbeInv, Fields
    <3>4. QED
      BY <2>4, <3>1, <3>2, <3>3 DEF Uninstalling
  <2>5. ASSUME NEW t \in Threads, Recording(t) \/ Asking(t) PROVE FALSE
    <3>1. probe' = probe
      BY <2>5 DEF Recording, SubTickTrampoline, SlotTrampoline, V3Trampoline, CallSlot,
       recordActive, BeginRecord, SubTickFirst, SubTickLast, SlotClassify, RecordThread,
       EndRecord, Asking, EnterMenu, BeginMenu, LoadMenuOriginal, MenuAnswers,
         MenuObserved, EndMenu
    <3>2. QED
      BY <3>1
  <2>6. CASE Patching
    BY <2>6 DEF Patching, SubTickPatch, SlotPatch, V3Patch
  <2>7. QED
    BY <2>1, <2>2, <2>3, <2>4, <2>5, <2>6 DEF Next
<1>2. worker = "open" /\ slot = "original"
  BY <1>1 DEF PatchSlot
<1>3. QED
  BY <1>2 DEF GateInv, OpenGate, ProbeInv, Standing

\* JustifiedPatch: whatever the heartbeat does between two looks of the worker, the
\* slot is written only when it was heard all along (or once, or the menu asked, as
\* the probe has it), and before uninstall() is past its join; from workerLoop.
THEOREM JustifiedPatch == Spec => PatchIsJustified
<1>1. Spec => []ProbeInv
  BY InitialProbe, ProbeInductive, PTL DEF Spec
<1>2. GateInv /\ ProbeInv /\ [Next]_vars => GateInv'
  BY GateInductive
<1>3. ProbeInv /\ GateInv /\ [Next]_vars =>
        [~probe.patched /\ probe'.patched =>
           /\ control.at \in {"out", "join"}
           /\ slot = "original"
           /\ kind = "subtick" => HeardAllAlong
           /\ kind = "v3" => clock.beats # {} /\ clock.now >= Delay
           /\ kind = "slot" => menu.observed /\ clock.now >= Delay]_vars
  BY PatchesJustified
<1>4. QED
  BY <1>1, <1>2, <1>3, InitialGate, PTL DEF Spec, PatchIsJustified

-----------------------------------------------------------------------------
(***************************************************************************)
(* The counters.                                                           *)
(***************************************************************************)
Places == Counted \cup {"game", "trampoline", "record", "menuRecord"}
CountFields ==
  {"inFlight", "total", "menuTrue", "menuFalse", "menuUnknown", "firstThread",
   "otherThreads", "firstInstance", "lastInstance", "transitions", "previous"}

\* What the counters and their history hold, and where a thread can be.
CountTypes ==
  /\ kind \in {"subtick", "slot", "v3"}
  /\ thread \in [Threads -> [at : Places, instance : Instances \cup {None}]]
  /\ \A t \in Threads :
       /\ thread[t].at = "classify" => kind = "slot"
       /\ thread[t].at \in {"first", "last"} => kind = "subtick"
       /\ kind = "subtick" /\ thread[t].at \in {"trampoline", "record", "first", "last"}
            => thread[t].instance \in Instances
  /\ DOMAIN since = {"met", "noted", "path"}
  /\ since.noted \in Seq(Threads) /\ since.path \in Seq(Instances)
  /\ DOMAIN count = CountFields
  /\ count.inFlight \in Nat /\ count.total \in Nat /\ count.previous \in Nat
  /\ count.menuTrue \in Nat /\ count.menuFalse \in Nat /\ count.menuUnknown \in Nat
  /\ count.otherThreads \in Nat /\ count.transitions \in Nat
  /\ count.previous <= count.total
  /\ DOMAIN stats = {0, 1}
  /\ \A s \in {0, 1} :
       /\ DOMAIN stats[s] = {"known", "min", "max"}
       /\ stats[s].min \in Nat /\ stats[s].max \in Nat
       /\ stats[s].min <= stats[s].max /\ stats[s].max <= count.previous

\* The parts of ProbeCallsAddUp: the callbacks in flight, their classes, and
\* what the counters of threads and of instances say of the history.
FlightAdds == count.inFlight = (Now(Counted) - Met(Counted)) % CounterMod

ClassesAdd ==
  count.menuTrue + count.menuFalse + count.menuUnknown + Now({"classify"})
    = IF kind = "slot" THEN count.total + Met({"classify"}) ELSE 0

ThreadsAdd ==
  /\ Len(since.noted) + Now(Unnoted) = count.total + Met(Unnoted)
  /\ count.firstThread = IF since.noted = <<>> THEN None ELSE since.noted[1]
  /\ count.otherThreads = Others(since.noted)

PathAdds ==
  /\ Len(since.path) + Now({"first", "last"})
       = IF kind = "subtick" THEN count.total + Met({"first", "last"}) ELSE 0
  /\ count.lastInstance = IF since.path = <<>> THEN None ELSE since.path[Len(since.path)]
  /\ count.transitions = Changes(since.path)

CallsInv == CountTypes /\ FlightAdds /\ ClassesAdd /\ ThreadsAdd /\ PathAdds

LEMMA NowIsNat ==
  ASSUME NEW places
  PROVE  Now(places) \in Nat /\ Met(places) \in Nat
<1> DEFINE here == {t \in Threads : thread[t].at \in places}
           there == {t \in Threads : since.met[t] \in places}
<1>1. here \subseteq Threads /\ there \subseteq Threads /\ IsFiniteSet(Threads)
  BY GameAssumption
<1>2. Cardinality(here) \in Nat /\ Cardinality(there) \in Nat
  BY <1>1, FS_Subset, FS_CardinalityType
<1>3. QED
  BY <1>2 DEF Now, Met

LEMMA MetStays ==
  ASSUME since'.met = since.met, NEW places
  PROVE  Met(places)' = Met(places)
BY DEF Met

\* A step of one thread moves it, and nobody else, from place to place.
LEMMA Moves ==
  ASSUME NEW t \in Threads, NEW places,
         \A u \in Threads : u # t => thread'[u].at = thread[u].at
  PROVE  Now(places)' = Now(places) + (IF thread'[t].at \in places THEN 1 ELSE 0)
                                    - (IF thread[t].at \in places THEN 1 ELSE 0)
<1> DEFINE before == {u \in Threads : thread[u].at \in places}
           after == {u \in Threads : thread'[u].at \in places}
<1>1. Now(places) = Cardinality(before) /\ Now(places)' = Cardinality(after)
  BY DEF Now
<1>2. IsFiniteSet(before) /\ Cardinality(before) \in Nat
  <2>1. before \subseteq Threads /\ IsFiniteSet(Threads)
    BY GameAssumption
  <2>2. QED
    BY <2>1, FS_Subset, FS_CardinalityType
<1>3. CASE thread'[t].at \in places /\ thread[t].at \notin places
  <2>1. after = before \cup {t} /\ t \notin before
    BY <1>3
  <2>2. Cardinality(before \cup {t}) = Cardinality(before) + 1
    BY <1>2, <2>1, FS_AddElement
  <2> HIDE DEF before, after
  <2>3. QED
    BY <1>1, <1>2, <1>3, <2>1, <2>2
<1>4. CASE thread'[t].at \notin places /\ thread[t].at \in places
  <2>1. after = before \ {t} /\ t \in before
    BY <1>4
  <2>2. Cardinality(before \ {t}) = Cardinality(before) - 1
    BY <1>2, <2>1, FS_RemoveElement
  <2> HIDE DEF before, after
  <2>3. QED
    BY <1>1, <1>2, <1>4, <2>1, <2>2
<1>5. CASE thread'[t].at \in places <=> thread[t].at \in places
  <2>1. after = before
    BY <1>5
  <2> HIDE DEF before, after
  <2>2. QED
    BY <1>1, <1>2, <1>5, <2>1
<1>6. QED
  BY <1>3, <1>4, <1>5

\* Taking a remainder first does not change what one more or one less leaves.
LEMMA Remainder ==
  ASSUME NEW n \in Int, NEW q \in Int, NEW r \in 0 .. CounterMod - 1,
         n = CounterMod * q + r
  PROVE  n % CounterMod = r
<1>1. CounterMod \in Nat \ {0}
  BY ProbeConstants
<1>2. QED
  BY <1>1, Z3

LEMMA Modulus ==
  ASSUME NEW n \in Int
  PROVE  /\ n % CounterMod \in Nat
         /\ ((n % CounterMod) + 1) % CounterMod = (n + 1) % CounterMod
         /\ ((n % CounterMod) - 1) % CounterMod = (n - 1) % CounterMod
<1> DEFINE q == n \div CounterMod
           r == n % CounterMod
<1>1. CounterMod \in Nat \ {0}
  BY ProbeConstants
<1>2. q \in Int /\ r \in 0 .. CounterMod - 1 /\ n = CounterMod * q + r
  BY <1>1
<1>3. (r + 1) % CounterMod = (n + 1) % CounterMod
  <2> HIDE DEF q, r
  <2>1. CASE r + 1 < CounterMod
    <3>1. r + 1 = CounterMod * 0 + (r + 1) /\ n + 1 = CounterMod * q + (r + 1)
      BY <1>1, <1>2
    <3>2. r + 1 \in 0 .. CounterMod - 1
      BY <1>1, <1>2, <2>1
    <3>3. (r + 1) % CounterMod = r + 1 /\ (n + 1) % CounterMod = r + 1
      BY <1>2, <3>1, <3>2, Remainder
    <3>4. QED
      BY <3>3
  <2>2. CASE r + 1 = CounterMod
    <3>1. r + 1 = CounterMod * 1 + 0 /\ n + 1 = CounterMod * (q + 1) + 0
      BY <1>1, <1>2, <2>2
    <3>2. 0 \in 0 .. CounterMod - 1
      BY <1>1
    <3>3. (r + 1) % CounterMod = 0 /\ (n + 1) % CounterMod = 0
      BY <1>2, <3>1, <3>2, Remainder
    <3>4. QED
      BY <3>3
  <2>3. QED
    BY <1>1, <1>2, <2>1, <2>2
<1>4. (r - 1) % CounterMod = (n - 1) % CounterMod
  <2> HIDE DEF q, r
  <2>1. CASE r > 0
    <3>1. r - 1 = CounterMod * 0 + (r - 1) /\ n - 1 = CounterMod * q + (r - 1)
      BY <1>1, <1>2
    <3>2. r - 1 \in 0 .. CounterMod - 1
      BY <1>1, <1>2, <2>1
    <3>3. (r - 1) % CounterMod = r - 1 /\ (n - 1) % CounterMod = r - 1
      BY <1>2, <3>1, <3>2, Remainder
    <3>4. QED
      BY <3>3
  <2>2. CASE r = 0
    <3> DEFINE top == CounterMod - 1
    <3>1. r - 1 = CounterMod * (0 - 1) + top /\ n - 1 = CounterMod * (q - 1) + top
      BY <1>1, <1>2, <2>2
    <3>2. top \in 0 .. CounterMod - 1
      BY <1>1
    <3> HIDE DEF top
    <3>3. (r - 1) % CounterMod = top /\ (n - 1) % CounterMod = top
      BY <1>2, <3>1, <3>2, Remainder
    <3>4. QED
      BY <3>3
  <2>3. QED
    BY <1>2, <2>1, <2>2
<1>5. QED
  BY <1>2, <1>3, <1>4

\* One more call of a thread, or of an instance.
LEMMA OthersGrow ==
  ASSUME NEW S, NEW s \in Seq(S), NEW x \in S
  PROVE  /\ s = <<>> => Others(Append(s, x)) = 0
         /\ s # <<>> => Others(Append(s, x)) = Others(s) + (IF x = s[1] THEN 0 ELSE 1)
<1> DEFINE e == Append(s, x)
           before == {n \in 1..Len(s) : s[n] # s[1]}
           after == {n \in 1..Len(e) : e[n] # e[1]}
           new == Len(s) + 1
<1>1. /\ Len(s) \in Nat /\ Len(e) = new /\ e[new] = x
      /\ \A n \in 1..Len(s) : e[n] = s[n]
  OBVIOUS
<1>2. Others(s) = Cardinality(before) /\ Others(e) = Cardinality(after)
  BY DEF Others
<1>3. IsFiniteSet(before) /\ Cardinality(before) \in Nat
  <2>1. before \subseteq 1..Len(s) /\ IsFiniteSet(1..Len(s))
    BY <1>1, FS_Interval
  <2>2. QED
    BY <2>1, FS_Subset, FS_CardinalityType
<1>4. CASE s = <<>>
  <2>1. Len(s) = 0
    BY <1>4
  <2>2. after = {}
    BY <1>1, <2>1
  <2>3. QED
    BY <1>2, <1>4, <2>2, FS_EmptySet
<1>5. CASE s # <<>>
  <2>1. 1 \in 1..Len(s) /\ e[1] = s[1]
    BY <1>1, <1>5
  <2>2. new \notin before
    BY <1>1
  <2>3. 1..Len(e) = (1..Len(s)) \cup {new}
    BY <1>1
  <2>4. CASE x = s[1]
    <3>1. after = before
      BY <1>1, <2>1, <2>3, <2>4
    <3> HIDE DEF before, after
    <3>2. QED
      BY <1>2, <1>3, <1>5, <2>4, <3>1
  <2>5. CASE x # s[1]
    <3>1. after = before \cup {new}
      BY <1>1, <2>1, <2>3, <2>5
    <3>2. Cardinality(before \cup {new}) = Cardinality(before) + 1
      BY <1>3, <2>2, FS_AddElement
    <3> HIDE DEF before, after
    <3>3. QED
      BY <1>2, <1>5, <2>5, <3>1, <3>2
  <2>6. QED
    BY <2>4, <2>5
<1>6. QED
  BY <1>4, <1>5

LEMMA ChangesGrow ==
  ASSUME NEW S, NEW s \in Seq(S), NEW x \in S
  PROVE  /\ s = <<>> => Changes(Append(s, x)) = 0
         /\ s # <<>> => Changes(Append(s, x)) =
                          Changes(s) + (IF x = s[Len(s)] THEN 0 ELSE 1)
<1> DEFINE e == Append(s, x)
           before == {n \in 2..Len(s) : s[n] # s[n - 1]}
           after == {n \in 2..Len(e) : e[n] # e[n - 1]}
           new == Len(s) + 1
<1>1. /\ Len(s) \in Nat /\ Len(e) = new /\ e[new] = x
      /\ \A n \in 1..Len(s) : e[n] = s[n]
  OBVIOUS
<1>2. Changes(s) = Cardinality(before) /\ Changes(e) = Cardinality(after)
  BY DEF Changes
<1>3. IsFiniteSet(before) /\ Cardinality(before) \in Nat
  <2>1. before \subseteq 2..Len(s) /\ IsFiniteSet(2..Len(s))
    BY <1>1, FS_Interval
  <2>2. QED
    BY <2>1, FS_Subset, FS_CardinalityType
<1>4. CASE s = <<>>
  <2>1. Len(s) = 0
    BY <1>4
  <2>2. after = {}
    BY <1>1, <2>1
  <2>3. QED
    BY <1>2, <1>4, <2>2, FS_EmptySet
<1>5. CASE s # <<>>
  <2>1. Len(s) \in 1..Len(s) /\ new - 1 = Len(s) /\ e[new - 1] = s[Len(s)]
    BY <1>1, <1>5
  <2>2. new \notin before
    BY <1>1
  <2>3. 2..Len(e) = (2..Len(s)) \cup {new}
    BY <1>1, <2>1
  <2>4. \A n \in 2..Len(s) : e[n] = s[n] /\ e[n - 1] = s[n - 1]
    BY <1>1
  <2>5. CASE x = s[Len(s)]
    <3>1. after = before
      BY <1>1, <2>1, <2>3, <2>4, <2>5
    <3> HIDE DEF before, after
    <3>2. QED
      BY <1>2, <1>3, <1>5, <2>5, <3>1
  <2>6. CASE x # s[Len(s)]
    <3>1. after = before \cup {new}
      BY <1>1, <2>1, <2>3, <2>4, <2>6
    <3>2. Cardinality(before \cup {new}) = Cardinality(before) + 1
      BY <1>3, <2>2, FS_AddElement
    <3> HIDE DEF before, after
    <3>3. QED
      BY <1>2, <1>5, <2>6, <3>1, <3>2
  <2>7. QED
    BY <2>5, <2>6
<1>6. QED
  BY <1>4, <1>5

\* A step that leaves the callbacks and their counters alone.
LEMMA CallsUntouched ==
  ASSUME CallsInv, UNCHANGED <<kind, stats, count, thread, since>>
  PROVE  CallsInv'
<1>1. CountTypes'
  BY DEF CallsInv, CountTypes
<1>2. \A places : Now(places)' = Now(places) /\ Met(places)' = Met(places)
  BY DEF Now, Met
<1>3. FlightAdds' /\ ClassesAdd' /\ ThreadsAdd' /\ PathAdds'
  BY <1>2 DEF CallsInv, FlightAdds, ClassesAdd, ThreadsAdd, PathAdds
<1>4. QED
  BY <1>1, <1>3 DEF CallsInv

\* Nothing counted, nothing recorded.
LEMMA ZeroCounts ==
  /\ DOMAIN NoCalls = CountFields
  /\ NoCalls.inFlight = 0 /\ NoCalls.total = 0 /\ NoCalls.previous = 0
  /\ NoCalls.otherThreads = 0 /\ NoCalls.transitions = 0
  /\ NoCalls.menuTrue = 0 /\ NoCalls.menuFalse = 0 /\ NoCalls.menuUnknown = 0
  /\ NoCalls.firstThread = None /\ NoCalls.lastInstance = None
  /\ DOMAIN NoStats = {0, 1}
  /\ \A s \in {0, 1} : /\ DOMAIN NoStats[s] = {"known", "min", "max"}
                       /\ NoStats[s].min = 0 /\ NoStats[s].max = 0
  /\ Others(<<>>) = 0 /\ Changes(<<>>) = 0
  /\ 0 % CounterMod = 0
<1>1. /\ {n \in 1..Len(<<>>) : <<>>[n] # <<>>[1]} = {}
      /\ {n \in 2..Len(<<>>) : <<>>[n] # <<>>[n - 1]} = {}
  OBVIOUS
<1>2. Others(<<>>) = 0 /\ Changes(<<>>) = 0
  BY <1>1, FS_EmptySet DEF Others, Changes
<1>3. 0 % CounterMod = 0
  <2>1. 0 = CounterMod * 0 + 0 /\ 0 \in 0 .. CounterMod - 1
    BY ProbeConstants
  <2>2. QED
    BY <2>1, Remainder
<1>4. QED
  BY <1>2, <1>3 DEF NoCalls, CountFields, NoStats

LEMMA InitialCalls == Init => CallsInv
<1> SUFFICES ASSUME Init PROVE CallsInv
  OBVIOUS
<1>1. /\ kind \in {"subtick", "slot", "v3"}
      /\ thread \in [Threads -> [at : Places, instance : Instances \cup {None}]]
      /\ \A t \in Threads : thread[t].at = "game"
  BY ProbeConstants DEF Init, Places
<1>2. /\ count = NoCalls /\ stats = NoStats
      /\ DOMAIN since = {"met", "noted", "path"}
      /\ since.noted = <<>> /\ since.path = <<>>
      /\ \A t \in Threads : since.met[t] = "game"
  BY DEF Init
<1>3. CountTypes
  BY <1>1, <1>2, ZeroCounts DEF CountTypes
<1>4. ASSUME NEW places, "game" \notin places
      PROVE  Now(places) = 0 /\ Met(places) = 0
  <2>1. /\ {t \in Threads : thread[t].at \in places} = {}
        /\ {t \in Threads : since.met[t] \in places} = {}
    BY <1>1, <1>2, <1>4
  <2>2. QED
    BY <2>1, FS_EmptySet DEF Now, Met
<1>5. /\ Now(Counted) = 0 /\ Met(Counted) = 0 /\ Now(Unnoted) = 0 /\ Met(Unnoted) = 0
      /\ Now({"classify"}) = 0 /\ Met({"classify"}) = 0
      /\ Now({"first", "last"}) = 0 /\ Met({"first", "last"}) = 0
  BY <1>4 DEF Counted, Unnoted
<1>6. FlightAdds /\ ClassesAdd
  BY <1>2, <1>5, ZeroCounts DEF FlightAdds, ClassesAdd
<1>7. ThreadsAdd /\ PathAdds
  BY <1>2, <1>5, ZeroCounts DEF ThreadsAdd, PathAdds
<1>8. QED
  BY <1>3, <1>6, <1>7 DEF CallsInv

\* install() zeroes the counters, and meets the callbacks that are under way.
LEMMA ArmKeepsCalls ==
  ASSUME CallsInv, NEW checks, NEW keeps, Arm(checks, keeps)
  PROVE  CallsInv'
<1>1. /\ UNCHANGED <<kind, thread>> /\ count' = NoCalls /\ stats' = NoStats
      /\ since' = [met |-> [t \in Threads |-> IF t \in Inside THEN thread[t].at ELSE "game"],
                   noted |-> <<>>, path |-> <<>>]
  BY DEF Arm
<1>2. /\ DOMAIN since' = {"met", "noted", "path"}
      /\ since'.noted = <<>> /\ since'.path = <<>>
      /\ \A t \in Threads : since'.met[t] = IF t \in Inside THEN thread[t].at ELSE "game"
  BY <1>1
<1>3. CountTypes'
  BY <1>1, <1>2, ZeroCounts, SMTT(30) DEF CallsInv, CountTypes
<1>4. ASSUME NEW places, places \subseteq Counted
      PROVE  Met(places)' = Now(places)'
  <2>1. \A t \in Threads : since'.met[t] \in places <=> thread'[t].at \in places
    BY <1>1, <1>2, <1>4 DEF Inside, Counted
  <2>2. {t \in Threads : since'.met[t] \in places} = {t \in Threads : thread'[t].at \in places}
    BY <2>1
  <2>3. QED
    BY <2>2 DEF Now, Met
<1>5. /\ Met(Counted)' = Now(Counted)' /\ Met(Unnoted)' = Now(Unnoted)'
      /\ Met({"classify"})' = Now({"classify"})'
      /\ Met({"first", "last"})' = Now({"first", "last"})'
  <2>1. Counted \subseteq Counted /\ Unnoted \subseteq Counted
        /\ {"classify"} \subseteq Counted /\ {"first", "last"} \subseteq Counted
    BY DEF Counted, Unnoted
  <2>2. Met(Counted)' = Now(Counted)'
    BY <1>4, <2>1
  <2>3. Met(Unnoted)' = Now(Unnoted)'
    BY <1>4, <2>1
  <2>4. Met({"classify"})' = Now({"classify"})'
    BY <1>4, <2>1
  <2>5. Met({"first", "last"})' = Now({"first", "last"})'
    BY <1>4, <2>1
  <2>6. QED
    BY <2>2, <2>3, <2>4, <2>5
<1>6. /\ Now(Counted)' = Now(Counted) /\ Now(Unnoted)' = Now(Unnoted)
      /\ Now({"classify"})' = Now({"classify"})
      /\ Now({"first", "last"})' = Now({"first", "last"})
  BY <1>1 DEF Now
<1>7. /\ Now(Counted) \in Nat /\ Now(Unnoted) \in Nat
      /\ Now({"classify"}) \in Nat /\ Now({"first", "last"}) \in Nat
  BY NowIsNat
<1>8. FlightAdds'
  <2>1. Now(Counted)' - Met(Counted)' = 0
    BY <1>5, <1>6, <1>7
  <2>2. QED
    BY <1>1, <2>1, ZeroCounts DEF FlightAdds
<1>9. ClassesAdd'
  <2>1. kind # "slot" => Now({"classify"}) = 0
    <3>1. SUFFICES ASSUME kind # "slot" PROVE Now({"classify"}) = 0
      OBVIOUS
    <3>2. {t \in Threads : thread[t].at \in {"classify"}} = {}
      BY <3>1 DEF CallsInv, CountTypes
    <3>3. QED
      BY <3>2, FS_EmptySet DEF Now
  <2>2. QED
    BY <1>1, <1>5, <1>6, <1>7, <2>1, ZeroCounts DEF ClassesAdd
<1>10. ThreadsAdd'
  BY <1>1, <1>2, <1>5, <1>6, <1>7, ZeroCounts DEF ThreadsAdd
<1>11. PathAdds'
  <2>1. kind # "subtick" => Now({"first", "last"}) = 0
    <3>1. SUFFICES ASSUME kind # "subtick" PROVE Now({"first", "last"}) = 0
      OBVIOUS
    <3>2. {t \in Threads : thread[t].at \in {"first", "last"}} = {}
      BY <3>1 DEF CallsInv, CountTypes
    <3>3. QED
      BY <3>2, FS_EmptySet DEF Now
  <2>2. QED
    BY <1>1, <1>2, <1>5, <1>6, <1>7, <2>1, ZeroCounts DEF PathAdds
<1>12. QED
  BY <1>3, <1>8, <1>9, <1>10, <1>11 DEF CallsInv

LEMMA ReportKeepsCalls ==
  ASSUME CallsInv, Report, UNCHANGED <<kind, thread, since>>,
         \/ UNCHANGED stats
         \/ \E s \in {0, 1} : stats' = [stats EXCEPT ![s] =
                 updateIntervalStats(@, count.total - count.previous)]
  PROVE  CallsInv'
<1>1. /\ DOMAIN count' = CountFields /\ count'.previous = count.total
      /\ \A f \in CountFields \ {"previous"} : count'[f] = count[f]
  BY DEF Report, CallsInv, CountTypes
<1>2. /\ count'.inFlight = count.inFlight /\ count'.total = count.total
      /\ count'.menuTrue = count.menuTrue /\ count'.menuFalse = count.menuFalse
      /\ count'.menuUnknown = count.menuUnknown /\ count'.firstThread = count.firstThread
      /\ count'.otherThreads = count.otherThreads
      /\ count'.firstInstance = count.firstInstance
      /\ count'.lastInstance = count.lastInstance
      /\ count'.transitions = count.transitions
  BY <1>1 DEF CountFields
<1>3. /\ DOMAIN stats' = {0, 1}
      /\ \A s \in {0, 1} :
           /\ DOMAIN stats'[s] = {"known", "min", "max"}
           /\ stats'[s].min \in Nat /\ stats'[s].max \in Nat
           /\ stats'[s].min <= stats'[s].max /\ stats'[s].max <= count.total
  <2>1. CASE UNCHANGED stats
    BY <2>1, SMTT(30) DEF CallsInv, CountTypes
  <2>2. CASE \E s \in {0, 1} : stats' = [stats EXCEPT ![s] =
                 updateIntervalStats(@, count.total - count.previous)]
    <3> DEFINE delta == count.total - count.previous
    <3>1. PICK s \in {0, 1} : stats' = [stats EXCEPT ![s] = updateIntervalStats(@, delta)]
      BY <2>2
    <3>2. delta \in Nat /\ delta <= count.total
      BY SMTT(30) DEF CallsInv, CountTypes
    <3> HIDE DEF delta
    <3> DEFINE after == updateIntervalStats(stats[s], delta)
    <3>3. /\ DOMAIN stats[s] = {"known", "min", "max"} /\ stats[s].max <= count.total
          /\ stats[s].min \in Nat /\ stats[s].max \in Nat
      BY SMTT(30) DEF CallsInv, CountTypes
    <3>4. /\ DOMAIN after = {"known", "min", "max"}
          /\ after.min \in {delta, stats[s].min} /\ after.min <= delta
          /\ after.max \in {delta, stats[s].max} /\ delta <= after.max
      BY <3>2, <3>3 DEF updateIntervalStats
    <3>5. stats' = [stats EXCEPT ![s] = after]
      BY <3>1
    <3> HIDE DEF after
    <3>6. /\ after.min \in Nat /\ after.max \in Nat
          /\ after.min <= after.max /\ after.max <= count.total
      BY <3>2, <3>3, <3>4
    <3>7. /\ DOMAIN stats = {0, 1}
          /\ \A u \in {0, 1} :
               /\ DOMAIN stats[u] = {"known", "min", "max"}
               /\ stats[u].min \in Nat /\ stats[u].max \in Nat
               /\ stats[u].min <= stats[u].max /\ stats[u].max <= count.total
      BY SMTT(30) DEF CallsInv, CountTypes
    <3>8. QED
      BY <3>4, <3>5, <3>6, <3>7
  <2>3. QED
    BY <2>1, <2>2
<1>4. CountTypes'
  <2>1. /\ count'.inFlight \in Nat /\ count'.total \in Nat /\ count'.previous \in Nat
        /\ count'.menuTrue \in Nat /\ count'.menuFalse \in Nat
        /\ count'.menuUnknown \in Nat
        /\ count'.otherThreads \in Nat /\ count'.transitions \in Nat
        /\ count'.previous <= count'.total
    BY <1>1, <1>2 DEF CallsInv, CountTypes
  <2>2. QED
    BY <1>1, <1>2, <1>3, <2>1 DEF CallsInv, CountTypes
<1>5. \A places : Now(places)' = Now(places) /\ Met(places)' = Met(places)
  BY DEF Now, Met
<1>6. FlightAdds' /\ ClassesAdd' /\ ThreadsAdd' /\ PathAdds'
  BY <1>2, <1>5 DEF CallsInv, FlightAdds, ClassesAdd, ThreadsAdd, PathAdds
<1>7. QED
  BY <1>4, <1>6 DEF CallsInv

LEMMA Went ==
  ASSUME CountTypes, NEW t \in Threads, NEW where \in Places, Goes(t, where)
  PROVE  /\ \A u \in Threads : u # t => thread'[u] = thread[u]
         /\ thread'[t].at = where /\ thread'[t].instance = thread[t].instance
         /\ thread' \in [Threads -> [at : Places, instance : Instances \cup {None}]]
<1> DEFINE after == [thread[t] EXCEPT !.at = where]
<1>1. thread[t] \in [at : Places, instance : Instances \cup {None}]
  BY DEF CountTypes
<1>2. /\ after \in [at : Places, instance : Instances \cup {None}]
      /\ after.at = where /\ after.instance = thread[t].instance
  BY <1>1
<1>3. thread' = [thread EXCEPT ![t] = after]
  BY DEF Goes
<1> HIDE DEF after
<1>4. QED
  BY <1>2, <1>3 DEF CountTypes

\* The counter of callbacks in flight follows a thread in and out.
LEMMA FlightMoves ==
  ASSUME FlightAdds, since'.met = since.met, NEW t \in Threads,
         \A u \in Threads : u # t => thread'[u].at = thread[u].at,
         count'.inFlight =
           IF thread[t].at \in Counted <=> thread'[t].at \in Counted THEN count.inFlight
           ELSE IF thread'[t].at \in Counted THEN (count.inFlight + 1) % CounterMod
           ELSE (count.inFlight - 1) % CounterMod
  PROVE  FlightAdds'
<1> DEFINE n == Now(Counted) - Met(Counted)
<1>1. Now(Counted) \in Nat /\ Met(Counted) \in Nat /\ Met(Counted)' = Met(Counted)
  BY NowIsNat, MetStays
<1>2. Now(Counted)' = Now(Counted) + (IF thread'[t].at \in Counted THEN 1 ELSE 0)
                                   - (IF thread[t].at \in Counted THEN 1 ELSE 0)
  BY Moves
<1>3. n \in Int /\ count.inFlight = n % CounterMod
  BY <1>1 DEF FlightAdds
<1>4. CASE thread[t].at \in Counted <=> thread'[t].at \in Counted
  <2>1. Now(Counted)' = Now(Counted)
    BY <1>1, <1>2, <1>4
  <2>2. count'.inFlight = count.inFlight
    BY <1>4
  <2>3. QED
    BY <1>1, <2>1, <2>2 DEF FlightAdds
<1>5. CASE thread[t].at \notin Counted /\ thread'[t].at \in Counted
  <2>1. Now(Counted)' - Met(Counted)' = n + 1
    BY <1>1, <1>2, <1>5
  <2>2. count'.inFlight = (count.inFlight + 1) % CounterMod
    BY <1>5
  <2> HIDE DEF n
  <2>3. QED
    BY <1>3, <2>1, <2>2, Modulus DEF FlightAdds
<1>6. CASE thread[t].at \in Counted /\ thread'[t].at \notin Counted
  <2>1. Now(Counted)' - Met(Counted)' = n - 1
    BY <1>1, <1>2, <1>6
  <2>2. count'.inFlight = (count.inFlight - 1) % CounterMod
    BY <1>6
  <2> HIDE DEF n
  <2>3. QED
    BY <1>3, <2>1, <2>2, Modulus DEF FlightAdds
<1>7. QED
  BY <1>4, <1>5, <1>6

\* A count of threads that the one that moves is neither in before nor after.
LEMMA NowStays ==
  ASSUME NEW t \in Threads, NEW places,
         \A u \in Threads : u # t => thread'[u].at = thread[u].at,
         thread[t].at \in places <=> thread'[t].at \in places
  PROVE  Now(places)' = Now(places)
<1>1. {u \in Threads : thread'[u].at \in places} = {u \in Threads : thread[u].at \in places}
  OBVIOUS
<1>2. QED
  BY <1>1 DEF Now

\* A thread that is not recording moves, and at most the callbacks are counted.
LEMMA PassesKeepCalls ==
  ASSUME CallsInv, NEW t \in Threads, UNCHANGED <<kind, stats, since>>,
         \A u \in Threads : u # t => thread'[u] = thread[u],
         thread' \in [Threads -> [at : Places, instance : Instances \cup {None}]],
         thread[t].at \notin Unnoted, thread'[t].at \notin Unnoted,
         kind = "subtick" /\ thread'[t].at \in {"trampoline", "record"}
           => thread'[t].instance \in Instances,
         DOMAIN count' = CountFields,
         \A f \in CountFields \ {"inFlight"} : count'[f] = count[f],
         count'.inFlight =
           IF thread[t].at \in Counted <=> thread'[t].at \in Counted THEN count.inFlight
           ELSE IF thread'[t].at \in Counted THEN (count.inFlight + 1) % CounterMod
           ELSE (count.inFlight - 1) % CounterMod
  PROVE  CallsInv'
<1>1. /\ count'.total = count.total /\ count'.previous = count.previous
      /\ count'.menuTrue = count.menuTrue /\ count'.menuFalse = count.menuFalse
      /\ count'.menuUnknown = count.menuUnknown /\ count'.firstThread = count.firstThread
      /\ count'.otherThreads = count.otherThreads
      /\ count'.lastInstance = count.lastInstance
      /\ count'.transitions = count.transitions
  BY DEF CountFields
<1>2. count'.inFlight \in Nat
  <2>1. count.inFlight \in Nat /\ count.inFlight + 1 \in Int /\ count.inFlight - 1 \in Int
    BY SMTT(30) DEF CallsInv, CountTypes
  <2>2. /\ (count.inFlight + 1) % CounterMod \in Nat
        /\ (count.inFlight - 1) % CounterMod \in Nat
    BY <2>1, Modulus
  <2>3. QED
    BY <2>1, <2>2
<1>3. CountTypes'
  BY <1>1, <1>2 DEF CallsInv, CountTypes, Unnoted
<1>4. /\ Now(Unnoted)' = Now(Unnoted) /\ Now({"classify"})' = Now({"classify"})
      /\ Now({"first", "last"})' = Now({"first", "last"})
  BY NowStays DEF Unnoted
<1>5. \A places : Met(places)' = Met(places)
  BY MetStays
<1>6. FlightAdds'
  BY FlightMoves DEF CallsInv
<1>7. ClassesAdd' /\ ThreadsAdd' /\ PathAdds'
  BY <1>1, <1>4, <1>5 DEF CallsInv, ClassesAdd, ThreadsAdd, PathAdds
<1>8. QED
  BY <1>3, <1>6, <1>7 DEF CallsInv

\* The rest of a thread's way, and the menu query.
LEMMA WaysKeepCalls ==
  ASSUME CallsInv, NEW t \in Threads,
         CallSlot(t) \/ recordActive(t) \/ EndRecord(t) \/ Asking(t)
  PROVE  CallsInv'
<1> USE DEF CallsInv
<1>1. thread[t] \in [at : Places, instance : Instances \cup {None}]
  BY DEF CountTypes
<1>2. CASE CallSlot(t)
  <2>1. PICK i \in IF kind = "subtick" THEN Instances ELSE {None} :
          thread' = [thread EXCEPT ![t] = [at |-> "trampoline", instance |-> i]]
    BY <1>2 DEF CallSlot
  <2>2. i \in Instances \cup {None} /\ (kind = "subtick" => i \in Instances)
    OBVIOUS
  <2>3. /\ \A u \in Threads : u # t => thread'[u] = thread[u]
        /\ thread'[t].at = "trampoline" /\ thread'[t].instance = i
        /\ thread' \in [Threads -> [at : Places, instance : Instances \cup {None}]]
    BY <2>1, <2>2 DEF CountTypes, Places
  <2>4. thread[t].at = "game" /\ UNCHANGED <<kind, stats, since, count>>
    BY <1>2 DEF CallSlot, At
  <2>5. QED
    BY <2>2, <2>3, <2>4, PassesKeepCalls DEF CountTypes, Unnoted, Counted
<1>3. CASE recordActive(t)
  <2>1. PICK where \in {"record", "game"} : Goes(t, where)
    BY <1>3 DEF recordActive
  <2>2. /\ \A u \in Threads : u # t => thread'[u] = thread[u]
        /\ thread'[t].at = where /\ thread'[t].instance = thread[t].instance
        /\ thread' \in [Threads -> [at : Places, instance : Instances \cup {None}]]
    BY <2>1, Went DEF Places
  <2>3. thread[t].at = "trampoline" /\ UNCHANGED <<kind, stats, since, count>>
    BY <1>3 DEF recordActive, At
  <2>4. QED
    BY <2>2, <2>3, PassesKeepCalls DEF CountTypes, Unnoted, Counted
<1>4. CASE EndRecord(t)
  <2>1. /\ thread[t].at = "end" /\ UNCHANGED <<kind, stats, since>>
        /\ thread' = [thread EXCEPT ![t] = [at |-> "game", instance |-> None]]
        /\ count' = [count EXCEPT !.inFlight = (@ - 1) % CounterMod]
    BY <1>4 DEF EndRecord, At
  <2>2. /\ \A u \in Threads : u # t => thread'[u] = thread[u]
        /\ thread'[t].at = "game"
        /\ thread' \in [Threads -> [at : Places, instance : Instances \cup {None}]]
    BY <2>1 DEF CountTypes, Places
  <2>3. /\ DOMAIN count' = CountFields
        /\ \A f \in CountFields \ {"inFlight"} : count'[f] = count[f]
        /\ count'.inFlight = (count.inFlight - 1) % CounterMod
    BY <2>1 DEF CountTypes, CountFields
  <2>4. QED
    BY <2>1, <2>2, <2>3, PassesKeepCalls DEF Unnoted, Counted
<1>5. CASE EnterMenu(t)
  <2>1. PICK where \in {"menuRecord", "game"} : Goes(t, where)
    BY <1>5 DEF EnterMenu
  <2>2. /\ \A u \in Threads : u # t => thread'[u] = thread[u]
        /\ thread'[t].at = where
        /\ thread' \in [Threads -> [at : Places, instance : Instances \cup {None}]]
    BY <2>1, Went DEF Places
  <2>3. thread[t].at = "game" /\ UNCHANGED <<kind, stats, since, count>>
    BY <1>5 DEF EnterMenu, At
  <2>4. QED
    BY <2>2, <2>3, PassesKeepCalls DEF CountTypes, Unnoted, Counted
<1>6. CASE BeginMenu(t)
  <2>1. /\ thread[t].at = "menuRecord" /\ UNCHANGED <<kind, stats, since>>
        /\ Goes(t, "menuOriginal")
        /\ count' = [count EXCEPT !.inFlight = (@ + 1) % CounterMod]
    BY <1>6 DEF BeginMenu, At
  <2>2. /\ \A u \in Threads : u # t => thread'[u] = thread[u]
        /\ thread'[t].at = "menuOriginal"
        /\ thread' \in [Threads -> [at : Places, instance : Instances \cup {None}]]
    BY <2>1, Went DEF Places, Counted
  <2>3. /\ DOMAIN count' = CountFields
        /\ \A f \in CountFields \ {"inFlight"} : count'[f] = count[f]
        /\ count'.inFlight = (count.inFlight + 1) % CounterMod
    BY <2>1 DEF CountTypes, CountFields
  <2>4. QED
    BY <2>1, <2>2, <2>3, PassesKeepCalls DEF Unnoted, Counted
<1>7. CASE LoadMenuOriginal(t) \/ MenuAnswers(t) \/ MenuObserved(t)
  <2>1. PICK where \in {"menuCall", "menuObserve", "menuEnd"} : Goes(t, where)
    BY <1>7 DEF LoadMenuOriginal, MenuAnswers, MenuObserved
  <2>2. /\ \A u \in Threads : u # t => thread'[u] = thread[u]
        /\ thread'[t].at = where
        /\ thread' \in [Threads -> [at : Places, instance : Instances \cup {None}]]
    BY <2>1, Went DEF Places, Counted
  <2>3. /\ thread[t].at \in {"menuOriginal", "menuCall", "menuObserve"}
        /\ UNCHANGED <<kind, stats, since, count>>
    BY <1>7 DEF LoadMenuOriginal, MenuAnswers, MenuObserved, At
  <2>4. QED
    BY <2>2, <2>3, PassesKeepCalls DEF CountTypes, Unnoted, Counted
<1>8. CASE EndMenu(t)
  <2>1. /\ thread[t].at = "menuEnd" /\ UNCHANGED <<kind, stats, since>>
        /\ Goes(t, "game")
        /\ count' = [count EXCEPT !.inFlight = (@ - 1) % CounterMod]
    BY <1>8 DEF EndMenu, At
  <2>2. /\ \A u \in Threads : u # t => thread'[u] = thread[u]
        /\ thread'[t].at = "game"
        /\ thread' \in [Threads -> [at : Places, instance : Instances \cup {None}]]
    BY <2>1, Went DEF Places
  <2>3. /\ DOMAIN count' = CountFields
        /\ \A f \in CountFields \ {"inFlight"} : count'[f] = count[f]
        /\ count'.inFlight = (count.inFlight - 1) % CounterMod
    BY <2>1 DEF CountTypes, CountFields
  <2>4. QED
    BY <2>1, <2>2, <2>3, PassesKeepCalls DEF Unnoted, Counted
<1>9. QED
  BY <1>2, <1>3, <1>4, <1>5, <1>6, <1>7, <1>8 DEF Asking

\* The record of a call, step by step.
LEMMA BeginKeepsCalls ==
  ASSUME CallsInv, NEW t \in Threads, BeginRecord(t)
  PROVE  CallsInv'
<1> USE DEF CallsInv
<1> DEFINE where == CASE kind = "subtick" -> "first" [] kind = "slot" -> "classify"
                      [] OTHER -> "thread"
<1>1. /\ thread[t].at = "record" /\ UNCHANGED <<kind, stats, since>> /\ Goes(t, where)
      /\ count' = [count EXCEPT !.inFlight = (@ + 1) % CounterMod, !.total = @ + 1]
  BY DEF BeginRecord, At
<1>2. /\ kind = "subtick" => where = "first"
      /\ kind = "slot" => where = "classify"
      /\ kind = "v3" => where = "thread"
      /\ kind \in {"subtick", "slot", "v3"}
  BY DEF CountTypes
<1> HIDE DEF where
<1>3. where \in Unnoted /\ where \in Counted
  BY <1>2 DEF Unnoted, Counted
<1>4. /\ \A u \in Threads : u # t => thread'[u] = thread[u]
      /\ thread'[t].at = where /\ thread'[t].instance = thread[t].instance
      /\ thread' \in [Threads -> [at : Places, instance : Instances \cup {None}]]
  BY <1>1, <1>3, Went DEF Places
<1>5. /\ DOMAIN count' = CountFields
      /\ count'.inFlight = (count.inFlight + 1) % CounterMod
      /\ count'.total = count.total + 1 /\ count'.previous = count.previous
      /\ count'.menuTrue = count.menuTrue /\ count'.menuFalse = count.menuFalse
      /\ count'.menuUnknown = count.menuUnknown /\ count'.firstThread = count.firstThread
      /\ count'.otherThreads = count.otherThreads
      /\ count'.lastInstance = count.lastInstance
      /\ count'.transitions = count.transitions
  BY <1>1 DEF CountTypes, CountFields
<1>6. count'.inFlight \in Nat
  <2>1. count.inFlight + 1 \in Int
    BY DEF CountTypes
  <2>2. QED
    BY <1>5, <2>1, Modulus
<1>7. CountTypes'
  <2>1. /\ count'.total \in Nat /\ count'.previous \in Nat
        /\ count'.menuTrue \in Nat /\ count'.menuFalse \in Nat
        /\ count'.menuUnknown \in Nat
        /\ count'.otherThreads \in Nat /\ count'.transitions \in Nat
        /\ count'.previous <= count'.total
    BY <1>5, SMTT(30) DEF CountTypes
  <2>2. \A u \in Threads :
          /\ thread'[u].at = "classify" => kind = "slot"
          /\ thread'[u].at \in {"first", "last"} => kind = "subtick"
          /\ kind = "subtick" /\ thread'[u].at \in {"trampoline", "record", "first", "last"}
               => thread'[u].instance \in Instances
    BY <1>1, <1>2, <1>4 DEF CountTypes
  <2>3. QED
    BY <1>1, <1>4, <1>5, <1>6, <2>1, <2>2 DEF CountTypes
<1>8. FlightAdds'
  BY <1>1, <1>3, <1>4, <1>5, FlightMoves DEF Counted
<1>9. /\ Now({"classify"})' = Now({"classify"}) + (IF where = "classify" THEN 1 ELSE 0)
      /\ Now({"first", "last"})' =
           Now({"first", "last"}) + (IF where = "first" THEN 1 ELSE 0)
      /\ Now(Unnoted)' = Now(Unnoted) + 1
  <2>1. /\ Now({"classify"}) \in Nat /\ Now({"first", "last"}) \in Nat
        /\ Now(Unnoted) \in Nat
    BY NowIsNat
  <2>2. /\ thread[t].at \notin {"classify"} /\ thread[t].at \notin {"first", "last"}
        /\ thread[t].at \notin Unnoted /\ where # "last"
    BY <1>1, <1>2 DEF Unnoted
  <2>3. \A places : Now(places)' =
           Now(places) + (IF thread'[t].at \in places THEN 1 ELSE 0)
                       - (IF thread[t].at \in places THEN 1 ELSE 0)
    BY <1>4, Moves
  <2>4. QED
    BY <1>3, <1>4, <2>1, <2>2, <2>3
<1>10. /\ Now({"classify"}) \in Nat /\ Now({"first", "last"}) \in Nat /\ Now(Unnoted) \in Nat
       /\ Met({"classify"}) \in Nat /\ Met({"first", "last"}) \in Nat /\ Met(Unnoted) \in Nat
  BY NowIsNat
<1>11. \A places : Met(places)' = Met(places)
  BY <1>1, MetStays
<1>12. ClassesAdd'
  <2>1. /\ count.menuTrue \in Nat /\ count.menuFalse \in Nat /\ count.menuUnknown \in Nat
        /\ count.total \in Nat
    BY DEF CountTypes
  <2>2. CASE kind = "slot"
    <3>1. Now({"classify"})' = Now({"classify"}) + 1
      BY <1>2, <1>9, <2>2
    <3>2. QED
      BY <1>1, <1>5, <1>10, <1>11, <2>1, <2>2, <3>1 DEF ClassesAdd
  <2>3. CASE kind # "slot"
    <3>1. Now({"classify"})' = Now({"classify"})
      BY <1>2, <1>9, <1>10, <2>3
    <3>2. QED
      BY <1>1, <1>5, <2>3, <3>1 DEF ClassesAdd
  <2>4. QED
    BY <2>2, <2>3
<1>13. /\ Len(since.noted) \in Nat /\ Len(since.path) \in Nat /\ count.total \in Nat
  BY DEF CountTypes
<1>14. ThreadsAdd'
  <2>1. Len(since.noted) + Now(Unnoted) = count.total + Met(Unnoted)
    BY DEF ThreadsAdd
  <2>2. Len(since.noted) + Now(Unnoted)' = count'.total + Met(Unnoted)
    <3> DEFINE noted == Len(since.noted)
               before == Now(Unnoted)
               after == Now(Unnoted)'
               total == count.total
               next == count'.total
               met == Met(Unnoted)
    <3>1. after = before + 1 /\ next = total + 1 /\ noted + before = total + met
      BY <1>5, <1>9, <2>1
    <3>2. noted \in Nat /\ before \in Nat /\ total \in Nat /\ met \in Nat
      BY <1>10, <1>13
    <3> HIDE DEF noted, before, after, total, next, met
    <3>3. noted + after = next + met
      BY <3>1, <3>2
    <3>4. QED
      BY <3>3 DEF noted, after, next, met
  <2>3. QED
    BY <1>1, <1>5, <1>11, <2>2 DEF ThreadsAdd
<1>15. PathAdds'
  <2>1. CASE kind = "subtick"
    <3>1. Now({"first", "last"})' = Now({"first", "last"}) + 1
      BY <1>2, <1>9, <2>1
    <3>2. Len(since.path) + Now({"first", "last"}) = count.total + Met({"first", "last"})
      BY <2>1 DEF PathAdds
    <3>3. Len(since.path) + Now({"first", "last"})' = count'.total + Met({"first", "last"})
      <4> DEFINE path == Len(since.path)
                 before == Now({"first", "last"})
                 after == Now({"first", "last"})'
                 total == count.total
                 next == count'.total
                 met == Met({"first", "last"})
      <4>1. after = before + 1 /\ next = total + 1 /\ path + before = total + met
        BY <1>5, <3>1, <3>2
      <4>2. path \in Nat /\ before \in Nat /\ total \in Nat /\ met \in Nat
        BY <1>10, <1>13
      <4> HIDE DEF path, before, after, total, next, met
      <4>3. path + after = next + met
        BY <4>1, <4>2
      <4>4. QED
        BY <4>3 DEF path, after, next, met
    <3>4. QED
      BY <1>1, <1>5, <1>11, <2>1, <3>3 DEF PathAdds
  <2>2. CASE kind # "subtick"
    <3>1. Now({"first", "last"})' = Now({"first", "last"})
      BY <1>2, <1>9, <1>10, <2>2
    <3>2. QED
      BY <1>1, <1>5, <2>2, <3>1 DEF PathAdds
  <2>3. QED
    BY <2>1, <2>2
<1>16. QED
  BY <1>7, <1>8, <1>12, <1>14, <1>15

LEMMA FirstKeepsCalls ==
  ASSUME CallsInv, NEW t \in Threads, SubTickFirst(t)
  PROVE  CallsInv'
<1> USE DEF CallsInv
<1>1. /\ thread[t].at = "first" /\ UNCHANGED <<kind, stats, since>> /\ Goes(t, "last")
      /\ count' = IF count.firstInstance = None
                  THEN [count EXCEPT !.firstInstance = thread[t].instance] ELSE count
      /\ kind = "subtick" /\ thread[t].instance \in Instances
  BY DEF SubTickFirst, At, CountTypes
<1>2. /\ \A u \in Threads : u # t => thread'[u] = thread[u]
      /\ thread'[t].at = "last" /\ thread'[t].instance = thread[t].instance
      /\ thread' \in [Threads -> [at : Places, instance : Instances \cup {None}]]
  BY <1>1, Went DEF Places, Counted
<1>3. /\ DOMAIN count' = CountFields
      /\ count'.inFlight = count.inFlight
      /\ count'.total = count.total /\ count'.previous = count.previous
      /\ count'.menuTrue = count.menuTrue /\ count'.menuFalse = count.menuFalse
      /\ count'.menuUnknown = count.menuUnknown /\ count'.firstThread = count.firstThread
      /\ count'.otherThreads = count.otherThreads
      /\ count'.lastInstance = count.lastInstance
      /\ count'.transitions = count.transitions
  BY <1>1 DEF CountTypes, CountFields
<1>4. CountTypes'
  BY <1>1, <1>2, <1>3 DEF CountTypes
<1>5. FlightAdds'
  BY <1>1, <1>2, <1>3, FlightMoves DEF Counted
<1>6. /\ Now({"classify"})' = Now({"classify"}) /\ Now(Unnoted)' = Now(Unnoted)
      /\ Now({"first", "last"})' = Now({"first", "last"})
  BY <1>1, <1>2, NowStays DEF Unnoted
<1>7. \A places : Met(places)' = Met(places)
  BY <1>1, MetStays
<1>8. ClassesAdd' /\ ThreadsAdd' /\ PathAdds'
  BY <1>1, <1>3, <1>6, <1>7 DEF ClassesAdd, ThreadsAdd, PathAdds
<1>9. QED
  BY <1>4, <1>5, <1>8

LEMMA LastKeepsCalls ==
  ASSUME CallsInv, NEW t \in Threads, SubTickLast(t)
  PROVE  CallsInv'
<1> USE DEF CallsInv
<1> DEFINE moves == count.lastInstance \notin {None, thread[t].instance}
<1>1. /\ thread[t].at = "last" /\ UNCHANGED <<kind, stats>> /\ Goes(t, "thread")
      /\ count' = [count EXCEPT !.lastInstance = thread[t].instance,
                                !.transitions = IF moves THEN @ + 1 ELSE @]
      /\ since' = [since EXCEPT !.path = Append(@, thread[t].instance)]
      /\ kind = "subtick" /\ thread[t].instance \in Instances
  BY DEF SubTickLast, At, CountTypes
<1>2. /\ \A u \in Threads : u # t => thread'[u] = thread[u]
      /\ thread'[t].at = "thread"
      /\ thread' \in [Threads -> [at : Places, instance : Instances \cup {None}]]
  BY <1>1, Went DEF Places, Counted
<1>3. /\ DOMAIN count' = CountFields
      /\ count'.inFlight = count.inFlight
      /\ count'.total = count.total /\ count'.previous = count.previous
      /\ count'.menuTrue = count.menuTrue /\ count'.menuFalse = count.menuFalse
      /\ count'.menuUnknown = count.menuUnknown /\ count'.firstThread = count.firstThread
      /\ count'.otherThreads = count.otherThreads
      /\ count'.lastInstance = thread[t].instance
      /\ count'.transitions = IF moves THEN count.transitions + 1 ELSE count.transitions
  BY <1>1 DEF CountTypes, CountFields
<1>4. /\ DOMAIN since' = {"met", "noted", "path"}
      /\ since'.met = since.met /\ since'.noted = since.noted
      /\ since'.path = Append(since.path, thread[t].instance)
      /\ since'.path \in Seq(Instances)
  BY <1>1 DEF CountTypes
<1>5. CountTypes'
  <2>1. count'.transitions \in Nat
    BY <1>3, SMTT(30) DEF CountTypes
  <2>2. QED
    BY <1>1, <1>2, <1>3, <1>4, <2>1 DEF CountTypes
<1>6. FlightAdds'
  BY <1>1, <1>2, <1>3, <1>4, FlightMoves DEF Counted
<1>7. /\ Now({"classify"})' = Now({"classify"}) /\ Now(Unnoted)' = Now(Unnoted)
  BY <1>1, <1>2, NowStays DEF Unnoted
<1>8. Now({"first", "last"})' = Now({"first", "last"}) - 1
  <2>1. Now({"first", "last"}) \in Nat
    BY NowIsNat
  <2>2. Now({"first", "last"})' =
          Now({"first", "last"}) + (IF thread'[t].at \in {"first", "last"} THEN 1 ELSE 0)
                                 - (IF thread[t].at \in {"first", "last"} THEN 1 ELSE 0)
    BY <1>2, Moves
  <2>3. QED
    BY <1>1, <1>2, <2>1, <2>2
<1>9. \A places : Met(places)' = Met(places)
  BY <1>4, MetStays
<1>10. ClassesAdd' /\ ThreadsAdd'
  BY <1>1, <1>3, <1>4, <1>7, <1>9 DEF ClassesAdd, ThreadsAdd
<1>11. PathAdds'
  <2> DEFINE path == since.path
             i == thread[t].instance
  <2>1. /\ path \in Seq(Instances) /\ i \in Instances /\ i # None
        /\ Len(path) \in Nat /\ Len(Append(path, i)) = Len(path) + 1
        /\ Append(path, i) # <<>> /\ Append(path, i)[Len(path) + 1] = i
    <3>1. path \in Seq(Instances) /\ i \in Instances /\ i # None
      BY <1>1, GameAssumption DEF CountTypes
    <3> HIDE DEF path, i
    <3>2. Len(path) \in Nat /\ Len(Append(path, i)) = Len(path) + 1
      BY <3>1
    <3>3. Append(path, i) # <<>> /\ Append(path, i)[Len(path) + 1] = i
      BY <3>1, <3>2
    <3>4. QED
      BY <3>1, <3>2, <3>3
  <2>2. path # <<>> => path[Len(path)] # None
    <3>1. path # <<>> => Len(path) \in 1..Len(path)
      BY <2>1
    <3>2. path # <<>> => path[Len(path)] \in Instances
      BY <2>1, <3>1
    <3>3. QED
      BY <3>2, GameAssumption
  <2>3. /\ path = <<>> => Changes(Append(path, i)) = 0
        /\ path # <<>> => Changes(Append(path, i)) =
                            Changes(path) + (IF i = path[Len(path)] THEN 0 ELSE 1)
    BY <2>1, ChangesGrow
  <2>4. path = <<>> => Changes(path) = 0
    BY ZeroCounts
  <2>5. /\ count.lastInstance = IF path = <<>> THEN None ELSE path[Len(path)]
        /\ count.transitions = Changes(path) /\ count.transitions \in Nat
    BY DEF PathAdds, CountTypes
  <2>6. count'.transitions = Changes(Append(path, i))
    <3>1. CASE path = <<>>
      BY <1>3, <2>3, <2>4, <2>5, <3>1
    <3>2. CASE path # <<>>
      BY <1>3, <2>2, <2>3, <2>5, <3>2
    <3>3. QED
      BY <3>1, <3>2
  <2>7. Len(Append(path, i)) + Now({"first", "last"})' =
          IF kind = "subtick" THEN count.total + Met({"first", "last"}) ELSE 0
    <3>1. Now({"first", "last"}) \in Nat
      BY NowIsNat
    <3>2. QED
      BY <1>1, <1>8, <2>1, <3>1 DEF PathAdds
  <2>8. QED
    BY <1>1, <1>3, <1>4, <1>9, <2>1, <2>6, <2>7 DEF PathAdds
<1>12. QED
  BY <1>5, <1>6, <1>10, <1>11

LEMMA ClassifyKeepsCalls ==
  ASSUME CallsInv, NEW t \in Threads, SlotClassify(t)
  PROVE  CallsInv'
<1> USE DEF CallsInv
<1>1. /\ thread[t].at = "classify" /\ UNCHANGED <<kind, stats, since>> /\ Goes(t, "thread")
      /\ \/ count' = [count EXCEPT !.menuTrue = @ + 1]
         \/ count' = [count EXCEPT !.menuFalse = @ + 1]
         \/ count' = [count EXCEPT !.menuUnknown = @ + 1]
      /\ kind = "slot"
  <2>1. CASE menu.state = 1
    BY <2>1 DEF SlotClassify, At, CountTypes
  <2>2. CASE menu.state = 0
    BY <2>2 DEF SlotClassify, At, CountTypes
  <2>3. CASE menu.state # 1 /\ menu.state # 0
    BY <2>3 DEF SlotClassify, At, CountTypes
  <2>4. QED
    BY <2>1, <2>2, <2>3
<1>2. /\ \A u \in Threads : u # t => thread'[u] = thread[u]
      /\ thread'[t].at = "thread"
      /\ thread' \in [Threads -> [at : Places, instance : Instances \cup {None}]]
  BY <1>1, Went DEF Places, Counted
<1>3. /\ DOMAIN count' = CountFields
      /\ count'.inFlight = count.inFlight
      /\ count'.total = count.total /\ count'.previous = count.previous
      /\ count'.menuTrue \in Nat /\ count'.menuFalse \in Nat /\ count'.menuUnknown \in Nat
      /\ count'.menuTrue + count'.menuFalse + count'.menuUnknown
           = count.menuTrue + count.menuFalse + count.menuUnknown + 1
      /\ count'.firstThread = count.firstThread
      /\ count'.otherThreads = count.otherThreads
      /\ count'.lastInstance = count.lastInstance
      /\ count'.transitions = count.transitions
  <2>1. CASE count' = [count EXCEPT !.menuTrue = @ + 1]
    <3>1. /\ DOMAIN count' = CountFields /\ count'.menuTrue = count.menuTrue + 1
          /\ \A f \in CountFields \ {"menuTrue"} : count'[f] = count[f]
      BY <2>1 DEF CountTypes, CountFields
    <3>2. /\ count'.menuFalse = count.menuFalse /\ count'.menuUnknown = count.menuUnknown
          /\ count'.inFlight = count.inFlight
          /\ count'.total = count.total /\ count'.previous = count.previous
          /\ count'.firstThread = count.firstThread
          /\ count'.otherThreads = count.otherThreads
          /\ count'.lastInstance = count.lastInstance
          /\ count'.transitions = count.transitions
      BY <3>1 DEF CountFields
    <3>3. /\ count.menuTrue \in Nat /\ count.menuFalse \in Nat
          /\ count.menuUnknown \in Nat
      BY DEF CountTypes
    <3>4. QED
      BY <3>1, <3>2, <3>3
  <2>2. CASE count' = [count EXCEPT !.menuFalse = @ + 1]
    <3>1. /\ DOMAIN count' = CountFields /\ count'.menuFalse = count.menuFalse + 1
          /\ \A f \in CountFields \ {"menuFalse"} : count'[f] = count[f]
      BY <2>2 DEF CountTypes, CountFields
    <3>2. /\ count'.menuTrue = count.menuTrue /\ count'.menuUnknown = count.menuUnknown
          /\ count'.inFlight = count.inFlight
          /\ count'.total = count.total /\ count'.previous = count.previous
          /\ count'.firstThread = count.firstThread
          /\ count'.otherThreads = count.otherThreads
          /\ count'.lastInstance = count.lastInstance
          /\ count'.transitions = count.transitions
      BY <3>1 DEF CountFields
    <3>3. /\ count.menuTrue \in Nat /\ count.menuFalse \in Nat
          /\ count.menuUnknown \in Nat
      BY DEF CountTypes
    <3>4. QED
      BY <3>1, <3>2, <3>3
  <2>3. CASE count' = [count EXCEPT !.menuUnknown = @ + 1]
    <3>1. /\ DOMAIN count' = CountFields /\ count'.menuUnknown = count.menuUnknown + 1
          /\ \A f \in CountFields \ {"menuUnknown"} : count'[f] = count[f]
      BY <2>3 DEF CountTypes, CountFields
    <3>2. /\ count'.menuTrue = count.menuTrue /\ count'.menuFalse = count.menuFalse
          /\ count'.inFlight = count.inFlight
          /\ count'.total = count.total /\ count'.previous = count.previous
          /\ count'.firstThread = count.firstThread
          /\ count'.otherThreads = count.otherThreads
          /\ count'.lastInstance = count.lastInstance
          /\ count'.transitions = count.transitions
      BY <3>1 DEF CountFields
    <3>3. /\ count.menuTrue \in Nat /\ count.menuFalse \in Nat
          /\ count.menuUnknown \in Nat
      BY DEF CountTypes
    <3>4. QED
      BY <3>1, <3>2, <3>3
  <2>4. QED
    BY <1>1, <2>1, <2>2, <2>3
<1>4. CountTypes'
  BY <1>1, <1>2, <1>3 DEF CountTypes
<1>5. FlightAdds'
  BY <1>1, <1>2, <1>3, FlightMoves DEF Counted
<1>6. /\ Now({"first", "last"})' = Now({"first", "last"})
      /\ Now(Unnoted)' = Now(Unnoted)
  BY <1>1, <1>2, NowStays DEF Unnoted
<1>7. \A places : Met(places)' = Met(places)
  BY <1>1, MetStays
<1>8. ClassesAdd'
  <2>1. Now({"classify"}) \in Nat
    BY NowIsNat
  <2>2. Now({"classify"})' = Now({"classify"})
          + (IF thread'[t].at \in {"classify"} THEN 1 ELSE 0)
          - (IF thread[t].at \in {"classify"} THEN 1 ELSE 0)
    BY <1>2, Moves
  <2>3. Now({"classify"})' = Now({"classify"}) - 1
    BY <1>1, <1>2, <2>1, <2>2
  <2>4. /\ count.menuTrue \in Nat /\ count.menuFalse \in Nat /\ count.menuUnknown \in Nat
        /\ count.total \in Nat /\ Met({"classify"}) \in Nat
    BY NowIsNat DEF CountTypes
  <2>5. count.menuTrue + count.menuFalse + count.menuUnknown + Now({"classify"})
          = count.total + Met({"classify"})
    BY <1>1 DEF ClassesAdd
  <2>6. count'.menuTrue + count'.menuFalse + count'.menuUnknown + Now({"classify"})'
          = count'.total + Met({"classify"})
    BY <1>3, <2>1, <2>3, <2>4, <2>5
  <2>7. QED
    BY <1>1, <1>7, <2>6 DEF ClassesAdd
<1>9. ThreadsAdd' /\ PathAdds'
  BY <1>1, <1>3, <1>6, <1>7 DEF ThreadsAdd, PathAdds
<1>10. QED
  BY <1>4, <1>5, <1>8, <1>9

LEMMA ThreadKeepsCalls ==
  ASSUME CallsInv, NEW t \in Threads, RecordThread(t)
  PROVE  CallsInv'
<1> USE DEF CallsInv
<1>1. /\ thread[t].at = "thread" /\ UNCHANGED <<kind, stats>> /\ Goes(t, "end")
      /\ count' = [count EXCEPT
           !.firstThread = IF @ = None THEN t ELSE @,
           !.otherThreads = IF count.firstThread \in {None, t} THEN @ ELSE @ + 1]
      /\ since' = [since EXCEPT !.noted = Append(@, t)]
  BY DEF RecordThread, At
<1>2. /\ \A u \in Threads : u # t => thread'[u] = thread[u]
      /\ thread'[t].at = "end"
      /\ thread' \in [Threads -> [at : Places, instance : Instances \cup {None}]]
  BY <1>1, Went DEF Places, Counted
<1>3. /\ DOMAIN count' = CountFields
      /\ count'.inFlight = count.inFlight
      /\ count'.total = count.total /\ count'.previous = count.previous
      /\ count'.menuTrue = count.menuTrue /\ count'.menuFalse = count.menuFalse
      /\ count'.menuUnknown = count.menuUnknown
      /\ count'.firstThread = IF count.firstThread = None THEN t ELSE count.firstThread
      /\ count'.otherThreads = IF count.firstThread \in {None, t} THEN count.otherThreads
                               ELSE count.otherThreads + 1
      /\ count'.lastInstance = count.lastInstance
      /\ count'.transitions = count.transitions
  BY <1>1 DEF CountTypes, CountFields
<1>4. /\ DOMAIN since' = {"met", "noted", "path"}
      /\ since'.met = since.met /\ since'.path = since.path
      /\ since'.noted = Append(since.noted, t)
      /\ since'.noted \in Seq(Threads)
  BY <1>1 DEF CountTypes
<1>5. CountTypes'
  <2>1. count'.otherThreads \in Nat
    BY <1>3, SMTT(30) DEF CountTypes
  <2>2. QED
    BY <1>1, <1>2, <1>3, <1>4, <2>1, ZenonT(30) DEF CountTypes
<1>6. FlightAdds'
  BY <1>1, <1>2, <1>3, <1>4, FlightMoves DEF Counted
<1>7. /\ Now({"classify"})' = Now({"classify"})
      /\ Now({"first", "last"})' = Now({"first", "last"})
  BY <1>1, <1>2, NowStays
<1>8. Now(Unnoted)' = Now(Unnoted) - 1 /\ Now(Unnoted) \in Nat
  <2>1. Now(Unnoted) \in Nat
    BY NowIsNat
  <2>2. Now(Unnoted)' = Now(Unnoted) + (IF thread'[t].at \in Unnoted THEN 1 ELSE 0)
                                     - (IF thread[t].at \in Unnoted THEN 1 ELSE 0)
    BY <1>2, Moves
  <2>3. thread[t].at \in Unnoted /\ thread'[t].at \notin Unnoted
    BY <1>1, <1>2 DEF Unnoted
  <2>4. QED
    BY <2>1, <2>2, <2>3
<1>9. \A places : Met(places)' = Met(places)
  BY <1>4, MetStays
<1>10. ClassesAdd' /\ PathAdds'
  BY <1>1, <1>3, <1>4, <1>7, <1>9 DEF ClassesAdd, PathAdds
<1>11. ThreadsAdd'
  <2> DEFINE noted == since.noted
  <2>1. /\ noted \in Seq(Threads) /\ Len(noted) \in Nat /\ t # None
        /\ Len(Append(noted, t)) = Len(noted) + 1 /\ Append(noted, t) # <<>>
        /\ Append(noted, t)[1] = IF noted = <<>> THEN t ELSE noted[1]
    <3>1. noted \in Seq(Threads) /\ t # None
      BY GameAssumption DEF CountTypes
    <3> HIDE DEF noted
    <3>2. Len(noted) \in Nat /\ Len(Append(noted, t)) = Len(noted) + 1
      BY <3>1
    <3>3. noted = <<>> => Append(noted, t)[1] = t
      BY <3>1
    <3>4. noted # <<>> => Append(noted, t)[1] = noted[1]
      BY <3>1, <3>2
    <3>5. Append(noted, t) # <<>>
      BY <3>1, <3>2
    <3>6. QED
      BY <3>1, <3>2, <3>3, <3>4, <3>5
  <2>2. noted # <<>> => noted[1] # None
    <3>1. noted # <<>> => noted[1] \in Threads
      BY <2>1
    <3>2. QED
      BY <3>1, GameAssumption
  <2>3. /\ noted = <<>> => Others(Append(noted, t)) = 0
        /\ noted # <<>> => Others(Append(noted, t)) =
                             Others(noted) + (IF t = noted[1] THEN 0 ELSE 1)
    BY <2>1, OthersGrow
  <2>4. noted = <<>> => Others(noted) = 0
    BY ZeroCounts
  <2>5. /\ count.firstThread = IF noted = <<>> THEN None ELSE noted[1]
        /\ count.otherThreads = Others(noted) /\ count.otherThreads \in Nat
    BY DEF ThreadsAdd, CountTypes
  <2>6. /\ count'.firstThread = Append(noted, t)[1]
        /\ count'.otherThreads = Others(Append(noted, t))
    <3>1. CASE noted = <<>>
      BY <1>3, <2>1, <2>3, <2>4, <2>5, <3>1
    <3>2. CASE noted # <<>>
      BY <1>3, <2>1, <2>2, <2>3, <2>5, <3>2
    <3>3. QED
      BY <3>1, <3>2
  <2>7. Len(Append(noted, t)) + Now(Unnoted)' = count'.total + Met(Unnoted)
    BY <1>3, <1>8, <2>1 DEF ThreadsAdd
  <2>8. QED
    BY <1>4, <1>9, <2>1, <2>6, <2>7 DEF ThreadsAdd
<1>12. QED
  BY <1>5, <1>6, <1>10, <1>11

LEMMA CallsInductive == CallsInv /\ [Next]_vars => CallsInv'
<1> SUFFICES ASSUME CallsInv, [Next]_vars PROVE CallsInv'
  OBVIOUS
<1>1. CASE UNCHANGED vars
  BY <1>1, CallsUntouched DEF vars
<1>2. CASE Installing
  <2>1. CASE SubTickInstall \/ SlotInstall \/ V3Install
    BY <2>1, ArmKeepsCalls DEF SubTickInstall, SlotInstall, V3Install
  <2>2. CASE InstallAgain \/ HookMenu \/ StoreMenuOriginal \/ StartWorker
    BY <2>2, CallsUntouched DEF InstallAgain, HookMenu, StoreMenuOriginal, StartWorker
  <2>3. QED
    BY <1>2, <2>1, <2>2 DEF Installing
<1>3. CASE Waiting \/ Patching \/ Pass \/ Beat \/ ForeignWrite
  <2>1. UNCHANGED <<kind, stats, count, thread, since>>
    BY <1>3 DEF Waiting, SubTickPoll, SlotPoll, V3Poll, DelayedPoll, Polls, StopWaiting,
       Patching, SubTickPatch, SlotPatch, V3Patch, PatchSlot, Pass, Beat, ForeignWrite
  <2>2. QED
    BY <2>1, CallsUntouched
<1>4. CASE Sampling
  <2>1. CASE SubTickSample \/ V3Sample
    BY <2>1, ReportKeepsCalls DEF SubTickSample, V3Sample, Sample
  <2>2. CASE BeginInterval \/ SleepSlice \/ StopSampling
    BY <2>2, CallsUntouched DEF BeginInterval, SleepSlice, StopSampling
  <2>3. CASE EndInterval
    <3>1. Report /\ UNCHANGED <<kind, thread, since>>
      BY <2>3 DEF EndInterval
    <3>2. \/ UNCHANGED stats
          \/ \E s \in {0, 1} : stats' = [stats EXCEPT ![s] =
                 updateIntervalStats(@, count.total - count.previous)]
      BY <2>3 DEF EndInterval
    <3>3. QED
      BY <3>1, <3>2, ReportKeepsCalls
  <2>4. QED
    BY <1>4, <2>1, <2>2, <2>3 DEF Sampling
<1>5. CASE Uninstalling
  <2>1. UNCHANGED <<kind, stats, count, thread, since>>
    BY <1>5 DEF Uninstalling, RequestStop, Join, SubTickRestore, SlotRestore, V3Restore,
       RestoreSlot, Unhook, SubTickFinish, SlotFinish, V3Finish, Finish
  <2>2. QED
    BY <2>1, CallsUntouched
<1>6. ASSUME NEW t \in Threads, Recording(t) \/ Asking(t) PROVE CallsInv'
  BY <1>6, WaysKeepCalls, BeginKeepsCalls, FirstKeepsCalls, LastKeepsCalls,
     ClassifyKeepsCalls, ThreadKeepsCalls
     DEF Recording, SubTickTrampoline, SlotTrampoline, V3Trampoline
<1>7. QED
  BY <1>1, <1>2, <1>3, <1>4, <1>5, <1>6 DEF Next

\* ExactCalls: at every instant, also when several threads are in record() and when
\* install() zeroed the counters under them, the counters are what the calls since
\* then make them: in flight, by menu state, by other threads than the first, and
\* the changes of instance.
THEOREM ExactCalls == Spec => []ProbeCallsAddUp
<1>1. CallsInv => ProbeCallsAddUp
  BY DEF CallsInv, CountTypes, FlightAdds, ClassesAdd, ThreadsAdd, PathAdds,
    ProbeCallsAddUp
<1>2. QED
  BY <1>1, InitialCalls, CallsInductive, PTL DEF Spec

-----------------------------------------------------------------------------
(* The static scan of the heartbeat hook.                                  *)

Loops == {"branches", "pointers", "calls"}

ScanTypes ==
  /\ pc \in Loops \cup {"tables", "finish", "sample", "done"}
  /\ stopRequested \in BOOLEAN /\ readsAfterStop \in Nat
  /\ DOMAIN at = {"table", "region", "address"}
  /\ DOMAIN discovery = DOMAIN Scan!Nothing
  /\ DOMAIN discovery.scanned = Loops
  /\ \A loop \in Loops :
       discovery.scanned[loop] \in Nat /\ discovery.scanned[loop] % Scan!Unit(loop) = 0

\* Bytes the loop has scanned since it last looked at the flag.
Since(loop) == discovery.scanned[loop] % Stride

StopInv ==
  /\ ScanTypes
  /\ ~stopRequested => readsAfterStop = 0
  /\ readsAfterStop <= Stride
  /\ stopRequested /\ pc \in Loops /\ at.address # -1 =>
       readsAfterStop <= IF Since(pc) = 0 THEN Stride ELSE Since(pc)
  /\ pc = "tables" => at.address = -1
  /\ pc = "done" => stopRequested

LEMMA UniqueRemainder ==
  ASSUME NEW S \in Nat, S # 0, NEW n \in Nat, NEW u \in Nat, (n % S) + u < S
  PROVE  (n + u) % S = (n % S) + u
<1> DEFINE q == n \div S
           r == n % S
           p == (n + u) \div S
           m == (n + u) % S
<1>1. q \in Int /\ r \in 0 .. S - 1 /\ n = S * q + r
  OBVIOUS
<1>2. p \in Int /\ m \in 0 .. S - 1 /\ n + u = S * p + m
  OBVIOUS
<1> HIDE DEF q, r, p, m
<1>3. S * (p - q) = r + u - m
  BY <1>1, <1>2
<1>4. r + u - m \in -(S - 1) .. S - 1
  BY <1>1, <1>2 DEF r
<1>5. p - q = 0
  BY <1>1, <1>2, <1>3, <1>4
<1>6. QED
  BY <1>3, <1>5, <1>1, <1>2 DEF r, m

LEMMA StrideEnds ==
  ASSUME NEW S \in Nat, S # 0, NEW n \in Nat, NEW u \in Nat, (n % S) + u = S
  PROVE  (n + u) % S = 0
<1> DEFINE q == n \div S
           r == n % S
           p == (n + u) \div S
           m == (n + u) % S
<1>1. q \in Int /\ r \in 0 .. S - 1 /\ n = S * q + r
  OBVIOUS
<1>2. p \in Int /\ m \in 0 .. S - 1 /\ n + u = S * p + m
  OBVIOUS
<1> HIDE DEF q, p, m
<1>3. r + u = S
  OBVIOUS
<1> HIDE DEF r
<1>4. S * (p - (q + 1)) = -m
  BY <1>1, <1>2, <1>3
<1>5. p - (q + 1) = 0
  BY <1>1, <1>2, <1>4
<1>6. QED
  BY <1>4, <1>5, <1>2 DEF m

LEMMA WholeWords ==
  ASSUME NEW n \in Nat, NEW u \in {4, 8}, n % u = 0
  PROVE  (n % Stride) + u <= Stride
<1> DEFINE q == n \div Stride
           r == n % Stride
<1>1. q \in Int /\ r \in 0 .. Stride - 1 /\ n = Stride * q + r
  BY StrideAssumption
<1> HIDE DEF q, r
<1>2. PICK k \in Int : Stride = u * k
  <2>1. Stride \div 8 \in Int /\ Stride = 8 * (Stride \div 8)
    BY StrideAssumption
  <2>2. CASE u = 4
    <3>1. 2 * (Stride \div 8) \in Int /\ Stride = 4 * (2 * (Stride \div 8))
      BY <2>1
    <3>2. QED
      BY <2>2, <3>1
  <2>3. CASE u = 8
    BY <2>1, <2>3
  <2>4. QED
    BY <2>2, <2>3
<1>3. PICK l \in Int : n = u * l
  <2>1. CASE u = 4
    <3>1. n \div 4 \in Int /\ n = 4 * (n \div 4)
      BY <2>1
    <3>2. QED
      BY <2>1, <3>1
  <2>2. CASE u = 8
    <3>1. n \div 8 \in Int /\ n = 8 * (n \div 8)
      BY <2>2
    <3>2. QED
      BY <2>2, <3>1
  <2>3. QED
    BY <2>1, <2>2
<1>4. r = u * (l - k * q)
  <2>1. Stride * q = u * (k * q)
    BY <1>1, <1>2
  <2>2. k * q \in Int
    BY <1>1
  <2> HIDE DEF r
  <2>3. r = u * l - u * (k * q)
    BY <1>1, <1>2, <1>3, <2>1
  <2>4. CASE u = 4
    BY <2>2, <2>3, <2>4
  <2>5. CASE u = 8
    BY <2>2, <2>3, <2>5
  <2>6. QED
    BY <2>4, <2>5
<1>5. k * q \in Int
  BY <1>1
<1>6. r + u <= Stride
  <2> DEFINE j == l - k * q
  <2>1. j \in Int /\ r = u * j
    BY <1>4, <1>5
  <2> HIDE DEF j
  <2>2. u * j < u * k
    BY <1>1, <1>2, <2>1
  <2>3. CASE u = 4
    BY <1>2, <2>1, <2>2, <2>3
  <2>4. CASE u = 8
    BY <1>2, <2>1, <2>2, <2>4
  <2>5. QED
    BY <2>3, <2>4
<1>7. QED
  BY <1>6 DEF r

LEMMA UnitBytes ==
  ASSUME NEW loop \in Loops
  PROVE  Scan!Unit(loop) \in {4, 8}
BY DEF Scan!Unit, Scan!Insn, Scan!Pointer

\* What a loop finds leaves its counter alone.
LEMMA FoundLeavesCounter ==
  ASSUME ScanTypes, NEW a, NEW r, NEW t,
         NEW found \in {Scan!BranchesAfter(a, discovery), Scan!PointersAfter(a, discovery),
                        Scan!CallsAfter(a, r, t, discovery)}
  PROVE  DOMAIN found = DOMAIN Scan!Nothing /\ found.scanned = discovery.scanned
<1> DEFINE F == DOMAIN Scan!Nothing
<1>1. /\ F = {"branches", "branchCount", "pointers", "pointerCount", "tables", "calls",
              "callCount", "cancelled", "complete", "scanned"}
      /\ DOMAIN discovery = F
  BY DEF Scan!Nothing, ScanTypes
<1>2. CASE found = Scan!BranchesAfter(a, discovery)
  BY <1>1, <1>2 DEF Scan!BranchesAfter
<1>3. CASE found = Scan!PointersAfter(a, discovery)
  BY <1>1, <1>3 DEF Scan!PointersAfter
<1>4. CASE found = Scan!CallsAfter(a, r, t, discovery)
  BY <1>1, <1>4 DEF Scan!CallsAfter
<1>5. QED
  BY <1>2, <1>3, <1>4

LEMMA ReadKeepsStop ==
  ASSUME StopInv, NEW loop \in Loops, NEW found, Scan!Read(loop, found),
         DOMAIN found = DOMAIN Scan!Nothing, found.scanned = discovery.scanned
  PROVE  StopInv'
<1> DEFINE u == Scan!Unit(loop)
           n == discovery.scanned[loop]
<1>1. /\ pc = loop /\ at.address # -1 /\ UNCHANGED <<stopRequested, pc>>
      /\ ~(Scan!ChecksStop(loop) /\ stopRequested)
      /\ discovery' = [found EXCEPT !.scanned[loop] = @ + u]
      /\ at' = [at EXCEPT !.address = @ + u]
      /\ readsAfterStop' = IF stopRequested THEN readsAfterStop + u ELSE 0
  BY DEF Scan!Read, Scan!AtWord, Scan!Scanning, Scan!InRegions
<1>2. u \in {4, 8} /\ n \in Nat /\ n % u = 0
  BY UnitBytes DEF StopInv, ScanTypes
<1>3. /\ DOMAIN discovery' = DOMAIN Scan!Nothing
      /\ DOMAIN discovery'.scanned = Loops
      /\ discovery'.scanned[loop] = n + u
      /\ \A l \in Loops : l # loop => discovery'.scanned[l] = discovery.scanned[l]
  BY <1>1 DEF StopInv, ScanTypes, Scan!Nothing
<1>4. (n + u) \in Nat /\ (n + u) % u = 0
  <2> HIDE DEF u, n
  <2>1. CASE u = 4
    BY <1>2, <2>1
  <2>2. CASE u = 8
    BY <1>2, <2>2
  <2>3. QED
    BY <1>2, <2>1, <2>2
<1>5. ScanTypes'
  BY <1>1, <1>2, <1>3, <1>4 DEF StopInv, ScanTypes
<1>6. ASSUME stopRequested
      PROVE  /\ readsAfterStop + u <= Stride
             /\ readsAfterStop + u <= IF (n + u) % Stride = 0 THEN Stride
                                      ELSE (n + u) % Stride
  <2>1. Stride \in Nat /\ Stride # 0 /\ n % Stride \in 0 .. Stride - 1
    BY <1>2, StrideAssumption
  <2>2. n % Stride # 0 /\ readsAfterStop <= n % Stride /\ readsAfterStop \in Nat
    BY <1>1, <1>6 DEF Scan!ChecksStop, StopInv, Since, ScanTypes
  <2>3. (n % Stride) + u <= Stride
    BY <1>2, WholeWords
  <2> HIDE DEF n, u
  <2>0. u \in Nat
    BY <1>2
  <2>4. CASE (n % Stride) + u = Stride
    <3>1. (n + u) % Stride = 0
      BY <1>2, <2>0, <2>1, <2>4, StrideEnds, Zenon
    <3>2. QED
      BY <1>2, <2>1, <2>2, <2>4, <3>1
  <2>5. CASE (n % Stride) + u < Stride
    <3>1. (n + u) % Stride = (n % Stride) + u
      BY <1>2, <2>0, <2>1, <2>5, UniqueRemainder, Zenon
    <3> DEFINE r == n % Stride
               s == (n + u) % Stride
    <3>2. s = r + u /\ r # 0 /\ readsAfterStop <= r /\ r \in Nat
      BY <2>1, <2>2, <3>1
    <3> HIDE DEF r, s
    <3>3. s # 0 /\ readsAfterStop + u <= s /\ s < Stride
      BY <1>2, <2>2, <2>5, <3>2 DEF r
    <3>4. QED
      BY <1>2, <2>1, <2>2, <3>3 DEF s
  <2>6. QED
    BY <1>2, <2>1, <2>3, <2>4, <2>5
<1>7. QED
  BY <1>1, <1>3, <1>5, <1>6, StrideAssumption DEF StopInv, Since

\* A step that reads nothing, and either comes before the stop or leaves the words
\* of a region.
LEMMA QuietStep ==
  ASSUME StopInv, ScanTypes',
         readsAfterStop' = readsAfterStop, stopRequested => stopRequested',
         ~stopRequested \/ pc' \notin Loops \/ at'.address = -1,
         pc' = "tables" => at'.address = -1, pc' = "done" => stopRequested'
  PROVE  StopInv'
<1>1. stopRequested \/ readsAfterStop = 0
  BY DEF StopInv
<1>2. readsAfterStop' <= Stride
  BY DEF StopInv
<1>3. ASSUME stopRequested', pc' \in Loops, at'.address # -1
      PROVE  readsAfterStop' <= IF Since(pc)' = 0 THEN Stride ELSE Since(pc)'
  <2>1. readsAfterStop' = 0
    BY <1>1, <1>3
  <2>2. discovery'.scanned[pc'] \in Nat
    BY <1>3 DEF ScanTypes
  <2>3. Since(pc)' \in Nat
    BY <2>2, StrideAssumption DEF Since
  <2>4. QED
    BY <2>1, <2>3, StrideAssumption
<1>4. QED
  BY <1>1, <1>2, <1>3 DEF StopInv

\* A step of a loop that reads no word.
LEMMA TurnKeepsStop ==
  ASSUME StopInv, NEW loop \in Loops,
         \/ Scan!CancelAtRegion(loop) \/ Scan!SkipRegion(loop) \/ Scan!EnterRegion(loop)
         \/ Scan!CancelAtWord(loop) \/ Scan!RegionEnds(loop)
         \/ \E next \in {"pointers", "tables", "calls"} : \E table :
              Scan!LoopEnds(loop, next, table)
  PROVE  StopInv'
<1> USE DEF StopInv, ScanTypes
<1>1. CASE Scan!CancelAtRegion(loop) \/ Scan!CancelAtWord(loop)
  <2>1. Scan!Cancel
    BY <1>1 DEF Scan!CancelAtRegion, Scan!CancelAtWord
  <2>2. /\ pc' = "finish" /\ UNCHANGED <<stopRequested, at, readsAfterStop>>
        /\ DOMAIN discovery' = DOMAIN discovery
        /\ discovery'.scanned = discovery.scanned
    BY <2>1 DEF Scan!Cancel, Scan!Nothing
  <2>3. ScanTypes'
    BY <2>2
  <2>4. QED
    BY <2>2, <2>3, QuietStep DEF Loops
<1>2. CASE Scan!SkipRegion(loop) \/ Scan!EnterRegion(loop) \/ Scan!RegionEnds(loop)
  <2>1. /\ pc = loop /\ UNCHANGED <<stopRequested, pc, discovery, readsAfterStop>>
        /\ DOMAIN at' = DOMAIN at
        /\ ~stopRequested \/ at'.address = -1
    BY <1>2 DEF Scan!SkipRegion, Scan!EnterRegion, Scan!RegionEnds, Scan!Scanning,
                Scan!InRegions
  <2>2. ScanTypes'
    BY <2>1
  <2>3. QED
    BY <2>1, <2>2, QuietStep DEF Loops
<1>3. CASE \E next \in {"pointers", "tables", "calls"} : \E table :
             Scan!LoopEnds(loop, next, table)
  <2>1. /\ UNCHANGED <<stopRequested, discovery, readsAfterStop>>
        /\ pc' \in {"pointers", "tables", "calls"}
        /\ at'.address = -1 /\ DOMAIN at' = {"table", "region", "address"}
    BY <1>3 DEF Scan!LoopEnds
  <2>2. ScanTypes'
    BY <2>1 DEF Loops
  <2>3. QED
    BY <2>1, <2>2, QuietStep
<1>4. QED
  BY <1>1, <1>2, <1>3

LEMMA BranchesKeepStop ==
  ASSUME StopInv, Scan!ScanBranches \/ Scan!ScanPointers
  PROVE  StopInv'
<1>1. CASE Scan!ScanBranches
  <2>1. CASE Scan!Read("branches", Scan!BranchesAfter(at.address, discovery))
    BY <2>1, FoundLeavesCounter, ReadKeepsStop DEF Loops, StopInv
  <2>2. CASE ~Scan!Read("branches", Scan!BranchesAfter(at.address, discovery))
    BY <1>1, <2>2, TurnKeepsStop DEF Scan!ScanBranches, Loops
  <2>3. QED
    BY <2>1, <2>2
<1>2. CASE Scan!ScanPointers
  <2>1. CASE Scan!Read("pointers", Scan!PointersAfter(at.address, discovery))
    BY <2>1, FoundLeavesCounter, ReadKeepsStop DEF Loops, StopInv
  <2>2. CASE ~Scan!Read("pointers", Scan!PointersAfter(at.address, discovery))
    BY <1>2, <2>2, TurnKeepsStop DEF Scan!ScanPointers, Loops
  <2>3. QED
    BY <2>1, <2>2
<1>3. QED
  BY <1>1, <1>2

LEMMA CallsKeepStop ==
  ASSUME StopInv, Scan!ScanCalls
  PROVE  StopInv'
<1> DEFINE found == Scan!CallsAfter(at.address, Regions[at.region],
                                    discovery.tables[at.table], discovery)
<1>1. CASE Scan!Read("calls", found)
  BY <1>1, FoundLeavesCounter, ReadKeepsStop DEF Loops, StopInv
<1>2. CASE Scan!SkipTable
  <2>1. /\ pc = "calls" /\ UNCHANGED <<stopRequested, pc, discovery, readsAfterStop>>
        /\ at'.address = -1 /\ DOMAIN at' = DOMAIN at
    BY <1>2 DEF Scan!SkipTable, StopInv, ScanTypes
  <2>2. ScanTypes'
    BY <2>1 DEF StopInv, ScanTypes
  <2>3. QED
    BY <2>1, <2>2, QuietStep
<1>3. CASE ~Scan!Read("calls", found) /\ ~Scan!SkipTable
  <2>1. \/ \/ Scan!CancelAtRegion("calls") \/ Scan!SkipRegion("calls")
           \/ Scan!EnterRegion("calls") \/ Scan!CancelAtWord("calls")
           \/ Scan!RegionEnds("calls")
        \/ Scan!LoopEnds("calls", "calls", at.table + 1)
    BY <1>3 DEF Scan!ScanCalls
  <2>2. QED
    BY <2>1, TurnKeepsStop DEF Loops
<1>4. QED
  BY <1>1, <1>2, <1>3

LEMMA RestKeepsStop ==
  ASSUME StopInv,
         \/ Scan!WalkTables \/ Scan!CallsEnd \/ Scan!FinishScan \/ Scan!SleepSlice
         \/ Scan!Sample \/ Scan!SamplerEnds \/ Scan!RequestStop \/ UNCHANGED Scan!vars
  PROVE  StopInv'
<1> USE DEF StopInv, ScanTypes
<1>1. CASE Scan!WalkTables
  <2>1. /\ pc = "tables" /\ pc' \in {"tables", "calls"}
        /\ UNCHANGED <<stopRequested, readsAfterStop>>
        /\ DOMAIN at' = DOMAIN at /\ at'.address = at.address
    BY <1>1 DEF Scan!WalkTables
  <2>2. /\ DOMAIN discovery' = DOMAIN discovery
        /\ discovery'.scanned = discovery.scanned
    BY <1>1 DEF Scan!WalkTables, Scan!Nothing
  <2>3. ScanTypes'
    BY <2>1, <2>2 DEF Loops
  <2>4. QED
    BY <2>1, <2>3, QuietStep
<1>2. CASE Scan!FinishScan
  <2>1. /\ pc' = "sample" /\ UNCHANGED <<stopRequested, at, readsAfterStop>>
        /\ DOMAIN discovery' = DOMAIN discovery
        /\ discovery'.scanned = discovery.scanned
    BY <1>2 DEF Scan!FinishScan, Scan!Nothing
  <2>2. ScanTypes'
    BY <2>1
  <2>3. QED
    BY <2>1, <2>2, QuietStep DEF Loops
<1>3. CASE Scan!CallsEnd \/ Scan!SleepSlice \/ Scan!Sample \/ Scan!SamplerEnds
  <2>1. /\ UNCHANGED <<stopRequested, at, discovery, readsAfterStop>>
        /\ pc' \in {"finish", "sample", "done"}
        /\ pc' = "done" => stopRequested
    BY <1>3 DEF Scan!CallsEnd, Scan!SleepSlice, Scan!Sample, Scan!SamplerEnds
  <2>2. ScanTypes'
    BY <2>1
  <2>3. QED
    BY <2>1, <2>2, QuietStep DEF Loops
<1>4. CASE Scan!RequestStop
  <2>1. /\ ~stopRequested /\ stopRequested'
        /\ UNCHANGED <<pc, at, discovery, readsAfterStop>>
    BY <1>4 DEF Scan!RequestStop
  <2>2. ScanTypes'
    BY <2>1
  <2>3. QED
    BY <2>1, <2>2, QuietStep
<1>5. CASE UNCHANGED Scan!vars
  BY <1>5 DEF Scan!vars, Since
<1>6. QED
  BY <1>1, <1>2, <1>3, <1>4, <1>5

LEMMA StopInductive ==
  Scan!Spec => []StopInv
<1>1. Scan!Init => StopInv
  <2> SUFFICES ASSUME Scan!Init
               PROVE  StopInv
    OBVIOUS
  <2>1. \A loop \in Loops : discovery.scanned[loop] = 0
    BY DEF Scan!Init, Scan!Nothing, Loops
  <2>2. \A loop \in Loops : 0 % Scan!Unit(loop) = 0
    BY DEF Scan!Unit, Scan!Insn, Scan!Pointer
  <2>3. ScanTypes
    <3>1. DOMAIN discovery.scanned = Loops
      BY DEF Scan!Init, Scan!Nothing, Loops
    <3>2. \A loop \in Loops :
            discovery.scanned[loop] \in Nat /\ discovery.scanned[loop] % Scan!Unit(loop) = 0
      BY <2>1, <2>2
    <3>3. /\ pc = "branches" /\ stopRequested = FALSE /\ readsAfterStop = 0
          /\ DOMAIN at = {"table", "region", "address"} /\ discovery = Scan!Nothing
      BY DEF Scan!Init
    <3>4. QED
      BY <3>1, <3>2, <3>3 DEF ScanTypes, Loops
  <2>4. QED
    BY <2>3, StrideAssumption DEF Scan!Init, StopInv
<1>2. StopInv /\ [Scan!Next]_(Scan!vars) => StopInv'
  BY BranchesKeepStop, CallsKeepStop, RestKeepsStop DEF Scan!Next, Scan!Sampler
<1>3. QED
  BY <1>1, <1>2, PTL DEF Scan!Spec

(***************************************************************************)
(* HeartbeatHook::uninstall and scanStaticReferences.  Whatever the game's *)
(* bytes and its regions are, the scan reads at most one stride after the  *)
(* request to stop, and the thread ends only after it.  StopInv counts the *)
(* bytes since the loop last looked at the flag: that number is what       *)
(* readsAfterStop stays under, and the stride is a multiple of both units. *)
(***************************************************************************)
THEOREM PromptStop == Scan!Spec => []StopIsPrompt
<1>1. StopInv => StopIsPrompt
  BY DEF StopInv, StopIsPrompt, Scan!StopIsPrompt
<1>2. QED
  BY <1>1, StopInductive, PTL
-----------------------------------------------------------------------------
(* What the scan has found, wherever it is.                                *)

\* The words of a loop that its place has passed.
Passed(loop) ==
  {w \in Scan!Words(loop) : w[1] < at.region \/ (w[1] = at.region /\ w[2] < at.address)}

\* `n' words were found, those of `W'; their addresses are recorded up to the limit.
Tells(addresses, n, W) ==
  /\ n = Cardinality(W)
  /\ Len(addresses) = Scan!Small(n, MaxRecorded)
  /\ \A i \in DOMAIN addresses : \E w \in W : w[2] = addresses[i]
  /\ \A i, j \in DOMAIN addresses : i < j => addresses[i] < addresses[j]

BranchRecords == [address : Nat, link : BOOLEAN]
BranchAddresses == [i \in DOMAIN discovery.branches |-> discovery.branches[i].address]

BranchesTold ==
  \E W \in SUBSET Scan!BranchWords :
    /\ Tells(BranchAddresses, discovery.branchCount, W)
    /\ pc = "branches" => W = Scan!BranchWords \cap Passed("branches")
    /\ pc # "branches" /\ ~discovery.cancelled => W = Scan!BranchWords

PointersTold ==
  \E W \in SUBSET Scan!PointerWords :
    /\ Tells(discovery.pointers, discovery.pointerCount, W)
    /\ pc = "branches" => W = {}
    /\ pc = "pointers" => W = Scan!PointerWords \cap Passed("pointers")
    /\ pc \notin {"branches", "pointers"} /\ ~discovery.cancelled => W = Scan!PointerWords

LongRuns == {t \in {Scan!TableOf(p) : p \in Nat} : Scan!IsLongestRun(t)}
TablesWanted == Scan!Small(Len(discovery.pointers), MaxCandidates)

TablesTold ==
  /\ discovery.tables \in Seq(LongRuns)
  /\ pc \in {"branches", "pointers"} => discovery.tables = << >>
  /\ pc = "tables" => Len(discovery.tables) = at.table - 1 /\ at.table <= TablesWanted + 1
  /\ pc \notin {"branches", "pointers", "tables"} /\ ~discovery.cancelled =>
       Len(discovery.tables) = TablesWanted

\* The calls through the slot of a table, for the tables before this one and for
\* what of the game was scanned for this one.
PassedCalls ==
  {c \in Scan!SlotCalls : c[1] < at.table \/ (c[1] = at.table /\ c[2] \in Passed("calls"))}

CallsTold ==
  \E W \in SUBSET Scan!SlotCalls :
    /\ discovery.callCount = Cardinality(W)
    /\ \A n \in DOMAIN discovery.calls : \E c \in W :
         /\ c[2][2] = discovery.calls[n].address
         /\ discovery.tables[c[1]].offset = discovery.calls[n].offset
    /\ \A m, n \in DOMAIN discovery.calls :
         m # n => \/ discovery.calls[m].address # discovery.calls[n].address
                  \/ discovery.calls[m].offset # discovery.calls[n].offset
    /\ pc \in {"branches", "pointers", "tables"} => W = {}
    /\ pc = "calls" => W = PassedCalls
    /\ pc \notin {"branches", "pointers", "tables", "calls"} /\ ~discovery.cancelled =>
         W = Scan!SlotCalls

\* The place of a loop is a word of a region it wants, or past its last word.
Place ==
  pc \in Loops /\ at.address # -1 =>
    /\ at.region \in DOMAIN Regions /\ Scan!Wanted(pc, Regions[at.region])
    /\ at.address \in Nat /\ at.address % Scan!Unit(pc) = 0
    /\ Regions[at.region].start <= at.address

CallRecords ==
  {Scan!CallAt(a, Regions[k], offset) : a \in Nat, k \in DOMAIN Regions, offset \in Int}

Recordings ==
  /\ memory \in Memories
  /\ pc \in Loops \cup {"tables", "finish", "sample", "done"}
  /\ at \in [table : Nat, region : 1 .. Len(Regions) + 1, address : Int]
  /\ DOMAIN discovery = DOMAIN Scan!Nothing
  /\ discovery.branches \in Seq(BranchRecords)
  /\ discovery.pointers \in Seq(Nat)
  /\ discovery.calls \in Seq(CallRecords)
  /\ pc \in {"calls", "tables"} => at.table >= 1
  /\ pc = "tables" => at.region = 1 /\ at.address = -1
  /\ discovery.cancelled \in BOOLEAN /\ discovery.complete \in BOOLEAN
  /\ discovery.cancelled => pc \in {"finish", "sample", "done"}
  /\ discovery.complete => ~discovery.cancelled /\ pc \in {"sample", "done"}

ScanInv ==
  Recordings /\ Place /\ BranchesTold /\ PointersTold /\ TablesTold /\ CallsTold

LEMMA RegionBounds ==
  /\ Len(Regions) \in Nat /\ DOMAIN Regions = 1 .. Len(Regions)
  /\ \A k \in DOMAIN Regions : Regions[k].start \in Nat /\ Regions[k].end \in Nat
<1> DEFINE R == [start : Nat, end : Nat, readable : BOOLEAN, executable : BOOLEAN]
<1>1. Regions \in Seq(R)
  BY ModuleAssumption
<1>2. \A r \in R : r.start \in Nat /\ r.end \in Nat
  OBVIOUS
<1> HIDE DEF R
<1>3. \A k \in DOMAIN Regions : Regions[k] \in R
  BY <1>1
<1>4. QED
  BY <1>1, <1>2, <1>3

LEMMA WordsInOrder ==
  ASSUME memory \in Memories, NEW loop \in Loops
  PROVE  /\ \A w \in Scan!Words(loop) :
              /\ w \in (DOMAIN Regions) \X Nat
              /\ Scan!Wanted(loop, Regions[w[1]])
              /\ Regions[w[1]].start <= w[2]
              /\ w[2] + Scan!Unit(loop) <= Regions[w[1]].end
              /\ w[2] % Scan!Unit(loop) = 0
         /\ \A k \in DOMAIN Regions, a \in Nat :
              /\ Scan!Wanted(loop, Regions[k]) /\ Regions[k].start <= a
              /\ a + Scan!Unit(loop) <= Regions[k].end /\ a % Scan!Unit(loop) = 0
              => <<k, a>> \in Scan!Words(loop)
<1> DEFINE D == IF loop = "pointers" THEN DOMAIN memory.data ELSE DOMAIN memory.code
<1>1. D = Scan!Addresses(IF loop = "pointers" THEN loop ELSE "branches")
  BY ModuleAssumption
<1>2. Scan!Addresses(IF loop = "pointers" THEN loop ELSE "branches") = Scan!Addresses(loop)
  BY DEF Loops, Scan!Addresses, Scan!Wanted, Scan!Unit, Scan!Insn, Scan!Pointer
<1>3. Scan!Addresses(loop) \subseteq Nat
  <2>1. \A k \in DOMAIN Regions : Regions[k].start \in Nat /\ Regions[k].end \in Nat
    BY RegionBounds
  <2>2. QED
    BY <2>1, UnitBytes DEF Scan!Addresses
<1>4. Scan!Words(loop) =
        {w \in (DOMAIN Regions) \X D :
           /\ Scan!Wanted(loop, Regions[w[1]])
           /\ Regions[w[1]].start <= w[2]
           /\ w[2] + Scan!Unit(loop) <= Regions[w[1]].end
           /\ w[2] % Scan!Unit(loop) = 0}
  BY DEF Scan!Words
<1> HIDE DEF D
<1>5. D = Scan!Addresses(loop)
  BY <1>1, <1>2
<1>6. ASSUME NEW k \in DOMAIN Regions, NEW a \in Nat,
             Scan!Wanted(loop, Regions[k]), Regions[k].start <= a,
             a + Scan!Unit(loop) <= Regions[k].end, a % Scan!Unit(loop) = 0
      PROVE  <<k, a>> \in Scan!Words(loop)
  <2>1. Regions[k].start \in Nat /\ Regions[k].end \in Nat
    BY RegionBounds
  <2>2. a \in Regions[k].start .. Regions[k].end - Scan!Unit(loop)
    BY <1>6, <2>1, UnitBytes
  <2>3. a \in Scan!Addresses(loop)
    BY <1>6, <2>2 DEF Scan!Addresses
  <2>4. QED
    BY <1>4, <1>5, <1>6, <2>3
<1>7. ASSUME NEW w \in Scan!Words(loop)
      PROVE  /\ w \in (DOMAIN Regions) \X Nat
             /\ Scan!Wanted(loop, Regions[w[1]])
             /\ Regions[w[1]].start <= w[2]
             /\ w[2] + Scan!Unit(loop) <= Regions[w[1]].end
             /\ w[2] % Scan!Unit(loop) = 0
  BY <1>3, <1>4, <1>5
<1>8. QED
  BY <1>6, <1>7

LEMMA FiniteWords ==
  ASSUME memory \in Memories, NEW loop \in Loops
  PROVE  IsFiniteSet(Scan!Words(loop))
<1>1. \A k \in DOMAIN Regions : Regions[k].start \in Nat /\ Regions[k].end \in Nat
  BY RegionBounds
<1>2. Len(Regions) \in Nat /\ DOMAIN Regions = 1 .. Len(Regions)
  BY RegionBounds
<1>3. PICK B \in Nat : \A k \in DOMAIN Regions : Regions[k].end <= B
  <2>1. CASE Len(Regions) = 0
    BY <1>2, <2>1
  <2>2. CASE Len(Regions) # 0
    <3> DEFINE l == Len(Regions)
               B == Regions[l].start + Regions[l].end
    <3>1. l \in DOMAIN Regions
      BY <1>2, <2>2
    <3>2. B \in Nat
      BY <1>1, <3>1
    <3>3. ASSUME NEW k \in DOMAIN Regions
          PROVE  Regions[k].end <= B
      <4>1. CASE k = l
        BY <1>1, <3>1, <4>1
      <4>2. CASE k # l
        <5>1. Regions[k].end <= Regions[l].start
          BY <1>2, <3>1, <4>2, ModuleAssumption
        <5>2. QED
          BY <1>1, <3>1, <5>1
      <4>3. QED
        BY <4>1, <4>2
    <3>4. QED
      BY <3>2, <3>3
  <2>3. QED
    BY <2>1, <2>2
<1>4. Scan!Words(loop) \subseteq (1 .. Len(Regions)) \X (0 .. B)
  <2>1. ASSUME NEW w \in Scan!Words(loop)
        PROVE  w \in (1 .. Len(Regions)) \X (0 .. B)
    <3>1. /\ w \in (DOMAIN Regions) \X Nat
          /\ w[2] + Scan!Unit(loop) <= Regions[w[1]].end
      BY <2>1, WordsInOrder
    <3>2. w[2] \in 0 .. B
      <4>1. w[1] \in DOMAIN Regions /\ w[2] \in Nat
        BY <3>1
      <4>2. Regions[w[1]].end <= B /\ Regions[w[1]].end \in Nat
        BY <1>1, <1>3, <4>1
      <4>3. QED
        BY <1>3, <3>1, <4>1, <4>2, UnitBytes
    <3>3. QED
      BY <1>2, <3>1, <3>2
  <2>2. QED
    BY <2>1
<1>5. IsFiniteSet((1 .. Len(Regions)) \X (0 .. B))
  <2>1. IsFiniteSet(1 .. Len(Regions)) /\ IsFiniteSet(0 .. B)
    BY <1>2, <1>3, FS_Interval
  <2>2. QED
    BY <2>1, FS_Product
<1>6. QED
  BY <1>4, <1>5, FS_Subset

\* Two words in a row: nothing of the loop stands between them.
LEMMA NextWord ==
  ASSUME NEW u \in {4, 8}, NEW a \in Nat, NEW b \in Nat, a % u = 0, b % u = 0, b < a + u
  PROVE  b <= a
<1>1. CASE u = 4
  BY <1>1
<1>2. CASE u = 8
  BY <1>2
<1>3. QED
  BY <1>1, <1>2

\* The place moves on to the next word, past one word of the loop.
LEMMA PassWord ==
  ASSUME memory \in Memories, memory' = memory, NEW loop \in Loops,
         at \in [table : Nat, region : 1 .. Len(Regions) + 1, address : Int],
         pc = loop, Place, Scan!AtWord(loop),
         at' = [at EXCEPT !.address = @ + Scan!Unit(loop)]
  PROVE  LET w == <<at.region, at.address>>
         IN  /\ w \in Scan!Words(loop) /\ w \notin Passed(loop)
             /\ Passed(loop)' = Passed(loop) \cup {w}
             /\ \A v \in Passed(loop) : v[2] < w[2]
<1> DEFINE w == <<at.region, at.address>>
           u == Scan!Unit(loop)
<1>1. /\ at.region \in DOMAIN Regions /\ Scan!Wanted(loop, Regions[at.region])
      /\ at.address \in Nat /\ at.address % u = 0 /\ Regions[at.region].start <= at.address
      /\ at.address <= Regions[at.region].end - u
  BY DEF Place, Scan!AtWord
<1>2. u \in {4, 8}
  BY UnitBytes
<1>3. \A k \in DOMAIN Regions : Regions[k].start \in Nat /\ Regions[k].end \in Nat
  BY RegionBounds
<1>4. w \in Scan!Words(loop)
  <2>1. at.address + u <= Regions[at.region].end
    BY <1>1, <1>2, <1>3
  <2>2. QED
    BY <1>1, <2>1, WordsInOrder
<1>5. /\ at'.region = at.region /\ at'.address = at.address + u
      /\ Scan!Words(loop)' = Scan!Words(loop)
  BY DEF Scan!Words
<1> HIDE DEF u
<1>6. w \notin Passed(loop)
  BY <1>1 DEF Passed
<1>7. ASSUME NEW v \in Scan!Words(loop)
      PROVE  /\ v \in Passed(loop) => v[2] < at.address
             /\ v \in Passed(loop)' <=> v \in Passed(loop) \/ v = w
  <2>1. /\ v \in (DOMAIN Regions) \X Nat /\ v[2] % u = 0
        /\ Regions[v[1]].start <= v[2] /\ v[2] + u <= Regions[v[1]].end
    BY WordsInOrder DEF u
  <2>2. v[1] \in DOMAIN Regions /\ v[2] \in Nat /\ v = <<v[1], v[2]>>
    BY <2>1
  <2>3. v[1] \in Int /\ at.region \in Int
    BY <2>2, <1>1, RegionBounds
  <2>4. v[1] < at.region => v[2] < at.address
    <3>1. HAVE v[1] < at.region
    <3>2. Regions[v[1]].end <= Regions[at.region].start
      BY <1>1, <2>2, <3>1, ModuleAssumption
    <3>3. Regions[v[1]].end \in Nat /\ Regions[at.region].start \in Nat
      BY <1>1, <1>3, <2>2
    <3>4. QED
      BY <1>1, <1>2, <2>1, <2>2, <3>2, <3>3
  <2>5. v \in Passed(loop) <=> v[1] < at.region \/ (v[1] = at.region /\ v[2] < at.address)
    BY <1>7 DEF Passed
  <2>6. v \in Passed(loop)' <=>
          v[1] < at.region \/ (v[1] = at.region /\ v[2] < at.address + u)
    BY <1>5, <1>7 DEF Passed
  <2>7. v[2] < at.address + u <=> v[2] < at.address \/ v[2] = at.address
    <3>1. v[2] < at.address + u => v[2] <= at.address
      BY <1>1, <1>2, <2>1, <2>2, NextWord
    <3>2. QED
      BY <1>1, <1>2, <2>2, <3>1
  <2>8. v = w <=> v[1] = at.region /\ v[2] = at.address
    BY <2>2
  <2>9. QED
    BY <2>4, <2>5, <2>6, <2>7, <2>8
<1>8. Passed(loop) \subseteq Scan!Words(loop) /\ Passed(loop)' \subseteq Scan!Words(loop)
  BY <1>5 DEF Passed
<1>9. QED
  BY <1>4, <1>6, <1>7, <1>8

-----------------------------------------------------------------------------
(* The tables: how far the walk from a pointer gets.                       *)

LEMMA Least ==
  ASSUME NEW S, S \subseteq Nat, S # {}
  PROVE  \E x \in S : \A y \in S : x <= y
<1> DEFINE R == OpToRel(<, Nat)
<1>1. IsWellFoundedOn(R, Nat)
  BY NatLessThanWellFounded
<1>2. \A x, y \in Nat : <<x, y>> \in R <=> x < y
  BY DEF OpToRel
<1> HIDE DEF R
<1>3. PICK x \in S : \A y \in S : ~(<<y, x>> \in R)
  BY <1>1, WFMin
<1>4. \A y \in S : x \in Nat /\ y \in Nat /\ ~(y < x)
  BY <1>2, <1>3
<1>5. \A y \in S : x <= y
  BY <1>4
<1>6. QED
  BY <1>5

\* A walk of at most N steps that ends where it is blocked.
Walk(f, N, blocked) == f = [n \in 0 .. N |-> IF n \in blocked THEN n ELSE f[n + 1]]

LEMMA WalkExists ==
  ASSUME NEW N \in Nat, NEW blocked, N \in blocked
  PROVE  \E f : Walk(f, N, blocked)
<1> DEFINE T(n) == {m \in n .. N : m \in blocked}
           First(n) == CHOOSE m \in T(n) : \A k \in T(n) : m <= k
           f == [n \in 0 .. N |-> First(n)]
<1>1. ASSUME NEW n \in 0 .. N
      PROVE  First(n) \in T(n) /\ \A k \in T(n) : First(n) <= k
  <2>1. T(n) \subseteq Nat /\ N \in T(n)
    OBVIOUS
  <2> HIDE DEF T
  <2>2. \E m \in T(n) : \A k \in T(n) : m <= k
    BY <2>1, Least
  <2>3. QED
    BY <2>2
<1>2. ASSUME NEW n \in 0 .. N
      PROVE  f[n] = IF n \in blocked THEN n ELSE f[n + 1]
  <2>1. CASE n \in blocked
    <3>1. n \in T(n) /\ \A k \in T(n) : k \in Nat /\ n <= k
      BY <2>1
    <3> HIDE DEF T
    <3>2. First(n) <= n /\ n <= First(n) /\ First(n) \in Nat
      BY <1>1, <3>1
    <3> HIDE DEF First
    <3>3. QED
      BY <2>1, <3>2
  <2>2. CASE n \notin blocked
    <3>1. n + 1 \in 0 .. N
      <4>1. n # N
        BY <2>2
      <4>2. QED
        BY <4>1
    <3>2. T(n) = T(n + 1)
      BY <2>2
    <3> HIDE DEF T
    <3>3. First(n) = First(n + 1)
      BY <3>2
    <3> HIDE DEF First
    <3>4. QED
      BY <2>2, <3>1, <3>3
  <2>3. QED
    BY <2>1, <2>2
<1>3. Walk(f, N, blocked)
  <2>1. f = [n \in 0 .. N |-> f[n]]
    OBVIOUS
  <2> HIDE DEF f
  <2>2. QED
    BY <1>2, <2>1 DEF Walk
<1>4. QED
  BY <1>3

LEMMA WalkIsFirst ==
  ASSUME NEW N \in Nat, NEW blocked, N \in blocked, NEW f, Walk(f, N, blocked)
  PROVE  f[0] \in 0 .. N /\ f[0] \in blocked /\ \A n \in 0 .. N : n < f[0] => n \notin blocked
<1>1. PICK m \in {n \in 0 .. N : n \in blocked} :
        \A n \in {n \in 0 .. N : n \in blocked} : m <= n
  <2> DEFINE B == {n \in 0 .. N : n \in blocked}
  <2>1. B \subseteq Nat /\ N \in B
    OBVIOUS
  <2> HIDE DEF B
  <2>2. \E m \in B : \A n \in B : m <= n
    BY <2>1, Least
  <2>3. QED
    BY <2>2 DEF B
<1>2. /\ m \in 0 .. N /\ m \in blocked
      /\ \A n \in 0 .. N : n < m => n \notin blocked
  BY <1>1
<1>3. \A n \in 0 .. N : f[n] = IF n \in blocked THEN n ELSE f[n + 1]
  BY DEF Walk
<1> DEFINE Bad == {k \in 0 .. m : f[m - k] # m}
<1>4. Bad = {}
  <2>1. SUFFICES ASSUME Bad # {} PROVE FALSE
    OBVIOUS
  <2>2. PICK k \in Bad : \A j \in Bad : k <= j
    <3>1. Bad \subseteq Nat
      BY <1>2
    <3> HIDE DEF Bad
    <3>2. QED
      BY <2>1, <3>1, Least
  <2>3. k # 0
    BY <1>2, <1>3, <2>2
  <2>4. k - 1 \in 0 .. m /\ ~(k <= k - 1) /\ m - k \in 0 .. N /\ m - k < m
    BY <1>2, <2>2, <2>3
  <2>5. f[m - (k - 1)] = m
    <3>1. k - 1 \notin Bad
      <4> HIDE DEF Bad
      <4>1. QED
        BY <2>2, <2>4
    <3>2. QED
      BY <2>4, <3>1
  <2>6. f[m - k] = f[(m - k) + 1]
    BY <1>2, <1>3, <2>4
  <2>7. (m - k) + 1 = m - (k - 1)
    BY <1>2, <2>2
  <2>8. QED
    BY <2>2, <2>5, <2>6, <2>7
<1>5. f[0] = m
  <2>1. m \in 0 .. m /\ m - m = 0
    BY <1>2
  <2>2. QED
    BY <1>4, <2>1
<1>6. QED
  BY <1>2, <1>5

\* Where the two walks of a table may not go on.
BlockedBack(p, r) ==
  {n \in 0 .. MaxWalk :
     \/ n = MaxWalk
     \/ p - n * Scan!Pointer < r.start + Scan!Pointer
     \/ ~Scan!PointsToCode(memory.data[p - (n + 1) * Scan!Pointer])}

BlockedOn(p, r) ==
  {n \in 0 .. MaxWalk :
     \/ n = MaxWalk
     \/ p + (n + 1) * Scan!Pointer > r.end - Scan!Pointer
     \/ ~Scan!PointsToCode(memory.data[p + (n + 1) * Scan!Pointer])}

First(p, r, s) ==
  /\ s \in 0 .. MaxWalk /\ s \in BlockedBack(p, r)
  /\ \A n \in 0 .. MaxWalk : n < s => n \notin BlockedBack(p, r)

Last(p, r, s) ==
  /\ s \in 0 .. MaxWalk /\ s \in BlockedOn(p, r)
  /\ \A n \in 0 .. MaxWalk : n < s => n \notin BlockedOn(p, r)

LEMMA WalksBack ==
  ASSUME NEW p, NEW r
  PROVE  \E s : First(p, r, s) /\ Scan!WalkBack(p, r) = p - s * Scan!Pointer
<1> DEFINE Body(f) ==
             [n \in 0 .. MaxWalk |->
                IF \/ n = MaxWalk
                   \/ p - n * Scan!Pointer < r.start + Scan!Pointer
                   \/ ~Scan!PointsToCode(memory.data[p - (n + 1) * Scan!Pointer])
                THEN n ELSE f[n + 1]]
           stops == CHOOSE f : f = Body(f)
<1>1. MaxWalk \in Nat
  BY LimitAssumption
<1>2. \A f : Body(f) = [n \in 0 .. MaxWalk |-> IF n \in BlockedBack(p, r) THEN n ELSE f[n + 1]]
  BY DEF BlockedBack
<1>3. Scan!WalkBack(p, r) = p - stops[0] * Scan!Pointer
  BY DEF Scan!WalkBack
<1> HIDE DEF Body
<1>4. MaxWalk \in BlockedBack(p, r)
  BY <1>1 DEF BlockedBack
<1>5. \E f : f = Body(f)
  <2>1. PICK f : Walk(f, MaxWalk, BlockedBack(p, r))
    BY <1>1, <1>4, WalkExists
  <2>2. f = Body(f)
    BY <1>2, <2>1 DEF Walk
  <2>3. QED
    BY <2>2
<1>6. Walk(stops, MaxWalk, BlockedBack(p, r))
  BY <1>2, <1>5 DEF Walk
<1> HIDE DEF stops
<1>7. First(p, r, stops[0])
  BY <1>1, <1>4, <1>6, WalkIsFirst DEF First
<1>8. QED
  BY <1>3, <1>7

LEMMA WalksOn ==
  ASSUME NEW p, NEW r
  PROVE  \E s : Last(p, r, s) /\ Scan!WalkOn(p, r) = p + (s + 1) * Scan!Pointer
<1> DEFINE Body(f) ==
             [n \in 0 .. MaxWalk |->
                IF \/ n = MaxWalk
                   \/ p + (n + 1) * Scan!Pointer > r.end - Scan!Pointer
                   \/ ~Scan!PointsToCode(memory.data[p + (n + 1) * Scan!Pointer])
                THEN n ELSE f[n + 1]]
           stops == CHOOSE f : f = Body(f)
<1>1. MaxWalk \in Nat
  BY LimitAssumption
<1>2. \A f : Body(f) = [n \in 0 .. MaxWalk |-> IF n \in BlockedOn(p, r) THEN n ELSE f[n + 1]]
  BY DEF BlockedOn
<1>3. Scan!WalkOn(p, r) = p + (stops[0] + 1) * Scan!Pointer
  BY DEF Scan!WalkOn
<1> HIDE DEF Body
<1>4. MaxWalk \in BlockedOn(p, r)
  BY <1>1 DEF BlockedOn
<1>5. \E f : f = Body(f)
  <2>1. PICK f : Walk(f, MaxWalk, BlockedOn(p, r))
    BY <1>1, <1>4, WalkExists
  <2>2. f = Body(f)
    BY <1>2, <2>1 DEF Walk
  <2>3. QED
    BY <2>2
<1>6. Walk(stops, MaxWalk, BlockedOn(p, r))
  BY <1>2, <1>5 DEF Walk
<1> HIDE DEF stops
<1>7. Last(p, r, stops[0])
  BY <1>1, <1>4, <1>6, WalkIsFirst DEF Last
<1>8. QED
  BY <1>3, <1>7

\* A pointer that was found stands in one region only, which holds data.
LEMMA PointerRegion ==
  ASSUME memory \in Memories, NEW w \in Scan!PointerWords
  PROVE  /\ Scan!Containing(w[2]) = {w[1]} /\ Scan!Min({w[1]}) = w[1]
         /\ w[1] \in DOMAIN Regions /\ w[2] \in Nat /\ w[2] % 8 = 0
         /\ Regions[w[1]].readable /\ ~Regions[w[1]].executable
         /\ Regions[w[1]].start <= w[2] /\ w[2] + 8 <= Regions[w[1]].end
<1>1. w \in Scan!Words("pointers") /\ Scan!Unit("pointers") = 8
  BY DEF Scan!PointerWords, Scan!Unit, Scan!Pointer
<1>2. /\ w \in (DOMAIN Regions) \X Nat /\ Scan!Wanted("pointers", Regions[w[1]])
      /\ Regions[w[1]].start <= w[2] /\ w[2] + 8 <= Regions[w[1]].end /\ w[2] % 8 = 0
  BY <1>1, WordsInOrder DEF Loops
<1>3. w[1] \in DOMAIN Regions /\ w[2] \in Nat
  BY <1>2
<1>4. Regions[w[1]].readable /\ ~Regions[w[1]].executable
  BY <1>2 DEF Scan!Wanted
<1>5. w[1] \in Scan!Containing(w[2])
  BY <1>2, <1>3, RegionBounds DEF Scan!Containing
<1>6. ASSUME NEW k \in Scan!Containing(w[2])
      PROVE  k = w[1]
  <2>1. /\ k \in DOMAIN Regions /\ Regions[k].start <= w[2] /\ w[2] < Regions[k].end
        /\ w[2] < Regions[w[1]].end
    BY <1>2, <1>3, <1>5 DEF Scan!Containing
  <2>2. /\ Regions[k].start \in Nat /\ Regions[k].end \in Nat
        /\ Regions[w[1]].start \in Nat /\ Regions[w[1]].end \in Nat
    BY <1>3, <2>1, RegionBounds
  <2>3. ~(k < w[1])
    <3>1. k < w[1] => Regions[k].end <= Regions[w[1]].start
      BY <1>3, <2>1, ModuleAssumption
    <3>2. QED
      BY <1>2, <1>3, <2>1, <2>2, <3>1
  <2>4. ~(w[1] < k)
    <3>1. w[1] < k => Regions[w[1]].end <= Regions[k].start
      BY <1>3, <2>1, ModuleAssumption
    <3>2. QED
      BY <1>2, <1>3, <2>1, <2>2, <3>1
  <2>5. k \in Int /\ w[1] \in Int
    BY <1>3, <2>1, RegionBounds
  <2>6. QED
    BY <2>3, <2>4, <2>5
<1>7. Scan!Containing(w[2]) = {w[1]}
  BY <1>5, <1>6
<1>8. Scan!Min({w[1]}) = w[1]
  <2>1. w[1] \in Int
    BY <1>3, RegionBounds
  <2>2. QED
    BY <2>1 DEF Scan!Min
<1>9. QED
  BY <1>2, <1>3, <1>4, <1>7, <1>8

LEMMA TableOffset ==
  ASSUME NEW p \in Nat
  PROVE  Scan!TableOf(p).offset \in Nat
<1> DEFINE r == Regions[Scan!Min(Scan!Containing(p))]
<1>1. PICK s : First(p, r, s) /\ Scan!WalkBack(p, r) = p - s * Scan!Pointer
  BY WalksBack
<1>2. s \in Nat
  BY <1>1, LimitAssumption DEF First
<1>3. Scan!TableOf(p).offset = p - Scan!WalkBack(p, r)
  BY DEF Scan!TableOf
<1>4. QED
  BY <1>1, <1>2, <1>3 DEF Scan!Pointer

\* The third loop: a table is a longest run of pointers to code around its pointer.
LEMMA TableIsLongest ==
  ASSUME memory \in Memories, NEW w \in Scan!PointerWords
  PROVE  Scan!IsLongestRun(Scan!TableOf(w[2]))
<1> DEFINE p == w[2]
           r == Regions[w[1]]
           t == Scan!TableOf(p)
<1>1. /\ Scan!Containing(p) = {w[1]} /\ Scan!Min({w[1]}) = w[1]
      /\ w[1] \in DOMAIN Regions /\ p \in Nat /\ p % 8 = 0
  BY PointerRegion
<1>2. Scan!Pointer = 8 /\ MaxWalk \in Nat
  BY LimitAssumption DEF Scan!Pointer
<1>3. PICK s : First(p, r, s) /\ Scan!WalkBack(p, r) = p - s * 8
  BY <1>2, WalksBack
<1>4. PICK e : Last(p, r, e) /\ Scan!WalkOn(p, r) = p + (e + 1) * 8
  BY <1>2, WalksOn
<1>5. s \in Nat /\ s <= MaxWalk /\ e \in Nat /\ e <= MaxWalk
  BY <1>2, <1>3, <1>4 DEF First, Last
<1>6. /\ t.pointer = p /\ t.runStart = p - s * 8 /\ t.runEnd = p + (e + 1) * 8
      /\ t.offset = p - (p - s * 8)
  BY <1>1, <1>3, <1>4 DEF Scan!TableOf
<1>7. Regions[Scan!Min(Scan!Containing(t.pointer))] = r
  BY <1>1, <1>6
<1>8. /\ r.start \in Nat /\ r.end \in Nat
      /\ DOMAIN memory.data = Scan!Addresses("pointers")
  BY <1>1, RegionBounds, ModuleAssumption
<1>9. \A a \in DOMAIN memory.data : a \in Nat /\ a % 8 = 0
  BY <1>2, <1>8, RegionBounds DEF Scan!Addresses, Scan!Unit
<1> HIDE DEF p, r, t
<1>10. ASSUME NEW a \in DOMAIN memory.data, t.runStart <= a, a < t.runEnd
       PROVE  a = t.pointer \/ Scan!PointsToCode(memory.data[a])
  <2>1. PICK j \in Int : a = p + j * 8
    <3>1. a \in Nat /\ a % 8 = 0
      BY <1>9
    <3>2. /\ a \div 8 \in Int /\ p \div 8 \in Int
          /\ a = 8 * (a \div 8) /\ p = 8 * (p \div 8)
      BY <1>1, <3>1
    <3> DEFINE j == (a \div 8) - (p \div 8)
    <3>3. j \in Int /\ a = p + j * 8
      BY <1>1, <3>1, <3>2
    <3> HIDE DEF j
    <3>4. QED
      BY <3>3
  <2>2. p - s * 8 <= p + j * 8 /\ p + j * 8 < p + (e + 1) * 8
    BY <1>6, <1>10, <2>1
  <2>3. -s <= j /\ j <= e
    BY <1>1, <1>5, <2>1, <2>2
  <2>4. CASE j = 0
    BY <1>1, <1>6, <2>1, <2>4
  <2>5. CASE j < 0
    <3> DEFINE n == -j - 1
    <3>1. n \in 0 .. MaxWalk /\ n < s /\ a = p - (n + 1) * 8
      BY <1>1, <1>2, <1>5, <2>1, <2>3, <2>5
    <3> HIDE DEF n
    <3>2. n \notin BlockedBack(p, r)
      BY <1>3, <3>1 DEF First
    <3>3. Scan!PointsToCode(memory.data[p - (n + 1) * 8])
      BY <1>2, <3>1, <3>2 DEF BlockedBack
    <3>4. QED
      BY <3>1, <3>3
  <2>6. CASE j > 0
    <3> DEFINE n == j - 1
    <3>1. n \in 0 .. MaxWalk /\ n < e /\ a = p + (n + 1) * 8
      BY <1>1, <1>2, <1>5, <2>1, <2>3, <2>6
    <3> HIDE DEF n
    <3>2. n \notin BlockedOn(p, r)
      BY <1>4, <3>1 DEF Last
    <3>3. Scan!PointsToCode(memory.data[p + (n + 1) * 8])
      BY <1>2, <3>1, <3>2 DEF BlockedOn
    <3>4. QED
      BY <3>1, <3>3
  <2>7. QED
    BY <2>1, <2>4, <2>5, <2>6
<1>11. t.offset <= MaxWalk * 8 /\ t.runEnd - t.pointer <= (MaxWalk + 1) * 8
  BY <1>1, <1>2, <1>5, <1>6
<1>12. /\ r.start <= t.runStart - 8 /\ (t.runStart - 8) + 8 <= r.end
       /\ Scan!PointsToCode(memory.data[t.runStart - 8])
       => t.offset = MaxWalk * 8
  <2>1. HAVE /\ r.start <= t.runStart - 8
             /\ Scan!PointsToCode(memory.data[t.runStart - 8])
  <2>2. s \in BlockedBack(p, r) /\ s \in 0 .. MaxWalk
    BY <1>3 DEF First
  <2>3. p - (s + 1) * 8 = t.runStart - 8
    BY <1>1, <1>5, <1>6
  <2>4. ~(p - s * 8 < r.start + 8)
    BY <1>1, <1>5, <1>6, <1>8, <2>1
  <2>5. s = MaxWalk
    BY <1>2, <2>1, <2>2, <2>3, <2>4 DEF BlockedBack
  <2>6. QED
    BY <1>1, <1>5, <1>6, <2>5
<1>13. /\ r.start <= t.runEnd /\ t.runEnd + 8 <= r.end
       /\ Scan!PointsToCode(memory.data[t.runEnd])
       => t.runEnd - t.pointer = (MaxWalk + 1) * 8
  <2>1. HAVE t.runEnd + 8 <= r.end /\ Scan!PointsToCode(memory.data[t.runEnd])
  <2>2. e \in BlockedOn(p, r) /\ e \in 0 .. MaxWalk
    BY <1>4 DEF Last
  <2>3. ~(p + (e + 1) * 8 > r.end - 8)
    BY <1>1, <1>5, <1>6, <1>8, <2>1
  <2>4. e = MaxWalk
    BY <1>2, <1>6, <2>1, <2>2, <2>3 DEF BlockedOn
  <2>5. QED
    BY <1>1, <1>5, <1>6, <2>4
<1>14. Scan!IsLongestRun(t)
  BY <1>2, <1>7, <1>10, <1>11, <1>12, <1>13 DEF Scan!IsLongestRun
<1>15. QED
  BY <1>14 DEF t, p

\* Between two words, and at the end of a region, no word is left behind.
LEMMA PassGap ==
  ASSUME Recordings, Place, memory' = memory, NEW loop \in Loops,
         Scan!SkipRegion(loop) \/ Scan!EnterRegion(loop) \/ Scan!RegionEnds(loop)
  PROVE  /\ Passed(loop)' = Passed(loop) /\ Place'
         /\ at' \in [table : Nat, region : 1 .. Len(Regions) + 1, address : Int]
<1> DEFINE u == Scan!Unit(loop)
           r == Regions[at.region]
           first == Scan!AlignUp(r.start, u)
<1>1. /\ pc = loop /\ pc' = pc /\ at.region <= Len(Regions)
      /\ at \in [table : Nat, region : 1 .. Len(Regions) + 1, address : Int]
      /\ memory \in Memories
  BY DEF Recordings, Scan!SkipRegion, Scan!EnterRegion, Scan!RegionEnds, Scan!Scanning,
         Scan!InRegions
<1>2. /\ at.region \in DOMAIN Regions /\ at.region + 1 \in 1 .. Len(Regions) + 1
      /\ r.start \in Nat /\ r.end \in Nat
  BY <1>1, RegionBounds
<1>3. u \in {4, 8}
  BY UnitBytes
<1>4. Scan!Words(loop)' = Scan!Words(loop)
  BY DEF Scan!Words
<1>5. \A v \in Scan!Words(loop) :
        /\ v[1] \in Int /\ v[2] \in Nat /\ Scan!Wanted(loop, Regions[v[1]])
        /\ v[2] % u = 0 /\ Regions[v[1]].start <= v[2] /\ v[2] + u <= Regions[v[1]].end
  BY <1>1, WordsInOrder, RegionBounds
<1>6. CASE Scan!EnterRegion(loop)
  <2>1. /\ Scan!Wanted(loop, r) /\ at.address = -1
        /\ at' = [at EXCEPT !.address = first]
    BY <1>6 DEF Scan!EnterRegion
  <2>2. first \in Nat /\ first % u = 0 /\ r.start <= first /\ first < r.start + u
    <3>1. CASE u = 4
      <4>1. first = ((r.start + 4 - 1) \div 4) * 4
        BY <3>1 DEF Scan!AlignUp
      <4>2. QED
        BY <1>2, <3>1, <4>1
    <3>2. CASE u = 8
      <4>1. first = ((r.start + 8 - 1) \div 8) * 8
        BY <3>2 DEF Scan!AlignUp
      <4>2. QED
        BY <1>2, <3>2, <4>1
    <3>3. QED
      BY <1>3, <3>1, <3>2
  <2> HIDE DEF first
  <2>3. at' \in [table : Nat, region : 1 .. Len(Regions) + 1, address : Int]
    BY <1>1, <2>1, <2>2
  <2>4. at'.region = at.region /\ at'.address = first
    BY <1>1, <2>1
  <2>5. Place'
    BY <1>1, <1>2, <2>1, <2>2, <2>4 DEF Place
  <2>6. \A v \in Scan!Words(loop) : ~(v[1] = at.region /\ v[2] < first)
    <3> SUFFICES ASSUME NEW v \in Scan!Words(loop), v[1] = at.region, v[2] < first
                 PROVE  FALSE
      OBVIOUS
    <3>1. r.start <= v[2] /\ v[2] \in Nat /\ v[2] % u = 0
      BY <1>5
    <3>2. first < v[2] + u
      BY <1>2, <1>3, <2>2, <3>1
    <3>3. first <= v[2]
      BY <1>3, <2>2, <3>1, <3>2, NextWord
    <3>4. QED
      BY <2>2, <3>1, <3>3
  <2>7. \A v \in Scan!Words(loop) : ~(v[1] = at.region /\ v[2] < at.address)
    BY <1>5, <2>1
  <2>8. QED
    BY <1>4, <2>3, <2>4, <2>5, <2>6, <2>7 DEF Passed
<1>7. CASE Scan!SkipRegion(loop) \/ Scan!RegionEnds(loop)
  <2>1. at'.region = at.region + 1 /\ at'.address = -1
    BY <1>1, <1>7 DEF Scan!SkipRegion, Scan!RegionEnds
  <2>2. at' \in [table : Nat, region : 1 .. Len(Regions) + 1, address : Int]
    <3>1. at'.region \in 1 .. Len(Regions) + 1
      BY <1>2, <2>1
    <3>2. \/ at' = [at EXCEPT !.region = @ + 1]
          \/ at' = [at EXCEPT !.region = @ + 1, !.address = -1]
      BY <1>7 DEF Scan!SkipRegion, Scan!RegionEnds
    <3>3. at' = [table |-> at.table, region |-> at'.region, address |-> at'.address]
      BY <1>1, <3>2
    <3>4. at.table \in Nat /\ at'.address \in Int
      BY <1>1, <2>1
    <3>5. QED
      BY <3>1, <3>3, <3>4
  <2>3. Place'
    BY <2>1 DEF Place
  <2>4. \A v \in Scan!Words(loop) : v[1] = at.region => v[2] < at.address
    <3>1. CASE Scan!SkipRegion(loop)
      BY <1>5, <3>1 DEF Scan!SkipRegion
    <3>2. CASE Scan!RegionEnds(loop)
      <4>1. at.address > r.end - u
        BY <3>2 DEF Scan!RegionEnds
      <4>2. \A v \in Scan!Words(loop) :
              v[1] = at.region => v[2] + u <= r.end /\ v[2] \in Nat
        BY <1>5
      <4>3. at.address \in Int /\ u \in Int
        BY <1>1, <1>3
      <4> HIDE DEF u, r
      <4>4. QED
        BY <1>2, <4>1, <4>2, <4>3
    <3>3. QED
      BY <1>7, <3>1, <3>2
  <2>5. \A v \in Scan!Words(loop) : ~(v[1] = at.region + 1 /\ v[2] < -1)
    BY <1>5
  <2>6. \A v \in Scan!Words(loop) :
          v[1] < at.region + 1 <=> v[1] < at.region \/ v[1] = at.region
    BY <1>1, <1>5
  <2>7. ASSUME NEW v \in Scan!Words(loop)
        PROVE  v \in Passed(loop)' <=> v \in Passed(loop)
    <3>1. v \in Passed(loop)' <=>
            v[1] < at.region + 1 \/ (v[1] = at.region + 1 /\ v[2] < -1)
      BY <1>4, <2>1 DEF Passed
    <3>2. v \in Passed(loop) <=> v[1] < at.region \/ (v[1] = at.region /\ v[2] < at.address)
      BY DEF Passed
    <3>3. QED
      BY <2>4, <2>5, <2>6, <3>1, <3>2
  <2>8. Passed(loop) \subseteq Scan!Words(loop) /\ Passed(loop)' \subseteq Scan!Words(loop)
    BY <1>4 DEF Passed
  <2>9. QED
    BY <2>2, <2>3, <2>7, <2>8
<1>8. QED
  BY <1>6, <1>7

LEMMA NothingPassed ==
  ASSUME memory \in Memories, NEW loop \in Loops, at.region = 1, at.address = -1
  PROVE  Passed(loop) = {}
<1>1. \A v \in Scan!Words(loop) : v[1] \in 1 .. Len(Regions) /\ v[2] \in Nat
  BY WordsInOrder, RegionBounds
<1>2. QED
  BY <1>1, RegionBounds DEF Passed

LEMMA NothingPassedYet ==
  ASSUME memory \in Memories, memory' = memory, NEW loop \in Loops,
         at'.region = 1, at'.address = -1
  PROVE  Passed(loop)' = {}
<1>1. \A v \in Scan!Words(loop) : v[1] \in 1 .. Len(Regions) /\ v[2] \in Nat
  BY WordsInOrder, RegionBounds
<1>2. Scan!Words(loop)' = Scan!Words(loop)
  BY DEF Scan!Words
<1>3. QED
  BY <1>1, <1>2, RegionBounds DEF Passed

LEMMA EverythingPassed ==
  ASSUME memory \in Memories, NEW loop \in Loops, at.region = Len(Regions) + 1
  PROVE  Passed(loop) = Scan!Words(loop)
<1>1. \A v \in Scan!Words(loop) : v[1] \in 1 .. Len(Regions)
  BY WordsInOrder, RegionBounds
<1>2. QED
  BY <1>1, RegionBounds DEF Passed

\* The game does not change, nor what there is to find in it.
LEMMA SameGame ==
  ASSUME memory' = memory
  PROVE  /\ Scan!BranchWords' = Scan!BranchWords /\ Scan!PointerWords' = Scan!PointerWords
         /\ \A loop \in Loops : Scan!Words(loop)' = Scan!Words(loop)
         /\ LongRuns' = LongRuns /\ CallRecords' = CallRecords
         /\ discovery'.tables = discovery.tables => Scan!SlotCalls' = Scan!SlotCalls
<1>1. \A loop \in Loops : Scan!Words(loop)' = Scan!Words(loop)
  BY DEF Scan!Words
<1>2. Scan!BranchWords' = Scan!BranchWords
  BY <1>1 DEF Scan!BranchWords, Loops
<1>3. Scan!PointerWords' = Scan!PointerWords
  BY <1>1 DEF Scan!PointerWords, Loops
<1>4. LongRuns' = LongRuns
  BY DEF LongRuns, Scan!IsLongestRun, Scan!TableOf, Scan!WalkBack, Scan!WalkOn,
         Scan!Neighbours
<1>5. CallRecords' = CallRecords
  BY DEF CallRecords, Scan!CallAt, Scan!BranchAfter, Scan!VtableLoadBefore
<1>6. discovery'.tables = discovery.tables => Scan!SlotCalls' = Scan!SlotCalls
  BY <1>1 DEF Scan!SlotCalls, Scan!IsSlotCall, Scan!BranchAfter, Scan!VtableLoadBefore,
              Loops
<1>7. QED
  BY <1>1, <1>2, <1>3, <1>4, <1>5, <1>6

\* A new word with a higher address is counted, and recorded below the limit.
LEMMA TellOneMore ==
  ASSUME NEW addresses \in Seq(Nat), NEW n, NEW W, IsFiniteSet(W), Tells(addresses, n, W),
         NEW w, w \notin W, w[2] \in Nat, \A v \in W : v[2] < w[2]
  PROVE  /\ Scan!RecordUpTo(addresses, w[2]) \in Seq(Nat)
         /\ Tells(Scan!RecordUpTo(addresses, w[2]), n + 1, W \cup {w})
<1> DEFINE more == Scan!RecordUpTo(addresses, w[2])
<1>1. MaxRecorded \in Nat
  BY LimitAssumption
<1>2. n \in Nat /\ n + 1 = Cardinality(W \cup {w})
  BY FS_CardinalityType, FS_AddElement DEF Tells
<1>3. CASE Len(addresses) < MaxRecorded
  <2>1. more = Append(addresses, w[2])
    BY <1>3 DEF Scan!RecordUpTo
  <2> HIDE DEF more
  <2>2. /\ more \in Seq(Nat) /\ Len(more) = Len(addresses) + 1
        /\ DOMAIN more = 1 .. Len(addresses) + 1
        /\ \A i \in 1 .. Len(addresses) : more[i] = addresses[i]
        /\ more[Len(addresses) + 1] = w[2]
    BY <2>1
  <2>3. Len(addresses) \in Nat /\ DOMAIN addresses = 1 .. Len(addresses)
    OBVIOUS
  <2>4. Len(more) = Scan!Small(n + 1, MaxRecorded)
    BY <1>1, <1>2, <1>3, <2>2, <2>3 DEF Tells, Scan!Small
  <2>5. \A i \in 1 .. Len(addresses) : \E v \in W : v[2] = addresses[i]
    BY <2>3 DEF Tells
  <2>6. \A i \in 1 .. Len(addresses) : addresses[i] < w[2]
    BY <2>5
  <2>7. \A i \in DOMAIN more : \E v \in W \cup {w} : v[2] = more[i]
    BY <2>2, <2>3, <2>5, SMTT(30)
  <2>8. \A i, j \in DOMAIN more : i < j => more[i] < more[j]
    <3>1. SUFFICES ASSUME NEW i \in 1 .. Len(addresses) + 1,
                          NEW j \in 1 .. Len(addresses) + 1, i < j
                   PROVE  more[i] < more[j]
      BY <2>2
    <3>2. i \in 1 .. Len(addresses) /\ more[i] = addresses[i]
      BY <2>2, <2>3, <3>1
    <3>3. CASE j = Len(addresses) + 1
      BY <2>2, <2>6, <3>2, <3>3
    <3>4. CASE j # Len(addresses) + 1
      <4>1. j \in 1 .. Len(addresses) /\ more[j] = addresses[j]
        BY <2>2, <2>3, <3>4
      <4>2. QED
        BY <2>3, <3>1, <3>2, <4>1 DEF Tells
    <3>5. QED
      BY <3>3, <3>4
  <2>9. Tells(more, n + 1, W \cup {w})
    BY <1>2, <2>4, <2>7, <2>8 DEF Tells
  <2>10. QED
    BY <2>2, <2>9 DEF more
<1>4. CASE ~(Len(addresses) < MaxRecorded)
  <2>1. more = addresses
    BY <1>4 DEF Scan!RecordUpTo
  <2> HIDE DEF more
  <2>2. Len(addresses) = Scan!Small(n + 1, MaxRecorded)
    <3>1. Len(addresses) \in Nat /\ Len(addresses) = Scan!Small(n, MaxRecorded)
      BY DEF Tells
    <3>2. QED
      BY <1>1, <1>2, <1>4, <3>1 DEF Scan!Small
  <2>3. Tells(more, n + 1, W \cup {w})
    BY <1>2, <2>1, <2>2 DEF Tells
  <2>4. QED
    BY <2>1, <2>3 DEF more
<1>5. QED
  BY <1>3, <1>4

LEMMA KeepBranches ==
  ASSUME BranchesTold, memory' = memory,
         discovery'.branches = discovery.branches,
         discovery'.branchCount = discovery.branchCount,
         pc' = "branches" => pc = "branches" /\ Passed("branches")' = Passed("branches"),
         pc' # "branches" /\ ~discovery'.cancelled =>
           /\ ~discovery.cancelled
           /\ pc # "branches" \/ Passed("branches") = Scan!Words("branches")
  PROVE  BranchesTold'
<1>1. Scan!BranchWords' = Scan!BranchWords /\ BranchAddresses' = BranchAddresses
  BY SameGame DEF BranchAddresses
<1>2. Scan!BranchWords \cap Scan!Words("branches") = Scan!BranchWords
  BY DEF Scan!BranchWords
<1>3. PICK W \in SUBSET Scan!BranchWords :
        /\ Tells(BranchAddresses, discovery.branchCount, W)
        /\ pc = "branches" => W = Scan!BranchWords \cap Passed("branches")
        /\ pc # "branches" /\ ~discovery.cancelled => W = Scan!BranchWords
  BY DEF BranchesTold
<1>4. Tells(BranchAddresses, discovery.branchCount, W)' <=>
        Tells(BranchAddresses, discovery.branchCount, W)
  BY <1>1 DEF Tells
<1>5. /\ pc' = "branches" => W = Scan!BranchWords' \cap Passed("branches")'
      /\ pc' # "branches" /\ ~discovery'.cancelled => W = Scan!BranchWords'
  BY <1>1, <1>2, <1>3
<1>6. QED
  BY <1>1, <1>3, <1>4, <1>5 DEF BranchesTold

LEMMA KeepPointers ==
  ASSUME PointersTold, memory' = memory,
         discovery'.pointers = discovery.pointers,
         discovery'.pointerCount = discovery.pointerCount,
         pc' = "branches" => pc = "branches",
         pc' = "pointers" =>
           \/ pc = "pointers" /\ Passed("pointers")' = Passed("pointers")
           \/ pc = "branches" /\ Passed("pointers")' = {},
         pc' \notin {"branches", "pointers"} /\ ~discovery'.cancelled =>
           /\ ~discovery.cancelled
           /\ \/ pc \notin {"branches", "pointers"}
              \/ pc = "pointers" /\ Passed("pointers") = Scan!Words("pointers")
  PROVE  PointersTold'
<1>1. Scan!PointerWords' = Scan!PointerWords
  BY SameGame
<1>2. Scan!PointerWords \cap Scan!Words("pointers") = Scan!PointerWords
  BY DEF Scan!PointerWords
<1>3. PICK W \in SUBSET Scan!PointerWords :
        /\ Tells(discovery.pointers, discovery.pointerCount, W)
        /\ pc = "branches" => W = {}
        /\ pc = "pointers" => W = Scan!PointerWords \cap Passed("pointers")
        /\ pc \notin {"branches", "pointers"} /\ ~discovery.cancelled =>
             W = Scan!PointerWords
  BY DEF PointersTold
<1>4. Tells(discovery.pointers, discovery.pointerCount, W)' <=>
        Tells(discovery.pointers, discovery.pointerCount, W)
  BY DEF Tells
<1>5. /\ pc' = "branches" => W = {}
      /\ pc' = "pointers" => W = Scan!PointerWords' \cap Passed("pointers")'
      /\ pc' \notin {"branches", "pointers"} /\ ~discovery'.cancelled =>
           W = Scan!PointerWords'
  BY <1>1, <1>2, <1>3
<1>6. QED
  BY <1>1, <1>3, <1>4, <1>5 DEF PointersTold

LEMMA KeepTables ==
  ASSUME TablesTold, memory' = memory, discovery.pointers \in Seq(Nat),
         discovery'.tables = discovery.tables, discovery'.pointers = discovery.pointers,
         pc' \in {"branches", "pointers"} => pc \in {"branches", "pointers"},
         pc' = "tables" => \/ pc = "tables" /\ at'.table = at.table
                           \/ pc = "pointers" /\ at'.table = 1,
         pc' \notin {"branches", "pointers", "tables"} /\ ~discovery'.cancelled =>
           /\ ~discovery.cancelled
           /\ \/ pc \notin {"branches", "pointers", "tables"}
              \/ pc = "tables" /\ ~(at.table <= TablesWanted) /\ at.table \in Nat
  PROVE  TablesTold'
<1>1. LongRuns' = LongRuns /\ TablesWanted' = TablesWanted
  BY SameGame DEF TablesWanted, Scan!Small
<1>2. TablesWanted \in Nat
  BY LimitAssumption DEF TablesWanted, Scan!Small
<1>3. Len(<< >>) = 0
  OBVIOUS
<1>4. pc' = "tables" =>
        Len(discovery'.tables) = at'.table - 1 /\ at'.table <= TablesWanted' + 1
  BY <1>1, <1>2, <1>3 DEF TablesTold
<1>5. pc' \notin {"branches", "pointers", "tables"} /\ ~discovery'.cancelled =>
        Len(discovery'.tables) = TablesWanted'
  BY <1>1, <1>2 DEF TablesTold
<1>6. QED
  BY <1>1, <1>4, <1>5 DEF TablesTold

LEMMA KeepCalls ==
  ASSUME CallsTold, memory' = memory, discovery'.tables = discovery.tables,
         discovery'.calls = discovery.calls, discovery'.callCount = discovery.callCount,
         pc' \in {"branches", "pointers", "tables"} =>
           pc \in {"branches", "pointers", "tables"},
         pc' = "calls" =>
           \/ pc = "calls" /\ PassedCalls' = PassedCalls
           \/ pc = "tables" /\ PassedCalls' = {},
         pc' \notin {"branches", "pointers", "tables", "calls"} /\ ~discovery'.cancelled =>
           /\ ~discovery.cancelled
           /\ \/ pc \notin {"branches", "pointers", "tables", "calls"}
              \/ pc = "calls" /\ PassedCalls = Scan!SlotCalls
  PROVE  CallsTold'
<1>1. Scan!SlotCalls' = Scan!SlotCalls
  BY SameGame
<1>2. QED
  BY <1>1 DEF CallsTold

LEMMA NextPlace ==
  ASSUME Recordings, Place, NEW loop \in Loops, pc' = pc, Scan!AtWord(loop),
         at' = [at EXCEPT !.address = @ + Scan!Unit(loop)]
  PROVE  Place' /\ at' \in [table : Nat, region : 1 .. Len(Regions) + 1, address : Int]
<1> DEFINE u == Scan!Unit(loop)
<1>1. /\ pc = loop /\ at.address \in Nat /\ at.address % u = 0
      /\ Regions[at.region].start <= at.address /\ at.region \in DOMAIN Regions
      /\ Scan!Wanted(pc, Regions[at.region])
  BY DEF Place, Scan!AtWord, Scan!Scanning, Scan!InRegions
<1>2. u \in {4, 8}
  BY UnitBytes
<1>3. at \in [table : Nat, region : 1 .. Len(Regions) + 1, address : Int]
  BY DEF Recordings
<1> HIDE DEF u
<1>4. /\ at'.address = at.address + u /\ at'.region = at.region
      /\ at' = [table |-> at.table, region |-> at.region, address |-> at.address + u]
  BY <1>3 DEF u
<1>5. at.address + u \in Nat /\ (at.address + u) % u = 0
  <2>1. CASE u = 4
    BY <1>1, <2>1
  <2>2. CASE u = 8
    BY <1>1, <2>2
  <2>3. QED
    BY <1>2, <2>1, <2>2
<1>6. Regions[at.region].start <= at.address + u
  BY <1>1, <1>2, RegionBounds
<1>7. Place'
  BY <1>1, <1>4, <1>5, <1>6 DEF Place, u
<1>8. QED
  BY <1>3, <1>4, <1>5, <1>7

\* What a loop makes of a word, and the counter of its bytes.
LEMMA ReadLeaves ==
  ASSUME Recordings, NEW loop \in Loops, NEW found, DOMAIN found = DOMAIN discovery,
         Scan!Read(loop, found)
  PROVE  /\ pc = loop /\ pc' = pc /\ memory' = memory /\ Scan!AtWord(loop)
         /\ at' = [at EXCEPT !.address = @ + Scan!Unit(loop)]
         /\ DOMAIN discovery' = DOMAIN Scan!Nothing
         /\ \A f \in DOMAIN Scan!Nothing \ {"scanned"} : discovery'[f] = found[f]
BY DEF Recordings, Scan!Read, Scan!AtWord, Scan!Scanning, Scan!InRegions, Scan!Nothing

FieldsOfScan ==
  {"branches", "branchCount", "pointers", "pointerCount", "tables", "calls",
   "callCount", "cancelled", "complete", "scanned"}

LEMMA AddressesOf ==
  ASSUME NEW s \in Seq(BranchRecords)
  PROVE  LET addresses == [i \in DOMAIN s |-> s[i].address]
         IN  addresses \in Seq(Nat) /\ Len(addresses) = Len(s)
<1>1. \A r \in BranchRecords : r.address \in Nat
  BY DEF BranchRecords
<1>2. QED
  BY <1>1

LEMMA ReadBranchesKeeps ==
  ASSUME ScanInv, Scan!Read("branches", Scan!BranchesAfter(at.address, discovery))
  PROVE  ScanInv'
<1> DEFINE a == at.address
           w == <<at.region, a>>
           i == memory.code[a]
           hit == i.op \in {"b", "bl"} /\ Scan!BranchDestination(a, i.imm) = Target
           entry == [address |-> a, link |-> i.op = "bl"]
           found == Scan!BranchesAfter(a, discovery)
<1>1. DOMAIN discovery = FieldsOfScan /\ FieldsOfScan = DOMAIN Scan!Nothing
  BY DEF ScanInv, Recordings, Scan!Nothing, FieldsOfScan
<1>2. found = IF hit THEN [discovery EXCEPT !.branchCount = @ + 1,
                             !.branches = Scan!RecordUpTo(@, entry)]
              ELSE discovery
  BY DEF Scan!BranchesAfter
<1>3. DOMAIN found = DOMAIN discovery
  BY <1>2
<1> HIDE DEF found
<1>4. /\ pc = "branches" /\ pc' = pc /\ memory' = memory /\ Scan!AtWord("branches")
      /\ at' = [at EXCEPT !.address = @ + Scan!Unit("branches")]
      /\ DOMAIN discovery' = DOMAIN Scan!Nothing
      /\ \A f \in FieldsOfScan \ {"scanned"} : discovery'[f] = found[f]
  BY <1>1, <1>3, ReadLeaves DEF ScanInv, Loops, found
<1>5. Place' /\ at' \in [table : Nat, region : 1 .. Len(Regions) + 1, address : Int]
  BY <1>4, NextPlace DEF ScanInv, Loops
<1>6. /\ w \in Scan!Words("branches") /\ w \notin Passed("branches")
      /\ Passed("branches")' = Passed("branches") \cup {w}
      /\ \A v \in Passed("branches") : v[2] < w[2]
  BY <1>4, PassWord DEF ScanInv, Recordings, Loops
<1>7. w[2] \in Nat /\ a \in Nat
  BY <1>6, WordsInOrder DEF ScanInv, Recordings, Loops
<1>8. w \in Scan!BranchWords <=> hit
  BY <1>6 DEF Scan!BranchWords
<1>9. /\ discovery.branches \in Seq(BranchRecords)
      /\ discovery.pointers \in Seq(Nat) /\ memory \in Memories
  BY DEF ScanInv, Recordings
<1>10. entry \in BranchRecords /\ entry.address = a
  BY <1>7 DEF BranchRecords
<1>11. BranchAddresses \in Seq(Nat) /\ Len(BranchAddresses) = Len(discovery.branches)
  BY <1>9, AddressesOf DEF BranchAddresses
<1>12. /\ discovery'.branches \in Seq(BranchRecords)
       /\ discovery'.branches = IF hit THEN Scan!RecordUpTo(discovery.branches, entry)
                                ELSE discovery.branches
       /\ discovery'.branchCount = IF hit THEN discovery.branchCount + 1
                                   ELSE discovery.branchCount
       /\ \A f \in FieldsOfScan \ {"scanned", "branches", "branchCount"} :
            discovery'[f] = discovery[f]
  <2> HIDE DEF hit, entry, a
  <2>1. /\ discovery'.branches = IF hit THEN Scan!RecordUpTo(discovery.branches, entry)
                                 ELSE discovery.branches
        /\ discovery'.branchCount = IF hit THEN discovery.branchCount + 1
                                    ELSE discovery.branchCount
        /\ \A f \in FieldsOfScan \ {"scanned", "branches", "branchCount"} :
             discovery'[f] = discovery[f]
    BY <1>1, <1>2, <1>4 DEF FieldsOfScan
  <2>2. Scan!RecordUpTo(discovery.branches, entry) \in Seq(BranchRecords)
    BY <1>9, <1>10 DEF Scan!RecordUpTo
  <2>3. QED
    BY <1>9, <2>1, <2>2
<1>13. hit => BranchAddresses' = Scan!RecordUpTo(BranchAddresses, a)
  <2> SUFFICES ASSUME hit
               PROVE  BranchAddresses' = Scan!RecordUpTo(BranchAddresses, a)
    OBVIOUS
  <2>1. discovery'.branches = Scan!RecordUpTo(discovery.branches, entry)
    BY <1>12
  <2>2. entry.address = a
    OBVIOUS
  <2> HIDE DEF entry, a, hit
  <2>3. CASE Len(discovery.branches) < MaxRecorded
    <3>1. discovery'.branches = Append(discovery.branches, entry)
      BY <2>1, <2>3 DEF Scan!RecordUpTo
    <3>2. Scan!RecordUpTo(BranchAddresses, a) = Append(BranchAddresses, a)
      BY <1>11, <2>3 DEF Scan!RecordUpTo
    <3>3. BranchAddresses' \in Seq(Nat) /\ Len(BranchAddresses') = Len(discovery'.branches)
      BY <1>12, AddressesOf DEF BranchAddresses
    <3>4. Append(BranchAddresses, a) \in Seq(Nat)
      BY <1>7, <1>11
    <3>5. Len(BranchAddresses') = Len(discovery.branches) + 1
      BY <1>9, <1>10, <3>1, <3>3
    <3>6. \A n \in 1 .. Len(discovery.branches) + 1 :
            BranchAddresses'[n] = Append(BranchAddresses, a)[n]
      BY <1>9, <1>10, <1>11, <2>2, <3>1 DEF BranchAddresses
    <3>7. QED
      BY <1>11, <3>2, <3>3, <3>4, <3>5, <3>6, SMTT(30)
  <2>4. CASE ~(Len(discovery.branches) < MaxRecorded)
    BY <1>11, <2>1, <2>4 DEF Scan!RecordUpTo, BranchAddresses
  <2>5. QED
    BY <2>3, <2>4
<1>14. BranchesTold'
  <2>1. Scan!BranchWords' = Scan!BranchWords /\ IsFiniteSet(Scan!BranchWords)
    <3>1. Scan!BranchWords \subseteq Scan!Words("branches")
      BY DEF Scan!BranchWords
    <3>2. QED
      BY <1>4, <1>9, <3>1, SameGame, FiniteWords, FS_Subset DEF Loops
  <2>2. PICK W \in SUBSET Scan!BranchWords :
          /\ Tells(BranchAddresses, discovery.branchCount, W)
          /\ W = Scan!BranchWords \cap Passed("branches")
    BY <1>4 DEF ScanInv, BranchesTold
  <2>3. IsFiniteSet(W)
    BY <2>1, <2>2, FS_Subset
  <2>4. CASE hit
    <3>0. PICK V : V = W \cup {w}
      OBVIOUS
    <3>1. V = Scan!BranchWords \cap Passed("branches")'
      BY <1>6, <1>8, <2>2, <2>4, <3>0
    <3>2. Tells(Scan!RecordUpTo(BranchAddresses, w[2]), discovery.branchCount + 1, V)
      <4>1. w \notin W /\ \A v \in W : v[2] < w[2]
        BY <1>6, <2>2
      <4> HIDE DEF w
      <4>2. QED
        BY <1>7, <1>11, <2>2, <2>3, <3>0, <4>1, TellOneMore
    <3>3. Tells(BranchAddresses', discovery'.branchCount, V)
      BY <1>12, <1>13, <2>4, <3>2
    <3>4. V \in SUBSET Scan!BranchWords'
      BY <2>1, <3>1
    <3>5. Tells(BranchAddresses, discovery.branchCount, V)'
      BY <3>3 DEF Tells
    <3>6. QED
      BY <1>4, <2>1, <3>1, <3>4, <3>5 DEF BranchesTold
  <2>5. CASE ~hit
    <3>1. W = Scan!BranchWords \cap Passed("branches")'
      BY <1>6, <1>8, <2>2, <2>5
    <3>2. /\ BranchAddresses' = BranchAddresses
          /\ discovery'.branchCount = discovery.branchCount
      BY <1>12, <2>5 DEF BranchAddresses
    <3>3. Tells(BranchAddresses, discovery.branchCount, W)'
      BY <2>2, <3>2 DEF Tells
    <3>4. QED
      BY <1>4, <2>1, <2>2, <3>1, <3>3 DEF BranchesTold
  <2>6. QED
    BY <2>4, <2>5
<1> HIDE DEF hit, entry, w, a
<1>15. /\ discovery'.pointers = discovery.pointers
       /\ discovery'.pointerCount = discovery.pointerCount
       /\ discovery'.tables = discovery.tables /\ discovery'.calls = discovery.calls
       /\ discovery'.callCount = discovery.callCount
       /\ discovery'.cancelled = discovery.cancelled
       /\ discovery'.complete = discovery.complete
  BY <1>12 DEF FieldsOfScan
<1>16. PointersTold'
  BY <1>4, <1>15, KeepPointers DEF ScanInv
<1>17. TablesTold'
  BY <1>4, <1>9, <1>15, KeepTables DEF ScanInv
<1>18. CallsTold'
  BY <1>4, <1>15, KeepCalls DEF ScanInv
<1>19. Recordings'
  BY <1>4, <1>5, <1>12, <1>15, SameGame DEF ScanInv, Recordings
<1>20. QED
  BY <1>5, <1>14, <1>16, <1>17, <1>18, <1>19 DEF ScanInv

LEMMA ReadPointersKeeps ==
  ASSUME ScanInv, Scan!Read("pointers", Scan!PointersAfter(at.address, discovery))
  PROVE  ScanInv'
<1> DEFINE a == at.address
           w == <<at.region, a>>
           hit == memory.data[a] = Target
           found == Scan!PointersAfter(a, discovery)
<1>1. DOMAIN discovery = FieldsOfScan /\ FieldsOfScan = DOMAIN Scan!Nothing
  BY DEF ScanInv, Recordings, Scan!Nothing, FieldsOfScan
<1>2. found = IF hit THEN [discovery EXCEPT !.pointerCount = @ + 1,
                             !.pointers = Scan!RecordUpTo(@, a)]
              ELSE discovery
  BY DEF Scan!PointersAfter
<1>3. DOMAIN found = DOMAIN discovery
  BY <1>2
<1> HIDE DEF found
<1>4. /\ pc = "pointers" /\ pc' = pc /\ memory' = memory /\ Scan!AtWord("pointers")
      /\ at' = [at EXCEPT !.address = @ + Scan!Unit("pointers")]
      /\ DOMAIN discovery' = DOMAIN Scan!Nothing
      /\ \A f \in FieldsOfScan \ {"scanned"} : discovery'[f] = found[f]
  BY <1>1, <1>3, ReadLeaves DEF ScanInv, Loops, found
<1>5. Place' /\ at' \in [table : Nat, region : 1 .. Len(Regions) + 1, address : Int]
  BY <1>4, NextPlace DEF ScanInv, Loops
<1>6. /\ w \in Scan!Words("pointers") /\ w \notin Passed("pointers")
      /\ Passed("pointers")' = Passed("pointers") \cup {w}
      /\ \A v \in Passed("pointers") : v[2] < w[2]
  BY <1>4, PassWord DEF ScanInv, Recordings, Loops
<1>7. w[2] \in Nat /\ a \in Nat
  BY <1>6, WordsInOrder DEF ScanInv, Recordings, Loops
<1>8. w \in Scan!PointerWords <=> hit
  BY <1>6 DEF Scan!PointerWords
<1>9. /\ discovery.branches \in Seq(BranchRecords)
      /\ discovery.pointers \in Seq(Nat) /\ memory \in Memories
  BY DEF ScanInv, Recordings
<1>10. /\ discovery'.pointers \in Seq(Nat)
       /\ discovery'.pointers = IF hit THEN Scan!RecordUpTo(discovery.pointers, a)
                                ELSE discovery.pointers
       /\ discovery'.pointerCount = IF hit THEN discovery.pointerCount + 1
                                    ELSE discovery.pointerCount
       /\ \A f \in FieldsOfScan \ {"scanned", "pointers", "pointerCount"} :
            discovery'[f] = discovery[f]
  <2> HIDE DEF hit, a
  <2>1. /\ discovery'.pointers = IF hit THEN Scan!RecordUpTo(discovery.pointers, a)
                                 ELSE discovery.pointers
        /\ discovery'.pointerCount = IF hit THEN discovery.pointerCount + 1
                                     ELSE discovery.pointerCount
        /\ \A f \in FieldsOfScan \ {"scanned", "pointers", "pointerCount"} :
             discovery'[f] = discovery[f]
    BY <1>1, <1>2, <1>4 DEF FieldsOfScan
  <2>2. Scan!RecordUpTo(discovery.pointers, a) \in Seq(Nat)
    BY <1>7, <1>9 DEF Scan!RecordUpTo
  <2>3. QED
    BY <1>9, <2>1, <2>2
<1>11. PointersTold'
  <2>1. Scan!PointerWords' = Scan!PointerWords /\ IsFiniteSet(Scan!PointerWords)
    <3>1. Scan!PointerWords \subseteq Scan!Words("pointers")
      BY DEF Scan!PointerWords
    <3>2. QED
      BY <1>4, <1>9, <3>1, SameGame, FiniteWords, FS_Subset DEF Loops
  <2>2. PICK W \in SUBSET Scan!PointerWords :
          /\ Tells(discovery.pointers, discovery.pointerCount, W)
          /\ W = Scan!PointerWords \cap Passed("pointers")
    BY <1>4 DEF ScanInv, PointersTold
  <2>3. IsFiniteSet(W)
    BY <2>1, <2>2, FS_Subset
  <2>4. CASE hit
    <3>0. PICK V : V = W \cup {w}
      OBVIOUS
    <3>1. V = Scan!PointerWords \cap Passed("pointers")'
      BY <1>6, <1>8, <2>2, <2>4, <3>0
    <3>2. Tells(Scan!RecordUpTo(discovery.pointers, w[2]), discovery.pointerCount + 1, V)
      <4>1. w \notin W /\ \A v \in W : v[2] < w[2]
        BY <1>6, <2>2
      <4> HIDE DEF w
      <4>2. QED
        BY <1>7, <1>9, <2>2, <2>3, <3>0, <4>1, TellOneMore
    <3>3. Tells(discovery'.pointers, discovery'.pointerCount, V)
      BY <1>10, <2>4, <3>2
    <3>4. V \in SUBSET Scan!PointerWords'
      BY <2>1, <3>1
    <3>5. Tells(discovery.pointers, discovery.pointerCount, V)'
      BY <3>3 DEF Tells
    <3>6. QED
      BY <1>4, <2>1, <3>1, <3>4, <3>5 DEF PointersTold
  <2>5. CASE ~hit
    <3>1. W = Scan!PointerWords \cap Passed("pointers")'
      BY <1>6, <1>8, <2>2, <2>5
    <3>2. /\ discovery'.pointers = discovery.pointers
          /\ discovery'.pointerCount = discovery.pointerCount
      BY <1>10, <2>5
    <3>3. Tells(discovery.pointers, discovery.pointerCount, W)'
      BY <2>2, <3>2 DEF Tells
    <3>4. QED
      BY <1>4, <2>1, <2>2, <3>1, <3>3 DEF PointersTold
  <2>6. QED
    BY <2>4, <2>5
<1> HIDE DEF hit, w, a
<1>12. /\ discovery'.branches = discovery.branches
       /\ discovery'.branchCount = discovery.branchCount
       /\ discovery'.tables = discovery.tables /\ discovery'.calls = discovery.calls
       /\ discovery'.callCount = discovery.callCount
       /\ discovery'.cancelled = discovery.cancelled
       /\ discovery'.complete = discovery.complete
  BY <1>10 DEF FieldsOfScan
<1>13. BranchesTold'
  BY <1>4, <1>12, KeepBranches DEF ScanInv, Recordings
<1>14. TablesTold'
  BY <1>4, <1>12, SameGame DEF ScanInv, TablesTold
<1>15. CallsTold'
  BY <1>4, <1>12, KeepCalls DEF ScanInv
<1>16. Recordings'
  BY <1>4, <1>5, <1>9, <1>10, <1>12, SameGame DEF ScanInv, Recordings
<1>17. QED
  BY <1>5, <1>11, <1>13, <1>14, <1>15, <1>16 DEF ScanInv

-----------------------------------------------------------------------------
(* The calls through the slots of one table after another.                 *)

LEMMA FiniteSlotCalls ==
  ASSUME ScanInv
  PROVE  IsFiniteSet(Scan!SlotCalls)
<1>1. discovery.tables \in Seq(LongRuns)
  BY DEF ScanInv, TablesTold
<1>2. IsFiniteSet(DOMAIN discovery.tables)
  <2>1. DOMAIN discovery.tables = 1 .. Len(discovery.tables) /\ Len(discovery.tables) \in Nat
    BY <1>1
  <2>2. QED
    BY <2>1, FS_Interval
<1>3. IsFiniteSet((DOMAIN discovery.tables) \X Scan!Words("calls"))
  BY <1>2, FiniteWords, FS_Product DEF ScanInv, Recordings, Loops
<1>4. Scan!SlotCalls \subseteq (DOMAIN discovery.tables) \X Scan!Words("calls")
  BY DEF Scan!SlotCalls
<1>5. QED
  BY <1>3, <1>4, FS_Subset

LEMMA ReadCallsKeeps ==
  ASSUME ScanInv, Scan!InTable,
         Scan!Read("calls", Scan!CallsAfter(at.address, Regions[at.region],
                                            discovery.tables[at.table], discovery))
  PROVE  ScanInv'
<1> DEFINE a == at.address
           r == Regions[at.region]
           t == discovery.tables[at.table]
           w == <<at.region, a>>
           c == <<at.table, w>>
           hit == Scan!IsSlotCall(a, r, t.offset)
           entry == Scan!CallAt(a, r, t.offset)
           known == \E n \in DOMAIN discovery.calls :
                      /\ discovery.calls[n].address = a
                      /\ discovery.calls[n].offset = t.offset
           found == Scan!CallsAfter(a, r, t, discovery)
<1>1. DOMAIN discovery = FieldsOfScan /\ FieldsOfScan = DOMAIN Scan!Nothing
  BY DEF ScanInv, Recordings, Scan!Nothing, FieldsOfScan
<1>2. found = IF hit
              THEN [discovery EXCEPT !.callCount = @ + 1,
                      !.calls = IF known THEN @ ELSE Scan!RecordUpTo(@, entry)]
              ELSE discovery
  BY DEF Scan!CallsAfter
<1>3. DOMAIN found = DOMAIN discovery
  BY <1>2
<1> HIDE DEF found
<1>4. /\ pc = "calls" /\ pc' = pc /\ memory' = memory /\ Scan!AtWord("calls")
      /\ at' = [at EXCEPT !.address = @ + Scan!Unit("calls")]
      /\ DOMAIN discovery' = DOMAIN Scan!Nothing
      /\ \A f \in FieldsOfScan \ {"scanned"} : discovery'[f] = found[f]
  BY <1>1, <1>3, ReadLeaves DEF ScanInv, Loops, found
<1>5. Place' /\ at' \in [table : Nat, region : 1 .. Len(Regions) + 1, address : Int]
  BY <1>4, NextPlace DEF ScanInv, Loops
<1>6. /\ w \in Scan!Words("calls") /\ w \notin Passed("calls")
      /\ Passed("calls")' = Passed("calls") \cup {w}
  BY <1>4, PassWord DEF ScanInv, Recordings, Loops
<1>7. a \in Nat /\ at.region \in DOMAIN Regions
  BY <1>6, WordsInOrder DEF ScanInv, Recordings, Loops
<1>8. /\ at.table \in DOMAIN discovery.tables /\ t.vtableLike
      /\ discovery.tables \in Seq(LongRuns) /\ at'.table = at.table
      /\ at.table \in Nat /\ t \in LongRuns
  <2>1. at \in [table : Nat, region : 1 .. Len(Regions) + 1, address : Int]
    BY DEF ScanInv, Recordings
  <2>2. /\ at.table \in DOMAIN discovery.tables /\ t.vtableLike
        /\ discovery.tables \in Seq(LongRuns)
    BY DEF ScanInv, TablesTold, Scan!InTable
  <2>3. QED
    BY <1>4, <2>1, <2>2
<1>9. t.offset \in Int
  <2>1. PICK p \in Nat : t = Scan!TableOf(p)
    BY <1>8 DEF LongRuns
  <2>2. QED
    BY <2>1, TableOffset
<1>10. entry \in CallRecords /\ entry.address = a /\ entry.offset = t.offset
  <2>1. entry \in CallRecords
    BY <1>7, <1>9 DEF CallRecords
  <2>2. QED
    BY <2>1 DEF Scan!CallAt
<1>11. /\ discovery.branches \in Seq(BranchRecords) /\ discovery.pointers \in Seq(Nat)
       /\ discovery.calls \in Seq(CallRecords) /\ memory \in Memories
  BY DEF ScanInv, Recordings
<1>12. c \in Scan!SlotCalls <=> hit
  BY <1>6, <1>8 DEF Scan!SlotCalls
<1>13. /\ discovery'.calls = IF hit /\ ~known THEN Scan!RecordUpTo(discovery.calls, entry)
                              ELSE discovery.calls
       /\ discovery'.callCount = IF hit THEN discovery.callCount + 1
                                 ELSE discovery.callCount
       /\ \A f \in FieldsOfScan \ {"scanned", "calls", "callCount"} :
            discovery'[f] = discovery[f]
  <2> HIDE DEF hit, known, entry, a, r, t, w, c
  <2>1. \A f \in FieldsOfScan \ {"scanned", "calls", "callCount"} : found[f] = discovery[f]
    BY <1>1, <1>2 DEF FieldsOfScan
  <2>2. /\ found.calls = IF hit /\ ~known THEN Scan!RecordUpTo(discovery.calls, entry)
                         ELSE discovery.calls
        /\ found.callCount = IF hit THEN discovery.callCount + 1 ELSE discovery.callCount
    <3>1. CASE hit
      BY <1>1, <1>2, <3>1 DEF FieldsOfScan
    <3>2. CASE ~hit
      BY <1>2, <3>2
    <3>3. QED
      BY <3>1, <3>2
  <2>3. discovery'.calls = found.calls /\ discovery'.callCount = found.callCount
    BY <1>4 DEF FieldsOfScan
  <2>4. QED
    BY <1>4, <2>1, <2>2, <2>3 DEF FieldsOfScan
<1>14. /\ discovery'.branches = discovery.branches
       /\ discovery'.branchCount = discovery.branchCount
       /\ discovery'.pointers = discovery.pointers
       /\ discovery'.pointerCount = discovery.pointerCount
       /\ discovery'.tables = discovery.tables
       /\ discovery'.cancelled = discovery.cancelled
       /\ discovery'.complete = discovery.complete
  <2> HIDE DEF hit, known, entry
  <2>1. QED
    BY <1>13 DEF FieldsOfScan
<1>15. discovery'.calls \in Seq(CallRecords)
  <2> HIDE DEF hit, known, entry
  <2>1. Scan!RecordUpTo(discovery.calls, entry) \in Seq(CallRecords)
    BY <1>10, <1>11 DEF Scan!RecordUpTo
  <2>2. QED
    BY <1>11, <1>13, <2>1
<1>16. Scan!SlotCalls' = Scan!SlotCalls
  BY <1>4, <1>14, SameGame
<1>17. PassedCalls' = IF hit THEN PassedCalls \cup {c} ELSE PassedCalls
  <2>1. ASSUME NEW x \in Scan!SlotCalls
        PROVE  x \in PassedCalls' <=> x \in PassedCalls \/ x = c
    <3>1. x \in (DOMAIN discovery.tables) \X Scan!Words("calls")
      BY DEF Scan!SlotCalls
    <3>2. x = c <=> x[1] = at.table /\ x[2] = w
      BY <3>1
    <3> HIDE DEF c, w
    <3>3. x \in PassedCalls' <=>
            x[1] < at.table \/ (x[1] = at.table /\ x[2] \in Passed("calls")')
      BY <1>8, <1>16 DEF PassedCalls
    <3>4. x \in PassedCalls <=>
            x[1] < at.table \/ (x[1] = at.table /\ x[2] \in Passed("calls"))
      BY DEF PassedCalls
    <3>5. QED
      BY <1>6, <3>2, <3>3, <3>4
  <2>2. PassedCalls' \subseteq Scan!SlotCalls /\ PassedCalls \subseteq Scan!SlotCalls
    BY <1>16 DEF PassedCalls
  <2> HIDE DEF c, hit
  <2>3. QED
    BY <1>12, <2>1, <2>2
<1>18. c \notin PassedCalls
  BY <1>6, <1>8 DEF PassedCalls
<1>19. CallsTold'
  <2>1. PICK W \in SUBSET Scan!SlotCalls :
          /\ discovery.callCount = Cardinality(W)
          /\ \A n \in DOMAIN discovery.calls : \E x \in W :
               /\ x[2][2] = discovery.calls[n].address
               /\ discovery.tables[x[1]].offset = discovery.calls[n].offset
          /\ \A m, n \in DOMAIN discovery.calls :
               m # n => \/ discovery.calls[m].address # discovery.calls[n].address
                        \/ discovery.calls[m].offset # discovery.calls[n].offset
          /\ W = PassedCalls
    BY <1>4 DEF ScanInv, CallsTold
  <2>2. IsFiniteSet(W)
    BY <2>1, FiniteSlotCalls, FS_Subset
  <2>3. CASE ~hit
    <3>1. discovery'.calls = discovery.calls /\ discovery'.callCount = discovery.callCount
      BY <1>13, <2>3
    <3>2. W = PassedCalls'
      BY <1>17, <2>1, <2>3
    <3> HIDE DEF hit
    <3>3. QED
      BY <1>4, <1>14, <1>16, <2>1, <3>1, <3>2 DEF CallsTold
  <2>4. CASE hit
    <3>1. PICK V : V = W \cup {c}
      OBVIOUS
    <3>2. V = PassedCalls' /\ V \in SUBSET Scan!SlotCalls'
      BY <1>12, <1>16, <1>17, <2>1, <2>4, <3>1
    <3>3. discovery'.callCount = Cardinality(V)
      <4>1. c \notin W
        BY <1>18, <2>1
      <4>2. discovery'.callCount = discovery.callCount + 1
        BY <1>13, <2>4
      <4> HIDE DEF c, hit
      <4>3. QED
        BY <2>1, <2>2, <3>1, <4>1, <4>2, FS_AddElement, ZenonT(30)
    <3>4. /\ \A n \in DOMAIN discovery.calls : \E x \in V :
               /\ x[2][2] = discovery.calls[n].address
               /\ discovery.tables[x[1]].offset = discovery.calls[n].offset
          /\ c \in V /\ c[2][2] = a /\ discovery.tables[c[1]].offset = t.offset
      BY <2>1, <3>1
    <3> HIDE DEF c, w, hit
    <3>5. CASE discovery'.calls = discovery.calls
      BY <1>4, <1>14, <2>1, <3>2, <3>3, <3>4, <3>5 DEF CallsTold
    <3>6. CASE discovery'.calls # discovery.calls
      <4>1. discovery'.calls = Append(discovery.calls, entry) /\ ~known
        BY <1>13, <3>6 DEF Scan!RecordUpTo
      <4>2. \A n \in DOMAIN discovery.calls :
              \/ discovery.calls[n].address # a \/ discovery.calls[n].offset # t.offset
        BY <4>1
      <4> HIDE DEF entry, known
      <4> DEFINE l == Len(discovery.calls)
      <4>3. /\ DOMAIN discovery.calls = 1 .. l /\ DOMAIN discovery'.calls = 1 .. l + 1
            /\ \A n \in 1 .. l : discovery'.calls[n] = discovery.calls[n]
            /\ discovery'.calls[l + 1] = entry /\ l \in Nat
        BY <1>10, <1>11, <4>1
      <4> HIDE DEF l
      <4>4. \A n \in 1 .. l + 1 : n \in 1 .. l \/ n = l + 1
        BY <4>3
      <4>5. \A n \in DOMAIN discovery'.calls : \E x \in V :
              /\ x[2][2] = discovery'.calls[n].address
              /\ discovery'.tables[x[1]].offset = discovery'.calls[n].offset
        <5>1. \E x \in V : /\ x[2][2] = discovery'.calls[l + 1].address
                           /\ discovery'.tables[x[1]].offset = discovery'.calls[l + 1].offset
          BY <1>10, <1>14, <3>4, <4>3
        <5>2. QED
          BY <1>14, <3>4, <4>3, <4>4, <5>1
      <4>6. \A m, n \in DOMAIN discovery'.calls :
              m # n => \/ discovery'.calls[m].address # discovery'.calls[n].address
                       \/ discovery'.calls[m].offset # discovery'.calls[n].offset
        BY <1>10, <2>1, <4>2, <4>3, <4>4
      <4>7. QED
        BY <1>4, <3>2, <3>3, <4>5, <4>6 DEF CallsTold
    <3>7. QED
      BY <3>5, <3>6
  <2>5. QED
    BY <2>3, <2>4
<1> HIDE DEF hit, known, entry, c, w, a, t, r
<1>20. BranchesTold'
  BY <1>4, <1>14, KeepBranches DEF ScanInv, Recordings
<1>21. PointersTold'
  BY <1>4, <1>14, KeepPointers DEF ScanInv, Recordings
<1>22. TablesTold'
  BY <1>4, <1>11, <1>14, KeepTables DEF ScanInv, Recordings
<1>23. Recordings'
  BY <1>4, <1>5, <1>8, <1>11, <1>14, <1>15, SameGame DEF ScanInv, Recordings
<1>24. QED
  BY <1>5, <1>19, <1>20, <1>21, <1>22, <1>23 DEF ScanInv

-----------------------------------------------------------------------------
(* The steps between the words.                                            *)

LEMMA CancelKeeps ==
  ASSUME ScanInv, pc \in Loops, Scan!Cancel
  PROVE  ScanInv'
<1>1. /\ pc' = "finish" /\ memory' = memory /\ at' = at
      /\ discovery' = [discovery EXCEPT !.cancelled = TRUE]
      /\ DOMAIN discovery = FieldsOfScan /\ FieldsOfScan = DOMAIN Scan!Nothing
  BY DEF Scan!Cancel, ScanInv, Recordings, Scan!Nothing, FieldsOfScan
<1>2. /\ discovery'.cancelled = TRUE /\ DOMAIN discovery' = DOMAIN Scan!Nothing
      /\ \A f \in FieldsOfScan \ {"cancelled"} : discovery'[f] = discovery[f]
  BY <1>1 DEF FieldsOfScan
<1>3. /\ discovery'.branches = discovery.branches
      /\ discovery'.branchCount = discovery.branchCount
      /\ discovery'.pointers = discovery.pointers
      /\ discovery'.pointerCount = discovery.pointerCount
      /\ discovery'.tables = discovery.tables
      /\ discovery'.calls = discovery.calls /\ discovery'.callCount = discovery.callCount
      /\ discovery'.complete = discovery.complete
  BY <1>2 DEF FieldsOfScan
<1>4. BranchesTold' /\ PointersTold'
  BY <1>1, <1>2, <1>3, KeepBranches, KeepPointers DEF ScanInv
<1>5. TablesTold'
  BY <1>1, <1>2, <1>3, KeepTables DEF ScanInv, Recordings
<1>6. CallsTold'
  BY <1>1, <1>2, <1>3, KeepCalls DEF ScanInv
<1>7. Recordings'
  BY <1>1, <1>2, <1>3, SameGame DEF ScanInv, Recordings, Loops
<1>8. Place'
  BY <1>1 DEF Place, Loops
<1>9. QED
  BY <1>4, <1>5, <1>6, <1>7, <1>8 DEF ScanInv

LEMMA GapKeeps ==
  ASSUME ScanInv, NEW loop \in Loops,
         Scan!SkipRegion(loop) \/ Scan!EnterRegion(loop) \/ Scan!RegionEnds(loop)
  PROVE  ScanInv'
<1>1. /\ pc = loop /\ UNCHANGED <<memory, pc, discovery>>
  BY DEF Scan!SkipRegion, Scan!EnterRegion, Scan!RegionEnds, Scan!Scanning, Scan!InRegions
<1>2. /\ Passed(loop)' = Passed(loop) /\ Place'
      /\ at' \in [table : Nat, region : 1 .. Len(Regions) + 1, address : Int]
  BY <1>1, PassGap DEF ScanInv
<1>3. at'.table = at.table
  BY DEF ScanInv, Recordings, Scan!SkipRegion, Scan!EnterRegion, Scan!RegionEnds
<1>4. loop = "calls" => PassedCalls' = PassedCalls
  BY <1>1, <1>2, <1>3, SameGame DEF PassedCalls
<1>5. BranchesTold' /\ PointersTold'
  BY <1>1, <1>2, KeepBranches, KeepPointers DEF ScanInv, Recordings, Loops
<1>6. TablesTold'
  BY <1>1, KeepTables DEF ScanInv, Recordings, Loops
<1>7. CallsTold'
  BY <1>1, <1>4, KeepCalls DEF ScanInv, Recordings, Loops
<1>8. Recordings'
  BY <1>1, <1>2, <1>3, SameGame DEF ScanInv, Recordings, Loops
<1>9. QED
  BY <1>2, <1>5, <1>6, <1>7, <1>8 DEF ScanInv

LEMMA LoopEndsKeeps ==
  ASSUME ScanInv,
         \/ Scan!LoopEnds("branches", "pointers", 0)
         \/ Scan!LoopEnds("pointers", "tables", 1)
         \/ Scan!LoopEnds("calls", "calls", at.table + 1)
  PROVE  ScanInv'
<1>1. /\ pc \in Loops /\ at.region = Len(Regions) + 1
      /\ at'.region = 1 /\ at'.address = -1 /\ UNCHANGED <<memory, discovery>>
      /\ \/ pc = "branches" /\ pc' = "pointers" /\ at'.table = 0
         \/ pc = "pointers" /\ pc' = "tables" /\ at'.table = 1
         \/ pc = "calls" /\ pc' = "calls" /\ at'.table = at.table + 1
  BY DEF Scan!LoopEnds, Loops
<1>2. /\ Passed(pc) = Scan!Words(pc) /\ \A loop \in Loops : Passed(loop)' = {}
      /\ memory \in Memories
  BY <1>1, EverythingPassed, NothingPassedYet DEF ScanInv, Recordings
<1>3. at' \in [table : Nat, region : 1 .. Len(Regions) + 1, address : Int]
  <2>1. at.table \in Nat
    BY DEF ScanInv, Recordings
  <2>2. at' = [table |-> at'.table, region |-> 1, address |-> -1]
    BY DEF Scan!LoopEnds
  <2>3. QED
    BY <1>1, <2>1, <2>2, RegionBounds
<1>4. pc = "calls" => PassedCalls' = PassedCalls
  <2> SUFFICES ASSUME pc = "calls" PROVE PassedCalls' = PassedCalls
    OBVIOUS
  <2>1. Scan!SlotCalls' = Scan!SlotCalls
    BY <1>1, SameGame
  <2>2. at'.table = at.table + 1 /\ at.table \in Nat
    BY <1>1 DEF ScanInv, Recordings
  <2>3. ASSUME NEW x \in Scan!SlotCalls
        PROVE  x \in PassedCalls' <=> x \in PassedCalls
    <3>1. x[1] \in DOMAIN discovery.tables /\ x[2] \in Scan!Words("calls")
      BY DEF Scan!SlotCalls
    <3>2. x[1] \in Nat
      BY <3>1 DEF ScanInv, TablesTold
    <3>3. x \in PassedCalls' <=> x[1] < at.table + 1
      BY <1>2, <2>1, <2>2 DEF PassedCalls, Loops
    <3>4. x \in PassedCalls <=> x[1] < at.table \/ x[1] = at.table
      BY <1>2, <3>1 DEF PassedCalls
    <3>5. QED
      BY <2>2, <3>2, <3>3, <3>4
  <2>4. PassedCalls' \subseteq Scan!SlotCalls /\ PassedCalls \subseteq Scan!SlotCalls
    BY <2>1 DEF PassedCalls
  <2>5. QED
    BY <2>3, <2>4
<1>5. BranchesTold'
  BY <1>1, <1>2, KeepBranches DEF ScanInv, Recordings
<1>6. PointersTold'
  BY <1>1, <1>2, KeepPointers DEF ScanInv, Recordings, Loops
<1>7. TablesTold'
  BY <1>1, KeepTables DEF ScanInv, Recordings
<1>8. CallsTold'
  BY <1>1, <1>4, KeepCalls DEF ScanInv, Recordings
<1>9. Recordings'
  BY <1>1, <1>3, SameGame DEF ScanInv, Recordings, Loops
<1>10. Place'
  BY <1>1 DEF Place
<1>11. QED
  BY <1>5, <1>6, <1>7, <1>8, <1>9, <1>10 DEF ScanInv

LEMMA SkipTableKeeps ==
  ASSUME ScanInv, Scan!SkipTable
  PROVE  ScanInv'
<1>1. /\ pc = "calls" /\ at.address = -1 /\ at.region = 1
      /\ at' = [at EXCEPT !.table = @ + 1] /\ UNCHANGED <<memory, pc, discovery>>
      /\ at \in [table : Nat, region : 1 .. Len(Regions) + 1, address : Int]
      /\ ~discovery.tables[at.table].vtableLike /\ memory \in Memories
  BY DEF Scan!SkipTable, ScanInv, Recordings
<1>2. /\ at'.table = at.table + 1 /\ at'.region = 1 /\ at'.address = -1
      /\ at' \in [table : Nat, region : 1 .. Len(Regions) + 1, address : Int]
  BY <1>1
<1>3. Passed("calls") = {} /\ Passed("calls")' = {}
  BY <1>1, <1>2, NothingPassed, NothingPassedYet DEF Loops
<1>4. PassedCalls' = PassedCalls
  <2>1. Scan!SlotCalls' = Scan!SlotCalls
    BY <1>1, SameGame
  <2>2. ASSUME NEW x \in Scan!SlotCalls
        PROVE  x \in PassedCalls' <=> x \in PassedCalls
    <3>1. x[1] \in DOMAIN discovery.tables /\ discovery.tables[x[1]].vtableLike
      BY DEF Scan!SlotCalls
    <3>2. x[1] \in Nat /\ x[1] # at.table /\ at.table \in Nat
      BY <1>1, <3>1 DEF ScanInv, TablesTold
    <3>3. x \in PassedCalls' <=> x[1] < at.table + 1
      BY <1>2, <1>3, <2>1 DEF PassedCalls
    <3>4. x \in PassedCalls <=> x[1] < at.table
      BY <1>3 DEF PassedCalls
    <3>5. QED
      BY <3>2, <3>3, <3>4
  <2>3. PassedCalls' \subseteq Scan!SlotCalls /\ PassedCalls \subseteq Scan!SlotCalls
    BY <2>1 DEF PassedCalls
  <2>4. QED
    BY <2>2, <2>3
<1>5. BranchesTold' /\ PointersTold'
  BY <1>1, KeepBranches, KeepPointers DEF ScanInv, Recordings
<1>6. TablesTold'
  BY <1>1, KeepTables DEF ScanInv, Recordings
<1>7. CallsTold'
  BY <1>1, <1>4, KeepCalls DEF ScanInv, Recordings
<1>8. Recordings'
  <2>1. pc' = "calls" /\ at'.table >= 1
    BY <1>1, <1>2
  <2>2. QED
    BY <1>1, <1>2, <2>1, SameGame DEF ScanInv, Recordings
<1>9. Place'
  BY <1>2 DEF Place
<1>10. QED
  BY <1>5, <1>6, <1>7, <1>8, <1>9 DEF ScanInv

\* The scan is over, or the sampler at work: nothing more is found.
LEMMA OverKeeps ==
  ASSUME ScanInv,
         Scan!CallsEnd \/ Scan!FinishScan \/ Scan!SleepSlice \/ Scan!Sample \/ Scan!SamplerEnds
  PROVE  ScanInv'
<1>1. /\ memory' = memory /\ at' = at /\ pc' \in {"finish", "sample", "done"}
      /\ pc \in {"calls", "finish", "sample", "done"}
      /\ pc = "calls" => at.table > Len(discovery.tables) /\ pc' = "finish"
      /\ pc # "calls" => pc' \in {"sample", "done"}
      /\ \/ discovery' = discovery
         \/ discovery' = [discovery EXCEPT !.complete = ~discovery.cancelled]
      /\ pc = "calls" => discovery' = discovery
      /\ DOMAIN discovery = FieldsOfScan /\ FieldsOfScan = DOMAIN Scan!Nothing
  BY DEF Scan!CallsEnd, Scan!FinishScan, Scan!SleepSlice, Scan!Sample, Scan!SamplerEnds,
         ScanInv, Recordings, Scan!Nothing, FieldsOfScan
<1>2. /\ DOMAIN discovery' = DOMAIN Scan!Nothing
      /\ discovery'.branches = discovery.branches
      /\ discovery'.branchCount = discovery.branchCount
      /\ discovery'.pointers = discovery.pointers
      /\ discovery'.pointerCount = discovery.pointerCount
      /\ discovery'.tables = discovery.tables
      /\ discovery'.calls = discovery.calls /\ discovery'.callCount = discovery.callCount
      /\ discovery'.cancelled = discovery.cancelled
      /\ discovery'.complete \in {discovery.complete, ~discovery.cancelled}
  BY <1>1 DEF FieldsOfScan
<1>3. pc = "calls" => PassedCalls = Scan!SlotCalls
  <2> SUFFICES ASSUME pc = "calls", NEW x \in Scan!SlotCalls
               PROVE  x[1] < at.table
    BY DEF PassedCalls
  <2>1. x[1] \in DOMAIN discovery.tables /\ discovery.tables \in Seq(LongRuns)
    BY DEF Scan!SlotCalls, ScanInv, TablesTold
  <2>2. at.table \in Nat
    BY DEF ScanInv, Recordings
  <2>3. QED
    BY <1>1, <2>1, <2>2
<1>4. BranchesTold' /\ PointersTold'
  BY <1>1, <1>2, KeepBranches, KeepPointers DEF ScanInv
<1>5. TablesTold'
  BY <1>1, <1>2, KeepTables DEF ScanInv, Recordings
<1>6. CallsTold'
  BY <1>1, <1>2, <1>3, KeepCalls DEF ScanInv
<1>7. Recordings'
  BY <1>1, <1>2, SameGame DEF ScanInv, Recordings
<1>8. Place'
  BY <1>1 DEF Place, Loops
<1>9. QED
  BY <1>4, <1>5, <1>6, <1>7, <1>8 DEF ScanInv

LEMMA StillKeeps ==
  ASSUME ScanInv, UNCHANGED <<memory, pc, at, discovery>>
  PROVE  ScanInv'
<1>1. PassedCalls' = PassedCalls /\ \A loop \in Loops : Passed(loop)' = Passed(loop)
  BY SameGame DEF PassedCalls, Passed, Loops
<1>2. BranchesTold' /\ PointersTold'
  BY <1>1, KeepBranches, KeepPointers DEF ScanInv, Recordings, Loops
<1>3. TablesTold'
  BY SameGame DEF ScanInv, TablesTold, TablesWanted, Scan!Small
<1>4. CallsTold'
  BY <1>1, KeepCalls DEF ScanInv, Recordings
<1>5. Recordings' /\ Place'
  BY SameGame DEF ScanInv, Recordings, Place
<1>6. QED
  BY <1>2, <1>3, <1>4, <1>5 DEF ScanInv

LEMMA WalkTablesKeeps ==
  ASSUME ScanInv, Scan!WalkTables
  PROVE  ScanInv'
<1> DEFINE p == discovery.pointers[at.table]
<1>1. /\ pc = "tables" /\ memory' = memory /\ at.region = 1 /\ at.address = -1
      /\ at \in [table : Nat, region : 1 .. Len(Regions) + 1, address : Int]
      /\ discovery.pointers \in Seq(Nat) /\ memory \in Memories
      /\ DOMAIN discovery = FieldsOfScan /\ FieldsOfScan = DOMAIN Scan!Nothing
      /\ at.table \in Nat /\ at.table >= 1
  BY DEF Scan!WalkTables, ScanInv, Recordings, Scan!Nothing, FieldsOfScan
<1>2. /\ TablesWanted \in Nat /\ TablesWanted <= Len(discovery.pointers)
      /\ Len(discovery.pointers) \in Nat
      /\ DOMAIN discovery.pointers = 1 .. Len(discovery.pointers)
      /\ Scan!Min({Len(discovery.pointers), MaxCandidates}) = TablesWanted
  <2>1. Len(discovery.pointers) \in Nat /\ MaxCandidates \in Nat
    BY <1>1, LimitAssumption
  <2>2. Scan!Min({Len(discovery.pointers), MaxCandidates}) = TablesWanted
    <3> DEFINE m == Len(discovery.pointers)
               S == {m, MaxCandidates}
    <3>1. TablesWanted \in S /\ \A y \in S : TablesWanted <= y
      BY <2>1 DEF TablesWanted, Scan!Small
    <3>2. \A x \in S : (\A y \in S : x <= y) => x = TablesWanted
      <4>1. SUFFICES ASSUME NEW x \in S, \A y \in S : x <= y
                     PROVE  x = TablesWanted
        OBVIOUS
      <4>2. x <= TablesWanted /\ TablesWanted <= x /\ x \in Nat /\ TablesWanted \in Nat
        BY <2>1, <3>1, <4>1
      <4>3. QED
        BY <4>2
    <3> HIDE DEF S
    <3>3. QED
      BY <3>1, <3>2 DEF Scan!Min, S
  <2>3. QED
    BY <1>1, <2>1, <2>2 DEF TablesWanted, Scan!Small
<1>3. /\ discovery.tables \in Seq(LongRuns) /\ Len(discovery.tables) = at.table - 1
      /\ at.table <= TablesWanted + 1
  BY <1>1 DEF ScanInv, TablesTold
<1>4. CASE at.table <= TablesWanted
  <2>1. /\ pc' = pc /\ at' = [at EXCEPT !.table = @ + 1]
        /\ discovery' = [discovery EXCEPT !.tables = Scan!TablesAfter(p, @)]
    BY <1>2, <1>4 DEF Scan!WalkTables
  <2>2. at.table \in DOMAIN discovery.pointers
    BY <1>1, <1>2, <1>4
  <2>3. PICK w \in Scan!PointerWords : w[2] = p
    <3>1. PICK W \in SUBSET Scan!PointerWords :
            Tells(discovery.pointers, discovery.pointerCount, W)
      BY DEF ScanInv, PointersTold
    <3>2. QED
      BY <2>2, <3>1 DEF Tells
  <2>4. Scan!TablesAfter(p, discovery.tables) = Append(discovery.tables, Scan!TableOf(p))
    BY <1>1, <2>3, PointerRegion DEF Scan!TablesAfter
  <2>5. Scan!TableOf(p) \in LongRuns
    <3>1. p \in Nat /\ Scan!IsLongestRun(Scan!TableOf(p))
      BY <1>1, <2>3, PointerRegion, TableIsLongest
    <3>2. QED
      BY <3>1 DEF LongRuns
  <2> HIDE DEF p
  <2>6. /\ discovery'.tables = Append(discovery.tables, Scan!TableOf(p))
        /\ DOMAIN discovery' = DOMAIN Scan!Nothing
        /\ discovery'.branches = discovery.branches
        /\ discovery'.branchCount = discovery.branchCount
        /\ discovery'.pointers = discovery.pointers
        /\ discovery'.pointerCount = discovery.pointerCount
        /\ discovery'.calls = discovery.calls /\ discovery'.callCount = discovery.callCount
        /\ discovery'.cancelled = discovery.cancelled
        /\ discovery'.complete = discovery.complete
    BY <1>1, <2>1, <2>4 DEF FieldsOfScan
  <2>7. /\ at'.table = at.table + 1 /\ at'.region = 1 /\ at'.address = -1
        /\ at' \in [table : Nat, region : 1 .. Len(Regions) + 1, address : Int]
    BY <1>1, <2>1
  <2>8. TablesTold'
    <3>1. LongRuns' = LongRuns /\ TablesWanted' = TablesWanted
      BY <1>1, <2>6, SameGame DEF TablesWanted, Scan!Small
    <3>2. discovery'.tables \in Seq(LongRuns) /\ Len(discovery'.tables) = at.table
      BY <1>1, <1>3, <2>5, <2>6
    <3>3. at'.table <= TablesWanted + 1 /\ Len(discovery'.tables) = at'.table - 1
      BY <1>1, <1>2, <1>4, <2>7, <3>2
    <3>4. QED
      BY <1>1, <2>1, <3>1, <3>2, <3>3 DEF TablesTold
  <2>9. CallsTold'
    <3>1. discovery.callCount = Cardinality({}) /\ DOMAIN discovery.calls = {}
      BY <1>1 DEF ScanInv, CallsTold
    <3>2. QED
      BY <1>1, <2>1, <2>6, <3>1 DEF CallsTold
  <2>10. BranchesTold' /\ PointersTold'
    BY <1>1, <2>1, <2>6, KeepBranches, KeepPointers DEF ScanInv
  <2>11. Recordings'
    <3>1. pc' = "tables" /\ at'.table >= 1
      BY <1>1, <2>1, <2>7
    <3>2. QED
      BY <1>1, <2>6, <2>7, <3>1, SameGame DEF ScanInv, Recordings
  <2>12. Place'
    BY <2>7 DEF Place
  <2>13. QED
    BY <2>8, <2>9, <2>10, <2>11, <2>12 DEF ScanInv
<1>5. CASE ~(at.table <= TablesWanted)
  <2>1. pc' = "calls" /\ at' = [at EXCEPT !.table = 1] /\ discovery' = discovery
    BY <1>2, <1>5 DEF Scan!WalkTables
  <2>2. /\ at'.table = 1 /\ at'.region = 1 /\ at'.address = -1
        /\ at' \in [table : Nat, region : 1 .. Len(Regions) + 1, address : Int]
    BY <1>1, <2>1
  <2>3. PassedCalls' = {}
    <3>1. Passed("calls")' = {}
      BY <1>1, <2>2, NothingPassedYet DEF Loops
    <3>2. Scan!SlotCalls' = Scan!SlotCalls
      BY <1>1, <2>1, SameGame
    <3>3. \A x \in Scan!SlotCalls : x[1] \in 1 .. Len(discovery.tables)
      BY <1>3 DEF Scan!SlotCalls
    <3>4. \A x \in Scan!SlotCalls : ~(x[1] < 1)
      <4>1. Len(discovery.tables) \in Nat
        BY <1>3
      <4>2. QED
        BY <3>3, <4>1
    <3>5. QED
      BY <2>2, <3>1, <3>2, <3>4 DEF PassedCalls
  <2>4. BranchesTold' /\ PointersTold'
    BY <1>1, <2>1, KeepBranches, KeepPointers DEF ScanInv, Recordings
  <2>5. TablesTold'
    BY <1>1, <1>5, <2>1, KeepTables DEF ScanInv, Recordings
  <2>6. CallsTold'
    BY <1>1, <2>1, <2>3, KeepCalls DEF ScanInv, Recordings
  <2>7. Recordings'
    <3>1. CallRecords' = CallRecords /\ at'.table >= 1
      BY <1>1, <2>2, SameGame
    <3>2. QED
      BY <1>1, <2>1, <2>2, <3>1 DEF ScanInv, Recordings, Loops
  <2>8. Place'
    BY <2>2 DEF Place
  <2>9. QED
    BY <2>4, <2>5, <2>6, <2>7, <2>8 DEF ScanInv
<1>6. QED
  BY <1>4, <1>5

LEMMA InitialScan == Scan!Init => ScanInv
<1> SUFFICES ASSUME Scan!Init PROVE ScanInv
  OBVIOUS
<1>1. /\ memory \in Memories /\ pc = "branches" /\ discovery = Scan!Nothing
      /\ at = [table |-> 0, region |-> 1, address |-> -1]
  BY DEF Scan!Init
<1>2. /\ discovery.branches = << >> /\ discovery.branchCount = 0
      /\ discovery.pointers = << >> /\ discovery.pointerCount = 0
      /\ discovery.tables = << >> /\ discovery.calls = << >> /\ discovery.callCount = 0
      /\ discovery.cancelled = FALSE /\ discovery.complete = FALSE
      /\ at.region = 1 /\ at.address = -1
  BY <1>1 DEF Scan!Nothing
<1>3. Passed("branches") = {}
  BY <1>1, <1>2, NothingPassed DEF Loops
<1>4. Cardinality({}) = 0 /\ Len(<< >>) = 0 /\ DOMAIN << >> = {}
  BY FS_EmptySet
<1>5. Scan!Small(0, MaxRecorded) = 0
  BY LimitAssumption DEF Scan!Small
<1>6. \A s : DOMAIN s = {} /\ Len(s) = 0 => Tells(s, 0, {})
  BY <1>4, <1>5 DEF Tells
<1>7. BranchesTold
  <2>1. BranchAddresses = << >>
    BY <1>2, <1>4 DEF BranchAddresses
  <2>2. Tells(BranchAddresses, discovery.branchCount, {})
    BY <1>2, <1>4, <1>6, <2>1
  <2>3. QED
    BY <1>1, <1>3, <2>2 DEF BranchesTold
<1>8. PointersTold
  <2>1. Tells(discovery.pointers, discovery.pointerCount, {})
    BY <1>2, <1>4, <1>6
  <2>2. QED
    BY <1>1, <2>1 DEF PointersTold
<1>9. TablesTold
  BY <1>1, <1>2 DEF TablesTold
<1>10. CallsTold
  BY <1>1, <1>2, <1>4 DEF CallsTold
<1>11. Recordings
  <2>1. at \in [table : Nat, region : 1 .. Len(Regions) + 1, address : Int]
    BY <1>1, RegionBounds
  <2>2. /\ discovery.branches \in Seq(BranchRecords) /\ discovery.pointers \in Seq(Nat)
        /\ discovery.calls \in Seq(CallRecords)
    BY <1>2
  <2>3. DOMAIN discovery = DOMAIN Scan!Nothing
    BY <1>1
  <2>4. QED
    BY <1>1, <1>2, <2>1, <2>2, <2>3 DEF Recordings, Loops
<1>12. Place
  BY <1>2 DEF Place
<1>13. QED
  BY <1>7, <1>8, <1>9, <1>10, <1>11, <1>12 DEF ScanInv

LEMMA ScanInductive == ScanInv /\ [Scan!Next]_(Scan!vars) => ScanInv'
<1> SUFFICES ASSUME ScanInv, [Scan!Next]_(Scan!vars) PROVE ScanInv'
  OBVIOUS
<1>1. ASSUME NEW loop \in Loops, Scan!CancelAtRegion(loop) \/ Scan!CancelAtWord(loop)
      PROVE  ScanInv'
  <2>1. pc \in Loops /\ Scan!Cancel
    BY <1>1 DEF Scan!CancelAtRegion, Scan!CancelAtWord, Scan!AtWord, Scan!Scanning,
                Scan!InRegions
  <2>2. QED
    BY <2>1, CancelKeeps
<1>2. CASE Scan!ScanBranches
  BY <1>1, <1>2, GapKeeps, ReadBranchesKeeps, LoopEndsKeeps DEF Scan!ScanBranches, Loops
<1>3. CASE Scan!ScanPointers
  BY <1>1, <1>3, GapKeeps, ReadPointersKeeps, LoopEndsKeeps DEF Scan!ScanPointers, Loops
<1>4. CASE Scan!ScanCalls
  BY <1>1, <1>4, GapKeeps, ReadCallsKeeps, LoopEndsKeeps, SkipTableKeeps
     DEF Scan!ScanCalls, Loops
<1>5. CASE Scan!WalkTables
  BY <1>5, WalkTablesKeeps
<1>6. CASE Scan!CallsEnd \/ Scan!FinishScan \/ Scan!SleepSlice \/ Scan!Sample
           \/ Scan!SamplerEnds
  BY <1>6, OverKeeps
<1>7. CASE Scan!RequestStop \/ UNCHANGED Scan!vars
  BY <1>7, StillKeeps DEF Scan!RequestStop, Scan!vars
<1>8. QED
  BY <1>2, <1>3, <1>4, <1>5, <1>6, <1>7 DEF Scan!Next, Scan!Sampler

LEMMA SameCount == \A S : Scan!Cardinality(S) = Cardinality(S)
BY DEF Scan!Cardinality, Cardinality

LEMMA ToldIsFaithful == ScanInv => Scan!ScanIsFaithful
<1> SUFFICES ASSUME ScanInv PROVE Scan!ScanIsFaithful
  OBVIOUS
<1> DEFINE d == discovery
           all == ~d.cancelled /\ pc \in {"finish", "sample", "done"}
<1>1. memory \in Memories /\ (d.complete => all)
  BY DEF ScanInv, Recordings
<1>2. IsFiniteSet(Scan!BranchWords) /\ IsFiniteSet(Scan!PointerWords)
  <2>1. /\ Scan!BranchWords \subseteq Scan!Words("branches")
        /\ Scan!PointerWords \subseteq Scan!Words("pointers")
    BY DEF Scan!BranchWords, Scan!PointerWords
  <2>2. QED
    BY <1>1, <2>1, FiniteWords, FS_Subset DEF Loops
<1>3. /\ d.branchCount <= Cardinality(Scan!BranchWords)
      /\ all => d.branchCount = Cardinality(Scan!BranchWords)
      /\ \A n \in DOMAIN d.branches :
           \E w \in Scan!BranchWords : w[2] = d.branches[n].address
      /\ Scan!Increasing(d.branches, LAMBDA b : b.address)
      /\ Len(d.branches) = Scan!Small(d.branchCount, MaxRecorded)
  <2>1. PICK W \in SUBSET Scan!BranchWords :
          /\ Tells(BranchAddresses, d.branchCount, W)
          /\ all => W = Scan!BranchWords
    BY DEF ScanInv, BranchesTold
  <2>2. /\ DOMAIN BranchAddresses = DOMAIN d.branches
        /\ \A n \in DOMAIN d.branches : BranchAddresses[n] = d.branches[n].address
        /\ Len(BranchAddresses) = Len(d.branches)
    BY AddressesOf DEF BranchAddresses, ScanInv, Recordings
  <2>3. d.branchCount <= Cardinality(Scan!BranchWords)
    BY <1>2, <2>1, FS_Subset DEF Tells
  <2>4. Scan!Increasing(d.branches, LAMBDA b : b.address)
    BY <2>1, <2>2 DEF Tells, Scan!Increasing
  <2>5. QED
    BY <2>1, <2>2, <2>3, <2>4 DEF Tells
<1>4. /\ d.pointerCount <= Cardinality(Scan!PointerWords)
      /\ all => d.pointerCount = Cardinality(Scan!PointerWords)
      /\ \A n \in DOMAIN d.pointers : \E w \in Scan!PointerWords : w[2] = d.pointers[n]
      /\ Scan!Increasing(d.pointers, LAMBDA p : p)
      /\ Len(d.pointers) = Scan!Small(d.pointerCount, MaxRecorded)
  <2>1. PICK W \in SUBSET Scan!PointerWords :
          /\ Tells(d.pointers, d.pointerCount, W)
          /\ all => W = Scan!PointerWords
    BY DEF ScanInv, PointersTold
  <2>2. d.pointerCount <= Cardinality(Scan!PointerWords)
    BY <1>2, <2>1, FS_Subset DEF Tells
  <2>3. Scan!Increasing(d.pointers, LAMBDA p : p)
    BY <2>1 DEF Tells, Scan!Increasing
  <2>4. QED
    BY <2>1, <2>2, <2>3 DEF Tells
<1>5. /\ \A n \in DOMAIN d.tables : Scan!IsLongestRun(d.tables[n])
      /\ all => Len(d.tables) = Scan!Small(Len(d.pointers), MaxCandidates)
  <2>1. \A n \in DOMAIN d.tables : d.tables[n] \in LongRuns
    BY DEF ScanInv, TablesTold
  <2>2. QED
    BY <2>1 DEF LongRuns, ScanInv, TablesTold, TablesWanted
<1>6. /\ d.callCount <= Cardinality(Scan!SlotCalls)
      /\ all => d.callCount = Cardinality(Scan!SlotCalls)
      /\ \A n \in DOMAIN d.calls : \E c \in Scan!SlotCalls :
           /\ c[2][2] = d.calls[n].address
           /\ discovery.tables[c[1]].offset = d.calls[n].offset
      /\ \A m, n \in DOMAIN d.calls :
           m # n => \/ d.calls[m].address # d.calls[n].address
                    \/ d.calls[m].offset # d.calls[n].offset
  <2>1. PICK W \in SUBSET Scan!SlotCalls :
          /\ discovery.callCount = Cardinality(W)
          /\ \A n \in DOMAIN discovery.calls : \E c \in W :
               /\ c[2][2] = discovery.calls[n].address
               /\ discovery.tables[c[1]].offset = discovery.calls[n].offset
          /\ \A m, n \in DOMAIN discovery.calls :
               m # n => \/ discovery.calls[m].address # discovery.calls[n].address
                        \/ discovery.calls[m].offset # discovery.calls[n].offset
          /\ all => W = Scan!SlotCalls
    BY DEF ScanInv, CallsTold
  <2>2. d.callCount <= Cardinality(Scan!SlotCalls)
    BY <2>1, FiniteSlotCalls, FS_Subset
  <2>3. QED
    BY <2>1, <2>2
<1>7. QED
  BY <1>1, <1>3, <1>4, <1>5, <1>6, SameCount, Zenon DEF Scan!ScanIsFaithful

LEMMA DiscoveryFaithful ==
  ASSUME part = "scan" => ScanInv, [DiscoveryNext]_<<part, vars, scanVars>>
  PROVE  (part = "scan" => ScanInv)'
<1>1. CASE part = "scan" /\ Scan!Next /\ UNCHANGED <<part, vars>>
  BY <1>1, ScanInductive
<1>2. CASE part = "probes" /\ UNCHANGED part
  BY <1>2
<1>3. CASE UNCHANGED <<part, vars, scanVars>>
  <2>1. part' = part /\ UNCHANGED <<memory, pc, at, discovery>>
    BY <1>3 DEF scanVars
  <2>2. QED
    BY <2>1, StillKeeps
<1>4. QED
  BY <1>1, <1>2, <1>3 DEF DiscoveryNext

(***************************************************************************)
(* HeartbeatHook::scanStaticReferences.  For any game, however many        *)
(* regions it is mapped in, and any limits: what is recorded is there, in  *)
(* the order of the addresses and once; a table is a longest run; and a    *)
(* scan that was not cancelled has counted everything.  ScanInv says of a  *)
(* loop what it has found among the words it has passed.                   *)
(***************************************************************************)
THEOREM FaithfulScan == DiscoverySpec => []ScanIsFaithful
<1>1. DiscoveryInit => (part = "scan" => ScanInv)
  BY InitialScan DEF DiscoveryInit
<1>2. (part = "scan" => ScanInv) => ScanIsFaithful
  BY ToldIsFaithful DEF ScanIsFaithful
<1>3. QED
  BY <1>1, <1>2, DiscoveryFaithful, PTL DEF DiscoverySpec
=============================================================================
