---------------------------- MODULE VtableProbes ----------------------------
(***************************************************************************)
(* The three probes that swap one pointer of a vtable of the game for a    *)
(* counting trampoline:                                                    *)
(*   "subtick"  ClientLevelTickProbe, armed by a steady heartbeat,         *)
(*   "slot"     VtableSlotProbe, armed by its own hook on the menu query,  *)
(*   "v3"       VtableSlotProbeV3, armed by any heartbeat after a delay.   *)
(* They share one protocol; a behaviour is about one of them.  An action   *)
(* with the name of a probe is that probe's own code, the others are the   *)
(* text the probes have in common.  Writing the slot is one step here: its *)
(* steps are those of ClientLevelTickHook, and what may come in between    *)
(* them is modelled there.                                                 *)
(***************************************************************************)
EXTENDS Integers, FiniteSets, Sequences

CONSTANTS
  Kinds,                 \* the probes to look at
  Threads,               \* game threads
  Instances,             \* objects whose method the slot is
  Stability, MaxStall,   \* heartbeatStability-, heartbeatMaximumStallMilliseconds
  Delay, Timeout,        \* activationDelay-, activationTimeoutMilliseconds
  Attempts,              \* attempts to restore the slot (3)
  Slices,                \* samplerSlicesPerInterval (20)
  CounterMod,            \* modulus of mCallbacksInFlight (2^32)
  MaxTime,               \* bounds: where the clock stops, for each install() in turn
  MaxCalls,              \* bound on entries of game threads
  MaxSamples,            \* bound on the sampler's reports
  MaxFaults,             \* bound on mprotect calls that fail
  MaxForeign             \* bound on writes of the slot by others

ASSUME ProbeConstants ==
  /\ Kinds \subseteq {"subtick", "slot", "v3"}
  /\ {Stability, MaxStall, Delay, Timeout, Attempts, Slices, CounterMod}
       \subseteq Nat \ {0}
  /\ {MaxCalls, MaxSamples, MaxFaults, MaxForeign} \subseteq Nat
  /\ MaxTime \in Seq(Nat)

None == "none"

\* Ids and pointers are not zero.
ASSUME GameAssumption ==
  /\ IsFiniteSet(Threads) /\ IsFiniteSet(Instances)
  /\ None \notin Threads \cup Instances

VARIABLES
  kind,        \* the probe this behaviour is about
  clock,       \* [now |-> time since armed, beats |-> times of heartbeats,
               \*  polled |-> the worker has looked at the clock since it moved]
  gate,        \* workerLoop's variables
  worker,      \* the probe's thread: "none", "gate", "open", "sampling", "exited"
  interval,    \* sampleLoop's variables of VtableSlotProbe
  stats,       \* mMenuTrueIntervals and mMenuFalseIntervals, by menu state
  slot,        \* what the vtable holds: "original", "trampoline", "other"
  probe,       \* the members that decide: registered, stop, patched, ...
  menu,        \* the menu query's hook: live, original stored, state, observed
  count,       \* the counters
  control,     \* the lifecycle thread: where it is, attempt to restore
  thread,      \* the game threads
  profile,     \* state of the last profile written
  since,       \* history since install() last zeroed the counters: where
               \* it met a thread, the threads and the instances as recorded
  bound        \* what the bounds are about: calls, samples, faults, ...

vars == <<kind, clock, gate, worker, interval, stats, slot, probe, menu, count,
          control, thread, profile, since, bound>>

-----------------------------------------------------------------------------

Heartbeats == Cardinality(clock.beats)

NoCalls ==
  [inFlight |-> 0, total |-> 0, menuTrue |-> 0, menuFalse |-> 0, menuUnknown |-> 0,
   firstThread |-> None, otherThreads |-> 0, firstInstance |-> None,
   lastInstance |-> None, transitions |-> 0, previous |-> 0]

NoGate == [beats |-> 0, advance |-> 0, start |-> -1, first |-> 0]
NoInterval == [open |-> FALSE, state |-> -1, stable |-> TRUE, slices |-> 0]
NoStats == [s \in {0, 1} |-> [known |-> FALSE, min |-> 0, max |-> 0]]
NoClock == [now |-> 0, beats |-> {}, polled |-> FALSE]
NoMenu == [live |-> FALSE, original |-> FALSE, state |-> -1, observed |-> FALSE]

Init ==
  /\ kind \in Kinds
  /\ clock = NoClock
  /\ gate = NoGate
  /\ worker = "none"
  /\ interval = NoInterval
  /\ stats = NoStats
  /\ slot = "original"
  /\ probe = [registered |-> FALSE, stop |-> FALSE, patched |-> FALSE, validated |-> FALSE]
  /\ menu = NoMenu
  /\ count = NoCalls
  /\ control = [at |-> "out", attempt |-> 0]
  /\ thread = [t \in Threads |-> [at |-> "game", instance |-> None]]
  /\ profile = None
  /\ since = [met |-> [t \in Threads |-> "game"], noted |-> <<>>, path |-> <<>>]
  /\ bound = [calls |-> 0, samples |-> 0, faults |-> 0, foreign |-> 0, installs |-> 0]

\* Threads that mCallbacksInFlight is meant to count.
Counted == {"first", "last", "classify", "thread", "end", "menuOriginal", "menuCall",
            "menuObserve", "menuEnd"}
\* Those whose call is in the total, and whose thread is not recorded yet.
Unnoted == {"first", "last", "classify", "thread"}
Inside == {t \in Threads : thread[t].at \in Counted}

\* How many threads are at these places, and how many install() met there.
Now(places) == Cardinality({t \in Threads : thread[t].at \in places})
Met(places) == Cardinality({t \in Threads : since.met[t] \in places})

-----------------------------------------------------------------------------
(* validateTarget(): the checks in their order.  Reading the slot comes    *)
(* after what identifies the binary and the table, and before the page.    *)

SubTickChecks == <<"loaded", "fingerprint", "region", "rtti", "target", "prefix",
                   "page_size", "protection">>
SlotChecks == <<"loaded", "fingerprint", "heartbeat_target", "region",
                "heartbeat_entry", "target", "page_size", "protection">>
V3Checks == <<"loaded", "fingerprint", "region", "target", "page_size", "protection">>

\* Where the checks may end: at "target" if the slot has been written, or
\* before, or anywhere, or nowhere.
Outcomes(checks) ==
  {n \in 1..Len(checks) + 1 :
     slot # "original" => \E m \in DOMAIN checks : checks[m] = "target" /\ n <= m}

Valid(checks, n) == n = Len(checks) + 1

\* install() up to the registration: members are reset, the target validated.
Arm(checks, keepsValidated) ==
  /\ control.at = "out" /\ bound.installs < Len(MaxTime)
  /\ worker = "none" /\ ~menu.live /\ ~probe.patched
  /\ bound' = [bound EXCEPT !.installs = @ + 1]
  /\ count' = NoCalls
  /\ stats' = NoStats
  /\ gate' = NoGate
  /\ clock' = NoClock
  /\ menu' = NoMenu
  /\ since' = [met |-> [t \in Threads |-> IF t \in Inside THEN thread[t].at ELSE "game"],
               noted |-> <<>>, path |-> <<>>]
  /\ \E n \in Outcomes(checks) :
       LET valid == Valid(checks, n)
           ok == valid /\ ~probe.registered
       IN
       /\ probe' = [registered |-> probe.registered \/ ok, stop |-> FALSE, patched |-> FALSE,
                    validated |-> valid \/ (keepsValidated /\ probe.validated)]
       /\ profile' = CASE ok -> profile [] valid /\ ~ok -> "registration_failed"
                       [] OTHER -> "validation_failed"
       /\ control' = [control EXCEPT !.at = IF ok THEN "armed" ELSE "out"]
  /\ UNCHANGED <<kind, worker, interval, slot, thread>>

SubTickInstall == kind = "subtick" /\ Arm(SubTickChecks, FALSE)
SlotInstall == kind = "slot" /\ Arm(SlotChecks, FALSE)
\* mTargetValidated is not among the members that V3 resets.
V3Install == kind = "v3" /\ Arm(V3Checks, TRUE)

\* install() of an armed probe returns at once.
InstallAgain ==
  /\ control.at = "out" /\ bound.installs < Len(MaxTime)
  /\ worker # "none" \/ menu.live \/ probe.patched
  /\ bound' = [bound EXCEPT !.installs = @ + 1]
  /\ UNCHANGED <<kind, clock, gate, worker, interval, stats, slot, probe, menu, count,
                 control, thread, profile, since>>

\* The probe's own hook on the menu query goes live before the pointer that
\* its detour calls is stored.  It may not install, or leave no original and
\* be reset after it was live.
HookMenu ==
  /\ kind = "slot" /\ control.at = "armed" /\ ~menu.original
  /\ \/ /\ ~menu.live
        /\ menu' = [menu EXCEPT !.live = TRUE]
        /\ UNCHANGED <<probe, profile, control>>
     \/ /\ probe' = [probe EXCEPT !.registered = FALSE]
        /\ menu' = [menu EXCEPT !.live = FALSE]
        /\ profile' = "menu_observer_failed"
        /\ control' = [control EXCEPT !.at = "out"]
  /\ UNCHANGED <<kind, clock, gate, worker, interval, stats, slot, count, thread, since,
                 bound>>

StoreMenuOriginal ==
  /\ kind = "slot" /\ control.at = "armed" /\ menu.live /\ ~menu.original
  /\ menu' = [menu EXCEPT !.original = TRUE]
  /\ UNCHANGED <<kind, clock, gate, worker, interval, stats, slot, probe, count, control,
                 thread, profile, since, bound>>

StartWorker ==
  /\ control.at = "armed"
  /\ kind = "slot" => menu.original
  /\ control' = [control EXCEPT !.at = "out"]
  /\ \/ /\ worker' = "gate"
        /\ profile' = "waiting"
        /\ UNCHANGED <<probe, menu>>
     \/ /\ probe' = [probe EXCEPT !.registered = FALSE]
        /\ menu' = [menu EXCEPT !.live = FALSE, !.original = FALSE]
        /\ profile' = "worker_start_failed"
        /\ UNCHANGED worker
  /\ UNCHANGED <<kind, clock, gate, interval, stats, slot, count, thread, since, bound>>

-----------------------------------------------------------------------------
(* workerLoop() until it may patch.  The clock moves while the worker      *)
(* sleeps, and the worker looks at every instant: its sleep of 100 ms is   *)
(* short beside the seconds that the gate measures.                        *)

Pass ==
  /\ worker = "gate" /\ clock.polled /\ clock.now < MaxTime[bound.installs]
  /\ clock' = [clock EXCEPT !.now = @ + 1, !.polled = FALSE]
  /\ UNCHANGED <<kind, gate, worker, interval, stats, slot, probe, menu, count, control,
                 thread, profile, since, bound>>

Beat ==
  /\ worker = "gate" /\ kind # "slot"
  /\ clock.now \notin clock.beats
  /\ clock' = [clock EXCEPT !.beats = @ \cup {clock.now}]
  /\ UNCHANGED <<kind, gate, worker, interval, stats, slot, probe, menu, count, control,
                 thread, profile, since, bound>>

Polls ==
  /\ worker = "gate" /\ ~clock.polled /\ ~probe.stop
  /\ clock' = [clock EXCEPT !.polled = TRUE]
  /\ UNCHANGED <<kind, interval, stats, slot, probe, menu, count, control, thread, since,
                 bound>>

Observed(g) ==
  IF Heartbeats > g.beats
  THEN [beats |-> Heartbeats, advance |-> clock.now,
        start |-> IF g.start = -1 THEN clock.now ELSE g.start,
        first |-> IF g.start = -1 THEN Heartbeats ELSE g.first]
  ELSE g

\* Mutant: the gate forgives any stall shorter than its window.
StalledLate(g) == g.start # -1 /\ clock.now - g.advance >= Stability

Stalled(g) == g.start # -1 /\ clock.now - g.advance > MaxStall
Steady(g) == /\ g.start # -1 /\ ~Stalled(g)
             /\ clock.now - g.start >= Stability /\ Heartbeats > g.first

SubTickPoll ==
  /\ kind = "subtick" /\ Polls
  /\ LET g == Observed(gate) IN
     /\ gate' = IF Stalled(g) THEN [g EXCEPT !.start = -1, !.first = 0] ELSE g
     /\ worker' = IF Steady(g) THEN "open" ELSE worker
     /\ profile' = IF gate'.start = -1 THEN "waiting" ELSE "validating"

\* The other two look once, and give up when it takes too long.
DelayedPoll(ready) ==
  /\ Polls
  /\ worker' = CASE ready /\ clock.now >= Delay -> "open"
                 [] ~(ready /\ clock.now >= Delay) /\ clock.now >= Timeout -> "exited"
                 [] OTHER -> "gate"
  /\ profile' = IF worker' = "exited" THEN "activation_timeout" ELSE profile
  /\ UNCHANGED gate

SlotPoll == kind = "slot" /\ DelayedPoll(menu.observed /\ menu.state # -1)
V3Poll == kind = "v3" /\ DelayedPoll(Heartbeats > 0)

StopWaiting ==
  /\ worker \in {"gate", "open"} /\ probe.stop
  /\ worker' = "exited"
  /\ clock' = NoClock
  /\ gate' = NoGate
  /\ UNCHANGED <<kind, interval, stats, slot, probe, menu, count, control, thread, profile,
                 since, bound>>

-----------------------------------------------------------------------------
(* Writing the slot.                                                       *)

\* What writeSlotPointer(value) may do to a slot that holds `from'.
Writes(from, value) ==
  {[slot |-> value, ok |-> TRUE, faults |-> 0],
   [slot |-> from, ok |-> FALSE, faults |-> 1],
   [slot |-> value, ok |-> FALSE, faults |-> 1]}

\* patchSlot() rolls a write back that it could not finish.
Patches ==
  {w \in Writes("original", "trampoline") : w.slot = "original" \/ w.ok} \cup
  {[slot |-> b.slot, ok |-> FALSE, faults |-> b.faults + 1] :
     b \in Writes("trampoline", "original")}

\* The stop flag is looked at just before; a stop that comes in between acts
\* as one that comes right after, since uninstall() only joins then.
PatchSlot ==
  /\ worker = "open" /\ ~probe.stop
  /\ clock' = NoClock
  /\ gate' = NoGate
  /\ \/ /\ slot # "original"
        /\ worker' = "exited" /\ profile' = "patch_failed"
        /\ UNCHANGED <<slot, probe, bound>>
     \/ /\ slot = "original"
        /\ \E w \in Patches :
             /\ bound.faults + w.faults <= MaxFaults
             /\ bound' = [bound EXCEPT !.faults = @ + w.faults]
             /\ slot' = w.slot
             /\ probe' = [probe EXCEPT !.patched = w.ok]
             /\ worker' = IF w.ok THEN "sampling" ELSE "exited"
             /\ profile' = IF w.ok THEN "sampling" ELSE "patch_failed"
  /\ UNCHANGED <<kind, interval, stats, menu, count, control, thread, since>>

SubTickPatch == kind = "subtick" /\ PatchSlot
SlotPatch == kind = "slot" /\ PatchSlot
V3Patch == kind = "v3" /\ PatchSlot

\* One attempt of restoreSlot().
RestoreSlot ==
  /\ control.at = "restore"
  /\ \/ /\ slot = "original"
        /\ probe' = [probe EXCEPT !.patched = FALSE]
        /\ control' = [at |-> "unhook", attempt |-> 0]
        /\ UNCHANGED <<slot, bound>>
     \/ /\ slot = "other"
        /\ control' = [at |-> "unhook", attempt |-> 0]
        /\ UNCHANGED <<slot, probe, bound>>
     \/ /\ slot = "trampoline"
        /\ \E w \in Writes(slot, "original") :
             /\ bound.faults + w.faults <= MaxFaults
             /\ bound' = [bound EXCEPT !.faults = @ + w.faults]
             /\ slot' = w.slot
             /\ probe' = [probe EXCEPT !.patched = ~w.ok]
             /\ control' = IF w.ok \/ control.attempt + 1 = Attempts
                           THEN [at |-> "unhook", attempt |-> 0]
                           ELSE [control EXCEPT !.attempt = @ + 1]
  /\ UNCHANGED <<kind, clock, gate, worker, interval, stats, menu, count, thread, profile,
                 since>>

SubTickRestore == kind = "subtick" /\ RestoreSlot
SlotRestore == kind = "slot" /\ RestoreSlot
V3Restore == kind = "v3" /\ RestoreSlot

\* Somebody else writes the slot, and may write it back.
ForeignWrite ==
  /\ bound.foreign < MaxForeign
  /\ \E v \in {"original", "other"} \ {slot} : slot' = v
  /\ bound' = [bound EXCEPT !.foreign = @ + 1]
  /\ UNCHANGED <<kind, clock, gate, worker, interval, stats, probe, menu, count, control,
                 thread, profile, since>>

-----------------------------------------------------------------------------
(* sampleLoop().                                                           *)

Report ==
  /\ bound' = [bound EXCEPT !.samples = @ + 1]
  /\ count' = [count EXCEPT !.previous = count.total]
  /\ profile' = "sampling"

Sample ==
  /\ worker = "sampling" /\ ~probe.stop /\ bound.samples < MaxSamples
  /\ Report
  /\ UNCHANGED <<kind, clock, gate, worker, interval, stats, slot, probe, menu, control,
                 thread, since>>

SubTickSample == kind = "subtick" /\ Sample
V3Sample == kind = "v3" /\ Sample

\* VtableSlotProbe samples in slices, and asks at each whether the menu is
\* as it was when the interval began.
BeginInterval ==
  /\ kind = "slot" /\ worker = "sampling" /\ ~probe.stop /\ ~interval.open
  /\ bound.samples < MaxSamples
  /\ interval' = [open |-> TRUE, state |-> menu.state, stable |-> TRUE, slices |-> 0]
  /\ UNCHANGED <<kind, clock, gate, worker, stats, slot, probe, menu, count, control,
                 thread, profile, since, bound>>

SleepSlice ==
  /\ interval.open /\ interval.slices < Slices /\ ~probe.stop
  /\ interval' = [interval EXCEPT !.slices = @ + 1,
                                  !.stable = @ /\ menu.state = interval.state]
  /\ UNCHANGED <<kind, clock, gate, worker, stats, slot, probe, menu, count, control,
                 thread, profile, since, bound>>

updateIntervalStats(s, delta) ==
  [s EXCEPT !.known = TRUE,
            !.min = IF s.known /\ s.min < delta THEN s.min ELSE delta,
            !.max = IF s.known /\ s.max > delta THEN s.max ELSE delta]

EndInterval ==
  /\ interval.open
  /\ interval.slices = Slices \/ (interval.slices > 0 /\ probe.stop)
  /\ interval' = NoInterval
  /\ Report
  /\ stats' = IF interval.stable /\ interval.state \in {0, 1}
              THEN [stats EXCEPT ![interval.state] =
                      updateIntervalStats(@, count.total - count.previous)]
              ELSE stats
  /\ UNCHANGED <<kind, clock, gate, worker, slot, probe, menu, control, thread, since>>

StopSampling ==
  /\ worker = "sampling" /\ probe.stop /\ interval.slices = 0
  /\ worker' = "exited"
  /\ interval' = NoInterval
  /\ UNCHANGED <<kind, clock, gate, stats, slot, probe, menu, count, control, thread,
                 profile, since, bound>>

-----------------------------------------------------------------------------
(* uninstall().                                                            *)

RequestStop ==
  /\ control.at = "out" /\ (worker # "none" \/ menu.live \/ probe.patched)
  /\ probe' = [probe EXCEPT !.stop = TRUE]
  /\ control' = [control EXCEPT !.at = "join"]
  /\ UNCHANGED <<kind, clock, gate, worker, interval, stats, slot, menu, count, thread,
                 profile, since, bound>>

Join ==
  /\ control.at = "join" /\ worker \in {"none", "exited"}
  /\ worker' = "none"
  /\ clock' = NoClock
  /\ gate' = NoGate
  /\ control' = [control EXCEPT !.at = IF probe.patched THEN "restore" ELSE "unhook"]
  /\ UNCHANGED <<kind, interval, stats, slot, probe, menu, count, thread, profile, since,
                 bound>>

\* Only VtableSlotProbe has a hook of its own to remove.
Unhook ==
  /\ control.at = "unhook"
  /\ menu' = [menu EXCEPT !.live = FALSE, !.original = FALSE]
  /\ control' = [control EXCEPT !.at = "drain"]
  /\ UNCHANGED <<kind, clock, gate, worker, interval, stats, slot, probe, count, thread,
                 profile, since, bound>>

\* Mutant: the registration is cleared although the trampoline is still called.
FinishUnregistered(drained) ==
  /\ control.at = "drain"
  /\ drained = (count.inFlight = 0)
  /\ control' = [control EXCEPT !.at = "out"]
  /\ profile' = IF probe.patched THEN "restore_failed_unsafe_to_unload" ELSE "stopped"
  /\ probe' = [probe EXCEPT !.registered = FALSE]
  /\ UNCHANGED <<kind, clock, gate, worker, interval, stats, slot, menu, count, thread,
                 since, bound>>

\* The wait for callbacks ends when there are none, or after a second.
Finish(drained) ==
  /\ control.at = "drain"
  /\ drained = (count.inFlight = 0)
  /\ control' = [control EXCEPT !.at = "out"]
  /\ profile' = IF probe.patched THEN "restore_failed_unsafe_to_unload" ELSE "stopped"
  /\ probe' = IF probe.patched THEN probe ELSE [probe EXCEPT !.registered = FALSE]
  /\ UNCHANGED <<kind, clock, gate, worker, interval, stats, slot, menu, count, thread,
                 since, bound>>

SubTickFinish == kind = "subtick" /\ \E drained \in BOOLEAN : Finish(drained)
SlotFinish == kind = "slot" /\ \E drained \in BOOLEAN : Finish(drained)
V3Finish == kind = "v3" /\ \E drained \in BOOLEAN : Finish(drained)

safeToUnload == ~probe.patched

-----------------------------------------------------------------------------
(* Game threads: the trampoline.                                           *)

At(t, where) == thread[t].at = where
Goes(t, where) == thread' = [thread EXCEPT ![t].at = where]

CallSlot(t) ==
  /\ At(t, "game") /\ slot = "trampoline" /\ bound.calls < MaxCalls
  /\ bound' = [bound EXCEPT !.calls = @ + 1]
  /\ \E i \in IF kind = "subtick" THEN Instances ELSE {None} :
       thread' = [thread EXCEPT ![t] = [at |-> "trampoline", instance |-> i]]
  /\ UNCHANGED <<kind, clock, gate, worker, interval, stats, slot, probe, menu, count,
                 control, profile, since>>

SubTickTrampoline(t) == kind = "subtick" /\ CallSlot(t)
SlotTrampoline(t) == kind = "slot" /\ CallSlot(t)
V3Trampoline(t) == kind = "v3" /\ CallSlot(t)

\* Unregistered, the trampoline goes on to the original.
recordActive(t) ==
  /\ At(t, "trampoline")
  /\ Goes(t, IF probe.registered THEN "record" ELSE "game")
  /\ UNCHANGED <<kind, clock, gate, worker, interval, stats, slot, probe, menu, count,
                 control, profile, since, bound>>

BeginRecord(t) ==
  /\ At(t, "record")
  /\ count' = [count EXCEPT !.inFlight = (@ + 1) % CounterMod, !.total = @ + 1]
  /\ Goes(t, CASE kind = "subtick" -> "first" [] kind = "slot" -> "classify"
                [] OTHER -> "thread")
  /\ UNCHANGED <<kind, clock, gate, worker, interval, stats, slot, probe, menu, control,
                 profile, since, bound>>

SubTickFirst(t) ==
  /\ At(t, "first")
  /\ count' = IF count.firstInstance = None
              THEN [count EXCEPT !.firstInstance = thread[t].instance] ELSE count
  /\ Goes(t, "last")
  /\ UNCHANGED <<kind, clock, gate, worker, interval, stats, slot, probe, menu, control,
                 profile, since, bound>>

\* Mutant: the first instance counts as a transition from none.
SubTickLastCountsFirst(t) ==
  /\ At(t, "last")
  /\ count' = [count EXCEPT !.lastInstance = thread[t].instance,
                            !.transitions = IF count.lastInstance = thread[t].instance
                                            THEN @ ELSE @ + 1]
  /\ since' = [since EXCEPT !.path = Append(@, thread[t].instance)]
  /\ Goes(t, "thread")
  /\ UNCHANGED <<kind, clock, gate, worker, interval, stats, slot, probe, menu, control,
                 profile, bound>>

SubTickLast(t) ==
  /\ At(t, "last")
  /\ LET moves == count.lastInstance \notin {None, thread[t].instance}
     IN  count' = [count EXCEPT !.lastInstance = thread[t].instance,
                                !.transitions = IF moves THEN @ + 1 ELSE @]
  /\ since' = [since EXCEPT !.path = Append(@, thread[t].instance)]
  /\ Goes(t, "thread")
  /\ UNCHANGED <<kind, clock, gate, worker, interval, stats, slot, probe, menu, control,
                 profile, bound>>

\* The menu state is that of the last menu query that returned.
SlotClassify(t) ==
  /\ At(t, "classify")
  /\ count' = CASE menu.state = 1 -> [count EXCEPT !.menuTrue = @ + 1]
                [] menu.state = 0 -> [count EXCEPT !.menuFalse = @ + 1]
                [] OTHER -> [count EXCEPT !.menuUnknown = @ + 1]
  /\ Goes(t, "thread")
  /\ UNCHANGED <<kind, clock, gate, worker, interval, stats, slot, probe, menu, control,
                 profile, since, bound>>

RecordThread(t) ==
  /\ At(t, "thread")
  /\ count' = [count EXCEPT
       !.firstThread = IF @ = None THEN t ELSE @,
       !.otherThreads = IF count.firstThread \in {None, t} THEN @ ELSE @ + 1]
  /\ since' = [since EXCEPT !.noted = Append(@, t)]
  /\ Goes(t, "end")
  /\ UNCHANGED <<kind, clock, gate, worker, interval, stats, slot, probe, menu, control,
                 profile, bound>>

EndRecord(t) ==
  /\ At(t, "end")
  /\ count' = [count EXCEPT !.inFlight = (@ - 1) % CounterMod]
  /\ thread' = [thread EXCEPT ![t] = [at |-> "game", instance |-> None]]
  /\ UNCHANGED <<kind, clock, gate, worker, interval, stats, slot, probe, menu, control,
                 profile, since, bound>>

-----------------------------------------------------------------------------
(* Game threads: the detour of the menu query.  Unregistered, or before    *)
(* the original is stored, it answers false and the game is not asked.     *)

EnterMenu(t) ==
  /\ At(t, "game") /\ menu.live /\ bound.calls < MaxCalls
  /\ bound' = [bound EXCEPT !.calls = @ + 1]
  /\ Goes(t, IF probe.registered THEN "menuRecord" ELSE "game")
  /\ UNCHANGED <<kind, clock, gate, worker, interval, stats, slot, probe, menu, count,
                 control, profile, since>>

BeginMenu(t) ==
  /\ At(t, "menuRecord")
  /\ count' = [count EXCEPT !.inFlight = (@ + 1) % CounterMod]
  /\ Goes(t, "menuOriginal")
  /\ UNCHANGED <<kind, clock, gate, worker, interval, stats, slot, probe, menu, control,
                 profile, since, bound>>

LoadMenuOriginal(t) ==
  /\ At(t, "menuOriginal")
  /\ Goes(t, IF menu.original THEN "menuCall" ELSE "menuEnd")
  /\ UNCHANGED <<kind, clock, gate, worker, interval, stats, slot, probe, menu, count,
                 control, profile, since, bound>>

MenuAnswers(t) ==
  /\ At(t, "menuCall")
  /\ \E answer \in {0, 1} : menu' = [menu EXCEPT !.state = answer]
  /\ Goes(t, "menuObserve")
  /\ UNCHANGED <<kind, clock, gate, worker, interval, stats, slot, probe, count, control,
                 profile, since, bound>>

MenuObserved(t) ==
  /\ At(t, "menuObserve")
  /\ menu' = [menu EXCEPT !.observed = TRUE]
  /\ Goes(t, "menuEnd")
  /\ UNCHANGED <<kind, clock, gate, worker, interval, stats, slot, probe, count, control,
                 profile, since, bound>>

EndMenu(t) ==
  /\ At(t, "menuEnd")
  /\ count' = [count EXCEPT !.inFlight = (@ - 1) % CounterMod]
  /\ Goes(t, "game")
  /\ UNCHANGED <<kind, clock, gate, worker, interval, stats, slot, probe, menu, control,
                 profile, since, bound>>

-----------------------------------------------------------------------------

Installing == SubTickInstall \/ SlotInstall \/ V3Install \/ InstallAgain \/ HookMenu
              \/ StoreMenuOriginal \/ StartWorker

Waiting == SubTickPoll \/ SlotPoll \/ V3Poll \/ StopWaiting

Patching == SubTickPatch \/ SlotPatch \/ V3Patch

Sampling == SubTickSample \/ V3Sample \/ BeginInterval \/ SleepSlice \/ EndInterval
            \/ StopSampling

Uninstalling == RequestStop \/ Join \/ SubTickRestore \/ SlotRestore \/ V3Restore
                \/ Unhook \/ SubTickFinish \/ SlotFinish \/ V3Finish

Recording(t) == SubTickTrampoline(t) \/ SlotTrampoline(t) \/ V3Trampoline(t)
                \/ recordActive(t) \/ BeginRecord(t) \/ SubTickFirst(t) \/ SubTickLast(t)
                \/ SlotClassify(t) \/ RecordThread(t) \/ EndRecord(t)

Asking(t) == EnterMenu(t) \/ BeginMenu(t) \/ LoadMenuOriginal(t) \/ MenuAnswers(t)
             \/ MenuObserved(t) \/ EndMenu(t)

Next ==
  \/ Installing \/ Waiting \/ Patching \/ Sampling \/ Uninstalling
  \/ Pass \/ Beat \/ ForeignWrite
  \/ \E t \in Threads : Recording(t) \/ Asking(t)

Spec == Init /\ [][Next]_vars

-----------------------------------------------------------------------------

(***************************************************************************)
(* workerLoop of ClientLevelTickProbe and its siblings.  The worker only   *)
(* sees a counter grow at the instants it polls, and starts over when the  *)
(* counter stalls; still the slot is only written when the heartbeat has   *)
(* been heard without a gap longer than the stall it allows, for as long   *)
(* as it asks, or at all for V3, and never once uninstall() is past its    *)
(* join.                                                                   *)
(***************************************************************************)
HeardAllAlong ==
  \E s \in 0..(clock.now - Stability) :
    \A t \in s..clock.now :
      \E b \in clock.beats : b <= t /\ t - b <= MaxStall + 1

PatchIsJustified ==
  [][~probe.patched /\ probe'.patched =>
       /\ control.at \in {"out", "join"}
       /\ slot = "original"
       /\ kind = "subtick" => HeardAllAlong
       /\ kind = "v3" => clock.beats # {} /\ clock.now >= Delay
       /\ kind = "slot" => menu.observed /\ clock.now >= Delay]_vars

(***************************************************************************)
(* record() and menuDetour() of the probes, also when install() zeroes the *)
(* counters under callbacks that outlived their drain.  The number of      *)
(* callbacks in flight is short by exactly those that install() met, for   *)
(* good; every call is classified once; the first thread is the one that   *)
(* was recorded first, and each later call of another is counted; the      *)
(* transitions are the changes of instance, in the order of the exchanges; *)
(* and the reports never run ahead of the calls.                           *)
(***************************************************************************)
Others(noted) == Cardinality({n \in 1..Len(noted) : noted[n] # noted[1]})
Changes(path) == Cardinality({n \in 2..Len(path) : path[n] # path[n - 1]})

ProbeCallsAddUp ==
  LET noted == since.noted
      path == since.path
  IN
  /\ count.inFlight = (Now(Counted) - Met(Counted)) % CounterMod
  /\ count.menuTrue + count.menuFalse + count.menuUnknown + Now({"classify"})
       = IF kind = "slot" THEN count.total + Met({"classify"}) ELSE 0
  /\ Len(noted) + Now(Unnoted) = count.total + Met(Unnoted)
  /\ count.firstThread = IF noted = <<>> THEN None ELSE noted[1]
  /\ count.otherThreads = Others(noted)
  /\ Len(path) + Now({"first", "last"})
       = IF kind = "subtick" THEN count.total + Met({"first", "last"}) ELSE 0
  /\ count.lastInstance = IF path = <<>> THEN None ELSE path[Len(path)]
  /\ count.transitions = Changes(path)
  /\ count.previous <= count.total
  /\ \A s \in {0, 1} : stats[s].min <= stats[s].max /\ stats[s].max <= count.previous

(***************************************************************************)
(* patchSlot, restoreSlot and uninstall of the probes.  The trampoline is  *)
(* in the vtable only while the probe says so, or after a write and its    *)
(* rollback both failed; a probe that is down is not registered, has no    *)
(* hook and no thread, and says that it stopped only if it is safe to      *)
(* unload.                                                                 *)
(***************************************************************************)
ProbeIsAccounted ==
  /\ slot = "trampoline" => probe.patched \/ bound.faults >= 2
  /\ probe.patched => probe.registered
  /\ worker \in {"gate", "open", "sampling"} => probe.registered
  /\ control.at = "out" /\ worker = "none" =>
       /\ ~menu.live
       /\ probe.registered <=> probe.patched
       /\ profile = "stopped" => safeToUnload
       /\ profile = "restore_failed_unsafe_to_unload" <=> probe.patched
=============================================================================
