# Bedrock Aeronautics: TLA+ specifications

Specifications of the native module of Bedrock Aeronautics (the code under
`src/`): the hooks it places in a running Minecraft, the fixed-step simulation
they drive, and the lock-free structures that threads of the game share with it.
TLC checks every specification on a small instance; TLAPS proves nearly all of the
invariants, four action properties and a refinement for every value of the constants.

Paths below are relative to `src/` unless they start with `src/`.

## The system

The module is loaded into the game's process. Nothing in the game calls it: it
places hooks, and the game's own threads then run its code.

| Part | State | Operations | Runs on |
| --- | --- | --- | --- |
| Mod lifecycle (`src/android/BedrockAeronauticsMod.cpp`) | the objects below | `load`, `enable`, `disable`, `unload` | loader's thread |
| Heartbeat hook (`src/bedrock/HeartbeatHook.cpp`) | detour, call counter, sampler | `install`, `uninstall`, detour | game, sampler |
| ClientLevel tick hook (`src/bedrock/ClientLevelTickHook.cpp`) | one vtable slot, its page, callback counter, worker | `install`, `uninstall`, `record` | loader, worker, game |
| Level render hook (`src/bedrock/LevelRenderHook.cpp`) | three inline hooks, callback counter, per-thread scope, worker | `install`, `uninstall`, detours | loader, worker, game |
| Descriptor census (same file) | table of 32 slots, global counters | `recordDescriptor`, `recordPayload` | game |
| Event buses (`ClientLevelTickEvent.hpp`, `LevelRenderEvent.hpp`) | eight listener slots | `subscribe`, `unsubscribe`, `publish` | loader, game |
| Physics scheduler (`src/physics/PhysicsScheduler.cpp`) | body, world, counters, published pair | `start`, `stop`, `onClientLevelTick`, `renderSnapshot` | loader, game |
| Body integrator (`src/physics/VerticalBodyIntegrator.hpp`) | height, velocity, contact | `reset`, `step` | game (tick) |
| Render probe (`src/render/DiagnosticCubeRenderProbe.cpp`) | counters, interpolated position | `start`, `stop`, `onLevelRender` | loader, game (render) |
| Static scan (`HeartbeatHook::samplerLoop`) | what it found, its progress | scan, sample, stop | sampler |
| Vtable probes (`ClientLevelTickProbe`, `VtableSlotProbe`, `VtableSlotProbeV3`) | one vtable slot, counters, gate | `install`, `uninstall`, callbacks | loader, worker, game |
| Anchored flight proxy (`src/physics/AnchoredFlightProxy.cpp`) | phase, height, speed, mass, engines | `confirmAssembly`, `engage`, `requestReturn`, `step`, `reset` | its caller |
| Autopilot controller (`src/physics/AutopilotController.cpp`) | authority, setpoint, integrals, handoff time | `enterManualHelm`, `leaveHelm`, `engageHold`, `engageEmergencyBrake`, `update`, `reset` | its caller |
| Ship assembly builder (`src/physics/ShipAssemblyBuilder.cpp`) | none | `build` | its caller |
| Content pack (`content/behavior_packs/.../scripts`) | previews, confirmed ships, flights per player | interactions, tick intervals | the game's script thread |

How they interact. The heartbeat's call counter tells the workers of the tick
hook and of the render hook that the game runs steadily; only then do they
place their hooks. The tick hook publishes an event on the tick bus, the
scheduler is its listener: it advances the body and publishes a pair of
positions. The render hook publishes render events, the probe is the listener,
and reads the pair through `renderSnapshot`. `disable` and `unload` take the
hooks out in the opposite order, and refuse to go on when a hook says that it
cannot be unloaded. The flight proxy, the autopilot and the assembly builder are
called by tests only, so far; the content pack's scripts have twins of the proxy
and of the builder. The probes are the ancestors of the tick hook: their sources
are complete, but `CMakeLists.txt` no longer builds them.

What is hard. The threads that run the hooks cannot be stopped or joined: the
module can only count them and wait for a limited time. Memory protection calls
fail between the steps of a patch. Snapshots and the census are read and
written without locks. The body is reset in the middle of the handler that
publishes it. Sessions follow one another on static and thread-local state that
survives them. `PROJECT.json` lists each such hazard with its line and with the
properties that would catch it.

What makes each part correct:

- tick hook: the game's vtable never keeps a pointer to the module's code that
  nobody knows of; page protections are restored or reported; two threads never
  patch at once; `uninstall` returns;
- render hook: the same for the inline hooks, and a callback that outlives the
  drain makes unloading refuse, unless a later `install` forgets it;
- snapshot: a read returns one publication, current at some moment of the read;
- scheduler: what is rendered is the simulated body, and no pair is interpolated
  across a reset;
- census: one writer per slot, nothing lost, nothing counted twice;
- buses: a listener is called only between subscribe and unsubscribe;
- scan: nothing is reported that is not in the binary, and stopping is prompt;
- probes: no slot is patched before the game runs steadily, no call is counted
  twice or lost, no trampoline is forgotten;
- content sessions: a flight starts only from a ship its player confirmed;
- flight cores: no flight without lift, each manoeuvre ends within its band; no
  jump of the controls when the autopilot takes over; the two searches for a ship
  accept the same ships.

## Modules

| Module | Models | Extends or instantiates |
| --- | --- | --- |
| `ClientLevelTickHook` | worker, slot, page, trampoline, lifecycle up to unload | |
| `ClientLevelTickHookProofs` | its theorems | `ClientLevelTickHook` |
| `SnapshotRegister` | abstract: an atomic register whose read may fail | |
| `RenderSnapshot` | `publishRenderSnapshot`, `renderSnapshot` | instantiates `SnapshotRegister` |
| `RenderSnapshotProofs` | its theorems, and the refinement | `RenderSnapshot` |
| `VerticalBody` | the integrator | |
| `PhysicsScheduler` | `start`, `stop`, `onClientLevelTick` | `VerticalBody` |
| `PhysicsSchedulerProofs` | its theorems | `PhysicsScheduler` |
| `DescriptorCensus` | the census of the terrain helper | |
| `DescriptorCensusProofs` | its theorems | `DescriptorCensus` |
| `LevelRenderHook` | installation, removal and detours of the inline hooks | |
| `LevelRenderHookProofs` | its theorems | `LevelRenderHook` |
| `ModLifecycle` | `enable`, `disable`, `unload` over all hooks, buses and listeners; the heartbeat hook | |
| `ModLifecycleProofs` | its theorems | `ModLifecycle` |
| `StaticScan` | the sampler of the heartbeat hook: its scan of the binary, its sampling loop | |
| `VtableProbes` | the three probes on a vtable slot | |
| `Discovery` | the scan and the probes side by side | `VtableProbes`, instantiates `StaticScan` |
| `DiscoveryProofs` | theorems about both | `Discovery` |
| `ShipScan` | what a ship is: connected, within limits, complete | |
| `FlightSession` | the content pack's previews, confirmations and flights | `ShipScan` |
| `ShipAssembly` | both searches for a ship, block by block | `ShipScan` |
| `FixedPoint` | quotients rounded towards zero, `std::clamp` | |
| `AnchoredFlightProxy` | the native flight proxy with its controller | `FixedPoint` |
| `AutopilotController` | authority, handoff and the cascaded controllers | `FixedPoint` |
| `FlightCores` | the native flight code: the proxy, the autopilot and the searches side by side | `ShipScan`, instantiates `AnchoredFlightProxy`, `AutopilotController`, `ShipAssembly` |
| `FlightProofs` | theorems about the sessions and about the native flight code | `FlightSession`, `FlightCores` |
| `MC...` | the instances TLC checks: values of the constants | the module of that name |

The pieces compose by abstraction. `PhysicsScheduler` publishes a pair in one
step, because `RenderSnapshot` shows that readers see a publication as one.
`DescriptorCensus` gives each thread a begin and an end of a helper call, which
`LevelRenderHook` shows to be what the detours do. The gate that both workers
wait at is a free choice in the two hook modules: they may patch at any time
after their start. `ModLifecycle` puts the parts side by side again, each reduced
to the steps that meet another part; there the gate opens when the heartbeat has
been counted. `VtableProbes` takes the gate up by itself, with clock, stalls and
restarts of the wait; in turn it writes its slot in one step, since the steps of
a write are those of `ClientLevelTickHook`. `FlightSession` scans in one step, by
the definition of a ship in `ShipScan`; `ShipAssembly` shows that the script's loop
computes just that (`SearchesAgree`). `Discovery` and `FlightCores` put parts
that share no state side by side; a behaviour is about one of them, `part`.

### Correspondence

`ClientLevelTickHook`. Each access to `slot`, `page`, `sActive` and
`mCallbacksInFlight` is a step. `writeSlotPointer` has three call sites (patch,
rollback, restore) that may in principle overlap, so each has an activation of
its own (`call`, `errno`). `control` is the loader's thread in `install` and
`uninstall`; `game[t]` is a thread in the trampoline. `lost` remembers whether
`install` zeroed the counter while somebody was counted. `RestAccounted` is stated of
the states in which nobody writes. `UnloadLeavesNoTrampoline` is stated of the state in which the loader unmaps the module.

`RenderSnapshot`. A payload is the number of the publication that wrote it, so
that a torn snapshot is one whose fields disagree. Stores of one publication and
loads of one attempt have no order among themselves. `LoadsOrdered` says whether
the second load of the counter waits for the field loads: the processor may do
either, since the loads are `memory_order_relaxed` and the second load is an
acquire, which orders only what follows it. `start` resets the counter in
`Restart`, which needs the readers and the writer at rest.

`PhysicsScheduler`. `Tick(level)` is the whole of `onClientLevelTick` for an
event with a level: world change, cycle end, reset, step, counters, publication.
Level pointers are model values.

`DescriptorCensus`. A descriptor stands for its key. Slots are claimed and keys
published as in `recordDescriptor`; the claim of a copy, its count, its read and
the store of a failure are steps of their own, since threads meet between them.
`pending` is the thread-local `gTerrainHelperPending` and `ending` the copy the end
callback takes of it. What the copies contain is left out.

`ModLifecycle`. The loader's thread works off `todo`, a list of components to bring
up or take down; `at` is its place inside the running `start`, `stop`, `install`
or `uninstall`. `Instead` is what `enable` does when a component fails. Each
source (heartbeat, tick, render) has one game thread, `game[s]`, whose steps are
the detour's: look up the registration, count, load the listener, call it,
uncount. `odd` is the parity of the scheduler's sequence counter, which `start`
and a tick callback both move. `stray` remembers the sources with a callback that
outlived its drain: the drain gave up on it, or the counter did not show it, or there
was none, as when the heartbeat's hook comes without an original. The
tick and render hooks keep here only one `hooked` flag each; failing patches and
nested detours are in their own modules. The two buses are a listener each, since
each has one in the code, which never subscribes from two threads.

`FlightSession`. Each callback of the script is a step: an interaction event
(`Press`, `PressAgain`), the task it queued (`RunTask`, the whole of
`processControlInteraction`), and one run of each interval (`UpdateFlights`,
`UpdatePreviews`). The maps of `main.js` are functions from players to a record
or `None`. A player who leaves and returns gets a new object, numbered by `joins`;
a record keeps the number it was made with, and using an old object throws, which
is the `catch` of each callback. `Scan` is the result of `scanConnectedBlocks`: the
ship, or `None` for a snapshot that is not ready. The altitude is left out here:
`NextPhases` says which phase a step of `stepFlightProxy` may end in. `spent` counts
the presses that confirmations and starts have used up. Parts of the environment
(edits, movement, sneaking, departures) are the game's, modelled from what the script
reads of it.

`StaticScan`. The game's bytes are two functions, from the addresses of words to
instructions and from those of pointers to values; `Memories` is the set of
binaries to scan. `pc` is the loop the sampler is in and a step is one turn of it:
branches, pointers, tables, calls through tables, then sampling. The stop flag may
be set between any two steps. The recorded lists have the limits of the source as
constants.

`VtableProbes`. `kind` is the probe a behaviour is about; an action with a probe's
name is that probe's own code, the others are what the three share. `gate` holds
the variables of `workerLoop`, `clock` the times of heartbeats since the worker
began; time passes only after a worker that waits has looked at it, which is the
10 ms loop against a stability time of seconds. `menu` is the inline hook with
which `VtableSlotProbe` looks at the menu query. `since` is history: where the
last `install`, which zeroes the counters, met each thread, and the threads and
instances in the order in which `record` has noted them since.

`AnchoredFlightProxy` and `AutopilotController`. Each public method is an action.
Doubles are integers: micrometres for the proxy, thousandths for the autopilot,
with the source's gains and limits and quotients rounded towards zero. Near its
anchor a returning ship is linear, since no limit acts there; `near` says that
height and speed are scaled up by powers of two, as the exponent of a double does
it. `underway` counts the steps of a manoeuvre, `measured` and `updates` remember
what the last `update` saw.

`ShipAssembly`. `scan` is the state of `scanConnectedBlocks`, `build` that of
`ShipAssemblyBuilder::build`, each with its queue and its own order of checks;
`flaw` is what a caller of the native builder may get wrong (a mass, a position
given twice).

`LevelRenderHook`. `stack[t]` is the nest of detours of one thread: the terrain
helper is called from a terrain task. `removal` is `removeHooks`, run by the
worker (a hook cannot be placed) or by `uninstall`. `forgotten` remembers how many
callbacks the last `install()` met in the game's code, `outlived` that a callback
outlived its registration. `install()` asks for nothing but a worker that is not
there, so it also follows a refused `disable`.

## Runs

| Run | Shows | Instance |
| --- | --- | --- |
| `tick_hook` | all of the tick hook's properties | 2 threads, 3 failures, 1 foreign write, 2 installs |
| `tick_hook_leak` | two failures leave the trampoline behind (violation) | 2 failures |
| `render_snapshot` | whole snapshots, termination, refinement | 1 reader, 2 fields, 4 publications, 4 attempts, 1 restart |
| `render_snapshot_relaxed` | torn snapshot when loads are not ordered (violation) | the same |
| `physics_scheduler` | bookkeeping of the body and its pairs | the source's constants, 420 events, 2 levels, 2 worlds per session, 2 sessions |
| `descriptor_census` | ownership and conservation | 2 threads, 2 descriptors, 2 slots, nesting 2, 4 calls |
| `level_render_hook` | hooks, counter, scopes, unload, termination | 2 threads, 3 detours, 3 entries, counter modulo 8, 2 installs, 2 uninstalls |
| `mod_lifecycle` | take-down order, partial enables, refusals, stragglers | 3 calls, 1 heartbeat, 1 game thread per source |
| `mod_lifecycle_parity` | two writers of one sequence counter (violation) | the same |
| `flight_session` | what flies was confirmed, presses count once, nothing stays behind | 1 player, 5 cells, 5 presses, 1 edit, 1 return, limits of 4 blocks and a span of 3 |
| `discovery` | the scan reports what is there and stops soon; the probes patch when they may, count every call, forget no trampoline | 72 binaries of 7 instructions and 7 pointers; 2 threads, 2 instances, 3 calls, 2 failures, 1 foreign write, 2 installs, 6 units of time for the first and 1 for the second |
| `flight_cores` | flights have lift, stay in their band and end; takeovers are smooth; the controllers correct; the searches agree | 4 masses, 0 or 1 engine; 4 flight states, 2 commands, 3 time steps, 4 updates; the 7776 worlds on 5 cells, limits of 3 blocks and a span of 2 |

What a property with a general name says: `RestAccounted`, that page protection and
registration are as the hook's flags say when nobody is at work. `CountsAddUp`, that
calls, payloads and destination copies of the census balance. `HooksAccounted`, that
no hook is live without its owner and none survives `uninstall`.
`CountersTrackCallbacks`, that the render hook's counter and the scopes are those of
the threads inside. `OnlyStraysEscape`, that a callback outlives the lifecycle, and
the counter's parity breaks, only through a thread, in the tick or the render hook,
that outlived its drain.
`SessionsEnd`, that previews end and no flight survives its pilot.

Why the bounds are enough. Three failures let a patch, its rollback and a
restore fail in one history; the trampoline can be lost with two. A foreign
write can fall into every window because one is enough to enter each "changed by
another writer" branch. Two installs show what a session leaves to the next. A
counter modulus just above the number of threads makes an underflow visible.
Four publications let each of a reader's four attempts be spoilt by one of its
own. 420 events are two cycles of 200 ticks, with room for a change of world in
each session and for events without a level; the real gravity, restitution and step
are used, so `EveryCycleSettles` speaks of the program's own numbers. The census
overflows when two racing threads register one descriptor twice; four calls let
one thread be in a nested call while the other scans. Three lifecycle calls are
enable, disable
or a refusal, and what follows it on the state that is left; the parity is lost
with three. One heartbeat is enough to open the gate, and a session begins to
count anew. Five presses confirm a ship, start a flight and confirm again; the
players' records are disjoint, so one player meets all that a player can meet. The
grid lets one edit make the ship too long, too heavy, double its core, cut it off,
or reach an unloaded cell; a ship with too many blocks needs more edits.

The binaries of `discovery` have branches to the target and past it, forwards and
backwards, calls through a slot of a table and through another, up to four tables of
which two may be alike, an unreadable region and an unaligned one; each list
overflows its limit of two in some of them. The regions are longer than the stride
of the stop check. The probes' time is enough for a stall, a wait begun anew and a
time-out; three calls are the fewest in which two instances alternate. Each
probe is installed again, also after a restore that failed and under a callback that
is still inside; the second time the clock stops after one unit, enough for two of the
probes to patch again. The tick probe's second patch, three units later, would make
the run too large: it is the one step that only the proofs cover. In `flight_cores` one mass is just
too heavy for an engine and one just light enough, where braking is weakest. Four
updates are a whole handoff at the 50 ms an invalid step stands for, and the commands
and flight states go to the limits of every clamp. Five cells are a square, in which
a block is reached on two ways, and a cell beside it, which exceeds the span.

Sizes: `discovery` has 3.8 million distinct states and takes two minutes,
`flight_cores` 160 thousand, every other run less than a minute.

Deadlock checking is off where the modelled life ends: the module is unmapped,
or a bound on calls, events or time is reached, or a search is over.

Fairness. `uninstall` is a running call on a thread of its own, and the worker a
thread the system schedules: both are weakly fair, which is all
`UninstallReturns` needs. Game threads, mprotect, foreign writers and the next
lifecycle call are not: a listener may never return. In `RenderSnapshot` only a
reader inside a call is fair; the writer may stop in the middle of a publication
(`ReadReturns` holds all the same, since the attempts are counted). In `FlightSession`
the two intervals are weakly fair, since the game runs them on every tick or every
fourth; nothing is assumed of the player, nor of the queue. The other
modules state safety only; that a call of the lifecycle returns follows from the
limits of the drains, which the two `UninstallReturns` check. That the scan stops and
that a flight lands are bounds on the number of steps (`StopIsPrompt`,
`FlightIsBounded`), which is more than "eventually".

## Findings

- `tick_hook_leak`: `patchSlot` takes a write whose last mprotect failed for a
  failed write and tries to undo it; if that fails too, the slot keeps the
  trampoline, `mPatchInstalled` is false, `uninstall` restores nothing and
  `safeToUnload` says yes. `SafeUnload` proves that one failure is harmless.
- `render_snapshot_relaxed`: the reader of the sequence counter lacks an acquire
  fence before its second load. `SnapshotIsWhole` proves that with the loads
  ordered the protocol is right.
- `mod_lifecycle_parity`: `start` zeroes the sequence counter and publishes
  although a tick callback of the last session may still be in a publication.
  `OnlyStraysEscape` shows, and `StraysAlone` proves, that strays are the only way:
  as long as no callback of the tick and render hooks outlives its drain, the counter
  is odd exactly during a publication. A stray of the render hook counts, though it
  never publishes: `disable` then refuses before it drains the tick hook, and a
  scheduler that had not started can be started again under a tick callback. It takes
  five calls of the lifecycle, which is why the proof and not the run found it.

Observed while modelling, and true of the models as of the code, but against no
clear claim of the repository, or without harm:

- A thread that loses the claim of a census slot goes on without looking at the key
  the winner publishes (`src/bedrock/LevelRenderHook.cpp:654`): one descriptor can
  take two slots and two samples, where `docs/architecture.md:75` says at most one.
- The end handlers of the render hook look the object up again, and do not uncount
  themselves when `uninstall` has cleared it after a drain that timed out
  (`LevelRenderHook.cpp:1935`). The counter stays above zero, and every further
  `disable` is refused: the safe side to fail on, though
  `docs/milestone-2p-test-plan.md:33` expects zero. But `install()` may follow the
  refusal, and sets the counter to zero under the callback (`LevelRenderHook.cpp:1012`);
  a later `unload()` reads zero and goes on with the callback inside. What is left is
  a bound (`UnloadLeavesOnlyForgotten`): no more callbacks than that `install()` met.
- A light ship that returns needs some 283 steps, of which about 209 for the last
  centimetre: the discrete controller is nearly critically damped, and
  `AnchoredFlightProxy::step` lands a ship only when its height crosses zero. A ship
  with hardly any lift lands after some 29.
- Two tables with one slot offset count an indirect call twice, and the loop that
  walks the tables ignores the stop flag (`HeartbeatHook.cpp:549`); both are bounded by
  the 32 candidates.
- `VtableSlotProbe::menuDetour` answers false without asking the game while nothing
  is registered or the original is not stored yet.
- `VtableSlotProbeV3::install` does not reset `mTargetValidated` and the errnos of the
  last session; only its report shows them.
- `ClientLevelTickProbe::install` zeroes its counter of callbacks, also under one that
  outlived the last drain (`ClientLevelTickProbe.cpp:282`). From then on the counter is
  short by those threads: `ProbeCallsAddUp` says by how many, whatever the installs.
- The gates measure a stall between two looks of the worker: `PatchIsJustified` allows
  the unit of time between them.

## Proofs

Eight modules hold theorems. In each, inductive invariants are proved once, one step
per action, and the theorems follow from them.

- `ClientLevelTickHookProofs`. The invariant joins the type invariant with
  `NoLateWorker` (from the join on there is no worker: without it a patch could
  appear behind `uninstall`), with what each call site knows of the slot and the
  page while it is active, and with the number of failures each state has
  cost. From it: type correctness, `TrampolineAccounted`, `ExclusiveSlotWrite`,
  `CounterTracksCallbacks` (any number of threads; cardinalities of the counted
  set follow each step), `RestAccounted` (what each call site knows of the page it
  has opened, and that nobody is registered whom `install` has not set up),
  `SingleFault`, and `SafeUnload`: fewer than two failures imply that an unloaded
  module left no trampoline.
- `RenderSnapshotProofs`, under the hypothesis `LoadsOrdered`. The counter only
  grows while a reader is active, an even counter means that all fields carry
  the current publication, and fields a reader has loaded agree as long as the
  counter is the one it loaded first. From it: whole snapshots, type
  correctness, and the refinement of `SnapshotRegister` (each step publishes,
  begins a read, ends one, or stutters).
- `PhysicsSchedulerProofs`. The invariant joins the body's type (its height is
  never negative, which rests on the contact branch of the integrator), the
  sleep account and the published pair. The constants are arbitrary: any
  negative gravity, any step, height, sleep speed, restitution and levels.
  `EveryCycleSettles` takes two steps. `OnCourse` says that between two resets the body is
  where one undisturbed cycle (`Course`) has it at the same tick, whatever worlds and
  empty events come between; so it is enough that the course ends on the ground
  (`SettledCycles`, for any numbers). For the numbers of the source it does
  (`EveryCycleEndsAsleep`): `Arc` follows a flight up to its contact, as `Rise`, the
  parabola without truncation, of which the body is off by less than a micrometre a
  tick; four of them, of 29, 20, 6 and 1 ticks, bring the body to sleep in tick 56 of 200.
- `LevelRenderHookProofs`, for any number of game threads and any bounds. Two
  invariants are proved apart. `LifeInv`: the worker is joined
  before the loader removes the hooks, so that `removeHooks` runs once at a time, and
  the place of the worker and of `removeHooks` says exactly what is live and which
  originals are remembered; from it `HooksAccounted`. `DetourInv`: the counted detours
  are a set of pairs of a thread and a position. The counter is the size of that set,
  less the callbacks that an `install()` forgot or that ended without being on it, plus
  those that outlived their registration, and may have wrapped below zero
  (`CountInv`). The callbacks that are off it and those that will still take themselves
  off (`DoomedPlaces`) are together no more than the last `install()` met, since none
  becomes doomed otherwise; a thread is in at most two detours, so that a counter
  wider than twice the threads does not wrap above. A counter of zero therefore leaves
  at most `forgotten` callbacks, which is `UnloadLeavesOnlyForgotten`; without a
  forgotten one and with none outlived both corrections are zero, which with the scope
  depths is `CountersTrackCallbacks`.
- `DescriptorCensusProofs`, for any threads, descriptors and size of the table. Three
  invariants. `CensusInv` says whose a slot is: a key is `Claimed` exactly while one
  thread is between its exchange and the store of the descriptor, and likewise the
  state of a first payload. The exchange lets one thread in, and the store cannot put
  back a value that looks free or claimed, because `descriptorKey` never yields one.
  From it `OneWriterPerSlot` and the types. `CallsInv` and `SnapshotInv` are the two
  halves of `CountsAddUp`: what the slots count is the size of a set of pairs
  (`CountedCalls`), which each step leaves, or extends by one; the difference to the
  global counters is the number of threads on their way between two increments.
- `ModLifecycleProofs`, for any number of calls and heartbeats. `LifeInv` says which
  lists of tasks a call can still have before it (a finite number, the tails of the
  lists of `enable`, of `disable` and of each `Instead`) and, for each, which
  components are up, down or half way; that workers are joined before their hook goes;
  that a counter is one exactly if its source's thread is counted, unless it strayed;
  and that a thread without a stray is inside only while its source can still be
  drained for. The four properties of the lifecycle follow: `QuietWhenDisabled`,
  `ListenersHaveSource`, `OnlyStraysEscape`, and the action property
  `StopsAfterSource`: only its own stop ends a listener, and by then the list says that
  its source has been taken down.
- `DiscoveryProofs`, for all three probes, any clock, threads, instances, failing
  writes, foreign writes and installs; and for the scan of any game. `ProbeInv` joins
  `ProbeIsAccounted` with where `install` and `uninstall` stand and what each place
  knows (armed: registered, not yet patched; draining: the menu's hook is gone). A
  write that fails leaves either value in the slot, a patch rolls back, and so a
  trampoline nobody answers for costs two faults. `GateInv` gives `PatchIsJustified`:
  for the tick probe, that since its wait began anew there was a heartbeat in every
  stretch of the permitted stall, for all the time the worker has looked at; for the
  others, that the delay is over and the game was heard, or the menu seen. `CallsInv`
  gives `ProbeCallsAddUp`: what a counter has to do with the history differs by the
  number of threads now at some places, less those `install` met there. A thread that
  moves changes the first number by one; the second stays until the next `install`.
  The counter of callbacks is the difference of the two modulo its width, however
  wide. `StopInv` gives `StopIsPrompt`: what has been read since the stop is no more
  than what was read since the last multiple of the stride, which is where the flag is
  looked at. `ScanInv` gives `ScanIsFaithful`, for any game. For each of the four
  loops, `Passed` is the set of the words behind the place the loop is at, and what
  the loop has counted and recorded is told from it: a counter is the number of the
  passed words of its kind, a list holds the first of them, in order. A step of a loop
  passes one word (`PassWord`) or a stretch without words (`PassGap`), and a loop that
  ends has passed all words. The tables rest on the two walks, backward and forward
  from a candidate: each is a recursive function, which exists and stops at the first
  word that blocks it by the argument of the least element.
- `FlightProofs`, about both flights.
  - The sessions, for any players, blocks and bounds. A press is spent, stands
    as the preview that is shown, or waits in the queue, where a player has one callback
    at most; so the sum of the three stays within the presses, and a confirmation, which
    needs a preview and a callback, spends two: `EachTapCountsOnce`. Beside it
    `FliesAsConfirmed`, which is inductive once the shape of the maps is known, and with
    `TypesInv` the whole of `FlightIsConfirmed`.
  - The proxy. `LiftSafety`: in every order of the calls, for any
    masses and engines, a ship off its anchor has lift. `confirmAssembly` is what could
    break it, since it changes mass and engines; it brings the ship back to its anchor.
    The lemmas say that the controller's clamps and quotients stay integers.
    `BandSafety`: `StaysInBand`, the part of `FlightIsBounded` beside the durations, for any
    mass and number of engines. `BandInv` confines height and speed to a region of the
    plane. `Under`, a line that meets the speed zero 42 mm over the target, holds on
    every way up and down: the controller is so nearly critically damped that the
    line need only lean as its slow direction does, and every clamp pushes the ship
    further under it. `Rising` bounds how a ship on its way up may sink; a sinking ship
    is near its target, because the twentieth of spare thrust that `hasLiftAuthority`
    demands outweighs what the controller takes back. `Controlled` is what both need to
    know of a step: truncation and clamps as inequalities.
  - The autopilot, for any measurements, commands, steps of time and duration of the
    handoff. `PilotInv`: outputs are in their range, integrals in their limits, and a
    handoff that has gone some way has moved each control no further than that part of
    its range; and an autopilot that has the ship alone steers by what it measured last.
    From it `TakeoverIsSmooth`, `HandoffAdvances` and `CorrectsWhateverTheHistory`: beyond
    the errors the property calls small, what the proportional gain asks for outweighs
    what limited integrals can, by 60, 2 and 10 thousandths of full deflection for speed,
    altitude and heading.
  - The searches, for any grid, worlds and limits. What both loops know is `Searches`:
    the blocks met and the cells that wait are one list without a repetition, of cells
    that are connected; all solid neighbours of a block are in it. When nothing waits,
    the blocks are therefore closed under neighbours, and so are all that is connected;
    at the limit, one cell more than a ship may have has been met. From it
    `SearchesAgree`: the scan finds what `Scan` defines, and the builder agrees with it.
    It needs that `Connected`, which is computed by as many rounds as there are cells,
    is closed itself: as long as a round adds a cell there are more cells than rounds.

The proofs changed the model in four places. `ParityWithoutStrays` spoke of strays of
the tick hook alone, which five calls refute (see Findings). Two `CASE`s of
`ModLifecycle` had guards that overlap, so that the choice between them was open; they
are `IF`s now, in the order of the code. The sum over the slots of the census is the
size of a set, and the order in which the searches look around is spelled out, both
because folds and `SelectSeq` cannot be reasoned about with the installed provers.

The assumptions are those of the modules' `ASSUME`s: finite sets of threads, a
counter wider than the number of threads (twice the number in `LevelRenderHook`, where
a thread can be counted twice; wider than one bit in `ModLifecycle`, which has one
thread for each source), a body above the ground, descriptor keys that differ
from the two reserved values, a stride of whole pointers, numbers that are integers in
the flight cores, blocks on the cells of a finite grid. The counters of the source are
32 or 64 bits wide, its stride is a mebibyte. For the scan there are `LimitAssumption`, whose
limits are sizes of arrays, and `ModuleAssumption`: the regions are in the order of
their addresses and do not overlap, as the kernel lists the mappings of a process, from
which `inspectLoadedModule` makes them, and the game has a word wherever a loop reads one.
`EveryCycleEndsAsleep` has `SourceNumbers` as its hypothesis, the constants of
`VerticalBodyIntegrator.hpp` and the 200 ticks of a cycle, which are also those of the run.

Where an argument is by induction over numbers (the rounds of `Connected`, the walks of
the scan, the course of a body), it takes
the least counterexample, which the library's theorem on well-founded relations gives;
the library's rules of induction themselves cannot be applied with these provers.

Only model-checked: liveness (`UninstallReturns`, `ReadReturns`, `SessionsEnd`),
which with fairness and ENABLED is out of the prover's reach. Of `FlightIsBounded` the
durations (`ManoeuvresEnd`) stay with TLC: a return ends when the overshoot of a
controller that is all but critically damped crosses zero after hundreds of steps, and no
invariant shorter than the trajectory gives that.

## Not modelled

The interpolation of the render probe between the two heights of a pair, one pure
formula, and the probe's counters; the slots of the buses beyond the one that is used.
The content pack's floating-point controller (its native twin is modelled), its
particles and messages, and its persisted record, which nothing reads back. The mass,
centre and inertia of a ship, sums over the blocks that were found. Numbers that are
not finite in the autopilot; `wrapRadians` does not end on an infinite heading. The
compatibility profile only inspects the binary, and its answer is a free choice; the
output mutation census compares two arrays. Of the earlier probes, the two neighbour
probes and the class discovery only read memory, and the cube overlay draws with EGL;
the module is built without them. The tools run at build time. Status files, timelines
and logging are left out everywhere.

## Plan

What was built, in this order: the tick hook and its proofs, the part that can crash
the game; the snapshot, its register, refinement and proofs; the integrator and the
scheduler with proofs; the census; the render hook; the lifecycle that composes them;
the content pack's sessions; the static scan and the probes; the flight cores.

What a next step would add: that `ModLifecycle`'s hooks are abstractions of the two hook
modules, as a refinement; that an ascent ends in time for every ship with lift; the
interpolation, when more than a diagnostic cube is drawn with it.
