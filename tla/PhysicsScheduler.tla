-------------------------- MODULE PhysicsScheduler --------------------------
(***************************************************************************)
(* The fixed 20 Hz simulation of src/src/physics/PhysicsScheduler.cpp: one *)
(* handler, onClientLevelTick, advances a test body in whichever world the *)
(* game ticks, and publishes the pair of positions between which the       *)
(* render threads interpolate.                                             *)
(*                                                                         *)
(* A publication is one step here: module RenderSnapshot shows that a      *)
(* reader sees all of it or nothing.  Level pointers are model values.     *)
(***************************************************************************)
EXTENDS VerticalBody

CONSTANTS
  Levels,           \* the ClientLevel objects of the game
  NoLevel,          \* nullptr
  TestCycleTicks,   \* testCycleTicks
  MaxEvents,        \* bound: events of one session
  MaxNullEvents,    \* bound: events without a level, of one session
  MaxGenerations,   \* bound: worlds of one session
  MaxStarts         \* bound: calls of start()

ASSUME SchedulerAssumption ==
  /\ NoLevel \notin Levels
  /\ TestCycleTicks \in Nat \ {0}
  /\ {MaxEvents, MaxNullEvents, MaxGenerations, MaxStarts} \subseteq Nat

VARIABLES
  mRunning,
  starts,              \* calls of start() so far
  body,                \* mPositionY..., mVelocityY..., mGrounded
  mActiveClientLevel,
  mWorldGeneration,
  mWorldTransitions,
  mWorldTick,
  count,               \* the event and contact counters
  snapshot             \* what publishRenderSnapshot stored last

vars == <<mRunning, starts, body, mActiveClientLevel, mWorldGeneration,
          mWorldTransitions, mWorldTick, count, snapshot>>

world == <<mActiveClientLevel, mWorldGeneration, mWorldTransitions>>

Counters == {"mTotalEvents", "mNullInstanceEvents", "mSimulationSteps",
             "mImpactCount", "mBodySleepCount", "mBodyWakeCount",
             "mGroundedTicks", "mBodyCycleResets"}

Zero == [c \in Counters |-> 0]

\* The counters of a set, each incremented.
Counted(n, increments) ==
  [c \in Counters |-> IF c \in increments THEN n[c] + 1 ELSE n[c]]

Snapshot(previous, current, step, generation, level, grounded) ==
  [previous |-> previous, current |-> current, simulationStep |-> step,
   worldGeneration |-> generation, activeClientLevel |-> level,
   grounded |-> grounded]

Init ==
  /\ mRunning = FALSE
  /\ starts = 0
  /\ body = AtRest
  /\ mActiveClientLevel = NoLevel
  /\ mWorldGeneration = 0
  /\ mWorldTransitions = 0
  /\ mWorldTick = 0
  /\ count = Zero
  /\ snapshot = Snapshot(InitialHeight, InitialHeight, 0, 0, NoLevel, FALSE)
-----------------------------------------------------------------------------
(***************************************************************************)
(* start and stop.  Everything is cleared and the resting body published   *)
(* before the scheduler subscribes; it runs only if it could subscribe and *)
(* could start its telemetry thread.                                       *)
(***************************************************************************)
Start ==
  /\ ~mRunning
  /\ starts < MaxStarts
  /\ starts' = starts + 1
  /\ mRunning' \in BOOLEAN
  /\ body' = AtRest
  /\ mActiveClientLevel' = NoLevel
  /\ mWorldGeneration' = 0
  /\ mWorldTransitions' = 0
  /\ mWorldTick' = 0
  /\ count' = Zero
  /\ snapshot' = Snapshot(InitialHeight, InitialHeight, 0, 0, NoLevel, FALSE)

Stop ==
  /\ mRunning
  /\ mRunning' = FALSE
  /\ UNCHANGED <<starts, body, world, mWorldTick, count, snapshot>>
-----------------------------------------------------------------------------
(***************************************************************************)
(* onClientLevelTick.                                                      *)
(***************************************************************************)

\* Mutant: resetBodyState does not look whether the body slept.
WakesNever(reset) == {}

\* resetBodyState wakes a sleeping body.
WakesIf(reset) == IF reset /\ body.grounded THEN {"mBodyWakeCount"} ELSE {}

ContactCounters(contact) ==
  CASE contact = "enteredSleep" -> {"mImpactCount", "mBodySleepCount"}
    [] contact = "bounced"      -> {"mImpactCount"}
    [] OTHER                    -> {}

\* Mutant: an event without a level is taken for the end of the world.
TickWithoutLevelForgets ==
  /\ mRunning
  /\ count["mNullInstanceEvents"] < MaxNullEvents
  /\ mActiveClientLevel' = NoLevel
  /\ count' = Counted(count, {"mTotalEvents", "mNullInstanceEvents"})
  /\ UNCHANGED <<mRunning, starts, body, mWorldGeneration, mWorldTransitions,
                 mWorldTick, snapshot>>

\* An event without a level is counted and nothing else.
TickWithoutLevel ==
  /\ mRunning
  /\ count["mNullInstanceEvents"] < MaxNullEvents
  /\ count' = Counted(count, {"mTotalEvents", "mNullInstanceEvents"})
  /\ UNCHANGED <<mRunning, starts, body, world, mWorldTick, snapshot>>

\* A level other than the last one is a new generation, and a transition
\* unless it is the first.
EnterWorld(level) ==
  /\ mActiveClientLevel' = level
  /\ IF mActiveClientLevel = level
     THEN UNCHANGED <<mWorldGeneration, mWorldTransitions>>
     ELSE /\ mWorldGeneration < MaxGenerations
          /\ mWorldGeneration' = mWorldGeneration + 1
          /\ mWorldTransitions' =
               IF mActiveClientLevel # NoLevel THEN mWorldTransitions + 1
               ELSE mWorldTransitions

\* The ticks of a world count from 1.
TickOf(level) ==
  IF mActiveClientLevel # level THEN 1 ELSE mWorldTick + 1

\* resetBodyState runs again after every testCycleTicks ticks.
CycleEnds(tick) == tick > 1 /\ (tick - 1) % TestCycleTicks = 0

\* Mutant: the body is replaced, but the pair still starts at the old one.
IntegrateFromStale(from) ==
  /\ body' = Step(from).body
  /\ snapshot' = Snapshot(body.position, body'.position,
                          count["mSimulationSteps"] + 1, mWorldGeneration',
                          mActiveClientLevel', body'.grounded)

\* Mutant: the pair is published before mGrounded is stored.
IntegrateGroundedLate(from) ==
  /\ body' = Step(from).body
  /\ snapshot' = Snapshot(from.position, body'.position,
                          count["mSimulationSteps"] + 1, mWorldGeneration',
                          mActiveClientLevel', from.grounded)

\* One step from the given body, published with the position it started from.
Integrate(from) ==
  /\ body' = Step(from).body
  /\ snapshot' = Snapshot(from.position, body'.position,
                          count["mSimulationSteps"] + 1, mWorldGeneration',
                          mActiveClientLevel', body'.grounded)

Tick(level) ==
  LET tick  == TickOf(level)
      reset == mActiveClientLevel # level \/ CycleEnds(tick)
      from  == IF reset THEN AtRest ELSE body
  IN  /\ mRunning
      /\ count["mTotalEvents"] < MaxEvents
      /\ EnterWorld(level)
      /\ mWorldTick' = tick
      /\ Integrate(from)
      /\ count' = Counted(count,
           {"mTotalEvents", "mSimulationSteps"}
           \cup WakesIf(reset)
           \cup (IF CycleEnds(tick) THEN {"mBodyCycleResets"} ELSE {})
           \cup (IF from.grounded THEN {"mGroundedTicks"} ELSE {})
           \cup ContactCounters(Step(from).contact))
      /\ UNCHANGED <<mRunning, starts>>

Next ==
  \/ Start \/ Stop
  \/ TickWithoutLevel
  \/ \E level \in Levels : Tick(level)

Spec == Init /\ [][Next]_vars
-----------------------------------------------------------------------------
TypeOK ==
  /\ mRunning \in BOOLEAN
  /\ starts \in Nat
  /\ body \in [position : Nat, velocity : Int, grounded : BOOLEAN]
  /\ mActiveClientLevel \in Levels \cup {NoLevel}
  /\ mWorldGeneration \in Nat
  /\ mWorldTransitions \in Nat
  /\ mWorldTick \in Nat
  /\ count \in [Counters -> Nat]
  /\ snapshot \in [previous : Nat, current : Nat, simulationStep : Nat,
                   worldGeneration : Nat,
                   activeClientLevel : Levels \cup {NoLevel},
                   grounded : BOOLEAN]

\* Sleeps and wakes alternate, whatever interrupts the body: the telemetry
\* counts the body asleep exactly once more than woken while it is grounded.
\* Every impact either bounces or ends in sleep.
SleepsAndWakes ==
  /\ count["mBodySleepCount"] =
       count["mBodyWakeCount"] + (IF body.grounded THEN 1 ELSE 0)
  /\ count["mBodySleepCount"] <= count["mImpactCount"]

\* A sleeping body lies still on the ground, in the simulation and in what the
\* render threads see.
RestingBody ==
  body.grounded => body.position = 0 /\ body.velocity = 0

\* What the render threads see is the state the simulation is in: the pair
\* ends at the body's position, in its world, with its contact flag.
SnapshotMatchesBody ==
  /\ snapshot.current = body.position
  /\ snapshot.grounded = body.grounded
  /\ snapshot.worldGeneration = mWorldGeneration
  /\ snapshot.activeClientLevel = mActiveClientLevel
  /\ snapshot.simulationStep = count["mSimulationSteps"]

\* The pairs join: unless the body was reset, a new pair starts where the old
\* one ended; after a reset it starts at the initial height, so that no frame
\* is interpolated across two worlds or across the end of a test cycle.
PairsJoin ==
  [][snapshot' # snapshot =>
       snapshot'.previous =
         IF \/ snapshot'.worldGeneration # snapshot.worldGeneration
            \/ count'["mBodyCycleResets"] # count["mBodyCycleResets"]
            \/ starts' # starts
         THEN InitialHeight ELSE snapshot.current]_vars

\* The generation is the number of worlds entered: one more than the number of
\* transitions, whatever events without a level fall between two worlds.
WorldsAccounted ==
  mWorldGeneration = mWorldTransitions + (IF mActiveClientLevel = NoLevel THEN 0 ELSE 1)

\* The body of the source's constants comes to rest within every test cycle,
\* so every reset of a cycle wakes it.
EveryCycleSettles == count["mBodyCycleResets"] <= count["mBodyWakeCount"]
=============================================================================
