----------------------- MODULE PhysicsSchedulerProofs -----------------------
(***************************************************************************)
(* Proofs about the scheduler, for every gravity, height, restitution,     *)
(* sleep threshold and cycle length: the counters, the snapshot and the    *)
(* body agree whatever worlds, empty events and sessions interrupt it.     *)
(* That every cycle ends with the body asleep is reduced to the course of  *)
(* one undisturbed cycle, which is followed for the numbers of the source. *)
(***************************************************************************)
EXTENDS PhysicsScheduler, TLAPS, WellFoundedInduction

Heights == [position : Nat, velocity : Int, grounded : BOOLEAN]

Contacts == {"none", "bounced", "enteredSleep"}

IInv ==
  TypeOK /\ SleepsAndWakes /\ RestingBody /\ SnapshotMatchesBody /\ WorldsAccounted

LEMMA QuotientType ==
  ASSUME NEW a \in Int, NEW b \in Nat \ {0}
  PROVE  Quotient(a, b) \in Int
BY DEF Quotient

LEMMA FlightType ==
  ASSUME NEW b \in Heights
  PROVE  Flight(b) \in Bodies /\ ~Flight(b).grounded
<1>1. \A r \in Int : PerStep(r) \in Int
  BY BodyAssumption, QuotientType DEF PerStep
<1>2. PerStep(Gravity) \in Int
  BY <1>1, BodyAssumption
<1>3. b.velocity + PerStep(Gravity) \in Int
  BY <1>2 DEF Heights
<1>4. PerStep(b.velocity + PerStep(Gravity)) \in Int
  BY <1>1, <1>3
<1> QED BY <1>3, <1>4 DEF Flight, Heights, Bodies

LEMMA ContactType ==
  ASSUME NEW v \in Nat
  PROVE  /\ Contact(v).body \in Heights
         /\ Contact(v).contact \in Contacts
         /\ Contact(v).body.grounded <=> Contact(v).contact = "enteredSleep"
         /\ Contact(v).body.position = 0
         /\ Contact(v).body.grounded => Contact(v).body.velocity = 0
<1>1. Quotient(v * RestitutionNumerator, RestitutionDenominator) \in Int
  BY BodyAssumption, QuotientType
<1>2. Thrown(v) \in Heights /\ ~Thrown(v).grounded /\ Thrown(v).position = 0
  BY <1>1 DEF Thrown, Heights
<1>3. Asleep \in Heights /\ Asleep.grounded /\ Asleep.position = 0
      /\ Asleep.velocity = 0
  BY DEF Asleep, Heights
<1>4. CASE v <= SleepSpeed
  BY <1>3, <1>4 DEF Contact, Contacts
<1>5. CASE ~(v <= SleepSpeed)
  BY <1>2, <1>5 DEF Contact, Contacts
<1> QED BY <1>4, <1>5

\* What one step of the integrator may do: it never leaves the body below the
\* ground, and the body is grounded after it exactly when it was before or the
\* contact says that it fell asleep.
LEMMA StepFacts ==
  ASSUME NEW b \in Heights
  PROVE  /\ Step(b).body \in Heights
         /\ Step(b).contact \in Contacts
         /\ Step(b).body.grounded <=> b.grounded \/ Step(b).contact = "enteredSleep"
         /\ b.grounded => Step(b).contact = "none"
         /\ Step(b).body.grounded =>
              Step(b).body.position = 0 /\ Step(b).body.velocity = 0
<1> DEFINE fallen == Flight(b)
           inbound == IF fallen.velocity < 0 THEN -fallen.velocity ELSE 0
<1>1. fallen \in Bodies /\ ~fallen.grounded
  BY FlightType
<1>2. inbound \in Nat
  BY <1>1 DEF Bodies
<1>3. CASE b.grounded
  <2>1. Step(b) = [body |-> Asleep, contact |-> "none"]
    BY <1>3 DEF Step
  <2> QED BY <1>3, <2>1 DEF Asleep, Heights, Contacts
<1>4. CASE ~b.grounded /\ fallen.position > 0
  <2>1. Step(b) = [body |-> fallen, contact |-> "none"]
    BY <1>4 DEF Step
  <2>2. fallen \in Heights
    BY <1>1, <1>4 DEF Bodies, Heights
  <2> HIDE DEF fallen
  <2> QED BY <1>1, <1>4, <2>1, <2>2 DEF Contacts
<1>5. CASE ~b.grounded /\ ~(fallen.position > 0)
  <2>1. Step(b) = Contact(inbound)
    BY <1>5 DEF Step
  <2> HIDE DEF inbound
  <2> QED BY <1>2, <1>5, <2>1, ContactType
<1> QED BY <1>3, <1>4, <1>5

LEMMA InitIInv == Init => IInv
<1> SUFFICES ASSUME Init PROVE IInv
  OBVIOUS
<1>1. TypeOK
  <2>1. mRunning \in BOOLEAN
    BY DEF Init
  <2>2. body \in [position : Nat, velocity : Int, grounded : BOOLEAN]
    BY BodyAssumption DEF Init, AtRest
  <2>3. count \in [Counters -> Nat]
    BY DEF Init, Zero
  <2>4. snapshot \in [previous : Nat, current : Nat, simulationStep : Nat,
                      worldGeneration : Nat,
                      activeClientLevel : Levels \cup {NoLevel},
                      grounded : BOOLEAN]
    BY BodyAssumption DEF Init, Snapshot
  <2> QED BY <2>1, <2>2, <2>3, <2>4 DEF Init, TypeOK
<1>2. SleepsAndWakes
  BY DEF Init, SleepsAndWakes, AtRest, Zero, Counters
<1>3. RestingBody /\ SnapshotMatchesBody /\ WorldsAccounted
  BY DEF Init, RestingBody, SnapshotMatchesBody, WorldsAccounted, AtRest, Zero,
         Counters, Snapshot
<1> QED BY <1>1, <1>2, <1>3 DEF IInv

LEMMA StartKeepsIInv == ASSUME Start, starts \in Nat PROVE IInv'
BY BodyAssumption, SchedulerAssumption
   DEF Start, IInv, TypeOK, SleepsAndWakes, RestingBody, SnapshotMatchesBody,
       WorldsAccounted, AtRest, Zero, Counters, Snapshot

\* The counters a tick increments.
LEMMA CountedFacts ==
  ASSUME NEW n \in [Counters -> Nat], NEW S
  PROVE  /\ Counted(n, S) \in [Counters -> Nat]
         /\ \A c \in Counters :
              Counted(n, S)[c] = IF c \in S THEN n[c] + 1 ELSE n[c]
BY DEF Counted

LEMMA TickKeepsIInv ==
  ASSUME IInv, NEW level \in Levels, Tick(level)
  PROVE  IInv'
<1> DEFINE tick  == TickOf(level)
           reset == mActiveClientLevel # level \/ CycleEnds(tick)
           from  == IF reset THEN AtRest ELSE body
           step  == Step(from)
           contact == ContactCounters(step.contact)
           incremented == {"mTotalEvents", "mSimulationSteps"}
             \cup WakesIf(reset)
             \cup (IF CycleEnds(tick) THEN {"mBodyCycleResets"} ELSE {})
             \cup (IF from.grounded THEN {"mGroundedTicks"} ELSE {})
             \cup contact
<1> USE DEF IInv, TypeOK
<1>1. from \in Heights
  BY BodyAssumption DEF AtRest, Heights
<1>2. /\ step.body \in Heights
      /\ step.contact \in Contacts
      /\ step.body.grounded <=> from.grounded \/ step.contact = "enteredSleep"
      /\ from.grounded => step.contact = "none"
      /\ step.body.grounded => step.body.position = 0 /\ step.body.velocity = 0
  BY <1>1, StepFacts
<1>3. /\ body' = step.body
      /\ count' = Counted(count, incremented)
      /\ mWorldTick' = tick
      /\ snapshot' = Snapshot(from.position, body'.position,
           count["mSimulationSteps"] + 1, mWorldGeneration',
           mActiveClientLevel', body'.grounded)
      /\ EnterWorld(level)
      /\ UNCHANGED <<mRunning, starts>>
  BY DEF Tick, Integrate
<1>4. from.grounded <=> body.grounded /\ ~reset
  BY DEF AtRest
<1>5. /\ "mBodySleepCount" \in incremented <=> step.contact = "enteredSleep"
      /\ "mBodyWakeCount" \in incremented <=> reset /\ body.grounded
      /\ "mImpactCount" \in incremented <=>
           step.contact \in {"enteredSleep", "bounced"}
      /\ "mSimulationSteps" \in incremented
  BY <1>2 DEF WakesIf, ContactCounters, Contacts
<1>6. tick \in Nat
  BY DEF TickOf
<1> HIDE DEF tick, reset, from, step, incremented, contact
<1>7. /\ count' \in [Counters -> Nat]
      /\ \A c \in Counters :
           count'[c] = IF c \in incremented THEN count[c] + 1 ELSE count[c]
  BY <1>3, CountedFacts
<1>8. TypeOK'
  BY <1>1, <1>2, <1>3, <1>6, <1>7, BodyAssumption
     DEF Heights, Snapshot, EnterWorld, Counters
<1>9. SleepsAndWakes'
  BY <1>2, <1>3, <1>4, <1>5, <1>7 DEF SleepsAndWakes, Counters
<1>10. RestingBody'
  BY <1>2, <1>3 DEF RestingBody
<1>11. SnapshotMatchesBody'
  BY <1>3, <1>5, <1>7 DEF SnapshotMatchesBody, Snapshot, Counters
<1>12. WorldsAccounted'
  BY <1>3, SchedulerAssumption DEF WorldsAccounted, EnterWorld
<1> QED BY <1>8, <1>9, <1>10, <1>11, <1>12

LEMMA NextIInv ==
  ASSUME IInv, [Next]_vars
  PROVE  IInv'
<1> USE DEF IInv, TypeOK, SleepsAndWakes, RestingBody, SnapshotMatchesBody,
            WorldsAccounted
<1>1. CASE TickWithoutLevel
  <2>1. /\ count' \in [Counters -> Nat]
        /\ \A c \in Counters \ {"mTotalEvents", "mNullInstanceEvents"} :
             count'[c] = count[c]
    BY <1>1, CountedFacts DEF TickWithoutLevel
  <2> QED BY <1>1, <2>1 DEF TickWithoutLevel, world, Counters
<1>2. CASE Stop
  BY <1>2 DEF Stop, world
<1>3. CASE UNCHANGED vars
  BY <1>3 DEF vars
<1>4. CASE Start
  BY <1>4, StartKeepsIInv
<1> QED BY <1>1, <1>2, <1>3, <1>4, TickKeepsIInv DEF Next

THEOREM Invariance == Spec => []IInv
BY InitIInv, NextIInv, PTL DEF Spec

\* The types hold; in particular the integrator never leaves the body below
\* the ground (VerticalBodyIntegrator::step).
THEOREM TypeCorrect == Spec => []TypeOK
<1>1. IInv => TypeOK
  BY DEF IInv
<1> QED BY <1>1, Invariance, PTL

\* Sleep and wake counts differ by the contact flag (onClientLevelTick and
\* resetBodyState), and no sleep goes without an impact.
THEOREM SleepAccounting == Spec => []SleepsAndWakes
<1>1. IInv => SleepsAndWakes
  BY DEF IInv
<1> QED BY <1>1, Invariance, PTL

\* What is published is the state of the body and of its world.
THEOREM SnapshotCorrect == Spec => [](RestingBody /\ SnapshotMatchesBody)
<1>1. IInv => RestingBody /\ SnapshotMatchesBody
  BY DEF IInv
<1> QED BY <1>1, Invariance, PTL

\* Generations and transitions count the same worlds.
THEOREM WorldAccounting == Spec => []WorldsAccounted
<1>1. IInv => WorldsAccounted
  BY DEF IInv
<1> QED BY <1>1, Invariance, PTL
-----------------------------------------------------------------------------
Joins ==
  snapshot' # snapshot =>
    snapshot'.previous =
      IF \/ snapshot'.worldGeneration # snapshot.worldGeneration
         \/ count'["mBodyCycleResets"] # count["mBodyCycleResets"]
         \/ starts' # starts
      THEN InitialHeight ELSE snapshot.current

LEMMA TickJoins ==
  ASSUME IInv, NEW level \in Levels, Tick(level)
  PROVE  Joins
<1> DEFINE tick  == TickOf(level)
           reset == mActiveClientLevel # level \/ CycleEnds(tick)
           from  == IF reset THEN AtRest ELSE body
           ends  == "mBodyCycleResets" \in
                      {"mTotalEvents", "mSimulationSteps"}
                      \cup WakesIf(reset)
                      \cup (IF CycleEnds(tick) THEN {"mBodyCycleResets"} ELSE {})
                      \cup (IF from.grounded THEN {"mGroundedTicks"} ELSE {})
                      \cup ContactCounters(Step(from).contact)
<1>1. snapshot'.previous = from.position
  BY DEF Tick, Integrate, Snapshot
<1>2. from.position = IF reset THEN InitialHeight ELSE snapshot.current
  BY DEF AtRest, IInv, SnapshotMatchesBody
<1>3. snapshot'.worldGeneration # snapshot.worldGeneration
        <=> mActiveClientLevel # level
  BY DEF Tick, Integrate, Snapshot, EnterWorld, IInv, SnapshotMatchesBody, TypeOK
<1>4. ends <=> CycleEnds(tick)
  BY DEF WakesIf, ContactCounters
<1>5. count'["mBodyCycleResets"] =
        IF ends THEN count["mBodyCycleResets"] + 1 ELSE count["mBodyCycleResets"]
  BY DEF Tick, Counted, Counters
<1>6. count'["mBodyCycleResets"] # count["mBodyCycleResets"] <=> CycleEnds(tick)
  BY <1>4, <1>5 DEF IInv, TypeOK, Counters
<1>7. starts' = starts
  BY DEF Tick
<1> HIDE DEF from, tick
<1> QED BY <1>1, <1>2, <1>3, <1>6, <1>7 DEF Joins

\* Two published pairs join at the position they share, or the second starts
\* at the height of a body that was reset (publishRenderSnapshot's arguments).
THEOREM PairsAreContinuous == Spec => PairsJoin
<1>1. ASSUME IInv, [Next]_vars
      PROVE  [Joins]_vars
  <2>1. CASE Start
    BY <2>1 DEF Start, Snapshot, Joins, IInv, TypeOK
  <2>2. CASE Stop \/ TickWithoutLevel \/ UNCHANGED vars
    BY <2>2 DEF Stop, TickWithoutLevel, vars, Joins
  <2> QED BY <1>1, <2>1, <2>2, TickJoins DEF Next
<1> QED BY <1>1, Invariance, PTL DEF Spec, PairsJoin, Joins
-----------------------------------------------------------------------------
(***************************************************************************)
(* Every cycle settles.  Between two resets the body follows one course,   *)
(* whatever else happens, so it is enough that the course of one cycle     *)
(* ends on the ground.                                                     *)
(***************************************************************************)

\* f is the course of a body that is reset and then left alone for N ticks.
Falls(f, N) ==
  f = [n \in 0..N |-> IF n = 0 THEN AtRest ELSE Step(f[n - 1]).body]

Course == CHOOSE f : Falls(f, TestCycleTicks)

\* The body ends a cycle asleep.
Settles == Course[TestCycleTicks].grounded

\* The tick of its cycle that the body has done last.
CycleTick(tick) == ((tick - 1) % TestCycleTicks) + 1

OnCourse ==
  IF mWorldTick = 0 THEN mActiveClientLevel = NoLevel
  ELSE body = Course[CycleTick(mWorldTick)]

LEMMA LeastTick ==
  ASSUME NEW S, S \subseteq Nat, S # {}
  PROVE  \E n \in S : \A m \in S : n <= m
<1>1. \A T : T # {} /\ T \subseteq Nat
         => \E x \in T : \A y \in T : <<y, x>> \notin OpToRel(<, Nat)
  BY NatLessThanWellFounded, WFMin, Zenon
<1>2. PICK x \in S : \A y \in S : <<y, x>> \notin OpToRel(<, Nat)
  BY <1>1, Zenon
<1>3. \A y \in S : ~(y < x)
  BY <1>2 DEF OpToRel
<1> QED BY <1>3, SMT

LEMMA FallsExist ==
  ASSUME NEW N \in Nat
  PROVE  \E f : Falls(f, N)
<1> DEFINE Bad == {k \in 0..N : ~ \E f : Falls(f, k)}
<1>1. SUFFICES ASSUME Bad # {} PROVE FALSE
  OBVIOUS
<1>2. PICK k \in Bad : \A j \in Bad : k <= j
  <2>1. Bad \subseteq Nat
    OBVIOUS
  <2> HIDE DEF Bad
  <2> QED BY <1>1, <2>1, LeastTick
<1>3. CASE k = 0
  <2> DEFINE f == [n \in 0..0 |-> AtRest]
  <2>1. Falls(f, 0)
    BY DEF Falls
  <2> HIDE DEF f
  <2> QED BY <1>2, <1>3, <2>1
<1>4. CASE k # 0
  <2>1. k - 1 \in 0..N /\ k - 1 \notin Bad
    <3>1. k \in 0..N /\ k - 1 \in 0..N /\ ~(k <= k - 1)
      BY <1>2, <1>4
    <3> HIDE DEF Bad
    <3> QED BY <1>2, <3>1
  <2>2. PICK f : Falls(f, k - 1)
    BY <2>1
  <2> DEFINE g == [n \in 0..k |-> IF n = k THEN Step(f[k - 1]).body ELSE f[n]]
  <2>3. \A n \in 0..k : g[n] = IF n = 0 THEN AtRest ELSE Step(g[n - 1]).body
    <3>1. SUFFICES ASSUME NEW n \in 0..k
                   PROVE  g[n] = IF n = 0 THEN AtRest ELSE Step(g[n - 1]).body
      OBVIOUS
    <3>2. CASE n = k
      BY <1>2, <1>4, <3>2
    <3>3. CASE n # k
      <4>1. n \in 0..k-1 /\ (n # 0 => n - 1 \in 0..k-1 /\ n - 1 # k)
        BY <1>2, <3>3
      <4>2. f[n] = IF n = 0 THEN AtRest ELSE Step(f[n - 1]).body
        BY <2>2, <4>1 DEF Falls
      <4> QED BY <1>2, <3>3, <4>1, <4>2
    <3> QED BY <3>2, <3>3
  <2>4. Falls(g, k)
    BY <2>3 DEF Falls
  <2> HIDE DEF g
  <2> QED BY <1>2, <2>4
<1> QED BY <1>3, <1>4

LEMMA CourseSteps ==
  /\ Course[0] = AtRest
  /\ \A n \in 1..TestCycleTicks : Course[n] = Step(Course[n - 1]).body
<1>1. TestCycleTicks \in Nat
  BY SchedulerAssumption
<1>2. Falls(Course, TestCycleTicks)
  BY <1>1, FallsExist DEF Course
<1>3. ASSUME NEW n \in 0..TestCycleTicks
      PROVE  Course[n] = IF n = 0 THEN AtRest ELSE Step(Course[n - 1]).body
  BY <1>2 DEF Falls
<1>4. 0 \in 0..TestCycleTicks
      /\ \A n \in 1..TestCycleTicks : n \in 0..TestCycleTicks /\ n # 0
  BY <1>1
<1> HIDE DEF Course
<1> QED BY <1>3, <1>4

\* A tick either goes on with the cycle or, when it ends one, starts the next.
LEMMA CycleTicks ==
  ASSUME NEW tick \in Nat \ {0}
  PROVE  /\ CycleTick(tick) \in 1..TestCycleTicks
         /\ CycleTick(1) = 1
         /\ CycleEnds(tick + 1) =>
              CycleTick(tick) = TestCycleTicks /\ CycleTick(tick + 1) = 1
         /\ ~CycleEnds(tick + 1) => CycleTick(tick + 1) = CycleTick(tick) + 1
<1>1. TestCycleTicks \in Nat \ {0}
  BY SchedulerAssumption
<1> DEFINE T == TestCycleTicks
           q == (tick - 1) \div T
           r == (tick - 1) % T
           s == tick % T
           d == tick \div T
<1>2. /\ q \in Int /\ r \in 0..T-1 /\ tick - 1 = q * T + r
      /\ d \in Int /\ s \in 0..T-1 /\ tick = d * T + s
  BY <1>1
<1>3. 0 % T = 0
  BY <1>1
<1>4. s = IF r = T - 1 THEN 0 ELSE r + 1
  <2> HIDE DEF q, r, s, d
  <2>1. (d - q) * T = r + 1 - s
    BY <1>1, <1>2
  <2>2. r + 1 - s > -T /\ r + 1 - s <= T
    BY <1>1, <1>2
  <2>3. d - q = 0 \/ d - q = 1
    <3>1. d - q \in Int
      BY <1>2
    <3>2. d - q >= 2 => (d - q) * T >= 2 * T
      BY <1>1, <3>1
    <3>3. d - q <= -1 => (d - q) * T <= -T
      BY <1>1, <3>1
    <3> QED BY <1>1, <1>2, <2>1, <2>2, <3>1, <3>2, <3>3
  <2>4. CASE d - q = 0
    BY <1>1, <1>2, <2>1, <2>4
  <2>5. CASE d - q = 1
    BY <1>1, <1>2, <2>1, <2>5
  <2> QED BY <2>3, <2>4, <2>5
<1>5. (tick + 1) - 1 = tick /\ 1 - 1 = 0 /\ tick + 1 > 1
  OBVIOUS
<1>6. CycleEnds(tick + 1) <=> s = 0
  BY <1>5 DEF CycleEnds
<1>7. CycleTick(tick) = r + 1 /\ CycleTick(tick + 1) = s + 1 /\ CycleTick(1) = 1
  BY <1>3, <1>5 DEF CycleTick
<1> HIDE DEF r, s, q, d, T
<1>8. T = TestCycleTicks
  BY DEF T
<1> QED BY <1>1, <1>2, <1>4, <1>6, <1>7, <1>8

CycleInv == OnCourse /\ EveryCycleSettles

LEMMA TickKeepsCycleInv ==
  ASSUME Settles, TypeOK, CycleInv, NEW level \in Levels, Tick(level)
  PROVE  CycleInv'
<1> DEFINE tick  == TickOf(level)
           ends  == CycleEnds(tick)
           reset == mActiveClientLevel # level \/ ends
           from  == IF reset THEN AtRest ELSE body
           incremented == {"mTotalEvents", "mSimulationSteps"}
             \cup WakesIf(reset)
             \cup (IF ends THEN {"mBodyCycleResets"} ELSE {})
             \cup (IF from.grounded THEN {"mGroundedTicks"} ELSE {})
             \cup ContactCounters(Step(from).contact)
<1>1. /\ mWorldTick' = tick
      /\ body' = Step(from).body
      /\ count' = Counted(count, incremented)
  BY DEF Tick, Integrate
<1>2. /\ "mBodyCycleResets" \in incremented <=> ends
      /\ "mBodyWakeCount" \in incremented <=> reset /\ body.grounded
  BY DEF WakesIf, ContactCounters
<1>3. /\ TestCycleTicks \in Nat \ {0}
      /\ mWorldTick \in Nat /\ count \in [Counters -> Nat]
      /\ level # NoLevel
  BY SchedulerAssumption DEF TypeOK
<1>4. IF mActiveClientLevel = level THEN tick = mWorldTick + 1 /\ mWorldTick # 0
      ELSE tick = 1
  BY <1>3 DEF TickOf, CycleInv, OnCourse
<1>5. ends => /\ mActiveClientLevel = level
              /\ CycleTick(mWorldTick) = TestCycleTicks
              /\ CycleTick(tick) = 1
  <2>1. SUFFICES ASSUME ends
                 PROVE  /\ mActiveClientLevel = level
                        /\ CycleTick(mWorldTick) = TestCycleTicks
                        /\ CycleTick(tick) = 1
    OBVIOUS
  <2>2. mActiveClientLevel = level
    BY <1>4, <2>1 DEF CycleEnds
  <2> QED BY <1>3, <1>4, <2>1, <2>2, CycleTicks
<1>6. ends => body.grounded
  BY <1>3, <1>4, <1>5 DEF CycleInv, OnCourse, Settles
<1>7. tick \in Nat \ {0} /\ body' = Course[CycleTick(tick)]
  <2>1. CASE reset
    <3>1. CycleTick(tick) = 1
      <4>1. CASE ends
        BY <1>5, <4>1
      <4>2. CASE ~ends
        <5>1. tick = 1
          BY <1>4, <2>1, <4>2
        <5> QED BY <5>1, CycleTicks
      <4> QED BY <4>1, <4>2
    <3>2. 1 \in 1..TestCycleTicks /\ 1 - 1 = 0
      BY <1>3
    <3>3. Course[1] = Step(AtRest).body
      BY <3>2, CourseSteps
    <3> QED BY <1>1, <1>3, <1>4, <2>1, <3>1, <3>3
  <2>2. CASE ~reset
    <3>1. CycleTick(tick) = CycleTick(mWorldTick) + 1
          /\ CycleTick(mWorldTick) \in 1..TestCycleTicks
      BY <1>3, <1>4, <2>2, CycleTicks
    <3>2. CycleTick(tick) \in 1..TestCycleTicks
      <4>1. tick \in Nat \ {0}
        BY <1>3, <1>4
      <4> QED BY <4>1, CycleTicks
    <3>3. body = Course[CycleTick(mWorldTick)]
      BY <1>4, <2>2 DEF CycleInv, OnCourse
    <3>4. CycleTick(tick) - 1 = CycleTick(mWorldTick)
      BY <1>3, <3>1
    <3>5. Course[CycleTick(tick)] = Step(Course[CycleTick(mWorldTick)]).body
      BY <3>2, <3>4, CourseSteps
    <3> QED BY <1>1, <1>3, <1>4, <2>2, <3>3, <3>5
  <2> QED BY <2>1, <2>2
<1> HIDE DEF tick, ends, from, incremented
<1>8. OnCourse'
  BY <1>1, <1>7 DEF OnCourse, CycleTick, Course
<1>9. EveryCycleSettles'
  <2>1. \A c \in Counters :
          count'[c] = IF c \in incremented THEN count[c] + 1 ELSE count[c]
    BY <1>1, <1>3, CountedFacts
  <2>2. count["mBodyCycleResets"] <= count["mBodyWakeCount"]
    BY DEF CycleInv, EveryCycleSettles
  <2> QED BY <1>2, <1>3, <1>6, <2>1, <2>2 DEF EveryCycleSettles, Counters
<1> QED BY <1>8, <1>9 DEF CycleInv

LEMMA NextCycleInv ==
  ASSUME Settles, TypeOK, CycleInv, [Next]_vars
  PROVE  CycleInv'
<1> USE DEF CycleInv, OnCourse, EveryCycleSettles, CycleTick, Course
<1>1. CASE Start
  BY <1>1 DEF Start, Zero, Counters
<1>2. CASE Stop
  BY <1>2 DEF Stop, world
<1>3. CASE TickWithoutLevel
  <2>1. \A c \in Counters \ {"mTotalEvents", "mNullInstanceEvents"} :
          count'[c] = count[c]
    BY <1>3, CountedFacts DEF TickWithoutLevel, TypeOK
  <2> QED BY <1>3, <2>1 DEF TickWithoutLevel, world, Counters
<1>4. CASE UNCHANGED vars
  BY <1>4 DEF vars
<1>5. ASSUME NEW level \in Levels, Tick(level)
      PROVE  CycleInv'
  <2> USE <1>5
  <2> QED BY TickKeepsCycleInv
<1> QED BY <1>1, <1>2, <1>3, <1>4, <1>5 DEF Next

\* If the course of a cycle ends on the ground, every reset at the end of a
\* cycle wakes the body (resetBodyState), for any numbers and any worlds.
THEOREM SettledCycles == Settles => (Spec => []EveryCycleSettles)
<1> SUFFICES ASSUME Settles PROVE Spec => []EveryCycleSettles
  OBVIOUS
<1>1. Init => CycleInv
  BY DEF Init, CycleInv, OnCourse, EveryCycleSettles, Zero, Counters
<1>2. Settles /\ TypeOK /\ CycleInv /\ [Next]_vars => CycleInv'
  BY NextCycleInv
<1>3. Settles
  OBVIOUS
<1>4. TypeOK /\ CycleInv /\ [Next]_vars => CycleInv'
  BY <1>2, <1>3
<1>5. CycleInv => EveryCycleSettles
  BY DEF CycleInv
<1> QED BY <1>1, <1>4, <1>5, TypeCorrect, PTL DEF Spec
-----------------------------------------------------------------------------
(***************************************************************************)
(* The numbers of the source settle.  The body falls 29 ticks, is thrown   *)
(* up for 20, for 6 and for 1, and is then too slow to be thrown again.    *)
(***************************************************************************)

\* The constants of VerticalBodyIntegrator.hpp:21 and testCycleTicks of the
\* scheduler.
SourceNumbers ==
  /\ InitialHeight = 10000000
  /\ Gravity = -9810000
  /\ FixedStep = 50
  /\ SleepSpeed = 500000
  /\ RestitutionNumerator = 35
  /\ RestitutionDenominator = 100
  /\ TestCycleTicks = 200

\* Twenty times the height, were nothing truncated, of a body that is k ticks
\* into a flight from the height p with the speed u.
Rise(p, u, k) == 20 * p + k * u - 245250 * (k * (k + 1))

LEMMA RiseSteps ==
  ASSUME NEW p \in Int, NEW u \in Int, NEW k \in Int
  PROVE  /\ Rise(p, u, 0) = 20 * p
         /\ Rise(p, u, k) \in Int
         /\ Rise(p, u, k + 1) = Rise(p, u, k) + u - 490500 * (k + 1)
BY DEF Rise

\* One step of a flight: what truncation takes is less than a micrometre.
LEMMA FlightStep ==
  ASSUME SourceNumbers, NEW b \in Bodies
  PROVE  /\ Flight(b) \in Bodies
         /\ Flight(b).velocity = b.velocity - 490500
         /\ 20 * Flight(b).position <= 20 * b.position + Flight(b).velocity + 20
         /\ 20 * Flight(b).position >= 20 * b.position + Flight(b).velocity - 20
         /\ ~Flight(b).grounded
<1>1. PerStep(Gravity) = -490500
  BY DEF SourceNumbers, PerStep, Quotient
<1>2. ASSUME NEW v \in Int
      PROVE  /\ PerStep(v) \in Int
             /\ 20 * PerStep(v) <= v + 20
             /\ 20 * PerStep(v) >= v - 20
  BY DEF SourceNumbers, PerStep, Quotient
<1> DEFINE v == b.velocity + PerStep(Gravity)
<1>3. Flight(b) = [position |-> b.position + PerStep(v), velocity |-> v,
                   grounded |-> FALSE]
  BY DEF Flight
<1>4. v = b.velocity - 490500 /\ v \in Int /\ b.position \in Int
  BY <1>1, SMT DEF Bodies
<1> HIDE DEF v
<1> QED BY <1>2, <1>3, <1>4, SMT DEF Bodies

\* A body thrown in tick t from the height p with the speed u makes its next
\* contact after K more ticks and one.
Throw(t, p, u, K) ==
  /\ t + K + 1 <= TestCycleTicks
  /\ Course[t] = [position |-> p, velocity |-> u, grounded |-> FALSE]
  /\ \A k \in 1..K : Rise(p, u, k) > 20 * k
  /\ Rise(p, u, K + 1) <= -20 * (K + 1)
  /\ u - 490500 * (K + 1) < 0

\* A flight of K ticks without a contact, and the contact after it.
LEMMA Arc ==
  ASSUME SourceNumbers,
         NEW t \in Nat, NEW p \in Nat, NEW u \in Nat, NEW K \in Nat,
         Throw(t, p, u, K)
  PROVE  Course[t + K + 1] = Contact(490500 * (K + 1) - u).body
<1> DEFINE Flies(k) ==
             /\ Course[t + k] \in Bodies
             /\ ~Course[t + k].grounded
             /\ Course[t + k].velocity = u - 490500 * k
             /\ 20 * Course[t + k].position <= Rise(p, u, k) + 20 * k
             /\ 20 * Course[t + k].position >= Rise(p, u, k) - 20 * k
           Bad == {k \in 0..K : ~Flies(k)}
<1>1. Flies(0)
  <2>1. t + 0 = t /\ Rise(p, u, 0) = 20 * p
    BY RiseSteps, SMT
  <2>2. Course[t] = [position |-> p, velocity |-> u, grounded |-> FALSE]
    BY DEF Throw
  <2>3. Course[t + 0] = [position |-> p, velocity |-> u, grounded |-> FALSE]
    BY <2>1, <2>2
  <2>4. u - 490500 * 0 = u /\ 20 * 0 = 0
    BY SMT
  <2> QED BY <2>1, <2>3, <2>4, SMT DEF Bodies
<1>2. ASSUME NEW k \in 0..K, Flies(k)
      PROVE  LET next == Flight(Course[t + k])
             IN  /\ Course[t + (k + 1)] = Step(Course[t + k]).body
                 /\ next \in Bodies /\ ~next.grounded
                 /\ next.velocity = u - 490500 * (k + 1)
                 /\ 20 * next.position <= Rise(p, u, k + 1) + 20 * (k + 1)
                 /\ 20 * next.position >= Rise(p, u, k + 1) - 20 * (k + 1)
  <2>1. /\ t + (k + 1) \in 1..TestCycleTicks
        /\ t + (k + 1) - 1 = t + k
    <3>1. t + K + 1 <= TestCycleTicks
      BY DEF Throw
    <3>2. TestCycleTicks \in Nat
      BY SchedulerAssumption
    <3> QED BY <3>1, <3>2, SMT
  <2>2. Course[t + (k + 1)] = Step(Course[t + k]).body
    BY <2>1, CourseSteps
  <2>3. /\ Rise(p, u, k) \in Int
        /\ Rise(p, u, k + 1) = Rise(p, u, k) + u - 490500 * (k + 1)
    <3>1. p \in Int /\ u \in Int /\ k \in Int
      BY SMT
    <3>2. Rise(p, u, k) \in Int
      BY <3>1, RiseSteps, SMT
    <3>3. Rise(p, u, k + 1) = Rise(p, u, k) + u - 490500 * (k + 1)
      BY <3>1, RiseSteps, SMTT(20)
    <3> QED BY <3>2, <3>3
  <2> DEFINE b == Course[t + k]
             next == Flight(b)
  <2>4. /\ b \in Bodies /\ b.velocity = u - 490500 * k
        /\ 20 * b.position <= Rise(p, u, k) + 20 * k
        /\ 20 * b.position >= Rise(p, u, k) - 20 * k
    BY <1>2
  <2>5. /\ next \in Bodies /\ ~next.grounded
        /\ next.velocity = b.velocity - 490500
        /\ 20 * next.position <= 20 * b.position + next.velocity + 20
        /\ 20 * next.position >= 20 * b.position + next.velocity - 20
    BY <2>4, FlightStep
  <2>6. b.position \in Int /\ next.position \in Int
    BY <2>4, <2>5 DEF Bodies
  <2> HIDE DEF b, next
  <2>7. /\ next.velocity = u - 490500 * (k + 1)
        /\ 20 * next.position <= Rise(p, u, k + 1) + 20 * (k + 1)
        /\ 20 * next.position >= Rise(p, u, k + 1) - 20 * (k + 1)
    BY <2>3, <2>4, <2>5, <2>6
  <2> QED BY <2>2, <2>5, <2>7 DEF b, next
<1>3. ASSUME NEW k \in 0..K, k # K, Flies(k)
      PROVE  Flies(k + 1)
  <2> DEFINE next == Flight(Course[t + k])
  <2>1. /\ Course[t + (k + 1)] = Step(Course[t + k]).body
        /\ next \in Bodies /\ ~next.grounded
        /\ next.velocity = u - 490500 * (k + 1)
        /\ 20 * next.position <= Rise(p, u, k + 1) + 20 * (k + 1)
        /\ 20 * next.position >= Rise(p, u, k + 1) - 20 * (k + 1)
    BY <1>2, <1>3
  <2>2. ~Course[t + k].grounded
    BY <1>3
  <2>3. k + 1 \in 1..K
    BY <1>3
  <2>4. Rise(p, u, k + 1) > 20 * (k + 1) /\ Rise(p, u, k + 1) \in Int
    <3>1. p \in Int /\ u \in Int /\ k + 1 \in Int
      BY SMT
    <3>2. Rise(p, u, k + 1) \in Int
      BY <3>1, RiseSteps, SMT
    <3> QED BY <2>3, <3>2, SMT DEF Throw
  <2>5. next.position \in Int
    BY <2>1 DEF Bodies
  <2> HIDE DEF next
  <2>6. next.position > 0
    BY <2>1, <2>4, <2>5
  <2>7. Course[t + (k + 1)] = next
    BY <2>1, <2>2, <2>6 DEF Step, next
  <2> QED BY <2>1, <2>7
<1>4. Bad = {}
  <2>1. SUFFICES ASSUME Bad # {} PROVE FALSE
    OBVIOUS
  <2>2. PICK k \in Bad : \A m \in Bad : k <= m
    <3>1. Bad \subseteq Nat
      OBVIOUS
    <3> HIDE DEF Bad, Flies
    <3> QED BY <2>1, <3>1, LeastTick
  <2>3. k \in 0..K /\ ~Flies(k)
    BY <2>2
  <2>4. k # 0
    BY <1>1, <2>3
  <2>5. k - 1 \in 0..K /\ k - 1 # K /\ (k - 1) + 1 = k /\ ~(k <= k - 1)
    BY <2>3, <2>4
  <2>6. Flies(k - 1)
    <3> HIDE DEF Flies
    <3> QED BY <2>2, <2>5
  <2> HIDE DEF Flies
  <2>7. Flies((k - 1) + 1)
    BY <1>3, <2>5, <2>6
  <2> QED BY <2>3, <2>5, <2>7
<1>5. Flies(K)
  <2>1. K \in 0..K
    OBVIOUS
  <2> HIDE DEF Flies
  <2> QED BY <1>4, <2>1
<1> DEFINE next == Flight(Course[t + K])
<1>6. /\ Course[t + (K + 1)] = Step(Course[t + K]).body
      /\ next \in Bodies
      /\ next.velocity = u - 490500 * (K + 1)
      /\ 20 * next.position <= Rise(p, u, K + 1) + 20 * (K + 1)
  <2>1. K \in 0..K
    OBVIOUS
  <2> QED BY <1>2, <1>5, <2>1
<1>7. ~Course[t + K].grounded
  BY <1>5
<1>8. next.position \in Int /\ Rise(p, u, K + 1) \in Int
  <2>1. p \in Int /\ u \in Int /\ K + 1 \in Int
    BY SMT
  <2> QED BY <1>6, <2>1, RiseSteps, SMT DEF Bodies
<1> HIDE DEF next, Flies, Bad
<1>9. ~(next.position > 0) /\ next.velocity < 0 /\ -next.velocity = 490500 * (K + 1) - u
  BY <1>6, <1>8, SMT DEF Throw
<1>10. Step(Course[t + K]) = Contact(-next.velocity)
  BY <1>7, <1>9 DEF Step, next
<1>11. t + (K + 1) = t + K + 1
  OBVIOUS
<1> QED BY <1>6, <1>9, <1>10, <1>11

\* A body asleep stays asleep.
LEMMA AsleepStays ==
  ASSUME SourceNumbers, NEW t \in 0..TestCycleTicks, Course[t].grounded
  PROVE  Settles
<1> DEFINE Bad == {n \in t..TestCycleTicks : ~Course[n].grounded}
<1>1. TestCycleTicks \in Nat /\ t \in Nat /\ TestCycleTicks \in t..TestCycleTicks
  BY DEF SourceNumbers
<1>2. Bad = {}
  <2>1. SUFFICES ASSUME Bad # {} PROVE FALSE
    OBVIOUS
  <2>2. PICK n \in Bad : \A m \in Bad : n <= m
    <3>1. Bad \subseteq Nat
      BY <1>1
    <3> HIDE DEF Bad
    <3> QED BY <2>1, <3>1, LeastTick
  <2>3. n \in t..TestCycleTicks /\ ~Course[n].grounded
    BY <2>2
  <2>4. n # t
    BY <2>3
  <2>5. /\ n \in 1..TestCycleTicks /\ n - 1 \in t..TestCycleTicks
        /\ ~(n <= n - 1)
    BY <1>1, <2>3, <2>4
  <2>6. Course[n - 1].grounded
    BY <2>2, <2>5
  <2>7. Course[n] = Step(Course[n - 1]).body
    BY <2>5, CourseSteps
  <2> QED BY <2>3, <2>6, <2>7 DEF Step, Asleep
<1> QED BY <1>1, <1>2 DEF Settles

LEMMA SourceSettles == ASSUME SourceNumbers PROVE Settles
<1>1. TestCycleTicks = 200
  BY DEF SourceNumbers
<1>2. Course[29] = [position |-> 0, velocity |-> 4978575, grounded |-> FALSE]
  <2>1. Course[0] = [position |-> 10000000, velocity |-> 0, grounded |-> FALSE]
    BY CourseSteps DEF AtRest, SourceNumbers
  <2>2. ASSUME NEW k \in 1..28
        PROVE  Rise(10000000, 0, k) > 20 * k
    <3>1. k * (k + 1) <= 812
      OBVIOUS
    <3> QED BY <3>1 DEF Rise
  <2>3. Rise(10000000, 0, 28 + 1) <= -20 * (28 + 1)
    BY DEF Rise
  <2>4. Throw(0, 10000000, 0, 28)
    BY <1>1, <2>1, <2>2, <2>3, SMT DEF Throw
  <2>5. Course[0 + 28 + 1] = Contact(490500 * (28 + 1) - 0).body
    BY <2>4, Arc, SMT
  <2> QED BY <2>5, SMT DEF Contact, Thrown, Quotient, SourceNumbers
<1>3. Course[49] = [position |-> 0, velocity |-> 1690998, grounded |-> FALSE]
  <2>1. ASSUME NEW k \in 1..19
        PROVE  Rise(0, 4978575, k) > 20 * k
    <3>1. k * (4978575 - 245250 * (k + 1) - 20) > 0
      OBVIOUS
    <3> QED BY <3>1 DEF Rise
  <2>2. Rise(0, 4978575, 19 + 1) <= -20 * (19 + 1)
    BY DEF Rise
  <2>3. Throw(29, 0, 4978575, 19)
    BY <1>1, <1>2, <2>1, <2>2, SMT DEF Throw
  <2>4. Course[29 + 19 + 1] = Contact(490500 * (19 + 1) - 4978575).body
    BY <2>3, Arc, SMT
  <2> QED BY <2>4, SMT DEF Contact, Thrown, Quotient, SourceNumbers
<1>4. Course[55] = [position |-> 0, velocity |-> 438200, grounded |-> FALSE]
  <2>1. ASSUME NEW k \in 1..5
        PROVE  Rise(0, 1690998, k) > 20 * k
    <3>1. k * (1690998 - 245250 * (k + 1) - 20) > 0
      OBVIOUS
    <3> QED BY <3>1 DEF Rise
  <2>2. Rise(0, 1690998, 5 + 1) <= -20 * (5 + 1)
    BY DEF Rise
  <2>3. Throw(49, 0, 1690998, 5)
    BY <1>1, <1>3, <2>1, <2>2, SMT DEF Throw
  <2>4. Course[49 + 5 + 1] = Contact(490500 * (5 + 1) - 1690998).body
    BY <2>3, Arc, SMT
  <2> QED BY <2>4, SMT DEF Contact, Thrown, Quotient, SourceNumbers
<1>5. Course[56].grounded
  <2>1. Rise(0, 438200, 0 + 1) <= -20 * (0 + 1)
    BY DEF Rise
  <2>2. Throw(55, 0, 438200, 0)
    BY <1>1, <1>4, <2>1, SMT DEF Throw
  <2>3. Course[55 + 0 + 1] = Contact(490500 * (0 + 1) - 438200).body
    BY <2>2, Arc, SMT
  <2> QED BY <2>3, SMT DEF Contact, Asleep, SourceNumbers
<1> QED BY <1>1, <1>5, AsleepStays

\* With the numbers of the source every cycle ends with the body asleep, and
\* resetBodyState wakes it: in any number of worlds and sessions, after any
\* number of ticks.
THEOREM EveryCycleEndsAsleep == SourceNumbers => (Spec => []EveryCycleSettles)
<1> SUFFICES ASSUME SourceNumbers PROVE Spec => []EveryCycleSettles
  OBVIOUS
<1>1. Settles
  BY SourceSettles
<1> QED BY <1>1, SettledCycles, PTL
=============================================================================
