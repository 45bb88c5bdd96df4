------------------------ MODULE AnchoredFlightProxy -------------------------
(***************************************************************************)
(* src/physics/AnchoredFlightProxy: the stand-in for a ship that rises     *)
(* from its anchor to a fixed height, hovers there and comes back, driven  *)
(* at 20 steps a second by a PD controller with a limited thrust.          *)
(*                                                                         *)
(* Lengths are micrometres, masses kilograms.  Near the anchor on the way  *)
(* back no limit acts and the controller is linear, so height and speed    *)
(* matter only up to a common factor: a near state keeps them scaled up to *)
(* Precision, as floating point does.  The approach of the source needs    *)
(* that: it crosses zero only after shrinking by many orders of magnitude. *)
(***************************************************************************)
EXTENDS FixedPoint

CONSTANTS Masses, Engines       \* what confirmAssembly() may be given

Phases == {"idle", "ascending", "hovering", "returning"}

VARIABLES
  massKilograms, engineCount,   \* mMassKilograms, mEngineCount
  phase, altitude, velocity,    \* mState
  near,                         \* altitude and velocity are scaled up
  underway                      \* history: steps since the ascent or the return began

ship == <<massKilograms, engineCount>>
state == <<phase, altitude, velocity, near, underway>>
vars == <<ship, state>>

-----------------------------------------------------------------------------

gravity == 9810000
targetAltitude == 4000000
maximumUpwardAcceleration == 6000000
hoverPositionTolerance == 50000
hoverVelocityTolerance == 80000

Within(x, tolerance) == -tolerance <= x /\ x <= tolerance

\* 25000 N an engine against 1.05 * 9.81 N for each kilogram.
hasLiftAuthority ==
  /\ massKilograms > 0 /\ engineCount # 0
  /\ engineCount * 250000000 > massKilograms * 103005

\* Acceleration that all engines together give the ship.
maximumThrust == ((engineCount * 250000000) \div massKilograms) * 100

acceleration ==
  LET target == IF phase = "returning" THEN 0 ELSE targetAltitude
      commanded == Truncated(9 * (target - altitude), 2) - 4 * velocity
      thrust == Clamp(gravity + commanded, 0, maximumThrust)
  IN  IF near THEN commanded
      ELSE Clamp(thrust - gravity, -gravity, maximumUpwardAcceleration)

\* Within 4 cm and 4 cm/s the controller asks for less than the 5 % of spare
\* thrust that hasLiftAuthority() demands.
NearAnchor == 40000
Precision == 2 ^ 25

-----------------------------------------------------------------------------

AtAnchor ==
  /\ phase' = "idle" /\ altitude' = 0 /\ velocity' = 0 /\ near' = FALSE
  /\ underway' = 0

Init ==
  /\ massKilograms = 0 /\ engineCount = 0
  /\ phase = "idle" /\ altitude = 0 /\ velocity = 0 /\ near = FALSE /\ underway = 0

\* A mass that is no mass counts as none.
confirmAssembly(mass, engines) ==
  /\ massKilograms' = IF mass > 0 THEN mass ELSE 0
  /\ engineCount' = engines
  /\ AtAnchor

\* Mutant: a flight that returns may be engaged again.
engageAnyTime ==
  /\ phase \in {"idle", "returning"}
  /\ phase' = "ascending"
  /\ UNCHANGED <<ship, altitude, velocity, near, underway>>

engage ==
  /\ phase = "idle" /\ hasLiftAuthority
  /\ phase' = "ascending"
  /\ UNCHANGED <<ship, altitude, velocity, near, underway>>

requestReturn ==
  /\ phase # "idle"
  /\ phase' = "returning"
  /\ underway' = IF phase = "returning" THEN underway ELSE 0
  /\ UNCHANGED <<ship, altitude, velocity, near>>

Hovers(a, v) ==
  Within(targetAltitude - a, hoverPositionTolerance) /\ Within(v, hoverVelocityTolerance)

\* Height and speed a and v after a step, to twice the scale when they fit.
Move(a, v) ==
  LET close == phase = "returning" /\ (near \/ (Within(a, NearAnchor) /\ Within(v, NearAnchor)))
      scale == IF close /\ Within(a, Precision) /\ Within(v, Precision) THEN 2 ELSE 1
  IN  /\ near' = close /\ altitude' = scale * a /\ velocity' = scale * v
      /\ phase' = IF phase # "returning" /\ Hovers(a, v) THEN "hovering" ELSE phase
      /\ underway' = IF phase' = "hovering" THEN 0 ELSE underway + 1

\* Mutant: the ship lands only at exactly zero.
stepLandsAtZero ==
  /\ phase # "idle"
  /\ LET v == velocity + Truncated(acceleration, 20)
         a == altitude + Truncated(v, 20)
     IN  IF phase = "returning" /\ a = 0 THEN AtAnchor ELSE Move(a, v)
  /\ UNCHANGED ship

step ==
  /\ phase # "idle"
  /\ LET v == velocity + Truncated(acceleration, 20)
         a == altitude + Truncated(v, 20)
     IN  IF phase = "returning" /\ a <= 0 THEN AtAnchor ELSE Move(a, v)
  /\ UNCHANGED ship

reset == AtAnchor /\ UNCHANGED ship

Next ==
  \/ \E m \in Masses, n \in Engines : confirmAssembly(m, n)
  \/ engage
  \/ requestReturn
  \/ step
  \/ reset

Spec == Init /\ [][Next]_vars

-----------------------------------------------------------------------------

TypeOK ==
  /\ massKilograms \in Nat /\ engineCount \in Nat
  /\ phase \in Phases /\ altitude \in Int /\ velocity \in Int
  /\ near \in BOOLEAN /\ underway \in Nat

(***************************************************************************)
(* engage() checks the lift once: whatever is confirmed, requested and     *)
(* reset afterwards, in any order, a ship without lift never leaves its    *)
(* anchor, and a ship at its anchor is at rest there.                      *)
(***************************************************************************)
FliesOnlyWithLift ==
  /\ TypeOK
  /\ phase # "idle" => hasLiftAuthority
  /\ phase = "idle" => altitude = 0 /\ velocity = 0

(***************************************************************************)
(* step() with the gains of the source.  Whenever the return is asked for, *)
(* and with hardly any lift to brake with, the ship is never under its     *)
(* anchor and never more than a tenth of a metre over its height, and a    *)
(* ship that hovers has not left the neighbourhood of its height.          *)
(***************************************************************************)
StaysInBand ==
  /\ 0 <= altitude
  /\ near \/ altitude <= targetAltitude + 100000
  /\ phase = "hovering" => altitude >= targetAltitude - 100000

(***************************************************************************)
(* step() at 20 steps a second: every ascent has become a hover within six *)
(* seconds, and every return has landed within fifteen, whenever it was    *)
(* asked for.  The code only lands a ship whose height is zero or less:    *)
(* with thrust to spare, a return rests on the little by which the         *)
(* controller overshoots, and goes on long after the ship seems to lie     *)
(* still.                                                                  *)
(***************************************************************************)
ManoeuvresEnd ==
  /\ phase = "ascending" => underway <= 120
  /\ phase = "returning" => underway < 300

\* A flight is where it should be, and goes where it should go.
FlightIsBounded == StaysInBand /\ ManoeuvresEnd
=============================================================================
