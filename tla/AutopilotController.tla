-------------------------- MODULE AutopilotController --------------------------
(***************************************************************************)
(* src/physics/AutopilotController: who steers a ship (nobody, the pilot   *)
(* at the helm, the autopilot, or the pilot's last command giving way to   *)
(* the autopilot), and the cascaded controllers of speed, altitude and     *)
(* heading.                                                                *)
(*                                                                         *)
(* Quantities are thousandths: mm, mm/s, mrad, mrad/s, ms, and a control   *)
(* of 1000 is full deflection.  Integrals are thousandths of those.  The   *)
(* gains and limits are those of AutopilotConfig; numbers that are not     *)
(* finite are left out, but for the time step, where any invalid one is 0. *)
(***************************************************************************)
EXTENDS FixedPoint

CONSTANTS
  FlightStates,     \* what the ship may measure: altitude, vertical, heading, yawRate, forward
  Controls,         \* what a pilot may command: forward, vertical, yaw
  Speeds,           \* what engageHold() may be asked for
  Deltas,           \* times between two updates
  handoffMillis,    \* AutopilotConfig::handoffSeconds
  MaxUpdates        \* bound: updates in one authority

Authorities == {"inactive", "manualHelm", "handoff", "autopilotHold", "emergencyBrake"}

VARIABLES
  authority, setpoint, lastManual,      \* mAuthority, mSetpoint, mLastManualControl
  elapsed, integral,                    \* mHandoffElapsedSeconds, the three integrals
  output,                               \* what the last update() returned
  measured,                             \* history: the ship's state in that update
  updates                               \* history: updates since the last call of another kind

settings == <<authority, setpoint, lastManual, elapsed, integral>>
vars == <<settings, output, measured, updates>>

-----------------------------------------------------------------------------

integralLimit == 4000000
maximumForwardSpeed == 20000
maximumVerticalSpeed == 5000
maximumYawRate == 800
pi == 3142

clampUnit(x) == Clamp(x, -1000, 1000)
clampControl(c) == [axis \in DOMAIN c |-> clampUnit(c[axis])]

\* Turns are taken off, or added, until the angle is between -pi and pi.
TurnsAbove(x) == IF x > pi THEN (x - pi + 2 * pi - 1) \div (2 * pi) ELSE 0
wrapRadians(x) == x - 2 * pi * TurnsAbove(x) + 2 * pi * TurnsAbove(-x)

\* Mutant: a time step that is not positive is taken as it is.
safeDeltaOrNone(delta) == Clamp(delta, 0, 250)

safeDelta(delta) == IF delta <= 0 THEN 50 ELSE Clamp(delta, 1, 250)

zeros == [forward |-> 0, vertical |-> 0, yaw |-> 0]
noOutput == [control |-> zeros, progress |-> 0, authority |-> "inactive"]

-----------------------------------------------------------------------------
(***************************************************************************)
(* calculateAutopilot.                                                     *)
(***************************************************************************)
Errors(s) ==
  LET climb == Clamp(Truncated(45 * (setpoint.altitude - s.altitude), 100),
                     -maximumVerticalSpeed, maximumVerticalSpeed)
      turn  == Clamp(Truncated(14 * wrapRadians(setpoint.heading - s.heading), 10),
                     -maximumYawRate, maximumYawRate)
  IN  [forward  |-> setpoint.forward - s.forward,
       vertical |-> climb - s.vertical,
       yaw      |-> turn - s.yawRate]

\* Mutant: the integrals wind up.
IntegralsUnlimited(s, delta) ==
  [axis \in DOMAIN integral |-> integral[axis] + Errors(s)[axis] * delta]

Integrals(s, delta) ==
  [axis \in DOMAIN integral |->
     Clamp(integral[axis] + Errors(s)[axis] * delta, -integralLimit, integralLimit)]

Gains == [forward  |-> [proportional |-> 220, integral |-> 40],
          vertical |-> [proportional |-> 300, integral |-> 50],
          yaw      |-> [proportional |-> 750, integral |-> 50]]

\* The control for each axis, from its error and its new integral.
Automatic(s, sums) ==
  [axis \in DOMAIN Gains |->
     clampUnit(Truncated(Gains[axis].proportional * Errors(s)[axis]
                           + Gains[axis].integral * Truncated(sums[axis], 1000), 1000))]

-----------------------------------------------------------------------------

Init ==
  /\ authority = "inactive"
  /\ setpoint = [altitude |-> 0, heading |-> 0, forward |-> 0]
  /\ lastManual = zeros /\ elapsed = 0 /\ integral = zeros
  /\ output = noOutput
  /\ measured \in FlightStates /\ updates = 0

captureHoldSetpoint(s, speed) ==
  setpoint' = [altitude |-> s.altitude, heading |-> wrapRadians(s.heading),
               forward |-> Clamp(speed, 0, maximumForwardSpeed)]

resetIntegrators == integral' = zeros

\* No update has answered since.
Unanswered == updates' = 0 /\ output' = noOutput /\ UNCHANGED measured

reset ==
  /\ authority' = "inactive"
  /\ setpoint' = [altitude |-> 0, heading |-> 0, forward |-> 0]
  /\ lastManual' = zeros /\ elapsed' = 0 /\ resetIntegrators
  /\ Unanswered

enterManualHelm ==
  /\ authority' = "manualHelm" /\ elapsed' = 0 /\ resetIntegrators
  /\ UNCHANGED <<setpoint, lastManual>> /\ Unanswered

leaveHelm(s, control) ==
  /\ captureHoldSetpoint(s, s.forward)
  /\ lastManual' = clampControl(control)
  /\ elapsed' = 0 /\ authority' = "handoff" /\ resetIntegrators
  /\ Unanswered

engageHold(s, speed) ==
  /\ captureHoldSetpoint(s, speed)
  /\ authority' = "autopilotHold" /\ elapsed' = handoffMillis /\ resetIntegrators
  /\ UNCHANGED lastManual /\ Unanswered

engageEmergencyBrake(s) ==
  /\ captureHoldSetpoint(s, 0)
  /\ authority' = "emergencyBrake" /\ elapsed' = handoffMillis /\ resetIntegrators
  /\ UNCHANGED lastManual /\ Unanswered

UpdateManual(control) ==
  /\ lastManual' = clampControl(control)
  /\ output' = [control |-> lastManual', progress |-> 0, authority |-> "manualHelm"]
  /\ UNCHANGED <<authority, setpoint, elapsed, integral>>

UpdateInactive == output' = noOutput /\ UNCHANGED settings

\* In thousandths.
Blend(millis) ==
  LET duration == IF handoffMillis > 1 THEN handoffMillis ELSE 1
  IN  Clamp((1000 * millis) \div duration, 0, 1000)

\* Mutant: the shares of pilot and autopilot are exchanged.
MixExchanged(control, blend) ==
  [axis \in DOMAIN control |->
     Truncated(lastManual[axis] * blend + control[axis] * (1000 - blend), 1000)]

Mix(control, blend) ==
  [axis \in DOMAIN control |->
     Truncated(lastManual[axis] * (1000 - blend) + control[axis] * blend, 1000)]

UpdateHandoff(s, delta) ==
  LET blend == Blend(elapsed + delta)
      next  == IF blend = 1000 THEN "autopilotHold" ELSE "handoff"
  IN  /\ elapsed' = elapsed + delta
      /\ authority' = next
      /\ output' = [control |-> Mix(Automatic(s, Integrals(s, delta)), blend),
                    progress |-> blend, authority |-> next]

UpdateAutopilot(s, delta) ==
  /\ integral' = Integrals(s, delta)
  /\ IF authority = "handoff" THEN UpdateHandoff(s, delta)
     ELSE /\ output' = [control |-> Automatic(s, integral'), progress |-> 1000,
                        authority |-> authority]
          /\ UNCHANGED <<authority, elapsed>>
  /\ UNCHANGED <<setpoint, lastManual>>

update(s, control, delta) ==
  /\ updates < MaxUpdates
  /\ CASE authority = "manualHelm" -> UpdateManual(control)
       [] authority = "inactive"   -> UpdateInactive
       [] OTHER                    -> UpdateAutopilot(s, safeDelta(delta))
  /\ measured' = s /\ updates' = updates + 1

Next ==
  \/ reset
  \/ enterManualHelm
  \/ \E s \in FlightStates :
       \/ \E c \in Controls : leaveHelm(s, c)
       \/ \E speed \in Speeds : engageHold(s, speed)
       \/ engageEmergencyBrake(s)
       \/ \E c \in Controls, delta \in Deltas : update(s, c, delta)

Spec == Init /\ [][Next]_vars

-----------------------------------------------------------------------------

Outputs == [control : [DOMAIN zeros -> -1000..1000], progress : 0..1000,
            authority : Authorities]

(***************************************************************************)
(* update() in any authority and after any history: no control leaves its  *)
(* range, and while the autopilot takes over, the controls have moved from *)
(* the pilot's last ones by no more than its share of the full range.      *)
(***************************************************************************)
TakeoverIsSmooth ==
  /\ authority \in Authorities /\ output \in Outputs
  /\ authority = "handoff" /\ updates > 0 =>
       \A axis \in DOMAIN zeros :
         LET moved == output.control[axis] - lastManual[axis]
         IN  -2 * output.progress - 1 <= moved /\ moved <= 2 * output.progress + 1

\* The shortest turn from one heading to another is to the left, by this much
\* at least.
ShortWayLeft(from, to, atLeast) ==
  \E turns \in -2..2 : to - from + 2 * pi * turns \in atLeast..(pi - 1)

(***************************************************************************)
(* calculateAutopilot() with integrals that stay small: whatever errors it *)
(* went through before, when the autopilot alone has the ship it pushes    *)
(* against an error of 1 m/s, 1.5 m or a fifth of a radian, brakes a ship  *)
(* in an emergency, and turns the short way round.                         *)
(***************************************************************************)
CorrectsWhateverTheHistory ==
  authority \in {"autopilotHold", "emergencyBrake"} /\ updates > 0 =>
    LET control == output.control
    IN  /\ measured.forward <= setpoint.forward - 1000 => control.forward > 0
        /\ measured.forward >= setpoint.forward + 1000 => control.forward < 0
        /\ authority = "emergencyBrake" /\ measured.forward >= 1000 => control.forward < 0
        /\ measured.altitude <= setpoint.altitude - 1500 /\ measured.vertical <= 0
             => control.vertical > 0
        /\ measured.altitude >= setpoint.altitude + 1500 /\ measured.vertical >= 0
             => control.vertical < 0
        /\ ShortWayLeft(measured.heading, setpoint.heading, 200) /\ measured.yawRate <= 0
             => control.yaw > 0
        /\ ShortWayLeft(setpoint.heading, measured.heading, 200) /\ measured.yawRate >= 0
             => control.yaw < 0

(***************************************************************************)
(* safeDelta() in update(): every update of a takeover brings its end      *)
(* nearer, also when the clock of the caller stands still or runs          *)
(* backwards; only a pilot who leaves the helm again starts it anew.       *)
(***************************************************************************)
HandoffAdvances ==
  [][authority = "handoff" /\ authority' = "handoff" /\ updates' > 0 =>
       elapsed' > elapsed /\ elapsed' <= handoffMillis]_vars
=============================================================================
