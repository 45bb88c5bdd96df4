------------------------------ MODULE FlightCores ------------------------------
(***************************************************************************)
(* The native flight cores, which share no state: a behaviour is about one *)
(* of them and leaves the variables of the others as they start.           *)
(***************************************************************************)
EXTENDS ShipScan

CONSTANTS
  Masses, Engines,                         \* of AnchoredFlightProxy
  FlightStates, Controls, Speeds, Deltas,  \* of AutopilotController
  handoffMillis, MaxUpdates,
  Worlds, Starts                           \* of ShipAssembly

Axes == {"forward", "vertical", "yaw"}
States == [altitude : Int, vertical : Int, heading : Int, yawRate : Int, forward : Int]

\* The first two cores get numbers, any numbers.
ASSUME ProxyConstants == Masses \subseteq Int /\ Engines \subseteq Nat
ASSUME PilotConstants ==
  /\ FlightStates \subseteq States /\ Controls \subseteq [Axes -> Int]
  /\ Speeds \subseteq Int /\ Deltas \subseteq Int /\ handoffMillis \in Int

ASSUME ShipConstants == Worlds \subseteq [Cells -> Kinds] /\ Starts \subseteq Cells

VARIABLES
  part,                                    \* the core this behaviour is about
  massKilograms, engineCount, phase, altitude, velocity, near, underway,
  authority, setpoint, lastManual, elapsed, integral, output, measured, updates,
  world, start, flaw, scan, build

proxyVars == <<massKilograms, engineCount, phase, altitude, velocity, near, underway>>
pilotVars == <<authority, setpoint, lastManual, elapsed, integral, output, measured, updates>>
shipVars == <<world, start, flaw, scan, build>>

Native == INSTANCE AnchoredFlightProxy
Pilot == INSTANCE AutopilotController
Assembly == INSTANCE ShipAssembly

\* What a core is given before its turn does not matter: one choice will do.
Unused(set) == CHOOSE x \in set : TRUE

CoresInit ==
  /\ \/ part = "proxy" /\ world = Unused(Worlds) /\ flaw = "none"
        /\ measured = Unused(FlightStates)
     \/ part = "pilot" /\ world = Unused(Worlds) /\ flaw = "none"
     \/ part = "assembly" /\ measured = Unused(FlightStates)
  /\ Native!Init
  /\ Pilot!Init
  /\ Assembly!Init

CoresNext ==
  \/ part = "proxy" /\ Native!Next /\ UNCHANGED <<part, pilotVars, shipVars>>
  \/ part = "pilot" /\ Pilot!Next /\ UNCHANGED <<part, proxyVars, shipVars>>
  \/ part = "assembly" /\ Assembly!Next /\ UNCHANGED <<part, proxyVars, pilotVars>>

CoresSpec == CoresInit /\ [][CoresNext]_<<part, proxyVars, pilotVars, shipVars>>

\* The properties of the cores, by their names in their modules.
FliesOnlyWithLift == Native!FliesOnlyWithLift
FlightIsBounded == Native!FlightIsBounded
TakeoverIsSmooth == Pilot!TakeoverIsSmooth
CorrectsWhateverTheHistory == Pilot!CorrectsWhateverTheHistory
HandoffAdvances == Pilot!HandoffAdvances
SearchesAgree == part = "assembly" => Assembly!ScanIsItsDefinition /\ Assembly!NativeBuilderAgrees
=============================================================================
