---------------------------- MODULE VerticalBody ----------------------------
(***************************************************************************)
(* The fixed-point integrator of src/src/physics/VerticalBodyIntegrator.hpp:*)
(* one body over a ground at height 0, in micrometres and 50 ms steps.     *)
(***************************************************************************)
EXTENDS Integers

CONSTANTS
  InitialHeight,            \* initialHeightMicrometers
  Gravity,                  \* gravityMicrometersPerSecondSquared
  FixedStep,                \* fixedStepMilliseconds
  SleepSpeed,               \* sleepImpactSpeedMicrometersPerSecond
  RestitutionNumerator,
  RestitutionDenominator

ASSUME BodyAssumption ==
  /\ InitialHeight \in Nat \ {0}
  /\ Gravity \in Int /\ Gravity < 0
  /\ FixedStep \in Nat \ {0}
  /\ SleepSpeed \in Nat
  /\ RestitutionNumerator \in Nat
  /\ RestitutionDenominator \in Nat \ {0}

Bodies == [position : Int, velocity : Int, grounded : BOOLEAN]

\* reset
AtRest == [position |-> InitialHeight, velocity |-> 0, grounded |-> FALSE]

\* Integer division truncates toward zero.
Quotient(a, b) == IF a >= 0 THEN a \div b ELSE -((-a) \div b)

PerStep(rate) == Quotient(rate * FixedStep, 1000)

\* The semi-implicit step: the new velocity moves the body.
Flight(body) ==
  LET velocity == body.velocity + PerStep(Gravity)
  IN  [position |-> body.position + PerStep(velocity),
       velocity |-> velocity,
       grounded |-> FALSE]

Asleep == [position |-> 0, velocity |-> 0, grounded |-> TRUE]

Thrown(inbound) ==
  [position |-> 0,
   velocity |-> Quotient(inbound * RestitutionNumerator, RestitutionDenominator),
   grounded |-> FALSE]

\* Mutant: a slow impact is thrown back as well.
ContactNeverSleeps(inbound) == [body |-> Thrown(inbound), contact |-> "bounced"]

\* A slow impact ends in sleep, a faster one is thrown back.
Contact(inbound) ==
  IF inbound <= SleepSpeed
  THEN [body |-> Asleep, contact |-> "enteredSleep"]
  ELSE [body |-> Thrown(inbound), contact |-> "bounced"]

\* Mutant: the ground is looked for where the body came from.
StepThroughGround(body) ==
  LET fallen == Flight(body)
  IN  CASE body.grounded -> [body |-> Asleep, contact |-> "none"]
        [] ~body.grounded /\ body.position > 0 ->
             [body |-> fallen, contact |-> "none"]
        [] OTHER ->
             Contact(IF fallen.velocity < 0 THEN -fallen.velocity ELSE 0)

\* step: the new body, and the contact it made.
Step(body) ==
  LET fallen == Flight(body)
  IN  CASE body.grounded -> [body |-> Asleep, contact |-> "none"]
        [] ~body.grounded /\ fallen.position > 0 ->
             [body |-> fallen, contact |-> "none"]
        [] OTHER ->
             Contact(IF fallen.velocity < 0 THEN -fallen.velocity ELSE 0)
=============================================================================
