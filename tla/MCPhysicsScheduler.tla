------------------------- MODULE MCPhysicsScheduler -------------------------
(***************************************************************************)
(* The constants of the source.  The events of one session cover the body  *)
(* coming to rest, the end of a test cycle before and after a change of    *)
(* world, and a session after that.                                        *)
(***************************************************************************)
EXTENDS PhysicsScheduler

CONSTANTS overworld, nether

MCLevels == {overworld, nether}
MCGravity == -9810000
=============================================================================
