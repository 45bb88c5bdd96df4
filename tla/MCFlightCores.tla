---------------------------- MODULE MCFlightCores ----------------------------
(* Values of the constants of FlightCores. *)
EXTENDS FlightCores

\* One engine lifts 2427 kg and no more.
MCMasses == {-1, 1000, 2427, 2428}

Ship(a, v, h, y, f) ==
  [altitude |-> a, vertical |-> v, heading |-> h, yawRate |-> y, forward |-> f]
MCFlightStates ==
  {Ship(0, 0, 0, 0, 0), Ship(10000, 0, 3000, 0, 30000),
   Ship(-2000, -1000, -3000, -200, 8000), Ship(2000, 1000, 8000, 200, -2000)}
MCControls ==
  {[forward |-> 0, vertical |-> 0, yaw |-> 0], [forward |-> 1000, vertical |-> -1000, yaw |-> 3000]}
MCSpeeds == {-5000, 10000}
MCDeltas == {-1, 0, 1000}

\* A square of cells and one beside it.
MCCells == {<<0, 0, 0>>, <<1, 0, 0>>, <<2, 0, 0>>, <<0, 1, 0>>, <<1, 1, 0>>}
MCWorlds == [MCCells -> {"air", "hull", "core", "helm", "engine", "unloaded"}]
MCStarts == {<<0, 0, 0>>}
=============================================================================
