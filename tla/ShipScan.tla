------------------------------- MODULE ShipScan -------------------------------
(***************************************************************************)
(* What a ship is, as scripts/ship_scan.js and                             *)
(* src/physics/ShipAssemblyBuilder decide it: the solid blocks that hang   *)
(* together with a Ship Core, if they are a valid ship.                    *)
(*                                                                         *)
(* Positions are points of a small grid; liquids count as air.             *)
(***************************************************************************)
EXTENDS Integers, FiniteSets

CONSTANTS
  Cells,              \* positions <<x, y, z>> that can hold a block
  MaximumBlockCount,  \* 2048 in the code
  MaximumSpan,        \* 64 in the code
  None

Kinds == {"air", "hull", "core", "helm", "engine", "unloaded"}

ASSUME GridAssumption ==
  /\ Cells \subseteq Int \X Int \X Int
  /\ IsFiniteSet(Cells)
ASSUME NoneAssumption == \A S \in SUBSET Cells : None \notin [S -> Kinds]
ASSUME LimitsAssumption == {MaximumBlockCount, MaximumSpan} \subseteq Nat

Solid(world, c) == world[c] \in {"hull", "core", "helm", "engine"}

Neighbours(c) ==
  {d \in Cells : \E i \in 1..3 : \E s \in {-1, 1} : d = [c EXCEPT ![i] = @ + s]}

\* The cells reached from a core: as many rounds as there are cells suffice.
Connected(world, c) ==
  LET Reached[n \in 0..Cardinality(Cells)] ==
        IF n = 0 THEN {c}
        ELSE LET reached == Reached[n - 1]
             IN reached \cup {d \in UNION {Neighbours(e) : e \in reached} : Solid(world, d)}
  IN Reached[Cardinality(Cells)]

Has(ship, kind) == {c \in DOMAIN ship : ship[c] = kind}

WithinSpan(cells) ==
  \A c, d \in cells : \A i \in 1..3 : c[i] - d[i] < MaximumSpan

\* An invalid ship is only shown, never confirmed.
Scan(world, c) ==
  LET ship == [d \in Connected(world, c) |-> world[d]]
  IN IF /\ world[c] = "core"
        /\ Cardinality(DOMAIN ship) <= MaximumBlockCount
        /\ WithinSpan(DOMAIN ship)
        /\ \A d \in DOMAIN ship : \A e \in Neighbours(d) : world[e] # "unloaded"
        /\ Cardinality(Has(ship, "core")) = 1
        /\ Has(ship, "helm") # {}
        /\ Has(ship, "engine") # {}
     THEN ship ELSE None
=============================================================================
