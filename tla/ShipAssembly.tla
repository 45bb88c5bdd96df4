----------------------------- MODULE ShipAssembly -----------------------------
(***************************************************************************)
(* The two searches that decide what a ship is: scanConnectedBlocks of     *)
(* scripts/ship_scan.js over the world's blocks, and the native            *)
(* ShipAssemblyBuilder::build over a list of candidate blocks.  A step is  *)
(* a round of one of their loops.                                          *)
(***************************************************************************)
EXTENDS ShipScan, SequencesExt

CONSTANTS Worlds, Starts      \* worlds to look at, cells to start from

VARIABLES
  world, start,   \* the blocks, and the core that is selected
  flaw,           \* what is wrong with the builder's list: a mass, or a position twice
  scan, build     \* per search: what waits, what was met, its blocks in order, its status

vars == <<world, start, flaw, scan, build>>

-----------------------------------------------------------------------------

Offsets == << <<1, 0, 0>>, <<-1, 0, 0>>, <<0, 1, 0>>, <<0, -1, 0>>, <<0, 0, 1>>, <<0, 0, -1>> >>
Beside(c, i) == [k \in 1..3 |-> c[k] + Offsets[i][k]]

\* The cells of S beside c, in the order in which both searches look around.
Around(c, S) ==
  LET At(i) == IF Beside(c, i) \in S THEN <<Beside(c, i)>> ELSE <<>>
  IN  At(1) \o At(2) \o At(3) \o At(4) \o At(5) \o At(6)

Count(blocks, kind) == Cardinality({i \in DOMAIN blocks : world[blocks[i]] = kind})

Init ==
  /\ world \in Worlds /\ start \in Starts
  /\ flaw \in {"none", "mass", "duplicate"}
  /\ scan = [queue |-> <<start>>, visited |-> {start}, blocks |-> <<>>,
             unloadedBoundary |-> FALSE,
             status |-> IF world[start] = "core" THEN "running"
                        ELSE "selected_block_is_not_core"]
  /\ build = [pending |-> <<start>>, visited |-> {start}, connected |-> <<>>,
              status |-> "new"]

-----------------------------------------------------------------------------
(***************************************************************************)
(* scanConnectedBlocks.                                                    *)
(***************************************************************************)
\* The verdict of finalize() when no limit was met.
Finalized ==
  IF scan.unloadedBoundary THEN "unloaded_boundary"
  ELSE IF Count(scan.blocks, "core") # 1 THEN "multiple_connected_cores"
  ELSE IF Count(scan.blocks, "helm") = 0 THEN "missing_helm"
  ELSE IF Count(scan.blocks, "engine") = 0 THEN "missing_engine"
  ELSE "ready"

LookAround(c) ==
  LET fresh == Neighbours(c) \ scan.visited
  IN  [scan EXCEPT
         !.queue = Tail(@) \o Around(c, {d \in fresh : Solid(world, d)}),
         !.visited = @ \cup fresh,
         !.blocks = Append(@, c),
         !.unloadedBoundary = @ \/ \E d \in fresh : world[d] = "unloaded"]

ScanNext ==
  /\ scan.status = "running"
  /\ LET c == Head(scan.queue)
     IN  scan' =
           IF scan.queue = <<>> THEN [scan EXCEPT !.status = Finalized]
           ELSE IF Len(scan.blocks) >= MaximumBlockCount
           THEN [scan EXCEPT !.status = "block_limit_exceeded"]
           ELSE IF ~WithinSpan(Range(scan.blocks) \cup {c})
           THEN [scan EXCEPT !.blocks = Append(@, c), !.status = "bounds_limit_exceeded"]
           ELSE LookAround(c)
  /\ UNCHANGED <<world, start, flaw, build>>

-----------------------------------------------------------------------------
(***************************************************************************)
(* ShipAssemblyBuilder::build.  Its candidates are the solid blocks of the *)
(* world; what is wrong with one of them is found before the core is.      *)
(***************************************************************************)
BuildChecks ==
  /\ build.status = "new" /\ scan.status # "running"
  /\ build' = [build EXCEPT !.status =
       CASE flaw = "mass"                       -> "invalid_mass"
         [] flaw = "duplicate"                  -> "duplicate_position"
         [] flaw = "none" /\ ~Solid(world, start) -> "core_not_found"
         [] flaw = "none" /\ Solid(world, start) ->
              IF world[start] = "core" THEN "running" ELSE "selected_block_is_not_core"]
  /\ UNCHANGED <<world, start, flaw, scan>>

\* The verdict over the connected blocks.
BuildVerdict ==
  IF ~WithinSpan(Range(build.connected)) THEN "bounds_limit_exceeded"
  ELSE IF Count(build.connected, "core") # 1 THEN "multiple_connected_cores"
  ELSE IF Count(build.connected, "helm") = 0 THEN "missing_helm"
  ELSE IF Count(build.connected, "engine") = 0 THEN "missing_engine"
  ELSE "ready"

\* Mutant: the block that fills the ship to its limit is one too many.
OverLimitOneEarly(connected) == Len(connected) >= MaximumBlockCount

OverLimit(connected) == Len(connected) > MaximumBlockCount

BuildNext ==
  /\ build.status = "running"
  /\ LET c == Head(build.pending)
         connected == Append(build.connected, c)
         fresh == {d \in Neighbours(c) \ build.visited : Solid(world, d)}
     IN  build' =
           IF build.pending = <<>> THEN [build EXCEPT !.status = BuildVerdict]
           ELSE IF OverLimit(connected)
           THEN [build EXCEPT !.connected = connected, !.status = "block_limit_exceeded"]
           ELSE [build EXCEPT !.pending = Tail(@) \o Around(c, fresh),
                              !.visited = @ \cup fresh,
                              !.connected = connected]
  /\ UNCHANGED <<world, start, flaw, scan>>

Next == ScanNext \/ BuildChecks \/ BuildNext

Spec == Init /\ [][Next]_vars

-----------------------------------------------------------------------------

Limits == {"block_limit_exceeded", "bounds_limit_exceeded"}

(***************************************************************************)
(* scanConnectedBlocks finds what Scan defines, which the sessions of the  *)
(* players are modelled with: it accepts exactly the valid ships, and with *)
(* all of their blocks, each once.                                         *)
(***************************************************************************)
ScanIsItsDefinition ==
  scan.status # "running" =>
    /\ scan.status = "ready" <=> Scan(world, start) # None
    /\ scan.status = "ready" =>
         /\ Range(scan.blocks) = Connected(world, start)
         /\ Len(scan.blocks) = Cardinality(Connected(world, start))

(***************************************************************************)
(* The native builder and the script, which test their limits at different *)
(* points of their loops: over the same loaded blocks they come to the     *)
(* same verdict, up to which of the two limits is named, and accept the    *)
(* same blocks.                                                            *)
(***************************************************************************)
NativeBuilderAgrees ==
  build.status \notin {"new", "running"} /\ flaw = "none" /\ ~scan.unloadedBoundary =>
    /\ build.status \in Limits <=> scan.status \in Limits
    /\ build.status \notin Limits =>
         \/ build.status = scan.status
         \/ build.status = "core_not_found" /\ scan.status = "selected_block_is_not_core"
    /\ build.status = "ready" => Range(build.connected) = Range(scan.blocks)
=============================================================================
