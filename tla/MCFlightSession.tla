-------------------------- MODULE MCFlightSession --------------------------
(* One player, a ship of three blocks, and two cells beside it. *)
EXTENDS FlightSession

CONSTANTS p1

MCPlayers == {p1}
MCCells == {<<x, 0, 0>> : x \in 0..3} \cup {<<1, 1, 0>>}
MCInitialBlocks == [c \in MCCells |->
  CASE c = <<0, 0, 0>> -> "core"
    [] c = <<1, 0, 0>> -> "helm"
    [] c = <<2, 0, 0>> -> "engine"
    [] OTHER -> "air"]
MCEditKinds == {"air", "hull", "core", "unloaded"}
=============================================================================
