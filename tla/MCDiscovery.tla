---------------------------- MODULE MCDiscovery -----------------------------
(* Values of the constants of Discovery. *)
EXTENDS Discovery, TLC

CONSTANTS t1, t2, i1, i2

MCThreads == {t1, t2}
MCInstances == {i1, i2}
MCKinds == {"subtick", "slot", "v3"}
MCMaxTime == <<6, 1>>
MCSymmetry == Permutations(MCThreads) \cup Permutations(MCInstances)

-----------------------------------------------------------------------------
(* Around the function at 72: branches to it and past it, a virtual call   *)
(* of slot 0 or 8, and data with up to four tables, two of them alike.     *)

MCRegions == <<
  [start |-> 64, end |-> 92, readable |-> TRUE, executable |-> TRUE],
  [start |-> 92, end |-> 96, readable |-> FALSE, executable |-> FALSE],
  [start |-> 98, end |-> 162, readable |-> TRUE, executable |-> FALSE] >>
Load(t, n, o) == [op |-> "ldr", rt |-> t, rn |-> n, off |-> o]
MCMemories ==
  {[code |-> [a \in {64, 68, 72, 76, 80, 84, 88} |->
      CASE a = 64 -> x
        [] a = 68 -> Load(9, 1, 0)
        [] a = 72 -> y
        [] a = 76 -> Load(8, 9, 8)
        [] a = 80 -> z
        [] a = 84 -> [op |-> "blr", rn |-> 8]
        [] OTHER -> [op |-> "b", imm |-> 12]],
    data |-> [a \in {104, 112, 120, 128, 136, 144, 152} |->
      CASE a = 104 -> p [] a = 112 -> q [] a = 128 -> r
        [] a = 136 -> 72 [] a = 144 -> 80 [] OTHER -> 64]] :
     x \in {[op |-> "bl", imm |-> 2], Load(9, 0, 0)},
     y \in {Load(8, 9, 8), Load(8, 9, 0)},
     z \in {[op |-> "bl", imm |-> 14], [op |-> "br", rn |-> 7]},
     p \in {0, 72, 200}, q \in {64, 72}, r \in {3, 72, 100}}
=============================================================================
