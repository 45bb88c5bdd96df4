------------------------- MODULE MCDescriptorCensus -------------------------
(***************************************************************************)
(* Two threads, two descriptors and two slots: two descriptors fill the    *)
(* table, a descriptor that takes a second slot overflows it.  Four calls  *)
(* let one thread be in a nested call while the other scans.               *)
(***************************************************************************)
EXTENDS DescriptorCensus, TLC

CONSTANTS t1, t2, d1, d2

MCThreads == {t1, t2}
MCDescriptors == {d1, d2}
MCSymmetry == Permutations(MCThreads) \cup Permutations(MCDescriptors)
=============================================================================
