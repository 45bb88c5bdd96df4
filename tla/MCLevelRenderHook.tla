------------------------- MODULE MCLevelRenderHook -------------------------
(***************************************************************************)
(* Two threads and three detours let a thread be inside a task and its     *)
(* helper while another renders.                                           *)
(***************************************************************************)
EXTENDS LevelRenderHook

CONSTANTS t1, t2

MCThreads == {t1, t2}
=============================================================================
