----------------------- MODULE MCClientLevelTickHook -----------------------
(***************************************************************************)
(* Two game threads, so that one can be counted while the other is between *)
(* loading sActive and counting itself; three mprotect failures, so that   *)
(* every call of one session's write, rollback and restore can fail; two   *)
(* sessions, so that an install() meets what the last one left behind.     *)
(***************************************************************************)
EXTENDS ClientLevelTickHook

CONSTANTS t1, t2

MCThreads == {t1, t2}
=============================================================================
