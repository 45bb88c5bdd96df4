-------------------------- MODULE MCRenderSnapshot --------------------------
(***************************************************************************)
(* Readers share nothing, so one reader is enough.  Two fields make a torn *)
(* snapshot; four attempts are the code's; four publications let every     *)
(* attempt of one read meet another publication, or the same one.          *)
(***************************************************************************)
EXTENDS RenderSnapshot

CONSTANTS renderThread, position, worldGeneration

MCFields == {position, worldGeneration}
MCReaders == {renderThread}
=============================================================================
