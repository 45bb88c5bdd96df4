--------------------------- MODULE MCModLifecycle ---------------------------
(* The lifecycle of the whole module on a small instance. *)
EXTENDS ModLifecycle
=============================================================================
