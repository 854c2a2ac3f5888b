----------------------------- MODULE MCLifecycle -----------------------------
(* Two sessions of one client and two connections; liveness, so no symmetry. *)
EXTENDS Lifecycle
=============================================================================
