-------------------------- MODULE MCCausalLifecycle --------------------------
(* Bounds of the run of CausalLifecycle: two nodes, two identifiers.          *)
EXTENDS CausalLifecycle
=============================================================================
