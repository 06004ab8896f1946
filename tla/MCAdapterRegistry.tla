------------------------- MODULE MCAdapterRegistry -------------------------
(***************************************************************************)
(* The registry of native pools on a build without a GIL, for TLC: two      *)
(* threads send through one adapter that keeps one pool (pool_connections). *)
(***************************************************************************)
EXTENDS AdapterRegistry
=============================================================================
