--------------------------- MODULE MCOriginBridge ---------------------------
(* Instances of OriginBridge for TLC. *)
EXTENDS OriginBridge, TLC

CallSymmetry == Permutations(Calls)
============================================================================
