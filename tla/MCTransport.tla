---------------------------- MODULE MCTransport ----------------------------
(* The instance of Transport for TLC.  Connections, requests and keys are    *)
(* interchangeable.  No step needs a timeout to be absent, so that requests  *)
(* with all three show every interleaving.                                   *)
EXTENDS Transport, TLC

Symmetry == Permutations(Conns) \cup Permutations(Requests) \cup Permutations(Keys)
AllTimeouts == {{"total", "connect", "read"}}
=============================================================================
