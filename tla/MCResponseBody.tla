--------------------------- MODULE MCResponseBody ---------------------------
(* Small instances of ResponseBody for TLC.                                  *)
EXTENDS ResponseBody

ReadSizes == {1, 2, 3, Everything}
=============================================================================
