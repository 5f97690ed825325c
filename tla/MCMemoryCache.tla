--------------------------- MODULE MCMemoryCache ----------------------------
(* Instance of MemoryCache for TLC. *)
EXTENDS MemoryCache

CONSTANTS c1, c2, warmer
=============================================================================
