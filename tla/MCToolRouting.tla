--------------------------- MODULE MCToolRouting ----------------------------
(* Small instances of ToolRouting for TLC.                                   *)
EXTENDS ToolRouting

CONSTANTS r1, r2, w1, w2
=============================================================================
