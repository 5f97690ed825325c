---------------------------- MODULE MCToolQueue -----------------------------
(* Small instances of ToolQueue for TLC.                                     *)
EXTENDS ToolQueue

CONSTANTS r1, r2, w1, w2
=============================================================================
