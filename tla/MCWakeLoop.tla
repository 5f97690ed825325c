----------------------------- MODULE MCWakeLoop -----------------------------
(* Small instances of WakeLoop for TLC: agents on a standalone server, or on *)
(* a cluster where each has a hash slot of its own.                          *)
EXTENDS WakeLoop

CONSTANTS a1, a2

Standalone == <<Agents>>
Cluster == <<{a1}, {a2}>>
=============================================================================
