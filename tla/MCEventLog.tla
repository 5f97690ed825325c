----------------------------- MODULE MCEventLog -----------------------------
(* Small instances of EventLog for TLC: which writers append which events,  *)
(* and what may happen to their attempts.                                   *)
EXTENDS EventLog

CONSTANTS w1, w2, e1, e2

\* Every event id has a caller of its own.
OwnCallers == [e \in Events |-> IF e = e1 THEN {w1} ELSE {w2}]

\* Every writer appends every event id.
AllCallers == [e \in Events |-> Writers]

Mild == [e \in Events |-> MildFaults]

\* e1 is appended under mild faults, e2 under all of them.
Mixed == [e \in Events |-> IF e = e1 THEN MildFaults ELSE FaultKinds]

NoFaults == [e \in Events |-> {}]
=============================================================================
