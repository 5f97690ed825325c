---------------------------- MODULE MCDispatcher ----------------------------
(* Small instances of Dispatcher for TLC: the seeds of each agent and what   *)
(* the transition table makes of them.                                       *)
EXTENDS Dispatcher

CONSTANTS a1, a2, s1, s2, s3

\* a1 has two seeds, so that batches of several external events occur; a2 runs beside.
TwoAndOne == [a \in Agents |-> IF a = a1 THEN {s1, s2} ELSE {s3}]

\* One agent runs alone with all of them.
AllToOne == [a \in Agents |-> Seeds]

\* s1 enters a state with an on_entry event: a reaction of two events.
Outcomes ==
    [s \in Seeds |-> CASE s = s1 -> "enters" [] s = s2 -> "rejects" [] s = s3 -> "moves"]
=============================================================================
