------------------------------ MODULE AtomicLog -----------------------------
(***************************************************************************)
(* What EventLog.append promises its callers: an append-only log in which  *)
(* every event id has at most one entry, and whose Ok is always the        *)
(* position of that one entry.  An append that ends in an Err may or may   *)
(* not have added its event; that is a stuttering step or a Commit here.   *)
(***************************************************************************)
EXTENDS Naturals, Sequences

CONSTANT Events

VARIABLES
    log,       \* the event ids, in log order
    answered   \* event id -> the positions given to its callers

Init ==
    /\ log = <<>>
    /\ answered = [e \in Events |-> {}]

\* The first append of e that takes effect.
Commit(e) ==
    /\ \A i \in DOMAIN log : log[i] # e
    /\ log' = Append(log, e)
    /\ UNCHANGED answered

\* An append of e, the first or a repeated one, is answered.
Answer(e) ==
    /\ \E i \in DOMAIN log :
          /\ log[i] = e
          /\ answered' = [answered EXCEPT ![e] = @ \cup {i}]
    /\ UNCHANGED log

Next == \E e \in Events : Commit(e) \/ Answer(e)

Spec == Init /\ [][Next]_<<log, answered>>
=============================================================================
