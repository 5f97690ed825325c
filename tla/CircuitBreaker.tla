--------------------------- MODULE CircuitBreaker ---------------------------
(***************************************************************************)
(* A circuit breaker and the calls that pass through it.  The lock bodies  *)
(* hold no await, so each is one step; between the admission of a call and *)
(* its outcome anything may happen.  The counters success_count and        *)
(* call_count, which nothing reads, are left out.                          *)
(***************************************************************************)
EXTENDS Integers, FiniteSets

CONSTANTS
    Calls,             \* calls that may be under way at a time
    FailureThreshold,  \* failure_threshold
    MaxProbes,         \* half_open_max_calls
    Faults,            \* ways other than success in which a call ends
    MaxFaults          \* bound of the model: how many calls end in one of them

ASSUME BreakerAssumption ==
    /\ {FailureThreshold, MaxProbes} \subseteq Nat \ {0}
    /\ IsFiniteSet(Calls)
    /\ Faults \subseteq {"failed", "cancelled", "unexpected"}
    /\ MaxFaults \in Nat

NoCall == -1

VARIABLES
    state,      \* _state
    failures,   \* _failure_count
    inFlight,   \* _half_open_in_flight
    successes,  \* _half_open_successes
    elapsed,    \* recovery_timeout has elapsed since _last_failure_monotonic
    call,       \* call -> the episode it was admitted in, 0 if the breaker was closed
    faults,     \* number of calls that did not succeed
    episode,    \* history: how often the breaker went half-open
    released,   \* history: slots of this episode released by calls that held none
    leaked      \* history: slots of this episode that no call will release

breaker == <<state, failures, inFlight, successes, elapsed>>
vars == <<breaker, call, faults, episode, released, leaked>>

TypeOK ==
    /\ state \in {"closed", "open", "half-open"}
    /\ failures \in Nat
    /\ inFlight \in Int /\ inFlight <= MaxProbes
    /\ successes \in 0 .. MaxProbes - 1
    /\ elapsed \in BOOLEAN
    /\ call \in [Calls -> Nat \cup {NoCall}]
    /\ faults \in 0 .. MaxFaults
    /\ episode \in Nat
    /\ released \in Nat
    /\ leaked \in Nat

Init ==
    /\ state = "closed"
    /\ failures = 0
    /\ inFlight = 0
    /\ successes = 0
    /\ elapsed = TRUE
    /\ call = [c \in Calls |-> NoCall]
    /\ faults = 0
    /\ episode = 0
    /\ released = 0
    /\ leaked = 0

Live == {c \in Calls : call[c] # NoCall}
Probes == {c \in Live : episode > 0 /\ call[c] = episode}

Fault(kind) ==
    /\ kind \in Faults
    /\ faults < MaxFaults
    /\ faults' = faults + 1

-----------------------------------------------------------------------------
\* _admit, from its three states.  A rejected call changes nothing.
AdmitClosed(c) ==
    /\ call[c] = NoCall
    /\ state = "closed"
    /\ call' = [call EXCEPT ![c] = 0]
    /\ UNCHANGED <<breaker, faults, episode, released, leaked>>

\* Mutant of AdmitOpen: the slots of the last episode are not given back.
AdmitOpenKeeps(c) ==
    /\ call[c] = NoCall
    /\ state = "open"
    /\ elapsed
    /\ state' = "half-open"
    /\ inFlight' = inFlight + 1
    /\ successes' = 0
    /\ episode' = episode + 1
    /\ call' = [call EXCEPT ![c] = episode + 1]
    /\ released' = 0
    /\ leaked' = 0
    /\ UNCHANGED <<failures, elapsed, faults>>

AdmitOpen(c) ==
    /\ call[c] = NoCall
    /\ state = "open"
    /\ elapsed
    /\ state' = "half-open"
    /\ inFlight' = 1
    /\ successes' = 0
    /\ episode' = episode + 1
    /\ call' = [call EXCEPT ![c] = episode + 1]
    /\ released' = 0
    /\ leaked' = 0
    /\ UNCHANGED <<failures, elapsed, faults>>

\* Mutant of AdmitHalfOpen: one probe too many.
AdmitHalfOpenMore(c) ==
    /\ call[c] = NoCall
    /\ state = "half-open"
    /\ inFlight <= MaxProbes
    /\ inFlight' = inFlight + 1
    /\ call' = [call EXCEPT ![c] = episode]
    /\ UNCHANGED <<state, failures, successes, elapsed, faults, episode, released, leaked>>

AdmitHalfOpen(c) ==
    /\ call[c] = NoCall
    /\ state = "half-open"
    /\ inFlight < MaxProbes
    /\ inFlight' = inFlight + 1
    /\ call' = [call EXCEPT ![c] = episode]
    /\ UNCHANGED <<state, failures, successes, elapsed, faults, episode, released, leaked>>

Ends(c) == call' = [call EXCEPT ![c] = NoCall]

\* A slot of the half-open breaker goes to the books of the call that gave it back.
Releases(c) == released' = IF c \in Probes THEN released ELSE released + 1

\* _on_success; a call admitted before this episode counts like a probe.
SucceedClosed(c) ==
    /\ c \in Live
    /\ state = "closed"
    /\ failures' = 0
    /\ Ends(c)
    /\ UNCHANGED <<state, inFlight, successes, elapsed, faults, episode, released, leaked>>

\* Mutant of SucceedHalfOpen: one success too many.
SucceedHalfOpenMore(c) ==
    /\ c \in Live
    /\ state = "half-open"
    /\ IF successes >= MaxProbes
       THEN /\ state' = "closed"
            /\ failures' = 0
            /\ inFlight' = 0
            /\ successes' = 0
            /\ elapsed' = TRUE
       ELSE /\ inFlight' = inFlight - 1
            /\ successes' = successes + 1
            /\ UNCHANGED <<state, failures, elapsed>>
    /\ Releases(c)
    /\ Ends(c)
    /\ UNCHANGED <<faults, episode, leaked>>

SucceedHalfOpen(c) ==
    /\ c \in Live
    /\ state = "half-open"
    /\ IF successes + 1 >= MaxProbes
       THEN /\ state' = "closed"
            /\ failures' = 0
            /\ inFlight' = 0
            /\ successes' = 0
            /\ elapsed' = TRUE
       ELSE /\ inFlight' = inFlight - 1
            /\ successes' = successes + 1
            /\ UNCHANGED <<state, failures, elapsed>>
    /\ Releases(c)
    /\ Ends(c)
    /\ UNCHANGED <<faults, episode, leaked>>

SucceedOpen(c) ==
    /\ c \in Live
    /\ state = "open"
    /\ Ends(c)
    /\ UNCHANGED <<breaker, faults, episode, released, leaked>>

\* _on_failure
Fail(c) ==
    /\ c \in Live
    /\ Fault("failed")
    /\ failures' = failures + 1
    /\ elapsed' = FALSE
    /\ \/ /\ state = "half-open"
          /\ state' = "open"
          /\ inFlight' = IF inFlight > 0 THEN inFlight - 1 ELSE inFlight
          /\ successes' = 0
       \/ /\ state = "closed"
          /\ state' = IF failures + 1 >= FailureThreshold THEN "open" ELSE "closed"
          /\ UNCHANGED <<inFlight, successes>>
       \/ /\ state = "open"
          /\ UNCHANGED <<state, inFlight, successes>>
    /\ Ends(c)
    /\ UNCHANGED <<episode, released, leaked>>

\* Mutant of Cancel: the slot is not released.
CancelKeeps(c) ==
    /\ c \in Live
    /\ Fault("cancelled")
    /\ Ends(c)
    /\ UNCHANGED <<breaker, episode, released, leaked>>

\* _on_cancellation
Cancel(c) ==
    /\ c \in Live
    /\ Fault("cancelled")
    /\ IF state = "half-open" /\ inFlight > 0
       THEN inFlight' = inFlight - 1 /\ Releases(c)
       ELSE UNCHANGED <<inFlight, released>>
    /\ Ends(c)
    /\ UNCHANGED <<state, failures, successes, elapsed, episode, leaked>>

\* An exception outside expected_exceptions leaves call() with no handler run.
Unexpected(c) ==
    /\ c \in Live
    /\ Fault("unexpected")
    /\ leaked' = IF c \in Probes THEN leaked + 1 ELSE leaked
    /\ Ends(c)
    /\ UNCHANGED <<breaker, episode, released>>

\* reset(), which does not wait for calls.
Reset ==
    /\ state' = "closed"
    /\ failures' = 0
    /\ inFlight' = 0
    /\ successes' = 0
    /\ elapsed' = TRUE
    /\ UNCHANGED <<call, faults, episode, released, leaked>>

Elapse ==
    /\ ~elapsed
    /\ elapsed' = TRUE
    /\ UNCHANGED <<state, failures, inFlight, successes, call, faults, episode, released, leaked>>

-----------------------------------------------------------------------------
Admit(c) == AdmitClosed(c) \/ AdmitOpen(c) \/ AdmitHalfOpen(c)
Succeed(c) == SucceedClosed(c) \/ SucceedHalfOpen(c) \/ SucceedOpen(c)

Next ==
    \/ \E c \in Calls : Admit(c)
    \/ \E c \in Calls : Succeed(c)
    \/ \E c \in Calls : Fail(c)
    \/ \E c \in Calls : Cancel(c)
    \/ \E c \in Calls : Unexpected(c)
    \/ Reset
    \/ Elapse

Spec == Init /\ [][Next]_vars

\* There are always callers, a call ends, and time passes.
FairSpec ==
    /\ Spec
    /\ WF_vars(\E c \in Calls : Admit(c))
    /\ \A c \in Calls : WF_vars(Succeed(c))
    /\ WF_vars(Elapse)

-----------------------------------------------------------------------------
\* "In HALF_OPEN, only half_open_max_calls concurrent probes are admitted": one more for
\* each slot that a call admitted before this episode gave back, and no others.
ProbesBounded ==
    state = "half-open" => Cardinality(Probes) + leaked <= MaxProbes + released

\* A half-open breaker that admits nothing waits for a probe of this episode: no slot is
\* held by a call that is gone, through cancellations and failures of older calls, unless
\* the exception of a probe was not among the expected ones.
SlotsHeldByProbes ==
    state = "half-open" => inFlight <= Cardinality(Probes) + leaked

\* "Testing recovery": once calls no longer fail the breaker closes and stays closed, unless
\* every slot of an episode was lost to an unexpected exception.
Recovers == <>[](state = "closed" \/ leaked >= MaxProbes)
=============================================================================
