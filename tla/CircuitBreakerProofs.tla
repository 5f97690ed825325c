------------------------ MODULE CircuitBreakerProofs ------------------------
(***************************************************************************)
(* Proofs about CircuitBreaker, for any finite set of calls, thresholds    *)
(* and number of faults.                                                   *)
(***************************************************************************)
EXTENDS CircuitBreaker, FiniteSetTheorems, TLAPS

LEMMA TypeInit == Init => TypeOK
BY BreakerAssumption DEF Init, TypeOK, NoCall

LEMMA FaultTyped ==
    ASSUME TypeOK, NEW kind, Fault(kind)
    PROVE  faults' \in 0 .. MaxFaults
BY BreakerAssumption DEF Fault, TypeOK

LEMMA CallTyped ==
    ASSUME TypeOK, NEW c \in Calls, Ends(c)
    PROVE  call' \in [Calls -> Nat \cup {NoCall}]
BY DEF TypeOK, Ends

LEMMA ReleasedTyped ==
    ASSUME TypeOK, NEW c \in Calls, Releases(c)
    PROVE  released' \in Nat
BY DEF TypeOK, Releases

LEMMA TypeStep == TypeOK /\ [Next]_vars => TypeOK'
<1> SUFFICES ASSUME TypeOK, [Next]_vars PROVE TypeOK'
  OBVIOUS
<1> USE BreakerAssumption
<1>1. ASSUME NEW c \in Calls, AdmitClosed(c) PROVE TypeOK'
  BY <1>1 DEF AdmitClosed, TypeOK, breaker
<1>2. ASSUME NEW c \in Calls, AdmitOpen(c) PROVE TypeOK'
  BY <1>2 DEF AdmitOpen, TypeOK
<1>3. ASSUME NEW c \in Calls, AdmitHalfOpen(c) PROVE TypeOK'
  BY <1>3 DEF AdmitHalfOpen, TypeOK
<1>4. ASSUME NEW c \in Calls, SucceedClosed(c) PROVE TypeOK'
  BY <1>4, CallTyped DEF SucceedClosed, TypeOK
<1>5. ASSUME NEW c \in Calls, SucceedHalfOpen(c) PROVE TypeOK'
  <2>1. call' \in [Calls -> Nat \cup {NoCall}] /\ released' \in Nat
    BY <1>5, CallTyped, ReleasedTyped DEF SucceedHalfOpen
  <2>2. CASE successes + 1 >= MaxProbes
    BY <1>5, <2>1, <2>2 DEF SucceedHalfOpen, TypeOK
  <2>3. CASE ~(successes + 1 >= MaxProbes)
    <3>1. successes' \in 0 .. MaxProbes - 1 /\ inFlight' \in Int /\ inFlight' <= MaxProbes
      BY <1>5, <2>3 DEF SucceedHalfOpen, TypeOK
    <3> QED
      BY <1>5, <2>1, <2>3, <3>1 DEF SucceedHalfOpen, TypeOK
  <2> QED
    BY <2>2, <2>3
<1>6. ASSUME NEW c \in Calls, SucceedOpen(c) PROVE TypeOK'
  BY <1>6, CallTyped DEF SucceedOpen, TypeOK, breaker
<1>7. ASSUME NEW c \in Calls, Fail(c) PROVE TypeOK'
  <2>1. call' \in [Calls -> Nat \cup {NoCall}] /\ faults' \in 0 .. MaxFaults
    BY <1>7, CallTyped, FaultTyped DEF Fail
  <2>2. inFlight' \in Int /\ inFlight' <= MaxProbes /\ successes' \in 0 .. MaxProbes - 1
    BY <1>7 DEF Fail, TypeOK
  <2>3. state' \in {"closed", "open", "half-open"}
    BY <1>7 DEF Fail, TypeOK
  <2>4. failures' = failures + 1 /\ failures \in Nat
    BY <1>7 DEF Fail, TypeOK
  <2>5. elapsed' \in BOOLEAN
    BY <1>7, Zenon DEF Fail
  <2>6. episode' \in Nat /\ released' \in Nat /\ leaked' \in Nat
    BY <1>7 DEF Fail, TypeOK
  <2> QED
    BY <2>1, <2>2, <2>3, <2>4, <2>5, <2>6 DEF TypeOK
<1>8. ASSUME NEW c \in Calls, Cancel(c) PROVE TypeOK'
  <2>1. call' \in [Calls -> Nat \cup {NoCall}] /\ faults' \in 0 .. MaxFaults
    BY <1>8, CallTyped, FaultTyped DEF Cancel
  <2>2. released' \in Nat /\ inFlight' \in Int /\ inFlight' <= MaxProbes
    BY <1>8, ReleasedTyped DEF Cancel, TypeOK
  <2> QED
    BY <1>8, <2>1, <2>2 DEF Cancel, TypeOK
<1>9. ASSUME NEW c \in Calls, Unexpected(c) PROVE TypeOK'
  <2>1. call' \in [Calls -> Nat \cup {NoCall}] /\ faults' \in 0 .. MaxFaults
    BY <1>9, CallTyped, FaultTyped DEF Unexpected
  <2> QED
    BY <1>9, <2>1 DEF Unexpected, TypeOK, breaker
<1>10. CASE Reset
  BY <1>10 DEF Reset, TypeOK
<1>11. CASE Elapse
  BY <1>11 DEF Elapse, TypeOK
<1>12. CASE UNCHANGED vars
  BY <1>12 DEF vars, breaker, TypeOK
<1> QED
  BY <1>1, <1>2, <1>3, <1>4, <1>5, <1>6, <1>7, <1>8, <1>9, <1>10, <1>11, <1>12
  DEF Next, Admit, Succeed

\* The counters of the breaker keep their ranges; at most half_open_max_calls slots are held.
THEOREM BreakerTypeCorrect == Spec => []TypeOK
BY TypeInit, TypeStep, PTL DEF Spec

-----------------------------------------------------------------------------
\* The books of an episode: what its probes hold, what leaked, and what calls from before it
\* gave back.  Calls carry the number of an episode that has begun.
Books ==
    /\ \A c \in Calls : call[c] <= episode
    /\ state = "half-open" =>
           /\ episode > 0
           /\ inFlight <= Cardinality(Probes) + leaked
           /\ Cardinality(Probes) + leaked <= inFlight + released

\* The probes are finitely many.
LEMMA ProbesFinite == IsFiniteSet(Probes) /\ Cardinality(Probes) \in Nat
<1>1. Probes \subseteq Calls
  BY DEF Probes, Live
<1> QED
  BY <1>1, BreakerAssumption, FS_Subset, FS_CardinalityType

\* The end of a call takes it from the probes, if it is one.
LEMMA EndOfCall ==
    ASSUME TypeOK, NEW c \in Live, Ends(c), episode' = episode
    PROVE  /\ IsFiniteSet(Probes') /\ Cardinality(Probes') \in Nat
           /\ Cardinality(Probes') = IF c \in Probes THEN Cardinality(Probes) - 1
                                                     ELSE Cardinality(Probes)
<1>1. Probes' = Probes \ {c}
  BY DEF Probes, Live, Ends, TypeOK, NoCall
<1>2. IsFiniteSet(Probes \ {c}) /\ Cardinality(Probes \ {c}) =
          IF c \in Probes THEN Cardinality(Probes) - 1 ELSE Cardinality(Probes)
  BY ProbesFinite, FS_RemoveElement
<1> QED
  BY <1>1, <1>2, FS_CardinalityType

LEMMA BooksInit == Init => Books
BY DEF Init, Books, NoCall

\* The end of a call outside the half-open state, or one that leaves it.
LEMMA BooksEnd ==
    ASSUME TypeOK, Books, NEW c \in Live, Ends(c), episode' = episode, state' # "half-open"
    PROVE  Books'
BY DEF Books, Ends, TypeOK, Live, NoCall

LEMMA BooksStep == TypeOK /\ Books /\ [Next]_vars => Books'
<1> SUFFICES ASSUME TypeOK, Books, [Next]_vars PROVE Books'
  OBVIOUS
<1> USE BreakerAssumption
<1>1. ASSUME NEW c \in Calls, AdmitClosed(c) PROVE Books'
  BY <1>1 DEF AdmitClosed, Books, TypeOK, breaker, NoCall
<1>2. ASSUME NEW c \in Calls, AdmitOpen(c) PROVE Books'
  <2>1. \A d \in Calls : call'[d] <= episode'
    BY <1>2 DEF AdmitOpen, Books, TypeOK, NoCall
  <2>2. Probes' = {c}
    BY <1>2 DEF AdmitOpen, Books, TypeOK, Probes, Live, NoCall
  <2>3. Cardinality(Probes') = 1
    BY <2>2, FS_Singleton
  <2> QED
    BY <1>2, <2>1, <2>3 DEF AdmitOpen, Books, TypeOK
<1>3. ASSUME NEW c \in Calls, AdmitHalfOpen(c) PROVE Books'
  <2>1. \A d \in Calls : call'[d] <= episode'
    BY <1>3 DEF AdmitHalfOpen, Books, TypeOK, NoCall
  <2>2. Probes' = Probes \cup {c} /\ c \notin Probes
    BY <1>3 DEF AdmitHalfOpen, Books, TypeOK, Probes, Live, NoCall
  <2>3. Cardinality(Probes') = Cardinality(Probes) + 1
    BY <2>2, ProbesFinite, FS_AddElement
  <2> QED
    BY <1>3, <2>1, <2>3, ProbesFinite DEF AdmitHalfOpen, Books, TypeOK
<1>4. ASSUME NEW c \in Calls, SucceedClosed(c) PROVE Books'
  BY <1>4, BooksEnd DEF SucceedClosed
<1>5. ASSUME NEW c \in Calls, SucceedHalfOpen(c) PROVE Books'
  <2>1. CASE successes + 1 >= MaxProbes
    BY <1>5, <2>1, BooksEnd DEF SucceedHalfOpen
  <2>2. CASE ~(successes + 1 >= MaxProbes)
    <3>1. \A d \in Calls : call'[d] <= episode'
      BY <1>5 DEF SucceedHalfOpen, Ends, Books, TypeOK, NoCall
    <3>2. /\ inFlight' = inFlight - 1
          /\ released' = IF c \in Probes THEN released ELSE released + 1
      BY <1>5, <2>2 DEF SucceedHalfOpen, Releases
    <3>3. Cardinality(Probes') = IF c \in Probes THEN Cardinality(Probes) - 1
                                                 ELSE Cardinality(Probes)
      BY <1>5, EndOfCall DEF SucceedHalfOpen
    <3> QED
      BY <1>5, <3>1, <3>2, <3>3, ProbesFinite DEF SucceedHalfOpen, Books, TypeOK
  <2> QED
    BY <2>1, <2>2
<1>6. ASSUME NEW c \in Calls, SucceedOpen(c) PROVE Books'
  BY <1>6, BooksEnd DEF SucceedOpen, breaker
<1>7. ASSUME NEW c \in Calls, Fail(c) PROVE Books'
  <2>1. state' # "half-open"
    BY <1>7 DEF Fail
  <2> QED
    BY <1>7, <2>1, BooksEnd DEF Fail
<1>8. ASSUME NEW c \in Calls, Cancel(c) PROVE Books'
  <2>1. \A d \in Calls : call'[d] <= episode'
    BY <1>8 DEF Cancel, Ends, Books, TypeOK, NoCall
  <2>2. /\ Cardinality(Probes') \in Nat
        /\ Cardinality(Probes') = IF c \in Probes THEN Cardinality(Probes) - 1
                                                  ELSE Cardinality(Probes)
    BY <1>8, EndOfCall DEF Cancel
  <2>3. CASE state = "half-open" /\ inFlight > 0
    BY <1>8, <2>1, <2>2, <2>3, ProbesFinite DEF Cancel, Releases, Books, TypeOK
  <2>4. CASE ~(state = "half-open" /\ inFlight > 0)
    BY <1>8, <2>1, <2>2, <2>4, ProbesFinite DEF Cancel, Books, TypeOK
  <2> QED
    BY <2>3, <2>4
<1>9. ASSUME NEW c \in Calls, Unexpected(c) PROVE Books'
  <2>1. \A d \in Calls : call'[d] <= episode'
    BY <1>9 DEF Unexpected, Ends, Books, TypeOK, NoCall
  <2>2. Cardinality(Probes') = IF c \in Probes THEN Cardinality(Probes) - 1
                                               ELSE Cardinality(Probes)
    BY <1>9, EndOfCall DEF Unexpected
  <2> QED
    BY <1>9, <2>1, <2>2, ProbesFinite DEF Unexpected, Books, TypeOK, breaker
<1>10. CASE Reset
  BY <1>10 DEF Reset, Books, TypeOK
<1>11. CASE Elapse
  BY <1>11 DEF Elapse, Books, Probes, Live
<1>12. CASE UNCHANGED vars
  BY <1>12 DEF vars, breaker, Books, Probes, Live
<1> QED
  BY <1>1, <1>2, <1>3, <1>4, <1>5, <1>6, <1>7, <1>8, <1>9, <1>10, <1>11, <1>12
  DEF Next, Admit, Succeed

\* A half-open breaker admits half_open_max_calls probes, and one more for each slot that a
\* call from before the episode gave back.
THEOREM Bounded == Spec => []ProbesBounded
<1>1. TypeOK /\ Books => ProbesBounded
  BY ProbesFinite, BreakerAssumption DEF TypeOK, Books, ProbesBounded
<1> QED
  BY <1>1, TypeInit, TypeStep, BooksInit, BooksStep, PTL DEF Spec

\* No slot of a half-open breaker is held by a call that is gone, but for leaks.
THEOREM SlotsHeld == Spec => []SlotsHeldByProbes
<1>1. Books => SlotsHeldByProbes
  BY DEF Books, SlotsHeldByProbes
<1> QED
  BY <1>1, TypeInit, TypeStep, BooksInit, BooksStep, PTL DEF Spec
=============================================================================
