------------------------- MODULE MemoryCacheProofs --------------------------
(***************************************************************************)
(* Proofs about MemoryCache, for any callers, faults in any number, and    *)
(* streams of any length.                                                  *)
(***************************************************************************)
EXTENDS MemoryCache, TLAPS

UnderWay == [op : Operations, at : Waits, pos : Prefix, mark : Prefix]
Known == UnderWay \cup {Idle, Dead}

\* An actor that waits for something has a call under way.
LEMMA Waiting ==
    ASSUME TypeOK, NEW a \in Actors, call[a].at \in Waits
    PROVE  /\ call[a] \in UnderWay
           /\ call[a].op \in Operations
           /\ call[a].pos \in Prefix
           /\ call[a].mark \in Prefix
<1>1. call[a] \in Known
  BY DEF TypeOK, Known, UnderWay
<1>2. call[a] # Idle /\ call[a] # Dead
  BY DEF Idle, Dead, Waits
<1> QED
  BY <1>1, <1>2 DEF Known, UnderWay

\* What a call may do next: actor a waits at place with position p, the others stay.
To(a, place, p) ==
    /\ call' \in [Actors -> Known]
    /\ call'[a] \in UnderWay
    /\ call'[a].at = place
    /\ call'[a].pos = p
    /\ call'[a].mark = 0 \/ (call[a] \in UnderWay /\ call'[a].mark = call[a].mark)
    /\ \A b \in Actors \ {a} : call'[b] = call[b]

\* The end of a call, or of the warmer.
Over(a) ==
    /\ call' \in [Actors -> Known]
    /\ call'[a] \in {Idle, Dead}
    /\ \A b \in Actors \ {a} : call'[b] = call[b]

LEMMA Moves ==
    ASSUME TypeOK, NEW a \in Actors, call[a].at \in Waits, NEW place \in Waits
    PROVE  /\ \A p \in Prefix : Goes(a, place, p) => To(a, place, p)
           /\ Goto(a, place) => To(a, place, call[a].pos)
<1>1. call \in [Actors -> Known] /\ call[a] \in UnderWay
  BY Waiting DEF TypeOK, Known, UnderWay
<1>2. ASSUME NEW p \in Prefix, Goes(a, place, p)
      PROVE  To(a, place, p)
  <2> DEFINE new == [[call[a] EXCEPT !.at = place] EXCEPT !.pos = p]
  <2>1. new \in UnderWay /\ new.at = place /\ new.pos = p /\ new.mark = call[a].mark
    BY <1>1 DEF UnderWay
  <2>2. call' = [call EXCEPT ![a] = new]
    BY <1>1, <1>2 DEF Goes
  <2> HIDE DEF new
  <2> QED
    BY <1>1, <2>1, <2>2 DEF To, Known
<1>3. ASSUME Goto(a, place)
      PROVE  To(a, place, call[a].pos)
  <2> DEFINE new == [call[a] EXCEPT !.at = place]
  <2>1. new \in UnderWay /\ new.at = place /\ new.pos = call[a].pos /\ new.mark = call[a].mark
    BY <1>1 DEF UnderWay
  <2>2. call' = [call EXCEPT ![a] = new]
    BY <1>1, <1>3 DEF Goto
  <2> HIDE DEF new
  <2> QED
    BY <1>1, <2>1, <2>2 DEF To, Known
<1> QED
  BY <1>2, <1>3

LEMMA Endings ==
    ASSUME TypeOK, NEW a \in Actors, Ends(a)
    PROVE  Over(a)
BY DEF TypeOK, Ends, Over, Known, UnderWay

LEMMA Beginnings ==
    ASSUME TypeOK, NEW a \in Actors, NEW operation \in Operations, NEW place \in Waits,
           Begins(a, operation, place)
    PROVE  To(a, place, 0)
<1> DEFINE new == [op |-> operation, at |-> place, pos |-> 0, mark |-> 0]
<1>1. new \in UnderWay /\ new.at = place /\ new.pos = 0 /\ new.mark = 0
  BY MemoryAssumption DEF UnderWay, Prefix
<1>2. call' = [call EXCEPT ![a] = new] /\ call \in [Actors -> Known]
  BY DEF Begins, TypeOK, Known, UnderWay
<1> HIDE DEF new
<1> QED
  BY <1>1, <1>2 DEF To, Known

\* Calls stay typed.
LEMMA CallsTyped ==
    ASSUME TypeOK,
           \/ UNCHANGED call
           \/ \E a \in Actors, place \in Waits, p \in Prefix : To(a, place, p)
           \/ \E a \in Actors : Over(a)
    PROVE  call' \in [Actors -> UnderWay \cup {Idle, Dead}]
BY DEF TypeOK, To, Over, Known, UnderWay

-----------------------------------------------------------------------------
\* What the steps of a call do to length, keys and the call itself.

Same == UNCHANGED <<length, cache, cursor, late>>

\* The call goes on, from position 0, its own or one that is known.
Proceeds(a) ==
    \E place \in Waits \ {"latest", "stamp"}, p \in Prefix :
        /\ To(a, place, p)
        /\ p <= length
        /\ Same

Ended(a) == Over(a) /\ Same

Grows(a) ==
    /\ length' \in {length, length + 1} \cap Prefix
    /\ UNCHANGED <<cache, cursor, late>>
    /\ \/ Over(a)
       \/ \E place \in Waits \ {"latest", "stamp"}, p \in Prefix : To(a, place, p) /\ p <= length'

\* The fold is written; a refresh goes on to the cursor.
Writes(a) ==
    /\ call[a] \in UnderWay
    /\ Written(a)
    /\ UNCHANGED <<length, cursor>>
    /\ Over(a) \/ To(a, "latest", call[a].pos)

Looks(a) ==
    /\ At(a, "latest")
    /\ call' \in [Actors -> Known]
    /\ call'[a] \in UnderWay
    /\ call'[a].at = "stamp"
    /\ call'[a].pos = call[a].pos
    /\ call'[a].mark = length
    /\ \A b \in Actors \ {a} : call'[b] = call[b]
    /\ Same

Stamps(a) ==
    /\ At(a, "stamp")
    /\ Stamped(a)
    /\ Over(a)
    /\ UNCHANGED <<length, cache>>

Clears(a) ==
    /\ cache' \in {cache, None}
    /\ cursor' \in {cursor, None}
    /\ UNCHANGED <<length, late>>
    /\ Over(a) \/ To(a, "unstamp", call[a].pos)
    /\ call[a] \in UnderWay

CallStep(a) ==
    Proceeds(a) \/ Ended(a) \/ Grows(a) \/ Writes(a) \/ Looks(a) \/ Stamps(a) \/ Clears(a)

\* Steps of no single call: keys expire, the process restarts, requests come and go.
Elsewhere ==
    /\ cache' \in {cache, None}
    /\ cursor' \in {cursor, None}
    /\ UNCHANGED <<length, late>>
    /\ \/ UNCHANGED call
       \/ call' \in [Actors -> Known] /\ \A a \in Actors : call'[a] \in {call[a], Idle}

\* No cursor and no position is ahead of the stream.
PositionsExist ==
    /\ cache <= length
    /\ cursor <= length
    /\ \A a \in Actors : call[a] \in UnderWay =>
          call[a].pos <= length /\ call[a].mark <= length

\* A caller begins a call.
LEMMA CallingSteps ==
    ASSUME TypeOK, PositionsExist, NEW a \in Callers, Calling(a)
    PROVE  Proceeds(a)
<1>1. /\ a \in Actors
      /\ Operations = {"emit", "start", "read", "project", "invalidate", "refresh"}
      /\ {"append", "get", "fold", "delete"} \subseteq Waits \ {"latest", "stamp"}
      /\ 0 \in Prefix /\ 0 <= length
  BY MemoryAssumption DEF Actors, Operations, Waits, Prefix, TypeOK
<1>2. ASSUME NEW operation \in Operations, NEW place \in Waits \ {"latest", "stamp"},
             Call(a, operation, place)
      PROVE  Proceeds(a)
  <2>1. To(a, place, 0)
    BY <1>1, <1>2, Beginnings DEF Call
  <2>2. Same
    BY <1>2 DEF Call, Same, keys
  <2> QED
    BY <1>1, <2>1, <2>2 DEF Proceeds
<1> QED
  BY <1>1, <1>2 DEF Calling, Start, Emit, Read, Project, Invalidate

\* The steps that fold or look things up.
LEMMA LookupSteps ==
    ASSUME TypeOK, PositionsExist, NEW a \in Actors,
           Get(a) \/ Anchor(a) \/ Delta(a) \/ Decode(a) \/ Fold(a)
    PROVE  CallStep(a)
<1>1. call[a].at \in Waits
  BY DEF Get, Anchor, Delta, Decode, Fold, At, Waits
<1>2. /\ call[a] \in UnderWay
      /\ call[a].pos \in Prefix
      /\ call[a].pos <= length
      /\ length \in Prefix
  BY <1>1, Waiting DEF PositionsExist, TypeOK
<1>3. 0 \in Prefix /\ 0 <= length
  BY <1>2, MemoryAssumption DEF Prefix
<1>4. cursor # None => cursor \in Prefix /\ cursor <= length
  BY DEF TypeOK, PositionsExist
<1>5. {"get", "delta", "decode", "fold", "put"} \subseteq Waits \ {"latest", "stamp"}
  BY DEF Waits
<1>6. Same
  BY DEF Get, Anchor, Delta, Decode, Fold, Same, keys
<1>7. ASSUME NEW place \in Waits \ {"latest", "stamp"}, NEW p \in Prefix, p <= length,
             Goes(a, place, p)
      PROVE  CallStep(a)
  BY <1>1, <1>6, <1>7, Moves DEF CallStep, Proceeds
<1>8. ASSUME NEW place \in Waits \ {"latest", "stamp"}, Goto(a, place)
      PROVE  CallStep(a)
  BY <1>1, <1>2, <1>6, <1>8, Moves DEF CallStep, Proceeds
<1>9. Ends(a) => CallStep(a)
  BY <1>6, Endings DEF CallStep, Ended
<1>10. Get(a) => CallStep(a)
  BY <1>5, <1>8, <1>9 DEF Get
<1>11. Anchor(a) => CallStep(a)
  BY <1>4, <1>5, <1>7, <1>8 DEF Anchor
<1>12. Delta(a) => CallStep(a)
  BY <1>5, <1>8, <1>9 DEF Delta
<1>13. Decode(a) => CallStep(a)
  BY <1>3, <1>5, <1>7 DEF Decode
<1>14. Fold(a) => CallStep(a)
  <2>1. length <= length
    BY <1>2 DEF Prefix
  <2> QED
    BY <1>2, <1>5, <1>7, <1>9, <2>1 DEF Fold
<1> QED
  BY <1>10, <1>11, <1>12, <1>13, <1>14

\* The steps that append.
LEMMA AppendSteps ==
    ASSUME TypeOK, PositionsExist, NEW a \in Actors, Append(a) \/ AppendFails(a)
    PROVE  CallStep(a)
<1>1. call[a].at \in Waits /\ {"put", "fold"} \subseteq Waits \ {"latest", "stamp"}
  BY DEF Append, AppendFails, At, Waits
<1>2. /\ call[a] \in UnderWay
      /\ call[a].pos \in Prefix
      /\ call[a].pos <= length
      /\ length \in Prefix
  BY <1>1, Waiting DEF PositionsExist, TypeOK
<1>3. length \in Nat /\ MaxEvents \in Nat \ {0} /\ Prefix = 0 .. MaxEvents
  BY <1>2, MemoryAssumption DEF Prefix
<1>4. Appended(a) \in {length, length + 1} /\ (call[a].op = "start" => Appended(a) >= 1)
  BY <1>3 DEF Appended
<1>5. CASE Append(a)
  <2>1. length' = Appended(a) /\ length' \in Prefix /\ length <= length'
    BY <1>3, <1>4, <1>5 DEF Append
  <2>2. UNCHANGED <<cache, cursor, late>>
    BY <1>5 DEF Append, keys
  <2>3. CASE call[a].op = "start"
    <3>1. 1 \in Prefix /\ 1 <= length'
      BY <1>3, <1>4, <2>1, <2>3
    <3>2. To(a, "put", 1)
      BY <1>1, <1>5, <2>3, <3>1, Moves DEF Append
    <3> QED
      BY <1>1, <1>4, <2>1, <2>2, <3>1, <3>2 DEF CallStep, Grows
  <2>4. CASE call[a].op # "start"
    <3>1. To(a, "fold", call[a].pos)
      BY <1>1, <1>5, <2>4, Moves DEF Append
    <3>2. call[a].pos <= length'
      BY <1>2, <1>3, <2>1
    <3> QED
      BY <1>1, <1>2, <1>4, <2>1, <2>2, <3>1, <3>2 DEF CallStep, Grows
  <2> QED
    BY <2>3, <2>4
<1>6. CASE AppendFails(a)
  <2>1. Over(a)
    BY <1>6, Endings DEF AppendFails
  <2>2. UNCHANGED <<cache, cursor, late>>
    BY <1>6 DEF AppendFails, keys
  <2>3. length' \in {length, length + 1} \cap Prefix
    BY <1>4, <1>6 DEF AppendFails
  <2> QED
    BY <2>1, <2>2, <2>3 DEF CallStep, Grows
<1> QED
  BY <1>5, <1>6

\* The steps that write a key, or find out what to write.
LEMMA WriteSteps ==
    ASSUME TypeOK, PositionsExist, NEW a \in Actors,
           Put(a) \/ Latest(a) \/ Stamp(a) \/ Delete(a) \/ Unstamp(a)
    PROVE  CallStep(a)
<1>1. call[a].at \in Waits /\ {"latest", "stamp", "unstamp"} \subseteq Waits
  BY DEF Put, Latest, Stamp, Delete, Unstamp, At, Waits
<1>2. call[a] \in UnderWay /\ call[a].pos \in Prefix /\ length \in Prefix
  BY <1>1, Waiting DEF TypeOK
<1>3. ASSUME NEW place \in Waits, NEW p \in Prefix, Goes(a, place, p)
      PROVE  To(a, place, p)
  BY <1>1, <1>3, Moves
<1>4. ASSUME NEW place \in Waits, Goto(a, place)
      PROVE  To(a, place, call[a].pos)
  BY <1>1, <1>4, Moves
<1>5. Ends(a) => Over(a)
  BY Endings
<1>6. Put(a) => Writes(a)
  BY <1>1, <1>2, <1>4, <1>5 DEF Put, Writes
<1>7. ASSUME Latest(a) PROVE Looks(a)
  <2> DEFINE new == [[call[a] EXCEPT !.at = "stamp"] EXCEPT !.mark = length]
  <2>1. new \in UnderWay /\ new.at = "stamp" /\ new.pos = call[a].pos /\ new.mark = length
    BY <1>1, <1>2 DEF UnderWay
  <2>2. call \in [Actors -> Known]
    BY DEF TypeOK, Known, UnderWay
  <2>3. call' = [call EXCEPT ![a] = new]
    BY <1>7, <2>2 DEF Latest
  <2>4. At(a, "latest") /\ Same
    BY <1>7 DEF Latest, Same, keys
  <2> HIDE DEF new
  <2> QED
    BY <2>1, <2>2, <2>3, <2>4 DEF Looks, Known
<1>8. Stamp(a) => Stamps(a)
  BY <1>5 DEF Stamp, Stamps
<1>9. Delete(a) => Clears(a)
  BY <1>1, <1>2, <1>4 DEF Delete, Clears
<1>10. Unstamp(a) => Clears(a)
  BY <1>2, <1>5 DEF Unstamp, Clears
<1> QED
  BY <1>6, <1>7, <1>8, <1>9, <1>10 DEF CallStep

\* Errors and cancellation.
LEMMA FaultSteps ==
    ASSUME TypeOK, PositionsExist, NEW a \in Actors,
           StorageFails(a) \/ ReadFails(a) \/ LatestFails(a) \/ Cancel(a)
    PROVE  CallStep(a)
<1>1. Ends(a) => Over(a)
  BY Endings
<1>2. CASE StorageFails(a)
  <2>1. call[a].at \in Waits
    BY <1>2 DEF StorageFails, Waits
  <2>2. call[a] \in UnderWay
    BY <2>1, Waiting
  <2>3. Over(a) /\ UNCHANGED length
    BY <1>1, <1>2 DEF StorageFails
  <2>4. CASE UNCHANGED <<keys, late>>
    BY <2>3, <2>4 DEF CallStep, Ended, Same, keys
  <2>5. CASE At(a, "put") /\ Written(a) /\ UNCHANGED cursor
    BY <2>2, <2>3, <2>5 DEF CallStep, Writes
  <2>6. CASE At(a, "stamp") /\ Stamped(a) /\ UNCHANGED cache
    BY <2>3, <2>6 DEF CallStep, Stamps
  <2> QED
    BY <1>2, <2>4, <2>5, <2>6 DEF StorageFails
<1>3. CASE ReadFails(a)
  <2>1. Over(a)
    BY <1>3 DEF ReadFails, Over, TypeOK, Known, UnderWay
  <2> QED
    BY <1>3, <2>1 DEF CallStep, Ended, Same, ReadFails, keys
<1>4. CASE LatestFails(a) \/ Cancel(a)
  BY <1>1, <1>4 DEF CallStep, Ended, Same, LatestFails, Cancel, keys
<1> QED
  BY <1>2, <1>3, <1>4

\* Every step is a step of one call, or none of a call's.
LEMMA EveryStep ==
    ASSUME TypeOK, PositionsExist, [Next]_vars
    PROVE  (\E a \in Actors : CallStep(a)) \/ Elsewhere
<1>1. ASSUME NEW a \in Callers, Calling(a) \/ Cancel(a)
      PROVE  a \in Actors /\ CallStep(a)
  BY <1>1, CallingSteps, FaultSteps DEF Actors, CallStep
<1>2. ASSUME NEW a \in Actors, Step(a) \/ Fails(a)
      PROVE  CallStep(a)
  BY <1>2, AppendSteps, LookupSteps, WriteSteps, FaultSteps DEF Step, Fails
<1>3. ASSUME NEW gone \in SUBSET Callers, Restart(gone)
      PROVE  Elsewhere
  <2>1. call' \in [Actors -> Known] /\ \A a \in Actors : call'[a] \in {call[a], Idle}
    BY <1>3 DEF Restart, TypeOK, Known, UnderWay
  <2> QED
    BY <1>3, <2>1 DEF Elsewhere, Restart, keys
<1>4. Expire => Elsewhere
  BY DEF Expire, Elsewhere
<1>5. Consolidate \/ Drain => Elsewhere
  BY DEF Consolidate, Drain, Elsewhere, keys
<1>6. ASSUME NextRequest
      PROVE  CallStep(Warmer) /\ Warmer \in Actors
  <2>1. /\ Warmer \in Actors /\ "refresh" \in Operations
        /\ "anchor" \in Waits \ {"latest", "stamp"}
        /\ 0 \in Prefix /\ 0 <= length
    BY MemoryAssumption DEF Actors, Operations, Waits, Prefix, TypeOK
  <2>2. To(Warmer, "anchor", 0)
    BY <1>6, <2>1, Beginnings DEF NextRequest
  <2> QED
    BY <1>6, <2>1, <2>2 DEF NextRequest, CallStep, Proceeds, Same, keys
<1>7. UNCHANGED vars => Elsewhere
  BY DEF vars, keys, Elsewhere
<1> QED
  BY <1>1, <1>2, <1>3, <1>4, <1>5, <1>6, <1>7 DEF Next, Pump

-----------------------------------------------------------------------------
\* Type correctness.

\* The variables that a call's steps leave to requests and faults.
LEMMA RequestsTyped ==
    ASSUME TypeOK, [Next]_vars
    PROVE  /\ bus' \in Nat /\ batch' \in Nat /\ seen' \in Prefix
           /\ lost' \in Prefix
           /\ faults' \in 0 .. MaxFaults
<1>1. \A kind : Fault(kind) => faults' \in 0 .. MaxFaults
  BY MemoryAssumption DEF Fault, TypeOK
<1>2. \A a : GivesUp(a) => lost' \in Prefix
  BY DEF GivesUp, TypeOK
<1>3. 0 \in Prefix /\ \A view \in seen + 1 .. length : view \in Prefix
  BY MemoryAssumption DEF Prefix, TypeOK
<1>4. ASSUME NEW a \in Callers, Calling(a)
      PROVE  UNCHANGED <<requests, lost, faults>>
  BY <1>4 DEF Calling, Start, Emit, Read, Project, Invalidate, Call
<1>5. ASSUME NEW a \in Actors, Step(a)
      PROVE  UNCHANGED <<requests, lost, faults>>
  BY <1>5 DEF Step, Append, Get, Anchor, Delta, Decode, Fold, Put, Latest, Stamp, Delete, Unstamp
<1>6. ASSUME NEW a \in Actors, Fails(a) \/ Cancel(a)
      PROVE  UNCHANGED requests /\ lost' \in Prefix /\ faults' \in 0 .. MaxFaults
  BY <1>1, <1>2, <1>6
     DEF Fails, AppendFails, StorageFails, ReadFails, LatestFails, Cancel, TypeOK
<1>7. ASSUME NEW gone \in SUBSET Callers, Restart(gone)
      PROVE  /\ bus' = 0 /\ batch' = 0 /\ seen' = 0 /\ lost' = lost
             /\ faults' \in 0 .. MaxFaults
  BY <1>1, <1>7 DEF Restart
<1>8. Expire => UNCHANGED <<requests, lost>> /\ faults' \in 0 .. MaxFaults
  BY <1>1 DEF Expire
<1>9. Consolidate => /\ bus' \in Nat /\ batch' = batch /\ seen' \in Prefix
                     /\ UNCHANGED <<lost, faults>>
  BY <1>3 DEF Consolidate, TypeOK
<1>10. Pump => bus' \in Nat /\ batch' \in Nat /\ UNCHANGED <<seen, lost, faults>>
  BY DEF Pump, Drain, NextRequest, TypeOK
<1>11. UNCHANGED <<requests, lost, faults>> =>
          /\ bus' \in Nat /\ batch' \in Nat /\ seen' \in Prefix
          /\ lost' \in Prefix /\ faults' \in 0 .. MaxFaults
  BY DEF requests, TypeOK
<1>12. UNCHANGED requests => bus' \in Nat /\ batch' \in Nat /\ seen' \in Prefix
  BY DEF requests, TypeOK
<1>13. lost \in Prefix /\ faults \in 0 .. MaxFaults /\ seen \in Prefix /\ batch \in Nat
  BY DEF TypeOK
<1>14. UNCHANGED vars => UNCHANGED <<requests, lost, faults>>
  BY DEF vars
<1>15. \A a \in Callers : a \in Actors
  BY DEF Actors
<1> QED
  BY <1>3, <1>4, <1>5, <1>6, <1>7, <1>8, <1>9, <1>10, <1>11, <1>12, <1>13, <1>14, <1>15 DEF Next

\* Keys, stream and calls.
LEMMA StateTyped ==
    ASSUME TypeOK, (\E a \in Actors : CallStep(a)) \/ Elsewhere
    PROVE  /\ length' \in Prefix /\ late' \subseteq StaleCache \cup StaleCursor
           /\ cache' \in Prefix \cup {None} /\ cursor' \in Prefix \cup {None}
           /\ call' \in [Actors -> UnderWay \cup {Idle, Dead}]
<1>1. /\ length \in Prefix /\ late \subseteq StaleCache \cup StaleCursor
      /\ cache \in Prefix \cup {None} /\ cursor \in Prefix \cup {None}
  BY DEF TypeOK
<1>2. ASSUME NEW a \in Actors, CallStep(a)
      PROVE  /\ length' \in Prefix /\ late' \subseteq StaleCache \cup StaleCursor
             /\ cache' \in Prefix \cup {None} /\ cursor' \in Prefix \cup {None}
             /\ call' \in [Actors -> UnderWay \cup {Idle, Dead}]
  <2>1. call[a].at \in Waits => call[a].pos \in Prefix /\ call[a].mark \in Prefix
    BY Waiting
  <2>2. call[a] \in UnderWay => call[a].pos \in Prefix
    BY DEF UnderWay
  <2>3. call' \in [Actors -> UnderWay \cup {Idle, Dead}]
    <3>1. Over(a) \/ \E place, p : To(a, place, p)
      \/ call' \in [Actors -> Known]
      BY <1>2 DEF CallStep, Proceeds, Ended, Grows, Writes, Looks, Stamps, Clears
    <3> QED
      BY <3>1 DEF Over, To, Known
  <2>4. CASE Proceeds(a) \/ Ended(a) \/ Grows(a) \/ Clears(a)
    BY <1>1, <2>3, <2>4 DEF Proceeds, Ended, Grows, Clears, Same
  <2>5. CASE Writes(a) \/ Looks(a)
    BY <1>1, <2>2, <2>3, <2>5 DEF Writes, Looks, Same, Written, StaleCache
  <2>6. CASE Stamps(a)
    BY <1>1, <2>1, <2>3, <2>6 DEF Stamps, Stamped, At, Waits
  <2> QED
    BY <1>2, <2>4, <2>5, <2>6 DEF CallStep
<1>3. ASSUME Elsewhere
      PROVE  /\ length' \in Prefix /\ late' \subseteq StaleCache \cup StaleCursor
             /\ cache' \in Prefix \cup {None} /\ cursor' \in Prefix \cup {None}
             /\ call' \in [Actors -> UnderWay \cup {Idle, Dead}]
  BY <1>1, <1>3 DEF Elsewhere, TypeOK, Known, UnderWay
<1> QED
  BY <1>2, <1>3

LEMMA TypeInit == Init => TypeOK
BY MemoryAssumption DEF Init, TypeOK, Prefix

-----------------------------------------------------------------------------
\* The cursor.

\* What a refresh has folded is cached until its cursor is stamped, unless nothing is cached,
\* or a fold that the stream had outgrown came on top.
Covered ==
    \A a \in Actors :
        call[a].at \in {"latest", "stamp"} =>
            cache = None \/ call[a].pos <= cache \/ late \cap StaleCache # {}

CursorInv == TypeOK /\ PositionsExist /\ CursorOfFold /\ Covered

\* The numbers of a typed state.
LEMMA Numbers ==
    ASSUME TypeOK, PositionsExist
    PROVE  /\ length \in Nat
           /\ cache \in Nat \cup {-1} /\ cursor \in Nat \cup {-1}
           /\ None = -1
           /\ \A a \in Actors : call[a] \in UnderWay =>
                /\ call[a].pos \in Nat /\ call[a].pos <= length
                /\ call[a].mark \in Nat /\ call[a].mark <= length
           /\ \A a \in Actors : call[a].at \in Waits => call[a] \in UnderWay
BY Waiting, MemoryAssumption DEF TypeOK, PositionsExist, UnderWay, Prefix, None

\* A position stays within the stream, which never shrinks.
LEMMA PositionsStep ==
    ASSUME TypeOK, PositionsExist, (\E a \in Actors : CallStep(a)) \/ Elsewhere
    PROVE  PositionsExist'
<1>0. /\ Idle \notin UnderWay /\ Dead \notin UnderWay
      /\ \A b \in Actors : call[b] \in UnderWay =>
            /\ call[b].pos \in Nat /\ call[b].pos <= length
            /\ call[b].mark \in Nat /\ call[b].mark <= length
      /\ length \in Nat /\ cache \in Nat \cup {-1} /\ cursor \in Nat \cup {-1}
      /\ None = -1
  BY Numbers DEF Idle, Dead, UnderWay
<1>1. ASSUME NEW a \in Actors, CallStep(a)
      PROVE  PositionsExist'
  <2>1. length' \in Nat /\ length <= length'
    BY <1>0, <1>1 DEF CallStep, Proceeds, Ended, Grows, Writes, Looks, Stamps, Clears, Same
  <2>2. cache' <= length' /\ cursor' <= length'
    <3>1. At(a, "stamp") => call[a].mark \in Nat /\ call[a].mark <= length
      BY Numbers DEF At, Waits
    <3>2. cache <= length /\ cursor <= length
      BY DEF PositionsExist
    <3>3. CASE Proceeds(a) \/ Ended(a) \/ Grows(a) \/ Looks(a) \/ Clears(a)
      BY <1>0, <2>1, <3>2, <3>3 DEF Proceeds, Ended, Grows, Looks, Clears, Same
    <3>4. CASE Writes(a)
      BY <1>0, <3>2, <3>4 DEF Writes, Written
    <3>5. CASE Stamps(a)
      BY <3>1, <3>2, <3>5 DEF Stamps, Stamped
    <3> QED
      BY <1>1, <3>3, <3>4, <3>5 DEF CallStep
  <2>3. \A b \in Actors \ {a} : call'[b] = call[b]
    BY <1>1 DEF CallStep, Proceeds, Ended, Grows, Writes, Looks, Stamps, Clears, Over, To
  <2>4. call'[a] \in UnderWay => call'[a].pos <= length' /\ call'[a].mark <= length'
    <3>1. Over(a) => call'[a] \notin UnderWay
      BY <1>0 DEF Over
    <3>2. \A place, p : To(a, place, p) => call'[a].pos = p /\ call'[a].mark <= length'
      BY <1>0, <2>1 DEF To
    <3>3. length <= length /\ length' <= length'
      BY <1>0, <2>1
    <3>4. CASE Proceeds(a) \/ Ended(a) \/ Grows(a)
      BY <3>1, <3>2, <3>4 DEF Proceeds, Ended, Grows, Same
    <3>5. CASE Writes(a) \/ Stamps(a) \/ Clears(a)
      BY <1>0, <3>1, <3>2, <3>3, <3>5 DEF Writes, Stamps, Clears
    <3>6. CASE Looks(a)
      BY <1>0, <3>3, <3>6, Numbers DEF Looks, At, Waits, Same
    <3> QED
      BY <1>1, <3>4, <3>5, <3>6 DEF CallStep
  <2>5. \A b \in Actors : call[b] \in UnderWay =>
            call[b].pos <= length' /\ call[b].mark <= length'
    BY <1>0, <2>1
  <2> QED
    BY <2>2, <2>3, <2>4, <2>5 DEF PositionsExist
<1>2. ASSUME Elsewhere
      PROVE  PositionsExist'
  <2>1. cache' <= length' /\ cursor' <= length'
    BY <1>0, <1>2 DEF Elsewhere, PositionsExist
  <2>2. \A b \in Actors : call'[b] \in {call[b], Idle}
    BY <1>2 DEF Elsewhere
  <2> QED
    BY <1>0, <1>2, <2>1, <2>2 DEF Elsewhere, PositionsExist
<1> QED
  BY <1>1, <1>2

\* Cursor and stamps stay within what is cached, or what is in the keys is late.
LEMMA CursorStep ==
    ASSUME TypeOK, PositionsExist, (\E a \in Actors : CallStep(a)) \/ Elsewhere,
           CursorOfFold, Covered
    PROVE  CursorOfFold' /\ Covered'
<1>0. /\ \A b \in Actors : call[b] \in UnderWay =>
            /\ call[b].pos \in Nat /\ call[b].pos <= length
            /\ call[b].mark \in Nat /\ call[b].mark <= length
      /\ length \in Nat /\ cache \in Nat \cup {-1} /\ cursor \in Nat \cup {-1}
      /\ cursor <= length /\ None = -1
      /\ \A b \in Actors : call[b].at \in {"latest", "stamp"} => call[b] \in UnderWay
  BY Numbers DEF PositionsExist, Waits
<1>1. Idle.at \notin {"latest", "stamp"} /\ Dead.at \notin {"latest", "stamp"}
  BY DEF Idle, Dead
<1>2. ASSUME NEW a \in Actors, CallStep(a)
      PROVE  CursorOfFold' /\ Covered'
  <2>1. \A b \in Actors \ {a} : call'[b] = call[b]
    BY <1>2 DEF CallStep, Proceeds, Ended, Grows, Writes, Looks, Stamps, Clears, Over, To
  <2>2. Over(a) => call'[a].at \notin {"latest", "stamp"}
    BY <1>1 DEF Over
  <2>3. \A place, p : To(a, place, p) => call'[a].at = place /\ call'[a].pos = p
    BY DEF To
  <2>4. CASE Proceeds(a) \/ Ended(a) \/ Grows(a) \/ Clears(a)
    <3>1. call'[a].at \notin {"latest", "stamp"}
      BY <2>2, <2>3, <2>4 DEF Proceeds, Ended, Grows, Clears
    <3>2. cache' \in {cache, None} /\ cursor' \in {cursor, None} /\ late' = late
      BY <2>4 DEF Proceeds, Ended, Grows, Clears, Same
    <3> QED
      BY <2>1, <3>1, <3>2 DEF CursorOfFold, Covered
  <2>5. CASE Writes(a)
    <3>1. cache' = call[a].pos /\ cursor' = cursor /\ call[a] \in UnderWay
      BY <2>5 DEF Writes, Written
    <3>2. call'[a].at \in {"latest", "stamp"} => call'[a].pos = call[a].pos
      BY <2>2, <2>3, <2>5 DEF Writes
    <3>3. CASE call[a].pos = length
      BY <1>0, <2>1, <3>1, <3>2, <3>3 DEF CursorOfFold, Covered
    <3>4. CASE call[a].pos # length
      <4>1. late' \cap StaleCache # {}
        BY <2>5, <3>4 DEF Writes, Written, StaleCache
      <4> QED
        BY <4>1 DEF CursorOfFold, Covered
    <3> QED
      BY <3>3, <3>4
  <2>6. CASE Looks(a)
    <3>1. call'[a].pos = call[a].pos /\ call[a].at = "latest" /\ Same
      BY <2>6 DEF Looks, At
    <3> QED
      BY <2>1, <3>1 DEF Same, CursorOfFold, Covered
  <2>7. CASE Stamps(a)
    <3>1. /\ cursor' = call[a].mark /\ cache' = cache /\ call[a].at = "stamp"
          /\ call[a] \in UnderWay
      BY <1>0, <2>7 DEF Stamps, Stamped, At
    <3>2. late' \cap StaleCache = late \cap StaleCache
      BY <2>7 DEF Stamps, Stamped, StaleCache, StaleCursor
    <3>3. call[a].pos < call[a].mark => late' # {}
      BY <2>7 DEF Stamps, Stamped, StaleCursor
    <3>4. cache = None \/ call[a].pos <= cache \/ late' # {}
      BY <3>1, <3>2 DEF Covered
    <3>5. CursorOfFold'
      BY <1>0, <3>1, <3>3, <3>4 DEF CursorOfFold
    <3>6. Covered'
      BY <2>1, <2>2, <2>7, <3>1, <3>2 DEF Stamps, Covered
    <3> QED
      BY <3>5, <3>6
  <2> QED
    BY <1>2, <2>4, <2>5, <2>6, <2>7 DEF CallStep
<1>3. ASSUME Elsewhere
      PROVE  CursorOfFold' /\ Covered'
  <2>1. cache' \in {cache, None} /\ cursor' \in {cursor, None} /\ late' = late
    BY <1>3 DEF Elsewhere
  <2>2. \A b \in Actors : call'[b] \in {call[b], Idle}
    BY <1>3 DEF Elsewhere
  <2> QED
    BY <1>1, <2>1, <2>2 DEF CursorOfFold, Covered
<1> QED
  BY <1>2, <1>3

LEMMA CursorInit == Init => CursorInv
<1> SUFFICES ASSUME Init PROVE CursorInv
  OBVIOUS
<1>1. TypeOK
  BY TypeInit
<1>2. PositionsExist /\ Covered /\ CursorOfFold
  BY DEF Init, PositionsExist, Covered, CursorOfFold, Idle, UnderWay, None
<1> QED
  BY <1>1, <1>2 DEF CursorInv

LEMMA CursorNext == CursorInv /\ [Next]_vars => CursorInv'
<1> SUFFICES ASSUME CursorInv, [Next]_vars PROVE CursorInv'
  OBVIOUS
<1>1. (\E a \in Actors : CallStep(a)) \/ Elsewhere
  BY EveryStep DEF CursorInv
<1>2. TypeOK'
  BY <1>1, StateTyped, RequestsTyped DEF CursorInv, TypeOK, UnderWay
<1>3. PositionsExist'
  BY <1>1, PositionsStep DEF CursorInv
<1>4. CursorOfFold' /\ Covered'
  BY <1>1, CursorStep DEF CursorInv
<1> QED
  BY <1>2, <1>3, <1>4 DEF CursorInv

\* The caches, cursors, calls and requests of an identity keep their types, for any callers,
\* any faults in any number and any stream: storage errors, cancellations and restarts leave
\* no call half described.
THEOREM MemoryTypeCorrect == Spec => []TypeOK
<1>1. CursorInv => TypeOK
  BY DEF CursorInv
<1> QED
  BY <1>1, CursorInit, CursorNext, PTL DEF Spec

\* The fold cursor claims more than the cache holds only while one of the two keys holds what
\* the stream had outgrown when it was written: failed writes, cancelled calls, invalidation
\* and expiry between the two keys, and any number of concurrent refreshes add no other way.
THEOREM CursorNamesFold == Spec => []CursorOfFold
<1>1. CursorInv => CursorOfFold
  BY DEF CursorInv
<1> QED
  BY <1>1, CursorInit, CursorNext, PTL DEF Spec
=============================================================================
