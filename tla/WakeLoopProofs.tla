--------------------------- MODULE WakeLoopProofs ---------------------------
(***************************************************************************)
(* Proofs about WakeLoop, for any agents, hash slots, filters, faults in   *)
(* any number, and producers that run any distance ahead.                  *)
(***************************************************************************)
EXTENDS WakeLoop, TLAPS

Places == {"idle", "load", "fetch", "save", "save_cursor", "seed"}

-----------------------------------------------------------------------------
\* What the steps of loop and ticks have in common.

\* A fault is counted.
LEMMA Counted ==
    ASSUME TypeOK, NEW kind, Fault(kind)
    PROVE  faults' \in 0 .. MaxFaults /\ faults' # 0
BY WakeAssumption DEF Fault, TypeOK

\* One tick goes on, and takes a position with it.
MovesTo(t, place, p) ==
    /\ pc' = [pc EXCEPT ![t] = place]
    /\ pos' = [pos EXCEPT ![t] = p]

\* Gather starts ticks that were not alive, one for each agent.
LEMMA GatherEffect ==
    ASSUME TypeOK, NEW agents \in SUBSET Agents, Gather(agents)
    PROVE  /\ pc' \in [Ticks -> Places]
           /\ \A t \in Ticks : pc'[t] = IF t \in own' THEN "load" ELSE pc[t]
           /\ own' \subseteq Ticks
           /\ \A a \in agents : <<a, 1>> \in own' \/ <<a, 2>> \in own'
           /\ \A t \in own' : t[1] \in agents /\ ~Alive(t) /\ Alive(t)'
           /\ \A a \in Agents : ~Alive(<<a, 1>>) => <<a, 2>> \notin own'
           /\ raced' \subseteq {t \in Ticks : pc'[t] # "idle"}
           /\ raced' = raced \cup {t \in Ticks : t[1] \in agents /\ Ticking(t[1])}
           /\ loop' = "dispatch" /\ pos' = pos
<1> DEFINE free(a) == IF Alive(<<a, 1>>) THEN <<a, 2>> ELSE <<a, 1>>
           started == {free(a) : a \in agents}
<1>1. /\ \A t \in started : ~Alive(t)
      /\ pc' = [t \in Ticks |-> IF t \in started THEN "load" ELSE pc[t]]
      /\ own' = started
      /\ raced' = raced \cup {t \in Ticks : t[1] \in agents /\ Ticking(t[1])}
      /\ loop' = "dispatch" /\ pos' = pos
  BY DEF Gather
<1>2. started \subseteq Ticks /\ \A t \in started : t[1] \in agents
  <2> SUFFICES ASSUME NEW a \in agents
               PROVE  free(a) \in Ticks /\ free(a)[1] = a
    OBVIOUS
  <2>1. <<a, 1>> \in Ticks /\ <<a, 2>> \in Ticks
    BY DEF Ticks
  <2> QED
    BY <2>1
<1>3. \A a \in agents : <<a, 1>> \in started \/ <<a, 2>> \in started
  OBVIOUS
<1>4. \A a \in Agents : ~Alive(<<a, 1>>) => <<a, 2>> \notin started
  <2> SUFFICES ASSUME NEW a \in Agents, NEW b \in agents, <<a, 2>> = free(b), ~Alive(<<a, 1>>)
               PROVE  FALSE
    OBVIOUS
  <2>1. CASE Alive(<<b, 1>>)
    BY <2>1
  <2>2. CASE ~Alive(<<b, 1>>)
    BY <2>2
  <2> QED
    BY <2>1, <2>2
<1>5. pc' \in [Ticks -> Places]
  BY <1>1 DEF TypeOK, Places
<1>6. \A t \in Ticks : pc'[t] = IF t \in started THEN "load" ELSE pc[t]
  BY <1>1
<1>7. \A t \in started : pc'[t] # "idle"
  BY <1>2, <1>6
<1>8. raced' \subseteq {t \in Ticks : pc'[t] # "idle"}
  <2>1. \A t \in raced : t \in Ticks /\ pc'[t] # "idle"
    BY <1>6 DEF TypeOK
  <2>2. ASSUME NEW t \in Ticks, t[1] \in agents, Ticking(t[1]), pc[t] = "idle"
        PROVE  t \in started
    <3>1. PICK u \in Ticks : u[1] = t[1] /\ Alive(u)
      BY <2>2 DEF Ticking
    <3>2. t = <<t[1], 1>> \/ t = <<t[1], 2>>
      BY DEF Ticks
    <3>3. u = <<t[1], 1>> \/ u = <<t[1], 2>>
      BY <3>1 DEF Ticks
    <3>4. free(t[1]) \in started
      BY <2>2
    <3>5. ~Alive(t)
      BY <2>2 DEF Alive
    <3> HIDE DEF started
    <3> QED
      BY <3>1, <3>2, <3>3, <3>4, <3>5
  <2>3. \A t \in Ticks : t[1] \in agents /\ Ticking(t[1]) => pc'[t] # "idle"
    BY <1>6, <2>2
  <2> QED
    BY <1>1, <2>1, <2>3
<1> HIDE DEF started
<1>9. \A t \in started : ~Alive(t) /\ Alive(t)'
  BY <1>1, <1>2, <1>6 DEF Alive
<1> QED
  BY <1>1, <1>2, <1>3, <1>4, <1>5, <1>6, <1>8, <1>9

-----------------------------------------------------------------------------
\* Type correctness.

LEMMA TypeInit == Init => TypeOK
BY WakeAssumption DEF Init, TypeOK, Nowhere, Lag, None

\* Entries behind a position grow by one, within the bound of the model.
LEMMA OlderTyped ==
    ASSUME NEW lag \in Lag, lag < MaxLag
    PROVE  Older(lag) \in Lag
BY WakeAssumption DEF Older, Lag, None

LEMMA ProduceTyped ==
    ASSUME TypeOK, NEW a \in Agents, Produce(a)
    PROVE  TypeOK'
<1>1. /\ payload[a] < MaxLag /\ cursorKey[a] < MaxLag /\ cursors[a] < MaxLag
      /\ streams[a] < MaxLag /\ pos[<<a, 1>>] < MaxLag /\ pos[<<a, 2>>] < MaxLag
  BY DEF Produce
<1>2. /\ payload' \in [Agents -> Lag] /\ cursorKey' \in [Agents -> Lag]
      /\ cursors' \in [Agents -> Lag] /\ streams' \in [Agents -> Lag]
  BY <1>1, OlderTyped DEF Produce, TypeOK
<1>3. pos' \in [Ticks -> Lag]
  <2>1. ASSUME NEW t \in Ticks, t[1] = a PROVE Older(pos[t]) \in Lag
    <3>1. t = <<a, 1>> \/ t = <<a, 2>>
      BY <2>1 DEF Ticks
    <3> QED
      BY <1>1, <3>1, OlderTyped DEF TypeOK
  <2> QED
    BY <2>1 DEF Produce, TypeOK
<1>4. stream' = stream \cup {a} /\ UNCHANGED <<tracked, loop, reading, pc, own, raced, faults>>
  BY DEF Produce
<1> QED
  BY <1>2, <1>3, <1>4 DEF TypeOK

\* The loop starts a gather.
LEMMA GatherTyped ==
    ASSUME TypeOK, NEW agents \in SUBSET Agents, Gather(agents), UNCHANGED <<stored, reading>>,
           tracked' \subseteq stream, cursors' \in [Agents -> Lag],
           streams' \in [Agents -> Lag], faults' \in 0 .. MaxFaults
    PROVE  TypeOK'
<1>1. \A t \in own' : pc'[t] # "idle"
  BY GatherEffect DEF Alive
<1> QED
  BY <1>1, GatherEffect DEF TypeOK, Places, stored

LEMMA SweepTyped ==
    ASSUME TypeOK, Sweep, faults' \in 0 .. MaxFaults
    PROVE  TypeOK'
<1>1. Nowhere \in [Agents -> Lag]
  BY DEF Nowhere, Lag
<1>2. PICK found \in {tracked, stream} :
        /\ tracked' = found
        /\ Gather(found)
        /\ streams' = Nowhere
        /\ UNCHANGED <<stored, cursors, reading>>
  BY DEF Sweep
<1>3. found \subseteq stream /\ found \in SUBSET Agents
  BY DEF TypeOK
<1> QED
  BY <1>1, <1>2, <1>3, GatherTyped DEF TypeOK

LEMMA LoopTyped ==
    ASSUME TypeOK, Loop \/ Rediscover \/ SubscribeFails
    PROVE  TypeOK'
<1>1. Nowhere \in [Agents -> Lag] /\ 0 \in Lag /\ None \in Lag
  BY WakeAssumption DEF Nowhere, Lag
<1>2. Len(Groups) \in Nat \ {0}
  BY WakeAssumption
<1>3. faults \in 0 .. MaxFaults
  BY DEF TypeOK
<1>4. Rediscover \/ NotYetDue \/ GatherReturns => TypeOK'
  BY DEF Rediscover, NotYetDue, GatherReturns, TypeOK, stored, waiting, ticks
<1>5. SweepUnsubscribed => TypeOK'
  BY <1>3, SweepTyped DEF SweepUnsubscribed
<1>6. ASSUME Subscribe PROVE TypeOK'
  <2>1. streams' \in [Agents -> Lag]
    BY <1>1, <1>6 DEF Subscribe, TypeOK
  <2> QED
    BY <1>2, <1>6, <2>1 DEF Subscribe, TypeOK, stored, ticks
<1>7. ASSUME Wake PROVE TypeOK'
  <2>1. Arrived \in SUBSET Agents
    BY WakeAssumption DEF Arrived, TypeOK
  <2>2. cursors' \in [Agents -> Lag]
    BY <1>1, <1>7 DEF Wake, TypeOK
  <2>3. tracked' \subseteq stream
    BY <1>7 DEF Wake, TypeOK
  <2> QED
    BY <1>1, <1>3, <1>7, <2>1, <2>2, <2>3, GatherTyped DEF Wake
<1>8. ASSUME ReadTimesOut PROVE TypeOK'
  <2>1. CASE Sweep
    BY <1>3, <1>8, <2>1, SweepTyped DEF ReadTimesOut
  <2>2. CASE ~Sweep
    BY <1>2, <1>8, <2>2 DEF ReadTimesOut, TypeOK, stored, ticks
  <2> QED
    BY <2>1, <2>2
<1>9. SubscribeFails => TypeOK'
  BY Counted, SweepTyped DEF SubscribeFails
<1> QED
  BY <1>4, <1>5, <1>6, <1>7, <1>8, <1>9 DEF Loop

\* A tick ends.
LEMMA EndTyped ==
    ASSUME TypeOK, NEW t \in Ticks, End(t)
    PROVE  /\ pc' \in [Ticks -> Places]
           /\ pos' \in [Ticks -> Lag]
           /\ own' \subseteq {u \in Ticks : pc'[u] # "idle"}
           /\ raced' \subseteq {u \in Ticks : pc'[u] # "idle"}
BY DEF End, Goto, TypeOK, Places, Lag

LEMMA TickTyped ==
    ASSUME TypeOK, NEW t \in Ticks,
           Tick(t) \/ LoadFails(t) \/ FetchFails(t) \/ SaveFails(t) \/ SeedFails(t)
    PROVE  TypeOK'
<1>1. 0 \in Lag /\ None \in Lag
  BY WakeAssumption DEF Lag
<1>2. t[1] \in Agents
  BY DEF Ticks
<1>3. Load(t) => TypeOK'
  BY <1>2 DEF Load, Goto, TypeOK, stored, waiting
<1>4. LoadFails(t) => TypeOK'
  BY Counted DEF LoadFails, Goto, TypeOK, stored, waiting
<1>5. Fetch(t) => TypeOK'
  BY <1>1 DEF Fetch, Goto, TypeOK, stored, waiting
<1>6. FetchFails(t) => TypeOK'
  BY <1>1, Counted DEF FetchFails, Goto, TypeOK, stored, waiting
<1>7. SavePayload(t) => TypeOK'
  BY <1>2 DEF SavePayload, Goto, TypeOK, waiting
<1>8. SaveCursor(t) => TypeOK'
  BY <1>1, <1>2 DEF SaveCursor, Goto, TypeOK, waiting
<1>9. SaveFails(t) => TypeOK'
  BY <1>1, Counted DEF SaveFails, Goto, TypeOK, stored, waiting
<1>10. Seed(t) => TypeOK'
  BY <1>2, EndTyped DEF Seed, TypeOK, stored, waiting, Places
<1>11. SeedFails(t) => TypeOK'
  BY <1>1, <1>2, Counted, EndTyped DEF SeedFails, TypeOK, stored, waiting, Places
<1> QED
  BY <1>3, <1>4, <1>5, <1>6, <1>7, <1>8, <1>9, <1>10, <1>11 DEF Tick

LEMMA TypeNext == TypeOK /\ [Next]_vars => TypeOK'
<1> SUFFICES ASSUME TypeOK, [Next]_vars PROVE TypeOK'
  OBVIOUS
<1>1. \A a \in Agents : Expire(a) => TypeOK'
  BY Counted DEF Expire, TypeOK, Lag, waiting, ticks
<1>2. Crash => TypeOK'
  <2>1. Len(Groups) \in Nat \ {0}
    BY WakeAssumption
  <2> QED
    BY <2>1, Counted DEF Crash, Started, TypeOK, Nowhere, Lag, stored
<1>3. UNCHANGED vars => TypeOK'
  BY DEF vars, stored, waiting, ticks, TypeOK
<1> QED
  BY <1>1, <1>2, <1>3, ProduceTyped, LoopTyped, TickTyped DEF Next

\* Loop, ticks, cursors and checkpoints keep their types for any agents, hash slots and
\* faults; in particular a gather waits for ticks that run, and an orphan is one of them.
THEOREM WakeTypeCorrect == Spec => []TypeOK
BY TypeInit, TypeNext, PTL DEF Spec

-----------------------------------------------------------------------------
\* No wake-up is forgotten.

\* Without faults a gather waits for all ticks that run, and an agent has one of them.
OneTickEach ==
    /\ \A t \in Ticks : Alive(t) => t \in own /\ loop = "dispatch"
    /\ \A t, u \in Ticks : Alive(t) /\ Alive(u) /\ t[1] = u[1] => t = u

\* The cursor key does not overtake the payload, and no save will make it.
KeysInOrder ==
    /\ \A a \in Agents : ~Behind(payload[a], cursorKey[a])
    /\ \A t \in Ticks : pc[t] = "save" => ~Behind(pos[t], cursorKey[t[1]])
    /\ \A t \in Ticks : pc[t] = "save_cursor" => pos[t] = payload[t[1]]

\* An agent whose checkpoint is behind its subscribe cursor is being ticked.
WakesServed == \A a \in Agents : Behind(payload[a], cursors[a]) => Ticking(a)

WakeInv == TypeOK /\ (faults = 0 => OneTickEach /\ KeysInOrder /\ WakesServed)

\* When the gather is over, nothing runs and every cursor is behind its checkpoint.
LEMMA Rest ==
    ASSUME OneTickEach, WakesServed, loop # "dispatch" \/ own = {}
    PROVE  /\ \A t \in Ticks : ~Alive(t)
           /\ \A a \in Agents : ~Behind(payload[a], cursors[a])
BY DEF OneTickEach, WakesServed, Ticking

\* A gather that starts when nothing runs.
LEMMA GatherServes ==
    ASSUME TypeOK, NEW agents \in SUBSET Agents, Gather(agents),
           KeysInOrder, \A t \in Ticks : ~Alive(t), UNCHANGED stored,
           \A a \in Agents \ agents : ~Behind(payload[a], cursors'[a])
    PROVE  OneTickEach' /\ KeysInOrder' /\ WakesServed'
<1>1. /\ \A t \in Ticks : pc'[t] = IF t \in own' THEN "load" ELSE pc[t]
      /\ own' \subseteq Ticks
      /\ \A a \in agents : <<a, 1>> \in own' \/ <<a, 2>> \in own'
      /\ \A t \in own' : t[1] \in agents /\ Alive(t)'
      /\ \A a \in Agents : ~Alive(<<a, 1>>) => <<a, 2>> \notin own'
      /\ loop' = "dispatch" /\ pos' = pos
  BY GatherEffect
<1>2. \A t \in Ticks : Alive(t)' => t \in own'
  BY <1>1 DEF Alive
<1>3. \A a \in Agents : <<a, 1>> \in Ticks /\ <<a, 2>> \in Ticks
  BY DEF Ticks
<1>4. ASSUME NEW t \in Ticks, NEW u \in Ticks, t \in own', u \in own', t[1] = u[1]
      PROVE  t = u
  <2>1. \A a \in Agents : <<a, 2>> \notin own'
    BY <1>1, <1>3
  <2>2. t = <<t[1], 1>> \/ t = <<t[1], 2>>
    BY DEF Ticks
  <2>3. u = <<u[1], 1>> \/ u = <<u[1], 2>>
    BY DEF Ticks
  <2>4. t[1] \in Agents /\ u[1] \in Agents
    BY DEF Ticks
  <2> QED
    BY <1>4, <2>1, <2>2, <2>3, <2>4
<1>5. OneTickEach'
  BY <1>1, <1>2, <1>4 DEF OneTickEach
<1>6. KeysInOrder'
  BY <1>1 DEF KeysInOrder, stored
<1>7. \A a \in agents : Ticking(a)'
  <2> SUFFICES ASSUME NEW a \in agents PROVE \E t \in Ticks : t[1] = a /\ Alive(t)'
    BY DEF Ticking
  <2>1. PICK t \in {<<a, 1>>, <<a, 2>>} : t \in own'
    BY <1>1
  <2>2. <<a, 1>>[1] = a /\ <<a, 2>>[1] = a
    OBVIOUS
  <2>3. t \in Ticks /\ t[1] = a
    BY <1>3, <2>1, <2>2
  <2> QED
    BY <1>1, <2>1, <2>3
<1>8. WakesServed'
  BY <1>7 DEF WakesServed, stored, Behind
<1> QED
  BY <1>5, <1>6, <1>8

\* New entries leave positions where they are to each other.
LEMMA OlderKeepsOrder ==
    ASSUME NEW p \in Lag, NEW q \in Lag
    PROVE  Behind(Older(p), Older(q)) <=> Behind(p, q)
BY WakeAssumption DEF Behind, Older, Lag, None

LEMMA ProduceServes ==
    ASSUME TypeOK, NEW a \in Agents, Produce(a), OneTickEach, KeysInOrder, WakesServed
    PROVE  OneTickEach' /\ KeysInOrder' /\ WakesServed'
<1>1. /\ payload' = [payload EXCEPT ![a] = Older(payload[a])]
      /\ cursorKey' = [cursorKey EXCEPT ![a] = Older(cursorKey[a])]
      /\ cursors' = [cursors EXCEPT ![a] = Older(cursors[a])]
      /\ pos' = [t \in Ticks |-> IF t[1] = a THEN Older(pos[t]) ELSE pos[t]]
      /\ UNCHANGED <<loop, pc, own>>
  BY DEF Produce
<1>2. \A b \in Agents : payload[b] \in Lag /\ cursorKey[b] \in Lag /\ cursors[b] \in Lag
  BY DEF TypeOK
<1>3. \A t \in Ticks : pos[t] \in Lag /\ t[1] \in Agents
  BY DEF TypeOK, Ticks
<1>4. \A b \in Agents : /\ payload'[b] = IF b = a THEN Older(payload[b]) ELSE payload[b]
                        /\ cursorKey'[b] = IF b = a THEN Older(cursorKey[b]) ELSE cursorKey[b]
                        /\ cursors'[b] = IF b = a THEN Older(cursors[b]) ELSE cursors[b]
  BY <1>1 DEF TypeOK
<1>5. \A t \in Ticks : pos'[t] = IF t[1] = a THEN Older(pos[t]) ELSE pos[t]
  BY <1>1
<1>6. \A b \in Agents : /\ Behind(payload'[b], cursorKey'[b]) <=> Behind(payload[b], cursorKey[b])
                        /\ Behind(payload'[b], cursors'[b]) <=> Behind(payload[b], cursors[b])
  BY <1>2, <1>4, OlderKeepsOrder
<1>7. \A t \in Ticks :
        /\ Behind(pos'[t], cursorKey'[t[1]]) <=> Behind(pos[t], cursorKey[t[1]])
        /\ pos[t] = payload[t[1]] => pos'[t] = payload'[t[1]]
  BY <1>2, <1>3, <1>4, <1>5, OlderKeepsOrder
<1>8. OneTickEach'
  BY <1>1 DEF OneTickEach, Alive
<1>9. KeysInOrder'
  <2>1. \A b \in Agents : ~Behind(payload'[b], cursorKey'[b])
    BY <1>6 DEF KeysInOrder
  <2>2. \A t \in Ticks : pc[t] = "save" => ~Behind(pos'[t], cursorKey'[t[1]])
    BY <1>7 DEF KeysInOrder
  <2>3. \A t \in Ticks : pc[t] = "save_cursor" => pos'[t] = payload'[t[1]]
    BY <1>7 DEF KeysInOrder
  <2> QED
    BY <1>1, <2>1, <2>2, <2>3 DEF KeysInOrder, Behind
<1>10. WakesServed'
  <2>1. \A b \in Agents : Behind(payload'[b], cursors'[b]) => Ticking(b)
    BY <1>6 DEF WakesServed
  <2> QED
    BY <1>1, <2>1 DEF WakesServed, Behind, Ticking, Alive
<1> QED
  BY <1>8, <1>9, <1>10

LEMMA LoopServes ==
    ASSUME TypeOK, Rediscover \/ Loop, OneTickEach, KeysInOrder, WakesServed
    PROVE  OneTickEach' /\ KeysInOrder' /\ WakesServed'
<1>1. ASSUME UNCHANGED <<stored, cursors, pc, pos, own>>, loop' = loop \/ \A t \in Ticks : ~Alive(t)
      PROVE  OneTickEach' /\ KeysInOrder' /\ WakesServed'
  <2>1. OneTickEach'
    BY <1>1 DEF OneTickEach, Alive
  <2>2. KeysInOrder'
    BY <1>1 DEF KeysInOrder, stored, Behind
  <2>3. WakesServed'
    BY <1>1 DEF WakesServed, stored, Behind, Ticking, Alive
  <2> QED
    BY <2>1, <2>2, <2>3
<1>2. ASSUME Sweep, loop # "dispatch"
      PROVE  OneTickEach' /\ KeysInOrder' /\ WakesServed'
  <2>1. PICK found \in {tracked, stream} : Gather(found) /\ UNCHANGED <<stored, cursors>>
    BY <1>2 DEF Sweep
  <2>2. found \in SUBSET Agents
    BY DEF TypeOK
  <2>3. \A a \in Agents \ found : ~Behind(payload[a], cursors'[a])
    BY <1>2, <2>1, Rest
  <2> QED
    BY <1>2, <2>1, <2>2, <2>3, Rest, GatherServes
<1>3. ASSUME Rediscover \/ NotYetDue
      PROVE  OneTickEach' /\ KeysInOrder' /\ WakesServed'
  <2>1. loop # "dispatch" /\ UNCHANGED <<stored, cursors, pc, pos, own>>
    BY <1>3 DEF Rediscover, NotYetDue, ticks
  <2> QED
    BY <1>1, <2>1, Rest
<1>4. ASSUME GatherReturns
      PROVE  OneTickEach' /\ KeysInOrder' /\ WakesServed'
  <2>1. own = {} /\ UNCHANGED <<stored, cursors, pc, pos, own>>
    BY <1>4 DEF GatherReturns, ticks
  <2> QED
    BY <1>1, <2>1, Rest
<1>5. ASSUME Subscribe
      PROVE  OneTickEach' /\ KeysInOrder' /\ WakesServed'
  <2>1. loop # "dispatch" /\ UNCHANGED <<stored, cursors, pc, pos, own>>
    BY <1>5 DEF Subscribe, ticks
  <2> QED
    BY <1>1, <2>1, Rest
<1>6. SweepUnsubscribed => OneTickEach' /\ KeysInOrder' /\ WakesServed'
  BY <1>2 DEF SweepUnsubscribed
<1>7. ASSUME ReadTimesOut
      PROVE  OneTickEach' /\ KeysInOrder' /\ WakesServed'
  <2>1. CASE Sweep
    BY <1>2, <1>7, <2>1 DEF ReadTimesOut
  <2>2. CASE ~Sweep
    <3>1. UNCHANGED <<stored, cursors, pc, pos, own, loop>>
      BY <1>7, <2>2 DEF ReadTimesOut, ticks
    <3> QED
      BY <1>1, <3>1
  <2> QED
    BY <2>1, <2>2
<1>8. ASSUME Wake
      PROVE  OneTickEach' /\ KeysInOrder' /\ WakesServed'
  <2>1. /\ Gather(Arrived) /\ UNCHANGED stored
        /\ cursors' = [a \in Agents |-> IF a \in Arrived THEN 0 ELSE cursors[a]]
        /\ loop # "dispatch"
    BY <1>8 DEF Wake
  <2>2. Arrived \in SUBSET Agents
    BY WakeAssumption DEF Arrived, TypeOK
  <2>3. \A a \in Agents \ Arrived : ~Behind(payload[a], cursors'[a])
    BY <2>1, Rest
  <2> QED
    BY <2>1, <2>2, <2>3, Rest, GatherServes
<1> QED
  BY <1>3, <1>4, <1>5, <1>6, <1>7, <1>8 DEF Loop

LEMMA TickServes ==
    ASSUME TypeOK, NEW t \in Ticks, Tick(t), OneTickEach, KeysInOrder, WakesServed
    PROVE  OneTickEach' /\ KeysInOrder' /\ WakesServed'
<1>1. t[1] \in Agents
  BY DEF Ticks
<1>2. \A u \in Ticks \ {t} : Alive(u) /\ Alive(t) => u[1] # t[1]
  BY DEF OneTickEach
<1>3. ASSUME NEW place \in Places \ {"idle"}, Alive(t), pc' = [pc EXCEPT ![t] = place],
             UNCHANGED <<own, loop>>
      PROVE  /\ OneTickEach'
             /\ \A u \in Ticks : Alive(u)' <=> Alive(u)
             /\ \A u \in Ticks : pc'[u] = IF u = t THEN place ELSE pc[u]
  <2>1. \A u \in Ticks : pc'[u] = IF u = t THEN place ELSE pc[u]
    BY <1>3 DEF TypeOK
  <2>2. \A u \in Ticks : Alive(u)' <=> Alive(u)
    BY <1>3, <2>1 DEF Alive
  <2> QED
    BY <1>3, <2>1, <2>2 DEF OneTickEach
<1>4. ASSUME Load(t) PROVE OneTickEach' /\ KeysInOrder' /\ WakesServed'
  <2>1. /\ pc' = [pc EXCEPT ![t] = "fetch"] /\ Alive(t)
        /\ UNCHANGED <<own, loop, payload, cursorKey, cursors>>
        /\ \A u \in Ticks \ {t} : pos'[u] = pos[u]
    BY <1>4 DEF Load, Goto, Alive, TypeOK, stored
  <2>2. /\ OneTickEach'
        /\ \A u \in Ticks : Alive(u)' <=> Alive(u)
        /\ \A u \in Ticks : pc'[u] = IF u = t THEN "fetch" ELSE pc[u]
    BY <1>3, <2>1 DEF Places
  <2> QED
    BY <2>1, <2>2 DEF KeysInOrder, WakesServed, Ticking, Behind
<1>5. ASSUME Fetch(t) PROVE OneTickEach' /\ KeysInOrder' /\ WakesServed'
  <2>1. PICK place \in {"save", "seed"} :
          /\ pc' = [pc EXCEPT ![t] = place]
          /\ place = "save" => pos'[t] = 0
    BY <1>5 DEF Fetch, Goto, TypeOK
  <2>2. /\ Alive(t)
        /\ UNCHANGED <<own, loop, payload, cursorKey, cursors>>
        /\ \A u \in Ticks \ {t} : pos'[u] = pos[u]
    BY <1>5 DEF Fetch, Alive, TypeOK, stored
  <2>3. /\ OneTickEach'
        /\ \A u \in Ticks : Alive(u)' <=> Alive(u)
        /\ \A u \in Ticks : pc'[u] = IF u = t THEN place ELSE pc[u]
    BY <1>3, <2>1, <2>2 DEF Places
  <2>4. ~Behind(0, cursorKey[t[1]])
    BY <1>1, WakeAssumption DEF Behind, TypeOK, Lag, None
  <2> QED
    BY <2>1, <2>2, <2>3, <2>4 DEF KeysInOrder, WakesServed, Ticking, Behind
<1>6. ASSUME SavePayload(t) PROVE OneTickEach' /\ KeysInOrder' /\ WakesServed'
  <2>1. /\ pc[t] = "save" /\ Alive(t)
        /\ pc' = [pc EXCEPT ![t] = "save_cursor"]
        /\ UNCHANGED <<own, loop, cursorKey, cursors, pos>>
        /\ \A a \in Agents : payload'[a] = IF a = t[1] THEN pos[t] ELSE payload[a]
    BY <1>1, <1>6 DEF SavePayload, Goto, Alive, TypeOK
  <2>2. /\ OneTickEach'
        /\ \A u \in Ticks : Alive(u)' <=> Alive(u)
        /\ \A u \in Ticks : pc'[u] = IF u = t THEN "save_cursor" ELSE pc[u]
    BY <1>3, <2>1 DEF Places
  <2>3. \A a \in Agents : ~Behind(payload'[a], cursorKey[a])
    BY <2>1 DEF KeysInOrder
  <2>4. \A u \in Ticks : pc'[u] = "save_cursor" => pos[u] = payload'[u[1]]
    <3> SUFFICES ASSUME NEW u \in Ticks, u # t, pc[u] = "save_cursor"
                 PROVE  pos[u] = payload'[u[1]]
      BY <1>1, <2>1, <2>2
    <3>1. u[1] # t[1] /\ u[1] \in Agents
      BY <1>2, <2>1 DEF Alive, Ticks
    <3> QED
      BY <2>1, <3>1 DEF KeysInOrder
  <2>5. KeysInOrder'
    BY <2>1, <2>2, <2>3, <2>4 DEF KeysInOrder, Behind
  <2>6. WakesServed'
    <3>1. Ticking(t[1])'
      BY <2>1, <2>2 DEF Ticking
    <3>2. \A a \in Agents : Ticking(a) => Ticking(a)'
      BY <2>2 DEF Ticking
    <3>3. \A a \in Agents \ {t[1]} : Behind(payload'[a], cursors'[a]) => Ticking(a)
      BY <2>1 DEF WakesServed
    <3> QED
      BY <3>1, <3>2, <3>3 DEF WakesServed, Behind
  <2> QED
    BY <2>2, <2>5, <2>6
<1>7. ASSUME SaveCursor(t) PROVE OneTickEach' /\ KeysInOrder' /\ WakesServed'
  <2>1. /\ pc[t] = "save_cursor" /\ Alive(t)
        /\ pc' = [pc EXCEPT ![t] = "seed"]
        /\ UNCHANGED <<own, loop, payload, cursors>>
        /\ \A a \in Agents : cursorKey'[a] = IF a = t[1] THEN pos[t] ELSE cursorKey[a]
        /\ \A u \in Ticks \ {t} : pos'[u] = pos[u]
    BY <1>1, <1>7 DEF SaveCursor, Goto, Alive, TypeOK
  <2>2. /\ OneTickEach'
        /\ \A u \in Ticks : Alive(u)' <=> Alive(u)
        /\ \A u \in Ticks : pc'[u] = IF u = t THEN "seed" ELSE pc[u]
    BY <1>3, <2>1 DEF Places
  <2>3. pos[t] = payload[t[1]] /\ ~Behind(payload[t[1]], payload[t[1]])
    BY <1>1, <2>1, WakeAssumption DEF KeysInOrder, Behind, TypeOK, Lag, None
  <2>4. \A a \in Agents : ~Behind(payload[a], cursorKey'[a])
    BY <2>1, <2>3 DEF KeysInOrder
  <2>5. ASSUME NEW u \in Ticks, u # t, pc[u] = "save"
        PROVE  ~Behind(pos[u], cursorKey'[u[1]])
    <3>1. u[1] # t[1] /\ u[1] \in Agents
      BY <1>2, <2>1, <2>5 DEF Alive, Ticks
    <3> QED
      BY <2>1, <2>5, <3>1 DEF KeysInOrder
  <2>6. KeysInOrder'
    BY <2>1, <2>2, <2>4, <2>5 DEF KeysInOrder, Behind
  <2>7. WakesServed'
    BY <2>1, <2>2 DEF WakesServed, Ticking, Behind
  <2> QED
    BY <2>2, <2>6, <2>7
<1>8. ASSUME Seed(t) PROVE OneTickEach' /\ KeysInOrder' /\ WakesServed'
  <2>1. /\ pc[t] = "seed" /\ Alive(t)
        /\ \A u \in Ticks : pc'[u] = IF u = t THEN "idle" ELSE pc[u]
        /\ \A u \in Ticks \ {t} : pos'[u] = pos[u]
        /\ own' = own \ {t}
        /\ UNCHANGED <<loop, payload, cursorKey>>
        /\ \A a \in Agents : cursors'[a] = IF a = t[1] THEN cursorKey[a] ELSE cursors[a]
    BY <1>1, <1>8 DEF Seed, End, Goto, Alive, TypeOK, stored
  <2>2. \A u \in Ticks : Alive(u)' <=> Alive(u) /\ u # t
    BY <2>1 DEF Alive
  <2>3. OneTickEach'
    BY <2>1, <2>2 DEF OneTickEach
  <2>4. KeysInOrder'
    BY <2>1 DEF KeysInOrder, Behind
  <2>5. WakesServed'
    <3> SUFFICES ASSUME NEW a \in Agents, Behind(payload[a], cursors'[a])
                 PROVE  \E u \in Ticks : u[1] = a /\ Alive(u)'
      BY <2>1 DEF WakesServed, Ticking, Behind
    <3>1. a # t[1]
      BY <2>1 DEF KeysInOrder
    <3>2. PICK u \in Ticks : u[1] = a /\ Alive(u)
      BY <2>1, <3>1 DEF WakesServed, Ticking
    <3> QED
      BY <2>2, <3>1, <3>2
  <2> QED
    BY <2>3, <2>4, <2>5
<1> QED
  BY <1>4, <1>5, <1>6, <1>7, <1>8 DEF Tick

LEMMA WakeInvNext == WakeInv /\ [Next]_vars => WakeInv'
<1> SUFFICES ASSUME WakeInv, [Next]_vars PROVE WakeInv'
  OBVIOUS
<1>1. TypeOK /\ TypeOK'
  BY TypeNext DEF WakeInv
<1> SUFFICES ASSUME faults' = 0
             PROVE  OneTickEach' /\ KeysInOrder' /\ WakesServed'
  BY <1>1 DEF WakeInv
<1>2. \A kind : ~Fault(kind)
  BY <1>1, Counted
<1>3. \/ UNCHANGED vars
      \/ \E a \in Agents : Produce(a)
      \/ Rediscover \/ Loop
      \/ \E t \in Ticks : Tick(t)
  BY <1>2 DEF Next, Expire, SubscribeFails, LoadFails, FetchFails, SaveFails, SeedFails, Crash
<1>4. faults = 0
  BY <1>3 DEF Produce, Rediscover, Loop, NotYetDue, SweepUnsubscribed, Subscribe, Wake,
     ReadTimesOut, GatherReturns, Tick, Load, Fetch, SavePayload, SaveCursor, Seed, vars
<1>5. OneTickEach /\ KeysInOrder /\ WakesServed
  BY <1>4 DEF WakeInv
<1>6. UNCHANGED vars => OneTickEach' /\ KeysInOrder' /\ WakesServed'
  BY <1>5 DEF vars, stored, ticks, OneTickEach, KeysInOrder, WakesServed, Alive, Ticking, Behind
<1> QED
  BY <1>1, <1>3, <1>5, <1>6, ProduceServes, LoopServes, TickServes

LEMMA WakeInvInit == Init => WakeInv
<1> SUFFICES ASSUME Init PROVE WakeInv
  OBVIOUS
<1>1. \A t \in Ticks : pc[t] = "idle"
  BY DEF Init
<1>2. \A a \in Agents : payload[a] = None /\ cursorKey[a] = None /\ cursors[a] = None
  BY DEF Init, Nowhere
<1> QED
  BY <1>1, <1>2, TypeInit
     DEF WakeInv, OneTickEach, KeysInOrder, WakesServed, Alive, Behind

\* "Merge them before the dispatch": without faults, whatever agents share a hash slot and
\* however many events arrive, an agent whose checkpoint is behind its subscribe cursor is
\* being ticked.
THEOREM WakesAreServed == Spec => []WakeNotForgotten
<1>1. WakeInv => WakeNotForgotten
  BY DEF WakeInv, WakesServed, WakeNotForgotten
<1> QED
  BY <1>1, WakeInvInit, WakeInvNext, PTL DEF Spec

-----------------------------------------------------------------------------
\* Saves in order.

\* Two live ticks of an agent have met.
MeetingsKnown ==
    \A t, u \in Ticks : Alive(t) /\ Alive(u) /\ t[1] = u[1] /\ t # u => t \in raced /\ u \in raced

\* What a tick that raced no other is about to save is as new as what is saved.
Newest(t) ==
    LET a == t[1] IN
    /\ pc[t] = "save" => ~Behind(pos[t], payload[a]) /\ ~Behind(pos[t], cursorKey[a])
    /\ pc[t] = "save_cursor" => payload[a] \in {pos[t], None}

SavesInv == TypeOK /\ MeetingsKnown /\ \A t \in Ticks \ raced : Newest(t)

\* Neither ticks nor keys are touched.
LEMMA SavesUntouched ==
    ASSUME SavesInv, UNCHANGED <<payload, cursorKey, pc, pos, raced>>
    PROVE  MeetingsKnown' /\ \A t \in Ticks \ raced' : Newest(t)'
BY DEF SavesInv, MeetingsKnown, Newest, Alive, Behind

LEMMA SavesGather ==
    ASSUME SavesInv, NEW agents \in SUBSET Agents, Gather(agents), UNCHANGED <<payload, cursorKey>>
    PROVE  MeetingsKnown' /\ \A t \in Ticks \ raced' : Newest(t)'
<1>1. /\ \A t \in Ticks : pc'[t] = IF t \in own' THEN "load" ELSE pc[t]
      /\ \A t \in own' : t \in Ticks /\ t[1] \in agents /\ ~Alive(t)
      /\ \A a \in Agents : ~Alive(<<a, 1>>) => <<a, 2>> \notin own'
      /\ raced' = raced \cup {t \in Ticks : t[1] \in agents /\ Ticking(t[1])}
      /\ pos' = pos
  BY GatherEffect DEF SavesInv
<1>2. \A t \in Ticks : Alive(t)' => t \in own' \/ Alive(t)
  BY <1>1 DEF Alive
<1>3. ASSUME NEW t \in Ticks, NEW u \in Ticks, Alive(t)', Alive(u)', t[1] = u[1], t # u
      PROVE  t \in raced' /\ u \in raced'
  <2>1. CASE Alive(t) /\ Alive(u)
    BY <1>1, <1>3, <2>1 DEF SavesInv, MeetingsKnown
  <2>2. CASE Alive(t) /\ u \in own'
    BY <1>1, <1>3, <2>2 DEF Ticking
  <2>3. CASE t \in own' /\ Alive(u)
    BY <1>1, <1>3, <2>3 DEF Ticking
  <2>4. CASE t \in own' /\ u \in own'
    <3>1. t = <<t[1], 1>> \/ t = <<t[1], 2>>
      BY DEF Ticks
    <3>2. u = <<u[1], 1>> \/ u = <<u[1], 2>>
      BY DEF Ticks
    <3>3. t[1] \in Agents
      BY DEF Ticks
    <3> QED
      BY <1>1, <1>3, <2>4, <3>1, <3>2, <3>3
  <2> QED
    BY <1>2, <1>3, <2>1, <2>2, <2>3, <2>4
<1>4. MeetingsKnown'
  BY <1>3 DEF MeetingsKnown
<1>5. \A t \in Ticks \ raced' : Newest(t)'
  BY <1>1 DEF SavesInv, Newest, Behind
<1> QED
  BY <1>4, <1>5

\* Some tick goes on or ends, and keys of its agent may be written.
LEMMA SavesTick ==
    ASSUME SavesInv, NEW t \in Ticks, Alive(t), Newest(t)' \/ t \in raced \/ pc'[t] = "idle",
           \A u \in Ticks \ {t} : pc'[u] = pc[u] /\ pos'[u] = pos[u],
           \A a \in Agents \ {t[1]} : payload'[a] = payload[a] /\ cursorKey'[a] = cursorKey[a],
           raced' = IF pc'[t] = "idle" THEN raced \ {t} ELSE raced
    PROVE  MeetingsKnown' /\ \A u \in Ticks \ raced' : Newest(u)'
<1>1. \A u \in Ticks : Alive(u)' => Alive(u)
  BY DEF Alive
<1>2. MeetingsKnown'
  <2> SUFFICES ASSUME NEW u \in Ticks, NEW v \in Ticks,
                      Alive(u)', Alive(v)', u[1] = v[1], u # v
               PROVE  u \in raced' /\ v \in raced'
    BY DEF MeetingsKnown
  <2>1. u \in raced /\ v \in raced
    BY <1>1 DEF SavesInv, MeetingsKnown
  <2> QED
    BY <2>1 DEF Alive
<1>3. ASSUME NEW u \in Ticks \ raced', u # t
      PROVE  Newest(u)'
  <2>1. u \notin raced /\ u[1] \in Agents
    BY <1>3 DEF Ticks
  <2>2. CASE u[1] = t[1]
    <3>1. ~Alive(u)
      BY <1>3, <2>1, <2>2 DEF SavesInv, MeetingsKnown
    <3> QED
      BY <1>3, <3>1 DEF Newest, Alive
  <2>3. CASE u[1] # t[1]
    <3>1. Newest(u)
      BY <2>1 DEF SavesInv
    <3>2. /\ pc'[u] = pc[u] /\ pos'[u] = pos[u]
          /\ payload'[u[1]] = payload[u[1]] /\ cursorKey'[u[1]] = cursorKey[u[1]]
      BY <1>3, <2>1, <2>3
    <3> QED
      BY <3>1, <3>2 DEF Newest, Behind
  <2> QED
    BY <2>2, <2>3
<1>4. pc'[t] = "idle" => Newest(t)'
  BY DEF Newest
<1> QED
  BY <1>2, <1>3, <1>4

LEMMA SavesTicks ==
    ASSUME SavesInv, NEW t \in Ticks,
           Tick(t) \/ LoadFails(t) \/ FetchFails(t) \/ SaveFails(t) \/ SeedFails(t)
    PROVE  MeetingsKnown' /\ \A u \in Ticks \ raced' : Newest(u)'
<1>1. t[1] \in Agents /\ TypeOK /\ MeetingsKnown
  BY DEF Ticks, SavesInv
<1>2. ASSUME Load(t) \/ LoadFails(t)
      PROVE  /\ Alive(t) /\ pc'[t] = "fetch" /\ UNCHANGED <<payload, cursorKey, raced>>
             /\ \A u \in Ticks \ {t} : pc'[u] = pc[u] /\ pos'[u] = pos[u]
  BY <1>1, <1>2 DEF Load, LoadFails, Goto, Alive, TypeOK, stored
<1>3. ASSUME Fetch(t)
      PROVE  /\ Alive(t) /\ pc'[t] \in {"save", "seed"} /\ UNCHANGED <<payload, cursorKey, raced>>
             /\ pc'[t] = "save" => pos'[t] = 0
             /\ \A u \in Ticks \ {t} : pc'[u] = pc[u] /\ pos'[u] = pos[u]
  BY <1>1, <1>3 DEF Fetch, Goto, Alive, TypeOK, stored
<1>4. ASSUME SaveFails(t)
      PROVE  /\ Alive(t) /\ pc'[t] = "seed" /\ UNCHANGED <<payload, cursorKey, raced>>
             /\ \A u \in Ticks \ {t} : pc'[u] = pc[u] /\ pos'[u] = pos[u]
  BY <1>1, <1>4 DEF SaveFails, Goto, Alive, TypeOK, stored
<1>5. ASSUME FetchFails(t) \/ Seed(t) \/ SeedFails(t)
      PROVE  /\ Alive(t) /\ pc'[t] = "idle" /\ raced' = raced \ {t}
             /\ UNCHANGED <<payload, cursorKey>>
             /\ \A u \in Ticks \ {t} : pc'[u] = pc[u] /\ pos'[u] = pos[u]
  BY <1>1, <1>5 DEF FetchFails, Seed, SeedFails, End, Goto, Alive, TypeOK, stored
<1>6. ASSUME SavePayload(t)
      PROVE  /\ Alive(t) /\ pc'[t] = "save_cursor" /\ UNCHANGED <<cursorKey, pos, raced>>
             /\ payload'[t[1]] = pos[t]
             /\ \A a \in Agents \ {t[1]} : payload'[a] = payload[a]
             /\ \A u \in Ticks \ {t} : pc'[u] = pc[u]
  BY <1>1, <1>6 DEF SavePayload, Goto, Alive, TypeOK
<1>7. ASSUME SaveCursor(t)
      PROVE  /\ Alive(t) /\ pc'[t] = "seed" /\ UNCHANGED <<payload, raced>>
             /\ \A a \in Agents \ {t[1]} : cursorKey'[a] = cursorKey[a]
             /\ \A u \in Ticks \ {t} : pc'[u] = pc[u] /\ pos'[u] = pos[u]
  BY <1>1, <1>7 DEF SaveCursor, Goto, Alive, TypeOK
<1>8. CASE Load(t) \/ LoadFails(t) \/ SaveFails(t) \/ SaveCursor(t)
  <2>1. Newest(t)'
    BY <1>2, <1>4, <1>7, <1>8 DEF Newest
  <2> QED
    BY <1>2, <1>4, <1>7, <1>8, <2>1, SavesTick
<1>9. CASE Fetch(t)
  <2>1. ~Behind(0, payload[t[1]]) /\ ~Behind(0, cursorKey[t[1]])
    BY <1>1, WakeAssumption DEF Behind, TypeOK, Lag, None
  <2>2. Newest(t)'
    BY <1>3, <1>9, <2>1 DEF Newest, Behind
  <2> QED
    BY <1>3, <1>9, <2>2, SavesTick
<1>10. CASE FetchFails(t) \/ Seed(t) \/ SeedFails(t)
  BY <1>5, <1>10, SavesTick
<1>11. CASE SavePayload(t)
  <2>1. Newest(t)'
    BY <1>6, <1>11 DEF Newest
  <2> QED
    BY <1>6, <1>11, <2>1, SavesTick
<1> QED
  BY <1>8, <1>9, <1>10, <1>11 DEF Tick

LEMMA SavesProduce ==
    ASSUME SavesInv, NEW a \in Agents, Produce(a)
    PROVE  MeetingsKnown' /\ \A t \in Ticks \ raced' : Newest(t)'
<1>1. /\ payload' = [payload EXCEPT ![a] = Older(payload[a])]
      /\ cursorKey' = [cursorKey EXCEPT ![a] = Older(cursorKey[a])]
      /\ pos' = [t \in Ticks |-> IF t[1] = a THEN Older(pos[t]) ELSE pos[t]]
      /\ UNCHANGED <<pc, raced>>
  BY DEF Produce
<1>2. \A b \in Agents : payload[b] \in Lag /\ cursorKey[b] \in Lag
  BY DEF SavesInv, TypeOK
<1>3. \A t \in Ticks : pos[t] \in Lag /\ t[1] \in Agents
  BY DEF SavesInv, TypeOK, Ticks
<1>4. \A b \in Agents : /\ payload'[b] = IF b = a THEN Older(payload[b]) ELSE payload[b]
                        /\ cursorKey'[b] = IF b = a THEN Older(cursorKey[b]) ELSE cursorKey[b]
  BY <1>1 DEF SavesInv, TypeOK
<1>5. \A t \in Ticks : pos'[t] = IF t[1] = a THEN Older(pos[t]) ELSE pos[t]
  BY <1>1
<1>6. ASSUME NEW t \in Ticks, Newest(t)
      PROVE  Newest(t)'
  <2>1. /\ Behind(pos'[t], payload'[t[1]]) <=> Behind(pos[t], payload[t[1]])
        /\ Behind(pos'[t], cursorKey'[t[1]]) <=> Behind(pos[t], cursorKey[t[1]])
    BY <1>2, <1>3, <1>4, <1>5, OlderKeepsOrder
  <2>2. payload[t[1]] \in {pos[t], None} => payload'[t[1]] \in {pos'[t], None}
    BY <1>3, <1>4, <1>5 DEF Older
  <2> QED
    BY <1>1, <1>6, <2>1, <2>2 DEF Newest, Behind
<1>7. MeetingsKnown'
  BY <1>1 DEF SavesInv, MeetingsKnown, Alive
<1> QED
  BY <1>1, <1>6, <1>7 DEF SavesInv

LEMMA SavesLoop ==
    ASSUME SavesInv, Loop \/ Rediscover \/ SubscribeFails
    PROVE  MeetingsKnown' /\ \A t \in Ticks \ raced' : Newest(t)'
<1>1. Sweep => MeetingsKnown' /\ \A t \in Ticks \ raced' : Newest(t)'
  <2> SUFFICES ASSUME Sweep PROVE MeetingsKnown' /\ \A t \in Ticks \ raced' : Newest(t)'
    OBVIOUS
  <2>1. PICK found \in {tracked, stream} : Gather(found) /\ UNCHANGED stored
    BY DEF Sweep
  <2>2. found \in SUBSET Agents /\ UNCHANGED <<payload, cursorKey>>
    BY <2>1 DEF SavesInv, TypeOK, stored
  <2> QED
    BY <2>1, <2>2, SavesGather
<1>2. Wake => MeetingsKnown' /\ \A t \in Ticks \ raced' : Newest(t)'
  <2>1. Arrived \in SUBSET Agents
    BY WakeAssumption DEF Arrived, SavesInv, TypeOK
  <2> QED
    BY <2>1, SavesGather DEF Wake, stored
<1>3. Sweep \/ Wake \/ UNCHANGED <<payload, cursorKey, pc, pos, raced>>
  BY DEF Loop, Rediscover, NotYetDue, SweepUnsubscribed, Subscribe, ReadTimesOut, GatherReturns,
     SubscribeFails, stored, ticks
<1> QED
  BY <1>1, <1>2, <1>3, SavesUntouched

LEMMA SavesInvNext == SavesInv /\ [Next]_vars => SavesInv'
<1> SUFFICES ASSUME SavesInv, [Next]_vars
             PROVE  MeetingsKnown' /\ \A t \in Ticks \ raced' : Newest(t)'
  BY TypeNext DEF SavesInv
<1>1. ASSUME NEW a \in Agents, Expire(a)
      PROVE  MeetingsKnown' /\ \A t \in Ticks \ raced' : Newest(t)'
  <2>1. /\ \A b \in Agents : payload'[b] \in {payload[b], None}
        /\ \A b \in Agents : cursorKey'[b] \in {cursorKey[b], None}
        /\ UNCHANGED <<pc, pos, raced>>
    BY <1>1 DEF Expire, ticks, SavesInv, TypeOK
  <2>2. \A t \in Ticks : t[1] \in Agents
    BY DEF Ticks
  <2>3. \A t \in Ticks : Newest(t) => Newest(t)'
    BY <2>1, <2>2 DEF Newest, Behind
  <2> QED
    BY <2>1, <2>3 DEF SavesInv, MeetingsKnown, Alive
<1>2. ASSUME Crash
      PROVE  MeetingsKnown' /\ \A t \in Ticks \ raced' : Newest(t)'
  BY <1>2 DEF Crash, Started, MeetingsKnown, Newest, Alive
<1>3. UNCHANGED vars => UNCHANGED <<payload, cursorKey, pc, pos, raced>>
  BY DEF vars, stored, ticks
<1> QED
  BY <1>1, <1>2, <1>3, SavesProduce, SavesLoop, SavesTicks, SavesUntouched DEF Next

LEMMA SavesInvInit == Init => SavesInv
BY TypeInit DEF SavesInv, Init, MeetingsKnown, Newest, Alive

\* "The payload lands first, so the cursor can only lag behind it": whatever fails, expires or
\* is retried, a save moves no checkpoint back and its cursor past no payload, unless its tick
\* has met an orphan of the same agent.
THEOREM SavesKeepOrder == Spec => SavesInOrder
<1>1. SavesInv =>
        (\A t \in Ticks \ raced : SavePayload(t) \/ SaveCursor(t) =>
            LET a == t[1] IN
            /\ ~Behind(payload'[a], payload[a])
            /\ payload'[a] # None => ~Behind(payload'[a], cursorKey'[a]))
  <2> SUFFICES ASSUME SavesInv, NEW t \in Ticks \ raced, SavePayload(t) \/ SaveCursor(t)
               PROVE  /\ ~Behind(payload'[t[1]], payload[t[1]])
                      /\ payload'[t[1]] # None => ~Behind(payload'[t[1]], cursorKey'[t[1]])
    OBVIOUS
  <2>1. Newest(t) /\ t[1] \in Agents
    BY DEF SavesInv, Ticks
  <2>2. payload[t[1]] \in Lag /\ pos[t] \in Lag
    BY <2>1 DEF SavesInv, TypeOK
  <2>3. \A p \in Lag : ~Behind(p, p)
    BY WakeAssumption DEF Behind, Lag, None
  <2>4. CASE SavePayload(t)
    <3>1. pc[t] = "save" /\ payload'[t[1]] = pos[t] /\ cursorKey' = cursorKey
      BY <2>1, <2>4 DEF SavePayload, SavesInv, TypeOK
    <3> QED
      BY <2>1, <3>1 DEF Newest
  <2>5. CASE SaveCursor(t)
    <3>1. pc[t] = "save_cursor" /\ payload' = payload /\ cursorKey'[t[1]] = pos[t]
      BY <2>1, <2>5 DEF SaveCursor, SavesInv, TypeOK
    <3> QED
      BY <2>1, <2>2, <2>3, <3>1 DEF Newest
  <2> QED
    BY <2>4, <2>5
<1> QED
  BY <1>1, SavesInvInit, SavesInvNext, PTL DEF Spec, SavesInOrder
=============================================================================
