-------------------------- MODULE DispatcherProofs --------------------------
(***************************************************************************)
(* What holds of Dispatcher for every set of agents and seeds, every       *)
(* transition table, every combination of faults and any number of them.   *)
(***************************************************************************)
EXTENDS Dispatcher, TLAPS

-----------------------------------------------------------------------------
\* The system and the fold.

\* What the FSM emits are events.
LEMMA ReactionType ==
    ASSUME NEW e \in Event
    PROVE  Reaction(e) \in Seq(Event)
<1> DEFINE emit(t) == [seed |-> e.seed, type |-> t]
<1>1. /\ emit("transitioned") \in Event
      /\ emit("entry") \in Event
      /\ emit("rejected") \in Event
      /\ emit("entry_rejected") \in Event
  BY DEF Event
<1>2. Outcome[e.seed] \in {"moves", "enters", "rejects"}
  BY DispatcherAssumption DEF DispatcherAssumption, Event
<1>3. Reaction(e) = IF e.type = "entry" THEN <<emit("entry_rejected")>>
                    ELSE CASE Outcome[e.seed] = "moves" -> <<emit("transitioned")>>
                           [] Outcome[e.seed] = "enters" -> <<emit("transitioned"), emit("entry")>>
                           [] Outcome[e.seed] = "rejects" -> <<emit("rejected")>>
  BY DEF Reaction
<1> HIDE DEF emit
<1> QED
  BY <1>1, <1>2, <1>3

\* The system reacts to the last event of the view or not at all.
LEMMA FSMType ==
    ASSUME NEW v \in World
    PROVE  /\ FSM(v) \in Seq(Event)
           /\ FSM(v) # <<>> => External(v.last) /\ FSM(v) = Reaction(v.last)
           /\ FSM(v) = <<>> => \/ ~External(v.last)
                               \/ v.cursor = v.last
                               \/ Reaction(v.last) = <<>>
<1>1. External(v.last) => v.last \in Event
  BY DEF External, World
<1> QED
  BY <1>1, ReactionType DEF FSM

\* Folding the entries behind position p makes the fold of the whole log.
LEMMA FoldType ==
    ASSUME TypeOK, NEW a \in Agents, NEW v \in World, NEW p \in Nat, NEW batch,
           batch = SubSeq(log[a], p + 1, Len(log[a]))
    PROVE  /\ Fold(v, batch) \in World
           /\ batch = <<>> => Fold(v, batch) = v
           /\ batch # <<>> => /\ Len(log[a]) > 0
                              /\ Fold(v, batch).last = log[a][Len(log[a])]
                              /\ Fold(v, batch).cursor = NoEvent
           /\ p < Len(log[a]) => batch # <<>>
<1> DEFINE n == Len(log[a])
<1>1. log[a] \in Seq(Event) /\ n \in Nat
  BY DEF TypeOK
<1>2. CASE p < n
  <2>1. Len(batch) = n - p
    BY <1>1, <1>2
  <2>2. batch[n - p] = log[a][n]
    BY <1>1, <1>2
  <2>3. batch # <<>> /\ Last(batch) = log[a][n]
    <3>1. Last(batch) = batch[Len(batch)]
      BY DEF Last
    <3>2. Len(batch) # 0
      BY <1>1, <1>2, <2>1
    <3> QED
      BY <2>1, <2>2, <3>1, <3>2
  <2>4. log[a][n] \in Event
    BY <1>1, <1>2
  <2> QED
    BY <2>3, <2>4, <1>1, <1>2 DEF Fold, World
<1>3. CASE ~(p < n)
  <2>1. batch = <<>>
    BY <1>1, <1>3
  <2> QED
    BY <2>1, <1>3 DEF Fold
<1> QED
  BY <1>2, <1>3

\* The cursor is all that advances.
LEMMA AdvanceType ==
    ASSUME NEW v \in World
    PROVE  LET w == [v EXCEPT !.cursor = v.last] IN
           w \in World /\ w.last = v.last /\ w.cursor = v.last
  BY DEF World

\* An append leaves the log as it is, because it holds the event, or adds the event.
LEMMA CommittedEffect ==
    ASSUME TypeOK, NEW a \in Agents, NEW e \in Event, Committed(a, e)
    PROVE  /\ log' \in [Agents -> Seq(Event)]
           /\ \A b \in Agents : b # a => log'[b] = log[b]
           /\ \/ InLog(a, e) /\ log'[a] = log[a]
              \/ ~InLog(a, e) /\ log'[a] = Append(log[a], e)
           /\ \E i \in DOMAIN log'[a] : log'[a][i] = e
<1>1. log \in [Agents -> Seq(Event)]
  BY DEF TypeOK
<1>2. CASE InLog(a, e)
  BY <1>1, <1>2 DEF Committed, InLog
<1>3. CASE ~InLog(a, e)
  <2>1. log' = [log EXCEPT ![a] = Append(log[a], e)]
    BY <1>3 DEF Committed
  <2>2. log[a] \in Seq(Event) /\ Append(log[a], e) \in Seq(Event)
    BY <1>1
  <2>3. /\ log' \in [Agents -> Seq(Event)]
        /\ \A b \in Agents : b # a => log'[b] = log[b]
        /\ log'[a] = Append(log[a], e)
    BY <1>1, <2>1, <2>2
  <2>4. Len(log[a]) + 1 \in DOMAIN log'[a] /\ log'[a][Len(log[a]) + 1] = e
    BY <2>2, <2>3
  <2> QED
    BY <1>3, <2>3, <2>4
<1> QED
  BY <1>2, <1>3

-----------------------------------------------------------------------------
\* The local variables of a tick that ends have the values of one that has not begun.
LEMMA EndTickType ==
    ASSUME TypeOK, NEW a \in Agents, EndTick(a)
    PROVE  /\ pc' \in [Agents -> {"idle", "load", "fetch", "append", "save"}]
           /\ world' \in [Agents -> World]
           /\ pos' \in [Agents -> Nat]
           /\ outgoing' \in [Agents -> Seq(Event)]
  BY DEF TypeOK, EndTick, EmptyWorld, World

LEMMA AfterAppendType ==
    ASSUME TypeOK, NEW a \in Agents, AfterAppend(a)
    PROVE  /\ pc' \in [Agents -> {"idle", "load", "fetch", "append", "save"}]
           /\ world' \in [Agents -> World]
<1>1. Advance(world[a], a \in runners) \in World
  BY AdvanceType DEF TypeOK, Advance
<1> QED
  BY <1>1 DEF TypeOK, AfterAppend

\* A world that the tick has just folded up to the end of the log.
FoldedUp(a, w) ==
    /\ Len(log[a]) > 0
    /\ w.last = log[a][Len(log[a])]
    /\ w.cursor = NoEvent

\* FetchAndRun reacts to the world, goes on to save a world with new events that needs
\* no reaction, or ends the tick.
LEMMA FetchAndRunEffect ==
    ASSUME TypeOK, NEW a \in Agents, FetchAndRun(a)
    PROVE  \E w \in World :
              /\ FoldedUp(a, w) \/ (w = world[a] /\ pos[a] >= Len(log[a]))
              /\ \/ /\ FSM(w) # <<>>
                    /\ world' = [world EXCEPT ![a] = w]
                    /\ pos' = [pos EXCEPT ![a] = Len(log[a])]
                    /\ outgoing' = [outgoing EXCEPT ![a] = FSM(w)]
                    /\ pc' = [pc EXCEPT ![a] = "append"]
                 \/ /\ FSM(w) = <<>>
                    /\ FoldedUp(a, w)
                    /\ world' = [world EXCEPT ![a] = [w EXCEPT !.cursor = w.last]]
                    /\ pos' = [pos EXCEPT ![a] = Len(log[a])]
                    /\ pc' = [pc EXCEPT ![a] = "save"]
                    /\ outgoing' = outgoing
                 \/ EndTick(a)
<1> DEFINE batch == SubSeq(log[a], pos[a] + 1, Len(log[a]))
           w == Fold(world[a], batch)
<1>1. /\ log[a] \in Seq(Event)
      /\ world[a] \in World
      /\ pos[a] \in Nat
  BY DEF TypeOK
<1>2. /\ w \in World
      /\ batch = <<>> => w = world[a]
      /\ batch # <<>> => FoldedUp(a, w)
      /\ pos[a] < Len(log[a]) => batch # <<>>
  BY <1>1, FoldType DEF FoldedUp
<1>3. \/ /\ FSM(w) # <<>>
         /\ world' = [world EXCEPT ![a] = w]
         /\ pos' = [pos EXCEPT ![a] = Len(log[a])]
         /\ outgoing' = [outgoing EXCEPT ![a] = FSM(w)]
         /\ pc' = [pc EXCEPT ![a] = "append"]
      \/ /\ FSM(w) = <<>>
         /\ batch # <<>>
         /\ world' = [world EXCEPT ![a] = Advance(w, TRUE)]
         /\ pos' = [pos EXCEPT ![a] = Len(log[a])]
         /\ pc' = [pc EXCEPT ![a] = "save"]
         /\ outgoing' = outgoing
      \/ EndTick(a)
  BY DEF FetchAndRun
<1> HIDE DEF batch, w
<1>4. Advance(w, TRUE) = [w EXCEPT !.cursor = w.last]
  BY DEF Advance
<1>5. Len(log[a]) \in Nat
  BY <1>1
<1>6. FoldedUp(a, w) \/ (w = world[a] /\ pos[a] >= Len(log[a]))
  BY <1>1, <1>2, <1>5
<1> QED
  BY <1>2, <1>3, <1>4, <1>6

\* The types, and what makes Head(outgoing[a]) an event.
TypeInv ==
    /\ TypeOK
    /\ \A a \in Agents : pc[a] = "append" => outgoing[a] # <<>>

\* The first event to append, and the rest.
LEMMA OutgoingParts ==
    ASSUME TypeInv, NEW a \in Agents, pc[a] = "append"
    PROVE  /\ Head(outgoing[a]) \in Event
           /\ Tail(outgoing[a]) \in Seq(Event)
           /\ \A e : Contains(outgoing[a], e)
                        => e = Head(outgoing[a]) \/ Contains(Tail(outgoing[a]), e)
           /\ \A e : Contains(Tail(outgoing[a]), e) => Contains(outgoing[a], e)
           /\ Contains(outgoing[a], Head(outgoing[a]))
<1> DEFINE s == outgoing[a]
<1>1. s \in Seq(Event) /\ s # <<>>
  BY DEF TypeInv, TypeOK
<1> HIDE DEF s
<1>2. /\ Head(s) = s[1] /\ 1 \in 1 .. Len(s) /\ Len(s) \in Nat
      /\ Tail(s) \in Seq(Event)
      /\ Len(Tail(s)) = Len(s) - 1
      /\ \A i \in 1 .. Len(s) - 1 : Tail(s)[i] = s[i + 1]
      /\ s[1] \in Event
  BY <1>1
<1>3. \A e : Contains(s, e) => e = Head(s) \/ Contains(Tail(s), e)
  <2> SUFFICES ASSUME NEW i \in 1 .. Len(s), s[i] # Head(s)
               PROVE  Contains(Tail(s), s[i])
    BY DEF Contains
  <2>1. i - 1 \in 1 .. Len(Tail(s)) /\ Tail(s)[i - 1] = s[i]
    BY <1>2
  <2> QED
    BY <2>1 DEF Contains
<1>4. \A e : Contains(Tail(s), e) => Contains(s, e)
  <2> SUFFICES ASSUME NEW i \in 1 .. Len(Tail(s))
               PROVE  Contains(s, Tail(s)[i])
    BY DEF Contains
  <2>1. i + 1 \in 1 .. Len(s) /\ Tail(s)[i] = s[i + 1]
    BY <1>2
  <2> QED
    BY <2>1 DEF Contains
<1>5. Contains(s, Head(s))
  BY <1>2 DEF Contains
<1> QED
  BY <1>2, <1>3, <1>4, <1>5 DEF s

\* Logs, checkpoints and local variables keep their types, and a tick that waits to
\* append has something to append.
LEMMA TypeInvariant == FairSpec => []TypeInv
<1>1. Init => TypeInv
  BY DispatcherAssumption
     DEF Init, TypeInv, TypeOK, World, EmptyWorld, DispatcherAssumption
<1>2. TypeInv /\ [Next]_vars => TypeInv'
  <2> SUFFICES ASSUME TypeInv, [Next]_vars PROVE TypeInv'
    OBVIOUS
  <2> USE DEF TypeInv
  <2>1. ASSUME NEW a \in Agents, NEW s \in Seeds, Produce(a, s) PROVE TypeInv'
    <3>1. [seed |-> s, type |-> "seed"] \in Event
      BY DEF Event
    <3> QED
      BY <2>1, <3>1 DEF Produce, TypeOK, local
  <2>2. ASSUME StartRound PROVE TypeInv'
    BY <2>2 DEF StartRound, TypeOK, local
  <2>3. ASSUME NEW a \in Agents, Load(a) PROVE TypeInv'
    BY <2>3 DEF Load, TypeOK
  <2>4. ASSUME NEW a \in Agents, FetchNothing(a) PROVE TypeInv'
    BY <2>4, EndTickType DEF FetchNothing, EndTick, TypeOK
  <2>5. ASSUME NEW a \in Agents, FetchAndRun(a) PROVE TypeInv'
    <3>1. UNCHANGED <<log, ckpt, faults>> /\ runners' = {a}
      BY <2>5 DEF FetchAndRun
    <3>2. Len(log[a]) \in Nat
      BY DEF TypeOK
    <3>3. PICK w \in World :
             \/ /\ FSM(w) # <<>>
                /\ world' = [world EXCEPT ![a] = w]
                /\ pos' = [pos EXCEPT ![a] = Len(log[a])]
                /\ outgoing' = [outgoing EXCEPT ![a] = FSM(w)]
                /\ pc' = [pc EXCEPT ![a] = "append"]
             \/ /\ world' = [world EXCEPT ![a] = [w EXCEPT !.cursor = w.last]]
                /\ pos' = [pos EXCEPT ![a] = Len(log[a])]
                /\ pc' = [pc EXCEPT ![a] = "save"]
                /\ outgoing' = outgoing
             \/ EndTick(a)
      BY <2>5, FetchAndRunEffect
    <3>4. FSM(w) \in Seq(Event) /\ [w EXCEPT !.cursor = w.last] \in World
      BY FSMType, AdvanceType
    <3>5. /\ pc' \in [Agents -> {"idle", "load", "fetch", "append", "save"}]
          /\ world' \in [Agents -> World]
          /\ pos' \in [Agents -> Nat]
          /\ outgoing' \in [Agents -> Seq(Event)]
      <4>1. CASE EndTick(a)
        BY <4>1, EndTickType
      <4>2. ASSUME ~EndTick(a)
            PROVE  \E v \in World, out \in Seq(Event), phase \in {"append", "save"} :
                      /\ world' = [world EXCEPT ![a] = v]
                      /\ pos' = [pos EXCEPT ![a] = Len(log[a])]
                      /\ outgoing' = [outgoing EXCEPT ![a] = out]
                      /\ pc' = [pc EXCEPT ![a] = phase]
        <5>1. outgoing = [outgoing EXCEPT ![a] = outgoing[a]] /\ outgoing[a] \in Seq(Event)
          BY DEF TypeOK
        <5> QED
          BY <4>2, <3>3, <3>4, <5>1
      <4>3. ASSUME ~EndTick(a)
            PROVE  world' \in [Agents -> World] /\ pos' \in [Agents -> Nat]
        <5>1. PICK v \in World : world' = [world EXCEPT ![a] = v]
          BY <4>2, <4>3
        <5>2. pos' = [pos EXCEPT ![a] = Len(log[a])]
          BY <4>2, <4>3
        <5>3. world \in [Agents -> World] /\ pos \in [Agents -> Nat]
          BY DEF TypeOK
        <5>4. world' \in [Agents -> World]
          BY <5>1, <5>3
        <5>5. pos' \in [Agents -> Nat]
          BY <5>2, <5>3, <3>2
        <5> QED
          BY <5>4, <5>5
      <4>4. ASSUME ~EndTick(a)
            PROVE  /\ outgoing' \in [Agents -> Seq(Event)]
                   /\ pc' \in [Agents -> {"idle", "load", "fetch", "append", "save"}]
        <5>1. PICK out \in Seq(Event), phase \in {"append", "save"} :
                 /\ outgoing' = [outgoing EXCEPT ![a] = out]
                 /\ pc' = [pc EXCEPT ![a] = phase]
          BY <4>2, <4>4
        <5>2. /\ outgoing \in [Agents -> Seq(Event)]
              /\ pc \in [Agents -> {"idle", "load", "fetch", "append", "save"}]
          BY DEF TypeOK
        <5>3. outgoing' \in [Agents -> Seq(Event)]
          BY <5>1, <5>2
        <5>4. pc' \in [Agents -> {"idle", "load", "fetch", "append", "save"}]
          BY <5>1, <5>2
        <5> QED
          BY <5>3, <5>4
      <4> QED
        BY <4>1, <4>3, <4>4
    <3>6. \A b \in Agents : pc'[b] = "append" => outgoing'[b] # <<>>
      BY <3>3 DEF TypeOK, EndTick
    <3> QED
      BY <3>1, <3>5, <3>6 DEF TypeOK
  <2>6. ASSUME NEW a \in Agents, AppendOne(a) PROVE TypeInv'
    <3>1. /\ Head(outgoing[a]) \in Event
          /\ Tail(outgoing[a]) \in Seq(Event)
      BY <2>6, OutgoingParts DEF AppendOne
    <3>2. log' \in [Agents -> Seq(Event)]
      BY <2>6, <3>1, CommittedEffect DEF AppendOne
    <3>3. /\ outgoing' = [outgoing EXCEPT ![a] = Tail(outgoing[a])]
          /\ UNCHANGED <<ckpt, pos, runners, faults>>
      BY <2>6 DEF AppendOne
    <3>4. \/ Tail(outgoing[a]) = <<>> /\ AfterAppend(a)
          \/ Tail(outgoing[a]) # <<>> /\ UNCHANGED <<world, pc>>
      BY <2>6 DEF AppendOne
    <3>5. /\ pc' \in [Agents -> {"idle", "load", "fetch", "append", "save"}]
          /\ world' \in [Agents -> World]
      BY <3>4, AfterAppendType DEF TypeOK
    <3>6. outgoing' \in [Agents -> Seq(Event)]
      BY <3>1, <3>3 DEF TypeOK
    <3>7. \A b \in Agents : pc'[b] = "append" => outgoing'[b] # <<>>
      <4>1. outgoing'[a] = Tail(outgoing[a])
        BY <3>3 DEF TypeOK
      <4>2. \A b \in Agents : b # a => outgoing'[b] = outgoing[b]
        BY <3>3 DEF TypeOK
      <4> QED
        BY <3>4, <4>1, <4>2 DEF AfterAppend, TypeOK
    <3> QED
      BY <3>2, <3>3, <3>5, <3>6, <3>7 DEF TypeOK
  <2>7. ASSUME NEW a \in Agents, Save(a) PROVE TypeInv'
    <3>1. [world |-> world[a], pos |-> pos[a]] \in [world : World, pos : Nat]
      BY DEF TypeOK
    <3> QED
      BY <2>7, <3>1, EndTickType DEF Save, EndTick, TypeOK
  <2>8. ASSUME NEW a \in Agents, LoadFails(a) PROVE TypeInv'
    BY <2>8, DispatcherAssumption
       DEF LoadFails, Fault, TypeOK, EmptyWorld, World, DispatcherAssumption
  <2>9. ASSUME NEW a \in Agents, AppendFails(a) PROVE TypeInv'
    <3>1. Head(outgoing[a]) \in Event
      BY <2>9, OutgoingParts DEF AppendFails
    <3>2. log' \in [Agents -> Seq(Event)]
      BY <2>9, <3>1, CommittedEffect DEF AppendFails, TypeOK
    <3>3. /\ outgoing' = [outgoing EXCEPT ![a] = <<>>]
          /\ UNCHANGED <<ckpt, pos, runners>>
          /\ AfterAppend(a)
          /\ faults < MaxFaults /\ faults' = faults + 1
      BY <2>9 DEF AppendFails, Fault
    <3>4. faults' \in 0 .. MaxFaults
      BY <3>3, DispatcherAssumption DEF TypeOK, DispatcherAssumption
    <3>5. outgoing' \in [Agents -> Seq(Event)]
      BY <3>3 DEF TypeOK
    <3>6. /\ pc' \in [Agents -> {"idle", "load", "fetch", "append", "save"}]
          /\ world' \in [Agents -> World]
      BY <3>3, AfterAppendType
    <3>7. \A b \in Agents : pc'[b] = "append" => outgoing'[b] # <<>>
      BY <3>3 DEF AfterAppend, TypeOK
    <3> QED
      BY <3>2, <3>3, <3>4, <3>5, <3>6, <3>7 DEF TypeOK
  <2>10. ASSUME NEW a \in Agents, SaveFails(a) PROVE TypeInv'
    <3>1. EndTick(a) /\ UNCHANGED <<log, ckpt, runners>>
      BY <2>10 DEF SaveFails
    <3>2. faults' \in 0 .. MaxFaults
      BY <2>10, DispatcherAssumption DEF SaveFails, Fault, TypeOK, DispatcherAssumption
    <3>3. \A b \in Agents : pc'[b] = "append" => outgoing'[b] # <<>>
      BY <3>1 DEF EndTick, TypeOK
    <3> QED
      BY <3>1, <3>2, <3>3, EndTickType DEF TypeOK
  <2>11. ASSUME Crash PROVE TypeInv'
    BY <2>11, DispatcherAssumption
       DEF Crash, Fault, TypeOK, EmptyWorld, World, DispatcherAssumption
  <2>12. ASSUME UNCHANGED vars PROVE TypeInv'
    BY <2>12 DEF vars, local, TypeOK
  <2> QED
    BY <2>1, <2>2, <2>3, <2>4, <2>5, <2>6, <2>7, <2>8, <2>9, <2>10, <2>11, <2>12
       DEF Next, Tick
<1> QED
  BY <1>1, <1>2, PTL DEF FairSpec, Spec

\* The type invariant of the run, for every instance.
THEOREM TypeCorrect == FairSpec => []TypeOK
  BY TypeInvariant, PTL DEF TypeInv

-----------------------------------------------------------------------------
\* A step of the dispatcher as one agent sees it.

LocalsStay(a) ==
    /\ pc'[a] = pc[a]
    /\ world'[a] = world[a]
    /\ pos'[a] = pos[a]
    /\ outgoing'[a] = outgoing[a]

\* Nothing, or a new seed.
Stays(a) ==
    /\ LocalsStay(a)
    /\ ckpt'[a] = ckpt[a]
    /\ \/ log'[a] = log[a]
       \/ \E e \in Event : /\ e.type = "seed"
                           /\ ~InLog(a, e)
                           /\ log'[a] = Append(log[a], e)

\* The tick is over, or about to begin.
Rests(a) ==
    /\ pc'[a] \in {"idle", "load"}
    /\ ckpt'[a] = ckpt[a]
    /\ log'[a] = log[a]

Saves(a) ==
    /\ pc[a] = "save"
    /\ pc'[a] = "idle"
    /\ ckpt'[a] = [world |-> world[a], pos |-> pos[a]]
    /\ log'[a] = log[a]

Loads(a) ==
    /\ pc'[a] = "fetch"
    /\ \/ world'[a] = ckpt[a].world /\ pos'[a] = ckpt[a].pos
       \/ world'[a] = EmptyWorld /\ pos'[a] = 0
    /\ ckpt'[a] = ckpt[a]
    /\ log'[a] = log[a]

Reacts(a) ==
    /\ pc[a] = "fetch"
    /\ pc'[a] = "append"
    /\ FoldedUp(a, world'[a]) \/ (world'[a] = world[a] /\ pos[a] >= Len(log[a]))
    /\ pos'[a] = Len(log[a])
    /\ outgoing'[a] = FSM(world'[a])
    /\ outgoing'[a] # <<>>
    /\ world'[a] \in World
    /\ ckpt'[a] = ckpt[a]
    /\ log'[a] = log[a]

Passes(a) ==
    /\ pc'[a] = "save"
    /\ \E w \in World : /\ FSM(w) = <<>>
                        /\ FoldedUp(a, w)
                        /\ world'[a] = [w EXCEPT !.cursor = w.last]
    /\ pos'[a] = Len(log[a])
    /\ ckpt'[a] = ckpt[a]
    /\ log'[a] = log[a]

AppendsHead(a) ==
    \/ InLog(a, Head(outgoing[a])) /\ log'[a] = log[a]
    \/ ~InLog(a, Head(outgoing[a])) /\ log'[a] = Append(log[a], Head(outgoing[a]))

GoesOnToSave(a) ==
    /\ pc'[a] = "save"
    /\ world'[a].last = world[a].last
    /\ world'[a].cursor \in {world[a].cursor, world[a].last}

Appends(a) ==
    /\ pc[a] = "append"
    /\ AppendsHead(a)
    /\ outgoing'[a] = Tail(outgoing[a])
    /\ \/ Tail(outgoing[a]) # <<>> /\ pc'[a] = "append" /\ world'[a] = world[a]
       \/ Tail(outgoing[a]) = <<>> /\ GoesOnToSave(a)
    /\ pos'[a] = pos[a]
    /\ ckpt'[a] = ckpt[a]

GivesUp(a) ==
    /\ "append" \in Faults
    /\ pc[a] = "append"
    /\ log'[a] = log[a] \/ AppendsHead(a)
    /\ GoesOnToSave(a)
    /\ pos'[a] = pos[a]
    /\ ckpt'[a] = ckpt[a]

AgentStep(a) ==
    Stays(a) \/ Rests(a) \/ Saves(a) \/ Loads(a) \/ Reacts(a) \/ Passes(a) \/ Appends(a) \/ GivesUp(a)

\* For the agents beside the one that acts, nothing happens.
LEMMA OthersStay ==
    ASSUME TypeInv, NEW a \in Agents, NEW b \in Agents, b # a,
           Load(a) \/ LoadFails(a) \/ FetchNothing(a) \/ FetchAndRun(a) \/ AppendOne(a)
              \/ AppendFails(a) \/ Save(a) \/ SaveFails(a)
    PROVE  Stays(b)
<1> USE DEF TypeInv, TypeOK
<1>1. CASE Load(a) \/ LoadFails(a)
  BY <1>1 DEF Load, LoadFails, Stays, LocalsStay
<1>2. CASE FetchNothing(a)
  BY <1>2 DEF FetchNothing, EndTick, Stays, LocalsStay
<1>3. CASE FetchAndRun(a)
  <2>1. PICK w \in World :
             \/ /\ world' = [world EXCEPT ![a] = w]
                /\ pos' = [pos EXCEPT ![a] = Len(log[a])]
                /\ outgoing' = [outgoing EXCEPT ![a] = FSM(w)]
                /\ pc' = [pc EXCEPT ![a] = "append"]
             \/ /\ world' = [world EXCEPT ![a] = [w EXCEPT !.cursor = w.last]]
                /\ pos' = [pos EXCEPT ![a] = Len(log[a])]
                /\ pc' = [pc EXCEPT ![a] = "save"]
                /\ outgoing' = outgoing
             \/ EndTick(a)
    BY <1>3, FetchAndRunEffect
  <2>2. LocalsStay(b)
    BY <2>1 DEF LocalsStay, EndTick
  <2> QED
    BY <2>2, <1>3 DEF FetchAndRun, Stays
<1>4. CASE AppendOne(a) \/ AppendFails(a)
  <2>1. Head(outgoing[a]) \in Event
    BY <1>4, OutgoingParts DEF AppendOne, AppendFails
  <2>2. log'[b] = log[b]
    BY <1>4, <2>1, CommittedEffect DEF AppendOne, AppendFails
  <2>3. LocalsStay(b) /\ ckpt'[b] = ckpt[b]
    BY <1>4 DEF AppendOne, AppendFails, AfterAppend, LocalsStay
  <2> QED
    BY <2>2, <2>3 DEF Stays
<1>5. CASE Save(a) \/ SaveFails(a)
  BY <1>5 DEF Save, SaveFails, EndTick, Stays, LocalsStay
<1> QED
  BY <1>1, <1>2, <1>3, <1>4, <1>5

\* What becomes of the agent that appends.
LEMMA AppendsOrGivesUp ==
    ASSUME TypeInv, NEW a \in Agents, AppendOne(a) \/ AppendFails(a)
    PROVE  Appends(a) \/ GivesUp(a)
<1>1. pc[a] = "append" /\ Head(outgoing[a]) \in Event
  BY OutgoingParts DEF AppendOne, AppendFails
<1>2. Committed(a, Head(outgoing[a])) => AppendsHead(a)
  BY <1>1, CommittedEffect DEF AppendsHead, TypeInv
<1>3. AfterAppend(a) => GoesOnToSave(a)
  <2> SUFFICES ASSUME AfterAppend(a) PROVE GoesOnToSave(a)
    OBVIOUS
  <2>1. /\ pc'[a] = "save"
        /\ world'[a] = Advance(world[a], a \in runners)
    BY DEF AfterAppend, TypeInv, TypeOK
  <2>2. world[a] \in World
    BY DEF TypeInv, TypeOK
  <2> QED
    BY <2>1, <2>2, AdvanceType DEF Advance, GoesOnToSave
<1>4. CASE AppendOne(a)
  <2>1. outgoing'[a] = Tail(outgoing[a]) /\ pos'[a] = pos[a] /\ ckpt'[a] = ckpt[a]
    BY <1>4 DEF AppendOne, TypeInv, TypeOK
  <2>2. \/ Tail(outgoing[a]) # <<>> /\ UNCHANGED <<world, pc>>
        \/ Tail(outgoing[a]) = <<>> /\ AfterAppend(a)
    BY <1>4 DEF AppendOne
  <2>3. Committed(a, Head(outgoing[a]))
    BY <1>4 DEF AppendOne
  <2> QED
    BY <1>1, <1>2, <1>3, <2>1, <2>2, <2>3 DEF Appends
<1>5. CASE AppendFails(a)
  <2>1. /\ "append" \in Faults
        /\ pos'[a] = pos[a] /\ ckpt'[a] = ckpt[a]
        /\ log' = log \/ Committed(a, Head(outgoing[a]))
        /\ AfterAppend(a)
    BY <1>5 DEF AppendFails, Fault
  <2> QED
    BY <1>1, <1>2, <1>3, <2>1 DEF GivesUp
<1> QED
  BY <1>4, <1>5

LEMMA EveryStepIsAgentStep ==
    ASSUME TypeInv, [Next]_vars, NEW b \in Agents
    PROVE  AgentStep(b)
<1> USE DEF AgentStep
<1>1. ASSUME NEW a \in Agents, NEW s \in Seeds, Produce(a, s) PROVE Stays(b)
  <2>1. /\ LocalsStay(b)
        /\ ckpt'[b] = ckpt[b]
    BY <1>1 DEF Produce, local, LocalsStay
  <2>2. CASE b # a
    BY <1>1, <2>1, <2>2 DEF Produce, Stays, TypeInv, TypeOK
  <2>3. CASE b = a
    <3> DEFINE e == [seed |-> s, type |-> "seed"]
    <3>1. e \in Event /\ e.type = "seed"
      BY DEF Event
    <3>2. ~InLog(b, e) /\ log'[b] = Append(log[b], e)
      BY <1>1, <2>3 DEF Produce, TypeInv, TypeOK
    <3> QED
      BY <2>1, <3>1, <3>2 DEF Stays
  <2> QED
    BY <2>2, <2>3
<1>2. CASE StartRound
  BY <1>2 DEF StartRound, Rests
<1>3. CASE Load(b) \/ LoadFails(b)
  BY <1>3 DEF Load, LoadFails, Loads, TypeInv, TypeOK
<1>4. CASE FetchNothing(b)
  BY <1>4 DEF FetchNothing, EndTick, Rests, TypeInv, TypeOK
<1>5. CASE FetchAndRun(b)
  <2>1. pc[b] = "fetch" /\ UNCHANGED <<log, ckpt>>
    BY <1>5 DEF FetchAndRun
  <2>2. PICK w \in World :
           /\ FoldedUp(b, w) \/ (w = world[b] /\ pos[b] >= Len(log[b]))
           /\ \/ /\ FSM(w) # <<>>
                 /\ world' = [world EXCEPT ![b] = w]
                 /\ pos' = [pos EXCEPT ![b] = Len(log[b])]
                 /\ outgoing' = [outgoing EXCEPT ![b] = FSM(w)]
                 /\ pc' = [pc EXCEPT ![b] = "append"]
              \/ /\ FSM(w) = <<>>
                 /\ FoldedUp(b, w)
                 /\ world' = [world EXCEPT ![b] = [w EXCEPT !.cursor = w.last]]
                 /\ pos' = [pos EXCEPT ![b] = Len(log[b])]
                 /\ pc' = [pc EXCEPT ![b] = "save"]
                 /\ outgoing' = outgoing
              \/ EndTick(b)
    BY <1>5, FetchAndRunEffect DEF TypeInv
  <2>3. ASSUME FSM(w) # <<>>,
               world' = [world EXCEPT ![b] = w],
               pos' = [pos EXCEPT ![b] = Len(log[b])],
               outgoing' = [outgoing EXCEPT ![b] = FSM(w)],
               pc' = [pc EXCEPT ![b] = "append"]
        PROVE  Reacts(b)
    <3>1. /\ world'[b] = w /\ pos'[b] = Len(log[b])
          /\ outgoing'[b] = FSM(w) /\ pc'[b] = "append"
      BY <2>3 DEF TypeInv, TypeOK
    <3>2. FoldedUp(b, world'[b]) \/ (world'[b] = world[b] /\ pos[b] >= Len(log[b]))
      BY <2>2, <3>1 DEF FoldedUp
    <3> QED
      BY <2>1, <2>3, <3>1, <3>2 DEF Reacts
  <2>4. ASSUME FSM(w) = <<>>,
               FoldedUp(b, w),
               world' = [world EXCEPT ![b] = [w EXCEPT !.cursor = w.last]],
               pos' = [pos EXCEPT ![b] = Len(log[b])],
               pc' = [pc EXCEPT ![b] = "save"]
        PROVE  Passes(b)
    <3>1. /\ world'[b] = [w EXCEPT !.cursor = w.last]
          /\ pos'[b] = Len(log[b]) /\ pc'[b] = "save"
      BY <2>4 DEF TypeInv, TypeOK
    <3> QED
      BY <2>1, <2>4, <3>1 DEF Passes
  <2>5. EndTick(b) => Rests(b)
    BY <2>1 DEF EndTick, Rests, TypeInv, TypeOK
  <2> QED
    BY <2>2, <2>3, <2>4, <2>5
<1>6. CASE AppendOne(b) \/ AppendFails(b)
  BY <1>6, AppendsOrGivesUp
<1>7. CASE Save(b)
  BY <1>7 DEF Save, EndTick, Saves, TypeInv, TypeOK
<1>8. CASE SaveFails(b)
  BY <1>8 DEF SaveFails, EndTick, Rests, TypeInv, TypeOK
<1>9. CASE Crash
  BY <1>9 DEF Crash, Rests
<1>10. CASE UNCHANGED vars
  BY <1>10 DEF vars, local, Stays, LocalsStay
<1> QED
  BY <1>1, <1>2, <1>3, <1>4, <1>5, <1>6, <1>7, <1>8, <1>9, <1>10, OthersStay DEF Next, Tick

-----------------------------------------------------------------------------
\* The log grows at its end, by a seed or by what the agent has to append.
LEMMA LogGrows ==
    ASSUME TypeInv, NEW a \in Agents, AgentStep(a)
    PROVE  \/ log'[a] = log[a]
           \/ \E e \in Event :
                 /\ ~InLog(a, e)
                 /\ log'[a] = Append(log[a], e)
                 /\ \/ e.type = "seed"
                    \/ pc[a] = "append" /\ e = Head(outgoing[a])
<1>1. pc[a] = "append" => Head(outgoing[a]) \in Event
  BY OutgoingParts
<1> QED
  BY <1>1 DEF AgentStep, Stays, Rests, Saves, Loads, Reacts, Passes, Appends, GivesUp,
              AppendsHead

LEMMA LogExtends ==
    ASSUME TypeInv, NEW a \in Agents, AgentStep(a)
    PROVE  /\ log[a] \in Seq(Event)
           /\ Len(log[a]) <= Len(log'[a])
           /\ Len(log'[a]) \in Nat
           /\ \A i \in 1 .. Len(log[a]) : log'[a][i] = log[a][i]
           /\ \A e : InLog(a, e) => \E i \in DOMAIN log'[a] : log'[a][i] = e
<1>1. log[a] \in Seq(Event)
  BY DEF TypeInv, TypeOK
<1>2. log'[a] = log[a] \/ \E e \in Event : log'[a] = Append(log[a], e)
  BY LogGrows
<1>3. /\ Len(log[a]) <= Len(log'[a])
      /\ Len(log'[a]) \in Nat
      /\ \A i \in 1 .. Len(log[a]) : log'[a][i] = log[a][i]
      /\ DOMAIN log[a] = 1 .. Len(log[a])
      /\ DOMAIN log'[a] = 1 .. Len(log'[a])
  BY <1>1, <1>2
<1>4. \A e : InLog(a, e) => \E i \in DOMAIN log'[a] : log'[a][i] = e
  BY <1>1, <1>3 DEF InLog
<1> QED
  BY <1>1, <1>3, <1>4

\* A world that is the fold of a prefix stays so while the log grows.
LEMMA PrefixStays ==
    ASSUME TypeInv, NEW a \in Agents, AgentStep(a),
           NEW w, NEW p \in Nat, FoldOfPrefix(w, p, a)
    PROVE  /\ p <= Len(log'[a])
           /\ w.last = IF p = 0 THEN NoEvent ELSE log'[a][p]
           /\ w.cursor \in {NoEvent, w.last}
<1>1. Len(log[a]) \in Nat
  BY LogExtends
<1> QED
  BY <1>1, LogExtends DEF FoldOfPrefix

\* What load brings, what a tick folds, and what save writes, are folds of prefixes.
LEMMA PrefixesStep ==
    ASSUME TypeInv, NEW a \in Agents, AgentStep(a),
           CheckpointIsPrefix, TickIsPrefix
    PROVE  /\ FoldOfPrefix(ckpt[a].world, ckpt[a].pos, a)'
           /\ (pc[a] \in {"fetch", "append", "save"} => FoldOfPrefix(world[a], pos[a], a))'
<1>1. /\ ckpt[a] \in [world : World, pos : Nat]
      /\ world[a] \in World /\ pos[a] \in Nat
  BY DEF TypeInv, TypeOK
<1>2. /\ FoldOfPrefix(ckpt[a].world, ckpt[a].pos, a)
      /\ pc[a] \in {"fetch", "append", "save"} => FoldOfPrefix(world[a], pos[a], a)
  BY DEF CheckpointIsPrefix, TickIsPrefix
<1> DEFINE Fits(w, p) ==
      /\ p <= Len(log'[a])
      /\ w.last = IF p = 0 THEN NoEvent ELSE log'[a][p]
      /\ w.cursor \in {NoEvent, w.last}
<1>3. Fits(ckpt[a].world, ckpt[a].pos)
  BY <1>1, <1>2, PrefixStays
<1>4. pc[a] \in {"fetch", "append", "save"} => Fits(world[a], pos[a])
  BY <1>1, <1>2, PrefixStays
<1>5. Fits(EmptyWorld, 0)
  BY LogExtends DEF EmptyWorld
<1>6. \A w \in World : FoldedUp(a, w) => Fits(w, Len(log[a]))
  BY LogExtends DEF FoldedUp
<1>7. \A w \in World, p \in Nat : Fits(w, p) => Fits([w EXCEPT !.cursor = w.last], p)
  BY DEF World
<1>8. Fits(ckpt'[a].world, ckpt'[a].pos)
  <2>1. CASE Saves(a)
    BY <2>1, <1>4 DEF Saves
  <2>2. CASE ~Saves(a)
    <3>1. ckpt'[a] = ckpt[a]
      BY <2>2 DEF AgentStep, Stays, Rests, Loads, Reacts, Passes, Appends, GivesUp
    <3> QED
      BY <3>1, <1>3
  <2> QED
    BY <2>1, <2>2
<1>9. pc'[a] \in {"fetch", "append", "save"} => Fits(world'[a], pos'[a])
  <2>1. CASE Stays(a)
    BY <2>1, <1>4 DEF Stays, LocalsStay
  <2>2. CASE Rests(a) \/ Saves(a)
    BY <2>2 DEF Rests, Saves
  <2>3. CASE Loads(a)
    BY <2>3, <1>3, <1>5 DEF Loads
  <2>4. CASE Reacts(a)
    <3>1. CASE FoldedUp(a, world'[a])
      BY <2>4, <3>1, <1>6 DEF Reacts
    <3>2. CASE world'[a] = world[a] /\ pos[a] >= Len(log[a])
      <4>1. pos[a] <= Len(log[a]) /\ Len(log[a]) \in Nat /\ pc[a] = "fetch"
        BY <2>4, <1>2, LogExtends DEF Reacts, FoldOfPrefix
      <4>2. pos'[a] = pos[a]
        BY <2>4, <3>2, <4>1, <1>1 DEF Reacts
      <4> QED
        BY <3>2, <4>1, <4>2, <1>4
    <3> QED
      BY <2>4, <3>1, <3>2 DEF Reacts
  <2>5. CASE Passes(a)
    <3>1. PICK w \in World : /\ FoldedUp(a, w)
                             /\ world'[a] = [w EXCEPT !.cursor = w.last]
      BY <2>5 DEF Passes
    <3>2. Len(log[a]) \in Nat /\ pos'[a] = Len(log[a])
      BY <2>5, LogExtends DEF Passes
    <3> QED
      BY <3>1, <3>2, <1>6, <1>7
  <2>6. CASE Appends(a) \/ GivesUp(a)
    <3>1. /\ pc[a] = "append"
          /\ pos'[a] = pos[a]
          /\ world'[a].last = world[a].last
          /\ world'[a].cursor \in {world[a].cursor, world[a].last}
      BY <2>6 DEF Appends, GivesUp, GoesOnToSave
    <3> QED
      BY <3>1, <1>4
  <2> QED
    BY <2>1, <2>2, <2>3, <2>4, <2>5, <2>6 DEF AgentStep
<1> QED
  BY <1>8, <1>9 DEF FoldOfPrefix

\* An event that is added is new, and if it is no seed, its cause is in the log.
LEMMA LogIsCausalStep ==
    ASSUME TypeInv, NEW a \in Agents, AgentStep(a),
           LogIsCausal, TickIsPrefix, OutgoingIsReaction
    PROVE  (\A i \in DOMAIN log[a] :
               /\ \A j \in DOMAIN log[a] : log[a][i] = log[a][j] => i = j
               /\ log[a][i].type # "seed" =>
                     \E j \in 1 .. i - 1 :
                         External(log[a][j]) /\ Contains(Reaction(log[a][j]), log[a][i]))'
<1> DEFINE n == Len(log[a])
<1>1. /\ log[a] \in Seq(Event) /\ n \in Nat
      /\ DOMAIN log[a] = 1 .. n
  BY DEF TypeInv, TypeOK
<1>2. CASE log'[a] = log[a]
  BY <1>2 DEF LogIsCausal
<1>3. ASSUME NEW e \in Event,
             ~InLog(a, e),
             log'[a] = Append(log[a], e),
             e.type = "seed" \/ (pc[a] = "append" /\ e = Head(outgoing[a]))
      PROVE  (\A i \in DOMAIN log[a] :
               /\ \A j \in DOMAIN log[a] : log[a][i] = log[a][j] => i = j
               /\ log[a][i].type # "seed" =>
                     \E j \in 1 .. i - 1 :
                         External(log[a][j]) /\ Contains(Reaction(log[a][j]), log[a][i]))'
  <2>1. /\ DOMAIN log'[a] = 1 .. n + 1
        /\ log'[a][n + 1] = e
        /\ \A i \in 1 .. n : log'[a][i] = log[a][i]
    BY <1>1, <1>3
  <2>2. \A i \in 1 .. n : log[a][i] # e
    BY <1>1, <1>3 DEF InLog
  <2>3. ASSUME NEW i \in 1 .. n + 1, NEW j \in 1 .. n + 1, log'[a][i] = log'[a][j]
        PROVE  i = j
    <3>1. CASE i \in 1 .. n /\ j \in 1 .. n
      BY <1>1, <2>1, <2>3, <3>1 DEF LogIsCausal
    <3>2. CASE i = n + 1 \/ j = n + 1
      BY <1>1, <2>1, <2>2, <2>3, <3>2
    <3> QED
      BY <1>1, <3>1, <3>2
  <2>4. ASSUME NEW i \in 1 .. n, log'[a][i].type # "seed"
        PROVE  \E j \in 1 .. i - 1 :
                  External(log'[a][j]) /\ Contains(Reaction(log'[a][j]), log'[a][i])
    <3>1. PICK j \in 1 .. i - 1 :
             External(log[a][j]) /\ Contains(Reaction(log[a][j]), log[a][i])
      BY <1>1, <2>1, <2>4 DEF LogIsCausal
    <3>2. j \in 1 .. n
      BY <1>1, <3>1
    <3> QED
      BY <2>1, <3>1, <3>2
  <2>5. ASSUME e.type # "seed"
        PROVE  \E j \in 1 .. (n + 1) - 1 :
                  External(log'[a][j]) /\ Contains(Reaction(log'[a][j]), e)
    <3>1. pc[a] = "append" /\ e = Head(outgoing[a])
      BY <1>3, <2>5
    <3>2. External(world[a].last) /\ Contains(Reaction(world[a].last), e)
      <4>1. Contains(outgoing[a], e)
        BY <3>1, OutgoingParts
      <4>2. outgoing[a] \in Seq(Event)
        BY DEF TypeInv, TypeOK
      <4> QED
        BY <3>1, <4>1, <4>2 DEF OutgoingIsReaction, Contains
    <3>3. /\ pos[a] \in Nat /\ pos[a] <= n
          /\ world[a].last = IF pos[a] = 0 THEN NoEvent ELSE log[a][pos[a]]
      BY <3>1 DEF TickIsPrefix, FoldOfPrefix, TypeInv, TypeOK
    <3>4. pos[a] # 0
      BY <3>2, <3>3 DEF External
    <3>5. pos[a] \in 1 .. n
      BY <1>1, <3>3, <3>4
    <3> QED
      BY <1>1, <2>1, <3>2, <3>3, <3>4, <3>5
  <2> HIDE DEF n
  <2> QED
    BY <1>1, <2>1, <2>3, <2>4, <2>5
<1> QED
  BY <1>2, <1>3, LogGrows

\* A tick starts out with the reaction to what it folded, and appends it from the front.
LEMMA OutgoingStep ==
    ASSUME TypeInv, NEW a \in Agents, AgentStep(a), OutgoingIsReaction
    PROVE  (pc[a] = "append" =>
              /\ outgoing[a] # <<>>
              /\ External(world[a].last)
              /\ \A k \in DOMAIN outgoing[a] :
                    Contains(Reaction(world[a].last), outgoing[a][k]))'
<1>1. CASE Stays(a)
  BY <1>1 DEF Stays, LocalsStay, OutgoingIsReaction
<1>2. CASE Reacts(a)
  <2>1. /\ world'[a] \in World
        /\ outgoing'[a] = FSM(world'[a])
        /\ outgoing'[a] # <<>>
    BY <1>2 DEF Reacts
  <2>2. /\ outgoing'[a] \in Seq(Event)
        /\ External(world'[a].last)
        /\ outgoing'[a] = Reaction(world'[a].last)
    BY <2>1, FSMType
  <2>3. DOMAIN outgoing'[a] = 1 .. Len(outgoing'[a])
    BY <2>2
  <2> QED
    BY <2>1, <2>2, <2>3 DEF Contains
<1>3. CASE Appends(a) /\ Tail(outgoing[a]) # <<>>
  <2>1. /\ outgoing'[a] = Tail(outgoing[a])
        /\ world'[a] = world[a]
        /\ pc[a] = "append"
    BY <1>3 DEF Appends, GoesOnToSave
  <2>2. /\ Tail(outgoing[a]) \in Seq(Event)
        /\ outgoing[a] \in Seq(Event)
        /\ \A e : Contains(Tail(outgoing[a]), e) => Contains(outgoing[a], e)
    BY <2>1, OutgoingParts DEF TypeInv, TypeOK
  <2>3. /\ DOMAIN Tail(outgoing[a]) = 1 .. Len(Tail(outgoing[a]))
        /\ DOMAIN outgoing[a] = 1 .. Len(outgoing[a])
    BY <2>2
  <2>4. \A k \in DOMAIN Tail(outgoing[a]) : Contains(outgoing[a], Tail(outgoing[a])[k])
    BY <2>2, <2>3 DEF Contains
  <2>5. \A e : Contains(outgoing[a], e) => Contains(Reaction(world[a].last), e)
    <3> SUFFICES ASSUME NEW i \in 1 .. Len(outgoing[a])
                 PROVE  Contains(Reaction(world[a].last), outgoing[a][i])
      BY DEF Contains
    <3> QED
      BY <2>1, <2>3 DEF OutgoingIsReaction
  <2> QED
    BY <1>3, <2>1, <2>4, <2>5 DEF OutgoingIsReaction
<1>4. ASSUME ~Stays(a), ~Reacts(a), ~(Appends(a) /\ Tail(outgoing[a]) # <<>>)
      PROVE  pc'[a] # "append"
  BY <1>4 DEF AgentStep, Rests, Saves, Loads, Passes, Appends, GivesUp, GoesOnToSave
<1> QED
  BY <1>1, <1>2, <1>3, <1>4

\* Without failing appends a tick reaches save only when its reaction is in the log.
LEMMA AccountedForStep ==
    ASSUME TypeInv, NEW a \in Agents, AgentStep(a),
           "append" \notin Faults, ReactionsAccountedFor
    PROVE  (LET r == Reaction(world[a].last) IN
            /\ pc[a] = "append" =>
                  \A k \in DOMAIN r : InLog(a, r[k]) \/ Contains(outgoing[a], r[k])
            /\ pc[a] = "save" /\ External(world[a].last) => AllInLog(a, r))'
<1> DEFINE InNewLog(e) == \E i \in DOMAIN log'[a] : log'[a][i] = e
           r == Reaction(world[a].last)
           q == Reaction(world'[a].last)
<1>1. \A e : InLog(a, e) => InNewLog(e)
  BY LogExtends
<1> SUFFICES /\ pc'[a] = "append" =>
                   \A k \in DOMAIN q : InNewLog(q[k]) \/ Contains(outgoing'[a], q[k])
             /\ pc'[a] = "save" /\ External(world'[a].last) =>
                   \A k \in DOMAIN q : InNewLog(q[k])
  BY DEF AllInLog, InLog
<1>2. /\ pc[a] = "append" => \A k \in DOMAIN r : InLog(a, r[k]) \/ Contains(outgoing[a], r[k])
      /\ pc[a] = "save" /\ External(world[a].last) => \A k \in DOMAIN r : InLog(a, r[k])
  BY DEF ReactionsAccountedFor, AllInLog
<1> HIDE DEF InNewLog
<1>3. CASE Stays(a)
  BY <1>1, <1>2, <1>3 DEF Stays, LocalsStay
<1>4. CASE Rests(a) \/ Saves(a) \/ Loads(a)
  BY <1>4 DEF Rests, Saves, Loads
<1>5. CASE Reacts(a)
  <2>1. /\ pc'[a] = "append"
        /\ outgoing'[a] \in Seq(Event)
        /\ outgoing'[a] = q
    BY <1>5, FSMType DEF Reacts
  <2>2. DOMAIN q = 1 .. Len(q)
    BY <2>1
  <2> QED
    BY <2>1, <2>2 DEF Contains
<1>6. CASE Passes(a)
  <2>1. PICK w \in World : /\ FSM(w) = <<>>
                           /\ w.cursor = NoEvent
                           /\ world'[a] = [w EXCEPT !.cursor = w.last]
    BY <1>6 DEF Passes, FoldedUp
  <2>2. world'[a].last = w.last
    BY <2>1 DEF World
  <2>3. External(w.last) => Reaction(w.last) = <<>>
    BY <2>1, FSMType DEF External
  <2>4. pc'[a] = "save"
    BY <1>6 DEF Passes
  <2> QED
    BY <2>2, <2>3, <2>4
<1>7. CASE Appends(a)
  <2>1. /\ pc[a] = "append"
        /\ world'[a].last = world[a].last
        /\ outgoing'[a] = Tail(outgoing[a])
        /\ Tail(outgoing[a]) = <<>> => pc'[a] = "save"
        /\ Tail(outgoing[a]) # <<>> => pc'[a] = "append"
    BY <1>7 DEF Appends, GoesOnToSave
  <2>2. InNewLog(Head(outgoing[a]))
    <3>1. log[a] \in Seq(Event) /\ Head(outgoing[a]) \in Event
      BY <2>1, OutgoingParts DEF TypeInv, TypeOK
    <3>2. CASE InLog(a, Head(outgoing[a]))
      BY <1>1, <3>2
    <3>3. CASE log'[a] = Append(log[a], Head(outgoing[a]))
      <4>1. /\ Len(log[a]) + 1 \in DOMAIN log'[a]
            /\ log'[a][Len(log[a]) + 1] = Head(outgoing[a])
        BY <3>1, <3>3
      <4> QED
        BY <4>1 DEF InNewLog
    <3> QED
      BY <1>7, <3>2, <3>3 DEF Appends, AppendsHead
  <2>3. \A k \in DOMAIN r : InNewLog(r[k]) \/ Contains(Tail(outgoing[a]), r[k])
    BY <1>1, <1>2, <2>1, <2>2, OutgoingParts
  <2>4. \A e : ~Contains(<<>>, e)
    BY DEF Contains
  <2> QED
    BY <2>1, <2>3, <2>4
<1> QED
  BY <1>3, <1>4, <1>5, <1>6, <1>7 DEF AgentStep, GivesUp

\* What is behind the saved cursor stays answered while the log grows.
LEMMA AppendedBeforeSavedStep ==
    ASSUME TypeInv, NEW a \in Agents, AgentStep(a),
           ReactionsAccountedFor, AppendedBeforeSaved
    PROVE  (LET t == ckpt[a].world.last IN External(t) => AllInLog(a, Reaction(t)))'
<1> DEFINE InNewLog(e) == \E i \in DOMAIN log'[a] : log'[a][i] = e
           t == ckpt'[a].world.last
<1>1. \A e : InLog(a, e) => InNewLog(e)
  BY LogExtends
<1> SUFFICES ASSUME External(t)
             PROVE  \A k \in DOMAIN Reaction(t) : InNewLog(Reaction(t)[k])
  BY DEF AllInLog, InLog
<1> HIDE DEF InNewLog
<1>2. CASE Saves(a)
  <2>1. t = world[a].last /\ pc[a] = "save"
    BY <1>2 DEF Saves
  <2> QED
    BY <1>1, <2>1 DEF ReactionsAccountedFor, AllInLog
<1>3. CASE ~Saves(a)
  <2>1. t = ckpt[a].world.last
    BY <1>3 DEF AgentStep, Stays, Rests, Loads, Reacts, Passes, Appends, GivesUp
  <2> QED
    BY <1>1, <2>1 DEF AppendedBeforeSaved, AllInLog
<1> QED
  BY <1>2, <1>3

-----------------------------------------------------------------------------
\* The inductive invariant: ticks and checkpoints are folds of prefixes, what is still to
\* append is the reaction to the last event folded, and the log is causal.
THEOREM DispatchInvariant == FairSpec => []DispatchInv
<1>1. Init => DispatchInv
  <2> SUFFICES ASSUME Init PROVE DispatchInv
    OBVIOUS
  <2>1. /\ \A a \in Agents : log[a] = <<>> /\ pc[a] = "idle"
        /\ \A a \in Agents : ckpt[a].world = EmptyWorld /\ ckpt[a].pos = 0
    BY DEF Init
  <2>2. ~External(NoEvent)
    BY DEF External
  <2> QED
    BY <2>1, <2>2 DEF DispatchInv, LogIsCausal, CheckpointIsPrefix, FoldOfPrefix, TickIsPrefix,
       OutgoingIsReaction, ReactionsAccountedFor, AppendedBeforeSaved, EmptyWorld
<1>2. TypeInv /\ DispatchInv /\ [Next]_vars => DispatchInv'
  <2> SUFFICES ASSUME TypeInv, DispatchInv, [Next]_vars PROVE DispatchInv'
    OBVIOUS
  <2>1. \A a \in Agents : AgentStep(a)
    BY EveryStepIsAgentStep
  <2>2. LogIsCausal'
    BY <2>1, LogIsCausalStep DEF DispatchInv, LogIsCausal
  <2>3. CheckpointIsPrefix' /\ TickIsPrefix'
    BY <2>1, PrefixesStep DEF DispatchInv, CheckpointIsPrefix, TickIsPrefix
  <2>4. OutgoingIsReaction'
    BY <2>1, OutgoingStep DEF DispatchInv, OutgoingIsReaction
  <2>5. "append" \notin Faults => ReactionsAccountedFor'
    BY <2>1, AccountedForStep DEF DispatchInv, ReactionsAccountedFor
  <2>6. "append" \notin Faults => AppendedBeforeSaved'
    BY <2>1, AppendedBeforeSavedStep DEF DispatchInv, AppendedBeforeSaved
  <2> QED
    BY <2>2, <2>3, <2>4, <2>5, <2>6 DEF DispatchInv
<1> QED
  BY <1>1, <1>2, TypeInvariant, PTL DEF FairSpec, Spec

\* Whatever crashes and whichever checkpoint is lost, no event is in the log twice and no
\* reaction stands before its cause.
THEOREM LogStaysCausal == FairSpec => []LogIsCausal
  BY DispatchInvariant, PTL DEF DispatchInv

\* The world in a checkpoint is the fold of the entries up to its cursor.
THEOREM CheckpointsArePrefixes == FairSpec => []CheckpointIsPrefix
  BY DispatchInvariant, PTL DEF DispatchInv

\* "Durability ordering: append before save", as long as append returns no Err.
THEOREM AppendsBeforeSaves ==
    ASSUME "append" \notin Faults
    PROVE  FairSpec => []AppendedBeforeSaved
<1>1. DispatchInv => AppendedBeforeSaved
  BY DEF DispatchInv
<1> QED
  BY <1>1, DispatchInvariant, PTL

-----------------------------------------------------------------------------
\* An agent alone.

\* Its runners are its own: a tick that has something to append finds itself there, and
\* what it is about to save has its cursor.
CursorInv ==
    \A a \in Agents :
        /\ ckpt[a].world.cursor = ckpt[a].world.last
        /\ pc[a] = "append" => a \in runners
        /\ pc[a] = "save" => world[a].cursor = world[a].last

\* After the last append the cursor advances for the agent that is among the runners.
LEMMA AdvanceAlone ==
    ASSUME TypeOK, NEW a \in Agents, a \in runners, AfterAppend(a)
    PROVE  /\ \A b \in Agents \ {a} : pc'[b] = pc[b] /\ world'[b] = world[b]
           /\ pc'[a] = "save"
           /\ world'[a].cursor = world'[a].last
<1>1. world[a] \in World
  BY DEF TypeOK
<1>2. world' = [world EXCEPT ![a] = [world[a] EXCEPT !.cursor = world[a].last]]
  BY DEF AfterAppend, Advance
<1>3. world'[a] = [world[a] EXCEPT !.cursor = world[a].last]
  BY <1>2 DEF TypeOK
<1>4. world'[a].cursor = world'[a].last
  BY <1>1, <1>3, AdvanceType
<1>5. pc' = [pc EXCEPT ![a] = "save"] /\ world \in [Agents -> World] /\ DOMAIN pc = Agents
  BY DEF AfterAppend, TypeOK
<1> QED
  BY <1>2, <1>4, <1>5

LEMMA CursorStep ==
    ASSUME TypeInv, CursorInv, [Next]_vars, \A a, b \in Agents : a = b
    PROVE  CursorInv'
<1> USE DEF TypeInv
<1>1. ASSUME NEW a \in Agents, NEW s \in Seeds, Produce(a, s) PROVE CursorInv'
  BY <1>1 DEF Produce, CursorInv, local
<1>2. ASSUME StartRound PROVE CursorInv'
  BY <1>2 DEF StartRound, CursorInv, local, TypeOK
<1>3. ASSUME NEW a \in Agents, Load(a) \/ LoadFails(a) PROVE CursorInv'
  BY <1>3 DEF Load, LoadFails, CursorInv, TypeOK
<1>4. ASSUME NEW a \in Agents, EndTick(a), UNCHANGED <<ckpt, runners>> PROVE CursorInv'
  BY <1>4 DEF EndTick, CursorInv, TypeOK
<1>5. ASSUME NEW a \in Agents, FetchAndRun(a) PROVE CursorInv'
  <2>1. UNCHANGED ckpt /\ runners' = {a} /\ \A b \in Agents : b = a
    BY <1>5 DEF FetchAndRun
  <2>2. PICK w \in World :
           \/ /\ world' = [world EXCEPT ![a] = w]
              /\ pc' = [pc EXCEPT ![a] = "append"]
           \/ /\ world' = [world EXCEPT ![a] = [w EXCEPT !.cursor = w.last]]
              /\ pc' = [pc EXCEPT ![a] = "save"]
           \/ EndTick(a)
    BY <1>5, FetchAndRunEffect
  <2>3. CASE pc' = [pc EXCEPT ![a] = "append"]
    BY <2>1, <2>3 DEF CursorInv, TypeOK
  <2>4. CASE /\ world' = [world EXCEPT ![a] = [w EXCEPT !.cursor = w.last]]
             /\ pc' = [pc EXCEPT ![a] = "save"]
    <3>1. world'[a] = [w EXCEPT !.cursor = w.last] /\ pc'[a] = "save"
      BY <2>4 DEF TypeOK
    <3>2. world'[a].cursor = world'[a].last
      BY <3>1, AdvanceType
    <3> QED
      BY <2>1, <3>1, <3>2 DEF CursorInv
  <2>5. CASE EndTick(a)
    <3>1. pc'[a] = "idle"
      BY <2>5 DEF EndTick, TypeOK
    <3> QED
      BY <2>1, <3>1 DEF CursorInv
  <2> QED
    BY <2>2, <2>3, <2>4, <2>5
<1>6. ASSUME NEW a \in Agents, pc[a] = "append", AfterAppend(a), UNCHANGED <<ckpt, runners>>
      PROVE  CursorInv'
  BY <1>6, AdvanceAlone DEF CursorInv
<1>7. ASSUME NEW a \in Agents, AppendOne(a) PROVE CursorInv'
  <2>1. CASE AfterAppend(a)
    BY <1>6, <1>7, <2>1 DEF AppendOne
  <2>2. CASE UNCHANGED <<world, pc>>
    BY <1>7, <2>2 DEF AppendOne, CursorInv
  <2> QED
    BY <1>7, <2>1, <2>2 DEF AppendOne
<1>8. ASSUME NEW a \in Agents, AppendFails(a) PROVE CursorInv'
  BY <1>6, <1>8 DEF AppendFails
<1>9. ASSUME NEW a \in Agents, Save(a) PROVE CursorInv'
  <2>1. ckpt' = [ckpt EXCEPT ![a] = [world |-> world[a], pos |-> pos[a]]]
    BY <1>9 DEF Save
  <2>2. ckpt'[a].world = world[a] /\ world[a].cursor = world[a].last
    BY <1>9, <2>1 DEF Save, CursorInv, TypeOK
  <2>3. pc'[a] = "idle" /\ \A b \in Agents : b = a
    BY <1>9 DEF Save, EndTick, TypeOK
  <2> QED
    BY <2>2, <2>3 DEF CursorInv
<1>10. ASSUME Crash PROVE CursorInv'
  BY <1>10 DEF Crash, CursorInv
<1>11. ASSUME UNCHANGED vars PROVE CursorInv'
  BY <1>11 DEF vars, local, CursorInv
<1>12. \A a \in Agents : FetchNothing(a) \/ SaveFails(a) => CursorInv'
  BY <1>4 DEF FetchNothing, SaveFails
<1> QED
  BY <1>1, <1>2, <1>3, <1>5, <1>7, <1>8, <1>9, <1>10, <1>11, <1>12 DEF Next, Tick

\* A single agent, with no one to clear _tick_runners between its system's run and its save,
\* always saves a cursor that says the system ran, whatever fails.
THEOREM CursorFollowsAlone ==
    ASSUME \A a, b \in Agents : a = b
    PROVE  FairSpec => []CursorFollowsRun
<1>1. Init => CursorInv
  BY DEF Init, CursorInv, EmptyWorld
<1>2. TypeInv /\ CursorInv /\ [Next]_vars => CursorInv'
  BY CursorStep
<1>3. CursorInv => CursorFollowsRun
  BY DEF CursorInv, CursorFollowsRun
<1> QED
  BY <1>1, <1>2, <1>3, TypeInvariant, PTL DEF FairSpec, Spec
=============================================================================
