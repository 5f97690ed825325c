----------------------------- MODULE Dispatcher -----------------------------
(***************************************************************************)
(* ReactiveDispatcher.dispatch_once with one FSMSystem.                    *)
(*                                                                         *)
(* A round ticks every tracked agent; the ticks are coroutines of one      *)
(* event loop and interleave where they await Redis.  A tick loads the     *)
(* agent's checkpoint, reads the log behind its cursor, folds, runs the    *)
(* system, appends what it emits one event at a time, and saves.  Between  *)
(* two awaits a tick runs alone, so each action below is one such stretch. *)
(*                                                                         *)
(* The world of an agent is what the tick and the system look at: the last *)
(* event folded and the system's cursor (ADR-074).  EventLog.append is the *)
(* promise of AtomicLog: an event id that is in the log is not added again.*)
(***************************************************************************)
EXTENDS Integers, Sequences, SequencesExt

CONSTANTS
    Agents,     \* the tracked agents
    Seeds,      \* external events
    SeedsOf,    \* agent -> the external events its producers append
    Outcome,    \* seed -> what the transition table makes of it
    IdleTicks,  \* tool_ttls is configured: systems run on ticks without new events
    Faults,     \* the kinds of fault that may happen
    MaxFaults   \* bound of the model: number of faults

ASSUME DispatcherAssumption ==
    /\ SeedsOf \in [Agents -> SUBSET Seeds]
    /\ Outcome \in [Seeds -> {"moves", "enters", "rejects"}]
    /\ IdleTicks \in BOOLEAN
    /\ Faults \subseteq {"crash", "load", "save", "append"}
    /\ MaxFaults \in Nat

\* An event: a seed, or what the FSM emits because of it (causation enters the id).
Event == [seed : Seeds,
          type : {"seed", "transitioned", "entry", "rejected", "entry_rejected"}]

\* "No event" and "from the beginning of the stream".
NoEvent == [type |-> "none"]

World == [last : Event \cup {NoEvent}, cursor : Event \cup {NoEvent}]
EmptyWorld == [last |-> NoEvent, cursor |-> NoEvent]

VARIABLES
    log,       \* agent -> its stream
    ckpt,      \* agent -> the saved checkpoint: world and stream cursor
    pc,        \* agent -> where its tick waits
    world,     \* agent -> local variable of its tick
    pos,       \* agent -> local variable: last_stream_id
    outgoing,  \* agent -> events of the tick still to append
    runners,   \* _tick_runners, one set for all ticks: agents the system ran for
    faults     \* number of faults so far

local == <<world, pos, outgoing>>
vars == <<log, ckpt, pc, world, pos, outgoing, runners, faults>>

TypeOK ==
    /\ log \in [Agents -> Seq(Event)]
    /\ ckpt \in [Agents -> [world : World, pos : Nat]]
    /\ pc \in [Agents -> {"idle", "load", "fetch", "append", "save"}]
    /\ world \in [Agents -> World]
    /\ pos \in [Agents -> Nat]
    /\ outgoing \in [Agents -> Seq(Event)]
    /\ runners \subseteq Agents
    /\ faults \in 0 .. MaxFaults

Init ==
    /\ log = [a \in Agents |-> <<>>]
    /\ ckpt = [a \in Agents |-> [world |-> EmptyWorld, pos |-> 0]]
    /\ pc = [a \in Agents |-> "idle"]
    /\ world = [a \in Agents |-> EmptyWorld]
    /\ pos = [a \in Agents |-> 0]
    /\ outgoing = [a \in Agents |-> <<>>]
    /\ runners = {}
    /\ faults = 0

InLog(a, e) == \E i \in DOMAIN log[a] : log[a][i] = e
AllInLog(a, events) == \A k \in DOMAIN events : InLog(a, events[k])

-----------------------------------------------------------------------------
\* The FSM system.

\* _FSM_OWN_EVENT_TYPES; an on_entry event is not one of them.
OwnEvent(e) == e.type \in {"transitioned", "rejected", "entry_rejected"}

External(e) == e # NoEvent /\ ~OwnEvent(e)

\* What the FSM emits for a trigger: a pure function of it and of the fold before it.
\* An on_entry event is no declared trigger, so it is rejected in its turn.
Reaction(e) ==
    LET emit(t) == [seed |-> e.seed, type |-> t]
    IN  IF e.type = "entry" THEN <<emit("entry_rejected")>>
        ELSE CASE Outcome[e.seed] = "moves" -> <<emit("transitioned")>>
               [] Outcome[e.seed] = "enters" -> <<emit("transitioned"), emit("entry")>>
               [] Outcome[e.seed] = "rejects" -> <<emit("rejected")>>

\* FSMSystem.__call__: the gate on the cursor, the check of its own types, the trigger.
\* The trigger is the last event of the view, whatever came before it in the batch.
FSM(v) ==
    IF External(v.last) /\ v.cursor # v.last THEN Reaction(v.last) ELSE <<>>

\* Folding a batch of domain events makes a view without cursors.
Fold(v, batch) ==
    IF batch = <<>> THEN v ELSE [last |-> Last(batch), cursor |-> NoEvent]

\* _advance_cursors_in_world.
Advance(v, ran) == IF ran THEN [v EXCEPT !.cursor = v.last] ELSE v

-----------------------------------------------------------------------------
\* A producer appends an event.
Produce(a, s) ==
    /\ s \in SeedsOf[a]
    /\ ~InLog(a, [seed |-> s, type |-> "seed"])
    /\ log' = [log EXCEPT ![a] = Append(@, [seed |-> s, type |-> "seed"])]
    /\ UNCHANGED <<ckpt, pc, local, runners, faults>>

\* dispatch_once: gather starts the ticks of all agents; the next round waits for all.
StartRound ==
    /\ \A a \in Agents : pc[a] = "idle"
    /\ pc' = [a \in Agents |-> "load"]
    /\ UNCHANGED <<log, ckpt, local, runners, faults>>

Fault(kind) ==
    /\ kind \in Faults
    /\ faults < MaxFaults
    /\ faults' = faults + 1

\* IncrementalWorldStore.load
Load(a) ==
    /\ pc[a] = "load"
    /\ world' = [world EXCEPT ![a] = ckpt[a].world]
    /\ pos' = [pos EXCEPT ![a] = ckpt[a].pos]
    /\ pc' = [pc EXCEPT ![a] = "fetch"]
    /\ UNCHANGED <<log, ckpt, outgoing, runners, faults>>

\* Mutant of LoadFails: the beginning of the stream is one position too low.
LoadFailsTooLow(a) ==
    /\ pc[a] = "load"
    /\ Fault("load")
    /\ world' = [world EXCEPT ![a] = EmptyWorld]
    /\ pos' = [pos EXCEPT ![a] = -1]
    /\ pc' = [pc EXCEPT ![a] = "fetch"]
    /\ UNCHANGED <<log, ckpt, outgoing, runners>>

\* Mutant of LoadFails: the world is lost and its cursor kept.
LoadFailsCursorKept(a) ==
    /\ pc[a] = "load"
    /\ Fault("load")
    /\ world' = [world EXCEPT ![a] = EmptyWorld]
    /\ pos' = [pos EXCEPT ![a] = ckpt[a].pos]
    /\ pc' = [pc EXCEPT ![a] = "fetch"]
    /\ UNCHANGED <<log, ckpt, outgoing, runners>>

\* A storage error, or an expired checkpoint: an empty world from the beginning.
LoadFails(a) ==
    /\ pc[a] = "load"
    /\ Fault("load")
    /\ world' = [world EXCEPT ![a] = EmptyWorld]
    /\ pos' = [pos EXCEPT ![a] = 0]
    /\ pc' = [pc EXCEPT ![a] = "fetch"]
    /\ UNCHANGED <<log, ckpt, outgoing, runners>>

\* The tick is over and its local variables with it.
EndTick(a) ==
    /\ pc' = [pc EXCEPT ![a] = "idle"]
    /\ world' = [world EXCEPT ![a] = EmptyWorld]
    /\ pos' = [pos EXCEPT ![a] = 0]
    /\ outgoing' = [outgoing EXCEPT ![a] = <<>>]

\* No new events and no reason to run the systems.
FetchNothing(a) ==
    /\ pc[a] = "fetch"
    /\ pos[a] = Len(log[a])
    /\ ~IdleTicks
    /\ EndTick(a)
    /\ UNCHANGED <<log, ckpt, runners, faults>>

\* New events, or an idle tick: fold, clear the runners, run the system.  When it emits
\* nothing the cursor advances and a world with new events is saved, in one stretch.
FetchAndRun(a) ==
    LET batch == SubSeq(log[a], pos[a] + 1, Len(log[a]))
        folded == Fold(world[a], batch)
        out == FSM(folded)
    IN  /\ pc[a] = "fetch"
        /\ batch # <<>> \/ IdleTicks
        /\ runners' = {a}
        /\ \/ /\ out # <<>>
              /\ world' = [world EXCEPT ![a] = folded]
              /\ pos' = [pos EXCEPT ![a] = Len(log[a])]
              /\ outgoing' = [outgoing EXCEPT ![a] = out]
              /\ pc' = [pc EXCEPT ![a] = "append"]
           \/ /\ out = <<>>
              /\ batch # <<>>
              /\ world' = [world EXCEPT ![a] = Advance(folded, TRUE)]
              /\ pos' = [pos EXCEPT ![a] = Len(log[a])]
              /\ pc' = [pc EXCEPT ![a] = "save"]
              /\ UNCHANGED outgoing
           \/ /\ out = <<>>
              /\ batch = <<>>
              /\ EndTick(a)
        /\ UNCHANGED <<log, ckpt, faults>>

\* Mutant of AfterAppend: the cursor is left where it was.
AfterAppendNoCursor(a) ==
    /\ pc' = [pc EXCEPT ![a] = "save"]
    /\ UNCHANGED world

\* After append_batch returns, the cursor advances for those in _tick_runners now, and
\* the tick goes on to save.
AfterAppend(a) ==
    /\ world' = [world EXCEPT ![a] = Advance(@, a \in runners)]
    /\ pc' = [pc EXCEPT ![a] = "save"]

\* Mutant of Committed: an attempt that timed out after it was served is made again,
\* without the dedupe on the event id.
CommittedAgain(a, e) ==
    \/ log' = [log EXCEPT ![a] = Append(@, e)]
    \/ log' = [log EXCEPT ![a] = @ \o <<e, e>>]

Committed(a, e) ==
    log' = IF InLog(a, e) THEN log ELSE [log EXCEPT ![a] = Append(@, e)]

\* Mutant of AppendOne: only the first event of the batch is appended.
AppendFirst(a) ==
    /\ pc[a] = "append"
    /\ Committed(a, Head(outgoing[a]))
    /\ outgoing' = [outgoing EXCEPT ![a] = <<>>]
    /\ AfterAppend(a)
    /\ UNCHANGED <<ckpt, pos, runners, faults>>

\* One iteration of append_batch.
AppendOne(a) ==
    /\ pc[a] = "append"
    /\ Committed(a, Head(outgoing[a]))
    /\ outgoing' = [outgoing EXCEPT ![a] = Tail(@)]
    /\ IF Tail(outgoing[a]) = <<>> THEN AfterAppend(a) ELSE UNCHANGED <<world, pc>>
    /\ UNCHANGED <<ckpt, pos, runners, faults>>

\* append returns an Err, its event added or not; append_batch returns it at once and
\* its caller ignores it.
AppendFails(a) ==
    /\ pc[a] = "append"
    /\ Fault("append")
    /\ UNCHANGED log \/ Committed(a, Head(outgoing[a]))
    /\ outgoing' = [outgoing EXCEPT ![a] = <<>>]
    /\ AfterAppend(a)
    /\ UNCHANGED <<ckpt, pos, runners>>

\* Mutants of Save: the cursor saved is the newest stream id instead of the one read;
\* a tick whose last event is the system's own counts as clean and is not saved.
SaveNewest(a) ==
    /\ pc[a] = "save"
    /\ ckpt' = [ckpt EXCEPT ![a] = [world |-> world[a], pos |-> Len(log[a])]]
    /\ EndTick(a)
    /\ UNCHANGED <<log, runners, faults>>

SaveExternal(a) ==
    /\ pc[a] = "save"
    /\ ckpt' = IF OwnEvent(world[a].last) THEN ckpt
               ELSE [ckpt EXCEPT ![a] = [world |-> world[a], pos |-> pos[a]]]
    /\ EndTick(a)
    /\ UNCHANGED <<log, runners, faults>>

\* IncrementalWorldStore.save
Save(a) ==
    /\ pc[a] = "save"
    /\ ckpt' = [ckpt EXCEPT ![a] = [world |-> world[a], pos |-> pos[a]]]
    /\ EndTick(a)
    /\ UNCHANGED <<log, runners, faults>>

\* A storage error on save is logged and swallowed.
SaveFails(a) ==
    /\ pc[a] = "save"
    /\ Fault("save")
    /\ EndTick(a)
    /\ UNCHANGED <<log, ckpt, runners>>

\* The process dies and restarts; log and checkpoints survive.
Crash ==
    /\ Fault("crash")
    /\ pc' = [a \in Agents |-> "idle"]
    /\ world' = [a \in Agents |-> EmptyWorld]
    /\ pos' = [a \in Agents |-> 0]
    /\ outgoing' = [a \in Agents |-> <<>>]
    /\ runners' = {}
    /\ UNCHANGED <<log, ckpt>>

Tick(a) ==
    \/ Load(a)
    \/ FetchNothing(a)
    \/ FetchAndRun(a)
    \/ AppendOne(a)
    \/ Save(a)

Next ==
    \/ \E a \in Agents, s \in Seeds : Produce(a, s)
    \/ StartRound
    \/ \E a \in Agents : Tick(a)
    \/ \E a \in Agents : LoadFails(a)
    \/ \E a \in Agents : AppendFails(a)
    \/ \E a \in Agents : SaveFails(a)
    \/ Crash

Spec == Init /\ [][Next]_vars

\* The loop runs rounds for ever, and Redis answers every command in the end.
FairSpec ==
    /\ Spec
    /\ WF_vars(StartRound)
    /\ \A a \in Agents : WF_vars(Tick(a))

-----------------------------------------------------------------------------
\* Over crashes, lost checkpoints and refolds from the beginning, the log keeps one
\* copy of every event, and every event the system emitted stands behind its cause.
LogIsCausal ==
    \A a \in Agents : \A i \in DOMAIN log[a] :
        /\ \A j \in DOMAIN log[a] : log[a][i] = log[a][j] => i = j
        /\ log[a][i].type # "seed" =>
              \E j \in 1 .. i - 1 :
                  External(log[a][j]) /\ Contains(Reaction(log[a][j]), log[a][i])

\* World w is the fold of the first p entries of agent a's log.
FoldOfPrefix(w, p, a) ==
    /\ p <= Len(log[a])
    /\ w.last = IF p = 0 THEN NoEvent ELSE log[a][p]
    /\ w.cursor \in {NoEvent, w.last}

\* A checkpoint is the fold of exactly the prefix its cursor names.
CheckpointIsPrefix ==
    \A a \in Agents : FoldOfPrefix(ckpt[a].world, ckpt[a].pos, a)

\* "Durability ordering: append before save" (run_systems_and_persist): when the trigger
\* of a tick is behind the saved cursor, all that the system emitted for it is in the log.
AppendedBeforeSaved ==
    \A a \in Agents :
        LET t == ckpt[a].world.last IN
        External(t) => AllInLog(a, Reaction(t))

\* "The crash window between append and save is closed by the EventLog dedupe on the
\* next dispatch": no reaction is left half appended behind the saved cursor.
CrashWindowClosed ==
    \A a \in Agents : \A i \in 1 .. ckpt[a].pos :
        LET r == Reaction(log[a][i]) IN
        External(log[a][i]) /\ (\E k \in DOMAIN r : InLog(a, r[k]))
        => AllInLog(a, r)

\* "The cursor advances when the FSM RAN this tick": a saved world has been seen by the
\* system, and its cursor says so.
CursorFollowsRun ==
    \A a \in Agents : ckpt[a].world.cursor = ckpt[a].world.last

\* Intermediate events of a batch are skipped, "and the FSM will process them then", on
\* subsequent ticks: every seed is answered in the end.
SkippedAreProcessedLater ==
    \A a \in Agents : \A s \in SeedsOf[a] :
        LET e == [seed |-> s, type |-> "seed"] IN
        InLog(a, e) ~> \E k \in DOMAIN Reaction(e) : InLog(a, Reaction(e)[k])

\* Reactions to reactions come to an end, faults are made good, and the checkpoints
\* catch up with the log for good.
Settles == <>[](\A a \in Agents : ckpt[a].pos = Len(log[a]))

-----------------------------------------------------------------------------
\* Why the safety properties hold: the inductive invariants.

\* From load to save a tick holds the fold of the prefix that it will save.
TickIsPrefix ==
    \A a \in Agents :
        pc[a] \in {"fetch", "append", "save"} => FoldOfPrefix(world[a], pos[a], a)

\* What a tick still has to append are reactions to the last event it folded.
OutgoingIsReaction ==
    \A a \in Agents : pc[a] = "append" =>
        /\ outgoing[a] # <<>>
        /\ External(world[a].last)
        /\ \A k \in DOMAIN outgoing[a] : Contains(Reaction(world[a].last), outgoing[a][k])

\* As long as no append fails, what is not to be appended any more is in the log.
ReactionsAccountedFor ==
    \A a \in Agents :
        LET r == Reaction(world[a].last) IN
        /\ pc[a] = "append" =>
              \A k \in DOMAIN r : InLog(a, r[k]) \/ Contains(outgoing[a], r[k])
        /\ pc[a] = "save" /\ External(world[a].last) => AllInLog(a, r)

DispatchInv ==
    /\ LogIsCausal
    /\ CheckpointIsPrefix
    /\ TickIsPrefix
    /\ OutgoingIsReaction
    /\ "append" \notin Faults => ReactionsAccountedFor /\ AppendedBeforeSaved
=============================================================================
