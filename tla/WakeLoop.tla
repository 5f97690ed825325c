------------------------------ MODULE WakeLoop ------------------------------
(***************************************************************************)
(* ReactiveDispatcher._loop with wake_on_event: which agents are ticked,   *)
(* and when.                                                               *)
(*                                                                         *)
(* The loop blocks in subscribe on the streams of the agents it has a      *)
(* cursor for.  An arrival wakes the agents it belongs to; a wait without  *)
(* arrival ends in a full sweep, dispatch_once.  Ticks run under           *)
(* asyncio.gather, which raises the first exception of a tick and leaves   *)
(* the other ticks running: they are orphans from then on, and the next    *)
(* iteration of the loop may tick their agents a second time.              *)
(*                                                                         *)
(* A position in a stream is given by its lag, the number of entries       *)
(* behind it, so that producers may append for ever.                       *)
(***************************************************************************)
EXTENDS Integers, Sequences, FiniteSets

CONSTANTS
    Agents,
    Groups,     \* the agents by hash slot, in the order subscribe reads them
    Filtered,   \* agents all of whose events the filter_fn drops
    ToolTTLs,   \* tool_ttls is configured
    Faults,     \* the kinds of fault that may happen
    MaxFaults,  \* bound of the model: number of faults
    MaxLag      \* bound of the model: producers do not run further ahead

ASSUME WakeAssumption ==
    /\ Groups \in Seq(SUBSET Agents)
    /\ Groups # <<>>
    /\ Filtered \subseteq Agents
    /\ ToolTTLs \in BOOLEAN
    /\ Faults \subseteq {"load", "read", "save", "cut", "seed", "subscribe", "expire", "crash"}
    /\ MaxFaults \in Nat
    /\ MaxLag \in Nat

None == -1                      \* no key, no cursor: everything is behind it
Lag == (0 .. MaxLag) \cup {None}

\* Bound of the model: two ticks of an agent at a time, one of them an orphan.
Ticks == Agents \X {1, 2}

VARIABLES
    stream,     \* agents that have a stream
    payload,    \* agent -> position of the saved checkpoint
    cursorKey,  \* agent -> its companion cursor key
    tracked,    \* _tracked_agents
    cursors,    \* _subscribe_cursors
    loop,       \* where _wake_once is
    reading,    \* the group that subscribe reads
    streams,    \* agent -> position that this subscribe started from
    pc,         \* tick -> where it waits
    pos,        \* tick -> last_stream_id
    own,        \* ticks that the current gather waits for
    raced,      \* history: live ticks that met another live tick of their agent
    faults      \* number of faults so far

stored == <<stream, payload, cursorKey>>
waiting == <<reading, streams>>
ticks == <<pc, pos, own, raced>>
vars == <<stored, tracked, cursors, loop, waiting, ticks, faults>>

TypeOK ==
    /\ stream \subseteq Agents
    /\ payload \in [Agents -> Lag]
    /\ cursorKey \in [Agents -> Lag]
    /\ tracked \subseteq stream
    /\ cursors \in [Agents -> Lag]
    /\ loop \in {"boot", "top", "ready", "wait", "dispatch"}
    /\ reading \in 1 .. Len(Groups)
    /\ streams \in [Agents -> Lag]
    /\ pc \in [Ticks -> {"idle", "load", "fetch", "save", "save_cursor", "seed"}]
    /\ pos \in [Ticks -> Lag]
    /\ own \subseteq {t \in Ticks : pc[t] # "idle"}
    /\ raced \subseteq {t \in Ticks : pc[t] # "idle"}
    /\ faults \in 0 .. MaxFaults

Nowhere == [a \in Agents |-> None]

\* The process starts: nothing is tracked, no cursor is known, no tick runs.
Started ==
    /\ tracked' = {}
    /\ cursors' = Nowhere
    /\ loop' = "boot"
    /\ reading' = 1
    /\ streams' = Nowhere
    /\ pc' = [t \in Ticks |-> "idle"]
    /\ pos' = [t \in Ticks |-> None]
    /\ own' = {}
    /\ raced' = {}

Init ==
    /\ stream = {}
    /\ payload = Nowhere
    /\ cursorKey = Nowhere
    /\ tracked = {}
    /\ cursors = Nowhere
    /\ loop = "boot"
    /\ reading = 1
    /\ streams = Nowhere
    /\ pc = [t \in Ticks |-> "idle"]
    /\ pos = [t \in Ticks |-> None]
    /\ own = {}
    /\ raced = {}
    /\ faults = 0

Fault(kind) ==
    /\ kind \in Faults
    /\ faults < MaxFaults
    /\ faults' = faults + 1

Alive(t) == pc[t] # "idle"
Ticking(a) == \E t \in Ticks : t[1] = a /\ Alive(t)

-----------------------------------------------------------------------------
\* Producers and systems append; the first event makes the stream.
Older(lag) == IF lag = None THEN None ELSE lag + 1

Produce(a) ==
    /\ \A lag \in {payload[a], cursorKey[a], cursors[a], streams[a], pos[<<a, 1>>], pos[<<a, 2>>]} :
          lag < MaxLag
    /\ stream' = stream \cup {a}
    /\ payload' = [payload EXCEPT ![a] = Older(@)]
    /\ cursorKey' = [cursorKey EXCEPT ![a] = Older(@)]
    /\ cursors' = [cursors EXCEPT ![a] = Older(@)]
    /\ streams' = [streams EXCEPT ![a] = Older(@)]
    /\ pos' = [t \in Ticks |-> IF t[1] = a THEN Older(pos[t]) ELSE pos[t]]
    /\ UNCHANGED <<tracked, loop, reading, pc, own, raced, faults>>

\* Both keys of a checkpoint reach their time to live.
Expire(a) ==
    /\ Fault("expire")
    /\ payload[a] # None
    /\ payload' = [payload EXCEPT ![a] = None]
    /\ cursorKey' = [cursorKey EXCEPT ![a] = None]
    /\ UNCHANGED <<stream, tracked, cursors, loop, waiting, ticks>>

-----------------------------------------------------------------------------
\* _wake_once.

\* bootstrap_agents, on the first iteration and whenever its deadline has passed.
Rediscover ==
    /\ loop \in {"boot", "top"}
    /\ tracked' = stream
    /\ loop' = "ready"
    /\ UNCHANGED <<stored, cursors, waiting, ticks, faults>>

NotYetDue ==
    /\ loop = "top"
    /\ loop' = "ready"
    /\ UNCHANGED <<stored, tracked, cursors, waiting, ticks, faults>>

\* gather starts a tick for each of these agents.
Gather(agents) ==
    LET free(a) == IF Alive(<<a, 1>>) THEN <<a, 2>> ELSE <<a, 1>>
        started == {free(a) : a \in agents}
    IN  /\ \A t \in started : ~Alive(t)
        /\ pc' = [t \in Ticks |-> IF t \in started THEN "load" ELSE pc[t]]
        /\ own' = started
        /\ raced' = raced \cup {t \in Ticks : t[1] \in agents /\ Ticking(t[1])}
        /\ loop' = "dispatch"
        /\ UNCHANGED pos

\* Mutant of Sweep: only the agents that subscribe knows.
SweepSubscribed ==
    /\ Gather({a \in tracked : cursors[a] # None})
    /\ streams' = Nowhere
    /\ UNCHANGED <<stored, tracked, cursors, reading>>

\* dispatch_once, which may find its rediscovery due.
Sweep ==
    \E found \in {tracked, stream} :
        /\ tracked' = found
        /\ Gather(found)
        /\ streams' = Nowhere
        /\ UNCHANGED <<stored, cursors, reading>>

\* No agent has a cursor yet.
SweepUnsubscribed ==
    /\ loop = "ready"
    /\ cursors = Nowhere
    /\ Sweep
    /\ UNCHANGED faults

\* subscribe builds its map of streams from the cursors known now.
Subscribe ==
    /\ loop = "ready"
    /\ cursors # Nowhere
    /\ loop' = "wait"
    /\ reading' = 1
    /\ streams' = [a \in Agents |-> IF a \in tracked THEN cursors[a] ELSE None]
    /\ UNCHANGED <<stored, tracked, cursors, ticks, faults>>

Arrived == {a \in Groups[reading] : streams[a] > 0}

\* Mutant of Wake: the new cursors of all groups are merged, the first group is ticked.
WakeFirstGroup ==
    /\ loop = "wait"
    /\ Arrived # {}
    /\ cursors' = [a \in Agents |-> IF streams[a] > 0 THEN 0 ELSE cursors[a]]
    /\ streams' = Nowhere
    /\ Gather(Arrived)
    /\ UNCHANGED <<stored, tracked, reading, faults>>

\* The first group with an arrival ends the wait: merge the new cursors, tick the woken.
Wake ==
    /\ loop = "wait"
    /\ Arrived # {}
    /\ cursors' = [a \in Agents |-> IF a \in Arrived THEN 0 ELSE cursors[a]]
    /\ streams' = Nowhere
    /\ Gather(Arrived)
    /\ UNCHANGED <<stored, tracked, reading, faults>>

\* The read of a group ends without arrival; the last one ends the wait in a sweep.
ReadTimesOut ==
    /\ loop = "wait"
    /\ Arrived = {}
    /\ \/ /\ reading < Len(Groups)
          /\ reading' = reading + 1
          /\ UNCHANGED <<stored, tracked, cursors, loop, streams, ticks>>
       \/ /\ reading = Len(Groups)
          /\ Sweep
    /\ UNCHANGED faults

\* A transport error of subscribe: close the transport and sweep.
SubscribeFails ==
    /\ loop = "wait"
    /\ Fault("subscribe")
    /\ Sweep

\* All ticks of the gather have returned.
GatherReturns ==
    /\ loop = "dispatch"
    /\ own = {}
    /\ loop' = "top"
    /\ UNCHANGED <<stored, tracked, cursors, waiting, ticks, faults>>

-----------------------------------------------------------------------------
\* A tick: _dispatch_sem around _dispatch_for_agent.

Goto(t, p) == pc' = [pc EXCEPT ![t] = p]

End(t) ==
    /\ Goto(t, "idle")
    /\ pos' = [pos EXCEPT ![t] = None]
    /\ own' = own \ {t}
    /\ raced' = raced \ {t}

Load(t) ==
    /\ pc[t] = "load"
    /\ Goto(t, "fetch")
    /\ pos' = [pos EXCEPT ![t] = payload[t[1]]]
    /\ UNCHANGED <<stored, tracked, cursors, loop, waiting, own, raced, faults>>

\* A storage error on load: an empty world from the beginning.
LoadFails(t) ==
    /\ pc[t] = "load"
    /\ Fault("load")
    /\ Goto(t, "fetch")
    /\ UNCHANGED <<stored, tracked, cursors, loop, waiting, pos, own, raced>>

\* read_after_cursor; a batch that the filter drops whole is saved unless tool_ttls is set.
Fetch(t) ==
    LET saves == pos[t] # 0 /\ ~(ToolTTLs /\ t[1] \in Filtered)
    IN  /\ pc[t] = "fetch"
        /\ Goto(t, IF saves THEN "save" ELSE "seed")
        /\ pos' = [pos EXCEPT ![t] = IF saves THEN 0 ELSE None]
        /\ UNCHANGED <<stored, tracked, cursors, loop, waiting, own, raced, faults>>

\* Mutant of FetchFails: the gather waits for the tick that failed.
FetchFailsAwaited(t) ==
    /\ pc[t] = "fetch"
    /\ Fault("read")
    /\ Goto(t, "idle")
    /\ pos' = [pos EXCEPT ![t] = None]
    /\ raced' = raced \ {t}
    /\ UNCHANGED <<stored, tracked, cursors, loop, waiting, own>>

\* Reading, or a system, raises.  The gather that waits for the tick raises it, the loop
\* starts over, and the other ticks of the gather go on.
FetchFails(t) ==
    /\ pc[t] = "fetch"
    /\ Fault("read")
    /\ Goto(t, "idle")
    /\ pos' = [pos EXCEPT ![t] = None]
    /\ raced' = raced \ {t}
    /\ IF t \in own THEN own' = {} /\ loop' = "top" ELSE UNCHANGED <<own, loop>>
    /\ UNCHANGED <<stored, tracked, cursors, waiting>>

\* The pipeline of save: SET payload, SET cursor.
SavePayload(t) ==
    /\ pc[t] = "save"
    /\ payload' = [payload EXCEPT ![t[1]] = pos[t]]
    /\ Goto(t, "save_cursor")
    /\ UNCHANGED <<stream, cursorKey, tracked, cursors, loop, waiting, pos, own, raced, faults>>

\* Mutant of SaveCursor: the cursor is the newest stream id instead of the one read.
SaveCursorNewest(t) ==
    /\ pc[t] = "save_cursor"
    /\ cursorKey' = [cursorKey EXCEPT ![t[1]] = 0]
    /\ Goto(t, "seed")
    /\ pos' = [pos EXCEPT ![t] = None]
    /\ UNCHANGED <<stream, payload, tracked, cursors, loop, waiting, own, raced, faults>>

SaveCursor(t) ==
    /\ pc[t] = "save_cursor"
    /\ cursorKey' = [cursorKey EXCEPT ![t[1]] = pos[t]]
    /\ Goto(t, "seed")
    /\ pos' = [pos EXCEPT ![t] = None]
    /\ UNCHANGED <<stream, payload, tracked, cursors, loop, waiting, own, raced, faults>>

\* A storage error is logged and swallowed: neither key is written, or only the first.
SaveFails(t) ==
    /\ \/ pc[t] = "save" /\ Fault("save")
       \/ pc[t] = "save_cursor" /\ Fault("cut")
    /\ Goto(t, "seed")
    /\ pos' = [pos EXCEPT ![t] = None]
    /\ UNCHANGED <<stored, tracked, cursors, loop, waiting, own, raced>>

\* load_cursor: the subscribe cursor is taken from the cursor key, or dropped.
Seed(t) ==
    /\ pc[t] = "seed"
    /\ cursors' = [cursors EXCEPT ![t[1]] = cursorKey[t[1]]]
    /\ End(t)
    /\ UNCHANGED <<stored, tracked, loop, waiting, faults>>

\* load_cursor turns a storage error into None.
SeedFails(t) ==
    /\ pc[t] = "seed"
    /\ Fault("seed")
    /\ cursors' = [cursors EXCEPT ![t[1]] = None]
    /\ End(t)
    /\ UNCHANGED <<stored, tracked, loop, waiting>>

\* The process dies and restarts; a pipeline is cut in two only with fault "cut".
Crash ==
    /\ Fault("crash")
    /\ \A t \in Ticks : pc[t] = "save_cursor" => "cut" \in Faults
    /\ Started
    /\ UNCHANGED stored

-----------------------------------------------------------------------------
Loop ==
    \/ NotYetDue
    \/ SweepUnsubscribed
    \/ Subscribe
    \/ Wake
    \/ ReadTimesOut
    \/ GatherReturns

Tick(t) ==
    \/ Load(t)
    \/ Fetch(t)
    \/ SavePayload(t)
    \/ SaveCursor(t)
    \/ Seed(t)

Next ==
    \/ \E a \in Agents : Produce(a)
    \/ \E a \in Agents : Expire(a)
    \/ Rediscover
    \/ Loop
    \/ SubscribeFails
    \/ \E t \in Ticks : Tick(t)
    \/ \E t \in Ticks : LoadFails(t)
    \/ \E t \in Ticks : FetchFails(t)
    \/ \E t \in Ticks : SaveFails(t)
    \/ \E t \in Ticks : SeedFails(t)
    \/ Crash

Spec == Init /\ [][Next]_vars

\* The loop runs for ever, its timers elapse, and Redis answers each call in the end:
\* rediscovery comes due again and again, and whoever waits for an arrival or a reply
\* goes on.
FairSpec ==
    /\ Spec
    /\ SF_vars(Rediscover)
    /\ WF_vars(Loop)
    /\ \A t \in Ticks : WF_vars(Tick(t))

-----------------------------------------------------------------------------
\* Position p is behind position q.
Behind(p, q) == q # None /\ (p = None \/ p > q)

\* "Merge them before the dispatch": the subscribe cursor moves past an event before the
\* event is dispatched.  Without faults nothing is forgotten in between: an agent whose
\* checkpoint is behind its subscribe cursor is being ticked.
WakeNotForgotten ==
    faults = 0 => \A a \in Agents :
        Behind(payload[a], cursors[a]) => Ticking(a)

\* "The payload lands first, so the cursor can only lag behind it", and no save moves a
\* checkpoint back: so it is for every tick that did not race another of its agent.
SavesInOrder ==
    [][\A t \in Ticks \ raced : SavePayload(t) \/ SaveCursor(t) =>
          LET a == t[1] IN
          /\ ~Behind(payload'[a], payload[a])
          /\ payload'[a] # None => ~Behind(payload'[a], cursorKey'[a])]_vars

Quiet == <>[][\A a \in Agents : ~Produce(a)]_vars
CaughtUp(a) == a \in stream => payload[a] = 0

\* The timeout arm is "the convergence net that closes lost notifications and picks up
\* rediscovered agents": when no more events arrive, every checkpoint catches up, whatever
\* failed before.
NetConverges == Quiet => \A a \in Agents : <>[]CaughtUp(a)

\* What NetConverges misses: an agent whose cursor key lags behind its payload wakes the
\* loop again and again, has nothing new to save, and keeps its lagging cursor.
Spins(a) == payload[a] = 0 /\ cursorKey[a] # None /\ cursorKey[a] > 0

\* Nothing but an agent that spins keeps the net from closing: neither the faults, nor
\* merged cursors, dropped cursors, orphaned ticks or late discoveries.
ConvergesOrSpins ==
    Quiet => \A a \in Agents : <>[]CaughtUp(a) \/ <>[](\E b \in Agents : Spins(b))
=============================================================================
