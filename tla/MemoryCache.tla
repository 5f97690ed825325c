---------------------------- MODULE MemoryCache -----------------------------
(***************************************************************************)
(* The short-term memory of one identity: a cache of the fold of its       *)
(* stream, with a fold cursor under a second key, written by the calls of  *)
(* a SessionManager, by the Projector, and by the CacheWarmer on request   *)
(* of the Consolidator.                                                    *)
(*                                                                         *)
(* The first event of the stream is session.started.  A cached state is    *)
(* the prefix of the stream that it is the fold of, named by its length;   *)
(* so is a cursor.                                                         *)
(***************************************************************************)
EXTENDS Integers

CONSTANTS
    Callers,    \* coroutines that call the manager, one call at a time each
    Warmer,     \* the task of CacheWarmer.run_forever
    Faults,     \* the kinds of fault that may happen
    MaxFaults,  \* bound of the model: number of faults
    MaxEvents   \* bound of the model: length of the stream

ASSUME MemoryAssumption ==
    /\ Warmer \notin Callers
    /\ Faults \subseteq {"append", "storage", "read", "latest", "cancel", "restart", "expire"}
    /\ MaxFaults \in Nat
    /\ MaxEvents \in Nat \ {0}

None == -1
Actors == Callers \cup {Warmer}

\* Calls of the manager that append an event and refresh, start a session, read through,
\* project, and invalidate; a refresh is what the warmer does.
Operations == {"emit", "start", "read", "project", "invalidate", "refresh"}

\* What a call waits for.
Waits == {"append", "get", "anchor", "delta", "decode", "fold", "put", "latest", "stamp",
          "delete", "unstamp"}

\* No call is under way; the warmer has ended by an exception.
Idle == [at |-> "idle"]
Dead == [at |-> "dead"]

VARIABLES
    length,     \* events in the stream
    cache,      \* the cached prefix
    cursor,     \* the fold cursor
    call,       \* actor -> its call: "pos" is the prefix folded, "mark" the cursor to stamp
    bus,        \* requests on the CacheRefreshBus
    batch,      \* requests drained and not carried out yet
    seen,       \* _last_seen_views: the view of the last request
    late,       \* history: what in the keys the stream had outgrown when it was written
    lost,       \* history: length of the stream when the warmer last lost a request
    faults      \* how many faults happened

keys == <<cache, cursor>>
requests == <<bus, batch, seen>>
vars == <<length, keys, call, requests, late, lost, faults>>

Prefix == 0 .. MaxEvents

\* The cache: a fold that an event overtook before it was put, or what a second start() put.
\* The cursor: read after an event that the fold did not see.
StaleCache == {"fold", "start"}
StaleCursor == {"stamp"}

TypeOK ==
    /\ length \in Prefix
    /\ cache \in Prefix \cup {None}
    /\ cursor \in Prefix \cup {None}
    /\ call \in [Actors -> [op : Operations, at : Waits, pos : Prefix, mark : Prefix]
                          \cup {Idle, Dead}]
    /\ bus \in Nat
    /\ batch \in Nat
    /\ seen \in Prefix
    /\ late \subseteq StaleCache \cup StaleCursor
    /\ lost \in Prefix
    /\ faults \in 0 .. MaxFaults

Init ==
    /\ length = 0
    /\ cache = None
    /\ cursor = None
    /\ call = [a \in Actors |-> Idle]
    /\ bus = 0
    /\ batch = 0
    /\ seen = 0
    /\ late = {}
    /\ lost = 0
    /\ faults = 0

Fault(kind) ==
    /\ kind \in Faults
    /\ faults < MaxFaults
    /\ faults' = faults + 1

At(a, place) == call[a].at = place
Goes(a, place, p) == call' = [call EXCEPT ![a].at = place, ![a].pos = p]
Goto(a, place) == call' = [call EXCEPT ![a].at = place]
Begins(a, operation, place) ==
    call' = [call EXCEPT ![a] = [op |-> operation, at |-> place, pos |-> 0, mark |-> 0]]
Ends(a) == call' = [call EXCEPT ![a] = Idle]

\* A request that the warmer gives up is not published again before the next event.
GivesUp(a) == lost' = IF a = Warmer THEN length ELSE lost

-----------------------------------------------------------------------------
\* The calls.
Call(a, operation, place) ==
    /\ call[a] = Idle
    /\ Begins(a, operation, place)
    /\ UNCHANGED <<length, keys, requests, late, lost, faults>>

Start(a) == Call(a, "start", "append")

\* Messages belong to a session that was started.
Emit(a) == length > 0 /\ Call(a, "emit", "append")

Read(a) == Call(a, "read", "get")
Project(a) == Call(a, "project", "fold")
Invalidate(a) == Call(a, "invalidate", "delete")

\* The event a call appends: session.started again is the same event.
Appended(a) == IF call[a].op = "start" /\ length > 0 THEN length ELSE length + 1

\* start() goes on to write the state after its event, everybody else folds first.
Append(a) ==
    /\ At(a, "append")
    /\ Appended(a) <= MaxEvents
    /\ length' = Appended(a)
    /\ IF call[a].op = "start" THEN Goes(a, "put", 1) ELSE Goto(a, "fold")
    /\ UNCHANGED <<keys, requests, late, lost, faults>>

\* An Err ends the call, whether the event is in the stream or not.
AppendFails(a) ==
    /\ At(a, "append")
    /\ Fault("append")
    /\ length' \in {length, Appended(a)} \cap Prefix
    /\ Ends(a)
    /\ UNCHANGED <<keys, requests, late, lost>>

\* read(): a hit is the answer.
Get(a) ==
    /\ At(a, "get")
    /\ IF cache = None THEN Goto(a, "fold") ELSE Ends(a)
    /\ UNCHANGED <<length, keys, requests, late, lost, faults>>

\* refresh_cache_incremental: without a cursor, the full rebuild.
Anchor(a) ==
    /\ At(a, "anchor")
    /\ IF cursor = None THEN Goto(a, "fold") ELSE Goes(a, "delta", cursor)
    /\ UNCHANGED <<length, keys, requests, late, lost, faults>>

\* Nothing behind the cursor: no write.
Delta(a) ==
    /\ At(a, "delta")
    /\ IF call[a].pos = length THEN Ends(a) ELSE Goto(a, "decode")
    /\ UNCHANGED <<length, keys, requests, late, lost, faults>>

\* No tier overrides _fold_incremental: whatever is cached, the stream is folded again.
Decode(a) ==
    /\ At(a, "decode")
    /\ Goes(a, "fold", 0)
    /\ UNCHANGED <<length, keys, requests, late, lost, faults>>

\* _fold_from_log; a stream without session.started folds to None.
Fold(a) ==
    /\ At(a, "fold")
    /\ IF length = 0 THEN Ends(a) ELSE Goes(a, "put", length)
    /\ UNCHANGED <<length, keys, requests, late, lost, faults>>

Written(a) ==
    /\ cache' = call[a].pos
    /\ late' = IF call[a].pos = length THEN {}
               ELSE (late \ StaleCache) \cup {IF call[a].op = "start" THEN "start" ELSE "fold"}

Stamped(a) ==
    /\ cursor' = call[a].mark
    /\ late' = (late \ StaleCursor) \cup {why \in StaleCursor : call[a].pos < call[a].mark}

\* put_record; those who refresh go on to the cursor.
Put(a) ==
    /\ At(a, "put")
    /\ Written(a)
    /\ IF call[a].op \in {"emit", "refresh"} THEN Goto(a, "latest") ELSE Ends(a)
    /\ UNCHANGED <<length, cursor, requests, lost, faults>>

\* latest_stream_id: not the cursor of the fold, the end of the stream now.
Latest(a) ==
    /\ At(a, "latest")
    /\ call' = [call EXCEPT ![a].at = "stamp", ![a].mark = length]
    /\ UNCHANGED <<length, keys, requests, late, lost, faults>>

\* A transport error: no cursor, and no Err either.
LatestFails(a) ==
    /\ At(a, "latest")
    /\ Fault("latest")
    /\ Ends(a)
    /\ UNCHANGED <<length, keys, requests, late, lost>>

Stamp(a) ==
    /\ At(a, "stamp")
    /\ Stamped(a)
    /\ Ends(a)
    /\ UNCHANGED <<length, cache, requests, lost, faults>>

\* invalidate_cache: the payload, then the cursor.
Delete(a) ==
    /\ At(a, "delete")
    /\ cache' = None
    /\ Goto(a, "unstamp")
    /\ UNCHANGED <<length, cursor, requests, late, lost, faults>>

Unstamp(a) ==
    /\ At(a, "unstamp")
    /\ cursor' = None
    /\ Ends(a)
    /\ UNCHANGED <<length, cache, requests, late, lost, faults>>

-----------------------------------------------------------------------------
\* Mutant of StorageFails: the Err of put_record is not looked at.
StorageFailsUnnoticed(a) ==
    /\ Fault("storage")
    /\ call[a].at \in {"get", "anchor", "put", "stamp", "delete", "unstamp"}
    /\ IF At(a, "put") /\ call[a].op \in {"emit", "refresh"} THEN Goto(a, "latest") ELSE Ends(a)
    /\ GivesUp(a)
    /\ UNCHANGED <<length, keys, requests, late>>

\* The storage reports an error, having written or not: the call returns an Err.
StorageFails(a) ==
    /\ Fault("storage")
    /\ call[a].at \in {"get", "anchor", "put", "stamp", "delete", "unstamp"}
    /\ \/ UNCHANGED <<keys, late>>
       \/ At(a, "put") /\ Written(a) /\ UNCHANGED cursor
       \/ At(a, "stamp") /\ Stamped(a) /\ UNCHANGED cache
    /\ Ends(a)
    /\ GivesUp(a)
    /\ UNCHANGED <<length, requests>>

\* Reading the stream raises a RedisError, which pump_once does not catch: it ends
\* run_forever.
ReadFails(a) ==
    /\ Fault("read")
    /\ call[a].at \in {"fold", "delta"}
    /\ call' = [call EXCEPT ![a] = IF a = Warmer THEN Dead ELSE Idle]
    /\ UNCHANGED <<length, keys, requests, late, lost>>

\* The task of a caller is cancelled.
Cancel(a) ==
    /\ Fault("cancel")
    /\ call[a] # Idle
    /\ Ends(a)
    /\ UNCHANGED <<length, keys, requests, late, lost>>

\* The process with bus, consolidator and warmer restarts; some callers go with it.
Restart(gone) ==
    /\ Fault("restart")
    /\ call' = [a \in Actors |-> IF a \in gone \cup {Warmer} THEN Idle ELSE call[a]]
    /\ bus' = 0
    /\ batch' = 0
    /\ seen' = 0
    /\ UNCHANGED <<length, keys, late, lost>>

\* The keys have a time to live each.
Expire ==
    /\ Fault("expire")
    /\ \/ cache' = None /\ UNCHANGED cursor
       \/ cursor' = None /\ UNCHANGED cache
    /\ UNCHANGED <<length, call, requests, late, lost>>

-----------------------------------------------------------------------------
\* Mutant of Consolidate: a view is requested once.
ConsolidateOnce ==
    /\ seen = 0
    /\ \E view \in 1 .. length : seen' = view
    /\ bus' = bus + 1
    /\ UNCHANGED <<length, keys, call, batch, late, lost, faults>>

\* Consolidator.refresh_all: a request when the view has moved, to the newest event or an
\* earlier one.
Consolidate ==
    /\ \E view \in seen + 1 .. length : seen' = view
    /\ bus' = bus + 1
    /\ UNCHANGED <<length, keys, call, batch, late, lost, faults>>

\* CacheWarmer.pump_once takes all requests off the bus and carries them out one by one.
Drain ==
    /\ call[Warmer] = Idle
    /\ batch = 0
    /\ bus > 0
    /\ batch' = bus
    /\ bus' = 0
    /\ UNCHANGED <<length, keys, call, seen, late, lost, faults>>

\* Mutant of NextRequest: the last one is not noticed.
NextRequestAnyway ==
    /\ call[Warmer] = Idle
    /\ batch' = batch - 1
    /\ Begins(Warmer, "refresh", "anchor")
    /\ UNCHANGED <<length, keys, bus, seen, late, lost, faults>>

NextRequest ==
    /\ call[Warmer] = Idle
    /\ batch > 0
    /\ batch' = batch - 1
    /\ Begins(Warmer, "refresh", "anchor")
    /\ UNCHANGED <<length, keys, bus, seen, late, lost, faults>>

Pump == Drain \/ NextRequest

Step(a) ==
    \/ Append(a)
    \/ Get(a)
    \/ Anchor(a)
    \/ Delta(a)
    \/ Decode(a)
    \/ Fold(a)
    \/ Put(a)
    \/ Latest(a)
    \/ Stamp(a)
    \/ Delete(a)
    \/ Unstamp(a)

Calling(a) == Start(a) \/ Emit(a) \/ Read(a) \/ Project(a) \/ Invalidate(a)

Fails(a) == AppendFails(a) \/ StorageFails(a) \/ ReadFails(a) \/ LatestFails(a)

Next ==
    \/ \E a \in Callers : Calling(a)
    \/ \E a \in Actors : Step(a)
    \/ \E a \in Actors : Fails(a)
    \/ \E a \in Callers : Cancel(a)
    \/ \E gone \in SUBSET Callers : Restart(gone)
    \/ Expire
    \/ Consolidate
    \/ Pump

Spec == Init /\ [][Next]_vars

\* Redis answers; the runner ticks and the warmer pumps for ever.
FairSpec ==
    /\ Spec
    /\ \A a \in Actors : WF_vars(Step(a))
    /\ WF_vars(Consolidate)
    /\ WF_vars(Pump)

-----------------------------------------------------------------------------
\* "The fold cursor (the Redis Stream id of the last event consumed by the fold that wrote
\* the cache)": through failed, cancelled and concurrent refreshes, invalidations and expiry,
\* the cursor claims more than is cached only as long as one of the keys holds what the
\* stream had outgrown when it was written, and no fold of the whole stream was cached since.
CursorOfFold ==
    cache # None /\ cursor # None /\ cache < cursor => late # {}

Quiet == <>[][\A a \in Callers : ~(Start(a) \/ Emit(a) \/ Invalidate(a))]_vars
Current == cache \in {None, length}

\* "The EventLog + read-through pattern in the managers guarantees correctness on the next
\* miss": when events cease, a cached state becomes the fold of the whole stream, through
\* failed, cancelled and stampless refreshes of the callers, restarts and expired keys; but
\* for a write that the stream had outgrown, by start() or by a fold that the last event
\* overtook, and for a request that the warmer lost.
CatchesUp ==
    Quiet => \/ <>[]Current
             \/ <>[](late # {} \/ lost = length \/ call[Warmer] = Dead)
=============================================================================
