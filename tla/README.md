# KntGraph in TLA+

KntGraph runs agents as event-sourced state machines: producers append events to one Redis
Stream per agent (the EventLog), a reactive dispatcher folds new events into a World, runs pure
systems on it, appends what they emit, and saves a checkpoint. Requests to tools go through a
queue of their own to workers, whose answers come back as events. This directory models the parts
of that cycle in which interleaving, crashes and partial failures decide whether it is correct.
Paths below are relative to `src/src/kntgraph/`.

## Inventory

| Component | State it keeps | Operations | What makes it hard | What makes it correct |
|---|---|---|---|---|
| Event log append (`stream/event_log`, `infra/redis/_event_log`) | agent stream; event-id index (absent, `PLACEHOLDER`, final id) | `append`, `append_batch`, retry and timeout in `dispatch_redis_call` | three commands that are not one transaction, several writers, cancelled attempts, keys that expire | an event id has one entry; an Ok names it |
| Reactive dispatcher (`runner/reactive.py`, `_systems_runner.py`, `_folding.py`) | tracked agents, `_tick_runners` | `dispatch_once`, one tick per agent | ticks interleave at awaits; errors are swallowed; crash between append and save | append before save; no event passed over; no reaction twice; the checkpoints catch up |
| Wake loop (`runner/reactive.py`, `infra/redis/_event_log`) | subscribe cursors, the wait, orphaned ticks | `_loop`, `_wake_once`, `subscribe`, rediscovery | an exception of one tick leaves the others running; cursors move before the work is done | no wake-up is lost; everybody is ticked in the end |
| World and checkpoints (`core/world`, `infra/world_checkpoint.py`) | views with last event and system cursors; saved payload and cursor, two keys | fold, load, save | load and save errors degrade silently; the keys are not one transaction | a checkpoint is the fold of the prefix its cursor names |
| FSM (`concordos`) | nothing of its own; it reads the view | emit transitions | it sees only the last event of a batch | every trigger is handled once |
| Saga (`concordos`) | step states, direction, compensation stack in the view | advance, tolerate, compensate, time out | answers late, expired or in the wrong batch; the deadline races them | steps run once, in order; what ran is undone; a saga ends |
| Tool overlay and TTL sweeper (`core/world/projection_tool_calls.py`, `runner/tool_call_ttl_sweeper.py`) | open requests and completions per view | attach, evict, emit `tool.failed` | requests and completions in different batches, double folds | a request is open until completed or timed out, once |
| Tool queue (`tools/manager.py`, `tools/_reaper.py`) | tool streams, consumer groups, in-flight set | deliver, execute, acknowledge, reclaim | redelivery, dead workers, reclaim of running work | every request is answered; non-idempotent work runs once |
| Tool router (`tools/router.py`) | dedup index | `route_batch` | commands that are not conditional on each other, transport errors, clusters | a request is in the queue, and once |
| Dead letters (`infra/redis/_dlq`, `events/dlq`) | DLQ stream, dedup hash, counters | append, drop, find | entry added before the dedup field | one entry per event and reason |
| Circuit breaker (`resilience`) | state, counters, slots | `call`, `reset` | calls straddle state changes | it limits its probes, and it recovers |
| Bulkhead, limiter, retry (`resilience`) | pools, windows | acquire, allow | limits under concurrency | limits hold |
| Short-term memory (`memory`) | cached fold and fold cursor, refresh bus | read through, refresh, warm, invalidate | the log moves between fold and cursor | a cache with cursor c contains every event up to c; it catches up |
| Agents, knowledge, security, API, CLI | | | external services or pure computation | not modelled |

The dispatcher calls `EventLog.append` for producers' and systems' events; systems never call
anything, they return events. The dispatcher routes `tool.*.requested` events to the tool queue;
workers append completions to the log, which the dispatcher reads back. The wake loop only
decides which agents are ticked when; safety must not depend on it, progress does. The memory
tiers read the same log and keep caches that may be lost at any time.

## Modules

| Module | Models |
|---|---|
| `AtomicLog` | what `append` promises: an append-only log, one entry per event id, an Ok is its position |
| `EventLog` | `append` command by command, for several writers, with faults |
| `Dispatcher` | `dispatch_once`, its ticks and the FSM system, over a log with the promise of `AtomicLog` |
| `WakeLoop` | `_loop` and `_wake_once`: which agents are ticked, and when |
| `Saga` | ticks with tool events: sweeper, saga and its timeout, projection and overlay of one agent |
| `ToolRouting` | `route_batch` and its dedup index, for several routers |
| `ToolQueue` | one tool's stream and consumer group, its managers and their reapers |
| `CircuitBreaker` | the breaker and concurrent calls |
| `MemoryCache` | the session tier, the refresh bus and the cache warmer, for one identity |
| `EventLogProofs`, `DispatcherProofs`, `WakeLoopProofs`, `SagaProofs`, `ToolRoutingProofs`, `ToolQueueProofs`, `CircuitBreakerProofs`, `MemoryCacheProofs` | theorems about the module they are named after |
| `MCEventLog`, `MCDispatcher`, `MCWakeLoop`, `MCSaga`, `MCToolRouting`, `MCToolQueue`, `MCCircuitBreaker`, `MCMemoryCache` | the instances that TLC checks |

`Dispatcher` and `Saga` take the log at its promise, so each step of theirs appends at once;
`EventLog` implements that promise (`PromiseSpec`). `ToolQueue` takes any request any
number of times, which is what `ToolRouting` may deliver in the worst case. `WakeLoop` keeps of a
tick only where it reads, what it saves and how it fails, and `Dispatcher` what it does with the
events. Beside most definitions stand operators named in a comment as mutants: plausible bugs, each of
which breaks the property listed for it in `PROJECT.json`.

In all modules one action is what a coroutine does between two awaits, or one command that Redis serves.

### EventLog

`stream` is the agent's stream (`by`, who added an entry, is history), `index` the event-id keys.
`pc[w]` is the Redis command that writer `w` waits for: `check` is `_check_phase`, `xadd` and
`setnx` are the two commands of the pipeline in `_claim_phase`, `finalize` is `_finalize_phase`.
`ev`, `sid` and `attempt` are local variables of the call; `answers` records every id returned
in an Ok.

Redis serves one command at a time, and the pipeline is `transaction=False`, so each command is an
action. An attempt ends early in two ways. `AttemptTimesOut` is the cancellation by
`wait_for`, after which the backoff policy, if there is one, starts again at the check. `AttemptAborts`
is the death of the process, or an error that the adapter turns into an Err, which nothing
retries. In both cases the outstanding commands were lost (`Dropped`), served without anyone reading the
reply (`Served`), or are served later (`Delayed`, `ServeLate`).

`Faults` says per event id which of these may happen:

| Fault | Meaning |
|---|---|
| `timeout`, `abort` | the attempt ends early; its pipeline is served as a whole or not at all |
| `unset` | the XADD was served and the SET NX lost |
| `late` | commands are served after the caller has moved on |
| `expiry` | the placeholder's 60 seconds pass |
| `ttl` | the final id's time to live passes |

The first two are *mild*. The faults are per event id so that one run can check the strong property of
an event under mild faults while another event in the same stream suffers all of them.

Not modelled: preflight validation (no effect on state), trimming by MAXLEN, the
circuit breaker branch of `dispatch_redis_call` (one attempt without a timeout, a special case of
`MaxAttempts = 1`), reads other than `subscribe`.

### Dispatcher

`pc[a]` is the await of agent `a`'s tick:
`load`, `fetch`, `append`, `save`. `FetchAndRun` is everything from the answer of
`read_after_cursor` to the next await: fold, clear `_tick_runners`, run the system, and, when it
emits nothing, advance the cursor. `AppendOne` is one iteration of `append_batch`, and after the last one
`AfterAppend` consults `_tick_runners`, which other ticks may have replaced in the meantime.
`StartRound` is the `gather` in `dispatch_once`: the next round starts when all ticks are over.

A view is reduced to the last event folded and the cursor of the one system. `_apply_event`
builds a view without `cursors`, so `Fold` resets the cursor. The system is the FSM. What it emits for a
trigger is a function of the trigger (`Reaction`): the id of an emitted event is a hash over
agent, cause, type and data, and the data depends on the fold up to the trigger, so a replay
makes the same ids. (A guard that reads the clock could break that; guards are not modelled.) An
on_entry event is taken not to be a declared trigger of the FSM, and the agent's component is taken to exist
from its first event.

Appends have the promise of `AtomicLog` (proved of `EventLog` for one caller per
event id and mild faults; the dispatcher is the one caller of what its systems emit). `AppendFails` is an
Err with the event added or not.

Faults: `crash` (all ticks end, log and checkpoints stay), `load` (a storage error or an expired
checkpoint: empty world, from the beginning), `save` (swallowed), `append` (an Err).

Not modelled here: lifecycle events (their branch of `_apply_event`, `core/world/projection.py:183-201`, sets the operational phase and keeps the components, which
a view here does not have; it moves the last event and drops the cursors like the branch for domain events), event filter and wake loop (`WakeLoop`), projections, tool events, routing and overlay (`Saga`), the
dead-letter bridge, more than one dispatcher process.

### WakeLoop

The loop blocks in `subscribe` on the streams whose cursors it knows, and ticks the agents of an
arrival; without one it ends in a sweep of all tracked agents. A position in a stream is given by its *lag*, the
number of entries behind it, so producers can append for ever in a finite model: `Produce` makes every position of the agent
one older. `loop` is where `_wake_once` is, `streams` the map that the current `subscribe` was started with,
`Groups` the streams by hash slot, which `subscribe` reads one group after the other.

A tick `<<agent, n>>` is reduced to `load`, `fetch`, `save` and `save_cursor` (the two SETs of the checkpoint), and `seed`, which takes the
subscribe cursor from the cursor key. `own` are the ticks the current `gather` waits for. `gather` raises the
first exception (`FetchFails`) and leaves the other ticks running, so `_loop` starts over and may tick an agent a second
time while its orphan is under way; `raced` remembers the ticks that met another of their agent.
An agent in `Filtered` has a filter that drops all its events; with `ToolTTLs` such a batch is not saved.

Faults: `load`, `seed` (storage errors), `read` (an exception of reading or of a system), `save` (neither
key written), `cut` (the payload only), `subscribe` (transport error: sweep), `expire` (both keys), `crash`.

### Saga

An event is named by its position in the log, an answer points to its request (`of`). `saved` is the checkpoint with the
view that the SagaProjection makes of it: direction, current step, step states, compensation stack, and the overlay's requests
and completions. `Read` is a whole tick up to its first append: `Fold` (projection, then overlay, which evicts what an
earlier batch answered), the routing of what was read, and the systems in their order: sweeper, saga, timeout.
`AppendNext` is one iteration of `append_batch`, `Route` the routing of the emitted requests, `Save` the fold of the emitted
events (overlay only, which evicts everything answered) and the save. `Respond` is a worker, `Other` a foreign event or an approval, `Deadline`
the passing of `saga_timeout_ms`. `torn` is a history variable: a crash lost the fold of a `compensating` that was already appended.

What a step's `skip_when` says is chosen once (`skipped`), `fail_when` is the constant `Tolerated`. A worker's
answer that does not satisfy `proceed_when` counts as `failed`.
Faults: `crash` in a tick, `expired` (the sweeper fails a request), `other`.

Not modelled: the approval timeout event, which no system handles; `compensate_when`; event filters; the sweeper's dead letters.

### ToolRouting

`router[w]` is the phase of process `w`'s `route_batch`, with its request: `check`, `claim` (XADD and SET NX in one
pipeline), `finalize`, or `bare`, the XADD without dedup. `cluster` says that queue and index live
on different servers, so that the commands of the pipeline are served independently (`Cut`). Faults: `transport` (the commands of the
phase served, lost or cut; a phase of the dedup falls through to `bare`, an error there drops the request), `crash`, `ttl` (an index key expires).

### ToolQueue

A message is a position in the tool's stream. A task is an asyncio task of a manager; it acknowledges the message
`id` and runs the request of the message `run`. The two differ when the reaper's XAUTOCLAIM returned another message than the
one examined. `Deliver` is XREADGROUP in `_consume_loop`; `Acquire` the semaphore, which is given to the
tasks that wait for it in the order they came (`line`), with the ACL gate; `Finish` and `Raise`
the outcomes of the tool; `AppendAnswer`, `Ack`, and `Escalate` (retry budget) what follows. The reaper is `Inspect`
(XPENDING), and for each entry `Skip` (in flight here), `Refuse` (not idempotent) or `Reclaim`. `Age` makes a pending message
old enough: idle for `reaper_idle_time` or, if the tool declares a timeout, for as long as was left until the deadline of its request. `Claimable` are the sets of
messages that may have been idle for the threshold that XAUTOCLAIM is given. Without a timeout that is one threshold for all; with
one, what is left until one message's deadline is a threshold that any others may have passed, also before theirs, and after the deadline it is 0. Deployments, the idempotency and the
timeout declaration are chosen initially, so a run covers all of them.

`runs`, `swapped`, `lost` are history. Faults: `crash` of a manager, `append` (the ignored Err of an answer's append), `ack` (XACK raises).
Delivery counts are capped just above the retry budget.

Not modelled: malformed payloads, reconnection, the process pools' own recovery (a broken pool is a `Raise`), several tools at once (they share nothing but the pools).

### CircuitBreaker

The lock bodies hold no await, so `_admit`, `_on_success`, `_on_failure`, `_on_cancellation` and `reset` are one
step each (one action per state of the breaker where they differ). A call is a live index with the episode it was
admitted in: `episode` counts how often the breaker went half-open and is history, as are `released` (slots given back by calls that
held none) and `leaked` (slots that nobody gives back: `Unexpected`, an exception outside `expected_exceptions`, runs no handler).
Not modelled: `success_count` and `call_count`, which nothing reads, and the registry.

### MemoryCache

A cached state is the prefix of the stream that it folds, given by its length; so is a cursor. `call[a]` is a
call of the manager with the await it is at. A call that emits, appends, folds, writes the cache, asks for the latest stream id, and stamps
the cursor; the others are shorter: reading through, projecting, starting, invalidating, and the warmer's `refresh_cache_incremental`. `Consolidate`
publishes a request when the view moved, `Drain` and `NextRequest` are `pump_once`. `mark` is the
cursor that a call is about to stamp, `latest_stream_id` and not the end of its fold. `late` and `lost` are history. `late` says what in the two keys the stream
had outgrown when it was written: the cache, by a fold that an event overtook (`"fold"`) or by a second `start()` (`"start"`), or the cursor, by an event between fold and
`latest_stream_id` (`"stamp"`); caching a fold of the whole stream clears it. `lost` is the length of the stream when the warmer last gave a request up.

Faults: `append`, `storage` (each for the command served or not), `read` (a RedisError: it ends `run_forever`), `latest` (no cursor, no Err), `cancel` (a caller's task),
`restart` of the process of the warmer, `expire` of either key.

Not modelled: the context events that `start` adds, the drain after `run_forever` is cancelled, batches of several
identities, and what the profile and continuity tiers add to the shared base class.

## Runs

| Run | Result | What it shows |
|---|---|---|
| `log_exclusive` | pass | one caller per event id, mild faults: types, the inductive invariant, and the refinement of `AtomicLog` |
| `log_shared` | pass | two callers race for both events; one event under mild faults, the other under all: every Ok names an entry of its event, a final id is never hidden again, no caller adds the mild event twice |
| `dispatch_faults` | pass | two agents, crashes, lost checkpoints, failed saves, idle ticks: causality, checkpoints that are prefixes, durability order, and progress |
| `dispatch_alone` | pass | one agent, failing appends, crashes, no idle ticks: with nobody to clear `_tick_runners` the cursor always follows |
| `wake_faults` | pass | two agents in two hash slots, every fault: no wake-up is forgotten, saves keep their order, and the loop converges unless a lagging cursor key makes it spin |
| `saga_faults` | pass | a saga of four steps (compensable and tolerated; human and skippable; two with a tool only) through late answers, a crash, an expired request, a foreign event and its deadline |
| `saga_expired` | violation | an expired request is evicted before the saga sees its failure |
| `routing_faults` | pass | two routers share queue and index, on one server and in a cluster, under every fault |
| `tools_faults` | pass | one or two managers, idempotent or not, with or without timeout: what is acknowledged is answered but for two known ways, work that is not idempotent runs once, every request is answered |
| `tools_swapped` | violation | one manager, restarted after a crash, acknowledges a message that never runs |
| `breaker_faults` | pass | four calls straddle the states of the breaker, with failures, cancellations, unexpected exceptions and resets |
| `memory_faults` | pass | two callers and the warmer on one identity, under every fault |

### Properties

Log and dispatcher:

- `OneEntryPerCaller`: duplicates of an event under mild faults come from different callers only. It
  takes the relation of index, program counters and stream across retries and restarts to hold.
- `AnswersAreSound`, `FinalIdNotHidden`: what survives every fault and every race.
- `PromiseSpec`: with exclusive callers the protocol is an atomic, idempotent append.
- `LogIsCausal`: refolds after crashes and lost checkpoints repeat nothing and invent nothing. For one
  dispatcher process this rests on two things: an append that is tried again is idempotent, and a tick after
  a crash sees what is already appended as the last event, so that it does not react a second time.
- `CheckpointIsPrefix`: the two halves of a checkpoint, world and cursor, belong together.
- `AppendedBeforeSaved`: durability order; it holds without append errors and fails with one.
- `CursorFollowsRun`: holds alone, fails in company.
- `DispatchInv`, `LogInv`: the inductive invariants of the proofs.
- `Settles`: the dispatcher reads what its systems emit; this comes to an end.

Wake loop:

- `WakeNotForgotten`: subscribe cursors move before the work is done; without faults the agent is then being ticked.
- `SavesInOrder`: no save moves a checkpoint back or its cursor past its payload, except by a tick that raced an orphan of its agent.
- `ConvergesOrSpins`: after the last event every checkpoint catches up, whatever failed before, or some agent's
  lagging cursor key keeps waking the loop, so that the sweep never comes (see *Divergences*).

Saga:

- `StepOnce`, `InOrder`: no step is requested twice or before its predecessors were answered, whatever crashes, expires or comes late.
- `UndoneAfterAnswer`, `FailureStopsSaga`: compensation starts after the answer, and no step follows it, except as the deadline allows
  or after a crash that tore the tick of the roll-back (see *Divergences*).
- `NotStalled`, `SagaEnds`: a quiet saga waits for something that can still come; at the latest its deadline ends it.

Tools:

- `QueuedOncePerRouter`, `HitIsQueued`, `RoutedIsQueued`: a process queues a request once while its dedup works; what the index
  says was routed is in the queue; a request is lost only by the number of faults that takes.
- `AckedOrSwapped`: acknowledgement after the answer, with the two exceptions that the code has. `RunOnce`, `EveryRequestAnswered`: what the
  reaper may do, and what it is for.

Breaker and memory:

- `ProbesBounded`, `SlotsHeldByProbes`, `Recovers`: the exact bound of concurrent probes; no slot is lost without an unexpected exception; so the breaker closes again.
- `CursorOfFold`: through failed, cancelled and concurrent refreshes and expiry, a cursor claims more than is cached only as long as the cache or the cursor holds what the stream
  had outgrown when it was written (`late`). One fold of the whole stream ends that, so no failure of one of the two writes leaves a false cursor behind.
- `CatchesUp`: when events cease, a stale cache does not stay, unless its last write was late, the warmer lost the last request, or the warmer is dead. A later event brings in what those left out.

### Bounds

Bounds of the model are constants named in each module's header; where they stop something, they stop producers or faults.

| Runs | Bounds | Why they are enough |
|---|---|---|
| `log_*` | two writers, two events, two attempts; four and three entries | a duplicate of either event next to the other, both writers in every pair of phases, late commands of both; calls are unbounded |
| `dispatch_*` | one agent with two seeds and one beside it, or one with three; `MaxFaults = 2` | a batch of two, a seed during a tick, a reaction of two events of which one is reacted to; a fault during the recovery from another |
| `wake_faults` | two agents, a hash slot each, one of them filtered; `MaxFaults = 2`, `MaxLag = 1`; two ticks per agent | one group hides or delays the other; an orphan races a new tick; lag 1 tells current from stale, and events never cease. 264 716 states |
| `saga_*` | four steps (two for the violation); `MaxFaults = 1` | every branch of `_handle_completion`, the skip, and a deadline in every state; a step fails behind one that can be undone and before one that must not follow. 529 836 states. The safety properties were also checked with three steps, two of them compensable, and `MaxFaults = 2` (3 555 091 states) |
| `routing_faults` | one request, two routers, four routes, two faults of a kind | routes of different requests touch different keys; two faults of a kind lose a request and one is left. 107 717 states |
| `tools_faults` | two requests, one denied by the ACL; managers and messages together three; two tasks; one fault; retries 1, concurrency 1 | a message under way beside one examined, two managers that reclaim from each other, the retry budget's last attempt. 191 322 states; with three tasks, 1 013 772, the run passes as well |
| `breaker_faults` | four calls, threshold 2, two probes, five faults | a full half-open breaker beside calls of an earlier episode; two episodes follow each other. 62 939 states |
| `memory_faults` | two callers, the warmer, two events, one fault | a prefix that is empty, partial or whole; two writers overtake each other while the warmer refreshes. 495 103 states |

`CHECK_DEADLOCK FALSE` stands in the cfgs of systems that may really stop: bounded producers and callers who no longer call.

### Fairness

Faults, producers, callers and cancellations are never fair. The rest is the scheduling of the code: asyncio runs every task that
is ready, Redis answers a command (with an answer, or with an error, which is a fault action), and service loops run for ever.

| Module | Fairness | Because |
|---|---|---|
| `EventLog` | none | it has safety properties only |
| `Dispatcher` | weak: `StartRound`, each agent's `Tick` | `_loop` survives exceptions; calls end |
| `WakeLoop` | strong: `Rediscover`; weak: `Loop`, each `Tick` | the rediscovery deadline passes again and again while the loop goes round; it is checked at the top of the loop only, which the loop leaves and comes back to |
| `Saga` | weak: `Dispatcher` (whichever of `Read`, `AppendNext`, `Route`, `Save` is next), `Deadline` | the dispatcher's coroutine goes on, and time does; tools need not answer |
| `ToolRouting` | weak: each router's `Step` | Redis answers |
| `ToolQueue` | weak: `Deliver`, each task's next step, `Age`; strong: each manager's `Reaper` | asyncio runs what is ready; `Acquire` needs no more, since the semaphore is first come first served in the model as in the code; the reaper's round comes again and again, whatever it skips |
| `CircuitBreaker` | weak: some `Admit`, each `Succeed`, `Elapse` | there are always callers; a call ends; time passes |
| `MemoryCache` | weak: each `Step`, `Consolidate`, `Pump` | Redis answers; runner and warmer loop for ever |

## Divergences

Two runs end in a counterexample to what the repository says of itself:

- `tools_swapped`: XAUTOCLAIM in `tools/_reaper.py:392` starts at `0-0` with `COUNT 1`, so it may return another message
  than the one examined. That one's request is run, and the examined message is acknowledged. In the run a crash has taken the tasks of two delivered messages with it; the restarted manager's reaper
  examines the second, whose request is past its deadline (threshold 0), and is given the first, so that the second never runs. In TLC's shortest trace the second is due first, its
  request being the older one though routed later; when both are due, the first is claimed for itself and then again for the second, since an idle time of 0 passes the threshold 0. (A tool that raised, or a second manager, leads there as well. As long as
  the examined message's own task waits for the semaphore it runs all the same, only acknowledged too early.)
  `tools/manager.py:653` says that a message is acknowledged "since it was processed".
- `saga_expired`: in `runner/_folding.py:222` the sweeper's `tool.<name>.failed` is folded, and its request evicted, in the tick that
  emits it. When the event is read from the log its request is gone, and the saga does not evaluate the failure. `docs/workflow_saga.md:58` says it does.

Some definitions state what comments and docs promise and TLC refutes; they belong to no run. Each can be reproduced by naming it in
a cfg, as an INVARIANT, or as a PROPERTY where it is temporal (`SkippedAreProcessedLater`, `NetConverges`):

| Definition | Refuted in | By |
|---|---|---|
| `EventLog!ElectsOneWriter` | `log_shared.cfg` with `Faults <- NoFaults` | both callers XADD; the reply of `SET ... NX`, which "elects one writer", is not read |
| `Dispatcher!CursorFollowsRun` | `dispatch_faults.cfg` | another agent's tick replaces `_tick_runners` between run and save |
| `Dispatcher!AppendedBeforeSaved` | `dispatch_faults.cfg` with `"append"` in `Faults` | the Err of `append_batch` is not an exception, so the save goes on |
| `Dispatcher!CrashWindowClosed` | `dispatch_faults.cfg` | a crash between the two appends of a reaction: the second is lost for good |
| `Dispatcher!SkippedAreProcessedLater` | `dispatch_faults.cfg` | of two seeds in a batch the first is never a trigger |
| `Saga!FailureStopsSaga` without `~torn` | `saga_faults.cfg` | a step fails, the compensation is appended, the process dies before the save, and the undo's `completed` arrives. The next tick reads all of it in one batch: the step's completion is attached again, the trigger is the undo's answer, and `_handle_completion` takes its status (`concordos/saga/_system.py:371`) for that of the failed step. The saga requests the step after the one that failed, while it rolls back |
| `WakeLoop!NetConverges` | `wake_faults.cfg` | a cursor key that lags behind its payload wakes the loop at once, again and again; `_next_fallback_at` is written and never read, so the sweep waits for a quiet wait that does not come |

Other places where code and docs disagree, seen while modelling: a hash slot that is always busy starves the later ones in
`subscribe`; with `tool_ttls` a batch that the filter drops whole is never saved, so it is read again for ever; `start()` of a
running session writes a state with no messages over the cache (`memory/session.py:280`), although its docstring (`:244`) calls that a no-op; a
RedisError while the warmer reads the stream ends `run_forever`; a saga's `timed_out` event puts `current_step` back, so that an
answer may be taken for the step before its own; the compensation stack is reversed twice when it comes from the
declared order; the fold cursor is read after the fold, not with it (`memory/base.py:316`),
so an event in between is in neither the cache nor the next delta, and is missing until another event comes. The properties above are stated around
these, and say where: `StepOnce` and `FailureStopsSaga` up to the deadline, `FailureStopsSaga` unless `torn`, `CursorOfFold` and `CatchesUp` but for what is `late`, `CatchesUp` also unless the warmer lost the last request or is dead.

## Proofs

A theorem holds for every value of the constants that satisfies the module's named assumption; `MaxFaults` and the other bounds
of the models are arbitrary, and so is their fairness, which the safety proofs do not use.

`EventLogProofs` holds for every set of writers and events, every assignment of callers and faults, every
number of attempts and entries, from `LogAssumption` alone (`ImplementsPromise` also from `Exclusive`).

- `TypeCorrect`: `Spec => []TypeOK`.
- `AnswersSound`: `Spec => []AnswersAreSound`. An answer comes from the index or from a writer's
  `sid`, so the invariant has to say of every place that carries a stream id (index, answers,
  writers, late commands) that it names an entry of its event: `IdsNameEntries`. The log is append-only (`AppendOnly`), which keeps what is so named.
- `FinalIdStays`: `Spec => FinalIdNotHidden`, from the effect of each command on the index.
- `LogInvariant` and `DuplicatesNeedTwoCallers`: `OneEntryPerCaller` is not inductive. `EntriesAreCovered` adds that an entry of
  a mild event is covered by its index key unless its own pipeline is between XADD and SET NX, and so a
  writer about to XADD has no entry yet. `CoverStays` shows that cover is not lost: a mild event's key does not expire, and its pipeline is
  not cut between the two commands. This needs `CallersOnly` (nothing is late for a mild event) and `IdsNameEntries` (SET writes an id, never `Absent`).
- `ImplementsPromise`: `Exclusive` implies `Spec => PromiseSpec`. Each XADD is a `Commit`: by
  `CallersOnly` an earlier entry would be by the same, only, caller, against `EntriesAreCovered`. Each Ok is an `Answer`. All else stutters.

`DispatcherProofs` holds for every set of agents and seeds, every transition table, any faults in any
number, from `DispatcherAssumption` alone (`AppendsBeforeSaves` also from `"append" \notin Faults`, `CursorFollowsAlone` from there being at most one agent).

- `TypeCorrect`: `FairSpec => []TypeOK`, with the addition that a tick waiting to append has something to append
  (`TypeInv`), without which the `Head` in `AppendOne` is no event.
- `DispatchInvariant`: `LogIsCausal`, `CheckpointIsPrefix` and `AppendedBeforeSaved` are not inductive, since all three depend on the local
  variables of ticks under way. `TickIsPrefix` says that a tick's world and cursor fit the log while other actors append to it,
  `OutgoingIsReaction` that what is still to append was caused by the last event folded, `ReactionsAccountedFor` that the part of a reaction
  that is not pending is in the log. `EveryStepIsAgentStep` reduces a step of the system to what one agent sees of it (eight kinds of
  step, of which `Stays` covers the other agents and the producers); each part of the invariant is then
  preserved kind by kind.
- `LogStaysCausal`, `CheckpointsArePrefixes`, `AppendsBeforeSaves` follow from it.
- `CursorFollowsAlone`: with a single agent `_tick_runners` is its own from the run to the save (`CursorInv`), so the cursor follows.

`WakeLoopProofs` holds for every set of agents, grouping, filter, and any faults in any number, from `WakeAssumption`.

- `WakeTypeCorrect`: `Spec => []TypeOK`.
- `WakesAreServed`: `WakeNotForgotten` needs to know of the ticks under way. `WakeInv` says that, while nothing failed, an agent has at most one tick, which is its gather's own
  (`OneTickEach`), that the cursor key does not overtake the payload and no save under way will make it (`KeysInOrder`), and the property itself (`WakesServed`); the next `gather` then starts from a
  state where nothing runs and no checkpoint is behind (`Rest`).
- `SavesKeepOrder`: whatever fails, ticks of one agent that run together are in `raced` (`MeetingsKnown`), so one that is not has the
  newest position to save (`Newest`).

`ToolRoutingProofs`, from `RoutingAssumption`:

- `RoutingTypeCorrect`.
- `QueuedOnce`: as long as the dedup works (`Clean`), a router that may still claim has not queued its request, a queued request has its index key, and
  nobody falls through to `bare` (`ClaimInv`).
- `HitQueued`: on one server the XADD of a pipeline is served before its SET NX, so an index key has its message, and so has a router that is to
  write the final one (`HitInv`).

`ToolQueueProofs`, from `ToolAssumption`, for any managers, deployments and retry budgets:

- `QueueTypeCorrect`, with `Known`: a task at its append or acknowledgement has a kind of answer.
- `NeverRepeated`: without idempotency nothing is reclaimed, so tasks that wait to run hold messages that were not run and that no other task holds
  (`Fresh`); all steps but `Deliver` and `Acquire` leave that alone (`Calm`).
- `AckedAfterAnswer`: a task at its acknowledgement has an answer behind it, or a lost one (`Backed`); answers, losses and swaps
  only grow (`Grown`), and an XACK adds one message (`AcknowledgedStep`).

`CircuitBreakerProofs`, from `BreakerAssumption`, for any finite set of calls:

- `BreakerTypeCorrect`; `Bounded` and `SlotsHeld` follow from `Books`, which balances the slots of a half-open breaker both ways:
  slots in flight are at most probes and leaks, and probes and leaks at most slots in flight and released ones.

`MemoryCacheProofs`, from `MemoryAssumption`:

- `MemoryTypeCorrect`; `CursorNamesFold`: `CursorInv` adds to the claim that what is cached or folded exists (`PositionsExist`), and that, as long as nothing late was put into the
  cache, a call about to stamp finds its fold covered by the cache (`Covered`); its cursor exceeds that fold only if the stamp is late itself. `EveryStep` classifies the steps into seven kinds of a single call's
  step and those elsewhere.

`SagaProofs` holds for every workflow (number of steps, which of them are human, compensable, tolerated, skippable), any faults in
any number, from `SagaAssumption`. A view is a fold over the log of any length. The library's induction takes an operator as its
parameter, which the provers cannot instantiate; `Induct` and `Recursion` state it for sets instead, from the well-foundedness of the
natural numbers (`Least`), and so give the recursive functions inside `Backwards` and `Projected` their values. `ProjectedIn` is then the induction that the
fold lemmas use: what each handler of the projection preserves, the fold does. `OutputIs`, `EmitsIs` and `EmitsRange` say what a tick may have to
append, and in which order (`Follows`).

- `TypeCorrect`: `TypeInv` adds to `TypeOK` that an answer names an earlier request, that the view under way is behind what the tick emitted, and that what it
  has still to append is in order.
- `RequestsInOrder`, `UndoneOnceAnswered`: the saga decides from its view, so `BackInv` says of view, output and log that each step state, stack entry and
  `current_step` rests on answers in the log. Skipped steps are the only gap. Crashes and late answers do not disturb it, since the log only grows.
- `RequestedOnce`: `OnceInv` says that, before a deadline is recorded, `current_step` never goes down: the view has seen each move that lies before its cursor
  (`Covers`), so that what a tick has to append goes up from what the log holds (`Rises`), and a request comes with its `step_started` (`Started`).
- `FailureIsFinal`: why no second completion can be taken for a step's. `OverInv` says what the overlay holds of the requests and answers seen; `SettledInv`
  that before the deadline a step is dispatched, or a compensation begun, only when every request is answered; `StopInv` that after a `compensating` view and
  checkpoint are left with answered requests only, all of which the next fold evicts. This last part is what a crash between the append and the save undoes, hence `torn`.
- `NeverStalls`: with neither fault nor deadline (`Clean`). A dispatcher that has seen the whole log has nothing to emit for it (`Idle`). The log then ends with a request, an approval
  to wait for or a worker's answer, unless the saga is closed (`TailInv`). A last request is open and the current step's (`LastIsCurrent`, from `OnceInv`, `SettledInv` and `SeenInv`:
  the current step has a move in the log, no later request follows it, and no earlier one is open). A last answer would be attached (`Attached`) to the current step's request and so be handled, against `Idle`.

Only model-checked: liveness (`Settles`, `ConvergesOrSpins`, `SagaEnds`, `RoutedIsQueued`, `EveryRequestAnswered`, `Recovers`,
`CatchesUp`), which is out of the prover's reach. Every other property of a passing run is a theorem.

## Not modelled

| Part | Why |
|---|---|
| Dead letters | three single commands with the order and the race of `EventLog`'s claim: the XADD before the HSETNX of its dedup field, a placeholder that may stay. They are listed as hazards |
| Bulkhead, rate limiter | an `asyncio.Semaphore` with counters beside it, and a window under one lock: between their awaits nothing is read that is used later; the eviction in the pool registry is listed as a hazard |
| Cyclic runner | one sequential loop over the same fold |
| Agents, knowledge, graph, embeddings | calls to language models and stores; what reaches the log is an event like any other |
| Security, signatures | pure computation on single events |
| HTTP API, command line, templates | no state of their own |

## Plan

What is left, in order:

1. A second dispatcher process over the same agents (a rolling restart): there the dedup on the event id carries
   `LogIsCausal` alone, and two ticks of one agent save over each other.
2. `DeadLetters`: append, drop and find with the sweeper and the dispatcher's bridge as callers.
3. The approval timeout and `compensate_when` of the saga, once a system handles them; the profile and continuity tiers of the memory.
4. Theorems beyond the runs' properties: what the tick of `WakeLoop` keeps of a batch refines what `Dispatcher` does with it.
