-------------------------------- MODULE Saga --------------------------------
(***************************************************************************)
(* A workflow saga of one agent: the TTL sweeper, SagaSystem and           *)
(* SagaTimeoutSystem, run by the dispatcher's ticks over the agent's log,  *)
(* with the SagaProjection and the tool overlay that the ticks fold.  Tool *)
(* workers and other producers append to the same log.                     *)
(*                                                                         *)
(* A tick reads the log behind the checkpoint, folds, runs the systems on  *)
(* the result, appends what they emit one by one, folds that too, and      *)
(* saves.  An event is named by its position in the log.  The dispatcher   *)
(* has tool_ttls, so it runs the systems on quiet ticks too.               *)
(***************************************************************************)
EXTENDS Integers, Sequences, FiniteSets, SequencesExt

CONSTANTS
    Length,       \* the saga's steps are 1 .. Length
    Human,        \* steps without a tool
    Compensable,  \* steps with a compensate_tool
    Tolerated,    \* steps whose failure does not satisfy fail_when
    Skippable,    \* steps whose skip_when may be satisfied
    Faults,       \* the kinds of fault that may happen
    MaxFaults     \* bound of the model: faults in a behaviour

Steps == 1 .. Length

ASSUME SagaAssumption ==
    /\ Length \in Nat \ {0}
    /\ Human \cup Compensable \cup Tolerated \cup Skippable \subseteq Steps
    /\ Human \cap Compensable = {}
    /\ Faults \subseteq {"crash", "expired", "other"}
    /\ MaxFaults \in Nat

NoTick == <<>>

VARIABLES
    skipped,  \* the steps that skip_when skips
    log,      \* the agent's event log
    saved,    \* the checkpoint: cursor and view
    tick,     \* the tick under way: its view, and the events still to append
    routed,   \* requests up to here are in the tool queues
    overdue,  \* saga_timeout_ms has passed since the start
    faults,   \* how many faults happened
    torn      \* history: a crash lost the fold of a "compensating" that was appended

vars == <<skipped, log, saved, tick, routed, overdue, faults, torn>>

ToolRequests == {"requested", "undo"}    \* tool.<tool>.requested, <compensate_tool>
WorkerAnswers == {"completed", "failed"} \* "failed": or proceed_when not satisfied
ToolAnswers == WorkerAnswers \cup {"expired"} \* tool.<tool>.failed of the sweeper
EventTypes == ToolRequests \cup ToolAnswers \cup
    {"started", "step_started", "awaiting_approval", "step_completed", "step_failed", "done",
     "timed_out", "compensating", "compensation_started", "compensation_failed", "dlq", "other"}
States == {"pending", "in_flight", "awaiting_approval", "completed", "failed",
           "compensating_started"}

NoStates == [s \in {} |-> "pending"]
Event(type, step) == [type |-> type, step |-> step, of |-> 0, states |-> NoStates]
Answer(kind, p) == [Event(kind, log[p].step) EXCEPT !.of = p]
Record(type, step, states) == [Event(type, step) EXCEPT !.states = states]

Init ==
    /\ skipped \in SUBSET Skippable
    /\ log = <<Event("started", 0)>>
    /\ saved = [cursor |-> 0, direction |-> "forward", current |-> 0,
                states |-> [s \in Steps |-> "pending"], stack |-> <<>>,
                requests |-> {}, completions |-> {}]
    /\ tick = NoTick
    /\ routed = 0
    /\ overdue = FALSE
    /\ faults = 0
    /\ torn = FALSE

Fault(kind) ==
    /\ kind \in Faults
    /\ faults < MaxFaults
    /\ faults' = faults + 1

-----------------------------------------------------------------------------
\* The SagaProjection: one handler per event type.

\* The steps of a set, the last one first.
Backwards(steps) ==
    LET upTo[s \in 0 .. Length] ==
            IF s = 0 THEN <<>>
            ELSE IF s \in steps THEN <<s>> \o upTo[s - 1] ELSE upTo[s - 1]
    IN  upTo[Length]

Project(v, e) ==
    CASE e.type = "step_started" ->
             [v EXCEPT !.current = e.step, !.states[e.step] = "in_flight"]
      [] e.type = "awaiting_approval" ->
             [v EXCEPT !.current = e.step, !.states[e.step] = "awaiting_approval"]
      [] e.type \in {"step_completed", "step_failed"} -> [v EXCEPT !.states = e.states]
      [] e.type = "compensating" ->
             [v EXCEPT !.direction = "compensating",
                       !.stack = Backwards({s \in Compensable : v.states[s] = "completed"})]
      [] e.type = "compensation_started" ->
             [v EXCEPT !.states[e.step] = "compensating_started",
                       !.stack = IF Contains(@, e.step) THEN @ ELSE Append(@, e.step)]
      [] e.type = "done" -> [v EXCEPT !.direction = "done"]
      [] e.type \in {"dlq", "compensation_failed"} ->
             [v EXCEPT !.direction = "compensation_failed",
                       !.current = IF e.step = 0 THEN @ ELSE e.step]
      [] e.type = "timed_out" -> [v EXCEPT !.current = IF e.step = 0 THEN @ ELSE e.step]
      [] OTHER -> v

\* overlay_tool_calls: an answer is attached to its request when that is in the view or in
\* the batch.
Attach(v, batch) ==
    LET requests == v.requests \cup {p \in batch : log[p].type \in ToolRequests}
        answered == {log[p].of : p \in {q \in batch : log[q].type \in ToolAnswers}}
    IN  [v EXCEPT !.requests = requests, !.completions = @ \cup (answered \cap requests)]

\* Mutant of Evict: the answers stay behind.
EvictRequests(v, answered) == [v EXCEPT !.requests = @ \ answered]

Evict(v, answered) ==
    [v EXCEPT !.requests = @ \ answered, !.completions = @ \ answered]

HasToolEvents(batch) == \E p \in batch : log[p].type \in ToolRequests \cup ToolAnswers

\* The events behind the cursor, projected one after the other.
Projected(v) ==
    LET upTo[p \in v.cursor .. Len(log)] ==
            IF p = v.cursor THEN v ELSE Project(upTo[p - 1], log[p])
    IN  upTo[Len(log)]

\* fold_with_filter: the events behind the cursor.  The overlay evicts the requests that were
\* answered before this batch.
Fold(v) ==
    LET batch == v.cursor + 1 .. Len(log)
        overlaid == IF HasToolEvents(batch)
                    THEN Evict(Attach(Projected(v), batch), v.requests \cap v.completions)
                    ELSE Projected(v)
    IN  [overlaid EXCEPT !.cursor = Len(log)]

\* fold_with_systems: the events that the systems emitted, without the projections.  The
\* overlay evicts every answered request.
FoldEmitted(v, emitted) ==
    LET attached == Attach(v, emitted) IN
    IF HasToolEvents(emitted) THEN Evict(attached, attached.completions) ELSE v

-----------------------------------------------------------------------------
\* SagaSystem: what it emits for the last event of its view.

\* Mutant of NextStep: the search starts at the step itself.
NextStepAgain(after) ==
    LET steps == {s \in Steps \ skipped : s >= after} IN
    IF steps = {} THEN 0 ELSE CHOOSE s \in steps : \A t \in steps : s <= t

\* Mutant of NextStep: the search starts one step too far.
NextStepBeyond(after) ==
    LET steps == {s \in Steps \ skipped : s > after + 1} IN
    IF steps = {} THEN 0 ELSE CHOOSE s \in steps : \A t \in steps : s <= t

NextStep(after) ==
    LET steps == {s \in Steps \ skipped : s > after} IN
    IF steps = {} THEN 0 ELSE CHOOSE s \in steps : \A t \in steps : s <= t

\* Mutant of Dispatch: without record_start, which moves current_step.
DispatchUnrecorded(step) ==
    IF step = 0 THEN <<Event("done", 0)>>
    ELSE <<Event(IF step \in Human THEN "awaiting_approval" ELSE "requested", step)>>

\* record_start and dispatch_step, or saga_completed when no step is left.
Dispatch(step) ==
    IF step = 0 THEN <<Event("done", 0)>>
    ELSE <<Event("step_started", step),
           Event(IF step \in Human THEN "awaiting_approval" ELSE "requested", step)>>

\* For each step: its compensation has started, and compensate_tool is requested.
Undo(order) ==
    [i \in 1 .. 2 * Len(order) |->
        IF i % 2 = 1 THEN Event("compensation_started", order[(i + 1) \div 2])
        ELSE Event("undo", order[i \div 2])]

\* Mutant of BeginCompensation: every step that was started is undone.
BeginCompensationEarly(v) ==
    <<Event("compensating", 0)>> \o Undo(Backwards({s \in Compensable : v.states[s] # "pending"}))

\* The stack is reversed before use, whether it came from the projection or, reversed
\* already, from the declared order.
BeginCompensation(v) ==
    LET declared == Backwards({s \in Compensable : v.states[s] \in {"completed", "failed"}})
    IN  <<Event("compensating", 0)>> \o
        Undo(Reverse(IF v.stack # <<>> THEN v.stack ELSE declared))

\* Mutant of HandleCompletion: the failure branch does not return.
HandleCompletionFallsThrough(v, kind) ==
    LET states == [v.states EXCEPT ![v.current] = kind]
        failed == kind = "failed" /\ v.current \notin Tolerated
    IN  <<Record(IF kind = "failed" THEN "step_failed" ELSE "step_completed", v.current, states)>>
        \o (IF failed THEN BeginCompensation(v) ELSE <<>>)
        \o Dispatch(NextStep(v.current))

\* _handle_completion, _advance and _handle_failure.
HandleCompletion(v, kind) ==
    LET states == [v.states EXCEPT ![v.current] = kind] IN
    IF kind = "completed"
    THEN <<Record("step_completed", v.current, states)>> \o Dispatch(NextStep(v.current))
    ELSE <<Record("step_failed", v.current, states)>> \o
         (IF v.current \in Tolerated THEN Dispatch(NextStep(v.current)) ELSE BeginCompensation(v))

\* _completion_for_step: of the requests of the step's tool, the first one counts.
StepAnswered(v) ==
    \E r \in v.requests \cap v.completions :
        /\ log[r] = Event("requested", v.current)
        /\ \A q \in v.requests : log[q] = log[r] => r <= q

Trigger(v) == log[v.cursor]    \* the last domain event folded

\* is_compensation_failure, while the saga compensates
UndoFailed(v) ==
    /\ v.direction = "compensating"
    /\ Trigger(v).type \in ToolAnswers \ {"completed"}
    /\ log[Trigger(v).of].type = "undo"
    /\ Contains(v.stack, Trigger(v).step)

\* __call__
Emits(v) ==
    LET type == Trigger(v).type IN
    CASE type = "started" -> Dispatch(NextStep(0))
      [] type = "timed_out" /\ v.direction = "forward" -> BeginCompensation(v)
      [] type = "compensation_failed" -> <<Event("dlq", v.current)>>
      [] UndoFailed(v) -> <<Event("compensation_failed", v.current), Event("dlq", v.current)>>
      [] type \in ToolAnswers /\ ~UndoFailed(v) /\ StepAnswered(v) ->
             HandleCompletion(v, IF type = "completed" THEN "completed" ELSE "failed")
      [] OTHER -> <<>>

\* Mutant of EmitsTimeout: only steps in flight are timed.
EmitsTimeoutTools(v) ==
    IF /\ overdue
       /\ v.direction = "forward"
       /\ v.current # 0
       /\ v.states[v.current] = "in_flight"
    THEN <<Event("timed_out", v.current)>>
    ELSE <<>>

\* SagaTimeoutSystem
EmitsTimeout(v) ==
    IF overdue /\ v.direction = "forward" THEN <<Event("timed_out", v.current)>> ELSE <<>>

\* ToolCallTTLSweeperSystem, for the requests that have expired.
EmitsExpired(expired) == [i \in DOMAIN expired |-> Answer("expired", expired[i])]

-----------------------------------------------------------------------------
\* A tick loads the checkpoint, folds, routes the batch and runs the systems in their order:
\* sweeper, saga, timeout.  With nothing to append it saves at once.
Tick(expired) ==
    LET v == Fold(saved)
        out == EmitsExpired(expired) \o Emits(v) \o EmitsTimeout(v)
    IN  /\ Range(expired) \subseteq v.requests \ v.completions
        /\ saved.cursor < Len(log) \/ out # <<>>
        /\ routed' = Len(log)
        /\ IF out = <<>>
           THEN saved' = v /\ UNCHANGED tick
           ELSE tick' = [view |-> v, out |-> out, emitted |-> {}] /\ UNCHANGED saved
        /\ UNCHANGED <<skipped, log, overdue, torn>>

Read ==
    /\ tick = NoTick
    /\ \/ Tick(<<>>) /\ UNCHANGED faults
       \/ Fault("expired") /\ \E p \in DOMAIN log : Tick(<<p>>)

\* append_batch: one event after the other.
AppendNext ==
    /\ tick # NoTick
    /\ tick.out # <<>>
    /\ log' = Append(log, Head(tick.out))
    /\ tick' = [tick EXCEPT !.out = Tail(@), !.emitted = @ \cup {Len(log) + 1}]
    /\ UNCHANGED <<skipped, saved, routed, overdue, faults, torn>>

\* The requests emitted are routed.
Route ==
    /\ tick # NoTick
    /\ tick.out = <<>>
    /\ ~(tick.emitted \subseteq 1 .. routed)
    /\ routed' = Len(log)
    /\ UNCHANGED <<skipped, log, saved, tick, overdue, faults, torn>>

\* The events emitted are folded, and the result saved.
Save ==
    /\ tick # NoTick
    /\ tick.out = <<>>
    /\ tick.emitted \subseteq 1 .. routed
    /\ saved' = FoldEmitted(tick.view, tick.emitted)
    /\ tick' = NoTick
    /\ UNCHANGED <<skipped, log, routed, overdue, faults, torn>>

\* The dispatcher's process dies in a tick.
Crash ==
    /\ tick # NoTick
    /\ Fault("crash")
    /\ tick' = NoTick
    /\ torn' = (torn \/ \E p \in tick.emitted : log[p].type = "compensating")
    /\ UNCHANGED <<skipped, log, saved, routed, overdue>>

-----------------------------------------------------------------------------
\* Producers on the same log.

\* A worker answers a request, late or not.
Respond(p) ==
    /\ log[p].type \in ToolRequests
    /\ p <= routed
    /\ ~ \E q \in DOMAIN log : log[q].type \in WorkerAnswers /\ log[q].of = p
    /\ \E kind \in WorkerAnswers : log' = Append(log, Answer(kind, p))
    /\ UNCHANGED <<skipped, saved, tick, routed, overdue, faults, torn>>

\* Any other domain event of the agent, the approval of a human step included: no system
\* handles it.
Other ==
    /\ Fault("other")
    /\ log' = Append(log, Event("other", 0))
    /\ UNCHANGED <<skipped, saved, tick, routed, overdue, torn>>

Deadline ==
    /\ ~overdue
    /\ overdue' = TRUE
    /\ UNCHANGED <<skipped, log, saved, tick, routed, faults, torn>>

-----------------------------------------------------------------------------
Dispatcher == Read \/ AppendNext \/ Route \/ Save

Next ==
    \/ Dispatcher
    \/ Crash
    \/ \E p \in DOMAIN log : Respond(p)
    \/ Other
    \/ Deadline

Spec == Init /\ [][Next]_vars

\* The dispatcher ticks and time passes; tools need not answer.
FairSpec == Spec /\ WF_vars(Dispatcher) /\ WF_vars(Deadline)

-----------------------------------------------------------------------------
\* Every variable has its type; a tick holds what it has still to append.
TypeOK ==
    /\ skipped \subseteq Skippable
    /\ \A p \in DOMAIN log : /\ log[p].type \in EventTypes
                             /\ log[p].step \in 0 .. Length
                             /\ log[p].of \in 0 .. p - 1
    /\ saved.cursor \in 0 .. Len(log)
    /\ saved.direction \in {"forward", "compensating", "compensation_failed", "done"}
    /\ saved.current \in 0 .. Length
    /\ saved.states \in [Steps -> States]
    /\ saved.completions \subseteq saved.requests
    /\ \A p \in saved.requests : log[p].type \in ToolRequests
    /\ tick = NoTick \/ tick.emitted \subseteq tick.view.cursor + 1 .. Len(log)
    /\ routed \in 0 .. Len(log)
    /\ overdue \in BOOLEAN
    /\ faults \in 0 .. MaxFaults
    /\ torn \in BOOLEAN

Before(p) == 1 .. p - 1
AnsweredBefore(p, step) ==
    \E q \in Before(p) : log[q].type \in ToolAnswers /\ log[log[q].of] = Event("requested", step)

\* Until the saga's deadline, a step's tool is requested at most once, whatever crashes,
\* expiries and late answers the ticks meet.  (A timed_out event puts current_step back: with
\* a crash before the checkpoint, the step's answer is then taken for the step before it.)
StepOnce ==
    \A p, q \in DOMAIN log :
        /\ log[p].type = "requested"
        /\ log[q] = log[p]
        /\ ~ \E r \in Before(q) : log[r].type = "timed_out"
        => q <= p

\* A tool is requested only when every earlier step that is not skipped has been answered;
\* in particular no step follows one that waits for an approval.
InOrder ==
    \A p \in DOMAIN log : log[p].type = "requested" =>
        \A s \in 1 .. log[p].step - 1 : s \in skipped \/ AnsweredBefore(p, s)

\* A step is undone only after an answer to its request: what may still take effect is not
\* rolled back early.
UndoneAfterAnswer ==
    \A p \in DOMAIN log : log[p].type = "undo" => AnsweredBefore(p, log[p].step)

\* A saga that rolls back because a step failed requests no further step.  (One that rolls
\* back at its deadline may: the answer of the step in flight is handled like any other.  So
\* may one whose "compensating" was appended but not saved: the next tick has the failed
\* step's answer in its batch again, and takes the undo's answer for it.)
FailureStopsSaga ==
    ~torn => \A p, q \in DOMAIN log :
        log[p].type = "compensating" /\ log[q].type = "requested" /\ p < q =>
            \E r \in Before(p) : log[r].type = "timed_out"

\* The dispatcher has seen the whole log and, before the deadline, emits no more by itself.
Quiet == tick = NoTick /\ saved.cursor = Len(log) /\ ~overdue

Waits(step) ==
    \/ \E p \in saved.requests \ saved.completions : log[p] = Event("requested", step)
    \/ saved.states[step] = "awaiting_approval"

\* Without crash, expiry or foreign event, a saga that is still going forward when the
\* dispatcher is quiet waits for the answer or the approval of its current step.
NotStalled ==
    Quiet /\ saved.direction = "forward" /\ faults = 0 =>
        saved.current # 0 /\ Waits(saved.current)

\* Every saga stops going forward for good: it is done, compensates or has failed to, at the
\* latest after its deadline.
SagaEnds == <>[](saved.direction # "forward")

\* What docs/workflow_saga.md says of the code: the failure of the step in flight is
\* evaluated, so a quiet saga does not still have that step in flight.
FailuresHandled ==
    Quiet /\ saved.direction = "forward" =>
        ~ \E p \in DOMAIN log : /\ log[p].type \in ToolAnswers \ {"completed"}
                                /\ log[log[p].of] = Event("requested", saved.current)
                                /\ saved.states[saved.current] = "in_flight"
=============================================================================
