----------------------------- MODULE ToolQueue ------------------------------
(***************************************************************************)
(* The queue of one tool: a Redis stream of requests, which the            *)
(* WorkerManagers of a consumer group execute; they append the answer to   *)
(* the EventLog and acknowledge; each manager's reaper takes over what has *)
(* been pending for too long.  ToolRouting says how requests get there.    *)
(*                                                                         *)
(* A message is an entry of the stream, named by its position.  A task is  *)
(* an asyncio task of a manager; it acknowledges the message "id" and runs *)
(* the request of the message "run", which the reaper takes from the reply *)
(* of XAUTOCLAIM.                                                          *)
(***************************************************************************)
EXTENDS Integers, Sequences, FiniteSets

CONSTANTS
    Requests,        \* tool.<name>.requested events, by event id
    Denied,          \* requests that the tool's ACL turns down
    Managers,
    Deployments,     \* the sets of managers to consider
    Idempotency,     \* the declarations __tool_worker_idempotent__ to consider
    Timing,          \* whether the tool declares a timeout: the cases to consider
    Retries,         \* __tool_worker_retries__
    MaxConcurrency,  \* __tool_worker_max_concurrency__
    Faults,          \* the kinds of fault that may happen
    MaxFaults,       \* bound of the model: number of faults
    MaxSize,         \* bound of the model: managers and messages together
    MaxTasks         \* bound of the model: tasks alive at a time

ASSUME ToolAssumption ==
    /\ Denied \subseteq Requests
    /\ Deployments \subseteq (SUBSET Managers) \ {{}}
    /\ Idempotency \subseteq BOOLEAN
    /\ Timing \subseteq BOOLEAN
    /\ Faults \subseteq {"crash", "append", "ack"}
    /\ {Retries, MaxFaults, MaxSize} \subseteq Nat
    /\ {MaxConcurrency, MaxTasks} \subseteq Nat \ {0}

\* What becomes of a request, as the event in the log says; "done" is the tool's own result,
\* completed or failed.
Kinds == {"done", "denied", "refused", "exhausted"}

Slots == 1 .. MaxTasks
NoTask == [at |-> "none"]

VARIABLES
    managers,    \* the managers deployed
    idempotent,  \* the tool's declarations, fixed at registration
    timed,
    queue,       \* the stream: request of each message
    delivered,   \* the group's last delivered message
    pending,     \* the group's pending entries: message -> times_delivered, capped
    stale,       \* pending messages that may be reclaimed
    task,        \* slot -> task
    line,        \* manager -> tasks that wait for its semaphore, first come first
    examining,   \* manager -> entries its reaper has read and not looked at yet
    answers,     \* request -> answers in the log
    runs,        \* history: message -> how often it was run, capped
    swapped,     \* history: messages acknowledged for the run of another message
    lost,        \* history: requests with an answer that could not be appended
    faults       \* how many faults happened

group == <<delivered, pending, stale>>
history == <<runs, swapped, lost>>
deployment == <<managers, idempotent, timed>>
tasks == <<task, line>>
vars == <<deployment, queue, group, tasks, examining, answers, history, faults>>

Messages == 1 .. Len(queue)

Task == [manager : managers, id : 1 .. delivered, run : 1 .. delivered, claimed : BOOLEAN,
         at : {"waiting", "running", "append", "ack", "raised"},
         kind : Kinds \cup {"none"}]

TypeOK ==
    /\ managers \in Deployments
    /\ idempotent \in Idempotency
    /\ timed \in Timing
    /\ queue \in Seq(Requests)
    /\ delivered \in 0 .. Len(queue)
    /\ DOMAIN pending \subseteq 1 .. delivered
    /\ \A m \in DOMAIN pending : pending[m] \in 1 .. Retries + 1
    /\ stale \subseteq DOMAIN pending
    /\ task \in [Slots -> Task \cup {NoTask}]
    /\ line \in [managers -> Seq(Slots)]
    /\ examining \in [managers -> SUBSET (1 .. delivered)]
    /\ answers \in [Requests -> SUBSET Kinds]
    /\ runs \in [Messages -> 0 .. 2]
    /\ swapped \subseteq 1 .. delivered
    /\ lost \subseteq Requests
    /\ faults \in 0 .. MaxFaults

Init ==
    /\ managers \in Deployments
    /\ idempotent \in Idempotency
    /\ timed \in Timing
    /\ queue = <<>>
    /\ delivered = 0
    /\ pending = <<>>
    /\ stale = {}
    /\ task = [t \in Slots |-> NoTask]
    /\ line = [w \in managers |-> <<>>]
    /\ examining = [w \in managers |-> {}]
    /\ answers = [r \in Requests |-> {}]
    /\ runs = <<>>
    /\ swapped = {}
    /\ lost = {}
    /\ faults = 0

Fault(kind) ==
    /\ kind \in Faults
    /\ faults < MaxFaults
    /\ faults' = faults + 1

Capped(n, cap) == IF n < cap THEN n ELSE cap

-----------------------------------------------------------------------------
\* ToolRouter appends a request; a request may come twice (see ToolRouting).
Enqueue(r) ==
    /\ Len(queue) + Cardinality(managers) < MaxSize
    /\ queue' = Append(queue, r)
    /\ runs' = Append(runs, 0)
    /\ UNCHANGED <<deployment, group, tasks, examining, answers, swapped, lost, faults>>

-----------------------------------------------------------------------------
\* Tasks of a manager.

Free == {t \in Slots : task[t] = NoTask}
Alive == Slots \ Free

Slot == CHOOSE t \in Free : TRUE

Spawn(w, id, run, claimed, at, kind) ==
    /\ Free # {}
    /\ task' = [task EXCEPT ![Slot] =
          [manager |-> w, id |-> id, run |-> run, claimed |-> claimed, at |-> at, kind |-> kind]]

\* A task of the consume loop or of the reaper queues on the manager's semaphore.
Queues(w, id, run, claimed) ==
    /\ Spawn(w, id, run, claimed, "waiting", "none")
    /\ line' = [line EXCEPT ![w] = Append(@, Slot)]

Goes(t, at, kind) == task' = [task EXCEPT ![t].at = at, ![t].kind = kind]
Ends(t) == task' = [task EXCEPT ![t] = NoTask]

\* Holders of the manager's semaphore; the reaper's own awaits need none.
Holding(w) ==
    {t \in Alive : task[t].manager = w /\ task[t].at # "waiting" /\ task[t].kind # "refused"}

\* _in_flight: only the consume loop marks its messages, once they have the semaphore.
InFlight(w, m) == \E t \in Holding(w) : task[t].id = m /\ ~task[t].claimed

WorkerUnchanged == UNCHANGED <<deployment, queue>>

\* _consume_loop: XREADGROUP ">" delivers the next message, a task is created for it.
Deliver(w) ==
    /\ delivered < Len(queue)
    /\ delivered' = delivered + 1
    /\ pending' = [m \in DOMAIN pending \cup {delivered + 1} |->
                      IF m = delivered + 1 THEN 1 ELSE pending[m]]
    /\ Queues(w, delivered + 1, delivered + 1, FALSE)
    /\ WorkerUnchanged
    /\ UNCHANGED <<stale, examining, answers, history, faults>>

\* The semaphore is free for the first in line: the ACL gate, then the tool.
Acquire(t) ==
    LET w == task[t].manager  m == task[t].run IN
    /\ task[t].at = "waiting"
    /\ line[w] # <<>> /\ t = Head(line[w])
    /\ line' = [line EXCEPT ![w] = Tail(@)]
    /\ Cardinality(Holding(w)) < MaxConcurrency
    /\ \/ /\ queue[m] \in Denied
          /\ Goes(t, "append", "denied")
          /\ UNCHANGED runs
       \/ /\ queue[m] \notin Denied
          /\ Goes(t, "running", "none")
          /\ runs' = [runs EXCEPT ![m] = Capped(@ + 1, 2)]
    /\ WorkerUnchanged
    /\ UNCHANGED <<group, examining, answers, swapped, lost, faults>>

\* The tool returns a result.
Finish(t) ==
    /\ task[t].at = "running"
    /\ Goes(t, "append", "done")
    /\ WorkerUnchanged
    /\ UNCHANGED <<group, line, examining, answers, history, faults>>

\* An exception outside the Result: the pool broke, the tool raised.
Raise(t) ==
    /\ task[t].at = "running"
    /\ Goes(t, "raised", "none")
    /\ WorkerUnchanged
    /\ UNCHANGED <<group, line, examining, answers, history, faults>>

\* The answer's event id is a hash over cause, type and data: the same answer is once in
\* the log.
AppendAnswer(t) ==
    /\ task[t].at = "append"
    /\ answers' = [answers EXCEPT ![queue[task[t].run]] = @ \cup {task[t].kind}]
    /\ Goes(t, "ack", task[t].kind)
    /\ WorkerUnchanged
    /\ UNCHANGED <<group, line, examining, history, faults>>

\* The Err of append is ignored.
AppendFails(t) ==
    /\ task[t].at = "append"
    /\ Fault("append")
    /\ Goes(t, "ack", task[t].kind)
    /\ lost' = lost \cup {queue[task[t].run]}
    /\ WorkerUnchanged
    /\ UNCHANGED <<group, line, examining, answers, runs, swapped>>

\* Mutant of XAck: the reaper still sees the message.
XAckUnseen(m) ==
    /\ pending' = [k \in DOMAIN pending \ {m} |-> pending[k]]
    /\ UNCHANGED stale

\* XACK of message m.
XAck(m) ==
    /\ pending' = [k \in DOMAIN pending \ {m} |-> pending[k]]
    /\ stale' = stale \ {m}

Ack(t) ==
    /\ task[t].at = "ack"
    /\ XAck(task[t].id)
    /\ swapped' = IF task[t].id = task[t].run THEN swapped ELSE swapped \cup {task[t].id}
    /\ Ends(t)
    /\ WorkerUnchanged
    /\ UNCHANGED <<delivered, line, examining, answers, runs, lost, faults>>

\* XACK raises.  After a result this is handled like an exception of the tool; otherwise it
\* ends the task, or the reaper's round.
AckFails(t) ==
    LET w == task[t].manager IN
    /\ task[t].at = "ack"
    /\ Fault("ack")
    /\ IF task[t].kind = "done" THEN Goes(t, "raised", "none") ELSE Ends(t)
    /\ examining' = IF task[t].kind = "refused" THEN [examining EXCEPT ![w] = {}] ELSE examining
    /\ WorkerUnchanged
    /\ UNCHANGED <<group, line, answers, history>>

\* Mutant of Escalate: the message is left to the reaper, whatever its budget.
EscalateNever(t) ==
    /\ task[t].at = "raised"
    /\ Ends(t)
    /\ WorkerUnchanged
    /\ UNCHANGED <<group, line, examining, answers, history, faults>>

\* escalate_on_retry_budget_exceeded: give up, or leave the message to the reaper.
Escalate(t) ==
    LET m == task[t].id IN
    /\ task[t].at = "raised"
    /\ IF m \in DOMAIN pending /\ pending[m] > Retries
       THEN Goes(t, "append", "exhausted") ELSE Ends(t)
    /\ WorkerUnchanged
    /\ UNCHANGED <<group, line, examining, answers, history, faults>>

-----------------------------------------------------------------------------
\* The reaper of a manager.

\* A pending message has been idle for its threshold: reaper_idle_time or, with a declared
\* timeout, what is left until the deadline of its request.
Age(m) ==
    /\ m \in DOMAIN pending \ stale
    /\ stale' = stale \cup {m}
    /\ WorkerUnchanged
    /\ UNCHANGED <<delivered, pending, tasks, examining, answers, history, faults>>

Refusing(w) == \E t \in Alive : task[t].manager = w /\ task[t].kind = "refused"

\* reaper_loop_once: XPENDING, of which the entries that are idle matter.
Inspect(w) ==
    /\ examining[w] = {}
    /\ ~Refusing(w)
    /\ stale # {}
    /\ examining' = [examining EXCEPT ![w] = stale]
    /\ WorkerUnchanged
    /\ UNCHANGED <<group, tasks, answers, history, faults>>

Examined(w, m) == examining' = [examining EXCEPT ![w] = @ \ {m}]

\* The least of a set of messages, if there is one.
First(S) == {m \in S : \A k \in S : m <= k}

\* A message that this manager is executing is left alone.
Skip(w, m) ==
    /\ ~Refusing(w)
    /\ InFlight(w, m)
    /\ Examined(w, m)
    /\ WorkerUnchanged
    /\ UNCHANGED <<group, tasks, answers, history, faults>>

\* Mutant of Refuse: acknowledged without an answer.
RefuseSilently(w, m) ==
    /\ ~Refusing(w)
    /\ ~InFlight(w, m)
    /\ ~idempotent
    /\ Spawn(w, m, m, TRUE, "ack", "refused")
    /\ Examined(w, m)
    /\ WorkerUnchanged
    /\ UNCHANGED <<group, line, answers, history, faults>>

\* A non-idempotent request is not run again: it fails for good.
Refuse(w, m) ==
    /\ ~Refusing(w)
    /\ ~InFlight(w, m)
    /\ ~idempotent
    /\ Spawn(w, m, m, TRUE, "append", "refused")
    /\ Examined(w, m)
    /\ WorkerUnchanged
    /\ UNCHANGED <<group, line, answers, history, faults>>

\* The messages idle for the threshold of m, as far as it is determined.  What is left until
\* a deadline is a threshold for any of them to pass; after the deadline it is 0.
Claimable(m) ==
    IF timed THEN {S \in SUBSET DOMAIN pending : m \in stale => m \in S} ELSE {stale}

\* XAUTOCLAIM gives message c to the manager, which runs it for message m.  The idle time
\* starts anew; past its deadline a message stays reclaimable.
Claim(w, m, c) ==
    /\ pending' = [pending EXCEPT ![c] = Capped(@ + 1, Retries + 1)]
    /\ stale' \in IF timed THEN {stale, stale \ {c}} ELSE {stale \ {c}}
    /\ Queues(w, m, c, TRUE)

\* Mutant of Reclaim: the declaration is not asked.
ReclaimAny(w, m) ==
    /\ ~Refusing(w)
    /\ ~InFlight(w, m)
    /\ \E S \in Claimable(m) :
          \/ S = {} /\ UNCHANGED <<pending, stale, tasks>>
          \/ \E c \in First(S) : Claim(w, m, c)
    /\ Examined(w, m)
    /\ WorkerUnchanged
    /\ UNCHANGED <<delivered, answers, history, faults>>

\* XAUTOCLAIM from "0-0" with COUNT 1 claims the first message of the group that has been
\* idle for the threshold of the one examined: not always that one.
Reclaim(w, m) ==
    /\ ~Refusing(w)
    /\ ~InFlight(w, m)
    /\ idempotent
    /\ \E S \in Claimable(m) :
          \/ S = {} /\ UNCHANGED <<pending, stale, tasks>>
          \/ \E c \in First(S) : Claim(w, m, c)
    /\ Examined(w, m)
    /\ WorkerUnchanged
    /\ UNCHANGED <<delivered, answers, history, faults>>

\* A manager's process dies and restarts; the group's pending entries stay.
Crash(w) ==
    /\ Fault("crash")
    /\ task' = [t \in Slots |-> IF t \in Alive /\ task[t].manager = w THEN NoTask ELSE task[t]]
    /\ line' = [line EXCEPT ![w] = <<>>]
    /\ examining' = [examining EXCEPT ![w] = {}]
    /\ WorkerUnchanged
    /\ UNCHANGED <<group, answers, history>>

-----------------------------------------------------------------------------
Step(t) == Acquire(t) \/ AppendAnswer(t) \/ Ack(t) \/ Escalate(t)

Invocation(t) == Finish(t) \/ Raise(t)

Examine(w, m) == Skip(w, m) \/ Refuse(w, m) \/ Reclaim(w, m)

Reaper(w) == Inspect(w) \/ \E m \in First(examining[w]) : Examine(w, m)

Next ==
    \/ \E r \in Requests : Enqueue(r)
    \/ \E w \in managers : Deliver(w)
    \/ \E t \in Alive : Step(t)
    \/ \E t \in Alive : Invocation(t)
    \/ \E t \in Alive : AppendFails(t)
    \/ \E t \in Alive : AckFails(t)
    \/ \E m \in DOMAIN pending : Age(m)
    \/ \E w \in managers : Reaper(w)
    \/ \E w \in managers : Crash(w)

Spec == Init /\ [][Next]_vars

\* Redis answers, a tool returns or raises, pending messages grow old, and the reaper loop
\* runs for ever.
FairSpec ==
    /\ Spec
    /\ WF_vars(\E w \in managers : Deliver(w))
    /\ \A t \in Slots : WF_vars(t \in Alive /\ (Step(t) \/ Invocation(t)))
    /\ \A m \in 1 .. MaxSize : WF_vars(Age(m))
    /\ \A w \in Managers : SF_vars(w \in managers /\ Reaper(w))

-----------------------------------------------------------------------------
Acknowledged == (1 .. delivered) \ DOMAIN pending
Answered(r) == answers[r] # {}

\* "Acknowledge the message since it was processed": a message leaves the pending list
\* only after its request has an answer in the log.
ProcessedBeforeAck == \A m \in Acknowledged : Answered(queue[m])

\* ProcessedBeforeAck misses two cases only: the append of an answer failed, and the
\* reaper acknowledged the message it examined for the run of the one it was given.
AckedOrSwapped ==
    \A m \in Acknowledged : Answered(queue[m]) \/ m \in swapped \/ queue[m] \in lost

\* "Re-running a non-idempotent tool would repeat its side effect": through crashes, lost
\* acknowledgements and reapers of several managers, no message is run twice.
RunOnce == ~idempotent => \A m \in Messages : runs[m] <= 1

\* Every request in the queue is answered in the end, through exceptions of the tool,
\* crashes of its workers and lost acknowledgements, unless the append of its answer failed
\* or the reaper ran a message for another one.
EveryRequestAnswered ==
    \A r \in Requests :
        (\E m \in Messages : queue[m] = r) ~>
            \/ Answered(r) \/ r \in lost
            \/ swapped # {} \/ \E t \in Alive : task[t].id # task[t].run
=============================================================================
