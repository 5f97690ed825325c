-------------------------- MODULE ToolQueueProofs --------------------------
(***************************************************************************)
(* Proofs about ToolQueue, for any requests, managers, retries, faults and *)
(* sizes.                                                                  *)
(***************************************************************************)
EXTENDS ToolQueue, SequenceTheorems, TLAPS

Tasks == [Slots -> Task \cup {NoTask}]
Ats == {"waiting", "running", "append", "ack", "raised"}

LEMMA AliveTask ==
    ASSUME TypeOK, NEW t \in Alive
    PROVE  t \in Slots /\ task[t] \in Task /\ task[t] # NoTask
BY DEF TypeOK, Alive, Free

\* Moving a task keeps the tasks typed.
LEMMA GoesTyped ==
    ASSUME TypeOK, NEW t \in Alive, NEW at \in Ats, NEW kind \in Kinds \cup {"none"},
           Goes(t, at, kind), UNCHANGED <<managers, delivered>>
    PROVE  (task \in Tasks)'
<1>1. [task[t] EXCEPT !.at = at, !.kind = kind] \in Task
  BY AliveTask DEF Task, Ats
<1>2. Task' = Task
  BY DEF Task
<1>3. task' = [task EXCEPT ![t] = [task[t] EXCEPT !.at = at, !.kind = kind]]
  BY AliveTask DEF Goes, TypeOK
<1>4. t \in Slots /\ task \in Tasks
  BY AliveTask DEF TypeOK, Tasks
<1>5. task' \in Tasks
  BY <1>1, <1>3, <1>4 DEF Tasks
<1> QED
  BY <1>2, <1>5 DEF Tasks

\* So does the end of a task.
LEMMA EndsTyped ==
    ASSUME TypeOK, NEW t \in Alive, Ends(t), UNCHANGED <<managers, delivered>>
    PROVE  (task \in Tasks)'
<1>1. Task' = Task
  BY DEF Task
<1>2. task' \in Tasks
  BY AliveTask DEF Ends, TypeOK, Tasks
<1> QED
  BY <1>1, <1>2 DEF Tasks

\* Tasks stay typed when a message is delivered.
LEMMA TaskGrows ==
    ASSUME TypeOK, managers' = managers, delivered' = delivered \/ delivered' = delivered + 1
    PROVE  Task \subseteq Task'
<1>1. 1 .. delivered \subseteq 1 .. delivered'
  BY DEF TypeOK
<1> QED
  BY <1>1 DEF Task

LEMMA FreeSlot ==
    ASSUME Free # {}
    PROVE  Slot \in Free /\ Slot \in Slots
BY DEF Free, Slot

\* A new task is typed if what it is made of is.
LEMMA SpawnTyped ==
    ASSUME TypeOK, NEW w \in managers, NEW id, NEW run, NEW claimed \in BOOLEAN, NEW at \in Ats,
           NEW kind \in Kinds \cup {"none"}, Spawn(w, id, run, claimed, at, kind),
           managers' = managers, delivered' = delivered \/ delivered' = delivered + 1,
           id \in 1 .. delivered', run \in 1 .. delivered'
    PROVE  (task \in Tasks)'
<1> DEFINE new == [manager |-> w, id |-> id, run |-> run, claimed |-> claimed, at |-> at,
                   kind |-> kind]
<1>1. new \in Task'
  BY DEF Task, Ats
<1>2. task \in [Slots -> Task' \cup {NoTask}]
  BY TaskGrows DEF TypeOK
<1>3. Slot \in Slots /\ task' = [task EXCEPT ![Slot] = new]
  BY FreeSlot DEF Spawn
<1> HIDE DEF new
<1>4. task' \in [Slots -> Task' \cup {NoTask}]
  BY <1>1, <1>2, <1>3
<1> QED
  BY <1>4 DEF Tasks

\* A task that queues is one of the manager's line.
LEMMA QueuesTyped ==
    ASSUME TypeOK, NEW w \in managers, NEW id, NEW run, NEW claimed,
           Queues(w, id, run, claimed), managers' = managers
    PROVE  line' \in [managers' -> Seq(Slots)]
<1>1. line[w] \in Seq(Slots) /\ Slot \in Slots /\ line \in [managers -> Seq(Slots)]
  BY FreeSlot DEF Queues, Spawn, TypeOK
<1>2. Append(line[w], Slot) \in Seq(Slots)
  BY <1>1
<1> QED
  BY <1>1, <1>2 DEF Queues

LEMMA FaultTyped ==
    ASSUME TypeOK, NEW kind, Fault(kind)
    PROVE  faults' \in 0 .. MaxFaults
BY ToolAssumption DEF Fault, TypeOK

LEMMA TypeInit == Init => TypeOK
BY ToolAssumption DEF Init, TypeOK, Messages, NoTask

LEMMA EnqueueTyped ==
    ASSUME TypeOK, NEW r \in Requests, Enqueue(r)
    PROVE  TypeOK'
<1>1. queue \in Seq(Requests) /\ Len(queue) \in Nat /\ delivered \in 0 .. Len(queue)
  BY DEF TypeOK
<1>2. runs \in Seq(0 .. 2) /\ Len(runs) = Len(queue)
  BY <1>1, SeqDef DEF TypeOK, Messages
<1>3. queue' \in Seq(Requests) /\ Len(queue') = Len(queue) + 1 /\ queue' = Append(queue, r)
  BY <1>1 DEF Enqueue
<1>4. runs' \in Seq(0 .. 2) /\ Len(runs') = Len(queue')
  BY <1>2, <1>3 DEF Enqueue
<1>5. runs' \in [1 .. Len(queue') -> 0 .. 2]
  BY <1>4
<1>6. delivered' \in 0 .. Len(queue')
  BY <1>1, <1>3 DEF Enqueue, group
<1>7. (task \in Tasks)'
  BY DEF Enqueue, deployment, group, tasks, TypeOK, Tasks, Task
<1> QED
  BY <1>3, <1>5, <1>6, <1>7
  DEF Enqueue, deployment, group, tasks, TypeOK, Tasks, Messages

LEMMA DeliverTyped ==
    ASSUME TypeOK, NEW w \in managers, Deliver(w)
    PROVE  TypeOK'
<1>1. /\ queue' = queue /\ Len(queue) \in Nat /\ delivered \in Nat
      /\ delivered' = delivered + 1 /\ delivered' \in 0 .. Len(queue)
      /\ managers' = managers
  BY DEF Deliver, WorkerUnchanged, deployment, TypeOK
<1>2. delivered + 1 \in 1 .. delivered'
  BY <1>1
<1>3. (task \in Tasks)'
  BY <1>1, <1>2, SpawnTyped DEF Deliver, Queues, Ats
<1>4. 1 .. delivered \subseteq 1 .. delivered'
  BY <1>1
<1>5. DOMAIN pending' = DOMAIN pending \cup {delivered + 1}
  BY DEF Deliver
<1>6. DOMAIN pending' \subseteq 1 .. delivered'
  BY <1>2, <1>4, <1>5 DEF TypeOK
<1>7. ASSUME NEW m \in DOMAIN pending' PROVE pending'[m] \in 1 .. Retries + 1
  BY <1>5, <1>7, ToolAssumption DEF Deliver, TypeOK
<1>8. examining' \in [managers' -> SUBSET (1 .. delivered')]
  BY <1>1, <1>4 DEF Deliver, TypeOK
<1>9. stale' \subseteq DOMAIN pending' /\ swapped' \subseteq 1 .. delivered'
  BY <1>4, <1>5 DEF Deliver, history, TypeOK
<1>10. line' \in [managers' -> Seq(Slots)]
  BY <1>1, QueuesTyped DEF Deliver
<1> QED
  BY <1>1, <1>3, <1>6, <1>7, <1>8, <1>9, <1>10
  DEF Deliver, WorkerUnchanged, deployment, history, TypeOK, Tasks, Messages

\* A task with an answer knows which.
Known == \A t \in Alive : task[t].at \in {"append", "ack"} => task[t].kind \in Kinds

\* What a task is made of.
LEMMA Parts ==
    ASSUME TypeOK, NEW t \in Alive
    PROVE  /\ task[t].manager \in managers
           /\ task[t].id \in 1 .. delivered
           /\ task[t].run \in 1 .. delivered
           /\ task[t].run \in Messages
           /\ queue[task[t].run] \in Requests
           /\ task[t].kind \in Kinds \cup {"none"}
<1>1. task[t] \in Task /\ delivered \in 0 .. Len(queue) /\ queue \in Seq(Requests)
  BY AliveTask DEF TypeOK
<1>2. task[t].run \in 1 .. Len(queue)
  BY <1>1 DEF Task
<1> QED
  BY <1>1, <1>2 DEF Task, Messages

\* The steps of a task that follow from the result.
LEMMA AcquireTyped ==
    ASSUME TypeOK, NEW t \in Alive, Acquire(t)
    PROVE  TypeOK'
<1>1. (task \in Tasks)'
  BY GoesTyped DEF Acquire, WorkerUnchanged, deployment, group, Ats, Kinds
<1>2. runs' \in [Messages -> 0 .. 2]
  <2>1. PICK m \in Messages : m = task[t].run
    BY Parts
  <2>2. runs' = runs \/ runs' = [runs EXCEPT ![m] = Capped(@ + 1, 2)]
    BY <2>1 DEF Acquire
  <2>3. runs \in [Messages -> 0 .. 2] /\ Capped(runs[m] + 1, 2) \in 0 .. 2
    BY DEF Capped, TypeOK
  <2> QED
    BY <2>2, <2>3
<1>3. line' \in [managers -> Seq(Slots)]
  <2>1. PICK w \in managers : w = task[t].manager
    BY Parts
  <2>2. line[w] \in Seq(Slots) /\ line[w] # <<>> /\ line' = [line EXCEPT ![w] = Tail(@)]
    BY <2>1 DEF Acquire, TypeOK
  <2>3. Tail(line[w]) \in Seq(Slots)
    BY <2>2
  <2> QED
    BY <2>2, <2>3 DEF TypeOK
<1> QED
  BY <1>1, <1>2, <1>3
  DEF Acquire, WorkerUnchanged, deployment, group, TypeOK, Tasks, Messages

LEMMA AppendAnswerTyped ==
    ASSUME TypeOK, Known, NEW t \in Alive, AppendAnswer(t)
    PROVE  TypeOK'
<1>1. task[t].kind \in Kinds
  BY DEF AppendAnswer, Known
<1>2. (task \in Tasks)'
  BY <1>1, GoesTyped DEF AppendAnswer, WorkerUnchanged, deployment, group, Ats
<1>3. answers' \in [Requests -> SUBSET Kinds]
  BY <1>1, Parts DEF AppendAnswer, TypeOK
<1> QED
  BY <1>2, <1>3
  DEF AppendAnswer, WorkerUnchanged, deployment, group, history, TypeOK, Tasks, Messages

LEMMA AppendFailsTyped ==
    ASSUME TypeOK, NEW t \in Alive, AppendFails(t)
    PROVE  TypeOK'
<1>1. (task \in Tasks)'
  BY Parts, GoesTyped DEF AppendFails, WorkerUnchanged, deployment, group, Ats
<1>2. lost' \subseteq Requests
  BY Parts DEF AppendFails, TypeOK
<1>3. faults' \in 0 .. MaxFaults
  BY FaultTyped DEF AppendFails
<1> QED
  BY <1>1, <1>2, <1>3
  DEF AppendFails, WorkerUnchanged, deployment, group, TypeOK, Tasks, Messages

LEMMA AckTyped ==
    ASSUME TypeOK, NEW t \in Alive, Ack(t)
    PROVE  TypeOK'
<1>1. (task \in Tasks)'
  BY EndsTyped DEF Ack, WorkerUnchanged, deployment
<1>2. /\ DOMAIN pending' \subseteq 1 .. delivered
      /\ \A m \in DOMAIN pending' : pending'[m] \in 1 .. Retries + 1
      /\ stale' \subseteq DOMAIN pending'
  BY DEF Ack, XAck, TypeOK
<1>3. swapped' \subseteq 1 .. delivered
  BY Parts DEF Ack, TypeOK
<1> QED
  BY <1>1, <1>2, <1>3 DEF Ack, WorkerUnchanged, deployment, TypeOK, Tasks, Messages

LEMMA AckFailsTyped ==
    ASSUME TypeOK, NEW t \in Alive, AckFails(t)
    PROVE  TypeOK'
<1>1. (task \in Tasks)'
  BY GoesTyped, EndsTyped DEF AckFails, WorkerUnchanged, deployment, group, Ats
<1>2. examining' \in [managers -> SUBSET (1 .. delivered)]
  BY DEF AckFails, TypeOK
<1>3. faults' \in 0 .. MaxFaults
  BY FaultTyped DEF AckFails
<1> QED
  BY <1>1, <1>2, <1>3
  DEF AckFails, WorkerUnchanged, deployment, group, history, TypeOK, Tasks, Messages

\* The tool returns or raises; an exception is given up or left to the reaper.
LEMMA ResultTyped ==
    ASSUME TypeOK, NEW t \in Alive, Finish(t) \/ Raise(t) \/ Escalate(t)
    PROVE  TypeOK'
<1>1. \/ \E at \in Ats, kind \in Kinds \cup {"none"} : Goes(t, at, kind)
      \/ Ends(t)
  BY DEF Finish, Raise, Escalate, Ats, Kinds
<1>2. UNCHANGED <<deployment, queue, group, line, examining, answers, history, faults>>
  BY DEF Finish, Raise, Escalate, WorkerUnchanged
<1>3. (task \in Tasks)'
  BY <1>1, <1>2, GoesTyped, EndsTyped DEF deployment, group
<1> QED
  BY <1>2, <1>3 DEF deployment, group, history, TypeOK, Tasks, Messages

\* The steps of a reaper.
LEMMA AgeTyped ==
    ASSUME TypeOK, NEW m \in DOMAIN pending, Age(m)
    PROVE  TypeOK'
BY DEF Age, WorkerUnchanged, deployment, tasks, history, TypeOK, Task, Messages

LEMMA LookTyped ==
    ASSUME TypeOK, NEW w \in managers, NEW m,
           Inspect(w) \/ Skip(w, m)
    PROVE  TypeOK'
<1>1. UNCHANGED <<deployment, queue, group, tasks, answers, history, faults>>
  BY DEF Inspect, Skip, WorkerUnchanged
<1>2. stale \subseteq 1 .. delivered
  BY DEF TypeOK
<1>3. examining' \in [managers -> SUBSET (1 .. delivered)]
  BY <1>2 DEF Inspect, Skip, Examined, TypeOK
<1> QED
  BY <1>1, <1>3 DEF deployment, group, tasks, history, TypeOK, Task, Messages

LEMMA RefuseTyped ==
    ASSUME TypeOK, NEW w \in managers, NEW m \in examining[w], Refuse(w, m)
    PROVE  TypeOK'
<1>1. UNCHANGED <<deployment, queue, group, line, answers, history, faults>>
  BY DEF Refuse, WorkerUnchanged
<1>2. m \in 1 .. delivered
  BY DEF TypeOK
<1>3. (task \in Tasks)'
  BY <1>1, <1>2, SpawnTyped DEF Refuse, deployment, group, Ats, Kinds
<1>4. examining' \in [managers -> SUBSET (1 .. delivered)]
  BY DEF Refuse, Examined, TypeOK
<1> QED
  BY <1>1, <1>3, <1>4 DEF deployment, group, history, TypeOK, Tasks, Messages

LEMMA ReclaimTyped ==
    ASSUME TypeOK, NEW w \in managers, NEW m \in examining[w], Reclaim(w, m)
    PROVE  TypeOK'
<1>1. UNCHANGED <<deployment, queue, delivered, answers, history, faults>>
  BY DEF Reclaim, WorkerUnchanged
<1>2. m \in 1 .. delivered
  BY DEF TypeOK
<1>3. examining' \in [managers -> SUBSET (1 .. delivered)]
  BY DEF Reclaim, Examined, TypeOK
<1>4. CASE UNCHANGED <<pending, stale, tasks>>
  BY <1>1, <1>3, <1>4 DEF deployment, tasks, history, TypeOK, Task, Messages
<1>5. ASSUME NEW S \in Claimable(m), NEW c \in First(S), Claim(w, m, c)
      PROVE  TypeOK'
  <2>1. c \in DOMAIN pending /\ c \in 1 .. delivered
    BY <1>5 DEF First, Claimable, TypeOK
  <2>2. (task \in Tasks)' /\ line' \in [managers' -> Seq(Slots)]
    BY <1>1, <1>2, <1>5, <2>1, SpawnTyped, QueuesTyped
    DEF Claim, Queues, deployment, Ats, Kinds
  <2>3. Capped(pending[c] + 1, Retries + 1) \in 1 .. Retries + 1
    BY <2>1, ToolAssumption DEF Capped, TypeOK
  <2>4. pending' = [pending EXCEPT ![c] = Capped(@ + 1, Retries + 1)] /\ stale' \subseteq stale
    BY <1>5 DEF Claim
  <2>5. /\ DOMAIN pending' = DOMAIN pending
        /\ \A k \in DOMAIN pending : pending'[k] \in 1 .. Retries + 1
        /\ stale' \subseteq DOMAIN pending
    BY <2>1, <2>3, <2>4 DEF TypeOK
  <2> QED
    BY <1>1, <1>3, <2>2, <2>5 DEF deployment, history, TypeOK, Tasks, Messages
<1> QED
  BY <1>4, <1>5 DEF Reclaim

LEMMA CrashTyped ==
    ASSUME TypeOK, NEW w \in managers, Crash(w)
    PROVE  TypeOK'
<1>1. UNCHANGED <<deployment, queue, group, answers, history>>
  BY DEF Crash, WorkerUnchanged
<1>2. task' \in [Slots -> Task \cup {NoTask}]
  BY DEF Crash, TypeOK
<1>3. examining' \in [managers -> SUBSET (1 .. delivered)]
  BY DEF Crash, TypeOK
<1>4. faults' \in 0 .. MaxFaults
  BY FaultTyped DEF Crash
<1>5. line' \in [managers -> Seq(Slots)]
  BY DEF Crash, TypeOK
<1> QED
  BY <1>1, <1>2, <1>3, <1>4, <1>5 DEF deployment, group, history, TypeOK, Task, Messages

-----------------------------------------------------------------------------
\* What a step does to the tasks.
LEMMA GoesTask ==
    ASSUME TypeOK, NEW t \in Alive, NEW at, NEW kind, Goes(t, at, kind)
    PROVE  /\ t \in Alive'
           /\ task'[t].at = at /\ task'[t].kind = kind
           /\ task'[t].id = task[t].id /\ task'[t].run = task[t].run
           /\ \A u \in Slots \ {t} : task'[u] = task[u]
           /\ Alive' = Alive
<1>1. t \in Slots /\ task[t] \in Task /\ task \in [Slots -> Task \cup {NoTask}]
  BY AliveTask DEF TypeOK
<1>2. task' = [task EXCEPT ![t] = [task[t] EXCEPT !.at = at, !.kind = kind]]
  BY <1>1 DEF Goes
<1>3. /\ task'[t] = [task[t] EXCEPT !.at = at, !.kind = kind]
      /\ \A u \in Slots \ {t} : task'[u] = task[u]
  BY <1>1, <1>2
<1>4. /\ task'[t].at = at /\ task'[t].kind = kind
      /\ task'[t].id = task[t].id /\ task'[t].run = task[t].run
  BY <1>1, <1>3 DEF Task
<1>5. task'[t] # NoTask
  <2>1. DOMAIN task'[t] = {"manager", "id", "run", "claimed", "at", "kind"}
    BY <1>1, <1>3 DEF Task
  <2>2. DOMAIN NoTask = {"at"}
    BY DEF NoTask
  <2> QED
    BY <2>1, <2>2
<1>6. Alive' = Alive
  BY <1>1, <1>3, <1>5 DEF Alive, Free
<1> QED
  BY <1>3, <1>4, <1>6

LEMMA EndsTask ==
    ASSUME TypeOK, NEW t \in Alive, Ends(t)
    PROVE  Alive' \subseteq Alive \ {t} /\ \A u \in Alive' : task'[u] = task[u]
<1>1. t \in Slots /\ task \in [Slots -> Task \cup {NoTask}]
  BY AliveTask DEF TypeOK
<1> QED
  BY <1>1 DEF Ends, Alive, Free

LEMMA SpawnTask ==
    ASSUME TypeOK, NEW w, NEW id, NEW run, NEW claimed, NEW at, NEW kind,
           Spawn(w, id, run, claimed, at, kind)
    PROVE  \E s \in Slots : /\ s \notin Alive
                            /\ Alive' \subseteq Alive \cup {s}
                            /\ \A u \in Alive : task'[u] = task[u]
                            /\ task'[s].at = at /\ task'[s].kind = kind
                            /\ task'[s].id = id /\ task'[s].run = run
<1> DEFINE new == [manager |-> w, id |-> id, run |-> run, claimed |-> claimed, at |-> at,
                   kind |-> kind]
<1>1. Slot \in Free /\ task' = [task EXCEPT ![Slot] = new]
  BY FreeSlot DEF Spawn
<1>2. /\ new.at = at /\ new.kind = kind
      /\ new.id = id /\ new.run = run
  OBVIOUS
<1> HIDE DEF new
<1>3. task \in [Slots -> Task \cup {NoTask}] /\ Slot \in Slots /\ Slot \notin Alive
  BY <1>1 DEF TypeOK, Free, Alive
<1>4. task'[Slot] = new /\ \A u \in Alive : task'[u] = task[u]
  BY <1>1, <1>3 DEF Alive
<1>5. Alive' \subseteq Alive \cup {Slot}
  BY <1>1, <1>3 DEF Alive, Free
<1>6. PICK s \in Slots : s = Slot
  BY <1>3
<1> QED
  BY <1>2, <1>3, <1>4, <1>5, <1>6

LEMMA CrashTask ==
    ASSUME TypeOK, NEW w, Crash(w)
    PROVE  Alive' \subseteq Alive /\ \A u \in Alive' : task'[u] = task[u]
BY DEF Crash, Alive, Free

\* The actions of Next, one by one.
LEMMA NextCases ==
    ASSUME Next
    PROVE  \/ \E r \in Requests : Enqueue(r)
           \/ \E w \in managers : Deliver(w) \/ Inspect(w) \/ Crash(w)
           \/ \E t \in Alive : \/ Acquire(t) \/ AppendAnswer(t) \/ Ack(t) \/ Escalate(t)
                               \/ Finish(t) \/ Raise(t) \/ AppendFails(t) \/ AckFails(t)
           \/ \E m \in DOMAIN pending : Age(m)
           \/ \E w \in managers : \E m \in examining[w] :
                  Skip(w, m) \/ Refuse(w, m) \/ Reclaim(w, m)
BY DEF Next, Step, Invocation, Reaper, Examine, First

LEMMA TypeStep == TypeOK /\ Known /\ [Next]_vars => TypeOK'
<1> SUFFICES ASSUME TypeOK, Known, [Next]_vars PROVE TypeOK'
  OBVIOUS
<1>1. CASE Next
  BY <1>1, NextCases, EnqueueTyped, DeliverTyped, AcquireTyped, AppendAnswerTyped, AckTyped,
     ResultTyped, AppendFailsTyped, AckFailsTyped, AgeTyped, LookTyped, RefuseTyped,
     ReclaimTyped, CrashTyped
<1>2. CASE UNCHANGED vars
  BY <1>2 DEF vars, deployment, group, tasks, history, TypeOK, Task, Messages
<1> QED
  BY <1>1, <1>2

\* Tasks that neither move nor start keep what they know.
LEMMA KnownStep == TypeOK /\ Known /\ [Next]_vars => Known'
<1> SUFFICES ASSUME TypeOK, Known, [Next]_vars PROVE Known'
  OBVIOUS
<1>1. ASSUME UNCHANGED task PROVE Known'
  BY <1>1 DEF Known, Alive, Free
<1>2. ASSUME NEW t \in Alive, NEW at, NEW kind, Goes(t, at, kind),
             at \in {"append", "ack"} => kind \in Kinds
      PROVE  Known'
  <2>1. /\ Alive' = Alive /\ task'[t].at = at /\ task'[t].kind = kind
        /\ \A u \in Slots \ {t} : task'[u] = task[u]
    BY <1>2, GoesTask
  <2>2. Alive \subseteq Slots
    BY DEF Alive
  <2> QED
    BY <1>2, <2>1, <2>2 DEF Known
<1>3. ASSUME NEW t \in Alive, Ends(t) PROVE Known'
  BY <1>3, EndsTask DEF Known
<1>4. ASSUME NEW w, NEW id, NEW run, NEW claimed, NEW at, NEW kind,
             Spawn(w, id, run, claimed, at, kind), at \in {"append", "ack"} => kind \in Kinds
      PROVE  Known'
  BY <1>4, SpawnTask DEF Known
<1>5. ASSUME NEW t \in Alive,
             \/ Acquire(t) \/ AppendAnswer(t) \/ Ack(t) \/ Escalate(t)
             \/ Finish(t) \/ Raise(t) \/ AppendFails(t) \/ AckFails(t)
      PROVE  Known'
  <2>1. task[t].at = "append" => task[t].kind \in Kinds
    BY DEF Known
  <2>2. CASE Acquire(t)
    BY <1>2, <2>2 DEF Acquire, Kinds
  <2>3. CASE AppendAnswer(t) \/ AppendFails(t)
    BY <1>2, <2>1, <2>3 DEF AppendAnswer, AppendFails
  <2>4. CASE Ack(t)
    BY <1>3, <2>4 DEF Ack
  <2>5. CASE Finish(t) \/ Raise(t)
    BY <1>2, <2>5 DEF Finish, Raise, Kinds
  <2>6. CASE Escalate(t) \/ AckFails(t)
    BY <1>2, <1>3, <2>6 DEF Escalate, AckFails, Kinds
  <2> QED
    BY <1>5, <2>2, <2>3, <2>4, <2>5, <2>6
<1>6. ASSUME NEW w \in managers, Deliver(w) \/ Inspect(w) \/ Crash(w) PROVE Known'
  <2>1. CASE Deliver(w)
    <3>1. PICK n : n = delivered + 1
      OBVIOUS
    <3>2. Spawn(w, n, n, FALSE, "waiting", "none")
      BY <2>1, <3>1 DEF Deliver, Queues
    <3> QED
      BY <1>4, <3>2
  <2>2. CASE Inspect(w)
    BY <1>1, <2>2 DEF Inspect, tasks
  <2>3. CASE Crash(w)
    BY <2>3, CrashTask DEF Known
  <2> QED
    BY <1>6, <2>1, <2>2, <2>3
<1>7. ASSUME NEW w \in managers, NEW m \in examining[w],
             Skip(w, m) \/ Refuse(w, m) \/ Reclaim(w, m)
      PROVE  Known'
  <2>1. CASE Skip(w, m)
    BY <1>1, <2>1 DEF Skip, tasks
  <2>2. CASE Refuse(w, m)
    BY <1>4, <2>2 DEF Refuse, Kinds
  <2>3. CASE Reclaim(w, m)
    BY <1>1, <1>4, <2>3 DEF Reclaim, Claim, Queues, tasks
  <2> QED
    BY <1>7, <2>1, <2>2, <2>3
<1>8. ASSUME NEW r \in Requests, Enqueue(r) PROVE Known'
  BY <1>1, <1>8 DEF Enqueue, tasks
<1>9. ASSUME NEW m \in DOMAIN pending, Age(m) PROVE Known'
  BY <1>1, <1>9 DEF Age, tasks
<1>10. CASE UNCHANGED vars
  BY <1>1, <1>10 DEF vars, tasks
<1> QED
  BY <1>5, <1>6, <1>7, <1>8, <1>9, <1>10, NextCases

LEMMA KnownInit == Init => Known
BY DEF Init, Known, Alive, Free

\* Type correctness: every reachable state satisfies TypeOK, and a task that is about to
\* append or to acknowledge an answer knows which answer that is.
THEOREM QueueTypeCorrect == Spec => [](TypeOK /\ Known)
<1>1. Init => TypeOK /\ Known
  BY TypeInit, KnownInit
<1>2. TypeOK /\ Known /\ [Next]_vars => (TypeOK /\ Known)'
  BY TypeStep, KnownStep
<1> QED
  BY <1>1, <1>2, PTL DEF Spec

-----------------------------------------------------------------------------
\* What RunOnce rests on: a message of a non-idempotent tool has one task at most that
\* waits for the semaphore to run it, and has not been run before.
Fresh ==
    ~idempotent =>
        /\ \A t \in Alive : task[t].at = "waiting" => runs[task[t].run] = 0
        /\ \A t, u \in Alive :
              /\ task[t].at = "waiting" /\ task[u].at = "waiting"
              /\ task[t].run = task[u].run
              => t = u
        /\ \A m \in Messages : m > delivered => runs[m] = 0
        /\ \A m \in Messages : runs[m] <= 1

\* A step that neither runs a message nor makes a task wait.
Calm ==
    /\ UNCHANGED <<idempotent, queue, delivered, runs>>
    /\ \A t \in Alive' : task'[t].at = "waiting" => t \in Alive /\ task'[t] = task[t]

LEMMA FreshCalm ==
    ASSUME Fresh, Calm
    PROVE  Fresh'
<1>1. ASSUME NEW t \in Alive', task'[t].at = "waiting"
      PROVE  t \in Alive /\ task'[t] = task[t]
  BY <1>1 DEF Calm
<1> QED
  BY <1>1 DEF Calm, Fresh, Messages

LEMMA CalmSteps ==
    ASSUME TypeOK, ~idempotent
    PROVE  /\ \A t \in Alive :
                 \/ AppendAnswer(t) \/ Ack(t) \/ Escalate(t) \/ Finish(t) \/ Raise(t)
                 \/ AppendFails(t) \/ AckFails(t)
                 => Calm
           /\ \A w \in managers : Inspect(w) \/ Crash(w) => Calm
           /\ \A m \in DOMAIN pending : Age(m) => Calm
           /\ \A w \in managers : \A m \in examining[w] :
                 Skip(w, m) \/ Refuse(w, m) \/ Reclaim(w, m) => Calm
           /\ UNCHANGED vars => Calm
<1>1. ASSUME UNCHANGED task
      PROVE  \A t \in Alive' : t \in Alive /\ task'[t] = task[t]
  BY <1>1 DEF Alive, Free
<1>2. ASSUME NEW t \in Alive,
             \/ AppendAnswer(t) \/ Ack(t) \/ Escalate(t) \/ Finish(t) \/ Raise(t)
             \/ AppendFails(t) \/ AckFails(t)
      PROVE  Calm
  <2>1. UNCHANGED <<idempotent, queue, delivered, runs>>
    BY <1>2 DEF AppendAnswer, Ack, Escalate, Finish, Raise, AppendFails, AckFails,
                WorkerUnchanged, deployment, group, history
  <2>2. \/ Ends(t)
        \/ \E at \in {"append", "ack", "raised"}, kind \in {"done", "none", "exhausted",
              task[t].kind} : Goes(t, at, kind)
    BY <1>2 DEF AppendAnswer, Ack, Escalate, Finish, Raise, AppendFails, AckFails
  <2>3. CASE Ends(t)
    BY <2>1, <2>3, EndsTask DEF Calm
  <2>4. CASE \E at \in {"append", "ack", "raised"}, kind \in {"done", "none", "exhausted",
              task[t].kind} : Goes(t, at, kind)
    <3>1. /\ Alive' = Alive /\ task'[t].at \in {"append", "ack", "raised"}
          /\ \A u \in Slots \ {t} : task'[u] = task[u]
      BY <2>4, GoesTask
    <3>2. Alive \subseteq Slots
      BY DEF Alive
    <3> QED
      BY <2>1, <3>1, <3>2 DEF Calm
  <2> QED
    BY <2>2, <2>3, <2>4
<1>3. ASSUME NEW w \in managers, Inspect(w) \/ Crash(w) PROVE Calm
  <2>1. CASE Inspect(w)
    BY <1>1, <2>1 DEF Inspect, Calm, WorkerUnchanged, deployment, group, tasks, history
  <2>2. CASE Crash(w)
    BY <2>2, CrashTask DEF Crash, Calm, WorkerUnchanged, deployment, group, history
  <2> QED
    BY <1>3, <2>1, <2>2
<1>4. ASSUME NEW m \in DOMAIN pending, Age(m) PROVE Calm
  BY <1>1, <1>4 DEF Age, Calm, WorkerUnchanged, deployment, tasks, history
<1>5. ASSUME NEW w \in managers, NEW m \in examining[w],
             Skip(w, m) \/ Refuse(w, m) \/ Reclaim(w, m)
      PROVE  Calm
  <2>1. CASE Skip(w, m)
    BY <1>1, <2>1 DEF Skip, Calm, WorkerUnchanged, deployment, group, tasks, history
  <2>2. CASE Refuse(w, m)
    <3>0. PICK claimed : Spawn(w, m, m, claimed, "append", "refused")
      BY <2>2 DEF Refuse
    <3>1. PICK s \in Slots : /\ s \notin Alive
                             /\ Alive' \subseteq Alive \cup {s}
                             /\ \A u \in Alive : task'[u] = task[u]
                             /\ task'[s].at = "append" /\ task'[s].kind = "refused"
                             /\ task'[s].id = m /\ task'[s].run = m
      BY <3>0, SpawnTask
    <3>2. UNCHANGED <<idempotent, queue, delivered, runs>>
      BY <2>2 DEF Refuse, WorkerUnchanged, deployment, group, history
    <3> QED
      BY <3>1, <3>2 DEF Calm
  <2>3. ~Reclaim(w, m)
    BY DEF Reclaim
  <2> QED
    BY <1>5, <2>1, <2>2, <2>3
<1>6. ASSUME UNCHANGED vars PROVE Calm
  BY <1>1, <1>6 DEF vars, Calm, deployment, group, tasks, history
<1> QED
  BY <1>2, <1>3, <1>4, <1>5, <1>6

LEMMA FreshStep == TypeOK /\ Known /\ Fresh /\ [Next]_vars => Fresh'
<1> SUFFICES ASSUME TypeOK, Known, Fresh, [Next]_vars, ~idempotent' PROVE Fresh'
  BY DEF Fresh
<1>0. ~idempotent
  BY NextCases DEF vars, deployment, WorkerUnchanged, Enqueue, Deliver, Inspect, Crash, Acquire,
     AppendAnswer, Ack, Escalate, Finish, Raise, AppendFails, AckFails, Age, Skip, Refuse,
     Reclaim
<1>1. ASSUME NEW r \in Requests, Enqueue(r) PROVE Fresh'
  <2>1. /\ queue \in Seq(Requests) /\ delivered \in 0 .. Len(queue)
        /\ runs \in [1 .. Len(queue) -> 0 .. 2] /\ Len(queue) \in Nat
    BY DEF TypeOK, Messages
  <2>2. runs \in Seq(0 .. 2) /\ Len(runs) = Len(queue)
    BY <2>1, SeqDef
  <2>3. /\ Len(queue') = Len(queue) + 1
        /\ \A m \in 1 .. Len(queue) : runs'[m] = runs[m]
        /\ runs'[Len(queue) + 1] = 0
    BY <1>1, <2>1, <2>2 DEF Enqueue
  <2>4. task' = task /\ delivered' = delivered
    BY <1>1 DEF Enqueue, group, tasks
  <2>5. ASSUME NEW t \in Alive' PROVE t \in Alive /\ task[t].run \in 1 .. Len(queue)
    BY <2>4, Parts DEF Alive, Free, Messages
  <2>6. \A t \in Alive' : task'[t].at = "waiting" => runs'[task'[t].run] = 0
    BY <1>0, <2>3, <2>4, <2>5 DEF Fresh
  <2>7. \A t, u \in Alive' :
              /\ task'[t].at = "waiting" /\ task'[u].at = "waiting"
              /\ task'[t].run = task'[u].run
              => t = u
    BY <1>0, <2>4, <2>5 DEF Fresh
  <2>8. ASSUME NEW m \in 1 .. Len(queue')
        PROVE  runs'[m] <= 1 /\ (m > delivered => runs'[m] = 0)
    <3>1. m \in 1 .. Len(queue) \/ m = Len(queue) + 1
      BY <2>1, <2>3
    <3> QED
      BY <1>0, <2>3, <3>1 DEF Fresh, Messages
  <2> QED
    BY <2>4, <2>6, <2>7, <2>8 DEF Fresh, Messages
<1>2. ASSUME NEW w \in managers, Deliver(w) PROVE Fresh'
  <2>1. /\ queue' = queue /\ runs' = runs /\ delivered' = delivered + 1
        /\ delivered \in Nat /\ delivered + 1 \in Messages
    BY <1>2 DEF Deliver, WorkerUnchanged, history, TypeOK, Messages
  <2>2. PICK n : n = delivered + 1
    OBVIOUS
  <2>3. PICK claimed : Spawn(w, n, n, claimed, "waiting", "none")
    BY <1>2, <2>2 DEF Deliver, Queues
  <2>4. PICK s \in Slots : /\ s \notin Alive
                           /\ Alive' \subseteq Alive \cup {s}
                           /\ \A u \in Alive : task'[u] = task[u]
                           /\ task'[s].at = "waiting" /\ task'[s].kind = "none"
                           /\ task'[s].id = n /\ task'[s].run = n
    BY <2>3, SpawnTask
  <2>5. runs[n] = 0
    BY <1>0, <2>1, <2>2 DEF Fresh
  <2>6. ASSUME NEW t \in Alive PROVE task[t].run # n
    BY <2>1, <2>2, Parts
  <2>7. \A t \in Alive' : task'[t].at = "waiting" => runs'[task'[t].run] = 0
    BY <1>0, <2>1, <2>4, <2>5 DEF Fresh
  <2>8. \A t, u \in Alive' :
              /\ task'[t].at = "waiting" /\ task'[u].at = "waiting"
              /\ task'[t].run = task'[u].run
              => t = u
    BY <1>0, <2>4, <2>6 DEF Fresh
  <2>9. \A m \in Messages : runs'[m] <= 1 /\ (m > delivered' => runs'[m] = 0)
    BY <1>0, <2>1 DEF Fresh, Messages
  <2> QED
    BY <2>1, <2>7, <2>8, <2>9 DEF Fresh, Messages
<1>3. ASSUME NEW t \in Alive, Acquire(t) PROVE Fresh'
  <2>1. /\ task[t].at = "waiting" /\ UNCHANGED <<queue, delivered>>
    BY <1>3 DEF Acquire, WorkerUnchanged, group
  <2>2. \/ runs' = runs
        \/ runs' = [runs EXCEPT ![task[t].run] = Capped(@ + 1, 2)]
    BY <1>3 DEF Acquire
  <2>3. /\ Alive' = Alive /\ task'[t].at # "waiting"
        /\ \A u \in Slots \ {t} : task'[u] = task[u]
    BY <1>3, GoesTask DEF Acquire
  <2>4. /\ task[t].run \in Messages /\ task[t].run \in 1 .. delivered
        /\ runs \in [Messages -> 0 .. 2] /\ runs[task[t].run] = 0
    BY <1>0, <2>1, Parts DEF Fresh, TypeOK
  <2>5. /\ runs'[task[t].run] \in {0, 1}
        /\ \A m \in Messages \ {task[t].run} : runs'[m] = runs[m]
    BY <2>2, <2>4 DEF Capped
  <2>6. Alive \subseteq Slots /\ delivered \in Nat /\ Messages' = Messages
    BY <2>1 DEF Alive, TypeOK, Messages
  <2>7. ASSUME NEW u \in Alive', task'[u].at = "waiting"
        PROVE  /\ u \in Alive /\ task'[u] = task[u]
               /\ task[u].run \in Messages \ {task[t].run}
    <3>1. u \in Alive /\ u # t /\ task'[u] = task[u]
      BY <2>3, <2>6, <2>7
    <3>2. task[u].run # task[t].run
      BY <1>0, <2>1, <2>7, <3>1 DEF Fresh
    <3> QED
      BY <3>1, <3>2, Parts
  <2>8. \A u \in Alive' : task'[u].at = "waiting" => runs'[task'[u].run] = 0
    BY <1>0, <2>5, <2>7 DEF Fresh
  <2>9. \A u, v \in Alive' :
              /\ task'[u].at = "waiting" /\ task'[v].at = "waiting"
              /\ task'[u].run = task'[v].run
              => u = v
    BY <1>0, <2>7 DEF Fresh
  <2>10. \A m \in Messages : runs'[m] <= 1 /\ (m > delivered => runs'[m] = 0)
    <3>1. ASSUME NEW m \in Messages, m > delivered PROVE m # task[t].run
      BY <2>4, <2>6, <3>1
    <3> QED
      BY <1>0, <2>5, <3>1 DEF Fresh
  <2> QED
    BY <2>1, <2>6, <2>8, <2>9, <2>10 DEF Fresh
<1>4. CASE Calm
  BY <1>4, FreshCalm
<1> QED
  BY <1>0, <1>1, <1>2, <1>3, <1>4, CalmSteps, NextCases

LEMMA FreshInit == Init => Fresh
BY DEF Init, Fresh, Alive, Free, Messages

\* A message of a tool that is not declared idempotent is run at most once: through
\* crashes, lost acknowledgements and any number of reapers.
THEOREM NeverRepeated == Spec => []RunOnce
<1>1. Init => Fresh
  BY FreshInit
<1>2. TypeOK /\ Known /\ Fresh /\ [Next]_vars => Fresh'
  BY FreshStep
<1>3. Fresh => RunOnce
  BY DEF Fresh, RunOnce
<1> QED
  BY <1>1, <1>2, <1>3, QueueTypeCorrect, PTL DEF Spec

-----------------------------------------------------------------------------
\* What AckedOrSwapped rests on: a task that is about to acknowledge has its answer in the
\* log, unless the append failed.
Backed ==
    \A t \in Alive :
        task[t].at = "ack" => Answered(queue[task[t].run]) \/ queue[task[t].run] \in lost

Covered(m) == Answered(queue[m]) \/ m \in swapped \/ queue[m] \in lost

\* Answers, losses and swaps stay; messages keep their requests.
Grown ==
    /\ \A r \in Requests : Answered(r) => Answered(r)'
    /\ lost \subseteq lost'
    /\ swapped \subseteq swapped'
    /\ \A m \in Messages : m \in Messages' /\ queue'[m] = queue[m]

LEMMA GrownStep == TypeOK /\ [Next]_vars => Grown
<1> SUFFICES ASSUME TypeOK, [Next]_vars PROVE Grown
  OBVIOUS
<1>1. ASSUME NEW r \in Requests, Enqueue(r) PROVE Grown
  <2>1. queue \in Seq(Requests) /\ queue' = Append(queue, r)
    BY <1>1 DEF Enqueue, TypeOK
  <2>2. /\ Len(queue') = Len(queue) + 1 /\ Len(queue) \in Nat
        /\ \A m \in 1 .. Len(queue) : queue'[m] = queue[m]
    BY <2>1
  <2> QED
    BY <1>1, <2>2 DEF Enqueue, Grown, Messages, Answered
<1>2. ASSUME UNCHANGED queue, UNCHANGED answers,
             lost \subseteq lost', swapped \subseteq swapped'
      PROVE  Grown
  BY <1>2 DEF Grown, Messages, Answered
<1>3. ASSUME NEW t \in Alive, AppendAnswer(t) PROVE Grown
  <2>1. queue[task[t].run] \in Requests
    BY Parts
  <2>2. \A r \in Requests : answers[r] \subseteq answers'[r]
    BY <1>3, <2>1 DEF AppendAnswer, TypeOK
  <2>3. \A r \in Requests : Answered(r) => Answered(r)'
    BY <2>2 DEF Answered
  <2> QED
    BY <1>3, <2>3 DEF AppendAnswer, WorkerUnchanged, history, Grown, Messages
<1>4. ASSUME NEW t \in Alive,
             \/ Acquire(t) \/ Ack(t) \/ Escalate(t) \/ Finish(t) \/ Raise(t)
             \/ AppendFails(t) \/ AckFails(t)
      PROVE  Grown
  BY <1>2, <1>4 DEF Acquire, Ack, Escalate, Finish, Raise, AppendFails, AckFails,
     WorkerUnchanged, history
<1>5. ASSUME NEW w \in managers, Deliver(w) \/ Inspect(w) \/ Crash(w) PROVE Grown
  BY <1>2, <1>5 DEF Deliver, Inspect, Crash, WorkerUnchanged, history
<1>6. ASSUME NEW m \in DOMAIN pending, Age(m) PROVE Grown
  BY <1>2, <1>6 DEF Age, WorkerUnchanged, history
<1>7. ASSUME NEW w \in managers, NEW m \in examining[w],
             Skip(w, m) \/ Refuse(w, m) \/ Reclaim(w, m)
      PROVE  Grown
  BY <1>2, <1>7 DEF Skip, Refuse, Reclaim, WorkerUnchanged, history
<1>8. CASE UNCHANGED vars
  BY <1>2, <1>8 DEF vars, history
<1> QED
  BY <1>1, <1>3, <1>4, <1>5, <1>6, <1>7, <1>8, NextCases

\* A task that acknowledges before and after a step and does not move stays backed.
LEMMA BackedStays ==
    ASSUME TypeOK, Backed, Grown, NEW t \in Alive, task'[t] = task[t], task[t].at = "ack"
    PROVE  Answered(queue[task[t].run])' \/ queue'[task'[t].run] \in lost'
<1>1. /\ task[t].run \in Messages /\ queue[task[t].run] \in Requests
      /\ queue'[task[t].run] = queue[task[t].run]
  BY Parts DEF Grown
<1>2. Answered(queue[task[t].run]) \/ queue[task[t].run] \in lost
  BY DEF Backed
<1>3. PICK r \in Requests : r = queue[task[t].run]
  BY <1>1
<1>4. Answered(r) => Answered(r)'
  BY <1>3 DEF Grown
<1> QED
  BY <1>1, <1>2, <1>3, <1>4 DEF Grown, Answered

LEMMA BackedStep == TypeOK /\ Known /\ Backed /\ [Next]_vars => Backed'
<1> SUFFICES ASSUME TypeOK, Known, Backed, [Next]_vars PROVE Backed'
  OBVIOUS
<1>0. Grown
  BY GrownStep
<1>1. ASSUME \A t \in Alive' : task'[t].at = "ack" => t \in Alive /\ task'[t] = task[t]
      PROVE  Backed'
  BY <1>0, <1>1, BackedStays DEF Backed
<1>2. ASSUME NEW t \in Alive, NEW at, NEW kind, Goes(t, at, kind), at # "ack"
      PROVE  Backed'
  <2>1. /\ Alive' = Alive /\ task'[t].at # "ack"
        /\ \A u \in Slots \ {t} : task'[u] = task[u]
    BY <1>2, GoesTask
  <2>2. Alive \subseteq Slots
    BY DEF Alive
  <2> QED
    BY <1>1, <2>1, <2>2
<1>3. ASSUME NEW w, NEW id, NEW run, NEW claimed, NEW at, NEW kind,
             Spawn(w, id, run, claimed, at, kind), at # "ack"
      PROVE  Backed'
  BY <1>1, <1>3, SpawnTask
<1>4. ASSUME UNCHANGED task PROVE Backed'
  BY <1>1, <1>4 DEF Alive, Free
<1>5. ASSUME NEW t \in Alive, Ends(t) PROVE Backed'
  BY <1>1, <1>5, EndsTask
<1>6. ASSUME NEW t \in Alive, AppendAnswer(t) \/ AppendFails(t) PROVE Backed'
  <2>1. Goes(t, "ack", task[t].kind) /\ queue' = queue
    BY <1>6 DEF AppendAnswer, AppendFails, WorkerUnchanged
  <2>2. /\ Alive' = Alive /\ task'[t].run = task[t].run
        /\ \A u \in Slots \ {t} : task'[u] = task[u]
    BY <2>1, GoesTask
  <2>3. Alive \subseteq Slots
    BY DEF Alive
  <2>4. PICK r \in Requests : r = queue[task[t].run]
    BY Parts
  <2>5. answers'[r] # {} \/ r \in lost'
    BY <1>6, <2>4 DEF AppendAnswer, AppendFails, TypeOK
  <2>6. Answered(queue[task[t].run])' \/ queue'[task'[t].run] \in lost'
    BY <2>1, <2>2, <2>4, <2>5 DEF Answered
  <2>7. ASSUME NEW u \in Alive', task'[u].at = "ack"
        PROVE  Answered(queue[task[u].run])' \/ queue'[task'[u].run] \in lost'
    <3>1. CASE u = t
      BY <2>6, <3>1
    <3>2. CASE u # t
      <4>1. u \in Alive /\ task'[u] = task[u] /\ task[u].at = "ack"
        BY <2>2, <2>3, <2>7, <3>2
      <4> QED
        BY <1>0, <4>1, BackedStays
    <3> QED
      BY <3>1, <3>2
  <2> QED
    BY <2>7 DEF Backed
<1>7. ASSUME NEW t \in Alive,
             \/ Acquire(t) \/ Ack(t) \/ Escalate(t) \/ Finish(t) \/ Raise(t) \/ AckFails(t)
      PROVE  Backed'
  BY <1>2, <1>5, <1>7 DEF Acquire, Ack, Escalate, Finish, Raise, AckFails
<1>8. ASSUME NEW w \in managers, Deliver(w) \/ Inspect(w) \/ Crash(w) PROVE Backed'
  <2>1. CASE Deliver(w)
    <3>1. PICK n : n = delivered + 1
      OBVIOUS
    <3>2. Spawn(w, n, n, FALSE, "waiting", "none")
      BY <2>1, <3>1 DEF Deliver, Queues
    <3> QED
      BY <1>3, <3>2
  <2>2. CASE Inspect(w)
    BY <1>4, <2>2 DEF Inspect, tasks
  <2>3. CASE Crash(w)
    BY <1>1, <2>3, CrashTask
  <2> QED
    BY <1>8, <2>1, <2>2, <2>3
<1>9. ASSUME NEW w \in managers, NEW m \in examining[w],
             Skip(w, m) \/ Refuse(w, m) \/ Reclaim(w, m)
      PROVE  Backed'
  BY <1>3, <1>4, <1>9 DEF Skip, Refuse, Reclaim, Claim, Queues, tasks
<1>10. ASSUME NEW r \in Requests, Enqueue(r) PROVE Backed'
  BY <1>4, <1>10 DEF Enqueue, tasks
<1>11. ASSUME NEW m \in DOMAIN pending, Age(m) PROVE Backed'
  BY <1>4, <1>11 DEF Age, tasks
<1>12. CASE UNCHANGED vars
  BY <1>4, <1>12 DEF vars, tasks
<1> QED
  BY <1>6, <1>7, <1>8, <1>9, <1>10, <1>11, <1>12, NextCases

\* Messages leave the pending list by an acknowledgement only.
LEMMA AcknowledgedStep ==
    ASSUME TypeOK, [Next]_vars
    PROVE  \/ Acknowledged' = Acknowledged
           \/ \E t \in Alive : Ack(t) /\ Acknowledged' \subseteq Acknowledged \cup {task[t].id}
<1>1. ASSUME UNCHANGED <<delivered, pending>> PROVE Acknowledged' = Acknowledged
  BY <1>1 DEF Acknowledged
<1>2. ASSUME NEW t \in Alive, Ack(t)
      PROVE  Acknowledged' \subseteq Acknowledged \cup {task[t].id}
  BY <1>2 DEF Ack, XAck, Acknowledged
<1>3. ASSUME NEW w \in managers, Deliver(w) PROVE Acknowledged' = Acknowledged
  <2>1. /\ delivered' = delivered + 1 /\ delivered \in Nat
        /\ DOMAIN pending' = DOMAIN pending \cup {delivered + 1}
        /\ DOMAIN pending \subseteq 1 .. delivered
    BY <1>3 DEF Deliver, TypeOK
  <2>2. 1 .. delivered' = (1 .. delivered) \cup {delivered + 1}
        /\ delivered + 1 \notin 1 .. delivered
    BY <2>1
  <2> QED
    BY <2>1, <2>2 DEF Acknowledged
<1>4. ASSUME NEW w \in managers, NEW m \in examining[w],
             Skip(w, m) \/ Refuse(w, m) \/ Reclaim(w, m)
      PROVE  Acknowledged' = Acknowledged
  BY <1>4 DEF Skip, Refuse, Reclaim, Claim, Acknowledged, group, TypeOK
<1>5. ASSUME NEW t \in Alive,
             \/ Acquire(t) \/ AppendAnswer(t) \/ Escalate(t) \/ Finish(t) \/ Raise(t)
             \/ AppendFails(t) \/ AckFails(t)
      PROVE  Acknowledged' = Acknowledged
  BY <1>1, <1>5 DEF Acquire, AppendAnswer, Escalate, Finish, Raise, AppendFails, AckFails,
     group
<1>6. ASSUME NEW w \in managers, Inspect(w) \/ Crash(w) PROVE Acknowledged' = Acknowledged
  BY <1>1, <1>6 DEF Inspect, Crash, group
<1>7. ASSUME NEW m \in DOMAIN pending, Age(m) PROVE Acknowledged' = Acknowledged
  BY <1>1, <1>7 DEF Age
<1>8. ASSUME NEW r \in Requests, Enqueue(r) PROVE Acknowledged' = Acknowledged
  BY <1>1, <1>8 DEF Enqueue, group
<1>9. CASE UNCHANGED vars
  BY <1>1, <1>9 DEF vars, group
<1> QED
  BY <1>2, <1>3, <1>4, <1>5, <1>6, <1>7, <1>8, <1>9, NextCases

LEMMA CoveredStep == TypeOK /\ Backed /\ AckedOrSwapped /\ [Next]_vars => AckedOrSwapped'
<1> SUFFICES ASSUME TypeOK, Backed, AckedOrSwapped, [Next]_vars,
                    NEW m \in Acknowledged'
             PROVE  Covered(m)'
  BY DEF AckedOrSwapped, Covered
<1>0. Grown
  BY GrownStep
<1>1. ASSUME m \in Messages, Covered(m) PROVE Covered(m)'
  <2>1. queue[m] \in Requests /\ queue'[m] = queue[m]
    BY <1>0, <1>1 DEF Grown, TypeOK, Messages
  <2>2. PICK r \in Requests : r = queue[m]
    BY <2>1
  <2>3. Answered(r) => Answered(r)'
    BY <1>0 DEF Grown
  <2> QED
    BY <1>0, <1>1, <2>1, <2>2, <2>3 DEF Covered, Grown, Answered
<1>2. Acknowledged \subseteq Messages
  BY DEF Acknowledged, Messages, TypeOK
<1>3. CASE m \in Acknowledged
  BY <1>1, <1>2, <1>3 DEF AckedOrSwapped, Covered
<1>4. CASE m \notin Acknowledged
  <2>1. PICK t \in Alive : Ack(t) /\ m = task[t].id
    BY <1>4, AcknowledgedStep
  <2>2. CASE task[t].id = task[t].run
    <3>1. Covered(m) /\ m \in Messages
      BY <2>1, <2>2, Parts DEF Backed, Covered, Ack
    <3> QED
      BY <1>1, <3>1
  <2>3. CASE task[t].id # task[t].run
    BY <2>1, <2>3 DEF Ack, Covered
  <2> QED
    BY <2>2, <2>3
<1> QED
  BY <1>3, <1>4

LEMMA CoveredInit == Init => Backed /\ AckedOrSwapped
BY DEF Init, Backed, AckedOrSwapped, Acknowledged, Alive, Free

\* A message leaves the pending list without an answer to its request in two cases only:
\* the append of its answer failed, or the reaper ran another message in its place.
THEOREM AckedAfterAnswer == Spec => []AckedOrSwapped
<1>1. Init => Backed /\ AckedOrSwapped
  BY CoveredInit
<1>2. TypeOK /\ Known /\ Backed /\ AckedOrSwapped /\ [Next]_vars => (Backed /\ AckedOrSwapped)'
  BY BackedStep, CoveredStep
<1> QED
  BY <1>1, <1>2, QueueTypeCorrect, PTL DEF Spec
=============================================================================
