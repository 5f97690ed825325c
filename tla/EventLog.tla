------------------------------ MODULE EventLog ------------------------------
(***************************************************************************)
(* EventLog.append as several processes drive it at once.                  *)
(*                                                                         *)
(* One agent stream (a Redis Stream) and the event-id index beside it.     *)
(* An append runs the three phases of claim_event_id_slot: GET the index,  *)
(* XADD + SET NX of a placeholder in a pipeline that is not transactional, *)
(* SET of the final stream id.  Redis executes one command at a time, so   *)
(* each command is one action and the commands of other callers fall       *)
(* between any two of them, between XADD and SET NX too.                   *)
(*                                                                         *)
(* An attempt may be cut short by the per-attempt timeout, by a Redis      *)
(* error or by the death of its process; commands already on the wire are  *)
(* then dropped, served at once, or served late.  The placeholder and the  *)
(* final id are keys with a time to live.                                  *)
(***************************************************************************)
EXTENDS Integers, Sequences

CONSTANTS
    Writers,      \* processes that call EventLog.append on this stream
    Events,       \* event ids
    Callers,      \* which writers append which event id
    Faults,       \* what may happen to the attempts and the index key of an event id
    MaxAttempts,  \* BackoffPolicy.max_attempts; 1 when no backoff is configured
    MaxEntries    \* bound of the model: entries of the stream

FaultKinds == {"timeout", "abort", "unset", "late", "expiry", "ttl"}

\* An attempt cut short leaves its own pipeline served as a whole or not at all,
\* and no key of the index expires.
MildFaults == {"timeout", "abort"}

ASSUME LogAssumption ==
    /\ Callers \in [Events -> SUBSET Writers]
    /\ Faults \in [Events -> SUBSET FaultKinds]
    /\ Events # {}
    /\ MaxAttempts \in Nat \ {0}
    /\ MaxEntries \in Nat

\* Values of the index that are not stream ids (a stream id is a position >= 1).
Absent == 0
PLACEHOLDER == -1

VARIABLES
    stream,    \* the entries, in XADD order; "by" is a history field
    index,     \* event id -> Absent, PLACEHOLDER or the final stream id
    pc,        \* writer -> the next command of its attempt
    ev,        \* writer -> the event id it is appending
    sid,       \* writer -> the stream id its XADD returned
    attempt,   \* writer -> number of the current attempt
    late,      \* commands of abandoned attempts that the server has yet to serve
    answers    \* history: event id -> stream ids returned in an Ok

vars == <<stream, index, pc, ev, sid, attempt, late, answers>>

Entry == [ev : Events, by : Writers]
Phase == {"idle", "check", "xadd", "setnx", "finalize"}
Late == [cmd : {"claim", "placeholder", "final"}, ev : Events, by : Writers, sid : Nat]

TypeOK ==
    /\ stream \in Seq(Entry)
    /\ index \in [Events -> Nat \cup {PLACEHOLDER}]
    /\ pc \in [Writers -> Phase]
    /\ ev \in [Writers -> Events]
    /\ sid \in [Writers -> Nat]
    /\ attempt \in [Writers -> Nat]
    /\ late \in SUBSET Late
    /\ answers \in [Events -> SUBSET Nat]

Init ==
    /\ stream = <<>>
    /\ index = [e \in Events |-> Absent]
    /\ pc = [w \in Writers |-> "idle"]
    /\ ev = [w \in Writers |-> CHOOSE e \in Events : TRUE]
    /\ sid = [w \in Writers |-> 0]
    /\ attempt = [w \in Writers |-> 0]
    /\ late = {}
    /\ answers = [e \in Events |-> {}]

-----------------------------------------------------------------------------
\* The Redis commands of an append, as changes of the stream and of the index.

XADD(e, w) ==
    /\ Len(stream) < MaxEntries
    /\ stream' = Append(stream, [ev |-> e, by |-> w])

\* Mutant of SETNX: SET without NX.
SETWithoutNX(e) ==
    index' = [index EXCEPT ![e] = PLACEHOLDER]

\* SET key PLACEHOLDER NX EX 60: an entry that is there stays; the reply is not read.
SETNX(e) ==
    index' = [index EXCEPT ![e] = IF @ = Absent THEN PLACEHOLDER ELSE @]

SETFinal(e, id) ==
    index' = [index EXCEPT ![e] = id]

AnswerOk(e, id) ==
    answers' = [answers EXCEPT ![e] = @ \cup {id}]

Goto(w, phase) ==
    /\ pc' = [pc EXCEPT ![w] = phase]
    /\ UNCHANGED <<ev, attempt>>

\* The call ends, and with it the life of its local variables.
Return(w) ==
    /\ pc' = [pc EXCEPT ![w] = "idle"]
    /\ sid' = [sid EXCEPT ![w] = 0]
    /\ attempt' = [attempt EXCEPT ![w] = 0]
    /\ UNCHANGED ev

-----------------------------------------------------------------------------
\* EventLog.append: a writer that is between two calls starts one.
StartAppend(w, e) ==
    /\ pc[w] = "idle"
    /\ w \in Callers[e]
    /\ pc' = [pc EXCEPT ![w] = "check"]
    /\ ev' = [ev EXCEPT ![w] = e]
    /\ attempt' = [attempt EXCEPT ![w] = 1]
    /\ UNCHANGED <<stream, index, sid, late, answers>>

\* Mutant of CheckAbsent: a placeholder counts as no entry.
CheckNotFinal(w) ==
    /\ pc[w] = "check"
    /\ index[ev[w]] \in {Absent, PLACEHOLDER}
    /\ Goto(w, "xadd")
    /\ UNCHANGED <<stream, index, sid, late, answers>>

\* Phase 1 on an index without the key: go on to the claim.
CheckAbsent(w) ==
    /\ pc[w] = "check"
    /\ index[ev[w]] = Absent
    /\ Goto(w, "xadd")
    /\ UNCHANGED <<stream, index, sid, late, answers>>

\* Phase 1 on a placeholder: IdempotencyConflict, which append turns into an Err
\* that no policy retries.
CheckConflict(w) ==
    /\ pc[w] = "check"
    /\ index[ev[w]] = PLACEHOLDER
    /\ Return(w)
    /\ UNCHANGED <<stream, index, late, answers>>

\* Mutants of CheckFinal: the placeholder is returned as an id; the answer is the
\* newest id of the stream.
CheckPresent(w) ==
    /\ pc[w] = "check"
    /\ index[ev[w]] # Absent
    /\ AnswerOk(ev[w], index[ev[w]])
    /\ Return(w)
    /\ UNCHANGED <<stream, index, late>>

CheckFinalNewest(w) ==
    /\ pc[w] = "check"
    /\ index[ev[w]] \notin {Absent, PLACEHOLDER}
    /\ AnswerOk(ev[w], Len(stream))
    /\ Return(w)
    /\ UNCHANGED <<stream, index, late>>

\* Phase 1 on a final id: the append is a no-op that answers with it.
CheckFinal(w) ==
    /\ pc[w] = "check"
    /\ index[ev[w]] \notin {Absent, PLACEHOLDER}
    /\ AnswerOk(ev[w], index[ev[w]])
    /\ Return(w)
    /\ UNCHANGED <<stream, index, late>>

\* Mutant of ClaimXAdd: takes the id of the entry before its own.
ClaimXAddEarlierId(w) ==
    /\ pc[w] = "xadd"
    /\ XADD(ev[w], w)
    /\ sid' = [sid EXCEPT ![w] = Len(stream)]
    /\ Goto(w, "setnx")
    /\ UNCHANGED <<index, late, answers>>

\* Phase 2, first command of the pipeline.
ClaimXAdd(w) ==
    /\ pc[w] = "xadd"
    /\ XADD(ev[w], w)
    /\ sid' = [sid EXCEPT ![w] = Len(stream) + 1]
    /\ Goto(w, "setnx")
    /\ UNCHANGED <<index, late, answers>>

\* Mutant of ClaimPlaceholder: the pipeline is the XADD alone.
ClaimNoPlaceholder(w) ==
    /\ pc[w] = "setnx"
    /\ Goto(w, "finalize")
    /\ UNCHANGED <<stream, index, sid, late, answers>>

\* Phase 2, second command.
ClaimPlaceholder(w) ==
    /\ pc[w] = "setnx"
    /\ SETNX(ev[w])
    /\ Goto(w, "finalize")
    /\ UNCHANGED <<stream, sid, late, answers>>

\* Phase 3, and the Ok that follows it.
Finalize(w) ==
    /\ pc[w] = "finalize"
    /\ SETFinal(ev[w], sid[w])
    /\ AnswerOk(ev[w], sid[w])
    /\ Return(w)
    /\ UNCHANGED <<stream, late>>

-----------------------------------------------------------------------------
\* What becomes of the commands an abandoned attempt has not seen answered.

\* They never reached the server.  Of a pipeline whose XADD was served, the SET NX
\* is lost only under "unset" (its node of the cluster failed, or the connection).
Dropped(w) ==
    /\ pc[w] = "setnx" => "unset" \in Faults[ev[w]]
    /\ UNCHANGED <<stream, index, late>>

\* The server had them all and serves them, although nobody reads the reply.
Served(w) ==
    /\ \/ /\ pc[w] = "xadd"
          /\ XADD(ev[w], w)
          /\ SETNX(ev[w])
       \/ /\ pc[w] = "setnx"
          /\ SETNX(ev[w])
          /\ UNCHANGED stream
       \/ /\ pc[w] = "finalize"
          /\ SETFinal(ev[w], sid[w])
          /\ UNCHANGED stream
    /\ UNCHANGED late

LateCommand ==
    [xadd |-> "claim", setnx |-> "placeholder", finalize |-> "final"]

\* They are on the wire and are served later, in their order.
Delayed(w) ==
    /\ "late" \in Faults[ev[w]]
    /\ pc[w] \in DOMAIN LateCommand
    /\ late' = late \cup {[cmd |-> LateCommand[pc[w]], ev |-> ev[w], by |-> w, sid |-> sid[w]]}
    /\ UNCHANGED <<stream, index>>

Abandoned(w) ==
    /\ pc[w] # "idle"
    /\ Dropped(w) \/ Served(w) \/ Delayed(w)

\* asyncio.wait_for cancels the attempt.  The backoff policy, if any, starts the next
\* one at phase 1; after the last one the caller gets an Err.
AttemptTimesOut(w) ==
    /\ "timeout" \in Faults[ev[w]]
    /\ Abandoned(w)
    /\ IF attempt[w] < MaxAttempts
         THEN /\ pc' = [pc EXCEPT ![w] = "check"]
              /\ sid' = [sid EXCEPT ![w] = 0]
              /\ attempt' = [attempt EXCEPT ![w] = @ + 1]
              /\ UNCHANGED ev
         ELSE Return(w)
    /\ UNCHANGED answers

\* The process dies, or Redis raises and the adapter answers with an Err, which is
\* not retried.  Its caller may append the same event again.
AttemptAborts(w) ==
    /\ "abort" \in Faults[ev[w]]
    /\ Abandoned(w)
    /\ Return(w)
    /\ UNCHANGED answers

\* The server serves the next command of an abandoned attempt.
ServeLate(c) ==
    /\ CASE c.cmd = "claim" ->
              /\ XADD(c.ev, c.by)
              /\ late' = (late \ {c}) \cup {[c EXCEPT !.cmd = "placeholder"]}
              /\ UNCHANGED index
         [] c.cmd = "placeholder" ->
              /\ SETNX(c.ev)
              /\ late' = late \ {c}
              /\ UNCHANGED stream
         [] c.cmd = "final" ->
              /\ SETFinal(c.ev, c.sid)
              /\ late' = late \ {c}
              /\ UNCHANGED stream
    /\ UNCHANGED <<pc, ev, sid, attempt, answers>>

\* The placeholder lives 60 seconds.
PlaceholderExpires(e) ==
    /\ "expiry" \in Faults[e]
    /\ index[e] = PLACEHOLDER
    /\ index' = [index EXCEPT ![e] = Absent]
    /\ UNCHANGED <<stream, pc, ev, sid, attempt, late, answers>>

\* The final id lives for idempotency_ttl (24 hours by default).
FinalIdExpires(e) ==
    /\ "ttl" \in Faults[e]
    /\ index[e] \notin {Absent, PLACEHOLDER}
    /\ index' = [index EXCEPT ![e] = Absent]
    /\ UNCHANGED <<stream, pc, ev, sid, attempt, late, answers>>

-----------------------------------------------------------------------------
ClaimEventIdSlot(w) ==
    \/ CheckAbsent(w)
    \/ CheckConflict(w)
    \/ CheckFinal(w)
    \/ ClaimXAdd(w)
    \/ ClaimPlaceholder(w)
    \/ Finalize(w)

Next ==
    \/ \E w \in Writers, e \in Events : StartAppend(w, e)
    \/ \E w \in Writers : ClaimEventIdSlot(w)
    \/ \E w \in Writers : AttemptTimesOut(w)
    \/ \E w \in Writers : AttemptAborts(w)
    \/ \E c \in late : ServeLate(c)
    \/ \E e \in Events : PlaceholderExpires(e)
    \/ \E e \in Events : FinalIdExpires(e)

Spec == Init /\ [][Next]_vars

-----------------------------------------------------------------------------
\* Duplicates come only from different callers: as long as the attempts of an event
\* id are cut short cleanly and its index key does not expire, no caller adds the
\* event to the stream twice, however often it times out, dies and appends again.
\* (A single caller per event id makes this: at most one entry per event id.)
OneEntryPerCaller ==
    \A i, j \in DOMAIN stream :
        stream[i] = stream[j] /\ Faults[stream[i].ev] \subseteq MildFaults => i = j

\* Whatever the faults and the races, an Ok names an entry that holds the event the
\* caller appended.
AnswersAreSound ==
    \A e \in Events : \A id \in answers[e] :
        id \in DOMAIN stream /\ stream[id].ev = e

\* A claim that lost a race never hides the final id of the winner behind a
\* placeholder: once an append has been answered, later ones are not told that an
\* insert is in flight.
FinalIdNotHidden ==
    [][\A e \in Events : index[e] > 0 => index'[e] # PLACEHOLDER]_vars

\* The comment on _claim_phase: "SET ... NX elects one writer".
ElectsOneWriter ==
    \A v, w \in Writers :
        pc[v] = "finalize" /\ pc[w] = "finalize" /\ ev[v] = ev[w] => v = w

-----------------------------------------------------------------------------
\* Why the properties hold: the inductive invariants.

Names(id, e) == id \in DOMAIN stream /\ stream[id].ev = e

\* Every stream id that the index, an answer, a writer or a late command carries
\* names an entry of its event.
IdsNameEntries ==
    /\ \A e \in Events : index[e] > 0 => Names(index[e], e)
    /\ AnswersAreSound
    /\ \A w \in Writers : pc[w] \in {"setnx", "finalize"} => Names(sid[w], ev[w])
    /\ \A c \in late : c.cmd = "final" => Names(c.sid, c.ev)

\* Appends, late ones too, are those of the event's callers.
CallersOnly ==
    /\ \A w \in Writers : pc[w] # "idle" => w \in Callers[ev[w]]
    /\ \A i \in DOMAIN stream : stream[i].by \in Callers[stream[i].ev]
    /\ \A c \in late : c.by \in Callers[c.ev] /\ "late" \in Faults[c.ev]

\* An entry of a mild event is covered by the index key, except between the two
\* commands of the pipeline that made it; so a writer about to XADD has no entry yet.
EntriesAreCovered ==
    /\ \A i \in DOMAIN stream :
           \/ ~(Faults[stream[i].ev] \subseteq MildFaults)
           \/ index[stream[i].ev] # Absent
           \/ pc[stream[i].by] = "setnx" /\ ev[stream[i].by] = stream[i].ev
    /\ \A w \in Writers :
           pc[w] = "xadd" /\ Faults[ev[w]] \subseteq MildFaults
           => \A i \in DOMAIN stream : stream[i] # [ev |-> ev[w], by |-> w]

LogInv == IdsNameEntries /\ CallersOnly /\ EntriesAreCovered /\ OneEntryPerCaller

-----------------------------------------------------------------------------
\* Events with one caller and mild faults only: the log is then what the docstring of
\* append promises, "if the same event_id is already in the log, the call is a no-op
\* and the original stream entry id is returned".
Exclusive ==
    \A e \in Events :
        /\ Faults[e] \subseteq MildFaults
        /\ \A v, w \in Callers[e] : v = w

Promise == INSTANCE AtomicLog
           WITH log <- [i \in DOMAIN stream |-> stream[i].ev], answered <- answers

PromiseSpec == Promise!Spec
=============================================================================
