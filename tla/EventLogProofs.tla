--------------------------- MODULE EventLogProofs ---------------------------
(***************************************************************************)
(* What holds of EventLog for every set of writers, events and faults: its *)
(* types, the soundness of every Ok, one entry per caller under mild       *)
(* faults, and, with one caller per event id, the promise of AtomicLog.    *)
(***************************************************************************)
EXTENDS EventLog, TLAPS

-----------------------------------------------------------------------------
\* The commands, each with what the proofs use of it.

\* XADD adds one entry at the end and keeps the others.
LEMMA XADDEffect ==
    ASSUME TypeOK, NEW e \in Events, NEW w \in Writers, XADD(e, w)
    PROVE  /\ stream' \in Seq(Entry)
           /\ DOMAIN stream' = DOMAIN stream \cup {Len(stream) + 1}
           /\ Len(stream) + 1 \notin DOMAIN stream
           /\ stream'[Len(stream) + 1] = [ev |-> e, by |-> w]
           /\ \A i \in DOMAIN stream : stream'[i] = stream[i]
  BY DEF TypeOK, XADD, Entry

\* SET NX fills an absent key with the placeholder and leaves any other key alone.
LEMMA SETNXEffect ==
    ASSUME TypeOK, NEW e \in Events, SETNX(e)
    PROVE  /\ index' \in [Events -> Nat \cup {PLACEHOLDER}]
           /\ index'[e] # Absent
           /\ \A f \in Events :
                 \/ index'[f] = index[f]
                 \/ index[f] = Absent /\ index'[f] = PLACEHOLDER
<1>1. /\ index \in [Events -> Nat \cup {PLACEHOLDER}]
      /\ index' = [index EXCEPT ![e] = IF index[e] = Absent THEN PLACEHOLDER ELSE index[e]]
  BY DEF TypeOK, SETNX
<1>2. index' \in [Events -> Nat \cup {PLACEHOLDER}]
  BY <1>1
<1>3. index'[e] = IF index[e] = Absent THEN PLACEHOLDER ELSE index[e]
  BY <1>1
<1>4. \A f \in Events \ {e} : index'[f] = index[f]
  BY <1>1
<1> QED
  BY <1>2, <1>3, <1>4 DEF Absent, PLACEHOLDER

\* SET writes the one key.
LEMMA SETFinalEffect ==
    ASSUME TypeOK, NEW e \in Events, NEW id \in Nat, SETFinal(e, id)
    PROVE  /\ index' \in [Events -> Nat \cup {PLACEHOLDER}]
           /\ index'[e] = id
           /\ \A f \in Events \ {e} : index'[f] = index[f]
  BY DEF TypeOK, SETFinal

-----------------------------------------------------------------------------
\* The type invariant: pc, index, stream and the commands in flight keep their shape.
THEOREM TypeCorrect == Spec => []TypeOK
<1>1. Init => TypeOK
  <2> SUFFICES ASSUME Init PROVE TypeOK
    OBVIOUS
  <2>1. (CHOOSE e \in Events : TRUE) \in Events
    BY LogAssumption DEF LogAssumption
  <2> QED
    BY <2>1 DEF Init, TypeOK, Phase, Absent
<1>2. TypeOK /\ [Next]_vars => TypeOK'
  <2> SUFFICES ASSUME TypeOK, [Next]_vars PROVE TypeOK'
    OBVIOUS
  <2> USE LogAssumption DEF TypeOK, Phase, Absent, PLACEHOLDER
  <2>1. ASSUME NEW w \in Writers, NEW e \in Events, StartAppend(w, e) PROVE TypeOK'
    BY <2>1 DEF StartAppend, LogAssumption
  <2>2. ASSUME NEW w \in Writers, CheckAbsent(w) PROVE TypeOK'
    BY <2>2 DEF CheckAbsent, Goto
  <2>3. ASSUME NEW w \in Writers, CheckConflict(w) PROVE TypeOK'
    BY <2>3 DEF CheckConflict, Return
  <2>4. ASSUME NEW w \in Writers, CheckFinal(w) PROVE TypeOK'
    BY <2>4 DEF CheckFinal, Return, AnswerOk
  <2>5. ASSUME NEW w \in Writers, ClaimXAdd(w) PROVE TypeOK'
    BY <2>5 DEF ClaimXAdd, Goto, XADD, Entry
  <2>6. ASSUME NEW w \in Writers, ClaimPlaceholder(w) PROVE TypeOK'
    BY <2>6 DEF ClaimPlaceholder, Goto, SETNX
  <2>7. ASSUME NEW w \in Writers, Finalize(w) PROVE TypeOK'
    BY <2>7 DEF Finalize, Return, SETFinal, AnswerOk
  <2>8. ASSUME NEW w \in Writers, Abandoned(w)
        PROVE /\ stream' \in Seq(Entry)
              /\ index' \in [Events -> Nat \cup {PLACEHOLDER}]
              /\ late' \in SUBSET Late
    <3>1. CASE Dropped(w)
      BY <3>1 DEF Dropped
    <3>2. CASE Served(w)
      <4>1. ev[w] \in Events /\ sid[w] \in Nat
        OBVIOUS
      <4>2. stream' \in Seq(Entry)
        BY <3>2, <4>1, XADDEffect DEF Served
      <4>3. index' \in [Events -> Nat \cup {PLACEHOLDER}]
        BY <3>2, <4>1, SETNXEffect, SETFinalEffect DEF Served
      <4> QED
        BY <3>2, <4>2, <4>3 DEF Served
    <3>3. CASE Delayed(w)
      <4>1. [cmd |-> LateCommand[pc[w]], ev |-> ev[w], by |-> w, sid |-> sid[w]] \in Late
        BY <3>3 DEF Delayed, LateCommand, Late
      <4> QED
        BY <3>3, <4>1 DEF Delayed
    <3> QED
      BY <2>8, <3>1, <3>2, <3>3 DEF Abandoned
  <2>9. ASSUME NEW w \in Writers, AttemptTimesOut(w) PROVE TypeOK'
    <3>1. /\ stream' \in Seq(Entry)
          /\ index' \in [Events -> Nat \cup {PLACEHOLDER}]
          /\ late' \in SUBSET Late
      BY <2>8, <2>9 DEF AttemptTimesOut
    <3>2. /\ pc' \in [Writers -> Phase]
          /\ ev' = ev
          /\ sid' \in [Writers -> Nat]
          /\ attempt' \in [Writers -> Nat]
          /\ answers' = answers
      <4>1. CASE attempt[w] < MaxAttempts
        <5>1. /\ pc' = [pc EXCEPT ![w] = "check"]
              /\ sid' = [sid EXCEPT ![w] = 0]
              /\ attempt' = [attempt EXCEPT ![w] = attempt[w] + 1]
              /\ ev' = ev /\ answers' = answers
          BY <2>9, <4>1 DEF AttemptTimesOut
        <5>2. attempt' \in [Writers -> Nat]
          BY <5>1
        <5> QED
          BY <5>1, <5>2
      <4>2. CASE ~(attempt[w] < MaxAttempts)
        <5>1. Return(w) /\ answers' = answers
          BY <2>9, <4>2 DEF AttemptTimesOut
        <5> QED
          BY <5>1 DEF Return
      <4> QED
        BY <4>1, <4>2
    <3> QED
      BY <3>1, <3>2
  <2>10. ASSUME NEW w \in Writers, AttemptAborts(w) PROVE TypeOK'
    <3>1. /\ stream' \in Seq(Entry)
          /\ index' \in [Events -> Nat \cup {PLACEHOLDER}]
          /\ late' \in SUBSET Late
      BY <2>8, <2>10 DEF AttemptAborts
    <3> QED
      BY <2>10, <3>1 DEF AttemptAborts, Return
  <2>11. ASSUME NEW c \in late, ServeLate(c) PROVE TypeOK'
    <3>0. c \in Late
      OBVIOUS
    <3>1. /\ c.cmd \in {"claim", "placeholder", "final"}
          /\ c.ev \in Events /\ c.by \in Writers /\ c.sid \in Nat
          /\ [c EXCEPT !.cmd = "placeholder"] \in Late
      BY <3>0 DEF Late
    <3>2. UNCHANGED <<pc, ev, sid, attempt, answers>>
      BY <2>11 DEF ServeLate
    <3>3. CASE c.cmd = "claim"
      <4>1. XADD(c.ev, c.by) /\ late' \in SUBSET Late /\ index' = index
        BY <2>11, <3>1, <3>3 DEF ServeLate
      <4> QED
        BY <3>1, <3>2, <4>1, XADDEffect
    <3>4. CASE c.cmd = "placeholder"
      <4>1. SETNX(c.ev) /\ late' \in SUBSET Late /\ stream' = stream
        BY <2>11, <3>4 DEF ServeLate
      <4> QED
        BY <3>1, <3>2, <4>1, SETNXEffect
    <3>5. CASE c.cmd = "final"
      <4>1. SETFinal(c.ev, c.sid) /\ late' \in SUBSET Late /\ stream' = stream
        BY <2>11, <3>5 DEF ServeLate
      <4> QED
        BY <3>1, <3>2, <4>1, SETFinalEffect
    <3> QED
      BY <3>1, <3>3, <3>4, <3>5
  <2>12. ASSUME NEW e \in Events, PlaceholderExpires(e) PROVE TypeOK'
    BY <2>12 DEF PlaceholderExpires
  <2>13. ASSUME NEW e \in Events, FinalIdExpires(e) PROVE TypeOK'
    BY <2>13 DEF FinalIdExpires
  <2>14. CASE UNCHANGED vars
    BY <2>14 DEF vars
  <2> QED
    BY <2>1, <2>2, <2>3, <2>4, <2>5, <2>6, <2>7, <2>9, <2>10, <2>11, <2>12, <2>13, <2>14
       DEF Next, ClaimEventIdSlot
<1> QED
  BY <1>1, <1>2, PTL DEF Spec

-----------------------------------------------------------------------------
\* No command of an append rewrites or removes an entry.
LEMMA AppendOnly ==
    ASSUME TypeOK, [Next]_vars
    PROVE  \A i \in DOMAIN stream : i \in DOMAIN stream' /\ stream'[i] = stream[i]
<1>1. ASSUME NEW e \in Events, NEW w \in Writers, XADD(e, w)
      PROVE  \A i \in DOMAIN stream : i \in DOMAIN stream' /\ stream'[i] = stream[i]
  BY <1>1, XADDEffect
<1>2. ASSUME NEW w \in Writers, Abandoned(w)
      PROVE  \A i \in DOMAIN stream : i \in DOMAIN stream' /\ stream'[i] = stream[i]
  <2>1. ev[w] \in Events
    BY DEF TypeOK
  <2>2. stream' = stream \/ XADD(ev[w], w)
    BY <1>2 DEF Abandoned, Dropped, Served, Delayed
  <2> QED
    BY <1>1, <2>1, <2>2
<1>3. ASSUME NEW w \in Writers, ClaimXAdd(w)
      PROVE  \A i \in DOMAIN stream : i \in DOMAIN stream' /\ stream'[i] = stream[i]
  <2>1. ev[w] \in Events
    BY DEF TypeOK
  <2> QED
    BY <1>1, <1>3, <2>1 DEF ClaimXAdd
<1>4. ASSUME NEW c \in late, ServeLate(c)
      PROVE  \A i \in DOMAIN stream : i \in DOMAIN stream' /\ stream'[i] = stream[i]
  <2>1. c.ev \in Events /\ c.by \in Writers /\ c.cmd \in {"claim", "placeholder", "final"}
    BY DEF TypeOK, Late
  <2>2. stream' = stream \/ XADD(c.ev, c.by)
    BY <1>4, <2>1 DEF ServeLate
  <2> QED
    BY <1>1, <2>1, <2>2
<1>5. CASE stream' = stream
  BY <1>5
<1> QED
  BY <1>2, <1>3, <1>4, <1>5
     DEF Next, vars, ClaimEventIdSlot, StartAppend, CheckAbsent, CheckConflict, CheckFinal,
         ClaimPlaceholder, Finalize, AttemptTimesOut, AttemptAborts, PlaceholderExpires,
         FinalIdExpires

\* What an abandoned attempt leaves behind names entries if what it carried did.
LEMMA AbandonedNames ==
    ASSUME TypeOK, NEW w \in Writers, Abandoned(w)
    PROVE  /\ \A e \in Events : index'[e] > 0 =>
                 index'[e] = index[e] \/ (e = ev[w] /\ index'[e] = sid[w] /\ pc[w] = "finalize")
           /\ \A c \in late' : c.cmd = "final" =>
                 c \in late \/ (c.ev = ev[w] /\ c.sid = sid[w] /\ pc[w] = "finalize")
<1>0. ev[w] \in Events /\ sid[w] \in Nat
  BY DEF TypeOK
<1>1. CASE Dropped(w)
  BY <1>1 DEF Dropped
<1>2. CASE Served(w)
  <2>1. CASE SETNX(ev[w])
    <3>1. late' = late
      BY <1>2 DEF Served
    <3> QED
      BY <1>0, <2>1, <3>1, SETNXEffect DEF PLACEHOLDER
  <2>2. CASE pc[w] = "finalize" /\ SETFinal(ev[w], sid[w])
    <3>1. late' = late
      BY <1>2 DEF Served
    <3> QED
      BY <1>0, <2>2, <3>1, SETFinalEffect
  <2> QED
    BY <1>2, <2>1, <2>2 DEF Served
<1>3. CASE Delayed(w)
  BY <1>3 DEF Delayed, LateCommand
<1> QED
  BY <1>1, <1>2, <1>3 DEF Abandoned

-----------------------------------------------------------------------------
\* Every stream id in use names an entry of its event: the inductive invariant behind
\* AnswersAreSound.
LEMMA IdsNameEntriesStep ==
    TypeOK /\ IdsNameEntries /\ [Next]_vars => IdsNameEntries'
<1> SUFFICES ASSUME TypeOK, IdsNameEntries, [Next]_vars PROVE IdsNameEntries'
  OBVIOUS
<1> DEFINE NamesNext(id, e) == id \in DOMAIN stream' /\ stream'[id].ev = e
           Goal == /\ \A e \in Events : index'[e] > 0 => NamesNext(index'[e], e)
                   /\ \A e \in Events : \A id \in answers'[e] : NamesNext(id, e)
                   /\ \A w \in Writers :
                         pc'[w] \in {"setnx", "finalize"} => NamesNext(sid'[w], ev'[w])
                   /\ \A c \in late' : c.cmd = "final" => NamesNext(c.sid, c.ev)
<1>1. SUFFICES Goal
  BY DEF IdsNameEntries, AnswersAreSound, Names
<1>2. \A id, e : Names(id, e) => NamesNext(id, e)
  BY AppendOnly DEF Names
<1>3. /\ \A w \in Writers : ev[w] \in Events /\ sid[w] \in Nat
      /\ \A e \in Events : index[e] \in Nat \cup {PLACEHOLDER}
      /\ index \in [Events -> Nat \cup {PLACEHOLDER}]
      /\ pc \in [Writers -> Phase] /\ ev \in [Writers -> Events] /\ sid \in [Writers -> Nat]
      /\ answers \in [Events -> SUBSET Nat]
  BY DEF TypeOK
<1>4. /\ \A e \in Events : index[e] > 0 => NamesNext(index[e], e)
      /\ \A e \in Events : \A id \in answers[e] : NamesNext(id, e)
      /\ \A w \in Writers : pc[w] \in {"setnx", "finalize"} => NamesNext(sid[w], ev[w])
      /\ \A c \in late : c.cmd = "final" => NamesNext(c.sid, c.ev)
  BY <1>2 DEF IdsNameEntries, AnswersAreSound, Names
<1> HIDE DEF NamesNext
<1>5. ASSUME NEW w \in Writers, NEW e \in Events, StartAppend(w, e) PROVE Goal
  BY <1>3, <1>4, <1>5 DEF StartAppend
<1>6. ASSUME NEW w \in Writers, CheckAbsent(w) PROVE Goal
  BY <1>3, <1>4, <1>6 DEF CheckAbsent, Goto
<1>7. ASSUME NEW w \in Writers, CheckConflict(w) PROVE Goal
  BY <1>3, <1>4, <1>7 DEF CheckConflict, Return
<1>8. ASSUME NEW w \in Writers, CheckFinal(w) PROVE Goal
  <2>1. index[ev[w]] > 0
    BY <1>3, <1>8 DEF CheckFinal, Absent, PLACEHOLDER
  <2> QED
    BY <1>3, <1>4, <1>8, <2>1 DEF CheckFinal, Return, AnswerOk
<1>9. ASSUME NEW w \in Writers, ClaimXAdd(w) PROVE Goal
  <2>1. NamesNext(Len(stream) + 1, ev[w])
    <3>1. XADD(ev[w], w) /\ ev[w] \in Events
      BY <1>3, <1>9 DEF ClaimXAdd
    <3>2. stream'[Len(stream) + 1] = [ev |-> ev[w], by |-> w]
      BY <3>1, XADDEffect
    <3>3. Len(stream) + 1 \in DOMAIN stream'
      BY <3>1, XADDEffect
    <3> QED
      BY <3>2, <3>3 DEF NamesNext
  <2> QED
    BY <1>3, <1>4, <1>9, <2>1 DEF ClaimXAdd, Goto
<1>10. ASSUME NEW w \in Writers, ClaimPlaceholder(w) PROVE Goal
  <2>1. \A e \in Events : index'[e] > 0 => index'[e] = index[e]
    BY <1>3, <1>10, SETNXEffect DEF ClaimPlaceholder, PLACEHOLDER
  <2> QED
    BY <1>3, <1>4, <1>10, <2>1 DEF ClaimPlaceholder, Goto
<1>11. ASSUME NEW w \in Writers, Finalize(w) PROVE Goal
  BY <1>3, <1>4, <1>11, SETFinalEffect DEF Finalize, Return, AnswerOk
<1>12. ASSUME NEW w \in Writers, Abandoned(w), answers' = answers,
              pc'[w] \in {"check", "idle"},
              \A v \in Writers \ {w} : pc'[v] = pc[v] /\ ev'[v] = ev[v] /\ sid'[v] = sid[v]
       PROVE  Goal
  BY <1>3, <1>4, <1>12, AbandonedNames
<1>13. ASSUME NEW w \in Writers, AttemptTimesOut(w) PROVE Goal
  BY <1>3, <1>12, <1>13 DEF AttemptTimesOut, Return
<1>14. ASSUME NEW w \in Writers, AttemptAborts(w) PROVE Goal
  BY <1>3, <1>12, <1>14 DEF AttemptAborts, Return
<1>15. ASSUME NEW c \in late, ServeLate(c) PROVE Goal
  <2>1. /\ c.ev \in Events /\ c.by \in Writers /\ c.sid \in Nat
        /\ c.cmd \in {"claim", "placeholder", "final"}
    BY DEF TypeOK, Late
  <2>2. UNCHANGED <<pc, ev, sid, answers>>
    BY <1>15 DEF ServeLate
  <2>3. CASE c.cmd = "claim"
    <3>1. index' = index /\ late' = (late \ {c}) \cup {[c EXCEPT !.cmd = "placeholder"]}
      BY <1>15, <2>3 DEF ServeLate
    <3>2. [c EXCEPT !.cmd = "placeholder"].cmd = "placeholder"
      BY DEF TypeOK, Late
    <3> QED
      BY <1>3, <1>4, <2>2, <3>1, <3>2
  <2>4. CASE c.cmd = "placeholder"
    <3>1. SETNX(c.ev) /\ late' = late \ {c}
      BY <1>15, <2>4 DEF ServeLate
    <3>2. \A e \in Events : index'[e] > 0 => index'[e] = index[e]
      BY <1>3, <2>1, <3>1, SETNXEffect DEF PLACEHOLDER
    <3> QED
      BY <1>3, <1>4, <2>2, <3>1, <3>2
  <2>5. CASE c.cmd = "final"
    <3>1. SETFinal(c.ev, c.sid) /\ late' = late \ {c}
      BY <1>15, <2>5 DEF ServeLate
    <3> QED
      BY <1>3, <1>4, <2>1, <2>2, <2>5, <3>1, SETFinalEffect
  <2> QED
    BY <2>1, <2>3, <2>4, <2>5
<1>16. ASSUME NEW e \in Events, PlaceholderExpires(e) \/ FinalIdExpires(e) PROVE Goal
  BY <1>3, <1>4, <1>16 DEF PlaceholderExpires, FinalIdExpires, Absent
<1>17. CASE UNCHANGED vars
  BY <1>4, <1>17 DEF vars
<1> QED
  BY <1>5, <1>6, <1>7, <1>8, <1>9, <1>10, <1>11, <1>13, <1>14, <1>15, <1>16, <1>17
     DEF Next, ClaimEventIdSlot

\* Whatever the races and the faults, an Ok names an entry that holds the caller's event.
THEOREM AnswersSound == Spec => []AnswersAreSound
<1>1. Init => IdsNameEntries
  BY DEF Init, IdsNameEntries, AnswersAreSound, Absent
<1>2. IdsNameEntries => AnswersAreSound
  BY DEF IdsNameEntries
<1> QED
  BY <1>1, <1>2, TypeCorrect, IdsNameEntriesStep, PTL DEF Spec

-----------------------------------------------------------------------------
\* A final id is never replaced by a placeholder: only an expired key can be claimed.
THEOREM FinalIdStays == Spec => FinalIdNotHidden
<1>1. TypeOK /\ [Next]_vars
      => [\A e \in Events : index[e] > 0 => index'[e] # PLACEHOLDER]_vars
  <2> SUFFICES ASSUME TypeOK, [Next]_vars, NEW e \in Events, index[e] > 0
               PROVE  index'[e] # PLACEHOLDER
    OBVIOUS
  <2>1. ASSUME NEW f \in Events, SETNX(f) PROVE index'[e] # PLACEHOLDER
    BY <2>1, SETNXEffect DEF PLACEHOLDER, Absent
  <2>2. ASSUME NEW f \in Events, NEW id \in Nat, SETFinal(f, id)
        PROVE  index'[e] # PLACEHOLDER
    BY <2>2, SETFinalEffect DEF PLACEHOLDER
  <2>3. CASE index' = index
    BY <2>3 DEF PLACEHOLDER
  <2>4. \A w \in Writers : ev[w] \in Events /\ sid[w] \in Nat
    BY DEF TypeOK
  <2>5. ASSUME NEW w \in Writers, Abandoned(w) PROVE index'[e] # PLACEHOLDER
    BY <2>1, <2>2, <2>3, <2>4, <2>5 DEF Abandoned, Dropped, Served, Delayed
  <2>6. ASSUME NEW c \in late, ServeLate(c) PROVE index'[e] # PLACEHOLDER
    <3>1. c.ev \in Events /\ c.sid \in Nat /\ c.cmd \in {"claim", "placeholder", "final"}
      BY DEF TypeOK, Late
    <3>2. index' = index \/ SETNX(c.ev) \/ SETFinal(c.ev, c.sid)
      BY <2>6, <3>1 DEF ServeLate
    <3> QED
      BY <2>1, <2>2, <2>3, <3>1, <3>2
  <2>7. ASSUME NEW f \in Events, PlaceholderExpires(f) \/ FinalIdExpires(f)
        PROVE  index'[e] # PLACEHOLDER
    <3>1. index \in [Events -> Nat \cup {PLACEHOLDER}]
      BY DEF TypeOK
    <3>2. index' = [index EXCEPT ![f] = Absent]
      BY <2>7 DEF PlaceholderExpires, FinalIdExpires
    <3>3. index'[e] = IF e = f THEN Absent ELSE index[e]
      BY <3>1, <3>2
    <3> QED
      BY <3>3 DEF Absent, PLACEHOLDER
  <2>8. ASSUME NEW w \in Writers, ClaimEventIdSlot(w) PROVE index'[e] # PLACEHOLDER
    BY <2>1, <2>2, <2>3, <2>4, <2>8
       DEF ClaimEventIdSlot, CheckAbsent, CheckConflict, CheckFinal, ClaimXAdd,
           ClaimPlaceholder, Finalize
  <2> QED
    BY <2>3, <2>5, <2>6, <2>7, <2>8 DEF Next, vars, StartAppend, AttemptTimesOut, AttemptAborts
<1> QED
  BY <1>1, TypeCorrect, PTL DEF Spec, FinalIdNotHidden

-----------------------------------------------------------------------------
\* Only callers of an event append it, and a command is late only where that may happen.
LEMMA CallersOnlyStep ==
    TypeOK /\ CallersOnly /\ [Next]_vars => CallersOnly'
<1> SUFFICES ASSUME TypeOK, CallersOnly, [Next]_vars PROVE CallersOnly'
  OBVIOUS
<1>1. /\ \A w \in Writers : ev[w] \in Events /\ sid[w] \in Nat
      /\ pc \in [Writers -> Phase] /\ ev \in [Writers -> Events]
  BY DEF TypeOK
<1>2. ASSUME NEW e \in Events, NEW w \in Writers, w \in Callers[e], XADD(e, w)
      PROVE  \A i \in DOMAIN stream' : stream'[i].by \in Callers[stream'[i].ev]
  <2>1. /\ DOMAIN stream' = DOMAIN stream \cup {Len(stream) + 1}
        /\ stream'[Len(stream) + 1] = [ev |-> e, by |-> w]
        /\ \A i \in DOMAIN stream : stream'[i] = stream[i]
    BY <1>2, XADDEffect
  <2> QED
    BY <1>2, <2>1 DEF CallersOnly
<1>3. ASSUME NEW w \in Writers, Abandoned(w)
      PROVE  /\ \A i \in DOMAIN stream' : stream'[i].by \in Callers[stream'[i].ev]
             /\ \A c \in late' : c.by \in Callers[c.ev] /\ "late" \in Faults[c.ev]
  <2>1. w \in Callers[ev[w]]
    BY <1>3 DEF Abandoned, CallersOnly
  <2>2. CASE Dropped(w)
    BY <2>2 DEF Dropped, CallersOnly
  <2>3. CASE Served(w)
    <3>1. late' = late /\ (stream' = stream \/ XADD(ev[w], w))
      BY <2>3 DEF Served
    <3> QED
      BY <1>1, <1>2, <2>1, <3>1 DEF CallersOnly
  <2>4. CASE Delayed(w)
    BY <2>1, <2>4 DEF Delayed, CallersOnly
  <2> QED
    BY <1>3, <2>2, <2>3, <2>4 DEF Abandoned
<1>4. ASSUME NEW w \in Writers, NEW e \in Events, StartAppend(w, e) PROVE CallersOnly'
  BY <1>1, <1>4 DEF StartAppend, CallersOnly
<1>5. ASSUME NEW w \in Writers, CheckAbsent(w) PROVE CallersOnly'
  BY <1>1, <1>5 DEF CheckAbsent, Goto, CallersOnly
<1>6. ASSUME NEW w \in Writers, CheckConflict(w) PROVE CallersOnly'
  BY <1>1, <1>6 DEF CheckConflict, Return, CallersOnly
<1>7. ASSUME NEW w \in Writers, CheckFinal(w) PROVE CallersOnly'
  BY <1>1, <1>7 DEF CheckFinal, Return, CallersOnly
<1>8. ASSUME NEW w \in Writers, ClaimXAdd(w) PROVE CallersOnly'
  <2>1. w \in Callers[ev[w]] /\ XADD(ev[w], w)
    BY <1>8 DEF ClaimXAdd, CallersOnly
  <2>2. \A i \in DOMAIN stream' : stream'[i].by \in Callers[stream'[i].ev]
    BY <1>1, <1>2, <2>1
  <2> QED
    BY <1>1, <1>8, <2>2 DEF ClaimXAdd, Goto, CallersOnly
<1>9. ASSUME NEW w \in Writers, ClaimPlaceholder(w) PROVE CallersOnly'
  BY <1>1, <1>9 DEF ClaimPlaceholder, Goto, CallersOnly
<1>10. ASSUME NEW w \in Writers, Finalize(w) PROVE CallersOnly'
  BY <1>1, <1>10 DEF Finalize, Return, CallersOnly
<1>11. ASSUME NEW w \in Writers, AttemptTimesOut(w) PROVE CallersOnly'
  <2>1. /\ ev' = ev
        /\ \A v \in Writers : pc'[v] # "idle" => pc[v] # "idle"
    BY <1>1, <1>11 DEF AttemptTimesOut, Return, Abandoned
  <2> QED
    BY <1>3, <1>11, <2>1 DEF AttemptTimesOut, CallersOnly
<1>12. ASSUME NEW w \in Writers, AttemptAborts(w) PROVE CallersOnly'
  <2>1. /\ ev' = ev
        /\ \A v \in Writers : pc'[v] # "idle" => pc[v] # "idle"
    BY <1>1, <1>12 DEF AttemptAborts, Return, Abandoned
  <2> QED
    BY <1>3, <1>12, <2>1 DEF AttemptAborts, CallersOnly
<1>13. ASSUME NEW c \in late, ServeLate(c) PROVE CallersOnly'
  <2>1. /\ c.ev \in Events /\ c.by \in Writers /\ c.by \in Callers[c.ev]
        /\ c.cmd \in {"claim", "placeholder", "final"}
    BY DEF TypeOK, Late, CallersOnly
  <2>2. pc' = pc /\ ev' = ev
    BY <1>13 DEF ServeLate
  <2>3. \A d \in late' : d \in late \/ (d.ev = c.ev /\ d.by = c.by)
    <3>1. [c EXCEPT !.cmd = "placeholder"].ev = c.ev /\ [c EXCEPT !.cmd = "placeholder"].by = c.by
      BY DEF TypeOK, Late
    <3> QED
      BY <1>13, <2>1, <3>1 DEF ServeLate
  <2>4. stream' = stream \/ XADD(c.ev, c.by)
    BY <1>13, <2>1 DEF ServeLate
  <2>5. \A i \in DOMAIN stream' : stream'[i].by \in Callers[stream'[i].ev]
    BY <1>2, <2>1, <2>4 DEF CallersOnly
  <2> QED
    BY <2>1, <2>2, <2>3, <2>5 DEF CallersOnly
<1>14. ASSUME NEW e \in Events, PlaceholderExpires(e) \/ FinalIdExpires(e) PROVE CallersOnly'
  BY <1>14 DEF PlaceholderExpires, FinalIdExpires, CallersOnly
<1>15. CASE UNCHANGED vars
  BY <1>15 DEF vars, CallersOnly
<1> QED
  BY <1>4, <1>5, <1>6, <1>7, <1>8, <1>9, <1>10, <1>11, <1>12, <1>13, <1>14, <1>15
     DEF Next, ClaimEventIdSlot

-----------------------------------------------------------------------------
\* For an event with mild faults the index key, once set, stays set, and so does the
\* cover of an entry that its own pipeline has yet to claim.
LEMMA CoverStays ==
    ASSUME TypeOK, IdsNameEntries, CallersOnly, [Next]_vars,
           NEW e \in Events, Faults[e] \subseteq MildFaults, NEW w \in Writers,
           index[e] # Absent \/ (pc[w] = "setnx" /\ ev[w] = e)
    PROVE  index'[e] # Absent \/ (pc'[w] = "setnx" /\ ev'[w] = e)
<1> DEFINE Goal == index'[e] # Absent \/ (pc'[w] = "setnx" /\ ev'[w] = e)
<1>1. /\ \A v \in Writers : ev[v] \in Events /\ sid[v] \in Nat
      /\ pc \in [Writers -> Phase] /\ ev \in [Writers -> Events]
      /\ index \in [Events -> Nat \cup {PLACEHOLDER}]
      /\ "late" \notin Faults[e] /\ "unset" \notin Faults[e]
      /\ "expiry" \notin Faults[e] /\ "ttl" \notin Faults[e]
  BY DEF TypeOK, MildFaults
<1>2. ASSUME NEW f \in Events, SETNX(f) PROVE index[e] # Absent \/ f = e => index'[e] # Absent
  BY <1>2, SETNXEffect
<1>3. ASSUME NEW f \in Events, NEW id \in Nat, SETFinal(f, id), Names(id, f)
      PROVE  index[e] # Absent => index'[e] # Absent
  <2>1. id # Absent
    BY <1>3 DEF Names, TypeOK, Absent
  <2> QED
    BY <1>3, <2>1, SETFinalEffect
<1>4. ASSUME NEW v \in Writers, pc[v] = "finalize", SETFinal(ev[v], sid[v])
      PROVE  index[e] # Absent => index'[e] # Absent
  <2>1. Names(sid[v], ev[v])
    BY <1>4 DEF IdsNameEntries
  <2> QED
    BY <1>1, <1>3, <1>4, <2>1
<1>5. ASSUME NEW v \in Writers, CheckAbsent(v) \/ ClaimXAdd(v) PROVE Goal
  BY <1>1, <1>5 DEF CheckAbsent, ClaimXAdd, Goto
<1>6. ASSUME NEW v \in Writers, NEW f \in Events, StartAppend(v, f) PROVE Goal
  BY <1>1, <1>6 DEF StartAppend
<1>7. ASSUME NEW v \in Writers, CheckConflict(v) \/ CheckFinal(v) PROVE Goal
  BY <1>1, <1>7 DEF CheckConflict, CheckFinal, Return
<1>8. ASSUME NEW v \in Writers, ClaimPlaceholder(v) PROVE Goal
  BY <1>1, <1>2, <1>8 DEF ClaimPlaceholder, Goto
<1>9. ASSUME NEW v \in Writers, Finalize(v) PROVE Goal
  BY <1>1, <1>4, <1>9 DEF Finalize, Return
<1>10. ASSUME NEW v \in Writers, Abandoned(v), ev' = ev,
              \A u \in Writers \ {v} : pc'[u] = pc[u]
       PROVE  Goal
  <2>1. CASE Dropped(v)
    BY <1>1, <1>10, <2>1 DEF Dropped
  <2>2. CASE Served(v)
    BY <1>1, <1>2, <1>4, <1>10, <2>2 DEF Served
  <2>3. CASE Delayed(v)
    BY <1>1, <1>10, <2>3 DEF Delayed
  <2> QED
    BY <1>10, <2>1, <2>2, <2>3 DEF Abandoned
<1>11. ASSUME NEW v \in Writers, AttemptTimesOut(v) \/ AttemptAborts(v) PROVE Goal
  <2>1. Abandoned(v) /\ ev' = ev /\ \A u \in Writers \ {v} : pc'[u] = pc[u]
    BY <1>1, <1>11 DEF AttemptTimesOut, AttemptAborts, Return
  <2> QED
    BY <1>10, <2>1
<1>12. ASSUME NEW c \in late, ServeLate(c) PROVE Goal
  <2>1. /\ c.ev \in Events /\ c.sid \in Nat
        /\ c.cmd \in {"claim", "placeholder", "final"}
    BY DEF TypeOK, Late
  <2>2. pc' = pc /\ ev' = ev
    BY <1>12 DEF ServeLate
  <2>3. index[e] # Absent => index'[e] # Absent
    <3>1. CASE c.cmd = "claim"
      BY <1>12, <3>1 DEF ServeLate
    <3>2. CASE c.cmd = "placeholder"
      <4>1. SETNX(c.ev)
        BY <1>12, <3>2 DEF ServeLate
      <4> QED
        BY <1>2, <2>1, <4>1
    <3>3. CASE c.cmd = "final"
      <4>1. SETFinal(c.ev, c.sid) /\ Names(c.sid, c.ev)
        BY <1>12, <3>3 DEF ServeLate, IdsNameEntries
      <4> QED
        BY <1>3, <2>1, <4>1
    <3> QED
      BY <2>1, <3>1, <3>2, <3>3
  <2> QED
    BY <2>2, <2>3
<1>13. ASSUME NEW f \in Events, PlaceholderExpires(f) \/ FinalIdExpires(f) PROVE Goal
  <2>1. f # e /\ index' = [index EXCEPT ![f] = Absent] /\ pc' = pc /\ ev' = ev
    BY <1>1, <1>13 DEF PlaceholderExpires, FinalIdExpires
  <2> QED
    BY <1>1, <2>1
<1>14. CASE UNCHANGED vars
  BY <1>14 DEF vars
<1> QED
  BY <1>5, <1>6, <1>7, <1>8, <1>9, <1>11, <1>12, <1>13, <1>14 DEF Next, ClaimEventIdSlot

\* How a step can add to the stream: the writer that has found the index key absent,
\* with or without seeing the reply, or a claim served late.
LEMMA WhoAdds ==
    ASSUME TypeOK, [Next]_vars
    PROVE  \/ stream' = stream
           \/ \E w \in Writers :
                 /\ pc[w] = "xadd" /\ ev[w] \in Events
                 /\ XADD(ev[w], w)
                 /\ index'[ev[w]] # Absent \/ (pc'[w] = "setnx" /\ ev'[w] = ev[w])
                 /\ pc'[w] # "xadd"
                 /\ \A v \in Writers \ {w} : pc'[v] = pc[v] /\ ev'[v] = ev[v]
           \/ \E c \in late :
                 /\ c.cmd = "claim" /\ c.ev \in Events /\ c.by \in Writers
                 /\ XADD(c.ev, c.by)
                 /\ pc' = pc /\ ev' = ev
<1>1. /\ \A w \in Writers : ev[w] \in Events
      /\ pc \in [Writers -> Phase] /\ ev \in [Writers -> Events]
  BY DEF TypeOK
<1>2. ASSUME NEW w \in Writers, ClaimXAdd(w)
      PROVE  /\ pc[w] = "xadd" /\ ev[w] \in Events
             /\ XADD(ev[w], w)
             /\ pc'[w] = "setnx" /\ ev'[w] = ev[w]
             /\ \A v \in Writers \ {w} : pc'[v] = pc[v] /\ ev'[v] = ev[v]
  BY <1>1, <1>2 DEF ClaimXAdd, Goto
<1>3. ASSUME NEW w \in Writers, AttemptTimesOut(w) \/ AttemptAborts(w), stream' # stream
      PROVE  /\ pc[w] = "xadd" /\ ev[w] \in Events
             /\ XADD(ev[w], w)
             /\ index'[ev[w]] # Absent
             /\ pc'[w] # "xadd"
             /\ \A v \in Writers \ {w} : pc'[v] = pc[v] /\ ev'[v] = ev[v]
  <2>1. Abandoned(w)
    BY <1>3 DEF AttemptTimesOut, AttemptAborts
  <2>2. pc[w] = "xadd" /\ XADD(ev[w], w) /\ SETNX(ev[w])
    BY <1>3, <2>1 DEF Abandoned, Dropped, Served, Delayed
  <2>3. index'[ev[w]] # Absent
    BY <1>1, <2>2, SETNXEffect
  <2>4. pc'[w] # "xadd" /\ \A v \in Writers \ {w} : pc'[v] = pc[v] /\ ev'[v] = ev[v]
    BY <1>1, <1>3 DEF AttemptTimesOut, AttemptAborts, Return
  <2> QED
    BY <1>1, <2>2, <2>3, <2>4
<1>4. ASSUME NEW c \in late, ServeLate(c), stream' # stream
      PROVE  /\ c.cmd = "claim" /\ c.ev \in Events /\ c.by \in Writers
             /\ XADD(c.ev, c.by)
             /\ pc' = pc /\ ev' = ev
  <2>1. c.ev \in Events /\ c.by \in Writers /\ c.cmd \in {"claim", "placeholder", "final"}
    BY DEF TypeOK, Late
  <2>2. c.cmd = "claim"
    BY <1>4, <2>1 DEF ServeLate
  <2> QED
    BY <1>4, <2>1, <2>2 DEF ServeLate
<1>5. SUFFICES ASSUME stream' # stream
               PROVE  \/ \E w \in Writers : ClaimXAdd(w)
                      \/ \E w \in Writers : AttemptTimesOut(w) \/ AttemptAborts(w)
                      \/ \E c \in late : ServeLate(c)
  BY <1>2, <1>3, <1>4
<1> QED
  BY <1>5 DEF Next, vars, ClaimEventIdSlot, StartAppend, CheckAbsent, CheckConflict,
              CheckFinal, ClaimPlaceholder, Finalize, PlaceholderExpires, FinalIdExpires

\* A step that leads a writer to its XADD is a Phase 1 that found the key absent.
LEMMA WhoIsAboutToAdd ==
    ASSUME TypeOK, [Next]_vars, NEW w \in Writers, pc'[w] = "xadd"
    PROVE  /\ ev'[w] = ev[w]
           /\ pc[w] = "xadd" \/ (pc[w] = "check" /\ index[ev[w]] = Absent /\ stream' = stream)
<1>1. pc \in [Writers -> Phase] /\ ev \in [Writers -> Events]
  BY DEF TypeOK
<1>2. CASE \E v \in Writers : CheckAbsent(v)
  BY <1>1, <1>2 DEF CheckAbsent, Goto
<1>3. CASE \E v \in Writers, e \in Events : StartAppend(v, e)
  BY <1>1, <1>3 DEF StartAppend
<1>4. CASE \E v \in Writers : CheckConflict(v) \/ CheckFinal(v) \/ Finalize(v)
  BY <1>1, <1>4 DEF CheckConflict, CheckFinal, Finalize, Return
<1>5. CASE \E v \in Writers : ClaimXAdd(v) \/ ClaimPlaceholder(v)
  BY <1>1, <1>5 DEF ClaimXAdd, ClaimPlaceholder, Goto
<1>6. CASE \E v \in Writers : AttemptTimesOut(v) \/ AttemptAborts(v)
  BY <1>1, <1>6 DEF AttemptTimesOut, AttemptAborts, Return
<1>7. CASE pc' = pc /\ ev' = ev
  BY <1>7
<1> QED
  BY <1>2, <1>3, <1>4, <1>5, <1>6, <1>7
     DEF Next, vars, ClaimEventIdSlot, ServeLate, PlaceholderExpires, FinalIdExpires

-----------------------------------------------------------------------------
\* The covering of entries by the index, and with it one entry per caller.
LEMMA EntriesAreCoveredStep ==
    TypeOK /\ LogInv /\ [Next]_vars => EntriesAreCovered' /\ OneEntryPerCaller'
<1> DEFINE MildEvent(e) == Faults[e] \subseteq MildFaults
           Covered(i) == \/ index'[stream'[i].ev] # Absent
                         \/ pc'[stream'[i].by] = "setnx" /\ ev'[stream'[i].by] = stream'[i].ev
<1> SUFFICES ASSUME TypeOK, LogInv, [Next]_vars
             PROVE  /\ \A i \in DOMAIN stream' : MildEvent(stream'[i].ev) => Covered(i)
                    /\ \A w \in Writers, i \in DOMAIN stream' :
                          pc'[w] = "xadd" /\ MildEvent(ev'[w])
                          => stream'[i] # [ev |-> ev'[w], by |-> w]
                    /\ \A i, j \in DOMAIN stream' :
                          stream'[i] = stream'[j] /\ MildEvent(stream'[i].ev) => i = j
  BY DEF EntriesAreCovered, OneEntryPerCaller
<1>1. /\ \A w \in Writers : ev[w] \in Events
      /\ \A i \in DOMAIN stream : stream[i].ev \in Events /\ stream[i].by \in Writers
  <2>1. \A i \in DOMAIN stream : stream[i] \in Entry
    BY DEF TypeOK
  <2> QED
    BY <2>1 DEF TypeOK, Entry
<1>2. \A e : MildEvent(e) => "late" \notin Faults[e]
  BY DEF MildFaults
<1>3. ASSUME NEW i \in DOMAIN stream, stream'[i] = stream[i], MildEvent(stream[i].ev)
      PROVE  Covered(i)
  <2>1. \/ index[stream[i].ev] # Absent
        \/ (pc[stream[i].by] = "setnx" /\ ev[stream[i].by] = stream[i].ev)
    BY <1>3 DEF LogInv, EntriesAreCovered
  <2> QED
    BY <1>1, <1>3, <2>1, CoverStays DEF LogInv
<1>4. ASSUME NEW w \in Writers, NEW i \in DOMAIN stream, stream'[i] = stream[i],
             pc'[w] = "xadd", MildEvent(ev'[w])
      PROVE  stream[i] # [ev |-> ev'[w], by |-> w]
  <2>1. ev'[w] = ev[w]
    BY <1>4, WhoIsAboutToAdd
  <2>2. CASE pc[w] = "xadd"
    BY <1>4, <2>1, <2>2 DEF LogInv, EntriesAreCovered
  <2>3. CASE pc[w] = "check" /\ index[ev[w]] = Absent
    BY <1>4, <2>1, <2>3 DEF LogInv, EntriesAreCovered
  <2> QED
    BY <1>4, <2>2, <2>3, WhoIsAboutToAdd
<1>5. CASE stream' = stream
  BY <1>3, <1>4, <1>5 DEF LogInv, OneEntryPerCaller
<1>6. CASE \E w \in Writers :
              /\ pc[w] = "xadd" /\ ev[w] \in Events
              /\ XADD(ev[w], w)
              /\ index'[ev[w]] # Absent \/ (pc'[w] = "setnx" /\ ev'[w] = ev[w])
              /\ pc'[w] # "xadd"
              /\ \A v \in Writers \ {w} : pc'[v] = pc[v] /\ ev'[v] = ev[v]
  <2>1. PICK w \in Writers :
              /\ pc[w] = "xadd" /\ ev[w] \in Events
              /\ XADD(ev[w], w)
              /\ index'[ev[w]] # Absent \/ (pc'[w] = "setnx" /\ ev'[w] = ev[w])
              /\ pc'[w] # "xadd"
              /\ \A v \in Writers \ {w} : pc'[v] = pc[v] /\ ev'[v] = ev[v]
    BY <1>6
  <2>2. /\ DOMAIN stream' = DOMAIN stream \cup {Len(stream) + 1}
        /\ stream'[Len(stream) + 1] = [ev |-> ev[w], by |-> w]
        /\ \A i \in DOMAIN stream : stream'[i] = stream[i]
    BY <2>1, XADDEffect
  <2>3. Covered(Len(stream) + 1)
    BY <2>1, <2>2
  <2>4. \A v \in Writers : pc'[v] = "xadd" => [ev |-> ev[w], by |-> w] # [ev |-> ev'[v], by |-> v]
    BY <2>1
  <2>5. MildEvent(ev[w]) => \A i \in DOMAIN stream : stream[i] # [ev |-> ev[w], by |-> w]
    BY <2>1 DEF LogInv, EntriesAreCovered
  <2>6. \A i, j \in DOMAIN stream' :
           stream'[i] = stream'[j] /\ MildEvent(stream'[i].ev) => i = j
    BY <2>2, <2>5 DEF LogInv, OneEntryPerCaller
  <2> QED
    BY <1>3, <1>4, <2>2, <2>3, <2>4, <2>6
<1>7. CASE \E c \in late :
              /\ c.cmd = "claim" /\ c.ev \in Events /\ c.by \in Writers
              /\ XADD(c.ev, c.by)
              /\ pc' = pc /\ ev' = ev
  <2>1. PICK c \in late : c.ev \in Events /\ c.by \in Writers /\ XADD(c.ev, c.by)
    BY <1>7
  <2>2. /\ DOMAIN stream' = DOMAIN stream \cup {Len(stream) + 1}
        /\ stream'[Len(stream) + 1] = [ev |-> c.ev, by |-> c.by]
        /\ \A i \in DOMAIN stream : stream'[i] = stream[i]
    BY <2>1, XADDEffect
  <2>3. ~MildEvent(c.ev)
    BY <1>2 DEF LogInv, CallersOnly
  <2>4. \A i, j \in DOMAIN stream' :
           stream'[i] = stream'[j] /\ MildEvent(stream'[i].ev) => i = j
    BY <2>2, <2>3 DEF LogInv, OneEntryPerCaller
  <2> QED
    BY <1>3, <1>4, <2>2, <2>3, <2>4
<1> QED
  BY <1>5, <1>6, <1>7, WhoAdds

\* Races, timeouts, deaths and repeated calls add no event twice on behalf of one caller.
THEOREM LogInvariant == Spec => []LogInv
<1>1. Init => LogInv
  BY DEF Init, LogInv, IdsNameEntries, AnswersAreSound, CallersOnly, EntriesAreCovered,
         OneEntryPerCaller, Absent
<1>2. TypeOK /\ LogInv /\ [Next]_vars => LogInv'
  BY IdsNameEntriesStep, CallersOnlyStep, EntriesAreCoveredStep DEF LogInv
<1> QED
  BY <1>1, <1>2, TypeCorrect, PTL DEF Spec

\* Duplicates of an event with mild faults come only from different callers.
THEOREM DuplicatesNeedTwoCallers == Spec => []OneEntryPerCaller
<1>1. LogInv => OneEntryPerCaller
  BY DEF LogInv
<1> QED
  BY <1>1, LogInvariant, PTL

-----------------------------------------------------------------------------
\* With one caller per event id and mild faults, the log does what the docstring of
\* append promises: an event id is added at most once, and every Ok is its position.
THEOREM ImplementsPromise ==
    ASSUME Exclusive
    PROVE  Spec => PromiseSpec
<1> DEFINE Log == [i \in DOMAIN stream |-> stream[i].ev]
<1>1. Init => Promise!Init
  BY DEF Init, Promise!Init
<1>2. TypeOK /\ TypeOK' /\ LogInv /\ LogInv' /\ [Next]_vars
      => [Promise!Next]_<<Log, answers>>
  <2> SUFFICES ASSUME TypeOK, TypeOK', LogInv, LogInv', [Next]_vars
               PROVE  \/ UNCHANGED <<stream, answers>>
                      \/ \E e \in Events : Promise!Commit(e) \/ Promise!Answer(e)
    BY DEF Promise!Next
  <2>1. ASSUME NEW w \in Writers, pc[w] = "xadd", ev[w] \in Events, XADD(ev[w], w),
               answers' = answers
        PROVE  Promise!Commit(ev[w])
    <3>1. \A i \in DOMAIN stream : stream[i].ev # ev[w]
      <4> SUFFICES ASSUME NEW i \in DOMAIN stream, stream[i].ev = ev[w] PROVE FALSE
        OBVIOUS
      <4>1. stream[i] \in Entry
        BY DEF TypeOK
      <4>2. stream[i].by \in Callers[ev[w]] /\ w \in Callers[ev[w]]
        BY <2>1 DEF LogInv, CallersOnly
      <4>3. stream[i].by = w /\ Faults[ev[w]] \subseteq MildFaults
        BY <2>1, <4>2 DEF Exclusive
      <4>4. stream[i] = [ev |-> ev[w], by |-> w]
        BY <4>1, <4>3 DEF Entry
      <4> QED
        BY <2>1, <4>3, <4>4 DEF LogInv, EntriesAreCovered
    <3>2. Log' = Append(Log, ev[w])
      <4>1. stream \in Seq(Entry) /\ stream' = Append(stream, [ev |-> ev[w], by |-> w])
        BY <2>1 DEF TypeOK, XADD
      <4>2. Log \in Seq(Events) /\ Len(Log) = Len(stream)
        <5>1. Len(stream) \in Nat /\ DOMAIN stream = 1 .. Len(stream)
          BY <4>1
        <5>2. \A i \in 1 .. Len(stream) : stream[i].ev \in Events
          <6>1. \A i \in 1 .. Len(stream) : stream[i] \in Entry
            BY <4>1, <5>1
          <6> QED
            BY <6>1 DEF Entry
        <5>3. Log \in [1 .. Len(stream) -> Events]
          BY <5>1, <5>2
        <5> QED
          BY <5>1, <5>3
      <4>3. /\ DOMAIN stream' = 1 .. Len(stream) + 1
            /\ \A i \in 1 .. Len(stream) : stream'[i] = stream[i]
            /\ stream'[Len(stream) + 1] = [ev |-> ev[w], by |-> w]
        BY <4>1
      <4>4. /\ DOMAIN Append(Log, ev[w]) = 1 .. Len(stream) + 1
            /\ \A i \in 1 .. Len(stream) : Append(Log, ev[w])[i] = stream[i].ev
            /\ Append(Log, ev[w])[Len(stream) + 1] = ev[w]
        BY <2>1, <4>1, <4>2
      <4>5. Append(Log, ev[w]) = [i \in 1 .. Len(stream) + 1 |-> Append(Log, ev[w])[i]]
        BY <2>1, <4>2, <4>4
      <4> QED
        BY <4>1, <4>3, <4>4, <4>5
    <3> QED
      BY <2>1, <3>1, <3>2 DEF Promise!Commit
  <2>2. ASSUME NEW e \in Events, NEW id, id \in DOMAIN stream, stream[id].ev = e,
               answers' = [answers EXCEPT ![e] = @ \cup {id}], stream' = stream
        PROVE  Promise!Answer(e)
    BY <2>2 DEF Promise!Answer
  <2>3. ASSUME NEW w \in Writers, CheckFinal(w) PROVE Promise!Answer(ev[w])
    <3>1. ev[w] \in Events /\ index[ev[w]] > 0
      BY <2>3 DEF TypeOK, CheckFinal, Absent, PLACEHOLDER
    <3>2. Names(index[ev[w]], ev[w])
      BY <3>1 DEF LogInv, IdsNameEntries
    <3> QED
      BY <2>2, <2>3, <3>1, <3>2 DEF CheckFinal, AnswerOk, Names
  <2>4. ASSUME NEW w \in Writers, Finalize(w) PROVE Promise!Answer(ev[w])
    <3>1. ev[w] \in Events
      BY DEF TypeOK
    <3>2. Names(sid[w], ev[w])
      BY <2>4 DEF Finalize, LogInv, IdsNameEntries
    <3> QED
      BY <2>2, <2>4, <3>1, <3>2 DEF Finalize, AnswerOk, Names
  <2>5. ASSUME answers' = answers PROVE stream' = stream \/ \E e \in Events : Promise!Commit(e)
    <3>1. \A c \in late : FALSE
      <4> SUFFICES ASSUME NEW c \in late PROVE FALSE
        OBVIOUS
      <4>1. c.ev \in Events /\ "late" \in Faults[c.ev]
        BY DEF LogInv, CallersOnly, TypeOK, Late
      <4> QED
        BY <4>1 DEF Exclusive, MildFaults
    <3>2. CASE \E w \in Writers : pc[w] = "xadd" /\ ev[w] \in Events /\ XADD(ev[w], w)
      <4>1. PICK w \in Writers : pc[w] = "xadd" /\ ev[w] \in Events /\ XADD(ev[w], w)
        BY <3>2
      <4>2. Promise!Commit(ev[w])
        BY <2>1, <2>5, <4>1
      <4> QED
        BY <4>1, <4>2 DEF Promise!Commit
    <3> QED
      BY <3>1, <3>2, WhoAdds
  <2>6. answers' = answers \/ \E w \in Writers : CheckFinal(w) \/ Finalize(w)
    BY DEF Next, vars, ClaimEventIdSlot, StartAppend, CheckAbsent, CheckConflict,
           ClaimXAdd, ClaimPlaceholder, AttemptTimesOut, AttemptAborts, ServeLate,
           PlaceholderExpires, FinalIdExpires
  <2>7. \A w \in Writers : ev[w] \in Events
    BY DEF TypeOK
  <2> QED
    BY <2>3, <2>4, <2>5, <2>6, <2>7
<1> QED
  BY <1>1, <1>2, TypeCorrect, LogInvariant, PTL DEF Spec, PromiseSpec, Promise!Spec
=============================================================================
