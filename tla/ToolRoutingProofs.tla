------------------------- MODULE ToolRoutingProofs -------------------------
(***************************************************************************)
(* Proofs about ToolRouting, for any requests, routers and numbers of      *)
(* faults and routes.                                                      *)
(***************************************************************************)
EXTENDS ToolRouting, TLAPS

\* The request of a router that is under way.
LEMMA Under ==
    ASSUME TypeOK, NEW w \in Routers, router[w] # NoRoute
    PROVE  /\ router[w] \in Phase
           /\ router[w].request \in Requests
BY DEF TypeOK, Phase

\* A router at a phase is under way.
LEMMA AtPhase ==
    ASSUME NEW w \in Routers, NEW phase, At(w, phase), phase # "idle"
    PROVE  router[w] # NoRoute
BY DEF At, NoRoute

\* Moving or ending a route keeps the routers typed.
LEMMA RouterTyped ==
    ASSUME TypeOK, NEW w \in Routers, router[w] # NoRoute,
           \/ Ends(w)
           \/ \E phase \in {"check", "claim", "finalize", "bare"} : Goes(w, phase)
    PROVE  router' \in [Routers -> Phase \cup {NoRoute}]
<1>1. CASE Ends(w)
  BY <1>1 DEF Ends, TypeOK
<1>2. CASE \E phase \in {"check", "claim", "finalize", "bare"} : Goes(w, phase)
  <2>1. PICK phase \in {"check", "claim", "finalize", "bare"} :
            router' = [router EXCEPT ![w].at = phase]
    BY <1>2 DEF Goes
  <2>2. [router[w] EXCEPT !.at = phase] \in Phase
    BY Under, <2>1 DEF Phase
  <2> QED
    BY <2>1, <2>2 DEF TypeOK
<1> QED
  BY <1>1, <1>2

\* A served command keeps queue and index typed.
LEMMA CommandsTyped ==
    ASSUME TypeOK, NEW w \in Routers, router[w] # NoRoute
    PROVE  /\ XAdd(w) => queue' \in Seq(Message)
           /\ SetNX(w) => index' \in [Requests -> {"absent", "placeholder", "final"}]
           /\ SetFinal(w) => index' \in [Requests -> {"absent", "placeholder", "final"}]
<1>1. router[w].request \in Requests
  BY Under
<1>2. [request |-> router[w].request, by |-> w] \in Message
  BY <1>1 DEF Message
<1>3. XAdd(w) => queue' \in Seq(Message)
  BY <1>2 DEF XAdd, TypeOK
<1>4. SetNX(w) => index' \in [Requests -> {"absent", "placeholder", "final"}]
  BY <1>1 DEF SetNX, TypeOK
<1>5. SetFinal(w) => index' \in [Requests -> {"absent", "placeholder", "final"}]
  BY <1>1 DEF SetFinal, TypeOK
<1> QED
  BY <1>3, <1>4, <1>5

\* A fault is counted.
LEMMA FaultTyped ==
    ASSUME TypeOK, NEW kind, Fault(kind)
    PROVE  faults' \in [Faults -> 0 .. MaxFaults] /\ ~Never(kind)'
<1>1. kind \in Faults /\ faults[kind] \in 0 .. MaxFaults /\ faults[kind] < MaxFaults
  BY DEF Fault, TypeOK
<1>2. MaxFaults \in Nat
  BY RoutingAssumption
<1>3. faults[kind] + 1 \in 0 .. MaxFaults /\ faults[kind] + 1 # 0
  BY <1>1, <1>2
<1> QED
  BY <1>1, <1>3 DEF Fault, TypeOK, Never

\* The interrupted commands keep queue and index typed.
LEMMA InterruptedTyped ==
    ASSUME TypeOK, NEW w \in Routers, router[w] # NoRoute,
           UNCHANGED <<queue, index>> \/ Served(w) \/ Cut(w)
    PROVE  /\ queue' \in Seq(Message)
           /\ index' \in [Requests -> {"absent", "placeholder", "final"}]
BY CommandsTyped DEF Served, Cut, TypeOK

\* The type invariant, initially and in every step.
LEMMA TypeInit == Init => TypeOK
BY RoutingAssumption DEF Init, TypeOK, Phase, Message

LEMMA TypeStep == TypeOK /\ [Next]_vars => TypeOK'
<1> SUFFICES ASSUME TypeOK, [Next]_vars PROVE TypeOK'
  OBVIOUS
<1>1. ASSUME NEW w \in Routers, NEW r \in Requests, Route(w, r) PROVE TypeOK'
  <2>1. routes[r] + 1 \in 0 .. MaxRoutes
    BY <1>1, RoutingAssumption DEF Route, TypeOK
  <2>2. routes' \in [Requests -> 0 .. MaxRoutes]
    BY <1>1, <2>1 DEF Route, TypeOK
  <2>3. [at |-> IF Dedup THEN "check" ELSE "bare", request |-> r] \in Phase
    BY DEF Phase
  <2>4. router' \in [Routers -> Phase \cup {NoRoute}]
    BY <1>1, <2>3 DEF Route, TypeOK
  <2> QED
    BY <1>1, <2>2, <2>4 DEF Route, TypeOK
<1>2. ASSUME NEW w \in Routers, Check(w) PROVE TypeOK'
  <2>1. router[w] # NoRoute
    BY <1>2, AtPhase DEF Check
  <2>2. Ends(w) \/ Goes(w, "claim")
    BY <1>2 DEF Check
  <2>3. router' \in [Routers -> Phase \cup {NoRoute}]
    BY <2>1, <2>2, RouterTyped
  <2> QED
    BY <1>2, <2>3 DEF Check, TypeOK
<1>3. ASSUME NEW w \in Routers, Claim(w) PROVE TypeOK'
  <2>1. router[w] # NoRoute
    BY <1>3, AtPhase DEF Claim
  <2>2. router' \in [Routers -> Phase \cup {NoRoute}]
    BY <1>3, <2>1, RouterTyped DEF Claim
  <2> QED
    BY <1>3, <2>1, <2>2, CommandsTyped DEF Claim, TypeOK
<1>4. ASSUME NEW w \in Routers, Finalize(w) PROVE TypeOK'
  <2>1. router[w] # NoRoute
    BY <1>4, AtPhase DEF Finalize
  <2>2. router' \in [Routers -> Phase \cup {NoRoute}]
    BY <1>4, <2>1, RouterTyped DEF Finalize
  <2> QED
    BY <1>4, <2>1, <2>2, CommandsTyped DEF Finalize, TypeOK
<1>5. ASSUME NEW w \in Routers, Bare(w) PROVE TypeOK'
  <2>1. router[w] # NoRoute
    BY <1>5, AtPhase DEF Bare
  <2>2. router' \in [Routers -> Phase \cup {NoRoute}]
    BY <1>5, <2>1, RouterTyped DEF Bare
  <2> QED
    BY <1>5, <2>1, <2>2, CommandsTyped DEF Bare, TypeOK
<1>6. ASSUME NEW w \in Routers, TransportError(w) PROVE TypeOK'
  <2>1. router[w] # NoRoute
    BY <1>6 DEF TransportError
  <2>2. Ends(w) \/ Goes(w, "bare")
    BY <1>6 DEF TransportError
  <2>3. router' \in [Routers -> Phase \cup {NoRoute}]
    BY <2>1, <2>2, RouterTyped
  <2>4. faults' \in [Faults -> 0 .. MaxFaults]
    BY <1>6, FaultTyped DEF TransportError
  <2>5. /\ queue' \in Seq(Message)
        /\ index' \in [Requests -> {"absent", "placeholder", "final"}]
    BY <1>6, <2>1, InterruptedTyped DEF TransportError
  <2> QED
    BY <1>6, <2>3, <2>4, <2>5 DEF TransportError, TypeOK
<1>7. ASSUME NEW w \in Routers, Crash(w) PROVE TypeOK'
  <2>1. router[w] # NoRoute
    BY <1>7 DEF Crash
  <2>2. router' \in [Routers -> Phase \cup {NoRoute}]
    BY <1>7, <2>1, RouterTyped DEF Crash
  <2>3. faults' \in [Faults -> 0 .. MaxFaults]
    BY <1>7, FaultTyped DEF Crash
  <2>4. /\ queue' \in Seq(Message)
        /\ index' \in [Requests -> {"absent", "placeholder", "final"}]
    BY <1>7, <2>1, InterruptedTyped DEF Crash
  <2> QED
    BY <1>7, <2>2, <2>3, <2>4 DEF Crash, TypeOK
<1>8. ASSUME NEW r \in Requests, Expire(r) PROVE TypeOK'
  <2>1. faults' \in [Faults -> 0 .. MaxFaults]
    BY <1>8, FaultTyped DEF Expire
  <2> QED
    BY <1>8, <2>1 DEF Expire, TypeOK
<1>9. CASE UNCHANGED vars
  BY <1>9 DEF vars, TypeOK
<1> QED
  BY <1>1, <1>2, <1>3, <1>4, <1>5, <1>6, <1>7, <1>8, <1>9 DEF Next, Step

\* Queue, index, routes and fault counts keep their types.
THEOREM RoutingTypeCorrect == Spec => []TypeOK
BY TypeInit, TypeStep, PTL DEF Spec

-----------------------------------------------------------------------------
\* The runs that QueuedOncePerRouter is about.
Clean == Dedup /\ Never("transport") /\ Never("ttl") /\ (cluster => Never("crash"))

Own(w, r) == [request |-> r, by |-> w]
Unique == \A m, n \in Messages : queue[m] = queue[n] => m = n

\* Its inductive form: a claim is made for a request that the router has not queued, and a
\* request without index entry is not in the queue at all.
ClaimInv ==
    Clean =>
        /\ Unique
        /\ \A w \in Routers : At(w, "claim") =>
               \A m \in Messages : queue[m] # Own(w, router[w].request)
        /\ \A r \in Requests : Queued(r) => index[r] # "absent"
        /\ \A w \in Routers : ~At(w, "bare")

\* What a fault leaves of Clean.
LEMMA CleanBefore ==
    ASSUME TypeOK, [Next]_vars, Clean'
    PROVE  /\ Clean
           /\ \A w \in Routers : ~TransportError(w)
           /\ \A r \in Requests : ~Expire(r)
           /\ cluster => \A w \in Routers : ~Crash(w)
<1>1. cluster' = cluster
  BY DEF Next, Step, Route, Check, Claim, Finalize, Bare, TransportError, Crash, Expire, vars
<1>2. \A w \in Routers : ~TransportError(w)
  BY FaultTyped DEF TransportError, Clean
<1>3. \A r \in Requests : ~Expire(r)
  BY FaultTyped DEF Expire, Clean
<1>4. cluster => \A w \in Routers : ~Crash(w)
  BY <1>1, FaultTyped DEF Crash, Clean
<1>5. ASSUME NEW kind, NEW w \in Routers, Crash(w), Never(kind)' PROVE Never(kind)
  <2>1. Fault("crash")
    BY <1>5 DEF Crash
  <2>2. kind # "crash"
    BY <1>5, <2>1, FaultTyped
  <2> QED
    BY <1>5, <2>1, <2>2 DEF Fault, Never, TypeOK
<1>6. ASSUME faults' = faults PROVE Clean
  BY <1>1, <1>6 DEF Clean, Never
<1>7. faults' = faults \/ \E w \in Routers : Crash(w)
  BY <1>2, <1>3 DEF Next, Step, Route, Check, Claim, Finalize, Bare, vars
<1>8. Clean
  BY <1>1, <1>4, <1>5, <1>6, <1>7 DEF Clean
<1> QED
  BY <1>2, <1>3, <1>4, <1>8

\* A claim that is served keeps the inductive invariant, whether the router goes on or dies.
LEMMA ClaimServed ==
    ASSUME TypeOK, ClaimInv, Clean, NEW w \in Routers, At(w, "claim"), XAdd(w), SetNX(w),
           Ends(w) \/ Goes(w, "finalize")
    PROVE  ClaimInv'
<1> DEFINE r == router[w].request
<1>1. r \in Requests /\ router[w] \in Phase
  BY AtPhase, Under
<1>2. queue \in Seq(Message) /\ Own(w, r) \in Message
  BY <1>1 DEF TypeOK, Own, Message
<1>3. queue' = Append(queue, Own(w, r))
  BY DEF XAdd, Own
<1>4. /\ Len(queue') = Len(queue) + 1
      /\ queue'[Len(queue) + 1] = Own(w, r)
      /\ \A m \in Messages : queue'[m] = queue[m]
      /\ Len(queue) \in Nat
  BY <1>2, <1>3 DEF Messages
<1>5. \A m \in Messages' : m \in Messages \/ m = Len(queue) + 1
  BY <1>4 DEF Messages
<1>6. \A m \in Messages : queue[m] # Own(w, r)
  BY DEF ClaimInv
<1>7. Unique'
  BY <1>4, <1>5, <1>6 DEF Unique, ClaimInv
<1>8. \A v \in Routers \ {w} : router'[v] = router[v]
  BY DEF Ends, Goes, TypeOK
<1>9. router'[w].at \in {"idle", "finalize"}
  BY <1>1 DEF Ends, Goes, TypeOK, NoRoute, Phase
<1>10. ASSUME NEW v \in Routers, At(v, "claim")', NEW m \in Messages'
       PROVE  queue'[m] # Own(v, router'[v].request)
  <2>1. v # w /\ router'[v] = router[v]
    BY <1>8, <1>9, <1>10 DEF At
  <2>2. Own(v, router[v].request) # Own(w, r)
    BY <2>1 DEF Own
  <2>3. At(v, "claim")
    BY <1>10, <2>1 DEF At
  <2> QED
    BY <1>4, <1>5, <2>1, <2>2, <2>3 DEF ClaimInv
<1>11. ASSUME NEW q \in Requests, Queued(q)' PROVE index'[q] # "absent"
  <2>1. PICK m \in Messages' : queue'[m].request = q
    BY <1>11 DEF Queued
  <2>2. CASE m \in Messages
    <3>1. Queued(q)
      BY <1>4, <2>1, <2>2 DEF Queued
    <3> QED
      BY <3>1 DEF ClaimInv, SetNX, TypeOK
  <2>3. CASE m = Len(queue) + 1
    <3>1. q = r
      BY <1>4, <2>1, <2>3 DEF Own
    <3> QED
      BY <3>1 DEF SetNX, TypeOK
  <2> QED
    BY <1>5, <2>1, <2>2, <2>3
<1>12. \A v \in Routers : ~At(v, "bare")'
  BY <1>8, <1>9 DEF At, ClaimInv
<1> QED
  BY <1>7, <1>10, <1>11, <1>12 DEF ClaimInv

\* A step that leaves the queue alone and no index entry out keeps it when no router comes
\* to a claim or a bare XADD by it.
LEMMA QueueKept ==
    ASSUME ClaimInv, Clean, queue' = queue,
           \A r \in Requests : index[r] # "absent" => index'[r] # "absent",
           \A w \in Routers : \/ router'[w] = router[w]
                              \/ router'[w].at \notin {"claim", "bare"}
    PROVE  ClaimInv'
<1>1. Unique'
  BY DEF ClaimInv, Unique, Messages
<1>2. \A w \in Routers : At(w, "claim")' =>
          \A m \in Messages' : queue'[m] # Own(w, router'[w].request)
  BY DEF ClaimInv, At, Messages, Own
<1>3. \A r \in Requests : Queued(r)' => index'[r] # "absent"
  BY DEF ClaimInv, Queued, Messages
<1>4. \A w \in Routers : ~At(w, "bare")'
  BY DEF ClaimInv, At
<1> QED
  BY <1>1, <1>2, <1>3, <1>4 DEF ClaimInv

LEMMA ClaimInit == Init => ClaimInv
BY DEF Init, ClaimInv, Unique, Messages, At, Queued, NoRoute

LEMMA ClaimStep == TypeOK /\ ClaimInv /\ [Next]_vars => ClaimInv'
<1> SUFFICES ASSUME TypeOK, ClaimInv, [Next]_vars, Clean' PROVE ClaimInv'
  BY DEF ClaimInv
<1>0. Clean
  BY CleanBefore
<1>1. ASSUME NEW w \in Routers, NEW r \in Requests, Route(w, r) PROVE ClaimInv'
  <2>1. \A v \in Routers : router'[v] = router[v] \/ router'[v].at = "check"
    BY <1>0, <1>1 DEF Route, TypeOK, Clean
  <2> QED
    BY <1>0, <1>1, <2>1, QueueKept DEF Route
<1>2. ASSUME NEW w \in Routers, Check(w) PROVE ClaimInv'
  <2> DEFINE r == router[w].request
  <2>1. r \in Requests /\ router[w] \in Phase
    BY <1>2, AtPhase, Under DEF Check
  <2>2. queue' = queue /\ index' = index
    BY <1>2 DEF Check
  <2>3. CASE Ends(w)
    <3>1. \A v \in Routers : router'[v] = router[v] \/ router'[v].at = "idle"
      BY <2>3 DEF Ends, TypeOK, NoRoute
    <3> QED
      BY <1>0, <2>2, <3>1, QueueKept
  <2>4. CASE index[r] = "absent" /\ Goes(w, "claim")
    <3>1. \A v \in Routers \ {w} : router'[v] = router[v]
      BY <2>4 DEF Goes, TypeOK
    <3>2. router'[w].request = r /\ router'[w].at = "claim"
      BY <2>1, <2>4 DEF Goes, TypeOK, Phase
    <3>3. \A m \in Messages : queue[m] # Own(w, r)
      BY <1>0, <2>1, <2>4 DEF ClaimInv, Queued, Own
    <3>4. \A v \in Routers : At(v, "claim")' =>
              \A m \in Messages' : queue'[m] # Own(v, router'[v].request)
      BY <1>0, <2>2, <3>1, <3>2, <3>3 DEF ClaimInv, At, Messages, Own
    <3>5. \A v \in Routers : ~At(v, "bare")'
      BY <1>0, <3>1, <3>2 DEF ClaimInv, At
    <3>6. Unique' /\ \A q \in Requests : Queued(q)' => index'[q] # "absent"
      BY <1>0, <2>2 DEF ClaimInv, Unique, Messages, Queued
    <3> QED
      BY <3>4, <3>5, <3>6 DEF ClaimInv
  <2> QED
    BY <1>2, <2>3, <2>4 DEF Check
<1>3. ASSUME NEW w \in Routers, Claim(w) PROVE ClaimInv'
  BY <1>0, <1>3, ClaimServed DEF Claim
<1>4. ASSUME NEW w \in Routers, At(w, "finalize"), SetFinal(w), Ends(w), queue' = queue
      PROVE  ClaimInv'
  <2>1. \A v \in Routers : router'[v] = router[v] \/ router'[v].at = "idle"
    BY <1>4 DEF Ends, TypeOK, NoRoute
  <2>2. \A r \in Requests : index[r] # "absent" => index'[r] # "absent"
    BY <1>4 DEF SetFinal, TypeOK
  <2> QED
    BY <1>0, <1>4, <2>1, <2>2, QueueKept
<1>5. ASSUME NEW w \in Routers, Bare(w) PROVE ClaimInv'
  BY <1>0, <1>5 DEF Bare, ClaimInv
<1>6. ASSUME NEW w \in Routers, Crash(w) PROVE ClaimInv'
  <2>1. UNCHANGED <<queue, index>> \/ Served(w)
    BY <1>6, CleanBefore DEF Crash
  <2>2. CASE UNCHANGED <<queue, index>>
    <3>1. \A v \in Routers : router'[v] = router[v] \/ router'[v].at = "idle"
      BY <1>6 DEF Crash, Ends, TypeOK, NoRoute
    <3> QED
      BY <1>0, <2>2, <3>1, QueueKept
  <2>3. CASE Served(w)
    BY <1>0, <1>4, <1>6, <2>3, ClaimServed DEF Crash, Served, ClaimInv
  <2> QED
    BY <2>1, <2>2, <2>3
<1>7. CASE UNCHANGED vars
  BY <1>0, <1>7, QueueKept DEF vars
<1> QED
  BY <1>1, <1>2, <1>3, <1>4, <1>5, <1>6, <1>7, CleanBefore DEF Next, Step, Finalize

\* A process queues a request at most once, unless commands of the dedup fail or keys expire.
THEOREM QueuedOnce == Spec => []QueuedOncePerRouter
<1>1. ClaimInv => QueuedOncePerRouter
  BY DEF ClaimInv, QueuedOncePerRouter, Clean, Unique
<1> QED
  BY <1>1, TypeInit, TypeStep, ClaimInit, ClaimStep, PTL DEF Spec

-----------------------------------------------------------------------------
\* HitIsQueued in its inductive form: a message is appended before its entry is final.
HitInv ==
    ~cluster =>
        /\ \A r \in Requests : index[r] # "absent" => Queued(r)
        /\ \A w \in Routers : At(w, "finalize") => Queued(router[w].request)

\* An appended message queues its request, and the others stay queued.
LEMMA XAddQueues ==
    ASSUME TypeOK, NEW w \in Routers, router[w] # NoRoute, XAdd(w),
           NEW r, r = router[w].request
    PROVE  Queued(r)' /\ \A q \in Requests : Queued(q) => Queued(q)'
<1> DEFINE msg == [request |-> r, by |-> w]
<1>1. queue' = Append(queue, msg) /\ queue \in Seq(Message) /\ msg \in Message
  BY Under DEF XAdd, TypeOK, Message
<1>2. /\ Len(queue') = Len(queue) + 1
      /\ Len(queue) \in Nat
      /\ queue'[Len(queue) + 1] = msg
      /\ \A m \in 1 .. Len(queue) : queue'[m] = queue[m]
  BY <1>1
<1>3. Queued(r)'
  BY <1>2 DEF Queued, Messages
<1>4. \A q \in Requests : Queued(q) => Queued(q)'
  BY <1>2 DEF Queued, Messages
<1> QED
  BY <1>3, <1>4

\* A step after which no router newly finalizes, and which adds no index entry, keeps it.
LEMMA HitKept ==
    ASSUME TypeOK, HitInv, cluster' = cluster,
           queue' = queue \/ \E w \in Routers : router[w] # NoRoute /\ XAdd(w),
           \A r \in Requests : index'[r] # "absent" => index[r] # "absent" \/ Queued(r)',
           \A w \in Routers : \/ router'[w] = router[w]
                              \/ router'[w].at # "finalize"
                              \/ Queued(router[w].request)'
    PROVE  HitInv'
<1> SUFFICES ASSUME ~cluster PROVE HitInv'
  BY DEF HitInv
<1>1. \A r \in Requests : Queued(r) => Queued(r)'
  <2>1. CASE queue' = queue
    BY <2>1 DEF Queued, Messages
  <2>2. CASE \E w \in Routers : router[w] # NoRoute /\ XAdd(w)
    BY <2>2, XAddQueues
  <2> QED
    BY <2>1, <2>2
<1>2. \A r \in Requests : index'[r] # "absent" => Queued(r)'
  BY <1>1 DEF HitInv
<1>3. ASSUME NEW w \in Routers, At(w, "finalize")', router'[w] = router[w]
      PROVE  Queued(router[w].request)'
  <2>1. router[w].request \in Requests /\ At(w, "finalize")
    BY <1>3, AtPhase, Under DEF At
  <2>2. PICK r \in Requests : r = router[w].request
    BY <2>1
  <2>3. Queued(r)'
    BY <1>1, <2>1, <2>2 DEF HitInv
  <2> QED
    BY <1>3, <2>2, <2>3 DEF Queued
<1>4. \A w \in Routers : At(w, "finalize")' => Queued(router[w].request)'
  BY <1>3 DEF At, Queued
<1> QED
  BY <1>2, <1>4 DEF HitInv

LEMMA HitInit == Init => HitInv
BY DEF Init, HitInv, At, NoRoute

\* The commands that a fault may leave behind are covered by HitKept.
LEMMA HitServed ==
    ASSUME TypeOK, HitInv, NEW w \in Routers, router[w] # NoRoute, ~cluster, cluster' = cluster,
           UNCHANGED <<queue, index>> \/ Served(w) \/ Cut(w),
           \A v \in Routers : router'[v] = router[v] \/ router'[v].at # "finalize"
    PROVE  HitInv'
<1>1. PICK r \in Requests : r = router[w].request
  BY Under
<1>2. queue' = queue \/ XAdd(w)
  BY DEF Served, Cut
<1>3. index' = index \/ (XAdd(w) /\ SetNX(w)) \/ (At(w, "finalize") /\ queue' = queue /\ SetFinal(w))
  BY DEF Served, Cut
<1>4. XAdd(w) => Queued(r)'
  BY <1>1, XAddQueues
<1>5. (At(w, "finalize") /\ queue' = queue) => Queued(r)'
  BY <1>1 DEF HitInv, Queued, Messages
<1>6. \A q \in Requests : index'[q] # "absent" => index[q] # "absent" \/ Queued(q)'
  <2>1. index' # index => Queued(r)' /\ \A q \in Requests \ {r} : index'[q] = index[q]
    BY <1>1, <1>3, <1>4, <1>5 DEF SetNX, SetFinal, TypeOK
  <2> QED
    BY <2>1
<1> QED
  BY <1>2, <1>6, HitKept

LEMMA HitStep == TypeOK /\ HitInv /\ [Next]_vars => HitInv'
<1> SUFFICES ASSUME TypeOK, HitInv, [Next]_vars PROVE HitInv'
  OBVIOUS
<1>0. cluster' = cluster
  BY DEF Next, Step, Route, Check, Claim, Finalize, Bare, TransportError, Crash, Expire, vars
<1> SUFFICES ASSUME ~cluster PROVE HitInv'
  BY <1>0 DEF HitInv
<1>1. ASSUME NEW w \in Routers, NEW r \in Requests, Route(w, r) PROVE HitInv'
  <2>1. \A v \in Routers : router'[v] = router[v] \/ router'[v].at # "finalize"
    BY <1>1 DEF Route, TypeOK
  <2> QED
    BY <1>0, <1>1, <2>1, HitKept DEF Route
<1>2. ASSUME NEW w \in Routers, Check(w) PROVE HitInv'
  <2>1. router[w] \in Phase
    BY <1>2, AtPhase, Under DEF Check
  <2>2. \A v \in Routers : router'[v] = router[v] \/ router'[v].at # "finalize"
    BY <1>2, <2>1 DEF Check, Ends, Goes, TypeOK, NoRoute, Phase
  <2> QED
    BY <1>0, <1>2, <2>2, HitKept DEF Check
<1>3. ASSUME NEW w \in Routers, Claim(w) PROVE HitInv'
  <2>1. PICK r \in Requests : r = router[w].request /\ router[w] \in Phase /\ router[w] # NoRoute
    BY <1>3, AtPhase, Under DEF Claim
  <2>2. Queued(r)'
    BY <1>3, <2>1, XAddQueues DEF Claim
  <2>3. router'[w].request = r /\ \A v \in Routers \ {w} : router'[v] = router[v]
    BY <1>3, <2>1 DEF Claim, Goes, TypeOK, Phase
  <2>4. \A v \in Routers : router'[v] = router[v] \/ Queued(router[v].request)'
    BY <2>2, <2>3 DEF Queued
  <2>5. \A q \in Requests : index'[q] # "absent" => index[q] # "absent" \/ Queued(q)'
    BY <1>3, <2>1, <2>2 DEF Claim, SetNX, TypeOK
  <2> QED
    BY <1>0, <1>3, <2>1, <2>4, <2>5, HitKept DEF Claim
<1>4. ASSUME NEW w \in Routers, Finalize(w) PROVE HitInv'
  <2>1. router[w] # NoRoute
    BY <1>4, AtPhase DEF Finalize
  <2>2. \A v \in Routers : router'[v] = router[v] \/ router'[v].at # "finalize"
    BY <1>4 DEF Finalize, Ends, TypeOK, NoRoute
  <2> QED
    BY <1>0, <1>4, <2>1, <2>2, HitServed DEF Finalize, Served
<1>5. ASSUME NEW w \in Routers, Bare(w) PROVE HitInv'
  <2>1. router[w] # NoRoute
    BY <1>5, AtPhase DEF Bare
  <2>2. \A v \in Routers : router'[v] = router[v] \/ router'[v].at # "finalize"
    BY <1>5 DEF Bare, Ends, TypeOK, NoRoute
  <2> QED
    BY <1>0, <1>5, <2>1, <2>2, HitServed DEF Bare, Served
<1>6. ASSUME NEW w \in Routers, TransportError(w) PROVE HitInv'
  <2>1. router[w] # NoRoute
    BY <1>6 DEF TransportError
  <2>2. \A v \in Routers : router'[v] = router[v] \/ router'[v].at # "finalize"
    BY <1>6, <2>1, Under DEF TransportError, Ends, Goes, TypeOK, NoRoute, Phase
  <2> QED
    BY <1>0, <1>6, <2>1, <2>2, HitServed DEF TransportError
<1>7. ASSUME NEW w \in Routers, Crash(w) PROVE HitInv'
  <2>1. \A v \in Routers : router'[v] = router[v] \/ router'[v].at # "finalize"
    BY <1>7 DEF Crash, Ends, TypeOK, NoRoute
  <2> QED
    BY <1>0, <1>7, <2>1, HitServed DEF Crash
<1>8. ASSUME NEW r \in Requests, Expire(r) PROVE HitInv'
  <2>1. \A q \in Requests : index'[q] # "absent" => index[q] # "absent"
    BY <1>8 DEF Expire, TypeOK
  <2> QED
    BY <1>0, <1>8, <2>1, HitKept DEF Expire
<1>9. CASE UNCHANGED vars
  BY <1>0, <1>9, HitKept DEF vars
<1> QED
  BY <1>1, <1>2, <1>3, <1>4, <1>5, <1>6, <1>7, <1>8, <1>9 DEF Next, Step

\* With one server, an index entry has its message in the queue.
THEOREM HitQueued == Spec => []HitIsQueued
<1>1. HitInv => HitIsQueued
  BY DEF HitInv, HitIsQueued
<1> QED
  BY <1>1, TypeInit, TypeStep, HitInit, HitStep, PTL DEF Spec
=============================================================================
