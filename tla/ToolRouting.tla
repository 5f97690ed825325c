---------------------------- MODULE ToolRouting -----------------------------
(***************************************************************************)
(* How requests get into the queue of a tool: ToolRouter.route_batch, with *)
(* the dedup index that keeps a request from being queued again when it is *)
(* emitted by a system, read back from the log, or read again after a      *)
(* restart.  Every dispatcher process has a router of its own; they share  *)
(* the queue and the index.                                                *)
(***************************************************************************)
EXTENDS Naturals, Sequences

CONSTANTS
    Requests,   \* tool.<name>.requested events, by event id
    Routers,    \* processes that route
    Dedup,      \* ToolRouter(dedup=...)
    Clusters,   \* whether queue and index live on different servers: the cases to consider
    Faults,     \* the kinds of fault that may happen
    MaxFaults,  \* bound of the model: faults of a kind
    MaxRoutes   \* bound of the model: how often a request is routed

ASSUME RoutingAssumption ==
    /\ Dedup \in BOOLEAN
    /\ Clusters \subseteq BOOLEAN
    /\ Faults \subseteq {"transport", "ttl", "crash"}
    /\ {MaxFaults, MaxRoutes} \subseteq Nat

NoRoute == [at |-> "idle"]

VARIABLES
    cluster, \* queue and index live on different servers of a Redis Cluster
    queue,   \* the tool's stream, a message with the router that appended it
    index,   \* request -> its key in the dedup index
    router,  \* router -> where route_batch is, and with which request
    routes,  \* request -> how often it was routed
    faults   \* fault -> how often it happened

vars == <<cluster, queue, index, router, routes, faults>>

Message == [request : Requests, by : Routers]
Phase == [at : {"check", "claim", "finalize", "bare"}, request : Requests]

TypeOK ==
    /\ cluster \in Clusters
    /\ queue \in Seq(Message)
    /\ index \in [Requests -> {"absent", "placeholder", "final"}]
    /\ router \in [Routers -> Phase \cup {NoRoute}]
    /\ routes \in [Requests -> 0 .. MaxRoutes]
    /\ faults \in [Faults -> 0 .. MaxFaults]

Init ==
    /\ cluster \in Clusters
    /\ queue = <<>>
    /\ index = [r \in Requests |-> "absent"]
    /\ router = [w \in Routers |-> NoRoute]
    /\ routes = [r \in Requests |-> 0]
    /\ faults = [f \in Faults |-> 0]

Fault(kind) ==
    /\ kind \in Faults
    /\ faults[kind] < MaxFaults
    /\ faults' = [faults EXCEPT ![kind] = @ + 1]

Never(kind) == kind \in Faults => faults[kind] = 0

At(w, phase) == router[w].at = phase
Goes(w, phase) == router' = [router EXCEPT ![w].at = phase]
Ends(w) == router' = [router EXCEPT ![w] = NoRoute]

\* A command of router w is served, for its request.
XAdd(w) == queue' = Append(queue, [request |-> router[w].request, by |-> w])
SetNX(w) == index' = [index EXCEPT ![router[w].request] = IF @ = "absent" THEN "placeholder" ELSE @]
SetFinal(w) == index' = [index EXCEPT ![router[w].request] = "final"]

-----------------------------------------------------------------------------
Route(w, r) ==
    /\ router[w] = NoRoute
    /\ routes[r] < MaxRoutes
    /\ routes' = [routes EXCEPT ![r] = @ + 1]
    /\ router' = [router EXCEPT ![w] = [at |-> IF Dedup THEN "check" ELSE "bare", request |-> r]]
    /\ UNCHANGED <<cluster, queue, index, faults>>

\* Mutant of Check: only a final id counts as a hit.
CheckFinal(w) ==
    /\ At(w, "check")
    /\ IF index[router[w].request] = "final" THEN Ends(w) ELSE Goes(w, "claim")
    /\ UNCHANGED <<cluster, queue, index, routes, faults>>

\* _check_phase: a final id or a placeholder is a hit, and the request is skipped.
Check(w) ==
    /\ At(w, "check")
    /\ IF index[router[w].request] = "absent" THEN Goes(w, "claim") ELSE Ends(w)
    /\ UNCHANGED <<cluster, queue, index, routes, faults>>

\* Mutant of Claim: the claim comes first, the message after it.
ClaimFirst(w) ==
    /\ At(w, "claim")
    /\ SetNX(w)
    /\ Goes(w, "bare")
    /\ UNCHANGED <<cluster, queue, routes, faults>>

\* _claim_phase: XADD and SET NX in one pipeline.
Claim(w) ==
    /\ At(w, "claim")
    /\ XAdd(w)
    /\ SetNX(w)
    /\ Goes(w, "finalize")
    /\ UNCHANGED <<cluster, routes, faults>>

\* _finalize_phase
Finalize(w) ==
    /\ At(w, "finalize")
    /\ SetFinal(w)
    /\ Ends(w)
    /\ UNCHANGED <<cluster, queue, routes, faults>>

\* Mutant of Bare: the request is not let go.
BareKeeps(w) ==
    /\ At(w, "bare")
    /\ XAdd(w)
    /\ Goes(w, "idle")
    /\ UNCHANGED <<cluster, index, routes, faults>>

\* Without dedup, or after a transport error of it: the bare XADD.
Bare(w) ==
    /\ At(w, "bare")
    /\ XAdd(w)
    /\ Ends(w)
    /\ UNCHANGED <<cluster, index, routes, faults>>

-----------------------------------------------------------------------------
\* The commands of a phase that is interrupted may have been served.
Served(w) ==
    \/ At(w, "claim") /\ XAdd(w) /\ SetNX(w)
    \/ At(w, "finalize") /\ SetFinal(w) /\ UNCHANGED queue
    \/ At(w, "bare") /\ XAdd(w) /\ UNCHANGED index

\* A pipeline is served in order by one server, each command for itself by several.
Cut(w) ==
    /\ At(w, "claim")
    /\ \/ XAdd(w) /\ UNCHANGED index
       \/ cluster /\ SetNX(w) /\ UNCHANGED queue

\* Mutant of TransportError: an error of the dedup counts as handled.
TransportErrorHandled(w) ==
    /\ router[w] # NoRoute
    /\ Fault("transport")
    /\ UNCHANGED <<queue, index>> \/ Served(w) \/ Cut(w)
    /\ Ends(w)
    /\ UNCHANGED <<cluster, routes>>

\* A phase of the dedup falls through to the bare XADD; after an error of that the request
\* is dropped and the error logged.
TransportError(w) ==
    /\ router[w] # NoRoute
    /\ Fault("transport")
    /\ UNCHANGED <<queue, index>> \/ Served(w) \/ Cut(w)
    /\ IF At(w, "bare") THEN Ends(w) ELSE Goes(w, "bare")
    /\ UNCHANGED <<cluster, routes>>

\* The process dies; after its restart it has forgotten the route.  It sends the commands
\* for one server in one piece.
Crash(w) ==
    /\ router[w] # NoRoute
    /\ Fault("crash")
    /\ UNCHANGED <<queue, index>> \/ Served(w) \/ (cluster /\ Cut(w))
    /\ Ends(w)
    /\ UNCHANGED <<cluster, routes>>

\* A placeholder lives 60 seconds, a final id dedup_ttl_seconds.
Expire(r) ==
    /\ index[r] # "absent"
    /\ Fault("ttl")
    /\ index' = [index EXCEPT ![r] = "absent"]
    /\ UNCHANGED <<cluster, queue, router, routes>>

-----------------------------------------------------------------------------
Step(w) == Check(w) \/ Claim(w) \/ Finalize(w) \/ Bare(w)

Next ==
    \/ \E w \in Routers, r \in Requests : Route(w, r)
    \/ \E w \in Routers : Step(w)
    \/ \E w \in Routers : TransportError(w)
    \/ \E w \in Routers : Crash(w)
    \/ \E r \in Requests : Expire(r)

Spec == Init /\ [][Next]_vars

\* Redis answers.
FairSpec == Spec /\ \A w \in Routers : WF_vars(Step(w))

-----------------------------------------------------------------------------
Messages == 1 .. Len(queue)
Queued(r) == \E m \in Messages : queue[m].request = r

\* "A request whose event_id was already routed is skipped": a process queues a request at
\* most once, over its restarts too, unless commands of the dedup fail or a key expires.
\* Two processes that check at the same time queue it twice: the claim is not conditional.
QueuedOncePerRouter ==
    Dedup /\ Never("transport") /\ Never("ttl") /\ (cluster => Never("crash")) =>
        \A m, n \in Messages : queue[m] = queue[n] => m = n

\* A request is skipped because it is in the queue: with one server, an index entry, left
\* behind by a dead process or not, has its message.
HitIsQueued == ~cluster => \A r \in Requests : index[r] # "absent" => Queued(r)

Times(kind) == IF kind \in Faults THEN faults[kind] ELSE 0

\* "A transient Redis hiccup never costs a request": a routed request is queued in the end
\* unless each of its routes met the death of the process or two transport errors.  In a
\* cluster a placeholder without a message may also hide it from all later routes.
RoutedIsQueued ==
    \A r \in Requests :
        routes[r] > 0 ~>
            \/ Queued(r)
            \/ 2 * routes[r] <= Times("transport") + 2 * Times("crash")
            \/ cluster /\ Times("transport") + Times("crash") > 0
=============================================================================
