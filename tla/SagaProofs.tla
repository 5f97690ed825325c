----------------------------- MODULE SagaProofs -----------------------------
(***************************************************************************)
(* Proofs about Saga, for any workflow, faults and deadlines.              *)
(***************************************************************************)
EXTENDS Saga, SequenceTheorems, WellFoundedInduction, TLAPS

-----------------------------------------------------------------------------
(* Induction, for sets instead of predicates. *)

NatLess == {p \in Nat \X Nat : p[1] < p[2]}

\* A set of numbers has a least element.
LEMMA Least ==
    ASSUME NEW T, T \subseteq Nat, T # {}
    PROVE  \E x \in T : \A y \in T : x <= y
<1>0. OpToRel(<, Nat) = NatLess
  BY DEF OpToRel, NatLess
<1>1. IsWellFoundedOn(NatLess, Nat)
  BY NatLessThanWellFounded, <1>0
<1>2. PICK x \in T : \A y \in T : ~ (<<y, x>> \in NatLess)
  BY <1>1, WFMin
<1>3. ASSUME NEW y \in T PROVE x <= y
  <2>1. x \in Nat /\ y \in Nat
    OBVIOUS
  <2>2. ~ (y < x)
    BY <1>2, <2>1 DEF NatLess
  <2> QED BY <2>1, <2>2
<1> QED BY <1>3

\* A set that holds the first number of an interval, and with a number the next, holds it all.
LEMMA Induct ==
    ASSUME NEW a \in Nat, NEW b \in Nat, NEW T, a \in T,
           \A n \in a + 1 .. b : n - 1 \in T => n \in T
    PROVE  a .. b \subseteq T
<1> SUFFICES ASSUME (a .. b) \ T # {} PROVE FALSE
  OBVIOUS
<1>1. PICK x \in (a .. b) \ T : \A y \in (a .. b) \ T : x <= y
  <2>1. (a .. b) \ T \subseteq Nat
    OBVIOUS
  <2> QED BY <2>1, Least
<1>2. x \in a + 1 .. b /\ x - 1 \in a .. b /\ ~ (x <= x - 1)
  BY <1>1
<1>3. x - 1 \in T
  BY <1>1, <1>2
<1> QED BY <1>1, <1>2, <1>3

\* f is defined by recursion over an interval.
Recursive(f, a, b, S, first, step) ==
    /\ f \in [a .. b -> S]
    /\ f[a] = first
    /\ \A n \in a + 1 .. b : f[n] = step[n][f[n - 1]]

\* Such a function exists.
LEMMA Recursion ==
    ASSUME NEW a \in Nat, NEW b \in Nat, a <= b, NEW S, NEW first \in S,
           NEW step \in [a .. b -> [S -> S]]
    PROVE  \E f : Recursive(f, a, b, S, first, step)
<1> DEFINE Good(f, m) == Recursive(f, a, m, S, first, step)
           T == {m \in a .. b : \E f : Good(f, m)}
<1>1. a \in T
  <2> DEFINE g == [n \in a .. a |-> first]
  <2>1. Good(g, a)
    BY DEF Recursive
  <2>2. a \in a .. b
    OBVIOUS
  <2> HIDE DEF g, Good
  <2> QED BY <2>1, <2>2
<1>2. ASSUME NEW m \in a + 1 .. b, m - 1 \in T PROVE m \in T
  <2>0. m \in a .. b /\ m - 1 \in a .. m - 1
    OBVIOUS
  <2>1. PICK f : Good(f, m - 1)
    BY <1>2
  <2> DEFINE g == [n \in a .. m |-> IF n = m THEN step[m][f[m - 1]] ELSE f[n]]
  <2>2. step[m] \in [S -> S]
    BY <2>0
  <2>3. step[m][f[m - 1]] \in S
    BY <2>0, <2>1, <2>2 DEF Recursive
  <2>4. g \in [a .. m -> S]
    BY <2>1, <2>3 DEF Recursive
  <2>5. g[a] = first
    BY <2>1 DEF Recursive
  <2>6. ASSUME NEW n \in a + 1 .. m PROVE g[n] = step[n][g[n - 1]]
    <3>1. n - 1 \in a .. m - 1 /\ g[n - 1] = f[n - 1]
      OBVIOUS
    <3>2. CASE n = m
      BY <3>1, <3>2
    <3>3. CASE n # m
      <4>1. n \in a + 1 .. m - 1
        BY <3>3
      <4> QED BY <4>1, <3>1, <2>1 DEF Recursive
    <3> QED BY <3>2, <3>3
  <2>7. Good(g, m)
    <3> HIDE DEF g
    <3> QED BY <2>4, <2>5, <2>6 DEF Recursive
  <2> HIDE DEF g, Good
  <2> QED BY <2>0, <2>7
<1>3. b \in T
  <2> HIDE DEF T
  <2>1. a .. b \subseteq T
    BY <1>1, <1>2, Induct
  <2> QED BY <2>1
<1> QED BY <1>3

-----------------------------------------------------------------------------
(* Types. *)

Records == {"step_completed", "step_failed"}
Directions == {"forward", "compensating", "compensation_failed", "done"}

Events == {e \in [type : EventTypes, step : 0 .. Length, of : Nat,
                  states : [Steps -> States] \cup {NoStates}] :
             /\ e.type \in {"requested", "undo", "step_started", "awaiting_approval",
                            "compensation_started"} => e.step \in Steps
             /\ e.type \in Records => e.states \in [Steps -> States]
             /\ e.type \in ToolRequests => e = Event(e.type, e.step)
             /\ e.type \notin ToolAnswers => e.of = 0}

Views == [cursor : Nat, direction : Directions, current : 0 .. Length,
          states : [Steps -> States], stack : Seq(Steps),
          requests : SUBSET Nat, completions : SUBSET Nat]

LEMMA BackwardsSeq ==
    ASSUME NEW steps \in SUBSET Steps
    PROVE  Backwards(steps) \in Seq(steps)
<1> DEFINE Body(g, s) == IF s = 0 THEN <<>>
                         ELSE IF s \in steps THEN <<s>> \o g[s - 1] ELSE g[s - 1]
           f == CHOOSE g : g = [s \in 0 .. Length |-> Body(g, s)]
           next == [s \in 0 .. Length |-> [q \in Seq(steps) |->
                        IF s \in steps THEN <<s>> \o q ELSE q]]
           T == {s \in 0 .. Length : f[s] \in Seq(steps)}
<1>0. Length \in Nat
  BY SagaAssumption
<1>1. Backwards(steps) = f[Length]
  BY DEF Backwards
<1>2. next \in [0 .. Length -> [Seq(steps) -> Seq(steps)]]
  OBVIOUS
<1>3. \E g : g = [s \in 0 .. Length |-> Body(g, s)]
  <2> DEFINE S == Seq(steps)
             none == <<>>
  <2>1. none \in S /\ 0 \in Nat /\ 0 <= Length
    BY <1>0
  <2>2. next \in [0 .. Length -> [S -> S]]
    BY <1>2
  <2> HIDE DEF next, S, none
  <2>3. PICK g : Recursive(g, 0, Length, S, none, next)
    BY <1>0, <2>1, <2>2, Recursion
  <2>4. ASSUME NEW s \in 0 .. Length
        PROVE  g[s] = Body(g, s)
    <3>1. CASE s = 0
      BY <2>3, <3>1 DEF Recursive, none
    <3>2. CASE s # 0
      <4>1. s \in 0 + 1 .. Length /\ s - 1 \in 0 .. Length
        BY <3>2, <1>0
      <4>2. g[s - 1] \in Seq(steps) /\ g[s] = next[s][g[s - 1]]
        BY <2>3, <4>1 DEF Recursive, S
      <4> QED BY <3>2, <4>1, <4>2 DEF next
    <3> QED BY <3>1, <3>2
  <2> HIDE DEF Body
  <2>5. g = [s \in 0 .. Length |-> Body(g, s)]
    BY <2>3, <2>4 DEF Recursive
  <2> QED BY <2>5
<1>4. f = [s \in 0 .. Length |-> Body(f, s)]
  <2> HIDE DEF Body
  <2> QED BY <1>3
<1> HIDE DEF f
<1>5. 0 \in T
  BY <1>0, <1>4
<1>6. ASSUME NEW s \in 0 + 1 .. Length, s - 1 \in T PROVE s \in T
  <2>1. f[s] = Body(f, s) /\ f[s - 1] \in Seq(steps)
    <3>1. s \in 0 .. Length
      BY <1>0
    <3>2. f[s] = Body(f, s)
      <4> HIDE DEF Body
      <4> QED BY <1>4, <3>1
    <3> QED BY <1>6, <3>2
  <2>2. s \in steps => <<s>> \o f[s - 1] \in Seq(steps)
    BY <2>1
  <2>3. s \in 0 .. Length /\ s # 0
    BY <1>0
  <2>4. f[s] = IF s \in steps THEN <<s>> \o f[s - 1] ELSE f[s - 1]
    BY <2>1, <2>3
  <2>5. f[s] \in Seq(steps)
    <3> HIDE DEF Body
    <3> QED BY <2>1, <2>2, <2>4
  <2> QED BY <2>3, <2>5
<1>7. 0 .. Length \subseteq T
  <2> HIDE DEF T
  <2> QED BY <1>0, <1>5, <1>6, Induct
<1> QED BY <1>0, <1>1, <1>7

-----------------------------------------------------------------------------
(* The projection. *)

\* A handler keeps the view typed and leaves the cursor and the overlay alone.
LEMMA ProjectView ==
    ASSUME NEW v \in Views, NEW e \in Events
    PROVE  /\ Project(v, e) \in Views
           /\ Project(v, e).cursor = v.cursor
           /\ Project(v, e).requests = v.requests
           /\ Project(v, e).completions = v.completions
<1> USE DEF Views, Directions
<1>1. CASE e.type \in {"step_started", "awaiting_approval"}
  <2>1. e.step \in Steps /\ e.step \in 0 .. Length
    BY <1>1 DEF Events
  <2> QED BY <1>1, <2>1 DEF Project, States
<1>2. CASE e.type \in {"step_completed", "step_failed"}
  <2>1. e.states \in [Steps -> States]
    BY <1>2 DEF Events, Records
  <2> QED BY <1>2, <2>1 DEF Project
<1>3. CASE e.type = "compensating"
  <2> DEFINE steps == {s \in Compensable : v.states[s] = "completed"}
  <2>1. steps \in SUBSET Steps
    BY SagaAssumption
  <2>2. Backwards(steps) \in Seq(Steps)
    BY <2>1, BackwardsSeq, SeqMonotonic
  <2> HIDE DEF steps
  <2>3. Project(v, e) = [v EXCEPT !.direction = "compensating", !.stack = Backwards(steps)]
    BY <1>3 DEF Project, steps
  <2> QED BY <2>2, <2>3
<1>4. CASE e.type = "compensation_started"
  <2>1. e.step \in Steps
    BY <1>4 DEF Events
  <2>2. Append(v.stack, e.step) \in Seq(Steps)
    BY <2>1
  <2> QED BY <1>4, <2>1, <2>2 DEF Project, States
<1>5. CASE e.type = "done"
  BY <1>5 DEF Project
<1>6. CASE e.type \in {"dlq", "compensation_failed", "timed_out"}
  <2>1. e.step \in 0 .. Length
    BY DEF Events
  <2> QED BY <1>6, <2>1 DEF Project
<1>7. CASE e.type \notin {"step_started", "awaiting_approval", "step_completed", "step_failed",
                          "compensating", "compensation_started", "done", "dlq",
                          "compensation_failed", "timed_out"}
  BY <1>7 DEF Project
<1> QED BY <1>1, <1>2, <1>3, <1>4, <1>5, <1>6, <1>7

\* What holds of a view at its cursor, and what each handler keeps for the next position, holds
\* at the end of the log.
LEMMA ProjectedIn ==
    ASSUME log \in Seq(Events), NEW v \in Views, v.cursor <= Len(log),
           NEW I, v \in I[v.cursor], \A p \in v.cursor .. Len(log) : I[p] \subseteq Views,
           \A p \in v.cursor + 1 .. Len(log) :
               \A u \in I[p - 1] : Project(u, log[p]) \in I[p]
    PROVE  Projected(v) \in I[Len(log)]
<1> DEFINE a == v.cursor
           b == Len(log)
           Body(g, p) == IF p = a THEN v ELSE Project(g[p - 1], log[p])
           f == CHOOSE g : g = [p \in a .. b |-> Body(g, p)]
           next == [p \in a .. b |-> [u \in Views |->
                        IF p = a THEN u ELSE Project(u, log[p])]]
           T == {p \in a .. b : f[p] \in I[p]}
<1>0. a \in Nat /\ b \in Nat /\ a <= b
  BY DEF Views
<1>1. Projected(v) = f[b]
  BY DEF Projected
<1>e. \A p \in a + 1 .. b : log[p] \in Events /\ p \in a .. b /\ p - 1 \in a .. b /\ p # a
  <2>1. a + 1 .. b \subseteq 1 .. b
    BY <1>0
  <2> QED BY <1>0, <2>1
<1>2. next \in [a .. b -> [Views -> Views]]
  <2>1. ASSUME NEW p \in a .. b, NEW u \in Views
        PROVE  (IF p = a THEN u ELSE Project(u, log[p])) \in Views
    <3>1. p = a \/ p \in a + 1 .. b
      BY <1>0
    <3> QED BY <1>e, <3>1, ProjectView
  <2> QED BY <2>1
<1>3. \E g : g = [p \in a .. b |-> Body(g, p)]
  <2> HIDE DEF next, a, b
  <2>3. PICK g : Recursive(g, a, b, Views, v, next)
    BY <1>0, <1>2, Recursion
  <2>4. ASSUME NEW p \in a .. b
        PROVE  g[p] = Body(g, p)
    <3>1. CASE p = a
      BY <2>3, <3>1 DEF Recursive
    <3>2. CASE p # a
      <4>1. p \in a + 1 .. b
        BY <3>2, <1>0
      <4>2. g[p - 1] \in Views /\ g[p] = next[p][g[p - 1]]
        BY <2>3, <4>1, <1>e DEF Recursive
      <4> QED BY <3>2, <4>1, <4>2 DEF next
    <3> QED BY <3>1, <3>2
  <2> HIDE DEF Body
  <2>5. g = [p \in a .. b |-> Body(g, p)]
    BY <2>3, <2>4 DEF Recursive
  <2> QED BY <2>5
<1>4. f = [p \in a .. b |-> Body(f, p)]
  <2> HIDE DEF Body, a, b
  <2> QED BY <1>3
<1> HIDE DEF f
<1>5. a \in T
  <2> HIDE DEF b
  <2>1. a \in a .. b
    BY <1>0
  <2> QED BY <1>4, <2>1
<1>6. ASSUME NEW p \in a + 1 .. b, p - 1 \in T PROVE p \in T
  <2>1. p \in a .. b /\ p # a
    BY <1>e
  <2>2. f[p] = Body(f, p)
    <3> HIDE DEF Body, a, b
    <3> QED BY <1>4, <2>1
  <2>3. f[p] = Project(f[p - 1], log[p])
    BY <2>1, <2>2
  <2>4. f[p - 1] \in I[p - 1]
    BY <1>6
  <2> QED BY <2>1, <2>3, <2>4
<1>7. a .. b \subseteq T
  <2> HIDE DEF T, a, b
  <2> QED BY <1>0, <1>5, <1>6, Induct
<1>8. b \in T
  <2> HIDE DEF T, a, b
  <2> QED BY <1>0, <1>7
<1> QED BY <1>1, <1>8

\* Projecting the events behind the cursor keeps the view typed and leaves the cursor and the
\* overlay alone.
LEMMA ProjectedFrame ==
    ASSUME log \in Seq(Events), NEW v \in Views, v.cursor <= Len(log)
    PROVE  /\ Projected(v) \in Views
           /\ Projected(v).cursor = v.cursor
           /\ Projected(v).requests = v.requests
           /\ Projected(v).completions = v.completions
<1> DEFINE J == {u \in Views : /\ u.cursor = v.cursor
                               /\ u.requests = v.requests
                               /\ u.completions = v.completions}
           I == [p \in v.cursor .. Len(log) |-> J]
<1>0. v.cursor \in Nat /\ Len(log) \in Nat
  BY DEF Views
<1>1. \A p \in v.cursor .. Len(log) : I[p] = J
  OBVIOUS
<1>2. v \in I[v.cursor] /\ v.cursor \in v.cursor .. Len(log) /\ Len(log) \in v.cursor .. Len(log)
  BY <1>0
<1>3. ASSUME NEW p \in v.cursor + 1 .. Len(log), NEW u \in I[p - 1]
      PROVE  Project(u, log[p]) \in I[p]
  <2>1. p \in v.cursor .. Len(log) /\ p - 1 \in v.cursor .. Len(log) /\ p \in 1 .. Len(log)
    BY <1>0
  <2>2. u \in J /\ log[p] \in Events
    BY <1>1, <2>1
  <2>3. Project(u, log[p]) \in J
    BY <2>2, ProjectView
  <2> QED BY <1>1, <2>1, <2>3
<1>4. Projected(v) \in I[Len(log)]
  <2>1. \A p \in v.cursor .. Len(log) : I[p] \subseteq Views
    BY <1>1
  <2> HIDE DEF I
  <2> QED BY <1>2, <1>3, <2>1, ProjectedIn
<1> QED BY <1>1, <1>2, <1>4

-----------------------------------------------------------------------------
(* The overlay. *)

RequestsIn(batch) == {p \in batch : log[p].type \in ToolRequests}
AnsweredIn(batch) == {log[p].of : p \in {q \in batch : log[q].type \in ToolAnswers}}

\* What Fold makes of a view.
LEMMA FoldIs ==
    ASSUME log \in Seq(Events), NEW v \in Views, v.cursor <= Len(log),
           v.completions \subseteq v.requests
    PROVE  LET f == Fold(v)
               batch == v.cursor + 1 .. Len(log)
               requests == v.requests \cup RequestsIn(batch)
           IN  /\ f \in Views
               /\ f.cursor = Len(log)
               /\ f.direction = Projected(v).direction
               /\ f.current = Projected(v).current
               /\ f.states = Projected(v).states
               /\ f.stack = Projected(v).stack
               /\ HasToolEvents(batch) =>
                      /\ f.requests = requests \ v.completions
                      /\ f.completions = (AnsweredIn(batch) \cap requests) \ v.completions
               /\ ~ HasToolEvents(batch) =>
                      f.requests = v.requests /\ f.completions = v.completions
<1> DEFINE batch == v.cursor + 1 .. Len(log)
           P == Projected(v)
           answered == v.requests \cap v.completions
           overlaid == IF HasToolEvents(batch) THEN Evict(Attach(P, batch), answered) ELSE P
<1>0. Len(log) \in Nat /\ batch \subseteq Nat
  BY DEF Views
<1>1. /\ P \in Views
      /\ P.cursor = v.cursor
      /\ P.requests = v.requests
      /\ P.completions = v.completions
  BY ProjectedFrame
<1>2. Fold(v) = [overlaid EXCEPT !.cursor = Len(log)]
  BY DEF Fold
<1>3. answered = v.completions
  OBVIOUS
<1> HIDE DEF batch, P, answered
<1>4. CASE HasToolEvents(batch)
  <2> DEFINE requests == v.requests \cup RequestsIn(batch)
             completions == v.completions \cup (AnsweredIn(batch) \cap requests)
  <2>1. requests \subseteq Nat /\ completions \subseteq Nat
    BY <1>0 DEF Views, RequestsIn
  <2>2. Attach(P, batch) = [P EXCEPT !.requests = requests, !.completions = completions]
    BY <1>1 DEF Attach, RequestsIn, AnsweredIn
  <2> HIDE DEF requests, completions
  <2>3. overlaid = [[P EXCEPT !.requests = requests, !.completions = completions]
                      EXCEPT !.requests = requests \ v.completions,
                             !.completions = completions \ v.completions]
    BY <1>1, <1>3, <1>4, <2>2 DEF Evict, Views
  <2> HIDE DEF overlaid
  <2>a. overlaid = [P EXCEPT !.requests = requests \ v.completions,
                             !.completions = completions \ v.completions]
    BY <1>1, <2>3 DEF Views
  <2>b. Fold(v) = [P EXCEPT !.requests = requests \ v.completions,
                            !.completions = completions \ v.completions,
                            !.cursor = Len(log)]
    BY <1>1, <1>2, <2>a DEF Views
  <2>c. requests \ v.completions \in SUBSET Nat /\ completions \ v.completions \in SUBSET Nat
    BY <2>1
  <2>4. /\ Fold(v) \in Views
        /\ Fold(v).cursor = Len(log)
        /\ Fold(v).direction = P.direction
        /\ Fold(v).current = P.current
        /\ Fold(v).states = P.states
        /\ Fold(v).stack = P.stack
        /\ Fold(v).requests = requests \ v.completions
        /\ Fold(v).completions = completions \ v.completions
    <3>1. Len(log) \in Nat
      BY <1>0
    <3> QED BY <1>1, <2>b, <2>c, <3>1 DEF Views
  <2>5. completions \ v.completions = (AnsweredIn(batch) \cap requests) \ v.completions
    BY DEF completions
  <2> QED BY <1>4, <2>4, <2>5 DEF batch, P, requests
<1>5. CASE ~ HasToolEvents(batch)
  <2>1. overlaid = P
    BY <1>5
  <2> HIDE DEF overlaid
  <2>2. /\ Fold(v) \in Views
        /\ Fold(v).cursor = Len(log)
        /\ Fold(v).direction = P.direction
        /\ Fold(v).current = P.current
        /\ Fold(v).states = P.states
        /\ Fold(v).stack = P.stack
        /\ Fold(v).requests = v.requests
        /\ Fold(v).completions = v.completions
    BY <1>0, <1>1, <1>2, <2>1 DEF Views
  <2> QED BY <1>5, <2>2 DEF batch, P
<1> QED BY <1>4, <1>5

\* What FoldEmitted makes of a view.
LEMMA FoldEmittedIs ==
    ASSUME NEW v \in Views, NEW emitted \in SUBSET Nat, v.completions \subseteq v.requests
    PROVE  LET f == FoldEmitted(v, emitted)
               requests == v.requests \cup RequestsIn(emitted)
               completions == v.completions \cup (AnsweredIn(emitted) \cap requests)
           IN  /\ f \in Views
               /\ f.cursor = v.cursor
               /\ f.direction = v.direction
               /\ f.current = v.current
               /\ f.states = v.states
               /\ f.stack = v.stack
               /\ HasToolEvents(emitted) =>
                      f.requests = requests \ completions /\ f.completions = {}
               /\ ~ HasToolEvents(emitted) => f = v
<1> DEFINE requests == v.requests \cup RequestsIn(emitted)
           completions == v.completions \cup (AnsweredIn(emitted) \cap requests)
<1>1. requests \subseteq Nat /\ completions \subseteq Nat
  BY DEF Views, RequestsIn
<1>2. Attach(v, emitted) = [v EXCEPT !.requests = requests, !.completions = completions]
  BY DEF Attach, RequestsIn, AnsweredIn
<1>3. CASE HasToolEvents(emitted)
  <2> HIDE DEF requests, completions
  <2>1. Attach(v, emitted).completions = completions /\ Attach(v, emitted).requests = requests
    BY <1>2 DEF Views
  <2>2. FoldEmitted(v, emitted) =
            [Attach(v, emitted) EXCEPT !.requests = requests \ completions,
                                       !.completions = completions \ completions]
    BY <1>2, <1>3, <2>1 DEF FoldEmitted, Evict, Views
  <2>3. completions \ completions = {}
    OBVIOUS
  <2>4. /\ FoldEmitted(v, emitted) \in Views
        /\ FoldEmitted(v, emitted).cursor = v.cursor
        /\ FoldEmitted(v, emitted).direction = v.direction
        /\ FoldEmitted(v, emitted).current = v.current
        /\ FoldEmitted(v, emitted).states = v.states
        /\ FoldEmitted(v, emitted).stack = v.stack
        /\ FoldEmitted(v, emitted).requests = requests \ completions
        /\ FoldEmitted(v, emitted).completions = {}
    <3>1. FoldEmitted(v, emitted) =
              [v EXCEPT !.requests = requests \ completions, !.completions = {}]
      BY <1>2, <2>2, <2>3 DEF Views
    <3>2. requests \ completions \in SUBSET Nat
      BY <1>1
    <3> QED BY <3>1, <3>2 DEF Views
  <2> QED BY <1>3, <2>4 DEF requests, completions
<1>4. CASE ~ HasToolEvents(emitted)
  BY <1>4 DEF FoldEmitted
<1> QED BY <1>3, <1>4

-----------------------------------------------------------------------------
(* What the systems emit. *)

Dispatching == {"step_started", "awaiting_approval", "requested", "compensating"}

\* The types of the events that name the step the saga has come to.
Moves == {"step_started", "awaiting_approval", "requested", "compensation_failed", "dlq"}

\* y may be emitted after x in one tick.
Follows(x, y) ==
    /\ x.type \in {"requested", "compensating", "undo"} => y.type \notin Dispatching
    /\ x.type \in Moves /\ y.type \in Moves => x.step <= y.step

Ordered(s) == \A i, j \in DOMAIN s : i < j => Follows(s[i], s[j])

LEMMA OrderedConcat ==
    ASSUME NEW s \in Seq(Events), NEW t \in Seq(Events), Ordered(s), Ordered(t),
           \A x \in Range(s), y \in Range(t) : Follows(x, y)
    PROVE  Ordered(s \o t)
<1>1. /\ s \o t \in Seq(Events)
      /\ Len(s) \in Nat /\ Len(t) \in Nat
      /\ DOMAIN s = 1 .. Len(s) /\ DOMAIN t = 1 .. Len(t)
      /\ DOMAIN (s \o t) = 1 .. Len(s) + Len(t)
      /\ \A i \in 1 .. Len(s) + Len(t) :
             (s \o t)[i] = IF i <= Len(s) THEN s[i] ELSE t[i - Len(s)]
  BY ConcatProperties, LenProperties
<1> SUFFICES ASSUME NEW i \in 1 .. Len(s) + Len(t), NEW j \in 1 .. Len(s) + Len(t), i < j
             PROVE  Follows((s \o t)[i], (s \o t)[j])
  BY <1>1 DEF Ordered
<1>2. CASE j <= Len(s)
  <2>1. (s \o t)[i] = s[i] /\ (s \o t)[j] = s[j] /\ i \in DOMAIN s /\ j \in DOMAIN s
    BY <1>1, <1>2
  <2> QED BY <2>1 DEF Ordered
<1>3. CASE i > Len(s)
  <2>1. /\ (s \o t)[i] = t[i - Len(s)] /\ (s \o t)[j] = t[j - Len(s)]
        /\ i - Len(s) \in DOMAIN t /\ j - Len(s) \in DOMAIN t /\ i - Len(s) < j - Len(s)
    BY <1>1, <1>3
  <2> QED BY <2>1 DEF Ordered
<1>4. CASE i <= Len(s) /\ j > Len(s)
  <2>1. /\ (s \o t)[i] = s[i] /\ (s \o t)[j] = t[j - Len(s)]
        /\ i \in DOMAIN s /\ j - Len(s) \in DOMAIN t
    BY <1>1, <1>4
  <2>2. s[i] \in Range(s) /\ t[j - Len(s)] \in Range(t)
    BY <2>1 DEF Range
  <2> QED BY <2>1, <2>2
<1> QED BY <1>1, <1>2, <1>3, <1>4

\* The least step after a that is not skipped, if there is one.
LEMMA NextStepIs ==
    ASSUME NEW a \in 0 .. Length
    PROVE  \/ NextStep(a) = 0
           \/ /\ NextStep(a) \in Steps \ skipped
              /\ a < NextStep(a)
              /\ \A t \in Steps : a < t /\ t < NextStep(a) => t \in skipped
<1> DEFINE steps == {s \in Steps \ skipped : s > a}
<1>0. steps \subseteq Nat /\ Steps \subseteq Nat /\ a \in Nat
  BY SagaAssumption DEF Steps
<1>1. CASE steps = {}
  BY <1>1 DEF NextStep
<1>2. CASE steps # {}
  <2>1. \E s \in steps : \A t \in steps : s <= t
    <3> HIDE DEF steps
    <3> QED BY <1>0, <1>2, Least
  <2>2. NextStep(a) \in steps /\ \A t \in steps : NextStep(a) <= t
    <3>1. NextStep(a) = CHOOSE s \in steps : \A t \in steps : s <= t
      BY <1>2 DEF NextStep
    <3> HIDE DEF steps
    <3> QED BY <2>1, <3>1
  <2>3. ASSUME NEW t \in Steps, a < t, t < NextStep(a) PROVE t \in skipped
    BY <1>0, <2>2, <2>3
  <2> QED BY <2>2, <2>3
<1> QED BY <1>1, <1>2

LEMMA PlainEvent ==
    ASSUME NEW type \in EventTypes, NEW step \in 0 .. Length, type \notin Records,
           type \in {"requested", "undo", "step_started", "awaiting_approval",
                     "compensation_started"} => step \in Steps
    PROVE  Event(type, step) \in Events
BY DEF Event, Events, ToolRequests

\* A pair of events in a sequence.
LEMMA Pair ==
    ASSUME NEW x \in Events, NEW y \in Events, Follows(x, y)
    PROVE  /\ <<x, y>> \in Seq(Events)
           /\ Range(<<x, y>>) = {x, y}
           /\ Ordered(<<x, y>>)
           /\ Len(<<x, y>>) = 2
           /\ <<x, y>>[2] = y
<1>1. DOMAIN <<x, y>> = 1 .. 2 /\ <<x, y>>[1] = x /\ <<x, y>>[2] = y
  OBVIOUS
<1>2. 1 .. 2 = {1, 2}
  OBVIOUS
<1>3. Range(<<x, y>>) = {x, y}
  BY <1>1, <1>2 DEF Range
<1>4. Ordered(<<x, y>>)
  BY <1>1, <1>2 DEF Ordered
<1> QED BY <1>1, <1>3, <1>4

LEMMA Single ==
    ASSUME NEW x \in Events
    PROVE  /\ <<x>> \in Seq(Events)
           /\ Range(<<x>>) = {x}
           /\ Ordered(<<x>>)
           /\ Len(<<x>>) = 1
           /\ <<x>>[1] = x
<1>1. DOMAIN <<x>> = {1} /\ <<x>>[1] = x
  OBVIOUS
<1> QED BY <1>1 DEF Range, Ordered

Asked(k) == Event(IF k \in Human THEN "awaiting_approval" ELSE "requested", k)

LEMMA DispatchIs ==
    ASSUME NEW k \in 0 .. Length
    PROVE  /\ Dispatch(k) \in Seq(Events)
           /\ Ordered(Dispatch(k))
           /\ k = 0 => Range(Dispatch(k)) = {Event("done", 0)}
           /\ k # 0 => Range(Dispatch(k)) = {Event("step_started", k), Asked(k)}
           /\ Dispatch(k) # <<>>
           /\ Dispatch(k)[Len(Dispatch(k))] = IF k = 0 THEN Event("done", 0) ELSE Asked(k)
<1>0. Length \in Nat /\ 0 \in 0 .. Length
  BY SagaAssumption
<1>1. CASE k = 0
  <2>1. Event("done", 0) \in Events
    BY <1>0, PlainEvent DEF EventTypes, Records
  <2>2. Dispatch(k) = <<Event("done", 0)>>
    BY <1>1 DEF Dispatch
  <2>3. <<Event("done", 0)>> # <<>>
    OBVIOUS
  <2> QED BY <1>1, <2>1, <2>2, <2>3, Single
<1>2. CASE k # 0
  <2>1. k \in Steps
    BY <1>0, <1>2 DEF Steps
  <2>2. Event("step_started", k) \in Events /\ Asked(k) \in Events
    BY <2>1, PlainEvent DEF Asked, EventTypes, Records, ToolRequests
  <2>3. Dispatch(k) = <<Event("step_started", k), Asked(k)>>
    BY <1>2 DEF Dispatch, Asked
  <2>4. Follows(Event("step_started", k), Asked(k))
    BY DEF Follows, Event, Asked
  <2>5. <<Event("step_started", k), Asked(k)>> # <<>>
    OBVIOUS
  <2> QED BY <1>2, <2>2, <2>3, <2>4, <2>5, Pair
<1> QED BY <1>1, <1>2

LEMMA UndoIs ==
    ASSUME NEW order \in Seq(Steps)
    PROVE  /\ Undo(order) \in Seq(Events)
           /\ \A e \in Range(Undo(order)) : \E s \in Range(order) :
                  e = Event("compensation_started", s) \/ e = Event("undo", s)
           /\ Ordered(Undo(order))
<1> DEFINE n == Len(order)
           undo == Undo(order)
           At(i) == IF i % 2 = 1 THEN Event("compensation_started", order[(i + 1) \div 2])
                    ELSE Event("undo", order[i \div 2])
<1>0. n \in Nat /\ DOMAIN order = 1 .. n /\ 2 * n \in Nat
  OBVIOUS
<1>1. undo = [i \in 1 .. 2 * n |-> At(i)]
  BY DEF Undo
<1>2. ASSUME NEW i \in 1 .. 2 * n
      PROVE  \E s \in Range(order) :
                 At(i) = Event("compensation_started", s) \/ At(i) = Event("undo", s)
  <2>1. CASE i % 2 = 1
    <3>1. (i + 1) \div 2 \in 1 .. n
      BY <1>0, <2>1
    <3>2. order[(i + 1) \div 2] \in Range(order)
      BY <1>0, <3>1 DEF Range
    <3>3. At(i) = Event("compensation_started", order[(i + 1) \div 2])
      BY <2>1
    <3> QED BY <3>2, <3>3
  <2>2. CASE i % 2 # 1
    <3>1. i \div 2 \in 1 .. n
      BY <1>0, <2>2
    <3>2. order[i \div 2] \in Range(order)
      BY <1>0, <3>1 DEF Range
    <3>3. At(i) = Event("undo", order[i \div 2])
      BY <2>2
    <3> QED BY <3>2, <3>3
  <2> QED BY <2>1, <2>2
<1>3. Range(order) \subseteq Steps
  BY RangeOfSeq
<1>4. ASSUME NEW s \in Steps
      PROVE  Event("compensation_started", s) \in Events /\ Event("undo", s) \in Events
  <2>1. s \in 0 .. Length
    BY SagaAssumption DEF Steps
  <2> QED BY <2>1, PlainEvent DEF EventTypes, Records, ToolRequests
<1> HIDE DEF At, n
<1>5. \A i \in 1 .. 2 * n : At(i) \in Events
  BY <1>2, <1>3, <1>4
<1>6. undo \in [1 .. 2 * n -> Events] /\ DOMAIN undo = 1 .. 2 * n
  <2> HIDE DEF undo
  <2> QED BY <1>1, <1>5
<1>7. undo \in Seq(Events)
  <2> HIDE DEF undo
  <2> QED BY <1>0, <1>6, SeqDef
<1>8. ASSUME NEW i \in DOMAIN undo
      PROVE  undo[i].type \in {"compensation_started", "undo"}
  <2>1. undo[i] = At(i) /\ i \in 1 .. 2 * n
    <3> HIDE DEF undo
    <3> QED BY <1>1, <1>6
  <2> HIDE DEF undo
  <2> QED BY <1>2, <2>1 DEF Event
<1>9. \A e \in Range(undo) : \E i \in 1 .. 2 * n : e = At(i)
  <2> HIDE DEF undo
  <2> QED BY <1>1, <1>6 DEF Range
<1> HIDE DEF undo
<1>10. Ordered(undo)
  <2>1. ASSUME NEW i \in DOMAIN undo, NEW j \in DOMAIN undo PROVE Follows(undo[i], undo[j])
    BY <1>8 DEF Follows, Dispatching, Moves
  <2> QED BY <2>1 DEF Ordered
<1> QED BY <1>2, <1>7, <1>9, <1>10 DEF undo

\* The steps that a compensation may undo.
Undone(v) == {s \in Steps : Contains(v.stack, s) \/ v.states[s] \in {"completed", "failed"}}

LEMMA BeginIs ==
    ASSUME NEW v \in Views
    PROVE  /\ BeginCompensation(v) \in Seq(Events)
           /\ Event("compensating", 0) \in Range(BeginCompensation(v))
           /\ \A e \in Range(BeginCompensation(v)) :
                  \/ e = Event("compensating", 0)
                  \/ \E s \in Undone(v) :
                         e = Event("compensation_started", s) \/ e = Event("undo", s)
           /\ Ordered(BeginCompensation(v))
<1> DEFINE steps == {s \in Compensable : v.states[s] \in {"completed", "failed"}}
           order == IF v.stack # <<>> THEN v.stack ELSE Backwards(steps)
           first == <<Event("compensating", 0)>>
<1>0. Event("compensating", 0) \in Events
  BY SagaAssumption, PlainEvent DEF EventTypes, Records
<1>1. steps \in SUBSET Steps
  BY SagaAssumption
<1>2. Backwards(steps) \in Seq(steps)
  <2> HIDE DEF steps
  <2> QED BY <1>1, BackwardsSeq
<1>3. v.stack \in Seq(Steps)
  BY DEF Views
<1>4. order \in Seq(Steps)
  <2> HIDE DEF steps
  <2> QED BY <1>1, <1>2, <1>3, SeqMonotonic
<1>5. ASSUME NEW s \in Range(order) PROVE s \in Undone(v)
  <2>1. s \in Steps
    BY <1>4, RangeOfSeq
  <2>2. CASE v.stack # <<>>
    <3>1. order = v.stack
      BY <2>2
    <3>2. Contains(v.stack, s)
      BY <1>3, <1>5, <3>1, RangeEquality DEF Contains
    <3> QED BY <2>1, <3>2 DEF Undone
  <2>3. CASE v.stack = <<>>
    <3>1. order = Backwards(steps)
      BY <2>3
    <3>2. Range(Backwards(steps)) \subseteq steps
      <4> HIDE DEF steps
      <4> QED BY <1>2, RangeOfSeq
    <3> QED BY <1>5, <2>1, <3>1, <3>2 DEF Undone
  <2> QED BY <2>2, <2>3
<1> HIDE DEF order
<1>6. Reverse(order) \in Seq(Steps) /\ Range(Reverse(order)) \subseteq Range(order)
  <2>1. Len(order) \in Nat /\ DOMAIN order = 1 .. Len(order)
    BY <1>4
  <2>2. ASSUME NEW i \in 1 .. Len(order)
        PROVE  order[(Len(order) - i) + 1] \in Range(order) \cap Steps
    <3>1. (Len(order) - i) + 1 \in 1 .. Len(order)
      BY <2>1
    <3> QED BY <1>4, <2>1, <3>1 DEF Range
  <2>3. Reverse(order) \in [1 .. Len(order) -> Range(order) \cap Steps]
    BY <2>2 DEF Reverse
  <2>4. Reverse(order) \in Seq(Range(order) \cap Steps)
    BY <2>1, <2>3, SeqDef
  <2>5. Range(Reverse(order)) \subseteq Range(order) \cap Steps
    BY <2>4, RangeOfSeq
  <2> QED BY <2>4, <2>5, SeqMonotonic
<1>7. BeginCompensation(v) = first \o Undo(Reverse(order))
  BY DEF BeginCompensation, order
<1>8. /\ first \in Seq(Events) /\ Range(first) = {Event("compensating", 0)} /\ Ordered(first)
  BY <1>0, Single
<1>9. /\ Undo(Reverse(order)) \in Seq(Events) /\ Ordered(Undo(Reverse(order)))
      /\ \A e \in Range(Undo(Reverse(order))) : \E s \in Undone(v) :
             e = Event("compensation_started", s) \/ e = Event("undo", s)
  BY <1>5, <1>6, UndoIs
<1> HIDE DEF first
<1>10. ASSUME NEW x \in Range(first), NEW y \in Range(Undo(Reverse(order)))
       PROVE  Follows(x, y)
  <2>1. y.type \in {"compensation_started", "undo"} /\ x.type = "compensating"
    BY <1>8, <1>9 DEF Event
  <2> QED BY <2>1 DEF Follows, Dispatching, Moves
<1>11. /\ BeginCompensation(v) \in Seq(Events)
       /\ Range(BeginCompensation(v)) = Range(first) \cup Range(Undo(Reverse(order)))
  BY <1>7, <1>8, <1>9, ConcatProperties, RangeConcatenation
<1>12. Ordered(BeginCompensation(v))
  BY <1>7, <1>8, <1>9, <1>10, OrderedConcat
<1> QED BY <1>8, <1>9, <1>11, <1>12

-----------------------------------------------------------------------------
(* The output of a tick. *)

LogInv ==
    /\ log \in Seq(Events)
    /\ log # <<>>
    /\ \A p \in DOMAIN log :
           /\ log[p].of < p
           /\ log[p].type = "started" => p = 1
           /\ log[p].type \in ToolAnswers =>
                  log[p].of \in DOMAIN log /\ log[log[p].of].type \in ToolRequests

ViewInv(v) ==
    /\ v \in Views
    /\ v.cursor <= Len(log)
    /\ v.completions \subseteq v.requests
    /\ \A p \in v.requests : p \in DOMAIN log /\ log[p].type \in ToolRequests

RecordOf(v, kind) ==
    Record(IF kind = "failed" THEN "step_failed" ELSE "step_completed", v.current,
           [v.states EXCEPT ![v.current] = kind])

\* The trigger is taken for the answer of the current step.
Handles(v) == Trigger(v).type \in ToolAnswers /\ ~ UndoFailed(v) /\ StepAnswered(v)

LEMMA EmitsIs ==
    ASSUME NEW v
    PROVE  \/ Trigger(v).type = "started" /\ Emits(v) = Dispatch(NextStep(0))
           \/ /\ Trigger(v).type = "timed_out"
              /\ v.direction = "forward"
              /\ Emits(v) = BeginCompensation(v)
           \/ Trigger(v).type = "compensation_failed" /\ Emits(v) = <<Event("dlq", v.current)>>
           \/ /\ UndoFailed(v)
              /\ Emits(v) = <<Event("compensation_failed", v.current), Event("dlq", v.current)>>
           \/ /\ Handles(v)
              /\ \E kind \in {"completed", "failed"} :
                     Emits(v) = <<RecordOf(v, kind)>> \o Dispatch(NextStep(v.current))
           \/ Handles(v) /\ Emits(v) = <<RecordOf(v, "failed")>> \o BeginCompensation(v)
           \/ Trigger(v).type # "started" /\ ~ Handles(v) /\ Emits(v) = <<>>
<1> DEFINE type == Trigger(v).type
<1>0. ASSUME type \notin ToolAnswers PROVE ~ UndoFailed(v)
  BY <1>0 DEF UndoFailed
<1>1. CASE type = "started"
  <2>1. type \notin ToolAnswers
    BY <1>1 DEF ToolAnswers, WorkerAnswers
  <2> QED BY <1>0, <1>1, <2>1 DEF Emits
<1>2. CASE type = "timed_out" /\ v.direction = "forward"
  <2>1. type \notin ToolAnswers
    BY <1>2 DEF ToolAnswers, WorkerAnswers
  <2> QED BY <1>0, <1>2, <2>1 DEF Emits
<1>3. CASE type = "compensation_failed"
  <2>1. type \notin ToolAnswers
    BY <1>3 DEF ToolAnswers, WorkerAnswers
  <2> QED BY <1>0, <1>3, <2>1 DEF Emits
<1>4. CASE UndoFailed(v)
  <2>1. type \in ToolAnswers
    BY <1>4 DEF UndoFailed
  <2>2. type \notin {"started", "timed_out", "compensation_failed"}
    BY <2>1 DEF ToolAnswers, WorkerAnswers
  <2> HIDE DEF type
  <2>3. Emits(v) = <<Event("compensation_failed", v.current), Event("dlq", v.current)>>
    BY <1>4, <2>2 DEF Emits, type
  <2> QED BY <1>4, <2>3
<1>5. CASE Handles(v)
  <2> DEFINE kind == IF type = "completed" THEN "completed" ELSE "failed"
  <2>1. type \in ToolAnswers /\ ~ UndoFailed(v) /\ StepAnswered(v)
    BY <1>5 DEF Handles
  <2>2. type \notin {"started", "timed_out", "compensation_failed"}
    BY <2>1 DEF ToolAnswers, WorkerAnswers
  <2>3. Emits(v) = HandleCompletion(v, kind)
    BY <2>1, <2>2 DEF Emits
  <2>4. kind \in {"completed", "failed"}
    OBVIOUS
  <2>5. \/ HandleCompletion(v, kind) = <<RecordOf(v, kind)>> \o Dispatch(NextStep(v.current))
        \/ /\ kind = "failed"
           /\ HandleCompletion(v, kind) = <<RecordOf(v, kind)>> \o BeginCompensation(v)
    <3> HIDE DEF kind
    <3>1. CASE kind = "completed"
      BY <3>1 DEF HandleCompletion, RecordOf
    <3>2. CASE kind = "failed"
      BY <3>2 DEF HandleCompletion, RecordOf
    <3> QED BY <2>4, <3>1, <3>2
  <2> HIDE DEF kind
  <2> QED BY <1>5, <2>3, <2>4, <2>5
<1>6. CASE /\ type \notin {"started", "compensation_failed"}
           /\ ~ (type = "timed_out" /\ v.direction = "forward")
           /\ ~ UndoFailed(v)
           /\ ~ Handles(v)
  BY <1>6 DEF Emits, Handles
<1> QED BY <1>1, <1>2, <1>3, <1>4, <1>5, <1>6

\* A completion is handled for a step that a tool was requested for.
LEMMA HandlesStep ==
    ASSUME LogInv, NEW v, ViewInv(v), StepAnswered(v)
    PROVE  /\ v.current \in Steps
           /\ \E r \in v.requests \cap v.completions : log[r] = Event("requested", v.current)
<1>1. PICK r \in v.requests \cap v.completions : log[r] = Event("requested", v.current)
  BY DEF StepAnswered
<1>2. log[r] \in Events /\ log[r].type = "requested" /\ log[r].step = v.current
  BY <1>1 DEF LogInv, ViewInv, Event
<1>3. v.current \in Steps
  BY <1>2 DEF Events
<1> QED BY <1>1, <1>3

LEMMA RecordOfIs ==
    ASSUME NEW v \in Views, v.current \in Steps, NEW kind \in {"completed", "failed"}
    PROVE  /\ RecordOf(v, kind) \in Events
           /\ RecordOf(v, kind).type \in Records
           /\ RecordOf(v, kind).states = [v.states EXCEPT ![v.current] = kind]
<1> DEFINE states == [v.states EXCEPT ![v.current] = kind]
           type == IF kind = "failed" THEN "step_failed" ELSE "step_completed"
<1>1. states \in [Steps -> States]
  BY DEF Views, States
<1>2. type \in Records /\ type \in EventTypes \ ToolAnswers
  BY DEF Records, EventTypes, ToolAnswers, WorkerAnswers
<1>3. v.current \in 0 .. Length
  BY DEF Views
<1>4. RecordOf(v, kind) = [type |-> type, step |-> v.current, of |-> 0, states |-> states]
  BY DEF RecordOf, Record, Event
<1> HIDE DEF states, type
<1>5. RecordOf(v, kind) \in Events
  BY <1>1, <1>2, <1>3, <1>4 DEF Events, Records, ToolRequests
<1> QED BY <1>2, <1>4, <1>5 DEF states

\* What the systems emit is a sequence of events, in order.
LEMMA EmitsSeq ==
    ASSUME LogInv, NEW v, ViewInv(v)
    PROVE  /\ Emits(v) \in Seq(Events)
           /\ Ordered(Emits(v))
<1>0. v \in Views /\ v.current \in 0 .. Length /\ 0 \in 0 .. Length
  BY SagaAssumption DEF ViewInv, Views
<1>n. ASSUME NEW a \in 0 .. Length PROVE NextStep(a) \in 0 .. Length
  BY NextStepIs, SagaAssumption DEF Steps
<1>e. ASSUME NEW type \in {"dlq", "compensation_failed"}
      PROVE  Event(type, v.current) \in Events
  BY <1>0, PlainEvent DEF EventTypes, Records
<1>r. ASSUME Handles(v), NEW kind \in {"completed", "failed"},
             NEW rest \in Seq(Events), Ordered(rest)
      PROVE  /\ <<RecordOf(v, kind)>> \o rest \in Seq(Events)
             /\ Ordered(<<RecordOf(v, kind)>> \o rest)
  <2>1. RecordOf(v, kind) \in Events /\ RecordOf(v, kind).type \in Records
    BY <1>0, <1>r, HandlesStep, RecordOfIs DEF Handles
  <2>2. \A y \in Range(rest) : Follows(RecordOf(v, kind), y)
    BY <2>1 DEF Follows, Records, Moves
  <2>3. PICK x, first : x = RecordOf(v, kind) /\ first = <<x>>
    OBVIOUS
  <2>4. first \in Seq(Events) /\ Range(first) = {x} /\ Ordered(first)
    BY <2>1, <2>3, Single
  <2>5. \A y \in Range(first), z \in Range(rest) : Follows(y, z)
    BY <2>2, <2>3, <2>4
  <2>6. first \o rest \in Seq(Events)
    BY <2>4, ConcatProperties
  <2>7. Ordered(first \o rest)
    BY <1>r, <2>4, <2>5, OrderedConcat
  <2> QED BY <2>3, <2>6, <2>7
<1>1. CASE Emits(v) = Dispatch(NextStep(0))
  BY <1>0, <1>1, <1>n, DispatchIs
<1>2. CASE Emits(v) = BeginCompensation(v)
  BY <1>0, <1>2, BeginIs
<1>3. CASE Emits(v) = <<Event("dlq", v.current)>>
  BY <1>3, <1>e, Single
<1>4. CASE Emits(v) = <<Event("compensation_failed", v.current), Event("dlq", v.current)>>
  <2>1. Follows(Event("compensation_failed", v.current), Event("dlq", v.current))
    BY <1>0, SagaAssumption DEF Follows, Event
  <2> QED BY <1>4, <1>e, <2>1, Pair
<1>5. CASE /\ Handles(v)
           /\ \E kind \in {"completed", "failed"} :
                  Emits(v) = <<RecordOf(v, kind)>> \o Dispatch(NextStep(v.current))
  <2>1. Dispatch(NextStep(v.current)) \in Seq(Events) /\ Ordered(Dispatch(NextStep(v.current)))
    BY <1>0, <1>n, DispatchIs
  <2> QED BY <1>5, <1>r, <2>1
<1>6. CASE Handles(v) /\ Emits(v) = <<RecordOf(v, "failed")>> \o BeginCompensation(v)
  <2>1. BeginCompensation(v) \in Seq(Events) /\ Ordered(BeginCompensation(v))
    BY <1>0, BeginIs
  <2> QED BY <1>6, <1>r, <2>1
<1>7. CASE Emits(v) = <<>>
  BY <1>7 DEF Ordered
<1> QED BY <1>1, <1>2, <1>3, <1>4, <1>5, <1>6, <1>7, EmitsIs

\* SagaSystem goes on from step a.
Advances(v, a) ==
    \/ Trigger(v).type = "started" /\ a = 0
    \/ Handles(v) /\ a = v.current

\* SagaSystem starts to roll back.
Begins(v) == Handles(v) \/ (Trigger(v).type = "timed_out" /\ v.direction = "forward")

\* Each event that SagaSystem emits.
EmittedBy(v, e) ==
    \/ e = Event("done", 0)
    \/ \E a \in 0 .. Length : /\ Advances(v, a)
                              /\ NextStep(a) # 0
                              /\ e \in {Event("step_started", NextStep(a)), Asked(NextStep(a))}
    \/ Handles(v) /\ \E kind \in {"completed", "failed"} : e = RecordOf(v, kind)
    \/ Begins(v) /\ e = Event("compensating", 0)
    \/ Begins(v) /\ \E s \in Undone(v) :
                        e = Event("compensation_started", s) \/ e = Event("undo", s)
    \/ e = Event("compensation_failed", v.current)
    \/ e = Event("dlq", v.current)

\* A request comes with its step_started, an undo with "compensating".
Accompanied(s) ==
    /\ \A e \in Range(s) : e.type = "requested" => Event("step_started", e.step) \in Range(s)
    /\ \A e \in Range(s) : e.type = "undo" => Event("compensating", 0) \in Range(s)

LEMMA EmitsRange ==
    ASSUME LogInv, NEW v, ViewInv(v)
    PROVE  /\ \A e \in Range(Emits(v)) : EmittedBy(v, e)
           /\ Accompanied(Emits(v))
<1>0. v \in Views /\ v.current \in 0 .. Length /\ 0 \in 0 .. Length
  BY SagaAssumption DEF ViewInv, Views
<1>n. ASSUME NEW a \in 0 .. Length PROVE NextStep(a) \in 0 .. Length
  BY NextStepIs, SagaAssumption DEF Steps
<1>d. ASSUME NEW a \in 0 .. Length, Advances(v, a), NEW e \in Range(Dispatch(NextStep(a)))
      PROVE  /\ EmittedBy(v, e)
             /\ e.type = "requested" =>
                    Event("step_started", e.step) \in Range(Dispatch(NextStep(a)))
             /\ e.type # "undo"
  <2>1. CASE NextStep(a) = 0
    <3>1. e = Event("done", 0)
      BY <1>n, <1>d, <2>1, DispatchIs
    <3> QED BY <3>1 DEF EmittedBy, Event
  <2>2. CASE NextStep(a) # 0
    <3>1. /\ Range(Dispatch(NextStep(a))) =
                 {Event("step_started", NextStep(a)), Asked(NextStep(a))}
      BY <1>n, <2>2, DispatchIs
    <3>2. EmittedBy(v, e)
      BY <1>d, <2>2, <3>1 DEF EmittedBy
    <3>3. e.step = NextStep(a) /\ e.type # "undo"
      BY <1>d, <3>1 DEF Event, Asked
    <3> QED BY <3>1, <3>2, <3>3
  <2> QED BY <2>1, <2>2
<1>b. ASSUME Begins(v), NEW e \in Range(BeginCompensation(v))
      PROVE  /\ EmittedBy(v, e)
             /\ e.type # "requested"
             /\ Event("compensating", 0) \in Range(BeginCompensation(v))
  <2>1. \/ e = Event("compensating", 0)
        \/ \E s \in Undone(v) : e = Event("compensation_started", s) \/ e = Event("undo", s)
    BY <1>0, <1>b, BeginIs
  <2>2. e.type # "requested"
    BY <2>1 DEF Event
  <2> QED BY <1>0, <1>b, <2>1, <2>2, BeginIs DEF EmittedBy
<1>r. ASSUME Handles(v), NEW kind \in {"completed", "failed"}, NEW rest \in Seq(Events)
      PROVE  /\ Range(<<RecordOf(v, kind)>> \o rest) = {RecordOf(v, kind)} \cup Range(rest)
             /\ EmittedBy(v, RecordOf(v, kind))
             /\ RecordOf(v, kind).type \notin {"requested", "undo"}
  <2>1. RecordOf(v, kind) \in Events /\ RecordOf(v, kind).type \in Records
    BY <1>0, <1>r, HandlesStep, RecordOfIs DEF Handles
  <2>2. <<RecordOf(v, kind)>> \in Seq(Events) /\ Range(<<RecordOf(v, kind)>>) = {RecordOf(v, kind)}
    BY <2>1, Single
  <2> DEFINE one == <<RecordOf(v, kind)>>
  <2>3. Range(one \o rest) = {RecordOf(v, kind)} \cup Range(rest)
    <3>1. one \in Seq(Events) /\ Range(one) = {RecordOf(v, kind)} /\ rest \in Seq(Events)
      BY <1>r, <2>2
    <3> HIDE DEF one
    <3> QED BY <3>1, RangeConcatenation
  <2>4. EmittedBy(v, RecordOf(v, kind))
    BY <1>r DEF EmittedBy
  <2> QED BY <2>1, <2>3, <2>4 DEF Records
<1>1. CASE Trigger(v).type = "started" /\ Emits(v) = Dispatch(NextStep(0))
  <2>1. Advances(v, 0)
    BY <1>1 DEF Advances
  <2> QED BY <1>0, <1>1, <1>d, <2>1 DEF Accompanied
<1>2. CASE /\ Trigger(v).type = "timed_out"
           /\ v.direction = "forward"
           /\ Emits(v) = BeginCompensation(v)
  <2>1. Begins(v)
    BY <1>2 DEF Begins
  <2> QED BY <1>2, <1>b, <2>1 DEF Accompanied
<1>e. ASSUME NEW type \in {"dlq", "compensation_failed"}
      PROVE  /\ Event(type, v.current) \in Events
             /\ EmittedBy(v, Event(type, v.current))
             /\ Event(type, v.current).type \notin {"requested", "undo"}
  <2>1. Event(type, v.current) \in Events
    BY <1>0, PlainEvent DEF EventTypes, Records
  <2>2. EmittedBy(v, Event(type, v.current))
    BY DEF EmittedBy
  <2>3. Event(type, v.current).type \notin {"requested", "undo"}
    BY DEF Event
  <2> QED BY <2>1, <2>2, <2>3
<1>3. CASE Emits(v) = <<Event("dlq", v.current)>>
  <2>1. Range(Emits(v)) = {Event("dlq", v.current)}
    BY <1>3, <1>e, Single
  <2> QED BY <1>e, <2>1 DEF Accompanied
<1>4. CASE Emits(v) = <<Event("compensation_failed", v.current), Event("dlq", v.current)>>
  <2>1. Follows(Event("compensation_failed", v.current), Event("dlq", v.current))
    BY <1>0, SagaAssumption DEF Follows, Event
  <2>2. Range(Emits(v)) = {Event("compensation_failed", v.current), Event("dlq", v.current)}
    BY <1>4, <1>e, <2>1, Pair
  <2> QED BY <1>e, <2>2 DEF Accompanied
<1>5. CASE /\ Handles(v)
           /\ \E kind \in {"completed", "failed"} :
                  Emits(v) = <<RecordOf(v, kind)>> \o Dispatch(NextStep(v.current))
  <2> DEFINE rest == Dispatch(NextStep(v.current))
  <2>0. PICK kind \in {"completed", "failed"} : Emits(v) = <<RecordOf(v, kind)>> \o rest
    BY <1>5
  <2>1. Advances(v, v.current)
    BY <1>5 DEF Advances
  <2>2. rest \in Seq(Events)
    BY <1>0, <1>n, DispatchIs
  <2>3. \A e \in Range(rest) : /\ EmittedBy(v, e)
                               /\ e.type = "requested" =>
                                      Event("step_started", e.step) \in Range(rest)
                               /\ e.type # "undo"
    BY <1>0, <1>d, <2>1
  <2> HIDE DEF rest
  <2>4. /\ Range(Emits(v)) = {RecordOf(v, kind)} \cup Range(rest)
        /\ EmittedBy(v, RecordOf(v, kind))
        /\ RecordOf(v, kind).type \notin {"requested", "undo"}
    BY <1>5, <1>r, <2>0, <2>2
  <2>5. \A e \in Range(Emits(v)) : e = RecordOf(v, kind) \/ e \in Range(rest)
    BY <2>4
  <2>6. Range(rest) \subseteq Range(Emits(v))
    BY <2>4
  <2>7. \A e \in Range(Emits(v)) : EmittedBy(v, e)
    BY <2>3, <2>4, <2>5
  <2>8. Accompanied(Emits(v))
    <3>1. ASSUME NEW e \in Range(Emits(v)), e.type \in {"requested", "undo"}
          PROVE  e \in Range(rest)
      BY <2>4, <2>5, <3>1
    <3>2. ASSUME NEW e \in Range(Emits(v)), e.type = "requested"
          PROVE  Event("step_started", e.step) \in Range(Emits(v))
      BY <2>3, <2>6, <3>1, <3>2
    <3>3. \A e \in Range(Emits(v)) : e.type # "undo"
      BY <2>3, <3>1
    <3> QED BY <3>2, <3>3 DEF Accompanied
  <2> QED BY <2>7, <2>8
<1>6. CASE Handles(v) /\ Emits(v) = <<RecordOf(v, "failed")>> \o BeginCompensation(v)
  <2> DEFINE rest == BeginCompensation(v)
  <2>1. Begins(v)
    BY <1>6 DEF Begins
  <2>2. rest \in Seq(Events)
    BY <1>0, BeginIs
  <2>3. \A e \in Range(rest) : /\ EmittedBy(v, e)
                               /\ e.type # "requested"
                               /\ Event("compensating", 0) \in Range(rest)
    BY <1>b, <2>1
  <2> HIDE DEF rest
  <2>4. /\ Range(Emits(v)) = {RecordOf(v, "failed")} \cup Range(rest)
        /\ EmittedBy(v, RecordOf(v, "failed"))
        /\ RecordOf(v, "failed").type \notin {"requested", "undo"}
    BY <1>6, <1>r, <2>2 DEF rest
  <2> QED BY <2>3, <2>4 DEF Accompanied
<1>7. CASE Emits(v) = <<>>
  <2>1. Range(Emits(v)) = {}
    BY <1>7 DEF Range
  <2> QED BY <2>1 DEF Accompanied
<1> QED BY <1>1, <1>2, <1>3, <1>4, <1>5, <1>6, <1>7, EmitsIs

\* What a tick has to append.
Output(v, expired) == EmitsExpired(expired) \o Emits(v) \o EmitsTimeout(v)

LEMMA OutputIs ==
    ASSUME LogInv, NEW v, ViewInv(v), NEW expired,
           expired = <<>> \/ \E p \in DOMAIN log : expired = <<p>>,
           Range(expired) \subseteq v.requests
    PROVE  /\ Output(v, expired) \in Seq(Events)
           /\ Ordered(Output(v, expired))
           /\ \A e \in Range(Output(v, expired)) :
                  \/ e \in Range(Emits(v))
                  \/ \E r \in Range(expired) : e = Answer("expired", r)
                  \/ overdue /\ v.direction = "forward" /\ e = Event("timed_out", v.current)
           /\ Range(Emits(v)) \subseteq Range(Output(v, expired))
           /\ expired = <<>> /\ ~ overdue => Output(v, expired) = Emits(v)
<1> DEFINE x == EmitsExpired(expired)
           s == Emits(v)
           t == EmitsTimeout(v)
<1>0. v \in Views /\ v.current \in 0 .. Length
  BY DEF ViewInv, Views
<1>1. /\ x \in Seq(Events)
      /\ Ordered(x)
      /\ \A e \in Range(x) : \E r \in Range(expired) : e = Answer("expired", r)
      /\ \A e \in Range(x) : e.type = "expired"
      /\ expired = <<>> => x = <<>>
  <2>1. CASE expired = <<>>
    <3>1. x = <<>>
      BY <2>1 DEF EmitsExpired
    <3>2. Range(<<>>) = {} /\ Ordered(<<>>)
      BY DEF Range, Ordered
    <3> QED BY <3>1, <3>2
  <2>2. ASSUME NEW p \in DOMAIN log, expired = <<p>>
        PROVE  /\ x \in Seq(Events)
               /\ Ordered(x)
               /\ \A e \in Range(x) : \E r \in Range(expired) : e = Answer("expired", r)
               /\ \A e \in Range(x) : e.type = "expired"
               /\ expired # <<>>
    <3>1. x = <<Answer("expired", p)>> /\ Range(expired) = {p} /\ expired # <<>>
      BY <2>2 DEF EmitsExpired, Range
    <3>2. log[p].step \in 0 .. Length /\ p \in Nat
      BY DEF LogInv, Events
    <3>3. Answer("expired", p) =
              [type |-> "expired", step |-> log[p].step, of |-> p, states |-> NoStates]
      BY DEF Answer, Event
    <3>4. Answer("expired", p) \in Events
      BY <3>2, <3>3 DEF Events, EventTypes, ToolAnswers, Records, ToolRequests
    <3>5. Answer("expired", p).type = "expired"
      BY <3>3
    <3> QED BY <3>1, <3>4, <3>5, Single
  <2> QED BY <2>1, <2>2
<1>2. s \in Seq(Events) /\ Ordered(s)
  BY EmitsSeq
<1>3. /\ t \in Seq(Events)
      /\ Ordered(t)
      /\ \A e \in Range(t) : /\ overdue /\ v.direction = "forward"
                             /\ e = Event("timed_out", v.current)
      /\ ~ overdue => t = <<>>
  <2>1. Event("timed_out", v.current) \in Events
    BY <1>0, PlainEvent DEF EventTypes, Records
  <2>2. CASE overdue /\ v.direction = "forward"
    <3>1. t = <<Event("timed_out", v.current)>>
      BY <2>2 DEF EmitsTimeout
    <3>2. t \in Seq(Events) /\ Ordered(t) /\ Range(t) = {Event("timed_out", v.current)}
      BY <2>1, <3>1, Single
    <3> HIDE DEF t
    <3> QED BY <2>2, <3>2
  <2>3. CASE ~ (overdue /\ v.direction = "forward")
    <3>1. t = <<>>
      BY <2>3 DEF EmitsTimeout
    <3>2. Range(<<>>) = {} /\ Ordered(<<>>)
      BY DEF Range, Ordered
    <3> HIDE DEF t
    <3> QED BY <3>1, <3>2
  <2> QED BY <2>2, <2>3
<1>4. Output(v, expired) = (x \o s) \o t
  BY DEF Output
<1> HIDE DEF x, s, t
<1>5. ASSUME NEW e \in Range(x), NEW f \in Range(s) \cup Range(t) PROVE Follows(e, f)
  BY <1>1 DEF Follows, Moves
<1>6. ASSUME NEW e, NEW f \in Range(t) PROVE Follows(e, f)
  <2>1. f.type = "timed_out"
    BY <1>3 DEF Event
  <2> QED BY <2>1 DEF Follows, Dispatching, Moves
<1>7. x \o s \in Seq(Events) /\ Range(x \o s) = Range(x) \cup Range(s) /\ Ordered(x \o s)
  BY <1>1, <1>2, <1>5, ConcatProperties, RangeConcatenation, OrderedConcat
<1>8. /\ (x \o s) \o t \in Seq(Events)
      /\ Range((x \o s) \o t) = Range(x) \cup Range(s) \cup Range(t)
      /\ Ordered((x \o s) \o t)
  <2> DEFINE xs == x \o s
  <2>1. xs \in Seq(Events) /\ Ordered(xs)
    BY <1>7
  <2> HIDE DEF xs
  <2>2. xs \o t \in Seq(Events) /\ Range(xs \o t) = Range(xs) \cup Range(t) /\ Ordered(xs \o t)
    BY <1>3, <1>6, <2>1, ConcatProperties, RangeConcatenation, OrderedConcat
  <2> QED BY <1>7, <2>2 DEF xs
<1>9. ASSUME expired = <<>>, ~ overdue PROVE (x \o s) \o t = s
  <2>1. x = <<>> /\ t = <<>>
    BY <1>1, <1>3, <1>9
  <2>2. x \o s = s
    BY <1>2, <2>1, ConcatEmptySeq
  <2>3. s \o t = s
    BY <1>2, <2>1, ConcatEmptySeq
  <2> QED BY <2>2, <2>3
<1> QED BY <1>1, <1>3, <1>4, <1>8, <1>9 DEF s

\* A Read, whether or not a request expires.
LEMMA ReadIs ==
    ASSUME Read, LogInv
    PROVE  \E expired :
              /\ tick = NoTick
              /\ expired = <<>> \/ \E p \in DOMAIN log : expired = <<p>>
              /\ Range(expired) \subseteq Fold(saved).requests \ Fold(saved).completions
              /\ saved.cursor < Len(log) \/ Output(Fold(saved), expired) # <<>>
              /\ routed' = Len(log)
              /\ \/ /\ Output(Fold(saved), expired) = <<>>
                    /\ saved' = Fold(saved)
                    /\ tick' = tick
                 \/ /\ Output(Fold(saved), expired) # <<>>
                    /\ tick' = [view |-> Fold(saved), out |-> Output(Fold(saved), expired),
                                emitted |-> {}]
                    /\ saved' = saved
              /\ UNCHANGED <<skipped, log, overdue, torn>>
              /\ \/ faults' = faults /\ expired = <<>>
                 \/ faults' = faults + 1 /\ faults < MaxFaults
<1>1. ASSUME NEW expired, Tick(expired)
      PROVE  /\ Range(expired) \subseteq Fold(saved).requests \ Fold(saved).completions
             /\ saved.cursor < Len(log) \/ Output(Fold(saved), expired) # <<>>
             /\ routed' = Len(log)
             /\ \/ /\ Output(Fold(saved), expired) = <<>>
                   /\ saved' = Fold(saved)
                   /\ tick' = tick
                \/ /\ Output(Fold(saved), expired) # <<>>
                   /\ tick' = [view |-> Fold(saved), out |-> Output(Fold(saved), expired),
                               emitted |-> {}]
                   /\ saved' = saved
             /\ UNCHANGED <<skipped, log, overdue, torn>>
  BY <1>1 DEF Tick, Output
<1>2. CASE Tick(<<>>) /\ UNCHANGED faults
  BY <1>1, <1>2 DEF Read
<1>3. CASE Fault("expired") /\ \E p \in DOMAIN log : Tick(<<p>>)
  <2>1. PICK p \in DOMAIN log : Tick(<<p>>)
    BY <1>3
  <2>2. tick = NoTick /\ faults' = faults + 1 /\ faults < MaxFaults
    BY <1>3 DEF Read, Fault
  <2> DEFINE expired == <<p>>
  <2>3. Tick(expired) /\ \E q \in DOMAIN log : expired = <<q>>
    BY <2>1
  <2> HIDE DEF expired
  <2> QED BY <1>1, <2>2, <2>3
<1> QED BY <1>2, <1>3 DEF Read

-----------------------------------------------------------------------------
(* Type correctness. *)

\* A tick appends answers of the sweeper only, and no foreign event.
Emittable(e) ==
    /\ e.type \notin {"started", "other"} \cup WorkerAnswers
    /\ e.type = "expired" => e.of \in DOMAIN log /\ log[e.of].type \in ToolRequests

TickInv ==
    tick # NoTick =>
        /\ tick \in [view : Views, out : Seq(Events), emitted : SUBSET Nat]
        /\ ViewInv(tick.view)
        /\ saved.cursor <= tick.view.cursor
        /\ Ordered(tick.out)
        /\ \A e \in Range(tick.out) : Emittable(e)
        /\ tick.out # <<>> \/ tick.emitted # {}
        /\ tick.emitted \subseteq tick.view.cursor + 1 .. Len(log)
        /\ \A p \in tick.view.cursor + 1 .. Len(log) :
               IF p \in tick.emitted THEN log[p].type \notin WorkerAnswers
               ELSE log[p].type \in WorkerAnswers \cup {"other"}

TypeInv ==
    /\ skipped \subseteq Skippable
    /\ LogInv
    /\ ViewInv(saved)
    /\ TickInv
    /\ routed \in 0 .. Len(log)
    /\ overdue \in BOOLEAN
    /\ faults \in 0 .. MaxFaults
    /\ torn \in BOOLEAN

LEMMA TypeInvOK == TypeInv => TypeOK
<1> SUFFICES ASSUME TypeInv PROVE TypeOK
  OBVIOUS
<1>1. ASSUME NEW p \in DOMAIN log
      PROVE  log[p].type \in EventTypes /\ log[p].step \in 0 .. Length /\ log[p].of \in 0 .. p - 1
  <2>1. log[p] \in Events /\ log[p].of < p /\ p \in Nat
    BY DEF TypeInv, LogInv
  <2>2. log[p].of \in Nat
    BY <2>1 DEF Events
  <2>3. log[p].of \in 0 .. p - 1
    BY <2>1, <2>2
  <2> QED BY <2>1, <2>3 DEF Events
<1>2. saved \in Views /\ saved.cursor <= Len(log) /\ Len(log) \in Nat
  BY DEF TypeInv, ViewInv, LogInv
<1>3. /\ saved.cursor \in 0 .. Len(log)
      /\ saved.direction \in {"forward", "compensating", "compensation_failed", "done"}
      /\ saved.current \in 0 .. Length
      /\ saved.states \in [Steps -> States]
  BY <1>2 DEF Views, Directions
<1>4. tick = NoTick \/ tick.emitted \subseteq tick.view.cursor + 1 .. Len(log)
  BY DEF TypeInv, TickInv
<1> QED BY <1>1, <1>3, <1>4 DEF TypeInv, TypeOK, ViewInv

\* Where a log that grows keeps its events.
LEMMA AppendIs ==
    ASSUME log \in Seq(Events), NEW e \in Events, log' = Append(log, e)
    PROVE  /\ log' \in Seq(Events)
           /\ Len(log) \in Nat
           /\ Len(log') = Len(log) + 1
           /\ DOMAIN log = 1 .. Len(log)
           /\ DOMAIN log' = 1 .. Len(log) + 1
           /\ DOMAIN log' = DOMAIN log \cup {Len(log) + 1}
           /\ Len(log) + 1 \notin DOMAIN log
           /\ log'[Len(log) + 1] = e
           /\ \A p \in DOMAIN log : log'[p] = log[p]
<1>1. /\ log' \in Seq(Events)
      /\ Len(log) \in Nat
      /\ Len(log') = Len(log) + 1
      /\ DOMAIN log = 1 .. Len(log)
      /\ DOMAIN log' = 1 .. Len(log) + 1
      /\ log'[Len(log) + 1] = e
      /\ \A p \in 1 .. Len(log) : log'[p] = log[p]
  BY AppendProperties, LenProperties
<1> QED BY <1>1

LEMMA LogGrows ==
    ASSUME LogInv, NEW e \in Events, log' = Append(log, e), e.type # "started",
           e.type \in ToolAnswers => e.of \in DOMAIN log /\ log[e.of].type \in ToolRequests
    PROVE  LogInv'
<1>0. log \in Seq(Events)
  BY DEF LogInv
<1>1. /\ log' \in Seq(Events)
      /\ Len(log) \in Nat
      /\ DOMAIN log = 1 .. Len(log)
      /\ DOMAIN log' = DOMAIN log \cup {Len(log) + 1}
      /\ log'[Len(log) + 1] = e
      /\ \A p \in DOMAIN log : log'[p] = log[p]
  BY <1>0, AppendIs
<1>2. ASSUME NEW p \in DOMAIN log'
      PROVE  /\ log'[p].of < p
             /\ log'[p].type = "started" => p = 1
             /\ log'[p].type \in ToolAnswers =>
                    log'[p].of \in DOMAIN log' /\ log'[log'[p].of].type \in ToolRequests
  <2>1. CASE p \in DOMAIN log
    <3>1. /\ log[p].of < p
          /\ log[p].type = "started" => p = 1
          /\ log[p].type \in ToolAnswers =>
                 log[p].of \in DOMAIN log /\ log[log[p].of].type \in ToolRequests
      BY <2>1 DEF LogInv
    <3> QED BY <1>1, <2>1, <3>1
  <2>2. CASE p = Len(log) + 1
    <3>1. e.type \in ToolAnswers => e.of < Len(log) + 1
      BY <1>1
    <3>2. e.type \notin ToolAnswers => e.of = 0
      BY DEF Events
    <3>3. e.of < p
      BY <1>1, <2>2, <3>1, <3>2
    <3> QED BY <1>1, <2>2, <3>3
  <2> QED BY <1>1, <2>1, <2>2
<1>3. log' # <<>>
  BY <1>1
<1> QED BY <1>1, <1>2, <1>3 DEF LogInv

LEMMA ViewGrows ==
    ASSUME LogInv, NEW e \in Events, log' = Append(log, e), NEW v, ViewInv(v)
    PROVE  ViewInv(v)'
<1>1. /\ Len(log) \in Nat
      /\ Len(log') = Len(log) + 1
      /\ \A p \in DOMAIN log : p \in DOMAIN log' /\ log'[p] = log[p]
  BY AppendIs DEF LogInv
<1>2. v.cursor <= Len(log')
  BY <1>1 DEF ViewInv, Views
<1>3. \A p \in v.requests : p \in DOMAIN log' /\ log'[p].type \in ToolRequests
  BY <1>1 DEF ViewInv
<1>4. v \in Views /\ v.completions \subseteq v.requests
  BY DEF ViewInv
<1> QED BY <1>2, <1>3, <1>4 DEF ViewInv

LEMMA FoldView ==
    ASSUME LogInv, NEW v, ViewInv(v)
    PROVE  ViewInv(Fold(v)) /\ Fold(v).cursor = Len(log)
<1> DEFINE batch == v.cursor + 1 .. Len(log)
           f == Fold(v)
<1>0. /\ log \in Seq(Events) /\ v \in Views /\ v.cursor <= Len(log)
      /\ v.completions \subseteq v.requests
  BY DEF LogInv, ViewInv
<1>1. /\ f \in Views
      /\ f.cursor = Len(log)
      /\ \/ /\ f.requests = (v.requests \cup RequestsIn(batch)) \ v.completions
            /\ f.completions = (AnsweredIn(batch) \cap (v.requests \cup RequestsIn(batch)))
                                    \ v.completions
         \/ f.requests = v.requests /\ f.completions = v.completions
  <2> DEFINE requests == v.requests \cup RequestsIn(batch)
  <2>1. /\ f \in Views
        /\ f.cursor = Len(log)
        /\ HasToolEvents(batch) =>
               /\ f.requests = requests \ v.completions
               /\ f.completions = (AnsweredIn(batch) \cap requests) \ v.completions
        /\ ~ HasToolEvents(batch) =>
               f.requests = v.requests /\ f.completions = v.completions
    BY <1>0, FoldIs
  <2> QED BY <2>1
<1>2. batch \subseteq DOMAIN log
  BY <1>0 DEF Views
<1> HIDE DEF batch, f
<1>3. \A p \in f.requests : p \in DOMAIN log /\ log[p].type \in ToolRequests
  BY <1>1, <1>2 DEF ViewInv, RequestsIn
<1>4. f.completions \subseteq f.requests
  BY <1>0, <1>1
<1>5. f.cursor <= Len(log)
  BY <1>0, <1>1
<1>6. ViewInv(f)
  BY <1>1, <1>3, <1>4, <1>5 DEF ViewInv
<1> QED BY <1>1, <1>6 DEF f

LEMMA FoldEmittedView ==
    ASSUME LogInv, NEW v, ViewInv(v), NEW emitted \in SUBSET DOMAIN log
    PROVE  ViewInv(FoldEmitted(v, emitted)) /\ FoldEmitted(v, emitted).cursor = v.cursor
<1> DEFINE f == FoldEmitted(v, emitted)
           requests == v.requests \cup RequestsIn(emitted)
           completions == v.completions \cup (AnsweredIn(emitted) \cap requests)
<1>0. v \in Views /\ v.completions \subseteq v.requests /\ emitted \in SUBSET Nat
  BY DEF ViewInv, LogInv
<1>1. /\ f \in Views
      /\ f.cursor = v.cursor
      /\ \/ f.requests = requests \ completions /\ f.completions = {}
         \/ f = v
  BY <1>0, FoldEmittedIs
<1> HIDE DEF f
<1>2. \A p \in requests : p \in DOMAIN log /\ log[p].type \in ToolRequests
  BY DEF ViewInv, RequestsIn
<1> HIDE DEF requests, completions
<1>3. ViewInv(f)
  BY <1>1, <1>2 DEF ViewInv
<1> QED BY <1>1, <1>3 DEF f

LEMMA EmittedType ==
    ASSUME LogInv, NEW v, ViewInv(v), NEW e, EmittedBy(v, e)
    PROVE  e.type \notin {"started", "other", "timed_out"} \cup ToolAnswers
<1>1. ASSUME Handles(v), NEW kind \in {"completed", "failed"}, e = RecordOf(v, kind)
      PROVE  e.type \in Records
  BY <1>1, HandlesStep, RecordOfIs DEF Handles, ViewInv
<1>2. \/ e.type \in {"done", "step_started", "awaiting_approval", "requested", "compensating",
                     "compensation_started", "undo", "compensation_failed", "dlq"}
      \/ e.type \in Records
  BY <1>1 DEF EmittedBy, Event, Asked
<1> QED BY <1>2 DEF Records, ToolAnswers, WorkerAnswers

LEMMA OutputEmittable ==
    ASSUME LogInv, NEW v, ViewInv(v), NEW expired,
           expired = <<>> \/ \E p \in DOMAIN log : expired = <<p>>,
           Range(expired) \subseteq v.requests
    PROVE  \A e \in Range(Output(v, expired)) : Emittable(e)
<1> SUFFICES ASSUME NEW e \in Range(Output(v, expired)) PROVE Emittable(e)
  OBVIOUS
<1>1. CASE e \in Range(Emits(v))
  <2>1. EmittedBy(v, e)
    BY <1>1, EmitsRange
  <2> QED BY <2>1, EmittedType DEF Emittable, ToolAnswers, WorkerAnswers
<1>2. ASSUME NEW r \in Range(expired), e = Answer("expired", r) PROVE Emittable(e)
  <2>1. e.type = "expired" /\ e.of = r
    BY <1>2 DEF Answer, Event
  <2> QED BY <2>1 DEF Emittable, WorkerAnswers, ViewInv
<1>3. CASE e = Event("timed_out", v.current)
  BY <1>3 DEF Emittable, Event, WorkerAnswers
<1> QED BY <1>1, <1>2, <1>3, OutputIs

\* The head of what a tick has to append, and the rest.
LEMMA HeadIs ==
    ASSUME NEW s \in Seq(Events), s # <<>>
    PROVE  /\ Head(s) \in Events
           /\ Head(s) \in Range(s)
           /\ Tail(s) \in Seq(Events)
           /\ Range(Tail(s)) \subseteq Range(s)
           /\ Range(s) = {Head(s)} \cup Range(Tail(s))
           /\ Ordered(s) => /\ Ordered(Tail(s))
                            /\ \A e \in Range(Tail(s)) : Follows(Head(s), e)
<1>1. /\ Head(s) \in Events /\ Head(s) = s[1]
      /\ Tail(s) \in Seq(Events)
      /\ Len(s) \in Nat \ {0}
      /\ Len(Tail(s)) = Len(s) - 1
      /\ DOMAIN s = 1 .. Len(s)
      /\ DOMAIN Tail(s) = 1 .. Len(s) - 1
      /\ \A i \in 1 .. Len(s) - 1 : Tail(s)[i] = s[i + 1] /\ i + 1 \in 1 .. Len(s)
  BY HeadTailProperties, EmptySeq, LenProperties
<1>2. Range(s) = {Head(s)} \cup Range(Tail(s))
  <2>1. ASSUME NEW i \in DOMAIN s PROVE s[i] \in {Head(s)} \cup Range(Tail(s))
    <3>1. CASE i = 1
      BY <1>1, <3>1
    <3>2. CASE i # 1
      <4>1. i - 1 \in DOMAIN Tail(s) /\ Tail(s)[i - 1] = s[(i - 1) + 1] /\ (i - 1) + 1 = i
        BY <1>1, <3>2
      <4> QED BY <4>1 DEF Range
    <3> QED BY <3>1, <3>2
  <2>2. 1 \in DOMAIN s /\ \A i \in DOMAIN Tail(s) : Tail(s)[i] \in Range(s)
    BY <1>1 DEF Range
  <2> QED BY <1>1, <2>1, <2>2 DEF Range
<1>3. ASSUME Ordered(s) PROVE Ordered(Tail(s))
  <2>1. ASSUME NEW i \in 1 .. Len(s) - 1, NEW j \in 1 .. Len(s) - 1, i < j
        PROVE  Follows(Tail(s)[i], Tail(s)[j])
    <3>1. /\ i + 1 \in DOMAIN s /\ j + 1 \in DOMAIN s /\ i + 1 < j + 1
          /\ Tail(s)[i] = s[i + 1] /\ Tail(s)[j] = s[j + 1]
      BY <1>1, <2>1
    <3> QED BY <1>3, <3>1 DEF Ordered
  <2> QED BY <1>1, <2>1 DEF Ordered
<1>4. ASSUME Ordered(s), NEW e \in Range(Tail(s)) PROVE Follows(Head(s), e)
  <2>1. PICK i \in 1 .. Len(s) - 1 : e = s[i + 1]
    BY <1>1, <1>4 DEF Range
  <2>2. 1 \in DOMAIN s /\ i + 1 \in DOMAIN s /\ 1 < i + 1
    BY <1>1
  <2> QED BY <1>1, <1>4, <2>1, <2>2 DEF Ordered
<1> QED BY <1>1, <1>2, <1>3, <1>4

LEMMA TypeInit == Init => TypeInv
<1> SUFFICES ASSUME Init PROVE TypeInv
  OBVIOUS
<1>0. Length \in Nat /\ 0 \in 0 .. Length
  BY SagaAssumption
<1>1. log = <<Event("started", 0)>> /\ Event("started", 0) \in Events
  BY <1>0, PlainEvent DEF Init, EventTypes, Records
<1>2. log \in Seq(Events) /\ DOMAIN log = {1} /\ Len(log) = 1 /\ log[1] = Event("started", 0)
  BY <1>1
<1>3. LogInv
  <2>1. log # <<>>
    BY <1>2
  <2>2. log[1].type = "started" /\ log[1].of = 0
    BY <1>2 DEF Event
  <2> QED BY <1>2, <2>1, <2>2 DEF LogInv, ToolAnswers, WorkerAnswers
<1>4. saved \in Views
  <2>1. <<>> \in Seq(Steps) /\ [s \in Steps |-> "pending"] \in [Steps -> States]
    BY DEF States
  <2> QED BY <1>0, <2>1 DEF Init, Views, Directions
<1>5. ViewInv(saved)
  BY <1>2, <1>4 DEF Init, ViewInv
<1>6. TickInv
  BY DEF Init, TickInv
<1>7. routed \in 0 .. Len(log) /\ faults \in 0 .. MaxFaults
  BY <1>2, SagaAssumption DEF Init
<1> QED BY <1>3, <1>5, <1>6, <1>7 DEF Init, TypeInv

\* A tick under way when the log grows by an event of another producer.
LEMMA TickGrows ==
    ASSUME LogInv, TickInv, NEW e \in Events, log' = Append(log, e),
           e.type \in WorkerAnswers \cup {"other"}, tick' = tick, saved' = saved
    PROVE  TickInv'
<1> SUFFICES ASSUME tick # NoTick PROVE TickInv'
  BY DEF TickInv
<1>1. /\ Len(log) \in Nat
      /\ Len(log') = Len(log) + 1
      /\ log'[Len(log) + 1] = e
      /\ DOMAIN log = 1 .. Len(log)
      /\ \A p \in DOMAIN log : p \in DOMAIN log' /\ log'[p] = log[p]
  BY AppendIs DEF LogInv
<1> DEFINE v == tick.view
<1>2. /\ ViewInv(v) /\ v \in Views /\ v.cursor \in Nat
      /\ tick.emitted \subseteq v.cursor + 1 .. Len(log)
      /\ \A p \in v.cursor + 1 .. Len(log) :
             IF p \in tick.emitted THEN log[p].type \notin WorkerAnswers
             ELSE log[p].type \in WorkerAnswers \cup {"other"}
  BY DEF TickInv, ViewInv, Views
<1>3. ViewInv(v)'
  BY <1>2, ViewGrows
<1>4. ASSUME NEW x \in Range(tick.out) PROVE Emittable(x)'
  <2>1. Emittable(x)
    BY DEF TickInv
  <2> QED BY <1>1, <2>1 DEF Emittable
<1> HIDE DEF v
<1>5. ASSUME NEW p \in v.cursor + 1 .. Len(log')
      PROVE  IF p \in tick.emitted THEN log'[p].type \notin WorkerAnswers
             ELSE log'[p].type \in WorkerAnswers \cup {"other"}
  <2>1. CASE p = Len(log) + 1
    <3>1. p \notin v.cursor + 1 .. Len(log)
      BY <1>1, <1>2, <2>1
    <3>2. p \notin tick.emitted
      BY <1>2, <3>1
    <3> QED BY <1>1, <2>1, <3>2
  <2>2. CASE p # Len(log) + 1
    <3>1. p \in v.cursor + 1 .. Len(log) /\ p \in DOMAIN log
      BY <1>1, <1>2, <2>2
    <3> QED BY <1>1, <1>2, <3>1
  <2> QED BY <2>1, <2>2
<1>6. tick.emitted \subseteq v.cursor + 1 .. Len(log')
  BY <1>1, <1>2
<1> QED BY <1>3, <1>4, <1>5, <1>6 DEF TickInv, v

\* A tick that has appended the next of its events.
LEMMA TickAppends ==
    ASSUME LogInv, TickInv, AppendNext
    PROVE  TickInv' /\ LogInv'
<1> DEFINE e == Head(tick.out)
           v == tick.view
           n == Len(log) + 1
<1>0. /\ tick # NoTick /\ tick.out # <<>> /\ log' = Append(log, e)
      /\ tick' = [tick EXCEPT !.out = Tail(@), !.emitted = @ \cup {n}]
      /\ saved' = saved
  BY DEF AppendNext
<1>1. /\ tick \in [view : Views, out : Seq(Events), emitted : SUBSET Nat]
      /\ ViewInv(v) /\ v \in Views /\ v.cursor \in Nat /\ v.cursor <= Len(log)
      /\ saved.cursor <= v.cursor
      /\ Ordered(tick.out)
      /\ \A x \in Range(tick.out) : Emittable(x)
      /\ tick.emitted \subseteq v.cursor + 1 .. Len(log)
      /\ \A p \in v.cursor + 1 .. Len(log) :
             IF p \in tick.emitted THEN log[p].type \notin WorkerAnswers
             ELSE log[p].type \in WorkerAnswers \cup {"other"}
  BY <1>0 DEF TickInv, ViewInv, Views
<1>2. /\ e \in Events /\ e \in Range(tick.out) /\ Emittable(e)
      /\ Tail(tick.out) \in Seq(Events) /\ Ordered(Tail(tick.out))
      /\ Range(Tail(tick.out)) \subseteq Range(tick.out)
  BY <1>0, <1>1, HeadIs
<1>3. /\ Len(log) \in Nat
      /\ Len(log') = n
      /\ log'[n] = e
      /\ DOMAIN log = 1 .. Len(log)
      /\ \A p \in DOMAIN log : p \in DOMAIN log' /\ log'[p] = log[p]
  BY <1>0, <1>2, AppendIs DEF LogInv
<1>4. LogInv'
  <2>1. e.type # "started"
    BY <1>2 DEF Emittable
  <2>2. e.type \in ToolAnswers => e.of \in DOMAIN log /\ log[e.of].type \in ToolRequests
    BY <1>2 DEF Emittable, ToolAnswers, WorkerAnswers
  <2> QED BY <1>0, <1>2, <2>1, <2>2, LogGrows
<1>5. ViewInv(v)'
  BY <1>0, <1>1, <1>2, ViewGrows
<1> HIDE DEF e, v
<1>6. /\ tick' \in [view : Views, out : Seq(Events), emitted : SUBSET Nat]
      /\ tick'.view = v /\ tick'.out = Tail(tick.out) /\ tick'.emitted = tick.emitted \cup {n}
  <2> DEFINE emitted == tick.emitted \cup {n}
             out == Tail(tick.out)
  <2>1. emitted \in SUBSET Nat
    BY <1>1, <1>3
  <2>2. out \in Seq(Events)
    BY <1>2
  <2> HIDE DEF emitted, out
  <2>3. tick' = [tick EXCEPT !.out = out, !.emitted = emitted]
    BY <1>0 DEF emitted, out
  <2>4. tick' = [view |-> v, out |-> out, emitted |-> emitted]
    BY <1>1, <2>3 DEF v
  <2> QED BY <1>1, <2>1, <2>2, <2>4 DEF emitted, out
<1>7. ASSUME NEW x \in Range(tick.out) PROVE Emittable(x)'
  <2>1. Emittable(x)
    BY <1>1
  <2> QED BY <1>3, <2>1 DEF Emittable
<1>8. ASSUME NEW p \in v.cursor + 1 .. n
      PROVE  IF p \in tick.emitted \cup {n} THEN log'[p].type \notin WorkerAnswers
             ELSE log'[p].type \in WorkerAnswers \cup {"other"}
  <2>1. CASE p = n
    BY <1>2, <1>3, <2>1 DEF Emittable
  <2>2. CASE p # n
    <3>1. p \in v.cursor + 1 .. Len(log) /\ p \in DOMAIN log
      BY <1>1, <1>3, <2>2
    <3> QED BY <1>1, <1>3, <2>2, <3>1
  <2> QED BY <2>1, <2>2
<1>9. tick.emitted \cup {n} \subseteq v.cursor + 1 .. n
  BY <1>1, <1>3
<1>10. \A x \in Range(tick'.out) : Emittable(x)'
  BY <1>2, <1>6, <1>7
<1>11. ViewInv(tick.view)'
  <2>1. tick'.view = tick.view
    BY <1>6 DEF v
  <2> QED BY <1>5, <2>1 DEF v
<1>12. TickInv'
  BY <1>0, <1>1, <1>2, <1>3, <1>6, <1>8, <1>9, <1>10, <1>11 DEF TickInv
<1> QED BY <1>4, <1>12

LEMMA AnswerIs ==
    ASSUME LogInv, NEW p \in DOMAIN log, NEW kind \in ToolAnswers
    PROVE  /\ Answer(kind, p) \in Events
           /\ Answer(kind, p).type = kind
           /\ Answer(kind, p).of = p
<1>1. log[p].step \in 0 .. Length /\ p \in Nat
  BY DEF LogInv, Events
<1>2. Answer(kind, p) = [type |-> kind, step |-> log[p].step, of |-> p, states |-> NoStates]
  BY DEF Answer, Event
<1>3. kind \in EventTypes
  BY DEF EventTypes
<1>4. kind \notin ToolRequests \cup Records \cup {"step_started", "awaiting_approval",
                                                  "compensation_started"}
  BY DEF ToolAnswers, WorkerAnswers, ToolRequests, Records
<1>5. Answer(kind, p) \in Events
  BY <1>1, <1>2, <1>3, <1>4 DEF Events, ToolRequests
<1> QED BY <1>2, <1>5

\* Another producer appends.
Foreign(e) ==
    /\ e \in Events
    /\ log' = Append(log, e)
    /\ UNCHANGED <<skipped, saved, tick, routed, overdue, torn>>
    /\ \/ \E p \in DOMAIN log :
              /\ log[p].type \in ToolRequests
              /\ ~ \E q \in DOMAIN log : log[q].type \in WorkerAnswers /\ log[q].of = p
              /\ \E kind \in WorkerAnswers : e = Answer(kind, p)
              /\ faults' = faults
       \/ e = Event("other", 0) /\ faults' = faults + 1 /\ faults < MaxFaults

LEMMA ForeignIs ==
    ASSUME LogInv, (\E p \in DOMAIN log : Respond(p)) \/ Other
    PROVE  \E e : Foreign(e)
<1>1. ASSUME NEW p \in DOMAIN log, Respond(p) PROVE \E e : Foreign(e)
  <2>1. PICK kind \in WorkerAnswers : log' = Append(log, Answer(kind, p))
    BY <1>1 DEF Respond
  <2>2. Answer(kind, p) \in Events
    BY AnswerIs DEF ToolAnswers
  <2>3. Foreign(Answer(kind, p))
    BY <1>1, <2>1, <2>2 DEF Respond, Foreign
  <2> QED BY <2>3
<1>2. ASSUME Other PROVE \E e : Foreign(e)
  <2>1. Event("other", 0) \in Events
    BY SagaAssumption, PlainEvent DEF EventTypes, Records
  <2>2. Foreign(Event("other", 0))
    BY <1>2, <2>1 DEF Other, Fault, Foreign
  <2> QED BY <2>2
<1> QED BY <1>1, <1>2

LEMMA ForeignType ==
    ASSUME LogInv, faults \in Nat, NEW e, Foreign(e)
    PROVE  /\ e.type \in WorkerAnswers \cup {"other"}
           /\ e.type # "started"
           /\ e.type \in ToolAnswers => e.of \in DOMAIN log /\ log[e.of].type \in ToolRequests
           /\ e.type = "other" => faults' # 0
<1>1. ASSUME NEW p \in DOMAIN log, log[p].type \in ToolRequests, NEW kind \in WorkerAnswers,
             e = Answer(kind, p)
      PROVE  e.type \in WorkerAnswers /\ e.of = p
  BY <1>1 DEF Answer, Event
<1>2. WorkerAnswers = {"completed", "failed"} /\ "other" \notin ToolAnswers
  BY DEF WorkerAnswers, ToolAnswers
<1>3. CASE e = Event("other", 0) /\ faults' = faults + 1 /\ faults < MaxFaults
  <2>1. e.type = "other"
    BY <1>3 DEF Event
  <2> QED BY <1>2, <1>3, <2>1
<1> QED BY <1>1, <1>2, <1>3 DEF Foreign

LEMMA TypeStep == TypeInv /\ [Next]_vars => TypeInv'
<1> SUFFICES ASSUME TypeInv, [Next]_vars PROVE TypeInv'
  OBVIOUS
<1>0. LogInv /\ ViewInv(saved) /\ TickInv /\ log \in Seq(Events) /\ Len(log) \in Nat
  BY DEF TypeInv, LogInv
<1>1. CASE Read
  <2>0. PICK v : v = Fold(saved)
    OBVIOUS
  <2>1. PICK expired :
              /\ tick = NoTick
              /\ expired = <<>> \/ \E p \in DOMAIN log : expired = <<p>>
              /\ Range(expired) \subseteq v.requests \ v.completions
              /\ routed' = Len(log)
              /\ \/ /\ Output(v, expired) = <<>>
                    /\ saved' = v
                    /\ tick' = tick
                 \/ /\ Output(v, expired) # <<>>
                    /\ tick' = [view |-> v, out |-> Output(v, expired), emitted |-> {}]
                    /\ saved' = saved
              /\ UNCHANGED <<skipped, log, overdue, torn>>
              /\ \/ faults' = faults
                 \/ faults' = faults + 1 /\ faults < MaxFaults
    BY <1>0, <1>1, <2>0, ReadIs
  <2>2. ViewInv(v) /\ v.cursor = Len(log) /\ v \in Views
    BY <1>0, <2>0, FoldView DEF ViewInv
  <2>3. ViewInv(v)' /\ ViewInv(saved)'
    BY <1>0, <2>1, <2>2 DEF ViewInv
  <2>4. LogInv'
    BY <1>0, <2>1 DEF LogInv
  <2>5. Range(expired) \subseteq v.requests
    BY <2>1
  <2>6. TickInv'
    <3>1. CASE tick' = tick
      BY <2>1, <3>1 DEF TickInv
    <3>2. CASE /\ Output(v, expired) # <<>>
               /\ tick' = [view |-> v, out |-> Output(v, expired), emitted |-> {}]
               /\ saved' = saved
      <4> DEFINE out == Output(v, expired)
      <4>1. out \in Seq(Events) /\ Ordered(out) /\ out # <<>>
        BY <1>0, <2>1, <2>2, <2>5, <3>2, OutputIs
      <4>2. \A e \in Range(out) : Emittable(e)
        BY <1>0, <2>1, <2>2, <2>5, OutputEmittable
      <4>3. tick'.view = v /\ tick'.out = out /\ tick'.emitted = {}
        BY <3>2
      <4>4. tick' \in [view : Views, out : Seq(Events), emitted : SUBSET Nat]
        BY <2>2, <3>2, <4>1
      <4> HIDE DEF out
      <4>5. \A e \in Range(out) : Emittable(e)'
        BY <2>1, <4>2 DEF Emittable
      <4>6. ViewInv(tick.view)'
        BY <2>3, <4>3
      <4>7. saved.cursor <= Len(log) /\ v.cursor + 1 .. Len(log) = {}
        BY <1>0, <2>2 DEF ViewInv
      <4> QED BY <2>1, <2>2, <3>2, <4>1, <4>3, <4>4, <4>5, <4>6, <4>7 DEF TickInv
    <3> QED BY <2>1, <3>1, <3>2
  <2>7. routed' \in 0 .. Len(log') /\ faults' \in 0 .. MaxFaults
    BY <1>0, <2>1, SagaAssumption DEF TypeInv
  <2> QED BY <2>1, <2>3, <2>4, <2>6, <2>7 DEF TypeInv
<1>2. CASE AppendNext
  <2>1. TickInv' /\ LogInv'
    BY <1>0, <1>2, TickAppends
  <2>2. Head(tick.out) \in Events /\ log' = Append(log, Head(tick.out)) /\ saved' = saved
    BY <1>0, <1>2, HeadIs DEF AppendNext, TickInv
  <2>3. ViewInv(saved)'
    BY <1>0, <2>2, ViewGrows
  <2>4. Len(log') = Len(log) + 1
    BY <1>0, <2>2, AppendIs
  <2>5. routed' \in 0 .. Len(log')
    BY <1>0, <1>2, <2>4 DEF AppendNext, TypeInv
  <2> QED BY <1>2, <2>1, <2>3, <2>5 DEF AppendNext, TypeInv
<1>3. CASE Route
  <2>1. UNCHANGED <<skipped, log, saved, tick, overdue, faults, torn>> /\ routed' = Len(log)
    BY <1>3 DEF Route
  <2>2. LogInv' /\ ViewInv(saved)' /\ TickInv'
    BY <1>0, <2>1 DEF LogInv, ViewInv, TickInv, Emittable
  <2>3. routed' \in 0 .. Len(log')
    BY <1>0, <2>1
  <2> QED BY <2>1, <2>2, <2>3 DEF TypeInv
<1>4. CASE Save
  <2>1. /\ tick # NoTick /\ saved' = FoldEmitted(tick.view, tick.emitted) /\ tick' = NoTick
        /\ UNCHANGED <<skipped, log, routed, overdue, faults, torn>>
    BY <1>4 DEF Save
  <2>2. ViewInv(tick.view) /\ tick.emitted \in SUBSET DOMAIN log
    BY <1>0, <2>1 DEF TickInv, ViewInv, Views
  <2>3. ViewInv(saved)'
    <3>1. ViewInv(FoldEmitted(tick.view, tick.emitted))
      BY <1>0, <2>2, FoldEmittedView
    <3> QED BY <2>1, <3>1 DEF ViewInv
  <2>4. LogInv' /\ TickInv'
    BY <1>0, <2>1 DEF LogInv, TickInv
  <2> QED BY <2>1, <2>3, <2>4 DEF TypeInv
<1>5. CASE Crash
  <2>1. tick' = NoTick /\ UNCHANGED <<skipped, log, saved, routed, overdue>>
    BY <1>5 DEF Crash
  <2>2. LogInv' /\ ViewInv(saved)' /\ TickInv'
    BY <1>0, <2>1 DEF LogInv, ViewInv, TickInv
  <2>3. faults' \in 0 .. MaxFaults
    BY <1>5, SagaAssumption DEF Crash, Fault, TypeInv
  <2>4. torn' \in BOOLEAN
    BY <1>5 DEF Crash, TypeInv
  <2> QED BY <2>1, <2>2, <2>3, <2>4 DEF TypeInv
<1>6. CASE (\E p \in DOMAIN log : Respond(p)) \/ Other
  <2>1. PICK e : Foreign(e)
    BY <1>0, <1>6, ForeignIs
  <2>2. /\ e \in Events /\ log' = Append(log, e)
        /\ UNCHANGED <<skipped, saved, tick, routed, overdue, torn>>
        /\ faults' = faults \/ (faults' = faults + 1 /\ faults < MaxFaults)
    BY <2>1 DEF Foreign
  <2>3. /\ e.type \in WorkerAnswers \cup {"other"}
        /\ e.type # "started"
        /\ e.type \in ToolAnswers => e.of \in DOMAIN log /\ log[e.of].type \in ToolRequests
    BY <1>0, <2>1, ForeignType, SagaAssumption DEF TypeInv
  <2>4. LogInv'
    BY <1>0, <2>2, <2>3, LogGrows
  <2>5. TickInv'
    BY <1>0, <2>2, <2>3, TickGrows
  <2>6. ViewInv(saved)'
    BY <1>0, <2>2, ViewGrows
  <2>7. Len(log') = Len(log) + 1
    BY <1>0, <2>2, AppendIs
  <2>8. routed' \in 0 .. Len(log') /\ faults' \in 0 .. MaxFaults
    BY <1>0, <2>2, <2>7, SagaAssumption DEF TypeInv
  <2> QED BY <2>2, <2>4, <2>5, <2>6, <2>8 DEF TypeInv
<1>7. CASE Deadline
  <2>1. overdue' = TRUE /\ UNCHANGED <<skipped, log, saved, tick, routed, faults, torn>>
    BY <1>7 DEF Deadline
  <2>2. LogInv' /\ ViewInv(saved)' /\ TickInv'
    BY <1>0, <2>1 DEF LogInv, ViewInv, TickInv, Emittable
  <2> QED BY <2>1, <2>2 DEF TypeInv
<1>8. CASE UNCHANGED vars
  <2>1. UNCHANGED <<skipped, log, saved, tick, routed, overdue, faults, torn>>
    BY <1>8 DEF vars
  <2>2. LogInv' /\ ViewInv(saved)' /\ TickInv'
    BY <1>0, <2>1 DEF LogInv, ViewInv, TickInv, Emittable
  <2> QED BY <2>1, <2>2 DEF TypeInv
<1> QED BY <1>1, <1>2, <1>3, <1>4, <1>5, <1>6, <1>7, <1>8 DEF Next, Dispatcher

LEMMA TypeInvariant == Spec => []TypeInv
<1>1. Init => TypeInv
  BY TypeInit
<1>2. TypeInv /\ [Next]_vars => TypeInv'
  BY TypeStep
<1> QED BY <1>1, <1>2, PTL DEF Spec

\* Every variable keeps its type: an answer names a request before it in the log, the overlay
\* holds requests only, and a tick has emitted behind its view's cursor.
THEOREM TypeCorrect == Spec => []TypeOK
BY TypeInvariant, TypeInvOK, PTL

-----------------------------------------------------------------------------
(* What the saga does rests on answers in the log. *)

Settled == {"completed", "failed"}

Ready(p, step) == \A s \in 1 .. step - 1 : s \in skipped \/ AnsweredBefore(p, s)

Backed(p, e) ==
    /\ e.type \in Moves \cup {"timed_out"} => Ready(p, e.step)
    /\ e.type \in Records => \A s \in Steps : e.states[s] \in Settled => AnsweredBefore(p, s)
    /\ e.type \in {"compensation_started", "undo"} => AnsweredBefore(p, e.step)

ViewBacked(p, v) ==
    /\ Ready(p, v.current)
    /\ \A s \in Steps : v.states[s] \in Settled => AnsweredBefore(p, s)
    /\ \A s \in Steps : Contains(v.stack, s) => AnsweredBefore(p, s)

\* Every completion of the overlay has an answer in the log.
Evidenced(v) ==
    \A r \in v.completions : \E q \in DOMAIN log : log[q].type \in ToolAnswers /\ log[q].of = r

End == Len(log) + 1

BackInv ==
    /\ \A p \in DOMAIN log : Backed(p, log[p])
    /\ ViewBacked(End, saved) /\ Evidenced(saved)
    /\ tick # NoTick => /\ ViewBacked(End, tick.view)
                        /\ Evidenced(tick.view)
                        /\ \A e \in Range(tick.out) : Backed(End, e)

\* An answer stays in the log.
LEMMA AnsweredLater ==
    ASSUME LogInv, NEW p \in 1 .. End, NEW step, AnsweredBefore(p, step)
    PROVE  AnsweredBefore(End, step)
<1>1. Before(p) \subseteq Before(End)
  BY DEF Before, End, LogInv
<1> QED BY <1>1 DEF AnsweredBefore

LEMMA AnsweredGrows ==
    ASSUME LogInv, NEW e \in Events, log' = Append(log, e), NEW p \in 1 .. End, NEW step,
           AnsweredBefore(p, step)
    PROVE  AnsweredBefore(p, step)' /\ AnsweredBefore(End, step)'
<1>1. /\ Len(log) \in Nat
      /\ Len(log') = Len(log) + 1
      /\ DOMAIN log = 1 .. Len(log)
      /\ \A q \in DOMAIN log : log'[q] = log[q]
  BY AppendIs DEF LogInv
<1>2. PICK q \in Before(p) : log[q].type \in ToolAnswers /\ log[log[q].of] = Event("requested", step)
  BY DEF AnsweredBefore
<1>3. q \in DOMAIN log /\ q \in 1 .. p - 1 /\ q \in 1 .. End' - 1
  BY <1>1 DEF Before, End
<1>4. log[q].of \in DOMAIN log
  BY <1>2, <1>3 DEF LogInv
<1>5. log'[q].type \in ToolAnswers /\ log'[log'[q].of] = Event("requested", step)
  BY <1>1, <1>2, <1>3, <1>4
<1> QED BY <1>3, <1>5 DEF AnsweredBefore, Before

LEMMA BackedLater ==
    ASSUME LogInv, NEW p \in 1 .. End, NEW e, e.step \in 0 .. Length, Backed(p, e)
    PROVE  Backed(End, e)
<1>1. \A s : AnsweredBefore(p, s) => AnsweredBefore(End, s)
  BY AnsweredLater
<1> QED BY <1>1 DEF Backed, Ready

LEMMA BackedGrows ==
    ASSUME LogInv, NEW e \in Events, log' = Append(log, e), skipped' = skipped,
           NEW p \in 1 .. End, NEW x, Backed(p, x)
    PROVE  Backed(p, x)' /\ Backed(End, x)'
<1>1. \A s : AnsweredBefore(p, s) => AnsweredBefore(p, s)' /\ AnsweredBefore(End, s)'
  BY AnsweredGrows
<1> QED BY <1>1 DEF Backed, Ready

LEMMA ViewBackedGrows ==
    ASSUME LogInv, NEW e \in Events, log' = Append(log, e), skipped' = skipped,
           NEW v, ViewBacked(End, v), Evidenced(v)
    PROVE  ViewBacked(End, v)' /\ Evidenced(v)'
<1>0. End \in 1 .. End
  BY DEF LogInv, End
<1>1. \A s : AnsweredBefore(End, s) => AnsweredBefore(End, s)'
  BY <1>0, AnsweredGrows
<1>2. ViewBacked(End, v)'
  BY <1>1 DEF ViewBacked, Ready
<1>3. \A q \in DOMAIN log : q \in DOMAIN log' /\ log'[q] = log[q]
  BY AppendIs DEF LogInv
<1>4. Evidenced(v)'
  BY <1>3 DEF Evidenced
<1> QED BY <1>2, <1>4

LEMMA ProjectBacked ==
    ASSUME NEW p, NEW v \in Views, NEW e \in Events, ViewBacked(p, v), Backed(p, e)
    PROVE  ViewBacked(p, Project(v, e))
<1> DEFINE f == Project(v, e)
<1>0. e.step \in 0 .. Length /\ v.current \in 0 .. Length
  BY DEF Events, Views
<1>1. ASSUME NEW state \in {"in_flight", "awaiting_approval"}, e.step \in Steps, e.type \in Moves,
             f = [v EXCEPT !.current = e.step, !.states[e.step] = state]
      PROVE  ViewBacked(p, f)
  <2>1. /\ f.current = e.step /\ f.stack = v.stack
        /\ \A s \in Steps : f.states[s] = IF s = e.step THEN state ELSE v.states[s]
    BY <1>1 DEF Views
  <2> HIDE DEF f
  <2>2. Ready(p, e.step)
    BY <1>1 DEF Backed
  <2>3. \A s \in Steps : f.states[s] \in Settled => v.states[s] \in Settled
    BY <2>1 DEF Settled
  <2> QED BY <2>1, <2>2, <2>3 DEF ViewBacked
<1>2. CASE e.type = "step_started"
  <2>1. f = [v EXCEPT !.current = e.step, !.states[e.step] = "in_flight"]
    BY <1>2 DEF Project
  <2>2. e.step \in Steps /\ e.type \in Moves
    BY <1>2 DEF Events, Moves
  <2> HIDE DEF f
  <2>3. ViewBacked(p, f)
    BY <1>1, <2>1, <2>2
  <2> QED BY <2>3 DEF f
<1>3. CASE e.type = "awaiting_approval"
  <2>1. f = [v EXCEPT !.current = e.step, !.states[e.step] = "awaiting_approval"]
    BY <1>3 DEF Project
  <2>2. e.step \in Steps /\ e.type \in Moves
    BY <1>3 DEF Events, Moves
  <2> HIDE DEF f
  <2>3. ViewBacked(p, f)
    BY <1>1, <2>1, <2>2
  <2> QED BY <2>3 DEF f
<1>4. CASE e.type \in {"step_completed", "step_failed"}
  <2>1. f = [v EXCEPT !.states = e.states]
    BY <1>4 DEF Project
  <2>2. f.current = v.current /\ f.stack = v.stack /\ f.states = e.states
    BY <2>1 DEF Views
  <2> HIDE DEF f
  <2>3. \A s \in Steps : e.states[s] \in Settled => AnsweredBefore(p, s)
    BY <1>4 DEF Backed, Records
  <2>4. ViewBacked(p, f)
    BY <2>2, <2>3 DEF ViewBacked
  <2> QED BY <2>4 DEF f
<1>5. CASE e.type = "compensating"
  <2> DEFINE steps == {s \in Compensable : v.states[s] = "completed"}
  <2>1. f = [v EXCEPT !.direction = "compensating", !.stack = Backwards(steps)]
    BY <1>5 DEF Project
  <2>2. f.current = v.current /\ f.stack = Backwards(steps) /\ f.states = v.states
    BY <2>1 DEF Views
  <2>3. steps \in SUBSET Steps
    BY SagaAssumption
  <2>4. ASSUME NEW s \in Steps, Contains(Backwards(steps), s) PROVE AnsweredBefore(p, s)
    <3>1. s \in steps
      <4> HIDE DEF steps
      <4>1. Backwards(steps) \in Seq(steps)
        BY <2>3, BackwardsSeq
      <4> QED BY <2>4, <4>1 DEF Contains
    <3> QED BY <3>1 DEF ViewBacked, Settled
  <2> HIDE DEF f, steps
  <2>5. ViewBacked(p, f)
    BY <2>2, <2>4 DEF ViewBacked
  <2> QED BY <2>5 DEF f
<1>6. CASE e.type = "compensation_started"
  <2>1. f = [v EXCEPT !.states[e.step] = "compensating_started",
                      !.stack = IF Contains(@, e.step) THEN @ ELSE Append(@, e.step)]
    BY <1>6 DEF Project
  <2>2. e.step \in Steps /\ AnsweredBefore(p, e.step)
    BY <1>6 DEF Events, Backed
  <2>3. /\ f.current = v.current
        /\ f.stack = v.stack \/ f.stack = Append(v.stack, e.step)
        /\ \A s \in Steps : f.states[s] = IF s = e.step THEN "compensating_started" ELSE v.states[s]
    BY <2>1, <2>2 DEF Views
  <2> HIDE DEF f
  <2>4. v.stack \in Seq(Steps)
    BY DEF Views
  <2>5. ASSUME NEW s \in Steps, Contains(Append(v.stack, e.step), s)
        PROVE  s = e.step \/ Contains(v.stack, s)
    <3>1. PICK i \in 1 .. Len(Append(v.stack, e.step)) : Append(v.stack, e.step)[i] = s
      BY <2>5 DEF Contains
    <3>2. /\ Len(v.stack) \in Nat
          /\ Len(Append(v.stack, e.step)) = Len(v.stack) + 1
          /\ Append(v.stack, e.step)[Len(v.stack) + 1] = e.step
          /\ \A j \in 1 .. Len(v.stack) : Append(v.stack, e.step)[j] = v.stack[j]
      BY <2>2, <2>4, AppendProperties
    <3>3. i = Len(v.stack) + 1 \/ i \in 1 .. Len(v.stack)
      BY <3>1, <3>2
    <3> QED BY <3>1, <3>2, <3>3 DEF Contains
  <2>6. \A s \in Steps : f.states[s] \in Settled => v.states[s] \in Settled
    BY <2>3 DEF Settled
  <2>7. ViewBacked(p, f)
    BY <2>2, <2>3, <2>5, <2>6 DEF ViewBacked
  <2> QED BY <2>7 DEF f
<1>7. CASE e.type = "done"
  <2>1. f = [v EXCEPT !.direction = "done"]
    BY <1>7 DEF Project
  <2>2. f.current = v.current /\ f.stack = v.stack /\ f.states = v.states
    BY <2>1 DEF Views
  <2> QED BY <2>2 DEF ViewBacked
<1>8. CASE e.type \in {"dlq", "compensation_failed", "timed_out"}
  <2>1. /\ f.current = IF e.step = 0 THEN v.current ELSE e.step
        /\ f.stack = v.stack /\ f.states = v.states
    BY <1>8 DEF Project, Views
  <2>2. Ready(p, e.step)
    BY <1>8 DEF Backed, Moves
  <2> HIDE DEF f
  <2>3. ViewBacked(p, f)
    BY <2>1, <2>2 DEF ViewBacked
  <2> QED BY <2>3 DEF f
<1>9. CASE e.type \notin {"step_started", "awaiting_approval", "step_completed", "step_failed",
                          "compensating", "compensation_started", "done", "dlq",
                          "compensation_failed", "timed_out"}
  BY <1>9 DEF Project
<1> QED BY <1>2, <1>3, <1>4, <1>5, <1>6, <1>7, <1>8, <1>9

LEMMA FoldBacked ==
    ASSUME LogInv, NEW v, ViewInv(v), \A p \in DOMAIN log : Backed(p, log[p]),
           ViewBacked(End, v), Evidenced(v)
    PROVE  ViewBacked(End, Fold(v)) /\ Evidenced(Fold(v))
<1> DEFINE J == {u \in Views : ViewBacked(End, u)}
           I == [p \in v.cursor .. Len(log) |-> J]
           batch == v.cursor + 1 .. Len(log)
<1>0. /\ log \in Seq(Events) /\ v \in Views /\ v.cursor <= Len(log)
      /\ v.cursor \in Nat /\ Len(log) \in Nat
      /\ v.completions \subseteq v.requests
  BY DEF LogInv, ViewInv, Views
<1>1. \A p \in v.cursor .. Len(log) : I[p] = J
  OBVIOUS
<1>2. v \in I[v.cursor] /\ Len(log) \in v.cursor .. Len(log)
  BY <1>0
<1>3. ASSUME NEW p \in v.cursor + 1 .. Len(log), NEW u \in I[p - 1]
      PROVE  Project(u, log[p]) \in I[p]
  <2>1. /\ p \in v.cursor .. Len(log) /\ p - 1 \in v.cursor .. Len(log)
        /\ p \in DOMAIN log /\ p \in 1 .. End
    BY <1>0 DEF End
  <2>2. u \in Views /\ ViewBacked(End, u) /\ log[p] \in Events /\ log[p].step \in 0 .. Length
    BY <1>0, <1>1, <2>1 DEF Events
  <2>3. Backed(End, log[p])
    BY <2>1, <2>2, BackedLater
  <2>4. Project(u, log[p]) \in Views /\ ViewBacked(End, Project(u, log[p]))
    BY <2>2, <2>3, ProjectView, ProjectBacked
  <2> QED BY <1>1, <2>1, <2>4
<1>4. Projected(v) \in J
  <2>1. \A p \in v.cursor .. Len(log) : I[p] \subseteq Views
    BY <1>1
  <2>2. Projected(v) \in I[Len(log)]
    <3> HIDE DEF I
    <3> QED BY <1>0, <1>2, <1>3, <2>1, ProjectedIn
  <2> QED BY <1>1, <1>2, <2>2
<1>5. /\ Fold(v).current = Projected(v).current
      /\ Fold(v).states = Projected(v).states
      /\ Fold(v).stack = Projected(v).stack
      /\ Fold(v).completions \subseteq v.completions \cup AnsweredIn(batch)
  <2> DEFINE requests == v.requests \cup RequestsIn(batch)
  <2>1. /\ Fold(v).current = Projected(v).current
        /\ Fold(v).states = Projected(v).states
        /\ Fold(v).stack = Projected(v).stack
        /\ HasToolEvents(batch) =>
               Fold(v).completions = (AnsweredIn(batch) \cap requests) \ v.completions
        /\ ~ HasToolEvents(batch) => Fold(v).completions = v.completions
    BY <1>0, FoldIs
  <2> QED BY <2>1
<1>6. ViewBacked(End, Fold(v))
  BY <1>4, <1>5 DEF ViewBacked
<1>7. batch \subseteq DOMAIN log
  BY <1>0
<1>8. Evidenced(Fold(v))
  BY <1>5, <1>7 DEF Evidenced, AnsweredIn
<1> QED BY <1>6, <1>8

LEMMA EmittedBacked ==
    ASSUME LogInv, NEW v, ViewInv(v), ViewBacked(End, v), Evidenced(v), NEW e, EmittedBy(v, e)
    PROVE  Backed(End, e)
<1>0. v \in Views /\ v.current \in 0 .. Length
  BY DEF ViewInv, Views
<1>1. ASSUME Handles(v) PROVE v.current \in Steps /\ AnsweredBefore(End, v.current)
  <2>1. PICK r \in v.requests \cap v.completions : log[r] = Event("requested", v.current)
    BY <1>1, HandlesStep DEF Handles
  <2>2. PICK q \in DOMAIN log : log[q].type \in ToolAnswers /\ log[q].of = r
    BY <2>1 DEF Evidenced
  <2>3. q \in Before(End)
    BY <2>2 DEF Before, End, LogInv
  <2>4. AnsweredBefore(End, v.current)
    BY <2>1, <2>2, <2>3 DEF AnsweredBefore
  <2> QED BY <1>1, <2>4, HandlesStep DEF Handles
<1>2. ASSUME NEW a \in 0 .. Length, Advances(v, a), NextStep(a) # 0
      PROVE  Ready(End, NextStep(a))
  <2>1. /\ NextStep(a) \in Steps
        /\ \A t \in Steps : a < t /\ t < NextStep(a) => t \in skipped
    BY <1>2, NextStepIs
  <2>2. \A t \in 1 .. NextStep(a) - 1 : t \in Steps /\ t < NextStep(a)
    BY <2>1, SagaAssumption DEF Steps
  <2>3. CASE a = 0
    BY <2>1, <2>2, <2>3 DEF Ready
  <2>4. CASE Handles(v) /\ a = v.current
    <3>1. \A t \in 1 .. v.current - 1 : t \in skipped \/ AnsweredBefore(End, t)
      BY DEF ViewBacked, Ready
    <3>2. ASSUME NEW t \in 1 .. NextStep(a) - 1 PROVE t \in skipped \/ AnsweredBefore(End, t)
      <4>1. t < a \/ t = a \/ (a < t /\ t < NextStep(a))
        BY <1>0, <2>2, SagaAssumption
      <4>2. CASE t < a
        <5>1. t \in 1 .. v.current - 1
          BY <1>0, <2>2, <2>4, <4>2, SagaAssumption
        <5> QED BY <3>1, <5>1
      <4>3. CASE t = a
        BY <1>1, <2>4, <4>3
      <4> QED BY <2>1, <2>2, <4>1, <4>2, <4>3
    <3> QED BY <3>2 DEF Ready
  <2> QED BY <1>2, <2>3, <2>4 DEF Advances
<1>3. CASE e.type = "done"
  BY <1>3 DEF Backed, Moves, Records
<1>4. ASSUME NEW a \in 0 .. Length, Advances(v, a), NextStep(a) # 0,
             e \in {Event("step_started", NextStep(a)), Asked(NextStep(a))}
      PROVE  Backed(End, e)
  <2>1. e.step = NextStep(a) /\ e.type \in {"step_started", "awaiting_approval", "requested"}
    BY <1>4 DEF Event, Asked
  <2>2. Ready(End, e.step)
    BY <1>2, <1>4, <2>1
  <2> QED BY <2>1, <2>2 DEF Backed, Records
<1>5. ASSUME Handles(v), NEW kind \in {"completed", "failed"}, e = RecordOf(v, kind)
      PROVE  Backed(End, e)
  <2>1. e.type \in Records /\ e.states = [v.states EXCEPT ![v.current] = kind]
    BY <1>0, <1>1, <1>5, RecordOfIs
  <2>2. \A s \in Steps : e.states[s] = IF s = v.current THEN kind ELSE v.states[s]
    BY <1>0, <1>1, <1>5, <2>1 DEF Views
  <2>3. \A s \in Steps : e.states[s] \in Settled => AnsweredBefore(End, s)
    BY <1>1, <1>5, <2>2 DEF ViewBacked
  <2> QED BY <2>1, <2>3 DEF Backed, Records, Moves
<1>6. CASE e = Event("compensating", 0)
  <2>1. e.type = "compensating"
    BY <1>6 DEF Event
  <2> QED BY <2>1 DEF Backed, Moves, Records
<1>7. ASSUME NEW s \in Undone(v), e = Event("compensation_started", s) \/ e = Event("undo", s)
      PROVE  Backed(End, e)
  <2>1. e.type \in {"compensation_started", "undo"} /\ e.step = s
    BY <1>7 DEF Event
  <2>2. AnsweredBefore(End, s)
    BY DEF Undone, ViewBacked, Settled
  <2> QED BY <2>1, <2>2 DEF Backed, Moves, Records
<1>8. CASE e \in {Event("compensation_failed", v.current), Event("dlq", v.current)}
  <2>1. e.type \in {"compensation_failed", "dlq"} /\ e.step = v.current
    BY <1>8 DEF Event
  <2> QED BY <2>1 DEF Backed, Records, ViewBacked
<1>9. e = Event("done", 0) => e.type = "done"
  BY DEF Event
<1> QED BY <1>3, <1>4, <1>5, <1>6, <1>7, <1>8, <1>9 DEF EmittedBy

LEMMA OutputBacked ==
    ASSUME LogInv, NEW v, ViewInv(v), ViewBacked(End, v), Evidenced(v), NEW expired,
           expired = <<>> \/ \E p \in DOMAIN log : expired = <<p>>,
           Range(expired) \subseteq v.requests
    PROVE  \A e \in Range(Output(v, expired)) : Backed(End, e)
<1> SUFFICES ASSUME NEW e \in Range(Output(v, expired)) PROVE Backed(End, e)
  OBVIOUS
<1>1. CASE e \in Range(Emits(v))
  BY <1>1, EmitsRange, EmittedBacked
<1>2. ASSUME NEW r \in Range(expired), e = Answer("expired", r) PROVE Backed(End, e)
  <2>1. e.type = "expired"
    BY <1>2 DEF Answer, Event
  <2> QED BY <2>1 DEF Backed, Moves, Records
<1>3. CASE e = Event("timed_out", v.current)
  <2>1. e.type = "timed_out" /\ e.step = v.current
    BY <1>3 DEF Event
  <2> QED BY <2>1 DEF Backed, Records, ViewBacked
<1> QED BY <1>1, <1>2, <1>3, OutputIs

LEMMA BackInit == Init => BackInv
<1> SUFFICES ASSUME Init PROVE BackInv
  OBVIOUS
<1>1. log = <<Event("started", 0)>>
  BY DEF Init
<1>2. DOMAIN log = {1} /\ log[1].type = "started"
  BY <1>1 DEF Event
<1>3. \A p \in DOMAIN log : Backed(p, log[p])
  BY <1>2 DEF Backed, Moves, Records
<1>4. ViewBacked(End, saved)
  BY DEF Init, ViewBacked, Ready, Settled, Contains
<1> QED BY <1>3, <1>4 DEF Init, BackInv, Evidenced

LEMMA BackStep == TypeInv /\ BackInv /\ [Next]_vars => BackInv'
<1> SUFFICES ASSUME TypeInv, BackInv, [Next]_vars PROVE BackInv'
  OBVIOUS
<1>0. /\ LogInv /\ ViewInv(saved) /\ TickInv /\ log \in Seq(Events)
      /\ Len(log) \in Nat /\ DOMAIN log = 1 .. Len(log) /\ End \in 1 .. End
  BY DEF TypeInv, LogInv, End
<1>1. CASE Read
  <2>0. PICK v : v = Fold(saved)
    OBVIOUS
  <2>1. PICK expired :
              /\ expired = <<>> \/ \E p \in DOMAIN log : expired = <<p>>
              /\ Range(expired) \subseteq v.requests \ v.completions
              /\ tick = NoTick
              /\ \/ /\ saved' = v
                    /\ tick' = tick
                 \/ /\ tick' = [view |-> v, out |-> Output(v, expired), emitted |-> {}]
                    /\ saved' = saved
              /\ skipped' = skipped /\ log' = log
    BY <1>0, <1>1, <2>0, ReadIs
  <2>2. ViewInv(v)
    BY <1>0, <2>0, FoldView
  <2>3. ViewBacked(End, v) /\ Evidenced(v)
    BY <1>0, <2>0, FoldBacked DEF BackInv
  <2>4. Range(expired) \subseteq v.requests
    BY <2>1
  <2>5. \A e \in Range(Output(v, expired)) : Backed(End, e)
    BY <1>0, <2>1, <2>2, <2>3, <2>4, OutputBacked
  <2>6. End' = End /\ \A p, e : Backed(p, e)' <=> Backed(p, e)
    BY <2>1 DEF End, Backed, Ready, AnsweredBefore
  <2>7. \A p, u : /\ ViewBacked(p, u)' <=> ViewBacked(p, u)
                  /\ Evidenced(u)' <=> Evidenced(u)
    BY <2>1 DEF ViewBacked, Evidenced, Ready, AnsweredBefore
  <2>8. CASE saved' = v /\ tick' = tick
    BY <2>1, <2>3, <2>6, <2>7, <2>8 DEF BackInv
  <2>9. CASE /\ tick' = [view |-> v, out |-> Output(v, expired), emitted |-> {}]
             /\ saved' = saved
    <3>1. tick'.view = v /\ tick'.out = Output(v, expired)
      BY <2>9
    <3> QED BY <2>1, <2>3, <2>5, <2>6, <2>7, <2>9, <3>1 DEF BackInv
  <2> QED BY <2>1, <2>8, <2>9
<1>g. ASSUME NEW e \in Events, log' = Append(log, e), skipped' = skipped, Backed(End, e)
      PROVE  /\ (\A p \in DOMAIN log : Backed(p, log[p]))'
             /\ \A x : Backed(End, x) => Backed(End, x)'
             /\ \A v : ViewBacked(End, v) /\ Evidenced(v) =>
                           ViewBacked(End, v)' /\ Evidenced(v)'
  <2>1. /\ DOMAIN log' = DOMAIN log \cup {End}
        /\ log'[End] = e
        /\ \A p \in DOMAIN log : log'[p] = log[p]
    BY <1>0, <1>g, AppendIs DEF End
  <2>2. \A p \in 1 .. End : \A x : Backed(p, x) => Backed(p, x)' /\ Backed(End, x)'
    BY <1>0, <1>g, BackedGrows
  <2>3. ASSUME NEW p \in DOMAIN log' PROVE Backed(p, log[p])'
    <3>1. CASE p \in DOMAIN log
      <4>1. Backed(p, log[p]) /\ p \in 1 .. End
        BY <1>0, <3>1 DEF BackInv, End
      <4> QED BY <2>1, <2>2, <3>1, <4>1
    <3>2. CASE p = End
      <4>1. PICK n \in 1 .. End : n = End
        BY <1>0
      <4>2. Backed(n, e)'
        BY <1>g, <2>2, <4>1
      <4> QED BY <2>1, <3>2, <4>1, <4>2
    <3> QED BY <2>1, <3>1, <3>2
  <2>4. \A x : Backed(End, x) => Backed(End, x)'
    BY <1>0, <2>2
  <2>5. \A v : ViewBacked(End, v) /\ Evidenced(v) => ViewBacked(End, v)' /\ Evidenced(v)'
    BY <1>0, <1>g, ViewBackedGrows
  <2> QED BY <2>3, <2>4, <2>5
<1>2. CASE AppendNext
  <2> DEFINE e == Head(tick.out)
  <2>1. /\ tick # NoTick /\ tick.out # <<>> /\ log' = Append(log, e)
        /\ tick' = [tick EXCEPT !.out = Tail(@), !.emitted = @ \cup {Len(log) + 1}]
        /\ saved' = saved /\ skipped' = skipped
    BY <1>2 DEF AppendNext
  <2>2. /\ e \in Events /\ e \in Range(tick.out) /\ Range(Tail(tick.out)) \subseteq Range(tick.out)
        /\ tick \in [view : Views, out : Seq(Events), emitted : SUBSET Nat]
    BY <1>0, <2>1, HeadIs DEF TickInv
  <2>3. Backed(End, e)
    BY <2>1, <2>2 DEF BackInv
  <2>4. tick'.view = tick.view /\ tick'.out = Tail(tick.out)
    BY <2>1, <2>2
  <2> HIDE DEF e
  <2>5. /\ (\A p \in DOMAIN log : Backed(p, log[p]))'
        /\ \A x : Backed(End, x) => Backed(End, x)'
        /\ \A v : ViewBacked(End, v) /\ Evidenced(v) => ViewBacked(End, v)' /\ Evidenced(v)'
    BY <1>g, <2>1, <2>2, <2>3
  <2>6. ViewBacked(End, saved)' /\ Evidenced(saved)'
    BY <2>1, <2>5 DEF BackInv
  <2>7. ViewBacked(End, tick.view)' /\ Evidenced(tick.view)'
    BY <2>1, <2>4, <2>5 DEF BackInv
  <2>8. \A x \in Range(tick'.out) : Backed(End, x)'
    BY <2>1, <2>2, <2>4, <2>5 DEF BackInv
  <2> QED BY <2>5, <2>6, <2>7, <2>8 DEF BackInv
<1>3. CASE (\E p \in DOMAIN log : Respond(p)) \/ Other
  <2>1. PICK e : Foreign(e)
    BY <1>0, <1>3, ForeignIs
  <2>2. /\ e \in Events /\ log' = Append(log, e)
        /\ UNCHANGED <<skipped, saved, tick>>
    BY <2>1 DEF Foreign
  <2>3. e.type \in WorkerAnswers \cup {"other"}
    BY <1>0, <2>1, ForeignType, SagaAssumption DEF TypeInv
  <2>4. Backed(End, e)
    BY <2>3 DEF Backed, Moves, Records, WorkerAnswers
  <2>5. /\ (\A p \in DOMAIN log : Backed(p, log[p]))'
        /\ \A x : Backed(End, x) => Backed(End, x)'
        /\ \A v : ViewBacked(End, v) /\ Evidenced(v) => ViewBacked(End, v)' /\ Evidenced(v)'
    BY <1>g, <2>2, <2>4
  <2> QED BY <2>2, <2>5 DEF BackInv
<1>4. CASE UNCHANGED <<skipped, log>> /\ ~ Read
  <2>1. End' = End /\ \A p, e : Backed(p, e)' <=> Backed(p, e)
    BY <1>4 DEF End, Backed, Ready, AnsweredBefore
  <2>2. \A p, u : /\ ViewBacked(p, u)' <=> ViewBacked(p, u)
                  /\ Evidenced(u)' <=> Evidenced(u)
    BY <1>4 DEF ViewBacked, Evidenced, Ready, AnsweredBefore
  <2>3. CASE Save
    <3>1. /\ tick # NoTick /\ saved' = FoldEmitted(tick.view, tick.emitted) /\ tick' = NoTick
      BY <2>3 DEF Save
    <3> DEFINE f == FoldEmitted(tick.view, tick.emitted)
    <3>2. /\ tick.view \in Views /\ tick.emitted \in SUBSET Nat
          /\ tick.view.completions \subseteq tick.view.requests
      BY <1>0, <3>1 DEF TickInv, ViewInv
    <3>3. /\ f.current = tick.view.current
          /\ f.states = tick.view.states
          /\ f.stack = tick.view.stack
          /\ f.completions = {} \/ f = tick.view
      BY <3>2, FoldEmittedIs
    <3>4. ViewBacked(End, tick.view) /\ Evidenced(tick.view)
      BY <3>1 DEF BackInv
    <3> HIDE DEF f
    <3>5. ViewBacked(End, f) /\ Evidenced(f)
      BY <3>3, <3>4 DEF ViewBacked, Evidenced
    <3>6. saved' = f
      BY <3>1 DEF f
    <3> QED BY <1>4, <2>1, <2>2, <3>1, <3>5, <3>6 DEF BackInv
  <2>4. CASE UNCHANGED <<saved, tick>>
    BY <1>4, <2>1, <2>2, <2>4 DEF BackInv
  <2>5. CASE saved' = saved /\ tick' = NoTick
    BY <1>4, <2>1, <2>2, <2>5 DEF BackInv
  <2>6. CASE Read \/ AppendNext
    BY <1>2, <1>4, <2>6
  <2> QED BY <2>3, <2>4, <2>5, <2>6, <1>3 DEF Next, Dispatcher, Route, Crash, Deadline, vars
<1>5. Read \/ AppendNext \/ (\E p \in DOMAIN log : Respond(p)) \/ Other \/ UNCHANGED <<skipped, log>>
  BY DEF Next, Dispatcher, Route, Save, Crash, Deadline, vars
<1> QED BY <1>1, <1>2, <1>3, <1>4, <1>5

LEMMA BackInvariant == Spec => []BackInv
<1>1. Init => BackInv
  BY BackInit
<1>2. TypeInv /\ BackInv /\ [Next]_vars => BackInv'
  BY BackStep
<1> QED BY <1>1, <1>2, TypeInvariant, PTL DEF Spec

\* Steps in order, whatever crashes, expires or arrives late: when a tool is requested, every
\* earlier step is skipped or has an answer in the log before the request (_advance and
\* NextStep look only past the step whose completion they handle).
THEOREM RequestsInOrder == Spec => []InOrder
<1>1. TypeInv /\ BackInv => InOrder
  <2> SUFFICES ASSUME BackInv, NEW p \in DOMAIN log, log[p].type = "requested",
                      NEW s \in 1 .. log[p].step - 1
               PROVE  s \in skipped \/ AnsweredBefore(p, s)
    BY DEF InOrder
  <2>1. Backed(p, log[p])
    BY DEF BackInv
  <2> QED BY <2>1 DEF Backed, Moves, Ready
<1> QED BY <1>1, TypeInvariant, BackInvariant, PTL

\* A compensate_tool is requested only for a step whose own request has been answered.
THEOREM UndoneOnceAnswered == Spec => []UndoneAfterAnswer
<1>1. BackInv => UndoneAfterAnswer
  BY DEF BackInv, Backed, UndoneAfterAnswer
<1> QED BY <1>1, BackInvariant, PTL

-----------------------------------------------------------------------------
(* Until the deadline, the saga's steps only go up. *)

\* A deadline is recorded before p.
Late(p) == \E r \in Before(p) : log[r].type = "timed_out"

Started(p, step) == \E d \in Before(p) : log[d].type = "step_started" /\ log[d].step = step

Rises(x, y) ==
    /\ x.type \in Moves /\ y.type \in Moves => x.step <= y.step
    /\ x.type = "requested" /\ y.type = "requested" => x.step < y.step

\* current_step has seen every move before p (a request itself is not projected).
Covers(p, v) ==
    ~ Late(p) => \A d \in Before(p) : log[d].type \in Moves \ {"requested"} =>
                                          log[d].step <= v.current

OnceLog ==
    /\ \A p, q \in DOMAIN log : p < q /\ ~ Late(q) => Rises(log[p], log[q])
    /\ \A p \in DOMAIN log : log[p].type = "requested" => Started(p, log[p].step)

OnceTick ==
    tick # NoTick =>
        /\ Covers(tick.view.cursor + 1, tick.view)
        /\ ~ Late(End) => \A d \in DOMAIN log, e \in Range(tick.out) : Rises(log[d], e)
        /\ \A e \in Range(tick.out) : e.type = "requested" =>
               Event("step_started", e.step) \in Range(tick.out) \/ Started(End, e.step)

OnceInv == OnceLog /\ Covers(saved.cursor + 1, saved) /\ OnceTick

\* What is said of the events before p stays so when the log grows.
LEMMA BeforeGrows ==
    ASSUME log \in Seq(Events), NEW e \in Events, log' = Append(log, e), NEW p \in 1 .. End
    PROVE  /\ Late(p)' <=> Late(p)
           /\ Late(End)' <=> Late(End) \/ e.type = "timed_out"
           /\ \A step : /\ Started(p, step)' <=> Started(p, step)
                        /\ Started(End, step)' <=>
                               \/ Started(End, step)
                               \/ e.type = "step_started" /\ e.step = step
           /\ \A v : Covers(p, v)' <=> Covers(p, v)
<1>1. /\ Len(log) \in Nat
      /\ log'[End] = e
      /\ DOMAIN log = 1 .. Len(log)
      /\ \A q \in DOMAIN log : log'[q] = log[q]
      /\ End' = End + 1
  BY AppendIs DEF End
<1>2. /\ Before(p) \subseteq DOMAIN log
      /\ Before(End) = DOMAIN log
      /\ Before(End') = DOMAIN log \cup {End}
      /\ Before(p)' = Before(p) /\ Before(End)' = Before(End')
  BY <1>1 DEF Before, End
<1>3. Late(p)' <=> Late(p)
  BY <1>1, <1>2 DEF Late
<1>4. \A v : Covers(p, v)' <=> Covers(p, v)
  BY <1>1, <1>2, <1>3 DEF Covers
<1>5. Late(End)' <=> Late(End) \/ e.type = "timed_out"
  BY <1>1, <1>2 DEF Late
<1>6. \A step : Started(p, step)' <=> Started(p, step)
  BY <1>1, <1>2 DEF Started
<1>7. \A step : Started(End, step)' <=>
                    Started(End, step) \/ (e.type = "step_started" /\ e.step = step)
  BY <1>1, <1>2 DEF Started
<1> QED BY <1>3, <1>4, <1>5, <1>6, <1>7

\* A log in which steps only go up stays so.
LEMMA OnceGrows ==
    ASSUME LogInv, OnceLog, NEW e \in Events, log' = Append(log, e),
           ~ Late(End) => \A d \in DOMAIN log : Rises(log[d], e),
           e.type = "requested" => Started(End, e.step)
    PROVE  OnceLog'
<1>1. /\ Len(log) \in Nat /\ log \in Seq(Events)
      /\ log'[End] = e
      /\ DOMAIN log = 1 .. Len(log)
      /\ DOMAIN log' = DOMAIN log \cup {End}
      /\ \A q \in DOMAIN log : log'[q] = log[q] /\ q \in 1 .. End /\ q < End
      /\ End \in 1 .. End
  BY AppendIs DEF End, LogInv
<1>2. ASSUME NEW p \in DOMAIN log', NEW q \in DOMAIN log', p < q, ~ Late(q)'
      PROVE  Rises(log'[p], log'[q])
  <2>1. p \in DOMAIN log
    BY <1>1, <1>2
  <2>2. CASE q \in DOMAIN log
    <3>1. ~ Late(q)
      BY <1>1, <1>2, <2>2, BeforeGrows
    <3> QED BY <1>1, <1>2, <2>1, <2>2, <3>1 DEF OnceLog
  <2>3. CASE q = End
    <3>1. PICK n \in 1 .. End : n = End
      BY <1>1
    <3>2. ~ Late(n)' /\ (Late(n)' <=> Late(n))
      BY <1>1, <1>2, <2>3, <3>1, BeforeGrows
    <3> QED BY <1>1, <2>1, <2>3, <3>1, <3>2
  <2> QED BY <1>1, <2>2, <2>3
<1>3. ASSUME NEW p \in DOMAIN log', log'[p].type = "requested"
      PROVE  Started(p, log[p].step)'
  <2>1. CASE p \in DOMAIN log
    <3>1. PICK step : step = log[p].step /\ Started(p, step)
      BY <1>1, <1>3, <2>1 DEF OnceLog
    <3>2. Started(p, step)'
      BY <1>1, <2>1, <3>1, BeforeGrows
    <3>3. log'[p].step = step
      BY <1>1, <2>1, <3>1
    <3> QED BY <3>2, <3>3 DEF Started
  <2>2. CASE p = End
    <3>1. PICK n \in 1 .. End : n = End
      BY <1>1
    <3>2. \A step : Started(n, step)' <=> Started(n, step)
      BY <1>1, <3>1, BeforeGrows
    <3>3. Started(n, e.step)'
      BY <1>1, <1>3, <2>2, <3>1, <3>2
    <3> QED BY <1>1, <2>2, <3>1, <3>3 DEF Started
  <2> QED BY <1>1, <2>1, <2>2
<1> QED BY <1>2, <1>3 DEF OnceLog

LEMMA FoldCovers ==
    ASSUME LogInv, NEW v, ViewInv(v), OnceLog, Covers(v.cursor + 1, v)
    PROVE  Covers(End, Fold(v))
<1> DEFINE I == [p \in v.cursor .. Len(log) |-> {u \in Views : Covers(p + 1, u)}]
<1>0. /\ log \in Seq(Events) /\ v \in Views /\ v.cursor <= Len(log)
      /\ v.cursor \in Nat /\ Len(log) \in Nat
      /\ v.completions \subseteq v.requests
  BY DEF LogInv, ViewInv, Views
<1>1. \A p \in v.cursor .. Len(log) : I[p] = {u \in Views : Covers(p + 1, u)}
  OBVIOUS
<1>2. v \in I[v.cursor] /\ Len(log) \in v.cursor .. Len(log)
  BY <1>0
<1>3. ASSUME NEW p \in v.cursor + 1 .. Len(log), NEW u \in I[p - 1]
      PROVE  Project(u, log[p]) \in I[p]
  <2>1. /\ p \in v.cursor .. Len(log) /\ p - 1 \in v.cursor .. Len(log)
        /\ p \in DOMAIN log /\ (p - 1) + 1 = p
        /\ Before(p + 1) = Before(p) \cup {p} /\ Before(p) \subseteq DOMAIN log
        /\ \A d \in Before(p) : d < p
    BY <1>0 DEF Before
  <2>2. u \in Views /\ Covers(p, u) /\ log[p] \in Events
    BY <1>0, <1>1, <2>1
  <2> DEFINE f == Project(u, log[p])
  <2>3. f \in Views
    BY <2>2, ProjectView
  <2>4. ASSUME ~ Late(p + 1)
        PROVE  \A d \in Before(p + 1) : log[d].type \in Moves \ {"requested"} =>
                                            log[d].step <= f.current
    <3>1. ~ Late(p) /\ log[p].type # "timed_out"
      BY <2>1, <2>4 DEF Late
    <3>2. /\ u.current \in 0 .. Length /\ log[p].step \in 0 .. Length /\ Length \in Nat
      BY <2>2, SagaAssumption DEF Events, Views
    <3>3. CASE log[p].type \in Moves \ {"requested"}
      <4>1. f.current = IF log[p].step = 0 THEN u.current ELSE log[p].step
        <5>1. CASE log[p].type \in {"step_started", "awaiting_approval"}
          <6>1. log[p].step # 0
            BY <2>2, <5>1 DEF Events, Steps
          <6> QED BY <2>2, <5>1, <6>1 DEF Project, Views
        <5>2. CASE log[p].type \in {"compensation_failed", "dlq"}
          BY <2>2, <5>2 DEF Project, Views
        <5> QED BY <3>3, <5>1, <5>2 DEF Moves
      <4> HIDE DEF f
      <4>2. ASSUME NEW d \in Before(p), log[d].type \in Moves \ {"requested"}
            PROVE  log[d].step <= f.current
        <5>1. log[d].step <= u.current
          BY <2>2, <3>1, <4>2 DEF Covers
        <5>2. log[d].step <= log[p].step
          BY <2>1, <3>1, <3>3, <4>2 DEF OnceLog, Rises
        <5> QED BY <4>1, <5>1, <5>2
      <4>3. log[p].step <= f.current
        BY <3>2, <4>1
      <4> QED BY <2>1, <4>2, <4>3
    <3>4. CASE log[p].type \notin Moves \ {"requested"}
      <4>1. f.current = u.current
        BY <2>2, <3>1, <3>4 DEF Project, Views, Moves
      <4> HIDE DEF f
      <4> QED BY <2>1, <2>2, <3>1, <3>4, <4>1 DEF Covers
    <3> QED BY <3>3, <3>4
  <2>5. Covers(p + 1, f)
    <3> HIDE DEF f
    <3> QED BY <2>4 DEF Covers
  <2> QED BY <1>1, <2>1, <2>3, <2>5
<1>4. Projected(v) \in I[Len(log)]
  <2>1. \A p \in v.cursor .. Len(log) : I[p] \subseteq Views
    BY <1>1
  <2> HIDE DEF I
  <2> QED BY <1>0, <1>2, <1>3, <2>1, ProjectedIn
<1>5. Covers(End, Projected(v))
  BY <1>1, <1>2, <1>4 DEF End
<1>6. Fold(v).current = Projected(v).current
  BY <1>0, FoldIs
<1> QED BY <1>5, <1>6 DEF Covers

\* Until the deadline, what SagaSystem emits is not below what the log holds.
LEMMA EmittedRises ==
    ASSUME LogInv, NEW v, ViewInv(v), v.cursor = Len(log), OnceLog, Covers(End, v), ~ Late(End),
           NEW e, EmittedBy(v, e), NEW d \in DOMAIN log
    PROVE  Rises(log[d], e)
<1>0. /\ v \in Views /\ v.current \in 0 .. Length /\ Length \in Nat
      /\ Len(log) \in Nat /\ DOMAIN log = 1 .. Len(log) /\ DOMAIN log = Before(End)
      /\ log[d] \in Events /\ log[d].step \in 0 .. Length
  BY SagaAssumption DEF ViewInv, Views, LogInv, Before, End, Events
<1>1. log[d].type \in Moves => log[d].step <= v.current
  <2>1. CASE log[d].type \in Moves \ {"requested"}
    BY <1>0, <2>1 DEF Covers
  <2>2. CASE log[d].type = "requested"
    <3>1. PICK s \in Before(d) : log[s].type = "step_started" /\ log[s].step = log[d].step
      BY <2>2 DEF OnceLog, Started
    <3>2. s \in DOMAIN log
      BY <1>0 DEF Before
    <3>3. s \in Before(End) /\ log[s].type \in Moves \ {"requested"}
      BY <1>0, <3>1, <3>2 DEF Moves
    <3>4. log[s].step <= v.current
      BY <3>3 DEF Covers
    <3> QED BY <3>1, <3>4
  <2> QED BY <2>1, <2>2
<1>2. CASE e.type \notin Moves
  BY <1>2 DEF Rises, Moves
<1>3. CASE e \in {Event("compensation_failed", v.current), Event("dlq", v.current)}
  <2>1. e.type # "requested" /\ e.step = v.current
    BY <1>3 DEF Event
  <2> QED BY <1>1, <2>1 DEF Rises
<1>4. ASSUME NEW a \in 0 .. Length, Advances(v, a), NextStep(a) # 0,
             e \in {Event("step_started", NextStep(a)), Asked(NextStep(a))}
      PROVE  Rises(log[d], e)
  <2>1. e.step = NextStep(a) /\ NextStep(a) \in Steps /\ a < NextStep(a)
    BY <1>4, NextStepIs DEF Event, Asked
  <2>2. CASE Trigger(v).type = "started"
    <3>1. d = 1 /\ log[d].type = "started"
      BY <1>0, <2>2 DEF Trigger, LogInv
    <3> QED BY <3>1 DEF Rises, Moves
  <2>3. CASE a = v.current
    <3>1. log[d].type \in Moves => log[d].step < e.step
      BY <1>0, <1>1, <2>1, <2>3 DEF Steps
    <3>2. NextStep(a) \in Nat /\ log[d].step \in Nat
      BY <1>0, <2>1 DEF Steps
    <3>3. "requested" \in Moves
      BY DEF Moves
    <3> QED BY <2>1, <3>1, <3>2, <3>3 DEF Rises
  <2> QED BY <1>4, <2>2, <2>3 DEF Advances
<1>5. ASSUME Handles(v), NEW kind \in {"completed", "failed"}, e = RecordOf(v, kind)
      PROVE  e.type \notin Moves
  <2>1. e.type \in Records
    BY <1>0, <1>5, HandlesStep, RecordOfIs DEF Handles
  <2> QED BY <2>1 DEF Records, Moves
<1>6. \/ e.type \notin Moves
      \/ e \in {Event("compensation_failed", v.current), Event("dlq", v.current)}
      \/ \E a \in 0 .. Length : /\ Advances(v, a)
                                /\ NextStep(a) # 0
                                /\ e \in {Event("step_started", NextStep(a)), Asked(NextStep(a))}
  <2>1. /\ Event("done", 0).type \notin Moves
        /\ Event("compensating", 0).type \notin Moves
        /\ \A s : /\ Event("compensation_started", s).type \notin Moves
                  /\ Event("undo", s).type \notin Moves
    BY DEF Event, Moves
  <2> QED BY <1>5, <2>1 DEF EmittedBy
<1> QED BY <1>2, <1>3, <1>4, <1>6

LEMMA OutputRises ==
    ASSUME LogInv, NEW v, ViewInv(v), v.cursor = Len(log), OnceLog, Covers(End, v), NEW expired,
           expired = <<>> \/ \E p \in DOMAIN log : expired = <<p>>,
           Range(expired) \subseteq v.requests
    PROVE  /\ ~ Late(End) =>
                  \A d \in DOMAIN log, e \in Range(Output(v, expired)) : Rises(log[d], e)
           /\ \A e \in Range(Output(v, expired)) : e.type = "requested" =>
                  Event("step_started", e.step) \in Range(Output(v, expired))
<1>1. /\ \A e \in Range(Output(v, expired)) :
             \/ e \in Range(Emits(v))
             \/ \E r \in Range(expired) : e = Answer("expired", r)
             \/ e = Event("timed_out", v.current)
      /\ Range(Emits(v)) \subseteq Range(Output(v, expired))
  BY OutputIs
<1>2. /\ \A e \in Range(Emits(v)) : EmittedBy(v, e)
      /\ \A e \in Range(Emits(v)) : e.type = "requested" =>
             Event("step_started", e.step) \in Range(Emits(v))
  BY EmitsRange DEF Accompanied
<1>3. /\ \A r : Answer("expired", r).type = "expired"
      /\ Event("timed_out", v.current).type = "timed_out"
  BY DEF Answer, Event
<1>4. ASSUME NEW e \in Range(Output(v, expired))
      PROVE  e \in Range(Emits(v)) \/ e.type \notin Moves
  BY <1>1, <1>3 DEF Moves
<1>5. ASSUME ~ Late(End), NEW d \in DOMAIN log, NEW e \in Range(Output(v, expired))
      PROVE  Rises(log[d], e)
  <2>1. CASE e \in Range(Emits(v))
    BY <1>2, <1>5, <2>1, EmittedRises
  <2>2. CASE e.type \notin Moves
    BY <2>2 DEF Rises, Moves
  <2> QED BY <1>4, <2>1, <2>2
<1>6. ASSUME NEW e \in Range(Output(v, expired)), e.type = "requested"
      PROVE  Event("step_started", e.step) \in Range(Output(v, expired))
  BY <1>1, <1>2, <1>4, <1>6 DEF Moves
<1> QED BY <1>5, <1>6

LEMMA OnceInit == Init => OnceInv
<1> SUFFICES ASSUME Init PROVE OnceInv
  OBVIOUS
<1>1. log = <<Event("started", 0)>> /\ saved.cursor = 0 /\ tick = NoTick
  BY DEF Init
<1>2. DOMAIN log = {1} /\ log[1].type = "started"
  BY <1>1 DEF Event
<1>3. OnceLog
  BY <1>2 DEF OnceLog
<1>4. Before(saved.cursor + 1) = {}
  BY <1>1 DEF Before
<1> QED BY <1>1, <1>3, <1>4 DEF OnceInv, OnceTick, Covers

LEMMA OnceStep == TypeInv /\ OnceInv /\ [Next]_vars => OnceInv'
<1> SUFFICES ASSUME TypeInv, OnceInv, [Next]_vars PROVE OnceInv'
  OBVIOUS
<1>0. /\ LogInv /\ ViewInv(saved) /\ TickInv /\ log \in Seq(Events)
      /\ Len(log) \in Nat /\ DOMAIN log = 1 .. Len(log) /\ End \in 1 .. End
      /\ saved.cursor + 1 \in 1 .. End
  BY DEF TypeInv, LogInv, End, ViewInv, Views
<1>c. ASSUME tick # NoTick PROVE tick.view.cursor + 1 \in 1 .. End
  BY <1>0, <1>c DEF TickInv, ViewInv, Views, End
<1>s. ASSUME log' = log
      PROVE  /\ OnceLog' <=> OnceLog
             /\ End' = End /\ Late(End)' <=> Late(End)
             /\ \A p, v : Covers(p, v)' <=> Covers(p, v)
             /\ \A step : Started(End, step)' <=> Started(End, step)
  <2>1. \A p : Late(p)' <=> Late(p)
    BY <1>s DEF Late
  <2>2. End' = End
    BY <1>s DEF End
  <2>3. \A p, step : Started(p, step)' <=> Started(p, step)
    BY <1>s DEF Started
  <2>4. \A p, v : Covers(p, v)' <=> Covers(p, v)
    BY <1>s, <2>1 DEF Covers
  <2>5. OnceLog' <=> OnceLog
    BY <1>s, <2>1, <2>3 DEF OnceLog
  <2>6. Late(End)' <=> Late(End)
    BY <1>s DEF Late, End
  <2>7. \A step : Started(End, step)' <=> Started(End, step)
    BY <1>s DEF Started, End
  <2> QED BY <2>2, <2>4, <2>5, <2>6, <2>7
<1>1. CASE Read
  <2>0. PICK v : v = Fold(saved)
    OBVIOUS
  <2>1. PICK expired :
              /\ expired = <<>> \/ \E p \in DOMAIN log : expired = <<p>>
              /\ Range(expired) \subseteq v.requests \ v.completions
              /\ tick = NoTick
              /\ \/ /\ saved' = v
                    /\ tick' = tick
                 \/ /\ tick' = [view |-> v, out |-> Output(v, expired), emitted |-> {}]
                    /\ saved' = saved
              /\ skipped' = skipped /\ log' = log
    BY <1>0, <1>1, <2>0, ReadIs
  <2>2. ViewInv(v) /\ v.cursor = Len(log)
    BY <1>0, <2>0, FoldView
  <2>3. Covers(End, v)
    BY <1>0, <2>0, FoldCovers DEF OnceInv
  <2>4. Range(expired) \subseteq v.requests
    BY <2>1
  <2>5. /\ ~ Late(End) =>
               \A d \in DOMAIN log, e \in Range(Output(v, expired)) : Rises(log[d], e)
        /\ \A e \in Range(Output(v, expired)) : e.type = "requested" =>
               Event("step_started", e.step) \in Range(Output(v, expired))
    BY <1>0, <2>1, <2>2, <2>3, <2>4, OutputRises DEF OnceInv
  <2>6. OnceLog' /\ Covers(v.cursor + 1, v)' /\ (Late(End)' <=> Late(End))
    BY <1>s, <2>1, <2>2, <2>3 DEF OnceInv, End
  <2>7. CASE saved' = v /\ tick' = tick
    BY <2>1, <2>6, <2>7 DEF OnceInv, OnceTick
  <2>8. CASE /\ tick' = [view |-> v, out |-> Output(v, expired), emitted |-> {}]
             /\ saved' = saved
    <3>1. tick'.view = v /\ tick'.out = Output(v, expired)
      BY <2>8
    <3>2. Covers(tick.view.cursor + 1, tick.view)'
      BY <2>6, <3>1
    <3>3. Covers(saved.cursor + 1, saved)'
      BY <1>s, <2>1, <2>8 DEF OnceInv
    <3>4. OnceTick'
      BY <2>1, <2>5, <2>6, <3>1, <3>2 DEF OnceTick
    <3> QED BY <2>6, <3>3, <3>4 DEF OnceInv
  <2> QED BY <2>1, <2>7, <2>8
<1>2. CASE AppendNext
  <2>0. PICK e : e = Head(tick.out)
    OBVIOUS
  <2>1. /\ tick # NoTick /\ tick.out # <<>> /\ log' = Append(log, e)
        /\ tick' = [tick EXCEPT !.out = Tail(@), !.emitted = @ \cup {Len(log) + 1}]
        /\ saved' = saved
    BY <1>2, <2>0 DEF AppendNext
  <2>2. /\ e \in Events
        /\ Range(tick.out) = {e} \cup Range(Tail(tick.out))
        /\ \A y \in Range(Tail(tick.out)) : Follows(e, y)
        /\ tick \in [view : Views, out : Seq(Events), emitted : SUBSET Nat]
    BY <1>0, <2>0, <2>1, HeadIs DEF TickInv
  <2>3. tick'.view = tick.view /\ tick'.out = Tail(tick.out)
    BY <2>1, <2>2
  <2>4. /\ Late(End)' <=> Late(End) \/ e.type = "timed_out"
        /\ \A step : Started(End, step)' <=>
                         Started(End, step) \/ (e.type = "step_started" /\ e.step = step)
        /\ Covers(saved.cursor + 1, saved)'
        /\ Covers(tick.view.cursor + 1, tick.view)'
    <3>a. PICK n \in 1 .. End, m \in 1 .. End : n = saved.cursor + 1 /\ m = tick.view.cursor + 1
      BY <1>0, <1>c, <2>1
    <3>b. PICK u, w : u = saved /\ w = tick.view
      OBVIOUS
    <3>1. n = saved.cursor + 1 /\ m = tick.view.cursor + 1 /\ u = saved /\ w = tick.view
      BY <3>a, <3>b
    <3>2. /\ Late(End)' <=> Late(End) \/ e.type = "timed_out"
          /\ \A step : Started(End, step)' <=>
                           Started(End, step) \/ (e.type = "step_started" /\ e.step = step)
      BY <1>0, <2>1, <2>2, <3>1, BeforeGrows
    <3>3. (Covers(n, u)' <=> Covers(n, u)) /\ (Covers(m, w)' <=> Covers(m, w))
      BY <1>0, <2>1, <2>2, BeforeGrows
    <3>4. Covers(n, u) /\ Covers(m, w)
      BY <2>1, <3>1 DEF OnceInv, OnceTick
    <3> QED BY <2>1, <2>3, <3>1, <3>2, <3>3, <3>4
  <2>5. e.type = "requested" => Started(End, e.step)
    <3> SUFFICES ASSUME e.type = "requested", Event("step_started", e.step) \in Range(tick.out)
                 PROVE  FALSE
      BY <2>1, <2>2 DEF OnceInv, OnceTick
    <3>1. Event("step_started", e.step).type = "step_started"
      BY DEF Event
    <3>2. Event("step_started", e.step) \in Range(Tail(tick.out))
      BY <2>2, <3>1
    <3> QED BY <2>2, <3>1, <3>2 DEF Follows, Dispatching
  <2>6. ~ Late(End) => \A d \in DOMAIN log : Rises(log[d], e)
    BY <2>1, <2>2 DEF OnceInv, OnceTick
  <2>7. OnceLog'
    BY <1>0, <2>1, <2>2, <2>5, <2>6, OnceGrows DEF OnceInv
  <2>8. /\ log'[End] = e /\ DOMAIN log' = DOMAIN log \cup {End}
        /\ \A d \in DOMAIN log : log'[d] = log[d]
    BY <1>0, <2>1, <2>2, AppendIs DEF End
  <2>9. ASSUME ~ Late(End)', NEW d \in DOMAIN log', NEW y \in Range(Tail(tick.out))
        PROVE  Rises(log'[d], y)
    <3>1. CASE d \in DOMAIN log
      BY <2>1, <2>2, <2>4, <2>8, <2>9, <3>1 DEF OnceInv, OnceTick
    <3>2. CASE d = End
      <4>1. Follows(e, y)
        BY <2>2, <2>9
      <4> QED BY <2>8, <3>2, <4>1 DEF Follows, Rises, Dispatching
    <3> QED BY <2>8, <3>1, <3>2
  <2>10. ASSUME NEW y \in Range(Tail(tick.out)), y.type = "requested"
         PROVE  Event("step_started", y.step) \in Range(Tail(tick.out)) \/ Started(End, y.step)'
    <3>1. Event("step_started", y.step) \in Range(tick.out) \/ Started(End, y.step)
      BY <2>1, <2>2, <2>10 DEF OnceInv, OnceTick
    <3>2. Event("step_started", y.step).type = "step_started"
          /\ Event("step_started", y.step).step = y.step
      BY DEF Event
    <3> QED BY <2>2, <2>4, <3>1, <3>2
  <2>11. OnceTick'
    BY <2>3, <2>4, <2>9, <2>10 DEF OnceTick
  <2> QED BY <2>4, <2>7, <2>11 DEF OnceInv
<1>3. CASE (\E p \in DOMAIN log : Respond(p)) \/ Other
  <2>1. PICK e : Foreign(e)
    BY <1>0, <1>3, ForeignIs
  <2>2. /\ e \in Events /\ log' = Append(log, e)
        /\ UNCHANGED <<skipped, saved, tick>>
    BY <2>1 DEF Foreign
  <2>3. e.type \in WorkerAnswers \cup {"other"}
    BY <1>0, <2>1, ForeignType, SagaAssumption DEF TypeInv
  <2>4. e.type \notin Moves \cup {"timed_out", "step_started", "requested"}
    BY <2>3 DEF Moves, WorkerAnswers
  <2>5. \A x : Rises(x, e) /\ Rises(e, x)
    BY <2>4 DEF Rises
  <2>6. OnceLog'
    BY <1>0, <2>2, <2>4, <2>5, OnceGrows DEF OnceInv
  <2>7. Covers(saved.cursor + 1, saved)'
    <3>a. PICK n \in 1 .. End : n = saved.cursor + 1
      BY <1>0
    <3>b. PICK u : u = saved
      OBVIOUS
    <3>1. n = saved.cursor + 1 /\ u = saved
      BY <3>a, <3>b
    <3>2. Covers(n, u)' <=> Covers(n, u)
      BY <1>0, <2>2, BeforeGrows
    <3> QED BY <2>2, <3>1, <3>2 DEF OnceInv
  <2>8. ASSUME tick # NoTick PROVE OnceTick'
    <3>a. PICK m \in 1 .. End : m = tick.view.cursor + 1
      BY <1>c, <2>8
    <3>b. PICK w : w = tick.view
      OBVIOUS
    <3>1. m = tick.view.cursor + 1 /\ w = tick.view
      BY <3>a, <3>b
    <3>2. /\ Covers(m, w)' <=> Covers(m, w)
          /\ Late(End)' <=> Late(End)
          /\ \A step : Started(End, step)' <=> Started(End, step)
      BY <1>0, <2>2, <2>4, BeforeGrows
    <3>3. /\ log'[End] = e /\ DOMAIN log' = DOMAIN log \cup {End}
          /\ \A d \in DOMAIN log : log'[d] = log[d]
      BY <1>0, <2>2, AppendIs DEF End
    <3>4. OnceTick
      BY DEF OnceInv
    <3>5. Covers(tick.view.cursor + 1, tick.view)'
      BY <2>2, <2>8, <3>1, <3>2, <3>4 DEF OnceTick
    <3>6. ~ Late(End)' => \A d \in DOMAIN log', x \in Range(tick'.out) : Rises(log'[d], x)
      BY <2>2, <2>5, <2>8, <3>2, <3>3, <3>4 DEF OnceTick
    <3>7. \A x \in Range(tick'.out) : x.type = "requested" =>
              Event("step_started", x.step) \in Range(tick'.out) \/ Started(End, x.step)'
      BY <2>2, <2>8, <3>2, <3>4 DEF OnceTick
    <3> QED BY <3>5, <3>6, <3>7 DEF OnceTick
  <2>9. tick = NoTick => OnceTick'
    BY <2>2 DEF OnceTick
  <2> QED BY <2>6, <2>7, <2>8, <2>9 DEF OnceInv
<1>4. CASE log' = log /\ UNCHANGED <<saved, tick>>
  <2>1. OnceLog' /\ Covers(saved.cursor + 1, saved)'
    BY <1>s, <1>4 DEF OnceInv
  <2>2. ASSUME tick # NoTick PROVE OnceTick'
    <3>1. Covers(tick.view.cursor + 1, tick.view)'
      BY <1>s, <1>4, <2>2 DEF OnceInv, OnceTick
    <3>2. ~ Late(End)' => \A d \in DOMAIN log, e \in Range(tick.out) : Rises(log[d], e)
      BY <1>s, <1>4, <2>2 DEF OnceInv, OnceTick
    <3>3. ASSUME NEW e \in Range(tick.out), e.type = "requested"
          PROVE  Event("step_started", e.step) \in Range(tick.out) \/ Started(End, e.step)'
      BY <1>s, <1>4, <2>2, <3>3 DEF OnceInv, OnceTick
    <3> QED BY <1>4, <2>2, <3>1, <3>2, <3>3 DEF OnceTick
  <2>3. tick = NoTick => OnceTick'
    BY <1>4 DEF OnceTick
  <2> QED BY <2>1, <2>2, <2>3 DEF OnceInv
<1>5. CASE Crash
  <2>1. tick' = NoTick /\ log' = log /\ saved' = saved
    BY <1>5 DEF Crash
  <2> QED BY <1>s, <2>1 DEF OnceInv, OnceTick
<1>6. CASE Save
  <2>1. /\ tick # NoTick /\ saved' = FoldEmitted(tick.view, tick.emitted) /\ tick' = NoTick
        /\ log' = log
    BY <1>6 DEF Save
  <2>2. PICK f : f = FoldEmitted(tick.view, tick.emitted)
    OBVIOUS
  <2>3. f.current = tick.view.current /\ f.cursor = tick.view.cursor
    BY <1>0, <2>1, <2>2, FoldEmittedIs DEF TickInv, ViewInv
  <2>4. Covers(f.cursor + 1, f)
    BY <2>1, <2>3 DEF OnceInv, OnceTick, Covers
  <2> QED BY <1>s, <2>1, <2>2, <2>4 DEF OnceInv, OnceTick
<1> QED BY <1>1, <1>2, <1>3, <1>4, <1>5, <1>6 DEF Next, Dispatcher, Route, Deadline, vars

LEMMA OnceInvariant == Spec => []OnceInv
<1>1. Init => OnceInv
  BY OnceInit
<1>2. TypeInv /\ OnceInv /\ [Next]_vars => OnceInv'
  BY OnceStep
<1> QED BY <1>1, <1>2, TypeInvariant, PTL DEF Spec

\* Until a deadline is recorded, a step's tool is requested at most once: each request is for a
\* later step than the ones before it, because current_step never goes down.
THEOREM RequestedOnce == Spec => []StepOnce
<1>1. TypeInv /\ OnceInv => StepOnce
  <2> SUFFICES ASSUME TypeInv, OnceInv, NEW p \in DOMAIN log, NEW q \in DOMAIN log,
                      log[p].type = "requested", log[q] = log[p], ~ Late(q), ~ (q <= p)
               PROVE  FALSE
    BY DEF StepOnce, Late
  <2>1. p < q /\ log[p].step \in Nat
    BY SagaAssumption DEF TypeInv, LogInv, Events
  <2>2. log[p].step < log[q].step
    BY <2>1 DEF OnceInv, OnceLog, Rises
  <2> QED BY <2>1, <2>2
<1> QED BY <1>1, TypeInvariant, OnceInvariant, PTL

-----------------------------------------------------------------------------
(* What the overlay holds of the requests and answers that a view has seen. *)

Answers(q, r) == log[q].type \in ToolAnswers /\ log[q].of = r

\* An answer to r that was seen at the cursor, or that the sweeper gave in a tick.
AnswerKnown(v, r) ==
    \E q \in DOMAIN log : Answers(q, r) /\ (q <= v.cursor \/ log[q].type = "expired")

Over(v) ==
    /\ \A r \in 1 .. v.cursor : log[r].type \in ToolRequests =>
           r \in v.requests \/ AnswerKnown(v, r)
    /\ \A q \in 1 .. v.cursor : log[q].type \in ToolAnswers /\ log[q].of \in v.requests =>
           log[q].of \in v.completions
    /\ \A r \in v.completions : AnswerKnown(v, r)

OverInv == Over(saved) /\ (tick # NoTick => Over(tick.view))

LEMMA OverGrows ==
    ASSUME LogInv, NEW e \in Events, log' = Append(log, e), NEW v, ViewInv(v), Over(v)
    PROVE  Over(v)'
<1>1. /\ \A p \in DOMAIN log : p \in DOMAIN log' /\ log'[p] = log[p]
      /\ DOMAIN log = 1 .. Len(log) /\ Len(log) \in Nat
  BY AppendIs DEF LogInv
<1>2. 1 .. v.cursor \subseteq DOMAIN log
  BY <1>1 DEF ViewInv, Views
<1>3. \A r : AnswerKnown(v, r) => AnswerKnown(v, r)'
  BY <1>1 DEF AnswerKnown, Answers
<1> QED BY <1>1, <1>2, <1>3 DEF Over

LEMMA FoldOver ==
    ASSUME LogInv, NEW v, ViewInv(v), Over(v)
    PROVE  Over(Fold(v))
<1> DEFINE batch == v.cursor + 1 .. Len(log)
           requests == v.requests \cup RequestsIn(batch)
<1>0. /\ log \in Seq(Events) /\ v \in Views /\ v.cursor <= Len(log)
      /\ v.cursor \in Nat /\ Len(log) \in Nat /\ DOMAIN log = 1 .. Len(log)
      /\ v.completions \subseteq v.requests
  BY DEF LogInv, ViewInv, Views
<1>1. PICK f : f = Fold(v)
  OBVIOUS
<1>2. /\ f.cursor = Len(log)
      /\ HasToolEvents(batch) =>
             /\ f.requests = requests \ v.completions
             /\ f.completions = (AnsweredIn(batch) \cap requests) \ v.completions
      /\ ~ HasToolEvents(batch) => f.requests = v.requests /\ f.completions = v.completions
  BY <1>0, <1>1, FoldIs
<1>3. /\ batch \subseteq DOMAIN log
      /\ \A p \in DOMAIN log : p \in 1 .. v.cursor \/ p \in batch
      /\ \A p \in 1 .. v.cursor, r \in batch : ~ (r < p)
      /\ \A p \in DOMAIN log : p <= f.cursor
  BY <1>0, <1>2
<1> HIDE DEF batch
<1>4. \A r : AnswerKnown(v, r) => AnswerKnown(f, r)
  BY <1>3 DEF AnswerKnown
<1>5. CASE HasToolEvents(batch)
  <2>1. ASSUME NEW r \in DOMAIN log, log[r].type \in ToolRequests
        PROVE  r \in f.requests \/ AnswerKnown(f, r)
    <3>1. CASE r \in v.completions
      BY <1>4, <3>1 DEF Over
    <3>2. CASE r \in batch /\ r \notin v.completions
      BY <1>2, <1>5, <2>1, <3>2 DEF RequestsIn
    <3>3. CASE r \in 1 .. v.cursor /\ r \notin v.completions
      BY <1>2, <1>4, <1>5, <2>1, <3>3 DEF Over
    <3> QED BY <1>3, <3>1, <3>2, <3>3
  <2>2. ASSUME NEW q \in DOMAIN log, log[q].type \in ToolAnswers, log[q].of \in f.requests
        PROVE  log[q].of \in f.completions
    <3>1. log[q].of \in requests /\ log[q].of \notin v.completions
      BY <1>2, <1>5, <2>2
    <3>2. CASE q \in batch
      BY <1>2, <1>5, <2>2, <3>1, <3>2 DEF AnsweredIn
    <3>3. CASE q \in 1 .. v.cursor
      <4>1. log[q].of \notin v.requests
        BY <2>2, <3>1, <3>3 DEF Over
      <4>2. log[q].of \in batch /\ log[q].of < q
        BY <3>1, <4>1 DEF RequestsIn, LogInv
      <4> QED BY <1>3, <3>3, <4>2
    <3> QED BY <1>3, <3>2, <3>3
  <2>3. ASSUME NEW r \in f.completions PROVE AnswerKnown(f, r)
    <3>1. PICK q \in batch : log[q].type \in ToolAnswers /\ log[q].of = r
      BY <1>2, <1>5, <2>3 DEF AnsweredIn
    <3> QED BY <1>3, <3>1 DEF AnswerKnown, Answers
  <2> QED BY <1>0, <1>1, <1>2, <2>1, <2>2, <2>3 DEF Over
<1>6. CASE ~ HasToolEvents(batch)
  <2>1. \A p \in batch : log[p].type \notin ToolRequests \cup ToolAnswers
    BY <1>6 DEF HasToolEvents
  <2>2. \A r \in DOMAIN log : log[r].type \in ToolRequests => r \in f.requests \/ AnswerKnown(f, r)
    BY <1>2, <1>3, <1>4, <1>6, <2>1 DEF Over
  <2>3. \A q \in DOMAIN log : log[q].type \in ToolAnswers /\ log[q].of \in f.requests =>
            log[q].of \in f.completions
    BY <1>2, <1>3, <1>6, <2>1 DEF Over
  <2>4. \A r \in f.completions : AnswerKnown(f, r)
    BY <1>2, <1>4, <1>6 DEF Over
  <2> QED BY <1>0, <1>1, <1>2, <2>2, <2>3, <2>4 DEF Over
<1> QED BY <1>5, <1>6

\* The events that a tick emitted, at their positions behind its view's cursor.
LEMMA FoldEmittedOver ==
    ASSUME LogInv, NEW v, ViewInv(v), Over(v), NEW emitted,
           emitted \subseteq v.cursor + 1 .. Len(log),
           \A p \in emitted : log[p].type \notin WorkerAnswers
    PROVE  Over(FoldEmitted(v, emitted))
<1> DEFINE requests == v.requests \cup RequestsIn(emitted)
           completions == v.completions \cup (AnsweredIn(emitted) \cap requests)
<1>0. /\ v \in Views /\ v.cursor <= Len(log)
      /\ v.cursor \in Nat /\ Len(log) \in Nat /\ DOMAIN log = 1 .. Len(log)
      /\ v.completions \subseteq v.requests
  BY DEF LogInv, ViewInv, Views
<1>1. PICK f : f = FoldEmitted(v, emitted)
  OBVIOUS
<1>2. /\ f.cursor = v.cursor
      /\ HasToolEvents(emitted) => f.requests = requests \ completions /\ f.completions = {}
      /\ ~ HasToolEvents(emitted) => f = v
  <2>1. emitted \in SUBSET Nat
    BY <1>0
  <2> QED BY <1>0, <1>1, <2>1, FoldEmittedIs
<1>3. /\ emitted \subseteq DOMAIN log
      /\ 1 .. v.cursor \subseteq DOMAIN log
      /\ \A p \in 1 .. v.cursor, r \in emitted : ~ (r < p)
  BY <1>0
<1>4. \A r : AnswerKnown(v, r) => AnswerKnown(f, r)
  BY <1>2 DEF AnswerKnown
<1>5. CASE HasToolEvents(emitted)
  <2>1. ASSUME NEW r \in 1 .. v.cursor, log[r].type \in ToolRequests
        PROVE  r \in f.requests \/ AnswerKnown(f, r)
    <3>1. CASE AnswerKnown(v, r)
      BY <1>4, <3>1
    <3>2. CASE r \in v.requests /\ r \in v.completions
      BY <1>4, <3>2 DEF Over
    <3>3. CASE r \in AnsweredIn(emitted)
      <4>1. PICK q \in emitted : log[q].type \in ToolAnswers /\ log[q].of = r
        BY <3>3 DEF AnsweredIn
      <4>2. log[q].type = "expired"
        BY <4>1 DEF ToolAnswers
      <4> QED BY <1>3, <4>1, <4>2 DEF AnswerKnown, Answers
    <3>4. CASE r \in v.requests /\ r \notin v.completions /\ r \notin AnsweredIn(emitted)
      BY <1>2, <1>5, <3>4
    <3> QED BY <2>1, <3>1, <3>2, <3>3, <3>4 DEF Over
  <2>2. ASSUME NEW q \in 1 .. v.cursor, log[q].type \in ToolAnswers, log[q].of \in f.requests
        PROVE  FALSE
    <3>1. log[q].of \in requests /\ log[q].of \notin v.completions
      BY <1>2, <1>5, <2>2
    <3>2. log[q].of \notin v.requests
      BY <2>2, <3>1 DEF Over
    <3>3. log[q].of \in emitted /\ log[q].of < q
      BY <1>3, <3>1, <3>2 DEF RequestsIn, LogInv
    <3> QED BY <1>3, <3>3
  <2> QED BY <1>1, <1>2, <1>5, <2>1, <2>2 DEF Over
<1>6. CASE ~ HasToolEvents(emitted)
  BY <1>1, <1>2, <1>6
<1> QED BY <1>5, <1>6

LEMMA OverInit == Init => OverInv
<1> SUFFICES ASSUME Init PROVE OverInv
  OBVIOUS
<1>1. saved.cursor = 0 /\ saved.completions = {} /\ tick = NoTick
  BY DEF Init
<1>2. 1 .. saved.cursor = {}
  BY <1>1
<1> QED BY <1>1, <1>2 DEF OverInv, Over

LEMMA OverStep == TypeInv /\ OverInv /\ [Next]_vars => OverInv'
<1> SUFFICES ASSUME TypeInv, OverInv, [Next]_vars PROVE OverInv'
  OBVIOUS
<1>0. LogInv /\ ViewInv(saved) /\ TickInv
  BY DEF TypeInv
<1>s. ASSUME log' = log PROVE \A v : Over(v)' <=> Over(v)
  <2>1. \A v, r : AnswerKnown(v, r)' <=> AnswerKnown(v, r)
    BY <1>s DEF AnswerKnown, Answers
  <2> QED BY <1>s, <2>1 DEF Over
<1>g. ASSUME NEW e \in Events, log' = Append(log, e), saved' = saved,
             tick # NoTick => tick'.view = tick.view,
             tick = NoTick => tick' = NoTick
      PROVE  OverInv'
  <2>1. Over(saved)'
    <3>1. PICK v : v = saved
      OBVIOUS
    <3>2. Over(v)'
      BY <1>0, <1>g, <3>1, OverGrows DEF OverInv
    <3> QED BY <1>g, <3>1, <3>2
  <2>2. ASSUME tick # NoTick PROVE Over(tick.view)'
    <3>1. PICK v : v = tick.view
      OBVIOUS
    <3>2. Over(v)'
      BY <1>0, <1>g, <2>2, <3>1, OverGrows DEF OverInv, TickInv
    <3> QED BY <1>g, <2>2, <3>1, <3>2
  <2> QED BY <1>g, <2>1, <2>2 DEF OverInv
<1>1. CASE Read
  <2>1. PICK v : v = Fold(saved)
    OBVIOUS
  <2>2. /\ tick = NoTick /\ log' = log
        /\ \/ saved' = v /\ tick' = tick
           \/ tick'.view = v /\ saved' = saved
    BY <1>0, <1>1, <2>1, ReadIs
  <2>3. Over(v)
    BY <1>0, <2>1, FoldOver DEF OverInv
  <2> QED BY <1>s, <2>2, <2>3 DEF OverInv
<1>2. CASE AppendNext
  <2>1. /\ tick # NoTick /\ log' = Append(log, Head(tick.out)) /\ saved' = saved
        /\ tick' = [tick EXCEPT !.out = Tail(@), !.emitted = @ \cup {Len(log) + 1}]
    BY <1>2 DEF AppendNext
  <2>2. /\ tick \in [view : Views, out : Seq(Events), emitted : SUBSET Nat]
        /\ Head(tick.out) \in Events
    BY <1>0, <1>2, HeadIs DEF AppendNext, TickInv
  <2>3. tick'.view = tick.view
    BY <2>1, <2>2
  <2> QED BY <1>g, <2>1, <2>2, <2>3
<1>3. CASE (\E p \in DOMAIN log : Respond(p)) \/ Other
  <2>1. PICK e : Foreign(e)
    BY <1>0, <1>3, ForeignIs
  <2> QED BY <1>g, <2>1 DEF Foreign
<1>4. CASE Save
  <2>1. /\ tick # NoTick /\ saved' = FoldEmitted(tick.view, tick.emitted) /\ tick' = NoTick
        /\ log' = log
    BY <1>4 DEF Save
  <2>2. PICK v, emitted : v = tick.view /\ emitted = tick.emitted
    OBVIOUS
  <2>3. /\ ViewInv(v) /\ emitted \subseteq v.cursor + 1 .. Len(log)
        /\ \A p \in emitted : log[p].type \notin WorkerAnswers
    BY <1>0, <2>1, <2>2 DEF TickInv
  <2>4. Over(FoldEmitted(v, emitted))
    BY <1>0, <2>1, <2>2, <2>3, FoldEmittedOver DEF OverInv
  <2> QED BY <1>s, <2>1, <2>2, <2>4 DEF OverInv
<1>5. CASE log' = log /\ saved' = saved /\ (tick' = tick \/ tick' = NoTick)
  BY <1>s, <1>5 DEF OverInv
<1> QED BY <1>1, <1>2, <1>3, <1>4, <1>5 DEF Next, Dispatcher, Route, Crash, Deadline, vars

LEMMA OverInvariant == Spec => []OverInv
<1>1. Init => OverInv
  BY OverInit
<1>2. TypeInv /\ OverInv /\ [Next]_vars => OverInv'
  BY OverStep
<1> QED BY <1>1, <1>2, TypeInvariant, PTL DEF Spec

-----------------------------------------------------------------------------
(* Until the deadline, SagaSystem goes on or rolls back only when no request is open. *)

AnsweredRequest(p, r) == \E q \in Before(p) : Answers(q, r)

SettledLog ==
    \A r, d \in DOMAIN log :
        r < d /\ log[r].type = "requested" /\ log[d].type \in Dispatching /\ ~ Late(d) =>
            AnsweredRequest(d, r)

AllAnswered == \A r \in DOMAIN log : log[r].type = "requested" => AnsweredRequest(End, r)

SettledTick ==
    /\ tick # NoTick
    /\ ~ Late(End)
    /\ \E e \in Range(tick.out) : e.type \in Dispatching
    => AllAnswered

SettledInv == SettledLog /\ SettledTick

LEMMA SettledGrows ==
    ASSUME LogInv, SettledLog, NEW e \in Events, log' = Append(log, e),
           ~ Late(End) /\ e.type \in Dispatching => AllAnswered
    PROVE  /\ SettledLog'
           /\ AllAnswered /\ e.type # "requested" => AllAnswered'
<1>1. /\ Len(log) \in Nat /\ log \in Seq(Events)
      /\ log'[End] = e
      /\ DOMAIN log = 1 .. Len(log)
      /\ DOMAIN log' = DOMAIN log \cup {End}
      /\ End \in 1 .. End /\ End' = End + 1
      /\ \A q \in DOMAIN log : log'[q] = log[q] /\ q \in 1 .. End /\ q < End
  BY AppendIs DEF End, LogInv
<1>2. ASSUME NEW p \in 1 .. End, NEW r, AnsweredRequest(p, r)
      PROVE  AnsweredRequest(p, r)' /\ AnsweredRequest(End, r)'
  <2>1. PICK q \in Before(p) : Answers(q, r)
    BY <1>2 DEF AnsweredRequest
  <2>2. q \in DOMAIN log
    BY <1>1 DEF Before, End
  <2>3. q \in Before(End')
    BY <1>1, <2>2 DEF Before
  <2>4. log'[q].type \in ToolAnswers /\ log'[q].of = r
    BY <1>1, <2>1, <2>2 DEF Answers
  <2> QED BY <2>3, <2>4 DEF AnsweredRequest, Answers, Before
<1>3. ASSUME NEW r \in DOMAIN log', NEW d \in DOMAIN log', r < d, log'[r].type = "requested",
             log'[d].type \in Dispatching, ~ Late(d)'
      PROVE  AnsweredRequest(d, r)'
  <2>1. r \in DOMAIN log /\ log[r].type = "requested"
    BY <1>1, <1>3
  <2>2. PICK n \in 1 .. End : n = d
    BY <1>1, <1>3
  <2>3. Late(n)' <=> Late(n)
    BY <1>1, <2>2, BeforeGrows
  <2>4. ~ Late(n)
    BY <1>3, <2>2, <2>3
  <2>5. AnsweredRequest(n, r)
    BY <1>1, <1>3, <2>1, <2>2, <2>4 DEF SettledLog, AllAnswered
  <2> QED BY <1>2, <2>2, <2>5
<1>4. ASSUME AllAnswered, e.type # "requested" PROVE AllAnswered'
  <2>1. ASSUME NEW r \in DOMAIN log', log'[r].type = "requested" PROVE AnsweredRequest(End, r)'
    <3>1. r \in DOMAIN log /\ log[r].type = "requested"
      BY <1>1, <1>4, <2>1
    <3>2. PICK n \in 1 .. End : n = End
      BY <1>1
    <3>3. AnsweredRequest(n, r)
      BY <1>4, <3>1, <3>2 DEF AllAnswered
    <3> QED BY <1>2, <3>3
  <2> QED BY <2>1 DEF AllAnswered
<1> QED BY <1>3, <1>4 DEF SettledLog

\* The request whose completion is handled is the last one, and the others were answered before.
LEMMA HandlesSettled ==
    ASSUME LogInv, OnceLog, SettledLog, NEW v, ViewInv(v), Covers(End, v), Over(v),
           v.cursor = Len(log), ~ Late(End), Handles(v)
    PROVE  AllAnswered
<1>0. /\ Len(log) \in Nat /\ DOMAIN log = 1 .. Len(log) /\ Before(End) = DOMAIN log
      /\ Length \in Nat
  BY SagaAssumption DEF LogInv, Before, End
<1>1. PICK r0 \in v.requests \cap v.completions : log[r0] = Event("requested", v.current)
  BY HandlesStep DEF Handles
<1>2. /\ r0 \in DOMAIN log /\ log[r0].type = "requested" /\ log[r0].step = v.current
  BY <1>1 DEF ViewInv, Event
<1>3. AnsweredRequest(End, r0)
  <2>1. AnswerKnown(v, r0)
    BY <1>1 DEF Over
  <2> QED BY <1>0, <2>1 DEF AnswerKnown, AnsweredRequest
<1>b. ASSUME NEW p \in DOMAIN log PROVE Before(p) \subseteq Before(End)
  <2>1. Before(p) \subseteq DOMAIN log
    BY <1>0 DEF Before
  <2> QED BY <1>0, <2>1
<1>4. ASSUME NEW p \in DOMAIN log PROVE ~ Late(p)
  BY <1>b DEF Late
<1>5. ASSUME NEW r \in DOMAIN log, log[r].type = "requested" PROVE AnsweredRequest(End, r)
  <2>1. CASE r < r0
    <3>1. AnsweredRequest(r0, r)
      BY <1>2, <1>4, <1>5, <2>1 DEF SettledLog, Dispatching
    <3> QED BY <1>2, <1>b, <3>1 DEF AnsweredRequest
  <2>2. CASE r0 < r
    <3>1. log[r0].step < log[r].step
      BY <1>2, <1>4, <1>5, <2>2 DEF OnceLog, Rises
    <3>2. PICK d \in Before(r) : log[d].type = "step_started" /\ log[d].step = log[r].step
      BY <1>5 DEF OnceLog, Started
    <3>3. d \in Before(End)
      BY <1>b
    <3>4. log[r].step <= v.current
      BY <3>2, <3>3 DEF Covers, Moves
    <3>5. log[r].step \in Nat /\ log[r0].step \in Nat
      BY <1>2, <1>5 DEF LogInv, Events
    <3> QED BY <1>2, <3>1, <3>4, <3>5
  <2>3. CASE r = r0
    BY <1>3, <2>3
  <2> QED BY <1>0, <1>2, <2>1, <2>2, <2>3
<1> QED BY <1>5 DEF AllAnswered

\* What a tick reads from the log, when it has something to dispatch.
LEMMA OutputSettled ==
    ASSUME LogInv, OnceLog, SettledLog, NEW v, ViewInv(v), Covers(End, v), Over(v),
           v.cursor = Len(log), ~ Late(End), NEW expired,
           expired = <<>> \/ \E p \in DOMAIN log : expired = <<p>>,
           Range(expired) \subseteq v.requests,
           NEW e \in Range(Output(v, expired)), e.type \in Dispatching
    PROVE  AllAnswered
<1>1. e \in Range(Emits(v))
  <2>1. /\ \A r : Answer("expired", r).type = "expired"
        /\ Event("timed_out", v.current).type = "timed_out"
    BY DEF Answer, Event
  <2> QED BY <2>1, OutputIs DEF Dispatching
<1>2. EmittedBy(v, e)
  BY <1>1, EmitsRange
<1>3. Trigger(v).type = "started" \/ Handles(v) \/ Trigger(v).type = "timed_out"
  <2>1. /\ Event("done", 0).type \notin Dispatching
        /\ Event("dlq", v.current).type \notin Dispatching
        /\ Event("compensation_failed", v.current).type \notin Dispatching
    BY DEF Event, Dispatching
  <2> QED BY <1>2, <2>1 DEF EmittedBy, Advances, Begins
<1>4. Len(log) \in DOMAIN log /\ DOMAIN log = Before(End) /\ DOMAIN log = 1 .. Len(log)
  BY DEF LogInv, Before, End
<1>5. CASE Trigger(v).type = "started"
  <2>1. Len(log) = 1
    BY <1>4, <1>5 DEF Trigger, LogInv
  <2>2. \A r \in DOMAIN log : log[r].type = "started"
    BY <1>4, <1>5, <2>1 DEF Trigger
  <2> QED BY <2>2 DEF AllAnswered
<1>6. CASE Trigger(v).type = "timed_out"
  BY <1>4, <1>6 DEF Trigger, Late
<1>7. CASE Handles(v)
  BY <1>7, HandlesSettled
<1> QED BY <1>3, <1>5, <1>6, <1>7

LEMMA SettledStep == TypeInv /\ OnceInv /\ OverInv /\ SettledInv /\ [Next]_vars => SettledInv'
<1> SUFFICES ASSUME TypeInv, OnceInv, OverInv, SettledInv, [Next]_vars PROVE SettledInv'
  OBVIOUS
<1>0. LogInv /\ ViewInv(saved) /\ TickInv /\ OnceLog /\ SettledLog /\ log \in Seq(Events)
  BY DEF TypeInv, OnceInv, SettledInv, LogInv
<1>e. PICK n \in 1 .. End : n = End
  BY <1>0 DEF End
<1>s. ASSUME log' = log
      PROVE  SettledLog' /\ (AllAnswered' <=> AllAnswered) /\ (Late(End)' <=> Late(End))
  BY <1>0, <1>s DEF SettledLog, AllAnswered, AnsweredRequest, Answers, Late, End
<1>1. CASE Read
  <2>0. PICK v : v = Fold(saved)
    OBVIOUS
  <2>1. PICK expired :
              /\ expired = <<>> \/ \E p \in DOMAIN log : expired = <<p>>
              /\ Range(expired) \subseteq v.requests \ v.completions
              /\ tick = NoTick
              /\ \/ tick' = tick
                 \/ tick' = [view |-> v, out |-> Output(v, expired), emitted |-> {}]
              /\ log' = log
    BY <1>0, <1>1, <2>0, ReadIs
  <2>2. /\ ViewInv(v) /\ v.cursor = Len(log)
        /\ Covers(End, v) /\ Over(v)
    BY <1>0, <2>0, FoldView, FoldCovers, FoldOver DEF OnceInv, OverInv
  <2>3. Range(expired) \subseteq v.requests
    BY <2>1
  <2>4. ASSUME tick' # NoTick, ~ Late(End)', NEW e \in Range(tick'.out), e.type \in Dispatching
        PROVE  AllAnswered'
    <3>1. tick'.out = Output(v, expired)
      BY <2>1, <2>4
    <3>2. ~ Late(End)
      BY <1>s, <2>1, <2>4
    <3>3. AllAnswered
      BY <1>0, <2>1, <2>2, <2>3, <2>4, <3>1, <3>2, OutputSettled
    <3> QED BY <1>s, <2>1, <3>3
  <2> QED BY <1>s, <2>1, <2>4 DEF SettledInv, SettledTick
<1>2. CASE AppendNext
  <2>0. PICK e : e = Head(tick.out)
    OBVIOUS
  <2>1. /\ tick # NoTick /\ tick.out # <<>> /\ log' = Append(log, e)
        /\ tick' = [tick EXCEPT !.out = Tail(@), !.emitted = @ \cup {Len(log) + 1}]
    BY <1>2, <2>0 DEF AppendNext
  <2>2. /\ e \in Events
        /\ Range(tick.out) = {e} \cup Range(Tail(tick.out))
        /\ \A y \in Range(Tail(tick.out)) : Follows(e, y)
        /\ tick \in [view : Views, out : Seq(Events), emitted : SUBSET Nat]
    BY <1>0, <2>0, <2>1, HeadIs DEF TickInv
  <2>3. tick'.out = Tail(tick.out)
    BY <2>1, <2>2
  <2>4. ~ Late(End) /\ e.type \in Dispatching => AllAnswered
    BY <2>1, <2>2 DEF SettledInv, SettledTick
  <2>5. SettledLog' /\ (AllAnswered /\ e.type # "requested" => AllAnswered')
    BY <1>0, <2>1, <2>2, <2>4, SettledGrows
  <2>6. Late(End) => Late(End)'
    BY <1>0, <1>e, <2>1, <2>2, BeforeGrows
  <2>7. ASSUME ~ Late(End)', NEW y \in Range(tick'.out), y.type \in Dispatching
        PROVE  AllAnswered'
    <3>1. y \in Range(Tail(tick.out)) /\ Follows(e, y)
      BY <2>2, <2>3, <2>7
    <3>2. e.type # "requested"
      BY <2>7, <3>1 DEF Follows
    <3>3. AllAnswered
      BY <2>1, <2>2, <2>6, <2>7, <3>1 DEF SettledInv, SettledTick
    <3> QED BY <2>5, <3>2, <3>3
  <2> QED BY <2>5, <2>7 DEF SettledInv, SettledTick
<1>3. CASE (\E p \in DOMAIN log : Respond(p)) \/ Other
  <2>1. PICK e : Foreign(e)
    BY <1>0, <1>3, ForeignIs
  <2>2. e \in Events /\ log' = Append(log, e) /\ tick' = tick
    BY <2>1 DEF Foreign
  <2>3. e.type \in WorkerAnswers \cup {"other"}
    BY <1>0, <2>1, ForeignType, SagaAssumption DEF TypeInv
  <2>4. e.type \notin Dispatching /\ e.type # "requested"
    BY <2>3 DEF Dispatching, WorkerAnswers
  <2>5. SettledLog' /\ (AllAnswered => AllAnswered')
    BY <1>0, <2>2, <2>4, SettledGrows
  <2>6. Late(End) => Late(End)'
    BY <1>0, <1>e, <2>2, BeforeGrows
  <2> QED BY <2>2, <2>5, <2>6 DEF SettledInv, SettledTick
<1>4. CASE log' = log /\ (tick' = tick \/ tick' = NoTick)
  BY <1>s, <1>4 DEF SettledInv, SettledTick
<1> QED BY <1>1, <1>2, <1>3, <1>4 DEF Next, Dispatcher, Route, Save, Crash, Deadline, vars

LEMMA SettledInvariant == Spec => []SettledInv
<1>1. Init => SettledInv
  <2> SUFFICES ASSUME Init PROVE SettledInv
    OBVIOUS
  <2>1. DOMAIN log = {1} /\ log[1].type = "started" /\ tick = NoTick
    BY DEF Init, Event
  <2> QED BY <2>1 DEF SettledInv, SettledLog, SettledTick
<1>2. TypeInv /\ OnceInv /\ OverInv /\ SettledInv /\ [Next]_vars => SettledInv'
  BY SettledStep
<1> QED BY <1>1, <1>2, TypeInvariant, OnceInvariant, OverInvariant, PTL DEF Spec

-----------------------------------------------------------------------------
(* A dispatcher that has seen the whole log has nothing left to emit for it. *)

Idle == saved.cursor = Len(log) => Emits(saved) = <<>>

\* A view at the end of the log is folded already.
LEMMA FoldSame ==
    ASSUME LogInv, NEW v, ViewInv(v), v.cursor = Len(log)
    PROVE  Fold(v) = v
<1> DEFINE I == [p \in v.cursor .. Len(log) |-> {v}]
<1>0. /\ log \in Seq(Events) /\ v \in Views /\ v.cursor <= Len(log) /\ Len(log) \in Nat
      /\ v.cursor + 1 .. Len(log) = {} /\ v.cursor .. Len(log) = {v.cursor}
  BY DEF LogInv, ViewInv
<1>1. Projected(v) \in I[Len(log)]
  <2>1. v \in I[v.cursor] /\ \A p \in v.cursor .. Len(log) : I[p] \subseteq Views
    BY <1>0
  <2> HIDE DEF I
  <2> QED BY <1>0, <2>1, ProjectedIn
<1>2. Projected(v) = v
  BY <1>0, <1>1
<1>3. ~ HasToolEvents(v.cursor + 1 .. Len(log))
  BY <1>0 DEF HasToolEvents
<1>4. Fold(v) = [v EXCEPT !.cursor = Len(log)]
  BY <1>2, <1>3 DEF Fold
<1> QED BY <1>0, <1>4 DEF Views

LEMMA EmitsNothing ==
    ASSUME LogInv, NEW v, ViewInv(v), Emits(v) = <<>>
    PROVE  ~ Handles(v) /\ Trigger(v).type # "started"
<1>0. v \in Views /\ v.current \in 0 .. Length /\ 0 \in 0 .. Length
  BY SagaAssumption DEF ViewInv, Views
<1>1. Range(Emits(v)) = {}
  BY DEF Range
<1>2. \A a \in 0 .. Length : Dispatch(NextStep(a)) # <<>>
  <2>1. \A a \in 0 .. Length : NextStep(a) \in 0 .. Length
    BY NextStepIs, SagaAssumption DEF Steps
  <2> QED BY <2>1, DispatchIs
<1>3. CASE Trigger(v).type = "started"
  <2>1. Trigger(v).type \notin ToolAnswers
    BY <1>3 DEF ToolAnswers, WorkerAnswers
  <2>2. Emits(v) = Dispatch(NextStep(0))
    BY <1>3, <2>1, EmitsIs DEF UndoFailed, Handles
  <2> QED BY <1>0, <1>2, <2>2
<1>4. CASE Handles(v)
  <2>1. ~ UndoFailed(v) /\ Trigger(v).type \in ToolAnswers
    BY <1>4 DEF Handles
  <2>2. Trigger(v).type \notin {"started", "timed_out", "compensation_failed"}
    BY <2>1 DEF ToolAnswers, WorkerAnswers
  <2>3. ASSUME NEW kind \in {"completed", "failed"}, NEW rest \in Seq(Events),
               Emits(v) = <<RecordOf(v, kind)>> \o rest
        PROVE  FALSE
    <3>1. RecordOf(v, kind) \in Events
      BY <1>0, <1>4, HandlesStep, RecordOfIs DEF Handles
    <3> DEFINE first == <<RecordOf(v, kind)>>
    <3>2. first \in Seq(Events) /\ Len(first) = 1 /\ Emits(v) = first \o rest
      BY <2>3, <3>1
    <3> HIDE DEF first
    <3>3. Len(first \o rest) = Len(first) + Len(rest) /\ Len(rest) \in Nat
      BY <2>3, <3>2, ConcatProperties
    <3>4. Len(first \o rest) = 0
      BY <3>2
    <3> QED BY <3>2, <3>3, <3>4
  <2>4. Dispatch(NextStep(v.current)) \in Seq(Events) /\ BeginCompensation(v) \in Seq(Events)
    <3>1. NextStep(v.current) \in 0 .. Length
      BY <1>0, NextStepIs, SagaAssumption DEF Steps
    <3> QED BY <1>0, <3>1, DispatchIs, BeginIs
  <2> QED BY <1>4, <2>1, <2>2, <2>3, <2>4, EmitsIs
<1> QED BY <1>3, <1>4

\* What is left to append when a tick has nothing.
LEMMA OutputNothing ==
    ASSUME LogInv, NEW v, ViewInv(v), NEW expired,
           expired = <<>> \/ \E p \in DOMAIN log : expired = <<p>>,
           Range(expired) \subseteq v.requests, Output(v, expired) = <<>>
    PROVE  Emits(v) = <<>>
<1>1. Range(Output(v, expired)) = {}
  BY DEF Range
<1>2. Range(Emits(v)) = {} /\ Emits(v) \in Seq(Events)
  BY <1>1, OutputIs, EmitsSeq
<1> QED BY <1>2, HeadIs

LEMMA IdleStep == TypeInv /\ Idle /\ [Next]_vars => Idle'
<1> SUFFICES ASSUME TypeInv, Idle, [Next]_vars PROVE Idle'
  OBVIOUS
<1>0. LogInv /\ ViewInv(saved) /\ TickInv /\ log \in Seq(Events) /\ Len(log) \in Nat
  BY DEF TypeInv, LogInv
<1>s. ASSUME log' = log, skipped' = skipped, NEW v PROVE Emits(v)' = Emits(v)
  <2>1. Trigger(v)' = Trigger(v) /\ (StepAnswered(v)' <=> StepAnswered(v))
    BY <1>s DEF Trigger, StepAnswered
  <2>2. UndoFailed(v)' <=> UndoFailed(v)
    BY <1>s DEF Trigger, UndoFailed
  <2>3. \A a : NextStep(a)' = NextStep(a)
    BY <1>s DEF NextStep
  <2>4. \A kind : HandleCompletion(v, kind)' = HandleCompletion(v, kind)
    BY <2>3 DEF HandleCompletion
  <2> QED BY <2>1, <2>2, <2>3, <2>4 DEF Emits
<1>g. ASSUME NEW e \in Events, log' = Append(log, e), saved' = saved PROVE Idle'
  <2>1. Len(log') = Len(log) + 1
    BY <1>0, <1>g, AppendIs
  <2> QED BY <1>0, <1>g, <2>1 DEF Idle, ViewInv, Views
<1>1. CASE Read
  <2>0. PICK v : v = Fold(saved)
    OBVIOUS
  <2>1. PICK expired :
              /\ expired = <<>> \/ \E p \in DOMAIN log : expired = <<p>>
              /\ Range(expired) \subseteq v.requests \ v.completions
              /\ \/ Output(v, expired) = <<>> /\ saved' = v
                 \/ saved' = saved
              /\ log' = log /\ skipped' = skipped
    BY <1>0, <1>1, <2>0, ReadIs
  <2>2. ViewInv(v)
    BY <1>0, <2>0, FoldView
  <2>3. Range(expired) \subseteq v.requests
    BY <2>1
  <2>4. CASE Output(v, expired) = <<>> /\ saved' = v
    <3>1. Emits(v) = <<>>
      BY <1>0, <2>1, <2>2, <2>3, <2>4, OutputNothing
    <3> QED BY <1>s, <2>1, <2>4, <3>1 DEF Idle
  <2>5. CASE saved' = saved
    <3>1. PICK u : u = saved
      OBVIOUS
    <3> QED BY <1>s, <2>1, <2>5, <3>1 DEF Idle
  <2> QED BY <2>1, <2>4, <2>5
<1>2. CASE AppendNext
  <2>1. Head(tick.out) \in Events
    BY <1>0, <1>2, HeadIs DEF AppendNext, TickInv
  <2> QED BY <1>2, <1>g, <2>1 DEF AppendNext
<1>3. CASE (\E p \in DOMAIN log : Respond(p)) \/ Other
  <2>1. PICK e : Foreign(e)
    BY <1>0, <1>3, ForeignIs
  <2> QED BY <1>g, <2>1 DEF Foreign
<1>4. CASE Save
  <2>1. /\ tick # NoTick /\ tick.out = <<>> /\ log' = log
        /\ saved' = FoldEmitted(tick.view, tick.emitted)
    BY <1>4 DEF Save
  <2>2. /\ tick.emitted # {} /\ tick.emitted \subseteq tick.view.cursor + 1 .. Len(log)
        /\ ViewInv(tick.view)
    BY <1>0, <2>1 DEF TickInv
  <2>3. tick.emitted \in SUBSET DOMAIN log
    BY <1>0, <2>2 DEF ViewInv, Views
  <2>4. saved'.cursor = tick.view.cursor
    BY <1>0, <2>1, <2>2, <2>3, FoldEmittedView
  <2>5. tick.view.cursor # Len(log)
    BY <1>0, <2>2
  <2> QED BY <2>1, <2>4, <2>5 DEF Idle
<1>5. CASE UNCHANGED <<log, skipped, saved>>
  <2>1. PICK u : u = saved
    OBVIOUS
  <2> QED BY <1>s, <1>5, <2>1 DEF Idle
<1> QED BY <1>1, <1>2, <1>3, <1>4, <1>5 DEF Next, Dispatcher, Route, Crash, Deadline, vars

LEMMA IdleInvariant == Spec => []Idle
<1>1. Init => Idle
  <2> SUFFICES ASSUME Init PROVE Idle
    OBVIOUS
  <2>1. Len(log) = 1 /\ saved.cursor = 0
    BY DEF Init
  <2> QED BY <2>1 DEF Idle
<1>2. TypeInv /\ Idle /\ [Next]_vars => Idle'
  BY IdleStep
<1> QED BY <1>1, <1>2, TypeInvariant, PTL DEF Spec

-----------------------------------------------------------------------------
(* A saga that rolls back has no answer left to take for a step's. *)

\* Every tool request has been seen, and those of the view have been answered.
Finished(v) ==
    /\ \A r \in v.requests : log[r].type = "requested" => r \in v.completions
    /\ \A r \in DOMAIN log : log[r].type = "requested" => r <= v.cursor

StopTick ==
    /\ tick # NoTick
    /\ ~ Late(End)
    /\ \E e \in Range(tick.out) : e.type = "compensating"
    => Finished(tick.view)

Requests(s) == \E e \in Range(s) : e.type = "requested"

\* p begins a compensation, before the deadline.
Stops(p) == log[p].type = "compensating" /\ ~ Late(p)

Stopped ==
    \A p \in DOMAIN log : Stops(p) =>
        /\ tick # NoTick => Finished(tick.view) /\ ~ Requests(tick.out)
        /\ tick = NoTick \/ p <= tick.view.cursor => Finished(saved)

StopInv == StopTick /\ (~ torn => Stopped) /\ FailureStopsSaga

LEMMA FinishedGrows ==
    ASSUME LogInv, NEW e \in Events, log' = Append(log, e), e.type # "requested",
           NEW v, ViewInv(v), Finished(v)
    PROVE  Finished(v)'
<1>1. /\ log'[End] = e /\ DOMAIN log' = DOMAIN log \cup {End}
      /\ \A p \in DOMAIN log : log'[p] = log[p]
  BY AppendIs DEF LogInv, End
<1>2. v.requests \subseteq DOMAIN log
  BY DEF ViewInv
<1> QED BY <1>1, <1>2 DEF Finished

\* Once every request has an answer, the overlay has an answer for each that it holds.
LEMMA AllAnsweredFinished ==
    ASSUME LogInv, AllAnswered, NEW v, ViewInv(v), Over(v), v.cursor = Len(log)
    PROVE  Finished(v)
<1>0. Before(End) = 1 .. v.cursor /\ DOMAIN log = 1 .. v.cursor /\ v.cursor \in Nat
  BY DEF Before, End, LogInv
<1>1. ASSUME NEW r \in v.requests, log[r].type = "requested" PROVE r \in v.completions
  <2>1. r \in DOMAIN log
    BY DEF ViewInv
  <2>2. PICK q \in Before(End) : Answers(q, r)
    BY <1>1, <2>1 DEF AllAnswered, AnsweredRequest
  <2> QED BY <1>0, <1>1, <2>2 DEF Over, Answers
<1> QED BY <1>0, <1>1 DEF Finished

\* A fold that meets no further request keeps it so, and no step's completion is handled.
LEMMA FoldFinished ==
    ASSUME LogInv, NEW v, ViewInv(v), Finished(v), v.cursor = Len(log) => Emits(v) = <<>>
    PROVE  Finished(Fold(v)) /\ ~ Handles(Fold(v))
<1> DEFINE batch == v.cursor + 1 .. Len(log)
           requests == v.requests \cup RequestsIn(batch)
<1>0. /\ log \in Seq(Events) /\ v \in Views /\ v.cursor <= Len(log)
      /\ v.cursor \in Nat /\ Len(log) \in Nat /\ DOMAIN log = 1 .. Len(log)
      /\ v.completions \subseteq v.requests
  BY DEF LogInv, ViewInv, Views
<1>1. PICK f : f = Fold(v)
  OBVIOUS
<1>2. /\ f.cursor = Len(log)
      /\ HasToolEvents(batch) =>
             /\ f.requests = requests \ v.completions
             /\ f.completions = (AnsweredIn(batch) \cap requests) \ v.completions
      /\ ~ HasToolEvents(batch) => f.requests = v.requests /\ f.completions = v.completions
  BY <1>0, <1>1, FoldIs
<1>3. /\ batch \subseteq DOMAIN log
      /\ \A p \in batch : ~ (p <= v.cursor)
      /\ \A p \in DOMAIN log : p <= f.cursor
      /\ v.cursor # Len(log) => Len(log) \in batch
  BY <1>0, <1>2
<1> HIDE DEF batch
<1>4. \A p \in batch : log[p].type # "requested"
  BY <1>3 DEF Finished
<1>5. CASE HasToolEvents(batch)
  <2>1. ASSUME NEW r \in f.requests PROVE log[r].type # "requested"
    <3>1. r \in v.requests \/ r \in batch
      BY <1>2, <1>5, <2>1 DEF RequestsIn
    <3>2. r \notin v.completions
      BY <1>2, <1>5, <2>1
    <3> QED BY <1>4, <3>1, <3>2 DEF Finished
  <2>2. Finished(f)
    BY <1>3, <2>1 DEF Finished
  <2>3. ~ StepAnswered(f)
    <3>1. Event("requested", f.current).type = "requested"
      BY DEF Event
    <3> QED BY <2>1, <3>1 DEF StepAnswered
  <2> QED BY <1>1, <2>2, <2>3 DEF Handles
<1>6. CASE ~ HasToolEvents(batch)
  <2>1. Finished(f)
    BY <1>2, <1>3, <1>6 DEF Finished
  <2>2. CASE v.cursor = Len(log)
    BY <1>1, <2>1, <2>2, FoldSame, EmitsNothing
  <2>3. CASE v.cursor # Len(log)
    <3>1. Trigger(f).type \notin ToolAnswers
      BY <1>2, <1>3, <1>6, <2>3 DEF Trigger, HasToolEvents
    <3> QED BY <1>1, <2>1, <3>1 DEF Handles
  <2> QED BY <2>2, <2>3
<1> QED BY <1>5, <1>6

LEMMA FoldEmittedFinished ==
    ASSUME LogInv, NEW v, ViewInv(v), Finished(v), NEW emitted,
           emitted \subseteq v.cursor + 1 .. Len(log)
    PROVE  Finished(FoldEmitted(v, emitted))
<1> DEFINE requests == v.requests \cup RequestsIn(emitted)
           completions == v.completions \cup (AnsweredIn(emitted) \cap requests)
<1>0. /\ v \in Views /\ v.cursor \in Nat /\ Len(log) \in Nat /\ DOMAIN log = 1 .. Len(log)
      /\ v.completions \subseteq v.requests
  BY DEF ViewInv, Views, LogInv
<1>1. PICK f : f = FoldEmitted(v, emitted)
  OBVIOUS
<1>2. /\ f.cursor = v.cursor
      /\ HasToolEvents(emitted) => f.requests = requests \ completions /\ f.completions = {}
      /\ ~ HasToolEvents(emitted) => f = v
  <2>1. emitted \in SUBSET Nat
    BY <1>0
  <2> QED BY <1>0, <1>1, <2>1, FoldEmittedIs
<1>3. emitted \subseteq DOMAIN log /\ \A p \in emitted : ~ (p <= v.cursor)
  BY <1>0
<1>4. CASE HasToolEvents(emitted)
  <2>1. ASSUME NEW r \in f.requests PROVE log[r].type # "requested"
    <3>1. r \notin v.completions /\ (r \in v.requests \/ r \in emitted)
      BY <1>2, <1>4, <2>1 DEF RequestsIn
    <3> QED BY <1>3, <3>1 DEF Finished
  <2> QED BY <1>1, <1>2, <2>1 DEF Finished
<1>5. CASE ~ HasToolEvents(emitted)
  BY <1>1, <1>2, <1>5
<1> QED BY <1>4, <1>5

\* A tick that starts to roll back before the deadline.
LEMMA OutputStops ==
    ASSUME LogInv, OnceLog, SettledLog, NEW v, ViewInv(v), Covers(End, v), Over(v),
           v.cursor = Len(log), ~ Late(End), NEW expired,
           expired = <<>> \/ \E p \in DOMAIN log : expired = <<p>>,
           Range(expired) \subseteq v.requests,
           NEW e \in Range(Output(v, expired)), e.type = "compensating"
    PROVE  Finished(v)
<1>1. e.type \in Dispatching
  BY DEF Dispatching
<1> QED BY <1>1, OutputSettled, AllAnsweredFinished

\* A tick requests nothing when it neither starts the saga nor handles a completion.
LEMMA OutputRequests ==
    ASSUME LogInv, NEW v, ViewInv(v), NEW expired,
           expired = <<>> \/ \E p \in DOMAIN log : expired = <<p>>,
           Range(expired) \subseteq v.requests,
           Trigger(v).type # "started", ~ Handles(v)
    PROVE  ~ Requests(Output(v, expired))
<1> SUFFICES ASSUME NEW e \in Range(Output(v, expired)), e.type = "requested"
             PROVE  FALSE
  BY DEF Requests
<1>1. e \in Range(Emits(v))
  <2>1. /\ \A r : Answer("expired", r).type = "expired"
        /\ Event("timed_out", v.current).type = "timed_out"
    BY DEF Answer, Event
  <2> QED BY <2>1, OutputIs
<1>2. EmittedBy(v, e)
  BY <1>1, EmitsRange
<1>3. \A s : /\ Event("done", 0).type # "requested"
             /\ Event("compensating", 0).type # "requested"
             /\ Event("compensation_started", s).type # "requested"
             /\ Event("undo", s).type # "requested"
             /\ Event("compensation_failed", s).type # "requested"
             /\ Event("dlq", s).type # "requested"
  BY DEF Event
<1> QED BY <1>2, <1>3 DEF EmittedBy, Advances

LEMMA StopInit == Init => StopInv
<1> SUFFICES ASSUME Init PROVE StopInv
  OBVIOUS
<1>1. DOMAIN log = {1} /\ log[1].type = "started" /\ tick = NoTick
  BY DEF Init, Event
<1> QED BY <1>1 DEF StopInv, StopTick, Stopped, Stops, FailureStopsSaga

\* The log has a compensation that began before the deadline, or the tick has one to append.
LEMMA StopStep ==
    TypeInv /\ OnceInv /\ OverInv /\ SettledInv /\ Idle /\ StopInv /\ [Next]_vars => StopInv'
<1> SUFFICES ASSUME TypeInv, OnceInv, OverInv, SettledInv, Idle, StopInv, [Next]_vars
             PROVE  StopInv'
  OBVIOUS
<1>0. /\ LogInv /\ ViewInv(saved) /\ TickInv /\ OnceLog /\ SettledLog /\ log \in Seq(Events)
      /\ Len(log) \in Nat /\ DOMAIN log = 1 .. Len(log)
  BY DEF TypeInv, OnceInv, SettledInv, LogInv
<1>e. PICK n \in 1 .. End : n = End
  BY <1>0 DEF End
<1>s. ASSUME log' = log
      PROVE  /\ \A v : Finished(v)' <=> Finished(v)
             /\ \A p : Stops(p)' <=> Stops(p)
             /\ Late(End)' <=> Late(End)
  BY <1>s DEF Finished, Stops, Late, End
<1>f. ASSUME log' = log, torn' = torn PROVE FailureStopsSaga'
  BY <1>f DEF StopInv, FailureStopsSaga
<1>g. ASSUME NEW e \in Events, log' = Append(log, e), saved' = saved, torn' = torn,
             e.type = "requested" => tick # NoTick /\ e \in Range(tick.out)
      PROVE  /\ FailureStopsSaga'
             /\ Late(End) => Late(End)'
             /\ \A p \in DOMAIN log : Stops(p)' <=> Stops(p)
             /\ \A p : p = End => (Stops(p)' <=> (e.type = "compensating" /\ ~ Late(p)))
             /\ e.type # "requested" =>
                    \A v : ViewInv(v) /\ Finished(v) => Finished(v)'
             /\ DOMAIN log' = DOMAIN log \cup {End}
  <2>1. /\ log'[End] = e /\ DOMAIN log' = DOMAIN log \cup {End}
        /\ \A p \in DOMAIN log : log'[p] = log[p] /\ p \in 1 .. End /\ p < End
        /\ End \in Nat
    BY <1>0, <1>g, AppendIs DEF End
  <2>2. Late(End) => Late(End)'
    BY <1>0, <1>e, <1>g, BeforeGrows
  <2>3. \A p \in 1 .. End : Late(p)' <=> Late(p)
    BY <1>0, <1>g, BeforeGrows
  <2>4. \A p \in DOMAIN log : Stops(p)' <=> Stops(p)
    BY <2>1, <2>3 DEF Stops
  <2>5. ASSUME NEW p, p = End PROVE Stops(p)' <=> (e.type = "compensating" /\ ~ Late(p))
    BY <1>e, <2>1, <2>3, <2>5 DEF Stops
  <2>6. FailureStopsSaga'
    <3> SUFFICES ASSUME ~ torn, NEW p \in DOMAIN log', NEW q \in DOMAIN log',
                        log'[p].type = "compensating", log'[q].type = "requested", p < q
                 PROVE  Late(p)'
      BY <1>g DEF FailureStopsSaga, Late
    <3>1. p \in DOMAIN log /\ log[p].type = "compensating"
      BY <2>1
    <3>2. CASE q \in DOMAIN log
      <4>1. Late(p)
        BY <2>1, <3>1, <3>2 DEF StopInv, FailureStopsSaga, Late
      <4> QED BY <2>1, <2>3, <3>1, <4>1
    <3>3. CASE q = End
      <4>1. Requests(tick.out) /\ tick # NoTick
        BY <1>g, <2>1, <3>3 DEF Requests
      <4>2. ~ Stops(p)
        BY <3>1, <4>1 DEF StopInv, Stopped
      <4>3. Late(p)
        BY <3>1, <4>2 DEF Stops
      <4> QED BY <2>1, <2>3, <3>1, <4>3
    <3> QED BY <2>1, <3>2, <3>3
  <2>7. e.type # "requested" => \A v : ViewInv(v) /\ Finished(v) => Finished(v)'
    BY <1>0, <1>g, FinishedGrows
  <2> QED BY <2>1, <2>2, <2>4, <2>5, <2>6, <2>7
<1>1. CASE Read
  <2>0. PICK v, u : v = Fold(saved) /\ u = saved
    OBVIOUS
  <2>1. PICK expired :
              /\ expired = <<>> \/ \E p \in DOMAIN log : expired = <<p>>
              /\ Range(expired) \subseteq v.requests \ v.completions
              /\ tick = NoTick
              /\ \/ saved' = v /\ tick' = tick
                 \/ /\ tick' = [view |-> v, out |-> Output(v, expired), emitted |-> {}]
                    /\ saved' = saved
              /\ log' = log /\ torn' = torn
    BY <1>0, <1>1, <2>0, ReadIs
  <2>2. /\ ViewInv(v) /\ v.cursor = Len(log)
        /\ Covers(End, v) /\ Over(v)
    BY <1>0, <2>0, FoldView, FoldCovers, FoldOver DEF OnceInv, OverInv
  <2>3. Range(expired) \subseteq v.requests
    BY <2>1
  <2>4. StopTick'
    <3> SUFFICES ASSUME tick' # NoTick, ~ Late(End)',
                        NEW e \in Range(tick'.out), e.type = "compensating"
                 PROVE  Finished(tick.view)'
      BY DEF StopTick
    <3>1. tick'.out = Output(v, expired) /\ tick'.view = v
      BY <2>1
    <3>2. ~ Late(End)
      BY <1>s, <2>1
    <3>3. Finished(v)
      BY <1>0, <2>1, <2>2, <2>3, <3>1, <3>2, OutputStops
    <3> QED BY <1>s, <2>1, <3>1, <3>3
  <2>5. ASSUME ~ torn, NEW p \in DOMAIN log, Stops(p)
        PROVE  Finished(u) /\ Finished(v) /\ ~ Requests(Output(v, expired))
    <3>1. Finished(u)
      BY <2>0, <2>1, <2>5 DEF StopInv, Stopped
    <3>2. Finished(v) /\ ~ Handles(v)
      BY <1>0, <2>0, <3>1, FoldFinished DEF Idle
    <3>3. Trigger(v).type # "started"
      <4>1. SUFFICES ASSUME log[Len(log)].type = "started" PROVE FALSE
        BY <2>2 DEF Trigger
      <4>2. Len(log) = 1
        BY <1>0, <4>1 DEF LogInv
      <4>3. p = 1
        BY <1>0, <4>2
      <4> QED BY <2>5, <4>1, <4>2, <4>3 DEF Stops
    <3> QED BY <1>0, <2>1, <2>2, <2>3, <3>1, <3>2, <3>3, OutputRequests
  <2>6. ~ torn => Stopped'
    <3> SUFFICES ASSUME ~ torn, NEW p \in DOMAIN log', Stops(p)'
                 PROVE  /\ tick' # NoTick => Finished(tick.view)' /\ ~ Requests(tick'.out)
                        /\ tick' = NoTick \/ p <= tick'.view.cursor => Finished(saved)'
      BY DEF Stopped, Requests
    <3>1. Finished(u) /\ Finished(v) /\ ~ Requests(Output(v, expired))
      BY <1>s, <2>1, <2>5
    <3>2. Finished(u)' /\ Finished(v)'
      BY <1>s, <2>1, <3>1
    <3>3. CASE saved' = v /\ tick' = tick
      BY <2>1, <3>2, <3>3
    <3>4. CASE /\ tick' = [view |-> v, out |-> Output(v, expired), emitted |-> {}]
               /\ saved' = saved
      <4>1. tick'.view = v /\ tick'.out = Output(v, expired) /\ saved' = u
        BY <2>0, <3>4
      <4> QED BY <3>1, <3>2, <4>1
    <3> QED BY <2>1, <3>3, <3>4
  <2> QED BY <1>f, <2>1, <2>4, <2>6 DEF StopInv
<1>2. CASE AppendNext
  <2>0. PICK e, v, u : e = Head(tick.out) /\ v = tick.view /\ u = saved
    OBVIOUS
  <2>1. /\ tick # NoTick /\ tick.out # <<>> /\ log' = Append(log, e)
        /\ tick' = [tick EXCEPT !.out = Tail(@), !.emitted = @ \cup {Len(log) + 1}]
        /\ saved' = saved /\ torn' = torn
    BY <1>2, <2>0 DEF AppendNext
  <2>2. /\ e \in Events
        /\ Range(tick.out) = {e} \cup Range(Tail(tick.out))
        /\ \A y \in Range(Tail(tick.out)) : Follows(e, y)
        /\ tick \in [view : Views, out : Seq(Events), emitted : SUBSET Nat]
        /\ ViewInv(v)
    BY <1>0, <2>0, <2>1, HeadIs DEF TickInv
  <2>3. tick'.view = v /\ tick'.out = Tail(tick.out) /\ saved' = u /\ tick' # NoTick
    <3>1. tick'.view = v /\ tick'.out = Tail(tick.out) /\ saved' = u
      BY <2>0, <2>1, <2>2
    <3>2. "view" \in DOMAIN tick'
      BY <2>1, <2>2
    <3>3. DOMAIN NoTick = {}
      BY DEF NoTick
    <3> QED BY <3>1, <3>2, <3>3
  <2>4. /\ FailureStopsSaga'
        /\ Late(End) => Late(End)'
        /\ \A p \in DOMAIN log : Stops(p)' <=> Stops(p)
        /\ \A p : p = End => (Stops(p)' <=> (e.type = "compensating" /\ ~ Late(p)))
        /\ e.type # "requested" =>
               \A w : ViewInv(w) /\ Finished(w) => Finished(w)'
        /\ DOMAIN log' = DOMAIN log \cup {End}
    BY <1>g, <2>1, <2>2
  <2>5. StopTick'
    <3> SUFFICES ASSUME ~ Late(End)', NEW y \in Range(tick'.out), y.type = "compensating"
                 PROVE  Finished(tick.view)'
      BY DEF StopTick
    <3>1. y \in Range(tick.out) /\ Follows(e, y)
      BY <2>2, <2>3
    <3>2. e.type # "requested"
      BY <3>1 DEF Follows, Dispatching
    <3>3. Finished(v)
      BY <2>0, <2>1, <2>4, <3>1 DEF StopInv, StopTick
    <3> QED BY <2>2, <2>3, <2>4, <3>2, <3>3
  <2>6. ASSUME ~ torn, NEW p \in DOMAIN log', Stops(p)'
        PROVE  /\ Finished(v)' /\ ~ Requests(Tail(tick.out))
               /\ p <= v.cursor => Finished(u)'
    <3>1. CASE p \in DOMAIN log
      <4>1. /\ Finished(v) /\ ~ Requests(tick.out)
            /\ p <= v.cursor => Finished(u)
        BY <2>0, <2>1, <2>4, <2>6, <3>1 DEF StopInv, Stopped
      <4>2. e.type # "requested" /\ ~ Requests(Tail(tick.out))
        BY <2>2, <4>1 DEF Requests
      <4> QED BY <1>0, <2>0, <2>2, <2>4, <4>1, <4>2
    <3>2. CASE p = End
      <4>1. e.type = "compensating" /\ ~ Late(End)
        BY <2>4, <2>6, <3>2
      <4>2. Finished(v) /\ e.type # "requested"
        BY <2>0, <2>1, <2>2, <4>1 DEF StopInv, StopTick
      <4>3. ~ Requests(Tail(tick.out))
        BY <2>2, <4>1 DEF Requests, Follows, Dispatching
      <4>4. ~ (p <= v.cursor)
        BY <1>0, <2>2, <3>2 DEF ViewInv, Views, End
      <4> QED BY <2>2, <2>4, <4>2, <4>3, <4>4
    <3> QED BY <2>4, <2>6, <3>1, <3>2
  <2>7. ~ torn => Stopped'
    BY <2>3, <2>6 DEF Stopped, Requests
  <2> QED BY <2>1, <2>4, <2>5, <2>7 DEF StopInv
<1>3. CASE (\E p \in DOMAIN log : Respond(p)) \/ Other
  <2>1. PICK e : Foreign(e)
    BY <1>0, <1>3, ForeignIs
  <2>2. /\ e \in Events /\ log' = Append(log, e)
        /\ saved' = saved /\ tick' = tick /\ torn' = torn
    BY <2>1 DEF Foreign
  <2>3. e.type \in WorkerAnswers \cup {"other"}
    BY <1>0, <2>1, ForeignType, SagaAssumption DEF TypeInv
  <2>4. e.type \notin {"requested", "compensating"}
    BY <2>3 DEF WorkerAnswers
  <2>5. /\ FailureStopsSaga'
        /\ Late(End) => Late(End)'
        /\ \A p \in DOMAIN log : Stops(p)' <=> Stops(p)
        /\ \A p : p = End => (Stops(p)' <=> (e.type = "compensating" /\ ~ Late(p)))
        /\ \A v : ViewInv(v) /\ Finished(v) => Finished(v)'
        /\ DOMAIN log' = DOMAIN log \cup {End}
    BY <1>g, <2>2, <2>4
  <2>6. PICK v, u : v = tick.view /\ u = saved
    OBVIOUS
  <2>7. ViewInv(u) /\ (tick # NoTick => ViewInv(v))
    BY <1>0, <2>6 DEF TickInv
  <2>8. StopTick'
    BY <2>2, <2>5, <2>6, <2>7 DEF StopInv, StopTick
  <2>9. ASSUME ~ torn PROVE Stopped'
    <3>1. ASSUME NEW p \in DOMAIN log', Stops(p)'
          PROVE  /\ tick # NoTick => Finished(v)' /\ ~ Requests(tick.out)
                 /\ tick = NoTick \/ p <= v.cursor => Finished(u)'
      <4>1. p \in DOMAIN log /\ Stops(p)
        BY <2>4, <2>5, <3>1
      <4> QED BY <2>5, <2>6, <2>7, <2>9, <4>1 DEF StopInv, Stopped
    <3> QED BY <2>2, <2>6, <3>1 DEF Stopped, Requests
  <2> QED BY <2>2, <2>5, <2>8, <2>9 DEF StopInv
<1>4. CASE Save
  <2>1. /\ tick # NoTick /\ saved' = FoldEmitted(tick.view, tick.emitted) /\ tick' = NoTick
        /\ log' = log /\ torn' = torn
    BY <1>4 DEF Save
  <2>2. PICK v, f : v = tick.view /\ f = FoldEmitted(v, tick.emitted)
    OBVIOUS
  <2>3. ASSUME ~ torn, NEW p \in DOMAIN log, Stops(p) PROVE Finished(f)
    <3>1. Finished(v)
      BY <2>1, <2>2, <2>3 DEF StopInv, Stopped
    <3>2. ViewInv(v) /\ tick.emitted \subseteq v.cursor + 1 .. Len(log)
      BY <1>0, <2>1, <2>2 DEF TickInv
    <3> QED BY <1>0, <2>2, <3>1, <3>2, FoldEmittedFinished
  <2>4. ~ torn => Stopped'
    BY <1>s, <2>1, <2>2, <2>3 DEF Stopped
  <2> QED BY <1>f, <2>1, <2>4 DEF StopInv, StopTick
<1>5. CASE Crash
  <2>1. /\ tick # NoTick /\ tick' = NoTick /\ log' = log /\ saved' = saved
        /\ torn' = (torn \/ \E p \in tick.emitted : log[p].type = "compensating")
    BY <1>5 DEF Crash
  <2>2. PICK v, u : v = tick.view /\ u = saved
    OBVIOUS
  <2>3. ASSUME ~ torn', NEW p \in DOMAIN log, Stops(p) PROVE Finished(u)
    <3>1. p <= v.cursor
      <4> SUFFICES ASSUME ~ (p <= v.cursor) PROVE FALSE
        OBVIOUS
      <4>1. v.cursor \in Nat
        BY <1>0, <2>1, <2>2 DEF TickInv, ViewInv, Views
      <4>2. p \in v.cursor + 1 .. Len(log)
        BY <1>0, <4>1
      <4>3. p \notin tick.emitted
        BY <2>1, <2>3 DEF Stops
      <4>4. log[p].type \in WorkerAnswers \cup {"other"}
        BY <1>0, <2>1, <2>2, <4>2, <4>3 DEF TickInv
      <4> QED BY <2>3, <4>4 DEF Stops, WorkerAnswers
    <3> QED BY <2>1, <2>2, <2>3, <3>1 DEF StopInv, Stopped
  <2>4. ~ torn' => Stopped'
    BY <1>s, <2>1, <2>2, <2>3 DEF Stopped
  <2>5. FailureStopsSaga'
    <3>1. torn => torn'
      BY <2>1
    <3>2. FailureStopsSaga
      BY DEF StopInv
    <3> QED BY <2>1, <3>1, <3>2 DEF FailureStopsSaga, Before
  <2> QED BY <2>1, <2>4, <2>5 DEF StopInv, StopTick
<1>6. CASE log' = log /\ saved' = saved /\ tick' = tick /\ torn' = torn
  <2>1. StopTick'
    BY <1>s, <1>6 DEF StopInv, StopTick
  <2>2. ~ torn => Stopped'
    BY <1>s, <1>6 DEF StopInv, Stopped
  <2> QED BY <1>f, <1>6, <2>1, <2>2 DEF StopInv
<1> QED BY <1>1, <1>2, <1>3, <1>4, <1>5, <1>6 DEF Next, Dispatcher, Route, Deadline, vars

LEMMA StopInvariant == Spec => []StopInv
<1>1. Init => StopInv
  BY StopInit
<1>2. TypeInv /\ OnceInv /\ OverInv /\ SettledInv /\ Idle /\ StopInv /\ [Next]_vars => StopInv'
  BY StopStep
<1> QED BY <1>1, <1>2, TypeInvariant, OnceInvariant, OverInvariant, SettledInvariant,
           IdleInvariant, PTL DEF Spec

\* A saga that rolls back before its deadline requests no further step, unless a crash lost the
\* fold of its "compensating": the completion that made it roll back was the last one open, and
\* the fold that follows evicts it.
THEOREM FailureIsFinal == Spec => []FailureStopsSaga
<1>1. StopInv => FailureStopsSaga
  BY DEF StopInv
<1> QED BY <1>1, StopInvariant, PTL

-----------------------------------------------------------------------------
(* Without faults, before the deadline. *)

Clean == faults = 0 /\ ~ overdue

LEMMA CleanBefore ==
    ASSUME TypeInv, [Next]_vars, Clean'
    PROVE  Clean
<1>1. faults \in Nat /\ overdue \in BOOLEAN
  BY SagaAssumption DEF TypeInv
<1>2. ASSUME NEW kind PROVE ~ Fault(kind)
  BY <1>1 DEF Fault, Clean
<1>3. (faults' = faults \/ \E kind : Fault(kind)) /\ (overdue' = overdue \/ overdue')
  <2>1. CASE Read
    BY <2>1 DEF Read, Tick
  <2>2. CASE ~ Read
    BY <2>2 DEF Next, Dispatcher, AppendNext, Route, Save, Crash, Respond, Other, Deadline, vars
  <2> QED BY <2>1, <2>2
<1> QED BY <1>1, <1>2, <1>3 DEF Clean

\* Then a tick has only to append what SagaSystem emits, and no request expires.
LEMMA CleanRead ==
    ASSUME TypeInv, Read, Clean'
    PROVE  \E v :
              /\ v = Fold(saved) /\ ViewInv(v) /\ v.cursor = Len(log) /\ tick = NoTick
              /\ \/ /\ Emits(v) = <<>> /\ saved.cursor < Len(log)
                    /\ saved' = v /\ tick' = tick
                 \/ /\ Emits(v) # <<>>
                    /\ tick' = [view |-> v, out |-> Emits(v), emitted |-> {}]
                    /\ saved' = saved
              /\ skipped' = skipped /\ log' = log
<1>0. LogInv /\ ViewInv(saved) /\ faults \in Nat
  BY SagaAssumption DEF TypeInv
<1>1. PICK v : v = Fold(saved)
  OBVIOUS
<1>2. PICK expired :
            /\ tick = NoTick
            /\ expired = <<>> \/ \E p \in DOMAIN log : expired = <<p>>
            /\ Range(expired) \subseteq v.requests \ v.completions
            /\ saved.cursor < Len(log) \/ Output(v, expired) # <<>>
            /\ \/ /\ Output(v, expired) = <<>>
                  /\ saved' = v
                  /\ tick' = tick
               \/ /\ Output(v, expired) # <<>>
                  /\ tick' = [view |-> v, out |-> Output(v, expired), emitted |-> {}]
                  /\ saved' = saved
            /\ UNCHANGED <<skipped, log, overdue>>
            /\ expired = <<>> \/ faults' = faults + 1
  BY <1>0, <1>1, ReadIs
<1>3. ViewInv(v) /\ v.cursor = Len(log)
  BY <1>0, <1>1, FoldView
<1>4. expired = <<>> /\ ~ overdue
  BY <1>0, <1>2 DEF Clean
<1>5. Range(expired) \subseteq v.requests
  BY <1>2
<1>6. Output(v, expired) = Emits(v)
  BY <1>0, <1>2, <1>3, <1>4, <1>5, OutputIs
<1> QED BY <1>1, <1>2, <1>3, <1>6

\* Only the deadline and the sweeper append these.
Punctual(e) == e.type \notin {"timed_out", "expired", "other"}

CleanLog ==
    Clean => /\ \A p \in DOMAIN log : Punctual(log[p])
             /\ tick # NoTick => \A e \in Range(tick.out) : Punctual(e)

\* A request has one answer of a worker.
AnsweredOnce ==
    \A p, q \in DOMAIN log :
        log[p].type \in WorkerAnswers /\ log[q].type \in WorkerAnswers /\ log[p].of = log[q].of =>
            p = q

Closing == {"compensating", "compensation_failed", "dlq", "done"}
Closed == \E p \in DOMAIN log : log[p].type \in Closing

\* An undo belongs to a compensation.
UndoClosing ==
    /\ \A p \in DOMAIN log : log[p].type = "undo" => Closed
    /\ tick # NoTick => \A e \in Range(tick.out) : e.type = "undo" =>
                            Closed \/ Event("compensating", 0) \in Range(tick.out)

CleanInv == CleanLog /\ AnsweredOnce /\ UndoClosing

LEMMA ClosedGrows ==
    ASSUME log \in Seq(Events), NEW e \in Events, log' = Append(log, e)
    PROVE  Closed' <=> Closed \/ e.type \in Closing
<1>1. /\ DOMAIN log' = DOMAIN log \cup {End} /\ log'[End] = e
      /\ \A p \in DOMAIN log : log'[p] = log[p]
  BY AppendIs DEF End
<1> QED BY <1>1 DEF Closed

LEMMA CleanStep == TypeInv /\ CleanInv /\ [Next]_vars => CleanInv'
<1> SUFFICES ASSUME TypeInv, CleanInv, [Next]_vars PROVE CleanInv'
  OBVIOUS
<1>0. LogInv /\ ViewInv(saved) /\ TickInv /\ log \in Seq(Events) /\ faults \in Nat
  BY SagaAssumption DEF TypeInv, LogInv
<1>c. Clean' => Clean
  BY CleanBefore
<1>1. CASE Read
  <2>0. PICK v : v = Fold(saved)
    OBVIOUS
  <2>1. PICK expired :
              /\ expired = <<>> \/ \E p \in DOMAIN log : expired = <<p>>
              /\ Range(expired) \subseteq v.requests \ v.completions
              /\ tick = NoTick
              /\ \/ tick' = tick
                 \/ tick' = [view |-> v, out |-> Output(v, expired), emitted |-> {}]
              /\ log' = log
    BY <1>0, <1>1, <2>0, ReadIs
  <2>2. ViewInv(v)
    BY <1>0, <2>0, FoldView
  <2>3. Range(expired) \subseteq v.requests
    BY <2>1
  <2>4. AnsweredOnce' /\ (Closed' <=> Closed)
    BY <2>1 DEF CleanInv, AnsweredOnce, Closed
  <2>5. ASSUME NEW e \in Range(Output(v, expired)), e.type = "undo"
        PROVE  Event("compensating", 0) \in Range(Output(v, expired))
    <3>1. /\ \A r : Answer("expired", r).type = "expired"
          /\ Event("timed_out", v.current).type = "timed_out"
      BY DEF Answer, Event
    <3>2. e \in Range(Emits(v)) /\ Range(Emits(v)) \subseteq Range(Output(v, expired))
      BY <1>0, <2>1, <2>2, <2>3, <2>5, <3>1, OutputIs
    <3> QED BY <1>0, <2>2, <2>5, <3>2, EmitsRange DEF Accompanied
  <2>6. UndoClosing'
    <3>1. CASE tick' = tick
      BY <2>1, <2>4, <3>1 DEF CleanInv, UndoClosing
    <3>2. CASE tick' = [view |-> v, out |-> Output(v, expired), emitted |-> {}]
      <4>1. tick'.out = Output(v, expired)
        BY <3>2
      <4> QED BY <2>1, <2>4, <2>5, <4>1 DEF CleanInv, UndoClosing
    <3> QED BY <2>1, <3>1, <3>2
  <2>7. ASSUME Clean' PROVE CleanLog'
    <3>1. PICK u :
                /\ ViewInv(u) /\ tick = NoTick
                /\ tick' = tick \/ tick' = [view |-> u, out |-> Emits(u), emitted |-> {}]
      BY <1>1, <2>7, CleanRead
    <3>2. ASSUME NEW e \in Range(Emits(u)) PROVE Punctual(e)
      <4>1. EmittedBy(u, e)
        BY <1>0, <3>1, EmitsRange
      <4> QED BY <1>0, <3>1, <4>1, EmittedType DEF Punctual, ToolAnswers
    <3>3. tick' # NoTick => \A e \in Range(tick'.out) : Punctual(e)
      BY <3>1, <3>2
    <3>4. \A p \in DOMAIN log : Punctual(log[p])
      BY <1>c, <2>7 DEF CleanInv, CleanLog
    <3> QED BY <2>1, <3>3, <3>4 DEF CleanLog
  <2> QED BY <2>4, <2>6, <2>7 DEF CleanInv, CleanLog
<1>g. ASSUME NEW e \in Events, log' = Append(log, e),
             e.type \in WorkerAnswers => \A q \in DOMAIN log :
                 log[q].type \in WorkerAnswers => log[q].of # e.of
      PROVE  AnsweredOnce'
  <2>1. /\ log'[End] = e /\ DOMAIN log' = DOMAIN log \cup {End}
        /\ \A p \in DOMAIN log : log'[p] = log[p]
    BY <1>0, <1>g, AppendIs DEF End
  <2> QED BY <1>g, <2>1 DEF CleanInv, AnsweredOnce
<1>2. CASE AppendNext
  <2>0. PICK e : e = Head(tick.out)
    OBVIOUS
  <2>1. /\ tick # NoTick /\ tick.out # <<>> /\ log' = Append(log, e)
        /\ tick' = [tick EXCEPT !.out = Tail(@), !.emitted = @ \cup {Len(log) + 1}]
    BY <1>2, <2>0 DEF AppendNext
  <2>2. /\ e \in Events /\ e \in Range(tick.out) /\ Emittable(e)
        /\ Range(tick.out) = {e} \cup Range(Tail(tick.out))
        /\ \A y \in Range(Tail(tick.out)) : Follows(e, y)
        /\ tick \in [view : Views, out : Seq(Events), emitted : SUBSET Nat]
    BY <1>0, <2>0, <2>1, HeadIs DEF TickInv
  <2>3. tick'.out = Tail(tick.out)
    BY <2>1, <2>2
  <2>4. AnsweredOnce'
    BY <1>g, <2>1, <2>2 DEF Emittable
  <2>5. /\ log'[End] = e /\ DOMAIN log' = DOMAIN log \cup {End}
        /\ \A p \in DOMAIN log : log'[p] = log[p]
        /\ Closed' <=> Closed \/ e.type \in Closing
    BY <1>0, <2>1, <2>2, AppendIs, ClosedGrows DEF End
  <2>6. CleanLog'
    BY <1>c, <2>1, <2>2, <2>3, <2>5 DEF CleanInv, CleanLog
  <2>7. Event("compensating", 0).type = "compensating"
    BY DEF Event
  <2>8. e.type = "undo" => Closed
    BY <2>1, <2>2, <2>7 DEF CleanInv, UndoClosing, Follows, Dispatching
  <2>9. \A y \in Range(Tail(tick.out)) : y.type = "undo" =>
            Closed' \/ Event("compensating", 0) \in Range(Tail(tick.out))
    BY <2>1, <2>2, <2>5, <2>7 DEF CleanInv, UndoClosing, Closing
  <2>10. UndoClosing'
    BY <2>3, <2>5, <2>8, <2>9 DEF CleanInv, UndoClosing
  <2> QED BY <2>4, <2>6, <2>10 DEF CleanInv
<1>3. CASE (\E p \in DOMAIN log : Respond(p)) \/ Other
  <2>1. PICK e : Foreign(e)
    BY <1>0, <1>3, ForeignIs
  <2>2. /\ e \in Events /\ log' = Append(log, e) /\ tick' = tick
    BY <2>1 DEF Foreign
  <2>3. /\ e.type \in WorkerAnswers \cup {"other"}
        /\ e.type = "other" => faults' # 0
    BY <1>0, <2>1, ForeignType
  <2>4. e.type \in WorkerAnswers => \A q \in DOMAIN log :
            log[q].type \in WorkerAnswers => log[q].of # e.of
    <3>1. Event("other", 0).type \notin WorkerAnswers
      BY DEF Event, WorkerAnswers
    <3>2. \A kind, p : Answer(kind, p).of = p
      BY DEF Answer, Event
    <3> QED BY <2>1, <3>1, <3>2 DEF Foreign
  <2>5. AnsweredOnce'
    BY <1>g, <2>2, <2>4
  <2>6. /\ log'[End] = e /\ DOMAIN log' = DOMAIN log \cup {End}
        /\ \A p \in DOMAIN log : log'[p] = log[p]
        /\ Closed' <=> Closed \/ e.type \in Closing
    BY <1>0, <2>2, AppendIs, ClosedGrows DEF End
  <2>7. Clean' => Punctual(e)
    BY <2>3 DEF Clean, Punctual, WorkerAnswers
  <2>8. CleanLog'
    BY <1>c, <2>2, <2>6, <2>7 DEF CleanInv, CleanLog
  <2>9. e.type # "undo"
    BY <2>3 DEF WorkerAnswers
  <2>10. UndoClosing'
    BY <2>2, <2>6, <2>9 DEF CleanInv, UndoClosing
  <2> QED BY <2>5, <2>8, <2>10 DEF CleanInv
<1>4. CASE log' = log /\ (tick' = tick \/ tick' = NoTick)
  <2>1. AnsweredOnce' /\ (Closed' <=> Closed)
    BY <1>4 DEF CleanInv, AnsweredOnce, Closed
  <2>2. UndoClosing'
    BY <1>4, <2>1 DEF CleanInv, UndoClosing
  <2>3. CleanLog'
    BY <1>4, <1>c DEF CleanInv, CleanLog
  <2> QED BY <2>1, <2>2, <2>3 DEF CleanInv
<1> QED BY <1>1, <1>2, <1>3, <1>4 DEF Next, Dispatcher, Route, Save, Crash, Deadline, vars

LEMMA CleanInvariant == Spec => []CleanInv
<1>1. Init => CleanInv
  <2> SUFFICES ASSUME Init PROVE CleanInv
    OBVIOUS
  <2>1. DOMAIN log = {1} /\ log[1].type = "started" /\ tick = NoTick
    BY DEF Init, Event
  <2> QED BY <2>1 DEF CleanInv, CleanLog, AnsweredOnce, UndoClosing, Punctual
<1>2. TypeInv /\ CleanInv /\ [Next]_vars => CleanInv'
  BY CleanStep
<1> QED BY <1>1, <1>2, TypeInvariant, PTL DEF Spec

-----------------------------------------------------------------------------
(* What a view has seen of the log. *)

Seen(p, v) ==
    /\ ~ Late(p) /\ v.current # 0 =>
           \E d \in Before(p) : log[d].type \in Moves /\ log[d].step = v.current
    /\ (\E d \in Before(p) : log[d].type \in Closing) => v.direction # "forward"
    /\ \A d \in Before(p) : d = p - 1 /\ log[d].type = "awaiting_approval" =>
           v.current = log[d].step /\ v.states[v.current] = "awaiting_approval"

SeenInv ==
    /\ Seen(saved.cursor + 1, saved)
    /\ tick # NoTick => Seen(tick.view.cursor + 1, tick.view)

LEMMA SeenGrows ==
    ASSUME log \in Seq(Events), NEW e \in Events, log' = Append(log, e), NEW p \in 1 .. End, NEW v,
           Seen(p, v)
    PROVE  Seen(p, v)'
<1>1. /\ Before(p) \subseteq DOMAIN log
      /\ \A q \in DOMAIN log : log'[q] = log[q]
  <2>1. DOMAIN log = 1 .. Len(log) /\ Len(log) \in Nat /\ \A q \in DOMAIN log : log'[q] = log[q]
    BY AppendIs
  <2> QED BY <2>1 DEF Before, End
<1>2. Late(p)' <=> Late(p)
  BY BeforeGrows
<1> QED BY <1>1, <1>2 DEF Seen

\* Each handler, for the event at the view's position.
LEMMA ProjectSeen ==
    ASSUME LogInv, NEW p \in DOMAIN log, NEW u \in Views, Seen(p, u)
    PROVE  Seen(p + 1, Project(u, log[p]))
<1> DEFINE f == Project(u, log[p])
<1>0. /\ Before(p + 1) = Before(p) \cup {p} /\ p \in Nat
      /\ \A d \in Before(p + 1) : d = (p + 1) - 1 => d = p
      /\ log[p] \in Events
  BY DEF Before, LogInv
<1>1. Late(p) => Late(p + 1)
  BY <1>0 DEF Late
<1>2. log[p].type = "timed_out" => Late(p + 1)
  BY <1>0 DEF Late
<1>3. \/ f.current = u.current
      \/ log[p].type \in Moves \cup {"timed_out"} /\ f.current = log[p].step
  BY DEF Project, Views, Moves
<1>4. /\ f.direction # "forward" \/ f.direction = u.direction
      /\ log[p].type \in Closing => f.direction # "forward"
  BY DEF Project, Views, Closing
<1>5. log[p].type = "awaiting_approval" =>
          f.current = log[p].step /\ f.states[f.current] = "awaiting_approval"
  <2> SUFFICES ASSUME log[p].type = "awaiting_approval"
               PROVE  f.current = log[p].step /\ f.states[f.current] = "awaiting_approval"
    OBVIOUS
  <2>1. log[p].step \in Steps
    BY <1>0 DEF Events
  <2>2. f = [u EXCEPT !.current = log[p].step, !.states[log[p].step] = "awaiting_approval"]
    BY DEF Project
  <2> QED BY <2>1, <2>2 DEF Views
<1> HIDE DEF f
<1>6. ~ Late(p + 1) /\ f.current # 0 =>
          \E d \in Before(p + 1) : log[d].type \in Moves /\ log[d].step = f.current
  <2> SUFFICES ASSUME ~ Late(p + 1), f.current # 0
               PROVE  \E d \in Before(p + 1) : log[d].type \in Moves /\ log[d].step = f.current
    OBVIOUS
  <2>1. CASE f.current = u.current
    BY <1>0, <1>1, <2>1 DEF Seen
  <2>2. CASE log[p].type \in Moves \cup {"timed_out"} /\ f.current = log[p].step
    BY <1>0, <1>2, <2>2
  <2> QED BY <1>3, <2>1, <2>2
<1>7. (\E d \in Before(p + 1) : log[d].type \in Closing) => f.direction # "forward"
  BY <1>0, <1>4 DEF Seen
<1>8. \A d \in Before(p + 1) : d = (p + 1) - 1 /\ log[d].type = "awaiting_approval" =>
          f.current = log[d].step /\ f.states[f.current] = "awaiting_approval"
  BY <1>0, <1>5
<1>9. Seen(p + 1, f)
  BY <1>6, <1>7, <1>8 DEF Seen
<1> QED BY <1>9 DEF f

LEMMA FoldSeen ==
    ASSUME LogInv, NEW v, ViewInv(v), Seen(v.cursor + 1, v)
    PROVE  Seen(End, Fold(v))
<1> DEFINE I == [p \in v.cursor .. Len(log) |-> {u \in Views : Seen(p + 1, u)}]
<1>0. /\ log \in Seq(Events) /\ v \in Views /\ v.cursor <= Len(log)
      /\ v.cursor \in Nat /\ Len(log) \in Nat
      /\ v.completions \subseteq v.requests
  BY DEF LogInv, ViewInv, Views
<1>1. \A p \in v.cursor .. Len(log) : I[p] = {u \in Views : Seen(p + 1, u)}
  OBVIOUS
<1>2. v \in I[v.cursor] /\ Len(log) \in v.cursor .. Len(log)
  BY <1>0
<1>3. ASSUME NEW p \in v.cursor + 1 .. Len(log), NEW u \in I[p - 1]
      PROVE  Project(u, log[p]) \in I[p]
  <2>1. /\ p \in v.cursor .. Len(log) /\ p - 1 \in v.cursor .. Len(log)
        /\ p \in DOMAIN log /\ (p - 1) + 1 = p
    BY <1>0
  <2>2. u \in Views /\ Seen(p, u) /\ log[p] \in Events
    BY <1>0, <1>1, <2>1
  <2>3. Project(u, log[p]) \in Views /\ Seen(p + 1, Project(u, log[p]))
    BY <2>1, <2>2, ProjectView, ProjectSeen
  <2> QED BY <1>1, <2>1, <2>3
<1>4. Projected(v) \in I[Len(log)]
  <2>1. \A p \in v.cursor .. Len(log) : I[p] \subseteq Views
    BY <1>1
  <2> HIDE DEF I
  <2> QED BY <1>0, <1>2, <1>3, <2>1, ProjectedIn
<1>5. Seen(End, Projected(v))
  BY <1>1, <1>2, <1>4 DEF End
<1>6. /\ Fold(v).current = Projected(v).current
      /\ Fold(v).direction = Projected(v).direction
      /\ Fold(v).states = Projected(v).states
  BY <1>0, FoldIs
<1> QED BY <1>5, <1>6 DEF Seen

LEMMA SeenStep == TypeInv /\ SeenInv /\ [Next]_vars => SeenInv'
<1> SUFFICES ASSUME TypeInv, SeenInv, [Next]_vars PROVE SeenInv'
  OBVIOUS
<1>0. /\ LogInv /\ ViewInv(saved) /\ TickInv /\ log \in Seq(Events)
      /\ Len(log) \in Nat /\ saved.cursor + 1 \in 1 .. End
  BY DEF TypeInv, LogInv, End, ViewInv, Views
<1>c. ASSUME tick # NoTick PROVE tick.view.cursor + 1 \in 1 .. End
  BY <1>0, <1>c DEF TickInv, ViewInv, Views, End
<1>s. ASSUME log' = log PROVE \A p, v : Seen(p, v)' <=> Seen(p, v)
  <2>1. \A p : Late(p)' <=> Late(p)
    BY <1>s DEF Late
  <2> QED BY <1>s, <2>1 DEF Seen
<1>g. ASSUME NEW e \in Events, log' = Append(log, e), saved' = saved,
             tick # NoTick => tick'.view = tick.view,
             tick = NoTick => tick' = NoTick
      PROVE  SeenInv'
  <2>a. PICK n \in 1 .. End : n = saved.cursor + 1
    BY <1>0
  <2>b. PICK u : u = saved
    OBVIOUS
  <2>1. n = saved.cursor + 1 /\ u = saved
    BY <2>a, <2>b
  <2>2. Seen(n, u)'
    BY <1>0, <1>g, <2>1, SeenGrows DEF SeenInv
  <2>3. Seen(saved.cursor + 1, saved)'
    BY <1>g, <2>1, <2>2
  <2>4. ASSUME tick # NoTick PROVE Seen(tick.view.cursor + 1, tick.view)'
    <3>a. PICK m \in 1 .. End : m = tick.view.cursor + 1
      BY <1>c, <2>4
    <3>b. PICK w : w = tick.view
      OBVIOUS
    <3>1. m = tick.view.cursor + 1 /\ w = tick.view
      BY <3>a, <3>b
    <3>2. Seen(m, w)'
      BY <1>0, <1>g, <2>4, <3>1, SeenGrows DEF SeenInv
    <3> QED BY <1>g, <2>4, <3>1, <3>2
  <2> QED BY <1>g, <2>3, <2>4 DEF SeenInv
<1>1. CASE Read
  <2>1. PICK v : v = Fold(saved)
    OBVIOUS
  <2>2. /\ tick = NoTick /\ log' = log
        /\ \/ saved' = v /\ tick' = tick
           \/ tick'.view = v /\ saved' = saved
    BY <1>0, <1>1, <2>1, ReadIs
  <2>3. Seen(v.cursor + 1, v)
    BY <1>0, <2>1, FoldSeen, FoldView DEF SeenInv, End
  <2> QED BY <1>s, <2>2, <2>3 DEF SeenInv
<1>2. CASE AppendNext
  <2>1. /\ tick # NoTick /\ log' = Append(log, Head(tick.out)) /\ saved' = saved
        /\ tick' = [tick EXCEPT !.out = Tail(@), !.emitted = @ \cup {Len(log) + 1}]
    BY <1>2 DEF AppendNext
  <2>2. /\ tick \in [view : Views, out : Seq(Events), emitted : SUBSET Nat]
        /\ Head(tick.out) \in Events
    BY <1>0, <1>2, HeadIs DEF AppendNext, TickInv
  <2>3. tick'.view = tick.view
    BY <2>1, <2>2
  <2> QED BY <1>g, <2>1, <2>2, <2>3
<1>3. CASE (\E p \in DOMAIN log : Respond(p)) \/ Other
  <2>1. PICK e : Foreign(e)
    BY <1>0, <1>3, ForeignIs
  <2> QED BY <1>g, <2>1 DEF Foreign
<1>4. CASE Save
  <2>1. /\ tick # NoTick /\ saved' = FoldEmitted(tick.view, tick.emitted) /\ tick' = NoTick
        /\ log' = log
    BY <1>4 DEF Save
  <2>2. PICK v, f : v = tick.view /\ f = FoldEmitted(tick.view, tick.emitted)
    OBVIOUS
  <2>3. /\ f.current = v.current /\ f.cursor = v.cursor
        /\ f.direction = v.direction /\ f.states = v.states
    BY <1>0, <2>1, <2>2, FoldEmittedIs DEF TickInv, ViewInv
  <2>4. Seen(f.cursor + 1, f)
    BY <2>1, <2>2, <2>3 DEF SeenInv, Seen
  <2> QED BY <1>s, <2>1, <2>2, <2>4 DEF SeenInv
<1>5. CASE log' = log /\ saved' = saved /\ (tick' = tick \/ tick' = NoTick)
  BY <1>s, <1>5 DEF SeenInv
<1> QED BY <1>1, <1>2, <1>3, <1>4, <1>5 DEF Next, Dispatcher, Route, Crash, Deadline, vars

LEMMA SeenInvariant == Spec => []SeenInv
<1>1. Init => SeenInv
  <2> SUFFICES ASSUME Init PROVE SeenInv
    OBVIOUS
  <2>1. saved.cursor = 0 /\ saved.current = 0 /\ tick = NoTick
    BY DEF Init
  <2>2. Before(saved.cursor + 1) = {}
    BY <2>1 DEF Before
  <2> QED BY <2>1, <2>2 DEF SeenInv, Seen
<1>2. TypeInv /\ SeenInv /\ [Next]_vars => SeenInv'
  BY SeenStep
<1> QED BY <1>1, <1>2, TypeInvariant, PTL DEF Spec

-----------------------------------------------------------------------------
(* What a saga without faults has left at the end of its log. *)

Waiting == {"requested", "awaiting_approval"}

\* What SagaSystem emits closes the saga or ends with what the saga then waits for.
Ends(s) == (\E e \in Range(s) : e.type \in Closing) \/ s[Len(s)].type \in Waiting

LEMMA EmitsEnds ==
    ASSUME LogInv, NEW v, ViewInv(v), Emits(v) # <<>>
    PROVE  Ends(Emits(v))
<1>0. v \in Views /\ v.current \in 0 .. Length /\ 0 \in 0 .. Length
  BY SagaAssumption DEF ViewInv, Views
<1>1. \A type \in Closing : \A step : Event(type, step).type \in Closing
  BY DEF Event
<1>2. /\ "done" \in Closing /\ "dlq" \in Closing /\ "compensating" \in Closing
  BY DEF Closing
<1>3. ASSUME NEW a \in 0 .. Length
      PROVE  /\ Dispatch(NextStep(a)) \in Seq(Events)
             /\ Dispatch(NextStep(a)) # <<>>
             /\ Ends(Dispatch(NextStep(a)))
  <2>1. NextStep(a) \in 0 .. Length
    BY NextStepIs, SagaAssumption DEF Steps
  <2>2. PICK k \in 0 .. Length : k = NextStep(a)
    BY <2>1
  <2>3. CASE k = 0
    <3>1. Event("done", 0) \in Range(Dispatch(k))
      BY <2>3, DispatchIs
    <3> QED BY <1>1, <1>2, <2>2, <3>1, DispatchIs DEF Ends
  <2>4. CASE k # 0
    <3>1. Asked(k).type \in Waiting
      BY DEF Asked, Event, Waiting
    <3> QED BY <2>2, <2>4, <3>1, DispatchIs DEF Ends
  <2> QED BY <2>3, <2>4
<1>4. /\ BeginCompensation(v) \in Seq(Events)
      /\ BeginCompensation(v) # <<>>
      /\ Ends(BeginCompensation(v))
  <2>1. /\ BeginCompensation(v) \in Seq(Events)
        /\ Event("compensating", 0) \in Range(BeginCompensation(v))
    BY <1>0, BeginIs
  <2>2. BeginCompensation(v) # <<>>
    BY <2>1 DEF Range
  <2> QED BY <1>1, <1>2, <2>1, <2>2 DEF Ends
<1>5. CASE Emits(v) = <<Event("dlq", v.current)>>
  <2>1. Emits(v)[1] = Event("dlq", v.current) /\ 1 \in DOMAIN Emits(v)
    BY <1>5
  <2> QED BY <1>1, <1>2, <2>1 DEF Ends, Range
<1>6. CASE Emits(v) = <<Event("compensation_failed", v.current), Event("dlq", v.current)>>
  <2>1. Emits(v)[2] = Event("dlq", v.current) /\ 2 \in DOMAIN Emits(v)
    BY <1>6
  <2> QED BY <1>1, <1>2, <2>1 DEF Ends, Range
<1>7. ASSUME NEW x \in Events, NEW s \in Seq(Events), s # <<>>, Ends(s)
      PROVE  Ends(<<x>> \o s)
  <2>0. PICK first : first = <<x>>
    OBVIOUS
  <2>1. first = <<x>> /\ first \in Seq(Events) /\ Len(first) = 1
    BY <2>0, Single
  <2>2. /\ Len(s) \in Nat \ {0} /\ DOMAIN s = 1 .. Len(s)
    BY <1>7, EmptySeq, LenProperties
  <2>3. /\ Len(first \o s) = 1 + Len(s)
        /\ DOMAIN (first \o s) = 1 .. 1 + Len(s)
        /\ \A i \in 1 .. Len(s) : (first \o s)[i + 1] = s[i]
    <3>1. /\ Len(first \o s) = Len(first) + Len(s)
          /\ first \o s \in Seq(Events)
          /\ \A i \in 1 .. Len(first) + Len(s) :
                 (first \o s)[i] = IF i <= Len(first) THEN first[i] ELSE s[i - Len(first)]
      BY <2>1, ConcatProperties
    <3>2. DOMAIN (first \o s) = 1 .. 1 + Len(s)
      BY <2>1, <2>2, <3>1, LenProperties
    <3>3. ASSUME NEW i \in 1 .. Len(s) PROVE (first \o s)[i + 1] = s[i]
      <4>1. i + 1 \in 1 .. 1 + Len(s) /\ ~ (i + 1 <= 1) /\ (i + 1) - 1 = i
        BY <2>2
      <4> QED BY <2>1, <3>1, <4>1
    <3> QED BY <2>1, <3>1, <3>2, <3>3
  <2>4. (first \o s)[Len(first \o s)] = s[Len(s)]
    <3>1. Len(s) \in 1 .. Len(s) /\ Len(first \o s) = Len(s) + 1
      BY <2>2, <2>3
    <3> QED BY <2>3, <3>1
  <2>5. Range(s) \subseteq Range(first \o s)
    <3>1. ASSUME NEW i \in 1 .. Len(s) PROVE s[i] \in Range(first \o s)
      <4>1. i + 1 \in DOMAIN (first \o s)
        BY <2>2, <2>3
      <4> QED BY <2>3, <4>1 DEF Range
    <3> QED BY <2>2, <3>1 DEF Range
  <2>6. Ends(first \o s)
    BY <1>7, <2>4, <2>5 DEF Ends
  <2> QED BY <2>1, <2>6
<1>8. ASSUME Handles(v), NEW kind \in {"completed", "failed"} PROVE RecordOf(v, kind) \in Events
  BY <1>0, <1>8, HandlesStep, RecordOfIs DEF Handles
<1>9. CASE Handles(v) /\ \E kind \in {"completed", "failed"} :
                  Emits(v) = <<RecordOf(v, kind)>> \o Dispatch(NextStep(v.current))
  <2>1. PICK kind \in {"completed", "failed"} :
            Emits(v) = <<RecordOf(v, kind)>> \o Dispatch(NextStep(v.current))
    BY <1>9
  <2>2. PICK x \in Events : x = RecordOf(v, kind)
    BY <1>8, <1>9
  <2> QED BY <1>0, <1>3, <1>7, <2>1, <2>2
<1>10. CASE Handles(v) /\ Emits(v) = <<RecordOf(v, "failed")>> \o BeginCompensation(v)
  <2>1. PICK x \in Events : x = RecordOf(v, "failed")
    BY <1>8, <1>10
  <2> QED BY <1>4, <1>7, <1>10, <2>1
<1>11. \/ Emits(v) = Dispatch(NextStep(0))
       \/ Emits(v) = BeginCompensation(v)
       \/ Emits(v) = <<Event("dlq", v.current)>>
       \/ Emits(v) = <<Event("compensation_failed", v.current), Event("dlq", v.current)>>
       \/ Handles(v) /\ \E kind \in {"completed", "failed"} :
                  Emits(v) = <<RecordOf(v, kind)>> \o Dispatch(NextStep(v.current))
       \/ Handles(v) /\ Emits(v) = <<RecordOf(v, "failed")>> \o BeginCompensation(v)
  BY EmitsIs
<1> QED BY <1>0, <1>3, <1>4, <1>5, <1>6, <1>9, <1>10, <1>11

\* Appending the head of an output leaves one that ends in the same way.
LEMMA TailEnds ==
    ASSUME NEW s \in Seq(Events), s # <<>>, Ends(s)
    PROVE  \/ Head(s).type \in Closing
           \/ Tail(s) # <<>> /\ Ends(Tail(s))
           \/ Tail(s) = <<>> /\ Head(s).type \in Waiting
<1>0. PICK t : t = Tail(s)
  OBVIOUS
<1>1. /\ Head(s) = s[1] /\ t \in Seq(Events) /\ Len(s) \in Nat \ {0}
      /\ Len(t) = Len(s) - 1
      /\ \A i \in 1 .. Len(s) - 1 : t[i] = s[i + 1]
  BY <1>0, HeadTailProperties, EmptySeq, LenProperties
<1>2. Range(s) = {Head(s)} \cup Range(t)
  BY <1>0, HeadIs
<1>3. CASE Len(s) = 1
  <2>1. Len(t) = 0
    BY <1>1, <1>3
  <2>2. t = <<>>
    BY <1>1, <2>1, EmptySeq
  <2>3. Range(t) = {}
    BY <2>2 DEF Range
  <2> QED BY <1>0, <1>1, <1>2, <1>3, <2>2, <2>3 DEF Ends
<1>4. CASE Len(s) # 1
  <2>1. Len(s) - 1 \in 1 .. Len(s) - 1 /\ (Len(s) - 1) + 1 = Len(s)
    BY <1>1, <1>4
  <2>2. t[Len(t)] = s[Len(s)]
    BY <1>1, <2>1
  <2>3. Len(t) # 0
    BY <1>1, <1>4
  <2>4. t # <<>>
    BY <1>1, <2>3, EmptySeq
  <2> QED BY <1>0, <1>2, <2>2, <2>4 DEF Ends
<1> QED BY <1>3, <1>4

TailInv ==
    Clean =>
        \/ Closed
        \/ tick # NoTick /\ tick.out # <<>> /\ Ends(tick.out)
        \/ /\ tick = NoTick \/ tick.out = <<>>
           /\ log[Len(log)].type \in {"started"} \cup Waiting \cup WorkerAnswers

LEMMA TailStep == TypeInv /\ TailInv /\ [Next]_vars => TailInv'
<1> SUFFICES ASSUME TypeInv, TailInv, [Next]_vars, Clean' PROVE TailInv'
  BY DEF TailInv
<1>0. /\ LogInv /\ ViewInv(saved) /\ TickInv /\ log \in Seq(Events) /\ Len(log) \in Nat
      /\ faults \in Nat
  BY SagaAssumption DEF TypeInv, LogInv
<1>c. Clean
  BY CleanBefore
<1>s. ASSUME log' = log PROVE Closed' <=> Closed
  BY <1>s DEF Closed
<1>1. CASE Read
  <2>1. PICK v :
            /\ ViewInv(v) /\ tick = NoTick
            /\ \/ tick' = tick
               \/ /\ Emits(v) # <<>>
                  /\ tick' = [view |-> v, out |-> Emits(v), emitted |-> {}]
            /\ log' = log
    BY <1>1, CleanRead
  <2>2. CASE tick' = tick
    BY <1>c, <1>s, <2>1, <2>2 DEF TailInv
  <2>3. CASE Emits(v) # <<>> /\ tick' = [view |-> v, out |-> Emits(v), emitted |-> {}]
    <3>1. tick' # NoTick /\ tick'.out = Emits(v)
      BY <2>3 DEF NoTick
    <3>2. Ends(Emits(v))
      BY <1>0, <2>1, <2>3, EmitsEnds
    <3> QED BY <2>3, <3>1, <3>2 DEF TailInv, Ends
  <2> QED BY <2>1, <2>2, <2>3
<1>2. CASE AppendNext
  <2>1. /\ tick # NoTick /\ tick.out # <<>> /\ log' = Append(log, Head(tick.out))
        /\ tick' = [tick EXCEPT !.out = Tail(@), !.emitted = @ \cup {Len(log) + 1}]
    BY <1>2 DEF AppendNext
  <2>a. PICK e : e = Head(tick.out)
    OBVIOUS
  <2>b. PICK s : s = Tail(tick.out)
    OBVIOUS
  <2>2. e = Head(tick.out) /\ s = Tail(tick.out)
    BY <2>a, <2>b
  <2>3. /\ tick \in [view : Views, out : Seq(Events), emitted : SUBSET Nat]
        /\ e \in Events
    BY <1>0, <2>1, <2>2, HeadIs DEF TickInv
  <2>4. tick'.out = s /\ tick' # NoTick
    <3>1. tick' = [view |-> tick.view, out |-> s, emitted |-> tick.emitted \cup {Len(log) + 1}]
      BY <2>1, <2>2, <2>3
    <3> QED BY <3>1 DEF NoTick
  <2>5. /\ Len(log') = Len(log) + 1 /\ log'[Len(log) + 1] = e
        /\ Closed' <=> Closed \/ e.type \in Closing
    BY <1>0, <2>1, <2>2, <2>3, AppendIs, ClosedGrows
  <2>6. CASE ~ Closed
    <3>1. Ends(tick.out)
      BY <1>c, <2>1, <2>6 DEF TailInv
    <3>2. \/ e.type \in Closing
          \/ s # <<>> /\ Ends(s)
          \/ s = <<>> /\ e.type \in Waiting
      BY <2>1, <2>2, <2>3, <3>1, TailEnds
    <3> QED BY <2>4, <2>5, <3>2 DEF TailInv, Ends
  <2> QED BY <2>5, <2>6 DEF TailInv
<1>3. CASE (\E p \in DOMAIN log : Respond(p)) \/ Other
  <2>1. PICK e : Foreign(e)
    BY <1>0, <1>3, ForeignIs
  <2>2. /\ e \in Events /\ log' = Append(log, e) /\ tick' = tick
    BY <2>1 DEF Foreign
  <2>3. e.type \in WorkerAnswers
    BY <1>0, <2>1, ForeignType DEF Clean
  <2>4. /\ Len(log') = Len(log) + 1 /\ log'[Len(log) + 1] = e
        /\ Closed' <=> Closed \/ e.type \in Closing
    BY <1>0, <2>2, AppendIs, ClosedGrows
  <2> QED BY <1>c, <2>2, <2>3, <2>4 DEF TailInv, Ends
<1>4. CASE Save
  BY <1>c, <1>s, <1>4 DEF Save, TailInv
<1>5. CASE log' = log /\ tick' = tick
  BY <1>c, <1>s, <1>5 DEF TailInv, Ends
<1>6. ~ Crash
  BY <1>0 DEF Crash, Fault, Clean
<1> QED BY <1>1, <1>2, <1>3, <1>4, <1>5, <1>6 DEF Next, Dispatcher, Route, Deadline, vars

LEMMA TailInvariant == Spec => []TailInv
<1>1. Init => TailInv
  BY DEF Init, TailInv, Event
<1>2. TypeInv /\ TailInv /\ [Next]_vars => TailInv'
  BY TailStep
<1> QED BY <1>1, <1>2, TypeInvariant, PTL DEF Spec

\* An answer that is the last event seen is attached to its request.
Attached ==
    Clean /\ saved.cursor = Len(log) /\ log[Len(log)].type \in WorkerAnswers =>
        log[Len(log)].of \in saved.completions

LEMMA AttachedStep ==
    TypeInv /\ OverInv /\ CleanInv /\ Attached /\ [Next]_vars => Attached'
<1> SUFFICES ASSUME TypeInv, OverInv, CleanInv, Attached, [Next]_vars, Clean' PROVE Attached'
  BY DEF Attached
<1>0. /\ LogInv /\ ViewInv(saved) /\ TickInv /\ log \in Seq(Events) /\ Len(log) \in Nat
      /\ saved.cursor \in Nat /\ saved.cursor <= Len(log) /\ DOMAIN log = 1 .. Len(log)
      /\ saved \in Views /\ saved.completions \subseteq saved.requests
  BY DEF TypeInv, LogInv, ViewInv, Views
<1>c. Clean
  BY CleanBefore
<1>1. CASE Read
  <2>1. PICK v :
            /\ v = Fold(saved) /\ tick = NoTick /\ log' = log
            /\ \/ saved.cursor < Len(log) /\ saved' = v
               \/ saved' = saved
    BY <1>1, CleanRead
  <2>2. ASSUME saved.cursor < Len(log), log[Len(log)].type \in WorkerAnswers
        PROVE  log[Len(log)].of \in v.completions
    <3>a. PICK n \in DOMAIN log : n = Len(log)
      BY <1>0, <2>2
    <3>b. PICK r : r = log[n].of
      OBVIOUS
    <3>1. n = Len(log) /\ r = log[n].of
      BY <3>a, <3>b
    <3> DEFINE batch == saved.cursor + 1 .. Len(log)
               requests == saved.requests \cup RequestsIn(batch)
    <3>2. n \in batch /\ log[n].type \in ToolAnswers /\ log[n].type \in WorkerAnswers
      BY <1>0, <2>2, <3>1 DEF ToolAnswers
    <3>3. r \in DOMAIN log /\ log[r].type \in ToolRequests
      BY <1>0, <3>1, <3>2 DEF LogInv
    <3>4. ~ AnswerKnown(saved, r)
      <4> SUFFICES ASSUME NEW q \in DOMAIN log, Answers(q, r),
                          q <= saved.cursor \/ log[q].type = "expired"
                   PROVE  FALSE
        BY DEF AnswerKnown
      <4>1. log[q].type # "expired"
        BY <1>c DEF CleanInv, CleanLog, Punctual
      <4>2. log[q].type \in WorkerAnswers /\ q <= saved.cursor /\ log[q].of = log[n].of
        BY <3>1, <4>1 DEF Answers, ToolAnswers
      <4>3. q = n
        BY <3>2, <4>2 DEF CleanInv, AnsweredOnce
      <4> QED BY <1>0, <2>2, <3>1, <4>2, <4>3
    <3>5. r \in requests
      <4>1. CASE r \in 1 .. saved.cursor
        BY <3>3, <3>4, <4>1 DEF OverInv, Over
      <4>2. CASE r \notin 1 .. saved.cursor
        <5>1. r \in batch
          BY <1>0, <3>3, <4>2
        <5> QED BY <3>3, <5>1 DEF RequestsIn
      <4> QED BY <4>1, <4>2
    <3>6. r \notin saved.completions
      BY <3>4 DEF OverInv, Over
    <3>7. r \in AnsweredIn(batch) /\ HasToolEvents(batch)
      BY <3>1, <3>2 DEF AnsweredIn, HasToolEvents
    <3>8. HasToolEvents(batch) =>
              v.completions = (AnsweredIn(batch) \cap requests) \ saved.completions
      BY <1>0, <2>1, FoldIs
    <3> HIDE DEF batch, requests
    <3> QED BY <3>1, <3>5, <3>6, <3>7, <3>8
  <2> QED BY <1>c, <2>1, <2>2 DEF Attached
<1>2. ASSUME NEW e \in Events, log' = Append(log, e), saved' = saved PROVE Attached'
  <2>1. Len(log') = Len(log) + 1
    BY <1>0, <1>2, AppendIs
  <2>2. saved'.cursor # Len(log')
    BY <1>0, <1>2, <2>1
  <2> QED BY <2>2 DEF Attached
<1>3. CASE AppendNext
  <2>1. Head(tick.out) \in Events
    BY <1>0, <1>3, HeadIs DEF AppendNext, TickInv
  <2> QED BY <1>2, <1>3, <2>1 DEF AppendNext
<1>4. CASE (\E p \in DOMAIN log : Respond(p)) \/ Other
  <2>1. PICK e : Foreign(e)
    BY <1>0, <1>4, ForeignIs
  <2> QED BY <1>2, <2>1 DEF Foreign
<1>5. CASE Save
  <2>1. /\ tick # NoTick /\ tick.out = <<>> /\ log' = log
        /\ saved' = FoldEmitted(tick.view, tick.emitted)
    BY <1>5 DEF Save
  <2>2. PICK v, emitted : v = tick.view /\ emitted = tick.emitted
    OBVIOUS
  <2>3. /\ ViewInv(v) /\ emitted # {} /\ emitted \subseteq v.cursor + 1 .. Len(log)
    BY <1>0, <2>1, <2>2 DEF TickInv
  <2>a. v.cursor \in Nat
    BY <2>3 DEF ViewInv, Views
  <2>4. v.cursor < Len(log) /\ emitted \in SUBSET DOMAIN log
    <3>1. PICK p \in v.cursor + 1 .. Len(log) : p \in emitted
      BY <2>3
    <3>2. v.cursor + 1 .. Len(log) \subseteq DOMAIN log
      BY <1>0, <2>a
    <3> QED BY <1>0, <2>3, <2>a, <3>1, <3>2
  <2>5. saved'.cursor = v.cursor
    BY <1>0, <2>1, <2>2, <2>3, <2>4, FoldEmittedView
  <2>6. saved'.cursor # Len(log')
    BY <1>0, <2>1, <2>3, <2>4, <2>5 DEF ViewInv, Views
  <2> QED BY <2>6 DEF Attached
<1>6. CASE log' = log /\ saved' = saved
  BY <1>c, <1>6 DEF Attached
<1> QED BY <1>1, <1>3, <1>4, <1>5, <1>6 DEF Next, Dispatcher, Route, Crash, Deadline, vars

LEMMA AttachedInvariant == Spec => []Attached
<1>1. Init => Attached
  <2> SUFFICES ASSUME Init PROVE Attached
    OBVIOUS
  <2>1. Len(log) = 1 /\ saved.cursor = 0
    BY DEF Init
  <2> QED BY <2>1 DEF Attached
<1>2. TypeInv /\ OverInv /\ CleanInv /\ Attached /\ [Next]_vars => Attached'
  BY AttachedStep
<1> QED BY <1>1, <1>2, TypeInvariant, OverInvariant, CleanInvariant, PTL DEF Spec

-----------------------------------------------------------------------------
(* Without faults, a saga that goes forward waits for its current step. *)

\* A request that is open or was answered last is that of the quiet saga's current step.
LEMMA LastIsCurrent ==
    ASSUME TypeInv, OnceInv, SeenInv, SettledInv, Clean, CleanInv,
           saved.cursor = Len(log), NEW r \in DOMAIN log, log[r].type = "requested",
           saved.direction = "forward",
           \A d \in DOMAIN log : ~ AnsweredRequest(d, r)
    PROVE  saved.current = log[r].step
<1>0. /\ LogInv /\ ViewInv(saved) /\ log \in Seq(Events) /\ Len(log) \in Nat
      /\ DOMAIN log = 1 .. Len(log) /\ Before(End) = DOMAIN log /\ saved.cursor + 1 = End
      /\ saved.current \in Nat
  <2>1. LogInv /\ ViewInv(saved) /\ log \in Seq(Events) /\ Len(log) \in Nat
        /\ DOMAIN log = 1 .. Len(log) /\ saved.cursor + 1 = End
    BY DEF TypeInv, LogInv, End
  <2>2. Before(End) = DOMAIN log
    BY <2>1 DEF Before, End
  <2> QED BY <2>1, <2>2, SagaAssumption DEF ViewInv, Views
<1>1. ~ Late(End)
  BY <1>0 DEF Late, CleanInv, CleanLog, Punctual
<1>2. \A p \in DOMAIN log : ~ Late(p)
  BY <1>0 DEF Late, Before, CleanInv, CleanLog, Punctual
<1>3. log[r].step \in Steps /\ log[r] \in Events
  BY <1>0 DEF Events
<1>4. log[r].step <= saved.current
  <2>1. PICK d \in Before(r) : log[d].type = "step_started" /\ log[d].step = log[r].step
    BY DEF OnceInv, OnceLog, Started
  <2>2. d \in Before(End)
    BY <1>0, <2>1 DEF Before
  <2> QED BY <1>0, <1>1, <2>1, <2>2 DEF OnceInv, Covers, Moves
<1>5. saved.current # 0
  BY <1>0, <1>3, <1>4, SagaAssumption DEF Steps
<1>6. PICK d \in DOMAIN log : log[d].type \in Moves /\ log[d].step = saved.current
  BY <1>0, <1>1, <1>5 DEF SeenInv, Seen
<1>7. log[d].type \in Dispatching
  <2>1. log[d].type \notin Closing
    BY <1>0, <1>6 DEF SeenInv, Seen
  <2> QED BY <1>6, <2>1 DEF Closing, Moves, Dispatching
<1>8. CASE r < d
  BY <1>2, <1>7, <1>8 DEF SettledInv, SettledLog
<1>9. CASE d = r
  BY <1>6, <1>9
<1>10. CASE d < r
  <2>1. log[d].step <= log[r].step
    BY <1>2, <1>6, <1>10 DEF OnceInv, OnceLog, Rises, Moves
  <2> QED BY <1>0, <1>3, <1>4, <1>6, <2>1, SagaAssumption DEF Steps
<1> QED BY <1>0, <1>8, <1>9, <1>10

\* NotStalled, for every saga: without crash, expiry or foreign event, and before the deadline,
\* a saga going forward whose log was seen to the end waits for its current step.
THEOREM NeverStalls == Spec => []NotStalled
<1>1. TypeInv /\ OnceInv /\ OverInv /\ SettledInv /\ Idle /\ CleanInv /\ SeenInv /\ TailInv
      /\ Attached => NotStalled
  <2> SUFFICES ASSUME TypeInv, OnceInv, OverInv, SettledInv, Idle, CleanInv, SeenInv, TailInv,
                      Attached, Quiet, saved.direction = "forward", faults = 0
               PROVE  saved.current # 0 /\ Waits(saved.current)
    BY DEF NotStalled
  <2> DEFINE n == Len(log)
  <2>0. /\ LogInv /\ ViewInv(saved) /\ log \in Seq(Events) /\ n \in Nat \ {0}
        /\ DOMAIN log = 1 .. n /\ n \in DOMAIN log /\ Before(End) = DOMAIN log
        /\ saved.cursor = n /\ saved.cursor + 1 = End /\ n \in Before(End) /\ n = End - 1
        /\ tick = NoTick
    <3>1. LogInv /\ ViewInv(saved) /\ log \in Seq(Events) /\ Len(log) \in Nat \ {0}
      BY EmptySeq, LenProperties DEF TypeInv, LogInv
    <3>2. DOMAIN log = 1 .. n /\ n \in DOMAIN log /\ Before(End) = DOMAIN log
      BY <3>1 DEF Before, End
    <3> QED BY <3>1, <3>2 DEF Quiet, End
  <2>c. Clean
    BY DEF Clean, Quiet
  <2>h. ~ Handles(saved) /\ Trigger(saved) = log[n] /\ log[n].type # "started"
    <3>1. Trigger(saved) = log[n]
      BY <2>0 DEF Trigger
    <3> QED BY <2>0, <3>1, EmitsNothing DEF Idle
  <2>n. ~ Closed
    BY <2>0 DEF SeenInv, Seen, Closed
  <2>1. log[n].type \in Waiting \cup WorkerAnswers
    BY <2>0, <2>c, <2>h, <2>n DEF TailInv
  <2>z. \A k \in Steps : k # 0
    BY SagaAssumption DEF Steps
  <2>2. CASE log[n].type = "awaiting_approval"
    <3>1. saved.current = log[n].step /\ saved.states[saved.current] = "awaiting_approval"
      BY <2>0, <2>2 DEF SeenInv, Seen
    <3>2. log[n].step \in Steps
      BY <2>0, <2>2 DEF Events
    <3> QED BY <2>z, <3>1, <3>2 DEF Waits
  <2>3. CASE log[n].type = "requested"
    <3>1. \A q \in DOMAIN log : ~ Answers(q, n)
      <4>1. \A q \in DOMAIN log : log[q].of < q /\ q <= n
        BY <2>0 DEF LogInv
      <4> QED BY <2>0, <4>1 DEF Answers
    <3>2. n \in saved.requests /\ n \notin saved.completions
      <4>1. ~ AnswerKnown(saved, n)
        BY <3>1 DEF AnswerKnown
      <4>2. n \in 1 .. saved.cursor /\ log[n].type \in ToolRequests
        BY <2>0, <2>3 DEF ToolRequests
      <4> QED BY <4>1, <4>2 DEF OverInv, Over
    <3>3. \A d \in DOMAIN log : ~ AnsweredRequest(d, n)
      <4>1. \A d \in DOMAIN log : Before(d) \subseteq DOMAIN log
        BY <2>0 DEF Before
      <4> QED BY <3>1, <4>1 DEF AnsweredRequest
    <3>4. saved.current = log[n].step
      BY <2>0, <2>3, <2>c, <3>3, LastIsCurrent
    <3>5. log[n] = Event("requested", log[n].step) /\ log[n].step \in Steps
      BY <2>0, <2>3 DEF Events, ToolRequests
    <3> QED BY <2>z, <3>2, <3>4, <3>5 DEF Waits
  <2>4. CASE log[n].type \in WorkerAnswers
    <3>1. PICK r \in DOMAIN log : r = log[n].of /\ log[r].type \in ToolRequests
      BY <2>0, <2>4 DEF LogInv, ToolAnswers
    <3>2. log[r].type = "requested"
      <4>1. log[r].type # "undo"
        BY <2>n DEF CleanInv, UndoClosing
      <4> QED BY <3>1, <4>1 DEF ToolRequests
    <3>3. \A d \in DOMAIN log : ~ AnsweredRequest(d, r)
      <4> SUFFICES ASSUME NEW d \in DOMAIN log, NEW q \in Before(d), Answers(q, r) PROVE FALSE
        BY DEF AnsweredRequest
      <4>1. q \in DOMAIN log /\ q < n
        BY <2>0 DEF Before
      <4>2. log[q].type # "expired"
        BY <2>c, <4>1 DEF CleanInv, CleanLog, Punctual
      <4>3. log[q].type \in WorkerAnswers /\ log[q].of = log[n].of
        BY <3>1, <4>2 DEF Answers, ToolAnswers
      <4>4. q = n
        BY <2>0, <2>4, <4>1, <4>3 DEF CleanInv, AnsweredOnce
      <4> QED BY <2>0, <4>1, <4>4
    <3>4. saved.current = log[r].step
      BY <2>0, <2>c, <3>2, <3>3, LastIsCurrent
    <3>5. log[r] = Event("requested", saved.current)
      BY <2>0, <3>1, <3>2, <3>4 DEF Events
    <3>6. r \in saved.completions /\ r \in saved.requests
      BY <2>0, <2>4, <2>c, <3>1 DEF Attached, ViewInv
    <3>7. StepAnswered(saved)
      <4>1. ASSUME NEW q \in saved.requests, log[q] = log[r], ~ (r <= q) PROVE FALSE
        <5>1. q \in DOMAIN log /\ q < r
          BY <2>0, <4>1 DEF ViewInv
        <5>2. ~ Late(r)
          BY <2>0, <2>c DEF Late, Before, CleanInv, CleanLog, Punctual
        <5>3. log[q].step < log[r].step /\ log[r].step \in Nat
          BY <2>0, <3>2, <4>1, <5>1, <5>2, SagaAssumption DEF OnceInv, OnceLog, Rises, Events
        <5> QED BY <4>1, <5>3
      <4> QED BY <3>5, <3>6, <4>1 DEF StepAnswered
    <3>8. ~ UndoFailed(saved)
      BY DEF UndoFailed
    <3>9. Trigger(saved).type \in ToolAnswers
      BY <2>4, <2>h DEF ToolAnswers
    <3> QED BY <2>h, <3>7, <3>8, <3>9 DEF Handles
  <2> QED BY <2>1, <2>2, <2>3, <2>4 DEF Waiting
<1> QED BY <1>1, TypeInvariant, OnceInvariant, OverInvariant, SettledInvariant, IdleInvariant,
           CleanInvariant, SeenInvariant, TailInvariant, AttachedInvariant, PTL

=============================================================================
