--------------------------- MODULE GraphRunsProofs ---------------------------
(***************************************************************************)
(* Theorems about GraphRuns, for every graph, budget and set of executors: *)
(* its types, that no step is carried out twice, and that a sequence       *)
(* number is repeated by resumptions only.                                 *)
(***************************************************************************)
EXTENDS GraphRuns, FiniteSetTheorems, SequenceTheorems, TLAPS

\* What an execution may have left to do.
Shapes ==
    {<<>>, <<"save">>, <<"run_started", "save">>, <<"resumed", "save">>,
     <<"node_started", "node">>, <<"node">>,
     <<"node_completed", "route">>, <<"route">>,
     <<"node_completed", "route, pause">>, <<"route, pause">>,
     <<"edge_selected", "interrupted", "save">>, <<"interrupted", "save">>,
     <<"edge_selected", "save">>, <<"run_completed", "save">>}

\* A visit is counted when the node is started, and its call follows.
Calling(e) == todo[e] \in {<<"node_started", "node">>, <<"node">>}
Resuming(e) == todo[e] = <<"resumed", "save">>

\* Invariants that need no assumption about how executions overlap.
ControlOK ==
    /\ todo \in [Executor -> Shapes]
    /\ \A e \in Executor :
          /\ try[e] <= tries
          /\ Idle(e) => todo[e] = <<>>
          /\ Calling(e) => snap[e].current \in Node /\ snap[e].steps \in 1..MaxSteps
    /\ tries = 0 => checkpoint = Missing /\ history = {} /\ calls = {}
    /\ IsFiniteSet(calls)

Types ==
    /\ \A h \in history : h[1] \in Nat \ {0} /\ h[2] \in Event
    /\ checkpoint \in Snapshot
    /\ snap \in [Executor -> Snapshot]
    /\ try \in [Executor -> 0..MaxTries] /\ tries \in 0..MaxTries
    /\ calls \subseteq [step : 1..MaxSteps, node : Node, try : 1..MaxTries]
    /\ exclusive \in BOOLEAN
    /\ \A e, f \in Executor : try[e] = try[f] => e = f \/ Idle(e)

At(C, n) == {c \in C : c.node = n}

\* The budgets count the calls C.
Within(C, steps, visits) ==
    /\ \A c \in C : c.step <= steps
    /\ \A n \in Node : Cardinality(At(C, n)) <= visits[n]

\* ... and the visit that is about to call its node.
Before(C, steps, visits, current) ==
    /\ \A c \in C : c.step < steps
    /\ \A n \in Node : Cardinality(At(C, n)) + (IF n = current THEN 1 ELSE 0) <= visits[n]

Once(C) ==
    /\ \A c, d \in C : c.step = d.step => c = d
    /\ \A n \in Node : Cardinality(At(C, n)) <= MaxVisits

\* The events of history H that a snapshot at sequence number q does not know are
\* resumptions.
Known(H, q) == \A h \in H : h[1] <= q
Ahead(H, q) == \A h \in H : h[1] <= q \/ (h[1] = q + 1 /\ h[2].type = "resumed")

Repeats(H) == \A h, k \in H : h[1] = k[1] /\ h # k => h[2].type = "resumed" /\ k[2].type = "resumed"

\* While executions do not overlap: one is under way at a time.
Alone == \A e, f \in Executor : ~Idle(e) /\ ~Idle(f) => e = f

\* A paused checkpoint knows all that has happened but resumptions of it ...
PausedOK ==
    checkpoint.status = "paused" =>
        /\ Within(calls, checkpoint.steps, checkpoint.visits)
        /\ Ahead(history, checkpoint.event_sequence)

\* ... and so does an execution that is under way.
RunningOK ==
    \A e \in Executor : ~Idle(e) =>
        /\ IF Calling(e)
           THEN Before(calls, snap[e].steps, snap[e].visits, snap[e].current)
           ELSE Within(calls, snap[e].steps, snap[e].visits)
        /\ IF Resuming(e) THEN Ahead(history, snap[e].event_sequence)
                          ELSE Known(history, snap[e].event_sequence)

\* Until it has saved, a resumption is where the checkpoint is.
ResumedOK ==
    \A e \in Executor : ~Idle(e) /\ checkpoint.status = "paused" =>
        /\ snap[e].status = "running"
        /\ snap[e].steps = checkpoint.steps /\ snap[e].visits = checkpoint.visits
        /\ \/ Resuming(e) /\ snap[e].event_sequence = checkpoint.event_sequence
           \/ todo[e] = <<"save">> /\ snap[e].event_sequence = checkpoint.event_sequence + 1

Exclusive == Alone /\ PausedOK /\ RunningOK /\ ResumedOK /\ Repeats(history) /\ Once(calls)

IInv == Types /\ ControlOK /\ (exclusive => Exclusive)

-----------------------------------------------------------------------------
(* What is left to do.                                                     *)

LEMMA TailOfTwo == ASSUME NEW a, NEW b PROVE Tail(<<a, b>>) = <<b>>
<1>. DEFINE S == {a, b}
<1>1. <<a, b>> \in Seq(S) /\ <<a, b>> # <<>> /\ <<b>> \in Seq(S) /\ Len(<<a, b>>) = 2 /\ Len(<<b>>) = 1
  OBVIOUS
<1>2. /\ Tail(<<a, b>>) \in Seq(S) /\ Len(Tail(<<a, b>>)) = 1
      /\ \A i \in 1..1 : Tail(<<a, b>>)[i] = <<b>>[i]
  BY <1>1, HeadTailProperties
<1>. QED BY <1>1, <1>2, SeqEqual

LEMMA TailOfThree == ASSUME NEW a, NEW b, NEW c PROVE Tail(<<a, b, c>>) = <<b, c>>
<1>. DEFINE S == {a, b, c}
<1>1. /\ <<a, b, c>> \in Seq(S) /\ <<a, b, c>> # <<>> /\ Len(<<a, b, c>>) = 3
      /\ <<b, c>> \in Seq(S) /\ Len(<<b, c>>) = 2
  OBVIOUS
<1>2. /\ Tail(<<a, b, c>>) \in Seq(S) /\ Len(Tail(<<a, b, c>>)) = 2
      /\ \A i \in 1..2 : Tail(<<a, b, c>>)[i] = <<b, c>>[i]
  BY <1>1, HeadTailProperties
<1>. QED BY <1>1, <1>2, SeqEqual

\* The shapes are told apart by their heads, and their tails are shapes.
LEMMA Heads ==
    ASSUME NEW s \in Shapes, s # <<>>
    PROVE  /\ Head(s) = "save" => s = <<"save">>
           /\ Head(s) = "node" => s = <<"node">>
           /\ Head(s) \in {"route", "route, pause"} => s \in {<<"route">>, <<"route, pause">>}
           /\ Head(s) = "resumed" => s = <<"resumed", "save">>
           /\ Head(s) = "node_started" => s = <<"node_started", "node">>
           /\ s = <<"node_started", "node">> => Head(s) = "node_started"
<1>1. /\ Head(<<"save">>) = "save" /\ Head(<<"node">>) = "node" /\ Head(<<"route">>) = "route"
      /\ Head(<<"route, pause">>) = "route, pause" /\ Head(<<"run_started", "save">>) = "run_started"
      /\ Head(<<"resumed", "save">>) = "resumed" /\ Head(<<"node_started", "node">>) = "node_started"
      /\ Head(<<"node_completed", "route">>) = "node_completed"
      /\ Head(<<"node_completed", "route, pause">>) = "node_completed"
      /\ Head(<<"edge_selected", "interrupted", "save">>) = "edge_selected"
      /\ Head(<<"interrupted", "save">>) = "interrupted" /\ Head(<<"edge_selected", "save">>) = "edge_selected"
      /\ Head(<<"run_completed", "save">>) = "run_completed"
  OBVIOUS
<1>. QED BY <1>1 DEF Shapes

LEMMA Tails ==
    ASSUME NEW s \in Shapes, s # <<>>, Head(s) \in EventType
    PROVE  /\ Tail(s) \in Shapes
           /\ Tail(s) # <<"resumed", "save">>
           /\ Tail(s) # <<"node_started", "node">>
           /\ Tail(s) = <<"node">> <=> s = <<"node_started", "node">>
           /\ Head(s) = "resumed" => Tail(s) = <<"save">>
<1>1. /\ Tail(<<"run_started", "save">>) = <<"save">> /\ Tail(<<"resumed", "save">>) = <<"save">>
      /\ Tail(<<"node_started", "node">>) = <<"node">>
      /\ Tail(<<"node_completed", "route">>) = <<"route">>
      /\ Tail(<<"node_completed", "route, pause">>) = <<"route, pause">>
      /\ Tail(<<"interrupted", "save">>) = <<"save">>
      /\ Tail(<<"edge_selected", "save">>) = <<"save">>
      /\ Tail(<<"run_completed", "save">>) = <<"save">>
  BY TailOfTwo
<1>2. Tail(<<"edge_selected", "interrupted", "save">>) = <<"interrupted", "save">>
  BY TailOfThree
<1>3. s \notin {<<"save">>, <<"node">>, <<"route">>, <<"route, pause">>}
  <2>1. /\ Head(<<"save">>) = "save" /\ Head(<<"node">>) = "node" /\ Head(<<"route">>) = "route"
        /\ Head(<<"route, pause">>) = "route, pause"
    OBVIOUS
  <2>. QED BY <2>1 DEF EventType
<1>4. Head(s) = "resumed" => s = <<"resumed", "save">>
  BY Heads
<1>5. s \in {<<"run_started", "save">>, <<"resumed", "save">>, <<"node_started", "node">>,
           <<"node_completed", "route">>, <<"node_completed", "route, pause">>,
           <<"edge_selected", "interrupted", "save">>, <<"interrupted", "save">>, <<"edge_selected", "save">>,
           <<"run_completed", "save">>}
  BY <1>3 DEF Shapes
<1>6. Tail(s) \in {<<"save">>, <<"node">>, <<"route">>, <<"route, pause">>, <<"interrupted", "save">>}
  BY <1>1, <1>2, <1>5
<1>7. /\ Len(<<"save">>) = 1 /\ Len(<<"node">>) = 1 /\ Len(<<"route">>) = 1
      /\ Len(<<"route, pause">>) = 1 /\ Len(<<"interrupted", "save">>) = 2
      /\ Len(<<"resumed", "save">>) = 2 /\ Len(<<"node_started", "node">>) = 2
      /\ Head(<<"save">>) = "save" /\ Head(<<"node">>) = "node" /\ Head(<<"route">>) = "route"
      /\ Head(<<"route, pause">>) = "route, pause" /\ Head(<<"interrupted", "save">>) = "interrupted"
      /\ Head(<<"resumed", "save">>) = "resumed" /\ Head(<<"node_started", "node">>) = "node_started"
  OBVIOUS
<1>8. Tail(s) \in Shapes
  BY <1>6 DEF Shapes
<1>9. Tail(s) # <<"resumed", "save">> /\ Tail(s) # <<"node_started", "node">>
  <2>. DEFINE u == Tail(s)
  <2>1. Head(u) \in {"save", "node", "route", "route, pause", "interrupted"}
    BY <1>6, <1>7
  <2>. QED BY <1>7, <2>1
<1>10. Tail(s) = <<"node">> => s = <<"node_started", "node">>
  <2>1. /\ Head(<<"save">>) # Head(<<"node">>) /\ Head(<<"route">>) # Head(<<"node">>)
        /\ Head(<<"route, pause">>) # Head(<<"node">>)
        /\ Head(<<"interrupted", "save">>) # Head(<<"node">>)
    BY <1>7
  <2>. QED BY <1>1, <1>2, <1>5, <2>1, Zenon
<1>11. s = <<"node_started", "node">> => Tail(s) = <<"node">>
  BY <1>1
<1>. QED BY <1>1, <1>4, <1>8, <1>9, <1>10, <1>11

\* No shape has anything that is not work.
LEMMA ShapesAreWork == Shapes \subseteq Seq(Work)
BY DEF Shapes, Work, EventType

-----------------------------------------------------------------------------
(* Snapshots.                                                              *)

LEMMA FreshIsSnapshot ==
    /\ Fresh \in Snapshot /\ Missing \in Snapshot /\ Missing.status = "missing"
    /\ Fresh.status = "running" /\ Fresh.steps = 0 /\ Fresh.event_sequence = 0
    /\ Fresh.visits = [n \in Node |-> 0]
BY GraphAssumption DEF Fresh, Missing, Snapshot

\* What an execution does to its snapshot.
LEMMA Marked ==
    ASSUME NEW s \in Snapshot, NEW x \in {"missing", "running", "paused", "completed"},
           NEW k, k = [s EXCEPT !.status = x]
    PROVE  /\ k \in Snapshot /\ k.status = x
           /\ k.current = s.current /\ k.steps = s.steps /\ k.visits = s.visits
           /\ k.event_sequence = s.event_sequence
BY DEF Snapshot

LEMMA Routed ==
    ASSUME NEW s \in Snapshot, NEW x \in {"running", "paused"}, NEW to \in Node \cup {"end"},
           NEW k, k = [s EXCEPT !.current = to, !.status = x]
    PROVE  /\ k \in Snapshot /\ k.status = x
           /\ k.current = to /\ k.steps = s.steps /\ k.visits = s.visits
           /\ k.event_sequence = s.event_sequence
BY DEF Snapshot

LEMMA Numbered ==
    ASSUME NEW s \in Snapshot, NEW k, k = [s EXCEPT !.event_sequence = @ + 1]
    PROVE  /\ k \in Snapshot /\ k.status = s.status
           /\ k.current = s.current /\ k.steps = s.steps /\ k.visits = s.visits
           /\ k.event_sequence = s.event_sequence + 1
BY DEF Snapshot

LEMMA Visited ==
    ASSUME NEW s \in Snapshot, s.current \in Node, s.steps < MaxSteps,
           s.visits[s.current] < MaxVisits,
           NEW k, k = [s EXCEPT !.steps = @ + 1, !.visits[s.current] = @ + 1]
    PROVE  /\ k \in Snapshot
           /\ k.status = s.status /\ k.current = s.current /\ k.steps = s.steps + 1
           /\ \A n \in Node : k.visits[n] = s.visits[n] + (IF n = s.current THEN 1 ELSE 0)
           /\ k.event_sequence = s.event_sequence
<1>. DEFINE v == [s.visits EXCEPT ![s.current] = @ + 1]
<1>1. /\ s.visits \in [Node -> 0..MaxVisits] /\ s.steps \in 0..MaxSteps
      /\ MaxSteps \in Nat /\ MaxVisits \in Nat
  BY GraphAssumption DEF Snapshot
<1>2. /\ v \in [Node -> 0..MaxVisits]
      /\ \A n \in Node : v[n] = s.visits[n] + (IF n = s.current THEN 1 ELSE 0)
  BY <1>1
<1>3. k = [s EXCEPT !.steps = @ + 1, !.visits = v]
  BY DEF Snapshot
<1>4. k = [status |-> s.status, current |-> s.current, steps |-> s.steps + 1, visits |-> v,
           event_sequence |-> s.event_sequence]
  <2>. HIDE DEF v
  <2>. QED BY <1>3 DEF Snapshot
<1>5. s.steps + 1 \in 0..MaxSteps
  BY <1>1
<1>6. /\ k \in Snapshot /\ k.status = s.status /\ k.current = s.current /\ k.steps = s.steps + 1
      /\ k.visits = v /\ k.event_sequence = s.event_sequence
  <2>. HIDE DEF v
  <2>. QED BY <1>2, <1>4, <1>5 DEF Snapshot
<1>. QED BY <1>2, <1>6

-----------------------------------------------------------------------------
(* What the actions do.                                                    *)

Others(e) ==
    \A f \in Executor \ {e} : try'[f] = try[f] /\ todo'[f] = todo[f] /\ snap'[f] = snap[f]

LEMMA BeginFacts ==
    ASSUME Types, ControlOK, NEW e \in Executor, NEW s \in Snapshot, NEW w \in Shapes,
           Begin(e, s, w)
    PROVE  /\ Idle(e) /\ tries' = tries + 1 /\ tries' \in 1..MaxTries
           /\ try' \in [Executor -> 0..MaxTries] /\ try'[e] = tries + 1
           /\ snap' \in [Executor -> Snapshot] /\ snap'[e] = s
           /\ todo' \in [Executor -> Shapes] /\ todo'[e] = w
           /\ Others(e)
           /\ history' = history /\ checkpoint' = checkpoint /\ calls' = calls
<1>1. Idle(e) /\ tries' = tries + 1 /\ tries \in 0..MaxTries /\ tries < MaxTries /\ MaxTries \in Nat
  BY GraphAssumption DEF Begin, Types
<1>2. tries' \in 1..MaxTries /\ tries + 1 \in 0..MaxTries
  BY <1>1
<1>3. /\ try' = [try EXCEPT ![e] = tries + 1] /\ snap' = [snap EXCEPT ![e] = s]
      /\ todo' = [todo EXCEPT ![e] = w]
      /\ history' = history /\ checkpoint' = checkpoint /\ calls' = calls
  BY DEF Begin, Then, backend
<1>4. /\ try \in [Executor -> 0..MaxTries] /\ snap \in [Executor -> Snapshot]
      /\ todo \in [Executor -> Shapes]
  BY DEF Types, ControlOK
<1>. QED BY <1>1, <1>2, <1>3, <1>4 DEF Others

\* Some execution is under way: the run was started.
LEMMA Started ==
    ASSUME Types, ControlOK, NEW e \in Executor, ~Idle(e)
    PROVE  tries # 0 /\ try[e] \in 1..MaxTries
BY GraphAssumption DEF Types, ControlOK, Idle

LEMMA EmitFacts ==
    ASSUME Types, ControlOK, NEW e \in Executor, Emit(e)
    PROVE  /\ ~Idle(e) /\ todo[e] # <<>> /\ Head(todo[e]) \in EventType
           /\ snap' \in [Executor -> Snapshot] /\ todo' \in [Executor -> Shapes]
           /\ todo'[e] = Tail(todo[e]) /\ Others(e)
           /\ snap'[e].status = snap[e].status /\ snap'[e].current = snap[e].current
           /\ snap'[e].steps = snap[e].steps /\ snap'[e].visits = snap[e].visits
           /\ snap'[e].event_sequence = snap[e].event_sequence + 1
           /\ \E event \in Event :
                 /\ event.type = Head(todo[e])
                 /\ history' = history \cup {<<snap[e].event_sequence + 1, event>>}
           /\ UNCHANGED <<checkpoint, try, tries, calls, exclusive>>
<1>1. PICK type \in EventType :
          /\ Does(e, type)
          /\ history' = history \cup {<<snap[e].event_sequence + 1,
                                        [type |-> type, step |-> snap[e].steps, try |-> try[e]]>>}
          /\ snap' = [snap EXCEPT ![e].event_sequence = @ + 1]
          /\ Then(e, Tail(todo[e]))
          /\ UNCHANGED <<checkpoint, try, tries, calls, exclusive>>
  BY Zenon DEF Emit
<1>2. ~Idle(e) /\ todo[e] # <<>> /\ Head(todo[e]) = type
  BY <1>1 DEF Does
<1>3. /\ snap \in [Executor -> Snapshot] /\ todo \in [Executor -> Shapes]
      /\ snap[e] \in Snapshot /\ todo[e] \in Shapes
  BY DEF Types, ControlOK
<1>. DEFINE k == [snap[e] EXCEPT !.event_sequence = @ + 1]
<1>4. /\ k \in Snapshot /\ k.status = snap[e].status
      /\ k.current = snap[e].current /\ k.steps = snap[e].steps /\ k.visits = snap[e].visits
      /\ k.event_sequence = snap[e].event_sequence + 1
  BY <1>3, Numbered
<1>5. snap' = [snap EXCEPT ![e] = k]
  BY <1>1
<1>6. snap' \in [Executor -> Snapshot] /\ snap'[e] = k /\ \A f \in Executor \ {e} : snap'[f] = snap[f]
  <2>. HIDE DEF k
  <2>. QED BY <1>3, <1>4, <1>5
<1>7. Tail(todo[e]) \in Shapes
  BY <1>2, <1>3, Tails
<1>8. /\ todo' \in [Executor -> Shapes] /\ todo'[e] = Tail(todo[e])
      /\ \A f \in Executor \ {e} : todo'[f] = todo[f]
  BY <1>1, <1>3, <1>7 DEF Then
<1>9. Others(e)
  BY <1>1, <1>6, <1>8 DEF Others
<1>10. try[e] \in 1..MaxTries /\ snap[e].steps \in 0..MaxSteps
  BY <1>2, <1>3, Started DEF Snapshot
<1>. DEFINE event == [type |-> type, step |-> snap[e].steps, try |-> try[e]]
<1>11. event \in Event /\ event.type = Head(todo[e])
  BY <1>2, <1>10 DEF Event
<1>12. \E ev \in Event : /\ ev.type = Head(todo[e])
                         /\ history' = history \cup {<<snap[e].event_sequence + 1, ev>>}
  <2>. HIDE DEF event
  <2>1. history' = history \cup {<<snap[e].event_sequence + 1, event>>}
    BY <1>1, Zenon DEF event
  <2>. QED BY <1>11, <2>1, Zenon
<1>13. UNCHANGED <<checkpoint, try, tries, calls, exclusive>>
  BY <1>1
<1>. HIDE DEF k, event
<1>14. /\ snap'[e].status = snap[e].status /\ snap'[e].current = snap[e].current
       /\ snap'[e].steps = snap[e].steps /\ snap'[e].visits = snap[e].visits
       /\ snap'[e].event_sequence = snap[e].event_sequence + 1
  BY <1>4, <1>6
<1>. QED BY <1>2, <1>6, <1>8, <1>9, <1>12, <1>13, <1>14

\* Whoever ends is idle.
LEMMA EndFacts ==
    ASSUME Types, ControlOK, NEW e \in Executor, End(e)
    PROVE  /\ try' \in [Executor -> 0..MaxTries] /\ try'[e] = 0
           /\ snap' \in [Executor -> Snapshot] /\ todo' \in [Executor -> Shapes] /\ todo'[e] = <<>>
           /\ Others(e)
<1>1. /\ snap \in [Executor -> Snapshot] /\ todo \in [Executor -> Shapes]
      /\ try \in [Executor -> 0..MaxTries] /\ MaxTries \in Nat
  BY GraphAssumption DEF Types, ControlOK
<1>2. Fresh \in Snapshot /\ <<>> \in Shapes
  BY FreshIsSnapshot DEF Shapes
<1>3. /\ try' = [try EXCEPT ![e] = 0] /\ todo' = [todo EXCEPT ![e] = <<>>]
      /\ snap' = [snap EXCEPT ![e] = Fresh]
  BY DEF End
<1>. QED BY <1>1, <1>2, <1>3 DEF Others

LEMMA SaveFacts ==
    ASSUME Types, ControlOK, NEW e \in Executor, Save(e)
    PROVE  /\ ~Idle(e) /\ todo[e] = <<"save">> /\ checkpoint' = snap[e]
           /\ try' \in [Executor -> 0..MaxTries]
           /\ snap' \in [Executor -> Snapshot] /\ todo' \in [Executor -> Shapes]
           /\ todo'[e] = <<>> /\ Others(e)
           /\ \/ snap[e].status = "running" /\ try'[e] = try[e] /\ snap'[e] = snap[e]
              \/ snap[e].status # "running" /\ try'[e] = 0
           /\ UNCHANGED <<history, tries, calls, exclusive>>
<1>1. ~Idle(e) /\ todo[e] # <<>> /\ Head(todo[e]) = "save"
  BY DEF Save, Does
<1>2. /\ snap \in [Executor -> Snapshot] /\ todo \in [Executor -> Shapes]
      /\ try \in [Executor -> 0..MaxTries] /\ todo[e] \in Shapes
  BY DEF Types, ControlOK
<1>3. todo[e] = <<"save">>
  BY <1>1, <1>2, Heads
<1>4. checkpoint' = snap[e] /\ UNCHANGED <<history, tries, calls, exclusive>>
  BY DEF Save
<1>5. CASE snap[e].status = "running"
  <2>1. Then(e, Tail(todo[e])) /\ UNCHANGED <<try, snap>>
    BY <1>5 DEF Save
  <2>2. Tail(todo[e]) = <<>> /\ <<>> \in Shapes
    BY <1>3 DEF Shapes
  <2>3. todo' = [todo EXCEPT ![e] = <<>>]
    BY <2>1, <2>2, Zenon DEF Then
  <2>4. todo' \in [Executor -> Shapes] /\ todo'[e] = <<>> /\ \A f \in Executor \ {e} : todo'[f] = todo[f]
    BY <1>2, <2>2, <2>3
  <2>. QED BY <1>1, <1>2, <1>3, <1>4, <1>5, <2>1, <2>4 DEF Others
<1>6. CASE snap[e].status # "running"
  <2>1. End(e)
    BY <1>6 DEF Save
  <2>. QED BY <1>1, <1>3, <1>4, <1>6, <2>1, EndFacts
<1>. QED BY <1>5, <1>6

LEMMA VisitFacts ==
    ASSUME Types, ControlOK, NEW e \in Executor, Visit(e)
    PROVE  /\ ~Idle(e) /\ todo[e] = <<>> /\ snap[e].current \in Node
           /\ snap' \in [Executor -> Snapshot] /\ todo' \in [Executor -> Shapes]
           /\ todo'[e] = <<"node_started", "node">> /\ Others(e)
           /\ snap'[e].current = snap[e].current
           /\ snap'[e].steps = snap[e].steps + 1 /\ snap'[e].steps \in 1..MaxSteps
           /\ \A n \in Node : snap'[e].visits[n] =
                 snap[e].visits[n] + (IF n = snap[e].current THEN 1 ELSE 0)
           /\ snap'[e].event_sequence = snap[e].event_sequence
           /\ UNCHANGED <<history, checkpoint, try, tries, calls, exclusive>>
<1>1. /\ ~Idle(e) /\ todo[e] = <<>> /\ snap[e].current # "end"
      /\ snap[e].steps < MaxSteps /\ snap[e].visits[snap[e].current] < MaxVisits
      /\ snap' = [snap EXCEPT ![e].steps = @ + 1, ![e].visits[snap[e].current] = @ + 1]
      /\ todo' = [todo EXCEPT ![e] = <<"node_started", "node">>]
      /\ UNCHANGED <<history, checkpoint, try, tries, calls, exclusive>>
  BY DEF Visit, Then, backend
<1>2. /\ snap \in [Executor -> Snapshot] /\ todo \in [Executor -> Shapes] /\ snap[e] \in Snapshot
      /\ <<"node_started", "node">> \in Shapes
  BY DEF Types, ControlOK, Shapes
<1>3. snap[e].current \in Node /\ snap[e].steps \in 0..MaxSteps /\ MaxSteps \in Nat
  BY <1>1, <1>2, GraphAssumption DEF Snapshot
<1>. DEFINE s == snap[e]
            k == [s EXCEPT !.steps = @ + 1, !.visits[s.current] = @ + 1]
<1>4. /\ k \in Snapshot
      /\ k.status = s.status /\ k.current = s.current /\ k.steps = s.steps + 1
      /\ \A n \in Node : k.visits[n] = s.visits[n] + (IF n = s.current THEN 1 ELSE 0)
      /\ k.event_sequence = s.event_sequence
  <2>1. s \in Snapshot /\ s.current \in Node /\ s.steps < MaxSteps /\ s.visits[s.current] < MaxVisits
    BY <1>1, <1>2, <1>3
  <2>. HIDE DEF s
  <2>. QED BY <2>1, Visited, Zenon
<1>5. snap' = [snap EXCEPT ![e] = k]
  BY <1>1, <1>2 DEF Snapshot
<1>6. snap' \in [Executor -> Snapshot] /\ snap'[e] = k /\ \A f \in Executor \ {e} : snap'[f] = snap[f]
  <2>. HIDE DEF k
  <2>. QED BY <1>2, <1>4, <1>5
<1>7. /\ todo' \in [Executor -> Shapes] /\ todo'[e] = <<"node_started", "node">>
      /\ \A f \in Executor \ {e} : todo'[f] = todo[f]
  BY <1>1, <1>2
<1>8. k.steps \in 1..MaxSteps
  <2>. HIDE DEF k
  <2>. QED BY <1>1, <1>3, <1>4
<1>. HIDE DEF k
<1>. QED BY <1>1, <1>3, <1>4, <1>6, <1>7, <1>8 DEF Others

LEMMA FinishFacts ==
    ASSUME Types, ControlOK, NEW e \in Executor, Finish(e)
    PROVE  /\ ~Idle(e) /\ todo[e] = <<>>
           /\ snap' \in [Executor -> Snapshot] /\ todo' \in [Executor -> Shapes]
           /\ todo'[e] = <<"run_completed", "save">> /\ Others(e)
           /\ snap'[e].steps = snap[e].steps /\ snap'[e].visits = snap[e].visits
           /\ snap'[e].event_sequence = snap[e].event_sequence
           /\ UNCHANGED <<history, checkpoint, try, tries, calls, exclusive>>
<1>1. /\ ~Idle(e) /\ todo[e] = <<>>
      /\ snap' = [snap EXCEPT ![e].status = "completed"]
      /\ todo' = [todo EXCEPT ![e] = <<"run_completed", "save">>]
      /\ UNCHANGED <<history, checkpoint, try, tries, calls, exclusive>>
  BY DEF Finish, Then, backend
<1>2. /\ snap \in [Executor -> Snapshot] /\ todo \in [Executor -> Shapes] /\ snap[e] \in Snapshot
      /\ <<"run_completed", "save">> \in Shapes
  BY DEF Types, ControlOK, Shapes
<1>. DEFINE k == [snap[e] EXCEPT !.status = "completed"]
<1>3. /\ k \in Snapshot /\ k.steps = snap[e].steps /\ k.visits = snap[e].visits
      /\ k.event_sequence = snap[e].event_sequence
  BY <1>2, Marked
<1>4. snap' = [snap EXCEPT ![e] = k]
  BY <1>1
<1>. HIDE DEF k
<1>5. snap' \in [Executor -> Snapshot] /\ snap'[e] = k /\ \A f \in Executor \ {e} : snap'[f] = snap[f]
  BY <1>2, <1>3, <1>4
<1>. QED BY <1>1, <1>2, <1>3, <1>5 DEF Others

LEMMA CallFacts ==
    ASSUME Types, ControlOK, NEW e \in Executor, CallNode(e)
    PROVE  /\ ~Idle(e) /\ todo[e] = <<"node">>
           /\ snap[e].current \in Node /\ snap[e].steps \in 1..MaxSteps
           /\ todo' \in [Executor -> Shapes] /\ Others(e)
           /\ todo'[e] \in {<<"node_completed", "route">>, <<"node_completed", "route, pause">>}
           /\ \E c \in [step : 1..MaxSteps, node : Node, try : 1..MaxTries] :
                 c.step = snap[e].steps /\ c.node = snap[e].current /\ calls' = calls \cup {c}
           /\ UNCHANGED <<history, checkpoint, snap, try, tries, exclusive>>
<1>1. ~Idle(e) /\ todo[e] # <<>> /\ Head(todo[e]) = "node"
  BY DEF CallNode, Does
<1>2. todo \in [Executor -> Shapes] /\ todo[e] \in Shapes
  BY DEF ControlOK
<1>3. todo[e] = <<"node">>
  BY <1>1, <1>2, Heads
<1>4. snap[e].current \in Node /\ snap[e].steps \in 1..MaxSteps
  BY <1>3, Zenon DEF ControlOK, Calling
<1>5. try[e] \in 1..MaxTries
  BY <1>1, Started
<1>. DEFINE c == [step |-> snap[e].steps, node |-> snap[e].current, try |-> try[e]]
<1>6. /\ c \in [step : 1..MaxSteps, node : Node, try : 1..MaxTries]
      /\ c.step = snap[e].steps /\ c.node = snap[e].current
  BY <1>4, <1>5
<1>7. calls' = calls \cup {c} /\ UNCHANGED <<history, checkpoint, snap, try, tries, exclusive>>
  BY DEF CallNode, backend
<1>8. PICK route \in {"route", "route, pause"} : todo' = [todo EXCEPT ![e] = <<"node_completed", route>>]
  BY DEF CallNode, Then
<1>9. /\ <<"node_completed", route>> \in Shapes
      /\ <<"node_completed", route>> \in {<<"node_completed", "route">>, <<"node_completed", "route, pause">>}
  BY DEF Shapes
<1>10. /\ todo' \in [Executor -> Shapes] /\ todo'[e] = <<"node_completed", route>>
       /\ \A f \in Executor \ {e} : todo'[f] = todo[f]
  <2>. DEFINE w == <<"node_completed", route>>
  <2>1. w \in Shapes /\ todo' = [todo EXCEPT ![e] = w]
    BY <1>8, <1>9
  <2>. HIDE DEF w
  <2>2. todo' \in [Executor -> Shapes] /\ todo'[e] = w /\ \A f \in Executor \ {e} : todo'[f] = todo[f]
    BY <1>2, <2>1
  <2>. QED BY <2>2 DEF w
<1>11. todo'[e] \in {<<"node_completed", "route">>, <<"node_completed", "route, pause">>}
  BY <1>9, <1>10, Zenon
<1>12. Others(e)
  BY <1>7, <1>10 DEF Others
<1>13. \E d \in [step : 1..MaxSteps, node : Node, try : 1..MaxTries] :
          d.step = snap[e].steps /\ d.node = snap[e].current /\ calls' = calls \cup {d}
  <2>. HIDE DEF c
  <2>. QED BY <1>6, <1>7, Zenon
<1>. QED BY <1>1, <1>3, <1>4, <1>7, <1>10, <1>11, <1>12, <1>13

LEMMA RouteFacts ==
    ASSUME Types, ControlOK, NEW e \in Executor, Route(e)
    PROVE  /\ ~Idle(e) /\ todo[e] \in {<<"route">>, <<"route, pause">>}
           /\ snap' \in [Executor -> Snapshot] /\ todo' \in [Executor -> Shapes]
           /\ todo'[e] \in {<<"edge_selected", "interrupted", "save">>, <<"edge_selected", "save">>}
           /\ Others(e)
           /\ snap'[e].steps = snap[e].steps /\ snap'[e].visits = snap[e].visits
           /\ snap'[e].event_sequence = snap[e].event_sequence
           /\ UNCHANGED <<history, checkpoint, try, tries, calls, exclusive>>
<1>1. PICK pauses \in BOOLEAN, to \in Node \cup {"end"} :
        /\ Does(e, IF pauses THEN "route, pause" ELSE "route")
        /\ snap' = [snap EXCEPT ![e].current = to,
                                ![e].status = IF pauses THEN "paused" ELSE "running"]
        /\ Then(e, IF pauses THEN <<"edge_selected", "interrupted", "save">> ELSE <<"edge_selected", "save">>)
        /\ UNCHANGED <<backend, try, tries, calls, exclusive>>
  BY Zenon DEF Route
<1>. DEFINE x == IF pauses THEN "paused" ELSE "running"
            w == IF pauses THEN <<"edge_selected", "interrupted", "save">> ELSE <<"edge_selected", "save">>
            k == [snap[e] EXCEPT !.current = to, !.status = x]
<1>2. /\ snap \in [Executor -> Snapshot] /\ todo \in [Executor -> Shapes]
      /\ snap[e] \in Snapshot /\ todo[e] \in Shapes
  BY DEF Types, ControlOK
<1>3. ~Idle(e) /\ todo[e] # <<>> /\ Head(todo[e]) \in {"route", "route, pause"}
  BY <1>1 DEF Does
<1>4. todo[e] \in {<<"route">>, <<"route, pause">>}
  BY <1>2, <1>3, Heads
<1>5. x \in {"running", "paused"}
  OBVIOUS
<1>6. /\ k \in Snapshot /\ k.steps = snap[e].steps /\ k.visits = snap[e].visits
      /\ k.event_sequence = snap[e].event_sequence
  <2>1. x \in {"running", "paused"} /\ snap[e] \in Snapshot /\ to \in Node \cup {"end"}
    BY <1>2, <1>5
  <2>. HIDE DEF x
  <2>. QED BY <2>1 DEF Snapshot
<1>7. snap' = [snap EXCEPT ![e] = k]
  BY <1>1
<1>8. w \in Shapes /\ w \in {<<"edge_selected", "interrupted", "save">>, <<"edge_selected", "save">>}
  BY DEF Shapes
<1>9. todo' = [todo EXCEPT ![e] = w] /\ UNCHANGED <<history, checkpoint, try, tries, calls, exclusive>>
  BY <1>1, Zenon DEF Then, backend
<1>. HIDE DEF k, w
<1>10. snap' \in [Executor -> Snapshot] /\ snap'[e] = k /\ \A f \in Executor \ {e} : snap'[f] = snap[f]
  BY <1>2, <1>6, <1>7
<1>11. todo' \in [Executor -> Shapes] /\ todo'[e] = w /\ \A f \in Executor \ {e} : todo'[f] = todo[f]
  BY <1>2, <1>8, <1>9
<1>12. todo'[e] \in {<<"edge_selected", "interrupted", "save">>, <<"edge_selected", "save">>}
  BY <1>8, <1>11, Zenon
<1>13. Others(e)
  BY <1>9, <1>10, <1>11 DEF Others
<1>. QED BY <1>3, <1>4, <1>6, <1>9, <1>10, <1>11, <1>12, <1>13

LEMMA FailFacts ==
    ASSUME Types, ControlOK, NEW e \in Executor, Fail(e)
    PROVE  /\ ~Idle(e)
           /\ try' \in [Executor -> 0..MaxTries] /\ try'[e] = 0
           /\ snap' \in [Executor -> Snapshot] /\ todo' \in [Executor -> Shapes]
           /\ todo'[e] = <<>> /\ Others(e)
           /\ checkpoint' \in {checkpoint, Missing}
           /\ UNCHANGED <<history, tries, calls, exclusive>>
<1>1. End(e) /\ ~Idle(e) /\ UNCHANGED <<history, tries, calls, exclusive>>
  BY DEF Fail
<1>2. checkpoint' \in {checkpoint, Missing}
  BY DEF Fail, Torn
<1>. QED BY <1>1, <1>2, EndFacts

LEMMA CrashFacts ==
    ASSUME Types, ControlOK, Crash
    PROVE  /\ tries # 0
           /\ try' \in [Executor -> 0..MaxTries] /\ \A e \in Executor : try'[e] = 0
           /\ snap' \in [Executor -> Snapshot] /\ todo' \in [Executor -> Shapes]
           /\ \A e \in Executor : todo'[e] = <<>>
           /\ checkpoint' \in {checkpoint, Missing}
           /\ UNCHANGED <<history, tries, calls, exclusive>>
<1>1. tries # 0
  BY Started DEF Crash
<1>2. checkpoint' \in {checkpoint, Missing}
  BY DEF Crash, Torn
<1>3. Fresh \in Snapshot /\ <<>> \in Shapes /\ MaxTries \in Nat
  BY FreshIsSnapshot, GraphAssumption DEF Shapes
<1>. QED BY <1>1, <1>2, <1>3 DEF Crash

-----------------------------------------------------------------------------
(* Types and control.                                                      *)

\* Numbers of calls stay apart, when all but one execution keep theirs.
LEMMA StepTypes ==
    ASSUME Types, ControlOK, [Next]_vars
    PROVE  Types' /\ ControlOK'
<1>. USE DEF Idle
<1>0. <<>> # <<"node_started", "node">> /\ <<>> # <<"node">>
  OBVIOUS
<1>1. ASSUME NEW e \in Executor, NEW s \in Snapshot, NEW w \in Shapes, Begin(e, s, w),
             w \in {<<"run_started", "save">>, <<"resumed", "save">>}, exclusive' \in BOOLEAN
      PROVE  Types' /\ ControlOK'
  <2>1. /\ Idle(e) /\ tries' = tries + 1 /\ tries' \in 1..MaxTries
        /\ try' \in [Executor -> 0..MaxTries] /\ try'[e] = tries + 1
        /\ snap' \in [Executor -> Snapshot] /\ snap'[e] = s
        /\ todo' \in [Executor -> Shapes] /\ todo'[e] = w
        /\ Others(e)
        /\ history' = history /\ checkpoint' = checkpoint /\ calls' = calls
    BY <1>1, BeginFacts
  <2>2. tries \in Nat /\ \A f \in Executor : try[f] \in Nat /\ try[f] <= tries
    BY GraphAssumption DEF Types, ControlOK
  <2>3. ~Calling(e)'
    <3>1. Head(<<"run_started", "save">>) = "run_started" /\ Head(<<"resumed", "save">>) = "resumed"
          /\ Head(<<"node_started", "node">>) = "node_started" /\ Head(<<"node">>) = "node"
      OBVIOUS
    <3>. QED BY <1>1, <2>1, <3>1 DEF Calling
  <2>4. Types'
    BY <1>1, <2>1, <2>2, GraphAssumption DEF Types, Others
  <2>5. ControlOK'
    BY <2>1, <2>2, <2>3, GraphAssumption DEF ControlOK, Others, Calling
  <2>. QED BY <2>4, <2>5
<1>2. ASSUME NEW e \in Executor, Run(e) PROVE Types' /\ ControlOK'
  <2>1. Fresh \in Snapshot /\ <<"run_started", "save">> \in Shapes
    BY FreshIsSnapshot DEF Shapes
  <2>2. Begin(e, Fresh, <<"run_started", "save">>) /\ exclusive' \in BOOLEAN
    BY <1>2 DEF Run, Types
  <2>. QED BY <1>1, <2>1, <2>2
<1>3. ASSUME NEW e \in Executor, Resume(e) PROVE Types' /\ ControlOK'
  <2>. DEFINE k == [checkpoint EXCEPT !.status = "running"]
  <2>1. k \in Snapshot /\ <<"resumed", "save">> \in Shapes
    BY Marked DEF Shapes, Types
  <2>2. Begin(e, k, <<"resumed", "save">>) /\ exclusive' \in BOOLEAN
    BY <1>3 DEF Resume, Types
  <2>. HIDE DEF k
  <2>. QED BY <1>1, <2>1, <2>2
<1>4. ASSUME NEW e \in Executor, Emit(e) PROVE Types' /\ ControlOK'
  <2>1. /\ ~Idle(e) /\ todo[e] # <<>> /\ Head(todo[e]) \in EventType
        /\ snap' \in [Executor -> Snapshot] /\ todo' \in [Executor -> Shapes]
        /\ todo'[e] = Tail(todo[e]) /\ Others(e)
        /\ snap'[e].current = snap[e].current /\ snap'[e].steps = snap[e].steps
        /\ UNCHANGED <<checkpoint, try, tries, calls, exclusive>>
    BY <1>4, EmitFacts
  <2>2. PICK event \in Event : history' = history \cup {<<snap[e].event_sequence + 1, event>>}
    BY <1>4, EmitFacts, Zenon
  <2>3. tries # 0 /\ todo[e] \in Shapes /\ snap[e].event_sequence + 1 \in Nat \ {0}
    BY <2>1, Started DEF ControlOK, Types, Snapshot
  <2>4. Calling(e)' => Calling(e)
    BY <2>1, <2>3, Tails DEF Calling
  <2>5. \A h \in history' : h[1] \in Nat \ {0} /\ h[2] \in Event
    BY <2>2, <2>3 DEF Types
  <2>6. Types'
    BY <2>1, <2>5 DEF Types
  <2>7. ControlOK'
    BY <2>1, <2>3, <2>4 DEF ControlOK, Others, Calling
  <2>. QED BY <2>6, <2>7
<1>5. ASSUME NEW e \in Executor, Save(e) PROVE Types' /\ ControlOK'
  <2>1. /\ ~Idle(e) /\ checkpoint' = snap[e]
        /\ try' \in [Executor -> 0..MaxTries]
        /\ snap' \in [Executor -> Snapshot] /\ todo' \in [Executor -> Shapes]
        /\ todo'[e] = <<>> /\ Others(e) /\ try'[e] \in {try[e], 0}
        /\ UNCHANGED <<history, tries, calls, exclusive>>
    BY <1>5, SaveFacts
  <2>2. tries # 0 /\ snap[e] \in Snapshot /\ tries \in Nat
    BY <2>1, Started, GraphAssumption DEF Types
  <2>3. ~Calling(e)'
    BY <1>0, <2>1 DEF Calling
  <2>4. Types'
    BY <2>1, <2>2 DEF Types, Others
  <2>5. ControlOK'
    <3>1. \A f \in Executor : try'[f] <= tries' /\ (try'[f] = 0 => todo'[f] = <<>>)
      BY <2>2, <2>1 DEF ControlOK, Others, Types
    <3>2. \A f \in Executor : Calling(f)' => snap'[f].current \in Node /\ snap'[f].steps \in 1..MaxSteps
      BY <2>1, <2>3 DEF ControlOK, Others, Calling
    <3>3. tries' # 0 /\ IsFiniteSet(calls')
      BY <2>1, <2>2 DEF ControlOK
    <3>. QED BY <2>1, <3>1, <3>2, <3>3 DEF ControlOK
  <2>. QED BY <2>4, <2>5
<1>6. ASSUME NEW e \in Executor, Visit(e) PROVE Types' /\ ControlOK'
  <2>1. /\ ~Idle(e) /\ snap[e].current \in Node
        /\ snap' \in [Executor -> Snapshot] /\ todo' \in [Executor -> Shapes]
        /\ todo'[e] = <<"node_started", "node">> /\ Others(e)
        /\ snap'[e].current = snap[e].current /\ snap'[e].steps \in 1..MaxSteps
        /\ UNCHANGED <<history, checkpoint, try, tries, calls, exclusive>>
    BY <1>6, VisitFacts
  <2>2. tries # 0
    BY <2>1, Started
  <2>3. Types'
    BY <2>1 DEF Types
  <2>4. ControlOK'
    BY <2>1, <2>2 DEF ControlOK, Others, Calling
  <2>. QED BY <2>3, <2>4
<1>7. ASSUME NEW e \in Executor, Finish(e) PROVE Types' /\ ControlOK'
  <2>1. /\ ~Idle(e)
        /\ snap' \in [Executor -> Snapshot] /\ todo' \in [Executor -> Shapes]
        /\ todo'[e] = <<"run_completed", "save">> /\ Others(e)
        /\ UNCHANGED <<history, checkpoint, try, tries, calls, exclusive>>
    BY <1>7, FinishFacts
  <2>2. tries # 0
    BY <2>1, Started
  <2>3. ~Calling(e)'
    <3>1. Head(<<"run_completed", "save">>) = "run_completed"
          /\ Head(<<"node_started", "node">>) = "node_started" /\ Head(<<"node">>) = "node"
      OBVIOUS
    <3>. QED BY <2>1, <3>1 DEF Calling
  <2>4. Types'
    BY <2>1 DEF Types
  <2>5. ControlOK'
    BY <2>1, <2>2, <2>3 DEF ControlOK, Others, Calling
  <2>. QED BY <2>4, <2>5
<1>8. ASSUME NEW e \in Executor, CallNode(e) PROVE Types' /\ ControlOK'
  <2>1. /\ ~Idle(e) /\ todo' \in [Executor -> Shapes] /\ Others(e)
        /\ todo'[e] \in {<<"node_completed", "route">>, <<"node_completed", "route, pause">>}
        /\ UNCHANGED <<history, checkpoint, snap, try, tries, exclusive>>
    BY <1>8, CallFacts
  <2>2. PICK c \in [step : 1..MaxSteps, node : Node, try : 1..MaxTries] : calls' = calls \cup {c}
    BY <1>8, CallFacts, Zenon
  <2>3. tries # 0
    BY <2>1, Started
  <2>4. ~Calling(e)'
    <3>1. /\ Head(<<"node_completed", "route">>) = "node_completed"
          /\ Head(<<"node_completed", "route, pause">>) = "node_completed"
          /\ Head(<<"node_started", "node">>) = "node_started" /\ Head(<<"node">>) = "node"
      OBVIOUS
    <3>. QED BY <2>1, <3>1 DEF Calling
  <2>5. IsFiniteSet(calls')
    BY <2>2, FS_AddElement DEF ControlOK
  <2>6. Types'
    <3>. DEFINE C == [step : 1..MaxSteps, node : Node, try : 1..MaxTries]
    <3>1. calls' \subseteq C
      BY <2>2 DEF Types
    <3>. QED BY <2>1, <3>1 DEF Types
  <2>7. ControlOK'
    BY <2>1, <2>3, <2>4, <2>5 DEF ControlOK, Others, Calling
  <2>. QED BY <2>6, <2>7
<1>9. ASSUME NEW e \in Executor, Route(e) PROVE Types' /\ ControlOK'
  <2>1. /\ ~Idle(e) /\ snap' \in [Executor -> Snapshot] /\ todo' \in [Executor -> Shapes]
        /\ todo'[e] \in {<<"edge_selected", "interrupted", "save">>, <<"edge_selected", "save">>}
        /\ Others(e)
        /\ UNCHANGED <<history, checkpoint, try, tries, calls, exclusive>>
    BY <1>9, RouteFacts
  <2>2. tries # 0
    BY <2>1, Started
  <2>3. ~Calling(e)'
    <3>1. /\ Head(<<"edge_selected", "interrupted", "save">>) = "edge_selected"
          /\ Head(<<"edge_selected", "save">>) = "edge_selected"
          /\ Head(<<"node_started", "node">>) = "node_started" /\ Head(<<"node">>) = "node"
      OBVIOUS
    <3>. QED BY <2>1, <3>1 DEF Calling
  <2>4. Types'
    BY <2>1 DEF Types
  <2>5. ControlOK'
    BY <2>1, <2>2, <2>3 DEF ControlOK, Others, Calling
  <2>. QED BY <2>4, <2>5
<1>11. Missing \in Snapshot /\ tries \in Nat
  BY FreshIsSnapshot, GraphAssumption DEF Types
<1>12. ASSUME NEW e \in Executor, Fail(e) PROVE Types' /\ ControlOK'
  <2>1. /\ ~Idle(e)
        /\ try' \in [Executor -> 0..MaxTries] /\ try'[e] = 0
        /\ snap' \in [Executor -> Snapshot] /\ todo' \in [Executor -> Shapes]
        /\ todo'[e] = <<>> /\ Others(e)
        /\ checkpoint' \in {checkpoint, Missing}
        /\ UNCHANGED <<history, tries, calls, exclusive>>
    BY <1>12, FailFacts
  <2>2. tries # 0
    BY <2>1, Started
  <2>3. Types'
    BY <1>11, <2>1 DEF Types, Others
  <2>4. ~Calling(e)'
    BY <1>0, <2>1 DEF Calling
  <2>5. ControlOK'
    <3>1. \A f \in Executor : try'[f] <= tries' /\ (try'[f] = 0 => todo'[f] = <<>>)
      BY <1>11, <2>1 DEF ControlOK, Others, Types
    <3>2. \A f \in Executor : Calling(f)' => snap'[f].current \in Node /\ snap'[f].steps \in 1..MaxSteps
      BY <2>1, <2>4 DEF ControlOK, Others, Calling
    <3>3. tries' # 0 /\ IsFiniteSet(calls')
      BY <2>1, <2>2 DEF ControlOK
    <3>. QED BY <2>1, <3>1, <3>2, <3>3 DEF ControlOK
  <2>. QED BY <2>3, <2>5
<1>13. ASSUME Crash PROVE Types' /\ ControlOK'
  <2>1. Types'
    BY <1>11, <1>13, CrashFacts DEF Types
  <2>2. \A e \in Executor : ~Calling(e)'
    BY <1>0, <1>13, CrashFacts DEF Calling
  <2>3. ControlOK'
    BY <1>11, <1>13, <2>2, CrashFacts DEF ControlOK
  <2>. QED BY <2>1, <2>3
<1>14. ASSUME UNCHANGED vars PROVE Types' /\ ControlOK'
  BY <1>14 DEF vars, backend, Types, ControlOK, Calling
<1>. QED
  BY <1>2, <1>3, <1>4, <1>5, <1>6, <1>7, <1>8, <1>9, <1>12, <1>13, <1>14, Zenon DEF Next

-----------------------------------------------------------------------------
(* Counting calls and events.                                              *)

LEMMA KnownNext ==
    ASSUME NEW H, NEW q \in Nat, NEW v, \A h \in H : h[1] \in Nat, Known(H, q)
    PROVE  Known(H \cup {<<q + 1, v>>}, q + 1)
BY DEF Known

LEMMA AheadNext ==
    ASSUME NEW H, NEW q \in Nat, NEW v, \A h \in H : h[1] \in Nat, Ahead(H, q), v.type = "resumed"
    PROVE  Known(H \cup {<<q + 1, v>>}, q + 1) /\ Ahead(H \cup {<<q + 1, v>>}, q)
BY DEF Known, Ahead

LEMMA KnownAhead == ASSUME NEW H, NEW q, Known(H, q) PROVE Ahead(H, q)
BY DEF Known, Ahead

\* A number that is given again is a resumption's.
LEMMA RepeatsNext ==
    ASSUME NEW H, NEW q \in Nat, NEW v, \A h \in H : h[1] \in Nat, Repeats(H),
           Known(H, q) \/ (Ahead(H, q) /\ v.type = "resumed")
    PROVE  Repeats(H \cup {<<q + 1, v>>})
<1>. DEFINE x == <<q + 1, v>>
<1>1. x[1] = q + 1 /\ x[2] = v
  OBVIOUS
<1>2. \A h \in H : h[1] = q + 1 => h[2].type = "resumed" /\ v.type = "resumed"
  BY DEF Known, Ahead
<1>. HIDE DEF x
<1>3. Repeats(H \cup {x})
  BY <1>1, <1>2 DEF Repeats
<1>. QED BY <1>3 DEF x

\* What is within the budgets is before the next visit.
LEMMA VisitBefore ==
    ASSUME NEW C, NEW steps \in Nat, NEW visits, NEW more, NEW current \in Node,
           \A c \in C : c.step \in Nat, IsFiniteSet(C),
           visits \in [Node -> Nat], Within(C, steps, visits),
           \A n \in Node : more[n] = visits[n] + (IF n = current THEN 1 ELSE 0)
    PROVE  Before(C, steps + 1, more, current)
<1>1. \A n \in Node : Cardinality(At(C, n)) \in Nat
  BY FS_Subset, FS_CardinalityType DEF At
<1>2. \A n \in Node : Cardinality(At(C, n)) + (IF n = current THEN 1 ELSE 0) <= more[n]
  BY <1>1 DEF Within
<1>3. \A c \in C : c.step < steps + 1
  BY DEF Within
<1>. QED BY <1>2, <1>3 DEF Before

\* The call that follows it is within them, and the first of its step.
LEMMA CallWithin ==
    ASSUME NEW C, NEW steps \in Nat, NEW visits, NEW current \in Node, NEW c,
           \A d \in C : d.step \in Nat, IsFiniteSet(C), visits \in [Node -> 0..MaxVisits],
           Before(C, steps, visits, current), Once(C), c.step = steps, c.node = current
    PROVE  Within(C \cup {c}, steps, visits) /\ Once(C \cup {c})
<1>. DEFINE D == C \cup {c}
<1>1. \A n \in Node : IsFiniteSet(At(C, n)) /\ Cardinality(At(C, n)) \in Nat
  BY FS_Subset, FS_CardinalityType DEF At
<1>2. \A d \in C : d.step < steps
  BY DEF Before
<1>3. ASSUME NEW n \in Node PROVE Cardinality(At(D, n)) <= visits[n] /\ visits[n] <= MaxVisits
  <2>1. MaxVisits \in Nat /\ visits[n] \in 0..MaxVisits
    BY GraphAssumption
  <2>2. CASE n = current
    <3>1. At(D, n) = At(C, n) \cup {c}
      BY <2>2 DEF At
    <3>2. c \notin At(C, n)
      BY <1>2 DEF At
    <3>3. Cardinality(At(D, n)) = Cardinality(At(C, n)) + 1
      BY <1>1, <3>1, <3>2, FS_AddElement
    <3>. QED BY <1>1, <2>1, <2>2, <3>3 DEF Before
  <2>3. CASE n # current
    <3>1. At(D, n) = At(C, n)
      BY <2>3 DEF At
    <3>. QED BY <1>1, <2>1, <2>3, <3>1 DEF Before
  <2>. QED BY <2>2, <2>3
<1>4. Within(D, steps, visits)
  BY <1>2, <1>3 DEF Within
<1>5. \A a, b \in D : a.step = b.step => a = b
  BY <1>2 DEF Once
<1>6. \A n \in Node : Cardinality(At(D, n)) <= MaxVisits
  <2>1. \A n \in Node : Cardinality(At(D, n)) \in Nat /\ visits[n] \in Nat /\ MaxVisits \in Nat
    <3>1. IsFiniteSet(D)
      BY FS_AddElement
    <3>. HIDE DEF D
    <3>2. \A n \in Node : IsFiniteSet(At(D, n))
      BY <3>1, FS_Subset DEF At
    <3>. QED BY <3>2, FS_CardinalityType, GraphAssumption
  <2>. QED BY <1>3, <2>1
<1>. QED BY <1>4, <1>5, <1>6 DEF Once

-----------------------------------------------------------------------------
(* Executions that do not overlap.                                         *)

\* The types that counting needs.
LEMMA Numbers ==
    ASSUME Types, ControlOK
    PROVE  /\ \A h \in history : h[1] \in Nat
           /\ IsFiniteSet(calls) /\ \A c \in calls : c.step \in Nat
           /\ \A e \in Executor : /\ snap[e] \in Snapshot /\ snap[e].event_sequence \in Nat
                                  /\ snap[e].steps \in Nat
                                  /\ snap[e].visits \in [Node -> 0..MaxVisits]
                                  /\ snap[e].visits \in [Node -> Nat]
<1>1. \A e \in Executor : snap[e] \in Snapshot
  BY DEF Types
<1>2. MaxSteps \in Nat /\ MaxVisits \in Nat
  BY GraphAssumption
<1>3. \A c \in calls : c.step \in Nat
  BY <1>2 DEF Types
<1>4. \A e \in Executor : /\ snap[e].event_sequence \in Nat /\ snap[e].steps \in Nat
                          /\ snap[e].visits \in [Node -> 0..MaxVisits]
                          /\ snap[e].visits \in [Node -> Nat]
  BY <1>1, <1>2 DEF Snapshot
<1>. QED BY <1>1, <1>3, <1>4 DEF Types, ControlOK

\* What an execution has to do tells how far its visit and its resumption are.
LEMMA Phases ==
    /\ ~(<<>> \in {<<"node_started", "node">>, <<"node">>}) /\ <<>> # <<"resumed", "save">>
    /\ <<>> # <<"save">>
    /\ <<"save">> \notin {<<"node_started", "node">>, <<"node">>} /\ <<"save">> # <<"resumed", "save">>
    /\ <<"run_started", "save">> \notin {<<"node_started", "node">>, <<"node">>, <<"resumed", "save">>}
    /\ <<"resumed", "save">> \notin {<<"node_started", "node">>, <<"node">>}
    /\ <<"node_started", "node">> # <<"resumed", "save">>
    /\ <<"run_completed", "save">> \notin {<<"node_started", "node">>, <<"node">>, <<"resumed", "save">>}
    /\ <<"node">> # <<"resumed", "save">> /\ <<"node">> # <<"save">>
    /\ \A x \in {<<"node_completed", "route">>, <<"node_completed", "route, pause">>, <<"route">>,
                 <<"route, pause">>, <<"edge_selected", "interrupted", "save">>,
                 <<"edge_selected", "save">>} :
          x \notin {<<"node_started", "node">>, <<"node">>, <<"resumed", "save">>, <<"save">>}
<1>1. /\ Head(<<"save">>) = "save" /\ Head(<<"node">>) = "node" /\ Head(<<"route">>) = "route"
      /\ Head(<<"route, pause">>) = "route, pause" /\ Head(<<"run_started", "save">>) = "run_started"
      /\ Head(<<"resumed", "save">>) = "resumed" /\ Head(<<"node_started", "node">>) = "node_started"
      /\ Head(<<"node_completed", "route">>) = "node_completed"
      /\ Head(<<"node_completed", "route, pause">>) = "node_completed"
      /\ Head(<<"edge_selected", "interrupted", "save">>) = "edge_selected"
      /\ Head(<<"edge_selected", "save">>) = "edge_selected"
      /\ Head(<<"run_completed", "save">>) = "run_completed"
  OBVIOUS
<1>2. /\ Len(<<>>) = 0 /\ Len(<<"save">>) = 1 /\ Len(<<"node">>) = 1
      /\ Len(<<"node_started", "node">>) = 2 /\ Len(<<"resumed", "save">>) = 2
  OBVIOUS
<1>. QED BY <1>1, <1>2

\* A step of an execution that is under way, alone: what has to be shown of it.
LEMMA StepAlone ==
    ASSUME Types, ControlOK, Exclusive, NEW e \in Executor, ~Idle(e), Others(e),
           try'[e] \in {try[e], 0}, history' = history, calls' = calls,
           checkpoint' \in {checkpoint, Missing},
           try'[e] = try[e] =>
              /\ IF Calling(e)' THEN Before(calls, snap'[e].steps, snap'[e].visits, snap'[e].current)
                                ELSE Within(calls, snap'[e].steps, snap'[e].visits)
              /\ ~Resuming(e)' /\ Known(history, snap'[e].event_sequence)
              /\ checkpoint.status # "paused"
    PROVE  Exclusive'
<1>1. \A f \in Executor \ {e} : Idle(f) /\ Idle(f)'
  BY DEF Exclusive, Alone, Others, Idle
<1>2. Missing.status = "missing"
  BY FreshIsSnapshot
<1>3. Alone'
  BY <1>1 DEF Alone
<1>4. PausedOK'
  BY <1>2 DEF Exclusive, PausedOK
<1>5. RunningOK'
  BY <1>1 DEF RunningOK, Idle
<1>6. ResumedOK'
  BY <1>1, <1>2 DEF ResumedOK, Idle
<1>. QED BY <1>3, <1>4, <1>5, <1>6 DEF Exclusive

LEMMA StepExclusive ==
    ASSUME Types, ControlOK, exclusive => Exclusive, [Next]_vars, exclusive'
    PROVE  Exclusive'
<1>1. ASSUME NEW e \in Executor, Run(e) PROVE Exclusive'
  <2>1. Begin(e, Fresh, <<"run_started", "save">>) /\ exclusive /\ tries = 0
    BY <1>1 DEF Run
  <2>2. Fresh \in Snapshot /\ <<"run_started", "save">> \in Shapes
    BY FreshIsSnapshot DEF Shapes
  <2>3. /\ try'[e] = tries + 1 /\ snap'[e] = Fresh /\ todo'[e] = <<"run_started", "save">>
        /\ Others(e) /\ history' = history /\ checkpoint' = checkpoint /\ calls' = calls
    BY <2>1, <2>2, BeginFacts
  <2>4. checkpoint = Missing /\ history = {} /\ calls = {} /\ Exclusive
    BY <2>1 DEF ControlOK
  <2>5. \A f \in Executor \ {e} : Idle(f)'
    BY <2>1, <2>3, GraphAssumption DEF ControlOK, Others, Idle, Types
  <2>6. ~Calling(e)' /\ ~Resuming(e)'
    BY <2>3, Phases DEF Calling, Resuming
  <2>7. Within({}, Fresh.steps, Fresh.visits) /\ Known({}, Fresh.event_sequence)
    <3>1. \A n \in Node : Cardinality(At({}, n)) = 0
      <4>1. \A n \in Node : At({}, n) = {}
        BY DEF At
      <4>. QED BY <4>1, FS_EmptySet
    <3>. QED BY <3>1, FreshIsSnapshot DEF Within, Known
  <2>8. Alone'
    BY <2>5 DEF Alone
  <2>9. PausedOK' /\ ResumedOK'
    BY <2>3, <2>4, FreshIsSnapshot DEF PausedOK, ResumedOK
  <2>10. RunningOK'
    BY <2>3, <2>4, <2>5, <2>6, <2>7 DEF RunningOK
  <2>. QED BY <2>3, <2>4, <2>8, <2>9, <2>10 DEF Exclusive
<1>2. ASSUME NEW e \in Executor, Resume(e) PROVE Exclusive'
  <2>. DEFINE k == [checkpoint EXCEPT !.status = "running"]
  <2>1. /\ Begin(e, k, <<"resumed", "save">>) /\ exclusive
        /\ checkpoint.status = "paused" /\ \A f \in Executor : Idle(f)
    BY <1>2 DEF Resume
  <2>2. /\ k \in Snapshot /\ k.status = "running" /\ k.steps = checkpoint.steps
        /\ k.visits = checkpoint.visits /\ k.event_sequence = checkpoint.event_sequence
    BY Marked DEF Types
  <2>3. <<"resumed", "save">> \in Shapes
    BY DEF Shapes
  <2>. HIDE DEF k
  <2>4. /\ snap'[e] = k /\ todo'[e] = <<"resumed", "save">>
        /\ Others(e) /\ history' = history /\ checkpoint' = checkpoint /\ calls' = calls
    BY <2>1, <2>2, <2>3, BeginFacts
  <2>5. \A f \in Executor \ {e} : Idle(f)'
    BY <2>1, <2>4 DEF Others, Idle
  <2>6. ~Calling(e)' /\ Resuming(e)'
    BY <2>4, Phases DEF Calling, Resuming
  <2>7. Exclusive /\ Within(calls, k.steps, k.visits) /\ Ahead(history, k.event_sequence)
    BY <2>1, <2>2 DEF Exclusive, PausedOK
  <2>8. Alone'
    BY <2>5 DEF Alone
  <2>9. PausedOK'
    BY <2>4, <2>7 DEF Exclusive, PausedOK
  <2>10. RunningOK'
    BY <2>4, <2>5, <2>6, <2>7 DEF RunningOK
  <2>11. ResumedOK'
    BY <2>2, <2>4, <2>5, <2>6 DEF ResumedOK
  <2>. QED BY <2>4, <2>7, <2>8, <2>9, <2>10, <2>11 DEF Exclusive
<1>3. ASSUME NEW e \in Executor, Emit(e) PROVE Exclusive'
  <2>. DEFINE q == snap[e].event_sequence
  <2>1. /\ ~Idle(e) /\ todo[e] # <<>> /\ Head(todo[e]) \in EventType
        /\ todo'[e] = Tail(todo[e]) /\ Others(e)
        /\ snap'[e].status = snap[e].status /\ snap'[e].current = snap[e].current
        /\ snap'[e].steps = snap[e].steps /\ snap'[e].visits = snap[e].visits
        /\ snap'[e].event_sequence = q + 1
        /\ UNCHANGED <<checkpoint, try, tries, calls, exclusive>>
    BY <1>3, EmitFacts
  <2>2. PICK event \in Event : event.type = Head(todo[e]) /\ history' = history \cup {<<q + 1, event>>}
    BY <1>3, EmitFacts, Zenon
  <2>3. Exclusive /\ todo[e] \in Shapes
    BY <2>1 DEF ControlOK
  <2>4. /\ Resuming(e) => event.type = "resumed" /\ todo'[e] = <<"save">>
        /\ ~Resuming(e)' /\ todo[e] # <<"save">>
        /\ Calling(e)' <=> Calling(e)
    <3>1. Head(<<"resumed", "save">>) = "resumed" /\ Head(<<"save">>) = "save" /\ Head(<<"node">>) = "node"
      OBVIOUS
    <3>2. /\ Tail(todo[e]) # <<"resumed", "save">> /\ Tail(todo[e]) # <<"node_started", "node">>
          /\ Tail(todo[e]) = <<"node">> <=> todo[e] = <<"node_started", "node">>
          /\ Head(todo[e]) = "resumed" => Tail(todo[e]) = <<"save">>
      BY <2>1, <2>3, Tails
    <3>3. todo[e] # <<"save">> /\ todo[e] # <<"node">>
      BY <2>1, <3>1 DEF EventType
    <3>4. Resuming(e) => event.type = "resumed" /\ todo'[e] = <<"save">>
      BY <2>1, <2>2, <3>1, <3>2 DEF Resuming
    <3>5. ~Resuming(e)'
      BY <2>1, <3>2 DEF Resuming
    <3>6. Calling(e)' <=> Calling(e)
      BY <2>1, <3>2, <3>3 DEF Calling
    <3>. QED BY <3>3, <3>4, <3>5, <3>6
  <2>5. \A f \in Executor \ {e} : Idle(f) /\ Idle(f)'
    BY <2>1, <2>3 DEF Exclusive, Alone, Others, Idle
  <2>6. q \in Nat /\ \A h \in history : h[1] \in Nat
    BY Numbers
  <2>7. IF Resuming(e) THEN Ahead(history, q) ELSE Known(history, q)
    BY <2>1, <2>3 DEF Exclusive, RunningOK
  <2>. HIDE DEF q
  <2>8. Known(history', q + 1)
    BY <2>2, <2>4, <2>6, <2>7, KnownNext, AheadNext
  <2>9. Repeats(history')
    BY <2>2, <2>3, <2>4, <2>6, <2>7, RepeatsNext DEF Exclusive
  <2>10. checkpoint.status = "paused" =>
            /\ Resuming(e) /\ q = checkpoint.event_sequence
            /\ snap[e].status = "running"
            /\ snap[e].steps = checkpoint.steps /\ snap[e].visits = checkpoint.visits
    BY <2>1, <2>3, <2>4 DEF Exclusive, ResumedOK, q
  <2>11. PausedOK'
    <3>1. checkpoint.status = "paused" => Ahead(history', checkpoint.event_sequence)
      BY <2>2, <2>4, <2>6, <2>7, <2>10, AheadNext
    <3>. QED BY <2>1, <2>3, <3>1 DEF Exclusive, PausedOK
  <2>12. RunningOK'
    <3>1. IF Calling(e) THEN Before(calls, snap[e].steps, snap[e].visits, snap[e].current)
                        ELSE Within(calls, snap[e].steps, snap[e].visits)
      BY <2>1, <2>3 DEF Exclusive, RunningOK
    <3>. QED BY <2>1, <2>4, <2>5, <2>8, <3>1 DEF RunningOK
  <2>13. ResumedOK'
    BY <2>1, <2>4, <2>5, <2>10 DEF ResumedOK
  <2>14. Alone'
    BY <2>5 DEF Alone
  <2>. QED BY <2>1, <2>3, <2>9, <2>11, <2>12, <2>13, <2>14 DEF Exclusive
<1>4. ASSUME NEW e \in Executor, Save(e) PROVE Exclusive'
  <2>1. /\ ~Idle(e) /\ todo[e] = <<"save">> /\ checkpoint' = snap[e]
        /\ todo'[e] = <<>> /\ Others(e)
        /\ \/ snap[e].status = "running" /\ try'[e] = try[e] /\ snap'[e] = snap[e]
           \/ snap[e].status # "running" /\ try'[e] = 0
        /\ UNCHANGED <<history, tries, calls, exclusive>>
    BY <1>4, SaveFacts
  <2>2. Exclusive
    BY <2>1
  <2>3. /\ Within(calls, snap[e].steps, snap[e].visits) /\ Known(history, snap[e].event_sequence)
        /\ Ahead(history, snap[e].event_sequence)
    <3>1. ~Calling(e) /\ ~Resuming(e)
      BY <2>1, Phases DEF Calling, Resuming
    <3>2. Within(calls, snap[e].steps, snap[e].visits) /\ Known(history, snap[e].event_sequence)
      BY <2>1, <2>2, <3>1 DEF Exclusive, RunningOK
    <3>. QED BY <3>2, KnownAhead
  <2>4. \A f \in Executor \ {e} : Idle(f)'
    BY <2>1, <2>2 DEF Exclusive, Alone, Others, Idle
  <2>5. ~Calling(e)' /\ ~Resuming(e)'
    BY <2>1, Phases DEF Calling, Resuming
  <2>6. Alone'
    BY <2>4 DEF Alone
  <2>7. PausedOK'
    BY <2>1, <2>3 DEF PausedOK
  <2>8. RunningOK'
    BY <2>1, <2>3, <2>4, <2>5 DEF RunningOK, Idle
  <2>9. ResumedOK'
    BY <2>1, <2>4 DEF ResumedOK, Idle
  <2>. QED BY <2>1, <2>2, <2>6, <2>7, <2>8, <2>9 DEF Exclusive
<1>5. ASSUME NEW e \in Executor, Visit(e) PROVE Exclusive'
  <2>1. /\ ~Idle(e) /\ todo[e] = <<>> /\ snap[e].current \in Node
        /\ todo'[e] = <<"node_started", "node">> /\ Others(e)
        /\ snap'[e].current = snap[e].current /\ snap'[e].steps = snap[e].steps + 1
        /\ \A n \in Node : snap'[e].visits[n] =
              snap[e].visits[n] + (IF n = snap[e].current THEN 1 ELSE 0)
        /\ snap'[e].event_sequence = snap[e].event_sequence
        /\ UNCHANGED <<history, checkpoint, try, tries, calls, exclusive>>
    BY <1>5, VisitFacts
  <2>2. Exclusive /\ ~Calling(e) /\ ~Resuming(e) /\ Calling(e)' /\ ~Resuming(e)'
    BY <2>1, Phases DEF Calling, Resuming
  <2>3. /\ Within(calls, snap[e].steps, snap[e].visits) /\ Known(history, snap[e].event_sequence)
        /\ checkpoint.status # "paused"
    BY <2>1, <2>2, Phases DEF Exclusive, RunningOK, ResumedOK, Resuming
  <2>4. Before(calls, snap'[e].steps, snap'[e].visits, snap'[e].current)
    BY <2>1, <2>3, Numbers, VisitBefore
  <2>. QED BY <2>1, <2>2, <2>3, <2>4, StepAlone
<1>6. ASSUME NEW e \in Executor, Finish(e) PROVE Exclusive'
  <2>1. /\ ~Idle(e) /\ todo[e] = <<>> /\ todo'[e] = <<"run_completed", "save">> /\ Others(e)
        /\ snap'[e].steps = snap[e].steps /\ snap'[e].visits = snap[e].visits
        /\ snap'[e].event_sequence = snap[e].event_sequence
        /\ UNCHANGED <<history, checkpoint, try, tries, calls, exclusive>>
    BY <1>6, FinishFacts
  <2>2. Exclusive /\ ~Calling(e) /\ ~Resuming(e) /\ ~Calling(e)' /\ ~Resuming(e)'
    BY <2>1, Phases DEF Calling, Resuming
  <2>3. /\ Within(calls, snap[e].steps, snap[e].visits) /\ Known(history, snap[e].event_sequence)
        /\ checkpoint.status # "paused"
    BY <2>1, <2>2, Phases DEF Exclusive, RunningOK, ResumedOK, Resuming
  <2>. QED BY <2>1, <2>2, <2>3, StepAlone
<1>7. ASSUME NEW e \in Executor, CallNode(e) PROVE Exclusive'
  <2>1. /\ ~Idle(e) /\ todo[e] = <<"node">> /\ snap[e].current \in Node /\ Others(e)
        /\ todo'[e] \in {<<"node_completed", "route">>, <<"node_completed", "route, pause">>}
        /\ UNCHANGED <<history, checkpoint, snap, try, tries, exclusive>>
    BY <1>7, CallFacts
  <2>2. PICK c : c.step = snap[e].steps /\ c.node = snap[e].current /\ calls' = calls \cup {c}
    BY <1>7, CallFacts, Zenon
  <2>3. Exclusive /\ Calling(e) /\ ~Resuming(e) /\ ~Calling(e)' /\ ~Resuming(e)'
    BY <2>1, Phases DEF Calling, Resuming
  <2>4. /\ Before(calls, snap[e].steps, snap[e].visits, snap[e].current)
        /\ Known(history, snap[e].event_sequence) /\ checkpoint.status # "paused"
    BY <2>1, <2>3, Phases DEF Exclusive, RunningOK, ResumedOK, Resuming
  <2>5. Within(calls', snap[e].steps, snap[e].visits) /\ Once(calls')
    BY <2>1, <2>2, <2>3, <2>4, Numbers, CallWithin DEF Exclusive
  <2>6. \A f \in Executor \ {e} : Idle(f)'
    BY <2>1, <2>3 DEF Exclusive, Alone, Others, Idle
  <2>7. RunningOK'
    BY <2>1, <2>3, <2>4, <2>5, <2>6 DEF RunningOK
  <2>8. Alone' /\ PausedOK' /\ ResumedOK'
    BY <2>1, <2>4, <2>6 DEF Alone, PausedOK, ResumedOK
  <2>. QED BY <2>1, <2>3, <2>5, <2>7, <2>8 DEF Exclusive
<1>8. ASSUME NEW e \in Executor, Route(e) PROVE Exclusive'
  <2>1. /\ ~Idle(e) /\ todo[e] \in {<<"route">>, <<"route, pause">>}
        /\ todo'[e] \in {<<"edge_selected", "interrupted", "save">>, <<"edge_selected", "save">>}
        /\ Others(e)
        /\ snap'[e].steps = snap[e].steps /\ snap'[e].visits = snap[e].visits
        /\ snap'[e].event_sequence = snap[e].event_sequence
        /\ UNCHANGED <<history, checkpoint, try, tries, calls, exclusive>>
    BY <1>8, RouteFacts
  <2>2. Exclusive /\ ~Calling(e) /\ ~Resuming(e) /\ ~Calling(e)' /\ ~Resuming(e)'
    BY <2>1, Phases DEF Calling, Resuming
  <2>3. /\ Within(calls, snap[e].steps, snap[e].visits) /\ Known(history, snap[e].event_sequence)
        /\ checkpoint.status # "paused"
    BY <2>1, <2>2, Phases DEF Exclusive, RunningOK, ResumedOK, Resuming
  <2>. QED BY <2>1, <2>2, <2>3, StepAlone
<1>9. ASSUME NEW e \in Executor, Fail(e) PROVE Exclusive'
  <2>1. /\ ~Idle(e) /\ try'[e] = 0 /\ Others(e) /\ checkpoint' \in {checkpoint, Missing}
        /\ UNCHANGED <<history, tries, calls, exclusive>>
    BY <1>9, FailFacts
  <2>2. Exclusive /\ try'[e] # try[e]
    BY <2>1 DEF Idle
  <2>. QED BY <2>1, <2>2, StepAlone
<1>10. ASSUME Crash PROVE Exclusive'
  <2>1. /\ \A e \in Executor : Idle(e)'
        /\ checkpoint' \in {checkpoint, Missing}
        /\ UNCHANGED <<history, tries, calls, exclusive>>
    BY <1>10, CrashFacts DEF Idle
  <2>2. Missing.status = "missing" /\ Exclusive
    BY <2>1, FreshIsSnapshot
  <2>. QED BY <2>1, <2>2 DEF Exclusive, Alone, PausedOK, RunningOK, ResumedOK
<1>11. ASSUME UNCHANGED vars PROVE Exclusive'
  BY <1>11 DEF vars, backend, Exclusive, Alone, PausedOK, RunningOK, ResumedOK, Calling, Resuming, Idle
<1>. QED
  BY <1>1, <1>2, <1>3, <1>4, <1>5, <1>6, <1>7, <1>8, <1>9, <1>10, <1>11, Zenon DEF Next

-----------------------------------------------------------------------------
LEMMA Initially == ASSUME Init PROVE IInv
<1>1. Fresh \in Snapshot /\ Missing \in Snapshot /\ Missing.status = "missing" /\ <<>> \in Shapes
  BY FreshIsSnapshot DEF Shapes
<1>2. MaxTries \in Nat
  BY GraphAssumption
<1>3. Types
  BY <1>1, <1>2 DEF Init, Types, Idle
<1>4. \A e \in Executor : ~Calling(e)
  BY Phases DEF Init, Calling
<1>5. ControlOK
  BY <1>1, <1>4, FS_EmptySet DEF Init, ControlOK
<1>6. Alone /\ PausedOK /\ RunningOK /\ ResumedOK
  BY <1>1 DEF Init, Alone, PausedOK, RunningOK, ResumedOK, Idle
<1>7. Repeats(history) /\ Once(calls)
  <2>1. \A n \in Node : At({}, n) = {}
    BY DEF At
  <2>2. \A n \in Node : Cardinality(At({}, n)) <= MaxVisits
    <3>1. MaxVisits \in Nat /\ Cardinality({}) = 0
      BY GraphAssumption, FS_EmptySet
    <3>. QED BY <2>1, <3>1
  <2>3. history = {} /\ calls = {}
    BY DEF Init
  <2>. QED BY <2>2, <2>3 DEF Repeats, Once
<1>. QED BY <1>3, <1>5, <1>6, <1>7 DEF IInv, Exclusive

LEMMA Invariance == Spec => []IInv
<1>1. IInv /\ [Next]_vars => IInv'
  BY StepTypes, StepExclusive DEF IInv
<1>. QED BY Initially, <1>1, PTL DEF Spec

\* The type invariant holds in every reachable state: an idle execution has nothing to do,
\* and no call is carried out by two.
THEOREM Typing == Spec => []TypeOK
<1>1. ASSUME IInv PROVE TypeOK
  <2>1. todo \in [Executor -> Seq(Work)]
    BY <1>1, ShapesAreWork DEF IInv, ControlOK
  <2>. QED BY <1>1, <2>1 DEF IInv, Types, ControlOK, TypeOK
<1>. QED BY Invariance, <1>1, PTL

\* A run whose executions did not overlap numbers its events as a sequence, but for
\* resumptions of one pause that failed before they saved the run as running
\* (emit_event/5, checkpoint_snapshot/3).
THEOREM Sequences == Spec => []OnlyResumesRepeat
<1>1. IInv => OnlyResumesRepeat
  BY DEF IInv, Exclusive, Repeats, OnlyResumesRepeat
<1>. QED BY Invariance, <1>1, PTL

\* It carries out no step twice and no node more often than its visits allow, across
\* pauses, failures, crashes and resumptions (graph_resume_guarded/6).
THEOREM StepsOnce == Spec => []StepsRunOnce
<1>1. ASSUME IInv PROVE StepsRunOnce
  <2>1. \A n \in Node : At(calls, n) = {c \in calls : c.node = n}
    BY DEF At
  <2>. QED BY <1>1, <2>1 DEF IInv, Exclusive, Once, StepsRunOnce
<1>. QED BY Invariance, <1>1, PTL
=============================================================================
