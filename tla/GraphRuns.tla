----------------------------- MODULE GraphRuns -----------------------------
(***************************************************************************)
(* One durable run of a compiled graph (rlm_graph.pl): the executions that *)
(* start and resume it, the nodes they call, and the events and checkpoint *)
(* they write to the run's backend.  An execution works on a snapshot of   *)
(* its own and takes nothing back from the backend once it has begun.  It  *)
(* may fail between any two steps (a cancellation, the time limit, a node, *)
(* a router, an event handler), and the process may crash.                 *)
(***************************************************************************)
EXTENDS Naturals, Sequences, FiniteSets

CONSTANTS
    Executor,     \* the threads that carry out graph_run_execute/4 and graph_resume_execute/6
    Node,
    First,        \* the target of the edge from start
    MaxSteps,
    MaxVisits,
    MaxTries      \* a bound on the number of calls of graph_run and graph_resume

ASSUME GraphAssumption ==
    /\ First \in Node
    /\ {MaxSteps, MaxVisits, MaxTries} \subseteq Nat \ {0}

VARIABLES
    history,      \* graph_event_record/3 of the run
    checkpoint,   \* graph_checkpoint_record/3 of the run
    snap,         \* the snapshot an execution works on
    todo,         \* what an execution does before its loop goes round again
    try,          \* which call an execution carries out, 0 when it is idle
    tries,        \* calls so far
    calls,        \* the calls of node handlers so far
    exclusive     \* the run was started once, and its executions did not overlap

backend == <<history, checkpoint>>
vars == <<history, checkpoint, snap, todo, try, tries, calls, exclusive>>

EventType == {"run_started", "resumed", "node_started", "node_completed",
              "edge_selected", "interrupted", "run_completed"}
Event == [type : EventType, step : 0..MaxSteps, try : 1..MaxTries]
\* What an execution does next: write an event or the checkpoint, call the node
\* or the router (the node wants to pause the run, or not).
Work == EventType \cup {"save", "node", "route", "route, pause"}

Snapshot == [status : {"missing", "running", "paused", "completed"}, current : Node \cup {"end"},
             steps : 0..MaxSteps, visits : [Node -> 0..MaxVisits], event_sequence : Nat]
Fresh == [status |-> "running", current |-> First, steps |-> 0,
          visits |-> [n \in Node |-> 0], event_sequence |-> 0]
Missing == [Fresh EXCEPT !.status = "missing"]

Idle(e) == try[e] = 0
Does(e, work) == ~Idle(e) /\ todo[e] # <<>> /\ Head(todo[e]) = work
Then(e, work) == todo' = [todo EXCEPT ![e] = work]
End(e) ==
    /\ try' = [try EXCEPT ![e] = 0]
    /\ todo' = [todo EXCEPT ![e] = <<>>]
    /\ snap' = [snap EXCEPT ![e] = Fresh]

\* A call of graph_run/4 or graph_resume/6 begins with snapshot s.
Begin(e, s, work) ==
    /\ Idle(e)
    /\ tries < MaxTries
    /\ tries' = tries + 1
    /\ try' = [try EXCEPT ![e] = tries + 1]
    /\ snap' = [snap EXCEPT ![e] = s]
    /\ Then(e, work)
    /\ UNCHANGED <<backend, calls>>

\* graph_run_guarded/4 and graph_start_execution/5, with the run_id of the run
Run(e) ==
    /\ Begin(e, Fresh, <<"run_started", "save">>)
    /\ exclusive' = (exclusive /\ tries = 0)

\* A mutant: the status of the checkpoint is not looked at.
ResumeAny(e) ==
    /\ checkpoint # Missing
    /\ Begin(e, [checkpoint EXCEPT !.status = "running"], <<"resumed", "save">>)
    /\ exclusive' = (exclusive /\ \A f \in Executor : Idle(f))

\* A mutant: the visits of the nodes are counted from the resume on.
ResumeAfresh(e) ==
    /\ checkpoint.status = "paused"
    /\ Begin(e, [checkpoint EXCEPT !.status = "running", !.visits = Fresh.visits],
             <<"resumed", "save">>)
    /\ exclusive' = (exclusive /\ \A f \in Executor : Idle(f))

\* graph_resume_guarded/6 and graph_resume_execution/6: the run was paused when its
\* checkpoint was read.
Resume(e) ==
    /\ checkpoint.status = "paused"
    /\ Begin(e, [checkpoint EXCEPT !.status = "running"], <<"resumed", "save">>)
    /\ exclusive' = (exclusive /\ \A f \in Executor : Idle(f))

\* emit_event/5
Emit(e) ==
    \E type \in EventType :
        /\ Does(e, type)
        /\ LET event == [type |-> type, step |-> snap[e].steps, try |-> try[e]] IN
           history' = history \cup {<<snap[e].event_sequence + 1, event>>}
        /\ snap' = [snap EXCEPT ![e].event_sequence = @ + 1]
        /\ Then(e, Tail(todo[e]))
        /\ UNCHANGED <<checkpoint, try, tries, calls, exclusive>>

\* checkpoint_snapshot/3; a run that is paused or completed returns its result.
Save(e) ==
    /\ Does(e, "save")
    /\ checkpoint' = snap[e]
    /\ IF snap[e].status = "running"
       THEN Then(e, Tail(todo[e])) /\ UNCHANGED <<try, snap>>
       ELSE End(e)
    /\ UNCHANGED <<history, tries, calls, exclusive>>

\* execute_loop/6 at a node
Visit(e) ==
    /\ ~Idle(e) /\ todo[e] = <<>> /\ snap[e].current # "end"
    /\ snap[e].steps < MaxSteps
    /\ snap[e].visits[snap[e].current] < MaxVisits
    /\ snap' = [snap EXCEPT ![e].steps = @ + 1, ![e].visits[snap[e].current] = @ + 1]
    /\ Then(e, <<"node_started", "node">>)
    /\ UNCHANGED <<backend, try, tries, calls, exclusive>>

\* execute_loop/6 at the end
Finish(e) ==
    /\ ~Idle(e) /\ todo[e] = <<>> /\ snap[e].current = "end"
    /\ snap' = [snap EXCEPT ![e].status = "completed"]
    /\ Then(e, <<"run_completed", "save">>)
    /\ UNCHANGED <<backend, try, tries, calls, exclusive>>

\* execute_node/7: the handler is called, and returns an update or an interrupt.
CallNode(e) ==
    /\ Does(e, "node")
    /\ calls' = calls \cup {[step |-> snap[e].steps, node |-> snap[e].current, try |-> try[e]]}
    /\ \E route \in {"route", "route, pause"} : Then(e, <<"node_completed", route>>)
    /\ UNCHANGED <<backend, snap, try, tries, exclusive>>

\* select_next/6 and after_route_selection/7
Route(e) ==
    \E pauses \in BOOLEAN, to \in Node \cup {"end"} :
        /\ Does(e, IF pauses THEN "route, pause" ELSE "route")
        /\ snap' = [snap EXCEPT ![e].current = to,
                                ![e].status = IF pauses THEN "paused" ELSE "running"]
        /\ Then(e, IF pauses THEN <<"edge_selected", "interrupted", "save">> ELSE <<"edge_selected", "save">>)
        /\ UNCHANGED <<backend, try, tries, calls, exclusive>>

\* The checkpoint when a write of it by one of S is cut off: graph_persist_put_checkpoint/3
\* retracts the old one and asserts the new one.
Torn(S) ==
    \/ UNCHANGED checkpoint
    \/ \E e \in S : Does(e, "save") /\ checkpoint' = Missing

\* graph_execution_exception/2
Fail(e) ==
    /\ ~Idle(e)
    /\ End(e)
    /\ Torn({e})
    /\ UNCHANGED <<history, tries, calls, exclusive>>

\* The process ends; the host attaches the file again.
Crash ==
    /\ \E e \in Executor : ~Idle(e)
    /\ try' = [e \in Executor |-> 0]
    /\ todo' = [e \in Executor |-> <<>>]
    /\ snap' = [e \in Executor |-> Fresh]
    /\ Torn(Executor)
    /\ UNCHANGED <<history, tries, calls, exclusive>>

Init ==
    /\ history = {} /\ checkpoint = Missing
    /\ snap = [e \in Executor |-> Fresh]
    /\ todo = [e \in Executor |-> <<>>]
    /\ try = [e \in Executor |-> 0]
    /\ tries = 0 /\ calls = {} /\ exclusive = TRUE

Next ==
    \/ \E e \in Executor :
          \/ Run(e) \/ Resume(e) \/ Emit(e) \/ Save(e) \/ Visit(e) \/ Finish(e)
          \/ CallNode(e) \/ Route(e) \/ Fail(e)
    \/ Crash

Spec == Init /\ [][Next]_vars

-----------------------------------------------------------------------------
TypeOK ==
    /\ \A h \in history : h[1] \in Nat \ {0} /\ h[2] \in Event
    /\ checkpoint \in Snapshot
    /\ snap \in [Executor -> Snapshot]
    /\ todo \in [Executor -> Seq(Work)]
    /\ try \in [Executor -> 0..MaxTries] /\ tries \in 0..MaxTries
    /\ calls \subseteq [step : 1..MaxSteps, node : Node, try : 1..MaxTries]
    /\ exclusive \in BOOLEAN
    \* a call is carried out by one execution, which has something to do
    /\ \A e, f \in Executor : try[e] = try[f] => e = f \/ Idle(e)
    /\ \A e \in Executor : Idle(e) => todo[e] = <<>>

\* Two different events of a run that share a sequence number are both resumptions: the
\* events of no other step are numbered again after a failure or a crash.
OnlyResumesRepeat ==
    exclusive =>
        \A h, k \in history : h[1] = k[1] /\ h # k => h[2].type = "resumed" /\ k[2].type = "resumed"

\* No step of a run is carried out twice, across pauses, failed resumptions, crashes
\* and restarts, and no node more often than the visit budget allows.
StepsRunOnce ==
    exclusive =>
        /\ \A c, d \in calls : c.step = d.step => c = d
        /\ \A n \in Node : Cardinality({c \in calls : c.node = n}) <= MaxVisits

\* "Only paused runs can be resumed": docs/graph-runtime.md:268.
OnlyPausedIsResumed ==
    [][\A e \in Executor : Does(e, "resumed") /\ Emit(e) =>
         checkpoint.status = "paused"]_vars
=============================================================================
