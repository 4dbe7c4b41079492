------------------------- MODULE CancellationTokens -------------------------
(***************************************************************************)
(* Cancellation tokens: rlm_cancel/1 of prolog/rlm_completion.pl and       *)
(* prolog/rlm_direct.pl, graph_cancel/1 of prolog/rlm_graph.pl and         *)
(* plan_graph_cancel/1 of prolog/rlm_plan_graph.pl.  An execution          *)
(* registers the thread it runs on under its token; cancelling marks the   *)
(* token, looks up the registered threads, and then signals each of them   *)
(* an exception, outside the mutex.                                        *)
(*                                                                         *)
(* The threads are workers of the rlm_async pool, which carry out one task *)
(* after the other.  The three runtimes differ in how registrations are    *)
(* kept; Kind says which one a token belongs to.                           *)
(***************************************************************************)
EXTENDS Naturals, Sequences, FiniteSets

CONSTANTS
    Worker,         \* pool threads
    Client,         \* threads that cancel
    Token,          \* tokens supplied by callers (cancel_token, cancellation_token)
    Task,           \* executions submitted to the pool
    Kind,           \* how registrations are kept under a token, see Keeping
    Shared,         \* tokens that several tasks may have
    Nesting,        \* tokens whose executions have nested ones
    MaxDepth,       \* bound on executions nested on one thread
    MaxCancels      \* bound on the calls of the cancel predicate

\* Once per thread (completion, direct), counted (graph), one thread only (plan graph).
Keeping == {"thread", "counted", "single"}

ASSUME KindAssumption == Kind \in [Token -> Keeping]
ASSUME BoundsAssumption == MaxDepth \in Nat \ {0} /\ MaxCancels \in Nat
ASSUME SomeAssumption == Token # {} /\ Task # {}
ASSUME SharedAssumption == Shared \subseteq Token
ASSUME NestingAssumption == Nesting \subseteq {t \in Token : Kind[t] # "single"}

VARIABLES
    cancelled,  \* tokens in state `cancelled'
    registered, \* how often each thread is registered under each token
    cancels,    \* calls of the cancel predicate so far
    sending,    \* the token each client cancels, and the signals it has to send
    signals,    \* signals thrown at each worker it has not come to
    task,       \* state of each task's Future
    token,      \* token of each task
    pc,         \* where each worker is in the pool's loop
    job,        \* the task it is at
    frames      \* the executions it is in, innermost last

tokens == <<cancelled, registered, cancels, sending>>
pool == <<task, token, pc, job, frames>>
vars == <<tokens, signals, pool>>

\* How far an execution is: in Setup, where signals wait, before its first
\* check, at work (it may block there), or back from a nested one that failed.
Phase == {"setup", "entered", "working", "failing"}
Frame == [token : Token, phase : Phase]

Nothing == [u \in Worker |-> 0]
Free(c) == \A w \in Worker : sending[c].left[w] = 0
Top(w) == frames[w][Len(frames[w])]
Inside(w, t) == \E i \in DOMAIN frames[w] : frames[w][i].token = t
Push(w, f) == frames' = [frames EXCEPT ![w] = Append(@, f)]
Turn(w, p) == frames' = [frames EXCEPT ![w][Len(frames[w])].phase = p]
GoTo(w, p) == pc' = [pc EXCEPT ![w] = p]

-----------------------------------------------------------------------------
(* Registrations.                                                          *)

\* register_current_thread/1, register_graph_thread/1, register_worker/1
Register(w, t) ==
    registered' = [registered EXCEPT ![t] =
        CASE Kind[t] = "thread"  -> [@ EXCEPT ![w] = 1]
          [] Kind[t] = "counted" -> [@ EXCEPT ![w] = registered[t][w] + 1]
          [] Kind[t] = "single"  -> [Nothing EXCEPT ![w] = 1]]

\* A mutant: a nested execution unregisters its parent's thread.
UnregisterAll(w, t) == registered' = [registered EXCEPT ![t][w] = 0]

\* cleanup_cancellation/2, unregister_graph_thread/1, unregister_worker/1
Unregister(w, t) ==
    registered' = [registered EXCEPT ![t] =
        CASE Kind[t] = "thread"  -> [@ EXCEPT ![w] = 0]
          [] Kind[t] = "counted" ->
                [@ EXCEPT ![w] = IF registered[t][w] > 0 THEN registered[t][w] - 1 ELSE 0]
          [] Kind[t] = "single"  -> Nothing]

\* rlm_cancel/1, graph_cancel/1, plan_graph_cancel/1: the locked section
Cancel(c, t) ==
    /\ Free(c) /\ cancels < MaxCancels
    /\ cancelled' = cancelled \cup {t}
    /\ cancels' = cancels + 1
    /\ sending' = [sending EXCEPT ![c] = [token |-> t, left |-> registered[t]]]
    /\ UNCHANGED <<registered, signals, pool>>

\* signal_cancelled/2: one thread_signal/2
Send(c, w) ==
    /\ sending[c].left[w] > 0
    /\ sending' = [sending EXCEPT ![c].left[w] = @ - 1]
    /\ signals' = [signals EXCEPT ![w][sending[c].token] = @ + 1]
    /\ UNCHANGED <<cancelled, registered, cancels, pool>>

-----------------------------------------------------------------------------
(* The pool, as far as it matters here: see AsyncFutures.                  *)

\* rlm_completion_async/4, graph_run_async/4, plan_graph_run_async/4
Submit(r, t) ==
    /\ task[r] = "none"
    /\ t \in Shared \/ \A s \in Task : task[s] # "none" => token[s] # t
    /\ task' = [task EXCEPT ![r] = "queued"]
    /\ token' = [token EXCEPT ![r] = t]
    /\ UNCHANGED <<tokens, signals, pc, job, frames>>

Dequeue(w, r) ==
    /\ pc[w] = "waiting" /\ task[r] = "queued"
    /\ task' = [task EXCEPT ![r] = "pending"]
    /\ job' = [job EXCEPT ![w] = r]
    /\ GoTo(w, "dequeued")
    /\ UNCHANGED <<tokens, signals, token, frames>>

\* async_claim_task/3 and the way into the goal
Claim(w) ==
    /\ pc[w] = "dequeued"
    /\ task' = [task EXCEPT ![job[w]] = "running"]
    /\ GoTo(w, "starting")
    /\ UNCHANGED <<tokens, signals, token, job, frames>>

\* async_store_completion/2 and back to the queue
Store(w) ==
    /\ pc[w] = "storing"
    /\ task' = [task EXCEPT ![job[w]] = "settled"]
    /\ GoTo(w, "waiting")
    /\ UNCHANGED <<tokens, signals, token, job, frames>>

-----------------------------------------------------------------------------
(* Executions.                                                             *)

\* The innermost execution of w is left, and the one around it, if any, goes on
\* in phase p.
Leave(w, p) ==
    LET outer == SubSeq(frames[w], 1, Len(frames[w]) - 1) IN
    IF outer = <<>>
    THEN /\ frames' = [frames EXCEPT ![w] = <<>>]
         /\ GoTo(w, "storing")
    ELSE /\ frames' = [frames EXCEPT ![w] = [outer EXCEPT ![Len(outer)].phase = p]]
         /\ UNCHANGED pc

\* Setup of an execution with token t: the thread is registered, signals wait.
Enter(w, t) ==
    /\ Register(w, t)
    /\ Push(w, [token |-> t, phase |-> "setup"])

\* rlm_completion_guarded/4, graph_run_guarded/4, plan_graph_execute_/5
Begin(w) ==
    /\ pc[w] = "starting"
    /\ Enter(w, token[job[w]])
    /\ GoTo(w, "goal")
    /\ UNCHANGED <<cancelled, cancels, sending, signals, task, token, job>>

\* An execution on the same thread with the same token: a typed-plan model step
\* (direct_model_step_/10), an inline subgraph (execute_node/7).
BeginNested(w) ==
    /\ pc[w] = "goal" /\ Top(w).phase = "working" /\ Len(frames[w]) < MaxDepth
    /\ Top(w).token \in Nesting
    /\ Enter(w, Top(w).token)
    /\ UNCHANGED <<cancelled, cancels, sending, signals, task, token, pc, job>>

\* The end of Setup.  register_current_thread/1 checks the token there: if it
\* throws, Cleanup is not run.
SetUp(w) ==
    /\ pc[w] = "goal" /\ Top(w).phase = "setup"
    /\ IF Kind[Top(w).token] = "thread" /\ Top(w).token \in cancelled
       THEN Leave(w, "failing")
       ELSE Turn(w, "entered") /\ UNCHANGED pc
    /\ UNCHANGED <<tokens, signals, task, token, job>>

\* A mutant: the thread is unregistered when the goal succeeds only.
EndUnclean(w, p) ==
    /\ IF p = "failing" THEN UNCHANGED registered ELSE Unregister(w, Top(w).token)
    /\ Leave(w, p)
    /\ UNCHANGED <<cancelled, cancels, sending, task, token, job>>

\* An exception, or the goal's end: Cleanup is run.
End(w, p) ==
    /\ Unregister(w, Top(w).token)
    /\ Leave(w, p)
    /\ UNCHANGED <<cancelled, cancels, sending, task, token, job>>

\* A mutant: an execution relies on the signal.
CheckNothing(w) ==
    /\ pc[w] = "goal" /\ Top(w).phase = "entered"
    /\ Turn(w, "working")
    /\ UNCHANGED <<tokens, signals, task, token, pc, job>>

\* check_cancelled/1, check_graph_cancelled/1, token_cancelled/1
Check(w) ==
    /\ pc[w] = "goal" /\ Top(w).phase = "entered"
    /\ UNCHANGED signals
    /\ IF Top(w).token \in cancelled
       THEN End(w, "failing")
       ELSE Turn(w, "working") /\ UNCHANGED <<tokens, task, token, pc, job>>

\* A step is done and the loop comes to its next check.  Between the steps of a
\* typed plan there is none: it is made when the plan has ended.
NextStep(w) ==
    /\ pc[w] = "goal" /\ Top(w).phase = "working" /\ Kind[Top(w).token] # "thread"
    /\ Turn(w, "entered")
    /\ UNCHANGED <<tokens, signals, task, token, pc, job>>

\* The execution ends; after a nested graph the loop's check comes first.
Finish(w) ==
    /\ pc[w] = "goal" /\ Top(w).phase = "working"
    /\ End(w, IF Kind[Top(w).token] = "thread" THEN "working" ELSE "entered")
    /\ UNCHANGED signals

\* A nested execution failed, and so does the one around it.
Fail(w) ==
    /\ pc[w] = "goal" /\ Top(w).phase = "failing"
    /\ End(w, "failing")
    /\ UNCHANGED signals

\* The exception of a signal for t is raised where w is.  An execution catches
\* it and ends; around it, the task's own catch makes it the outcome; and what
\* is raised outside that, the queue loop catches, which forgets the task.
Interrupt(w, t) ==
    /\ signals[w][t] > 0
    /\ frames[w] # <<>> => Top(w).phase # "setup"
    /\ signals' = [signals EXCEPT ![w][t] = @ - 1]
    /\ \/ pc[w] = "goal" /\ End(w, "failing")
       \/ /\ pc[w] # "goal"
          /\ \/ GoTo(w, "waiting")
             \/ pc[w] \in {"starting", "storing"} /\ GoTo(w, "storing")
          /\ UNCHANGED <<tokens, task, token, job, frames>>

-----------------------------------------------------------------------------
Init ==
    /\ cancelled = {}
    /\ registered = [t \in Token |-> Nothing]
    /\ cancels = 0
    /\ sending = [c \in Client |-> [token |-> CHOOSE t \in Token : TRUE, left |-> Nothing]]
    /\ signals = [w \in Worker |-> [t \in Token |-> 0]]
    /\ task = [r \in Task |-> "none"]
    /\ token = [r \in Task |-> CHOOSE t \in Token : TRUE]
    /\ pc = [w \in Worker |-> "waiting"]
    /\ job = [w \in Worker |-> CHOOSE r \in Task : TRUE]
    /\ frames = [w \in Worker |-> <<>>]

Loop(w) == Claim(w) \/ Begin(w) \/ SetUp(w) \/ Check(w) \/ Fail(w) \/ Store(w)
Handle(w) == \E t \in Token : Interrupt(w, t)

Next ==
    \/ \E r \in Task, t \in Token : Submit(r, t)
    \/ \E c \in Client, t \in Token : Cancel(c, t)
    \/ \E c \in Client, w \in Worker : Send(c, w)
    \/ \E w \in Worker : \/ \E r \in Task : Dequeue(w, r)
                         \/ Loop(w) \/ Handle(w)
                         \/ BeginNested(w) \/ NextStep(w) \/ Finish(w)

Spec == Init /\ [][Next]_vars

\* Threads run and handle their signals, and the pool serves its queue.  Nothing
\* is assumed of the work itself: a model call or a tool may block for ever.
Fairness ==
    /\ \A c \in Client, w \in Worker : WF_vars(Send(c, w))
    /\ \A w \in Worker : WF_vars(Loop(w)) /\ WF_vars(Handle(w))
    /\ \A r \in Task : WF_vars(\E w \in Worker : Dequeue(w, r))

\* ... or the work always comes to its end as well.
WorkEnds == \A w \in Worker : SF_vars(Finish(w))

FairSpec == Spec /\ Fairness
WorkingSpec == Spec /\ Fairness /\ WorkEnds

-----------------------------------------------------------------------------
(* Properties.                                                             *)

\* Types.  A worker runs executions in the goal of a task and nowhere else, and
\* a thread is registered no more often than executions can nest on it.
TypeOK ==
    /\ cancelled \subseteq Token
    /\ registered \in [Token -> [Worker -> 0 .. MaxDepth]]
    /\ cancels \in 0 .. MaxCancels
    /\ sending \in [Client -> [token : Token, left : [Worker -> 0 .. MaxDepth]]]
    /\ signals \in [Worker -> [Token -> Nat]]
    /\ task \in [Task -> {"none", "queued", "pending", "running", "settled"}]
    /\ token \in [Task -> Token]
    /\ pc \in [Worker -> {"waiting", "dequeued", "starting", "goal", "storing"}]
    /\ job \in [Worker -> Task]
    /\ frames \in [Worker -> Seq(Frame)]
    /\ \A w \in Worker : /\ Len(frames[w]) <= MaxDepth
                         /\ frames[w] # <<>> <=> pc[w] = "goal"

\* docs/completion-runtime.md:175, docs/graph-runtime.md:312: cancelling finds
\* every thread that is executing with the token, at whatever depth.
CancelFindsItsRuns ==
    [][\A c \in Client, t \in Token : Cancel(c, t) =>
          \A w \in Worker : Inside(w, t) => sending'[c].left[w] > 0]_vars

\* Of graphs and plan graphs, a thread is registered only while it executes with the
\* token: Cleanup takes back what Setup did, however the execution ends, so that a later
\* cancellation does not look for it there, and a count does not go wrong for the
\* executions around it.
RegistrationsEnd ==
    \A t \in Token, w \in Worker :
        Kind[t] # "thread" /\ registered[t][w] > 0 => Inside(w, t)

\* The same of completions, whose Setup may throw after it has registered.
CompletionsUnregister ==
    \A t \in Token, w \in Worker : registered[t][w] > 0 => Inside(w, t)

\* docs/graph-runtime.md:312: what a cancellation interrupts is an execution
\* with the cancelled token.
InterruptsItsOwnRun ==
    [][\A w \in Worker, t \in Token :
          Interrupt(w, t) /\ pc[w] = "goal" => Inside(w, t)]_vars

\* An execution whose token is cancelled ends, even if its work blocks.
CancelledRunsEnd ==
    \A w \in Worker, t \in Token :
        (Inside(w, t) /\ t \in cancelled) ~> ~Inside(w, t)

\* docs/completion-runtime.md:175: a predicate that is cancelled returns.
TasksSettle == \A r \in Task : (task[r] # "none") ~> (task[r] = "settled")
=============================================================================
