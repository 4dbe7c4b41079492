---------------------------- MODULE AsyncFutures ----------------------------
(***************************************************************************)
(* The generic Future runtime, prolog/rlm_async.pl: a fixed worker pool, a *)
(* bounded submission queue, and the dynamic facts that hold one Future    *)
(* each.  Every update of the facts is one critical section under the      *)
(* mutex rlm_async, hence one action here.  What a critical section leaves *)
(* for after the unlock (put a task on the queue, signal a worker, run     *)
(* callbacks, cancel children) is kept in todo, a stack of phases per      *)
(* thread, and each phase is taken one element at a time, so every other   *)
(* thread can run in between.                                              *)
(*                                                                         *)
(* Futures are numbered in gensym order and never reused.  Goals and       *)
(* callbacks are the host's: a goal may make any call of the library, may  *)
(* swallow the exception that cancels it, and returns some outcome.        *)
(***************************************************************************)
EXTENDS Naturals, Sequences, FiniteSets

CONSTANTS
    Worker,         \* the threads running async_worker_loop/1
    Client,         \* host threads that call the library
    GoalCaller,     \* the workers whose goals call the library themselves
    Awaiter,        \* the threads that call rlm_future_await/2,3
    Callback,       \* completion callbacks, each registered at most once
    MaxFutures,     \* bound on the Futures ever created
    Backlog         \* max_size of the submission queue

Future == 1..MaxFutures
Nobody == 0         \* no Future: the parent `none', no current Future
Thread == Worker \cup Client

ASSUME ThreadAssumption ==
    /\ Worker # {} /\ Worker \cap Client = {}
    /\ GoalCaller \subseteq Worker /\ Awaiter \subseteq Thread
    /\ Nobody \notin Thread
ASSUME BoundAssumption == MaxFutures \in Nat \ {0} /\ Backlog \in Nat \ {0}

Live == {"pending", "running"}
Terminal == {"completed", "cancelled"}
State == {"absent", "destroyed"} \cup Live \cup Terminal

\* What a settled Future delivers: what its goal made of it ("value" or
\* "error"), the backpressure error, or the cancellation error.
GoalOutcome == {"value", "error"}
Outcome == GoalOutcome \cup {"backpressure", "cancelled"}

VARIABLES
    created,    \* Futures created so far: the gensym counter
    state,      \* async_future_state/2; "destroyed" once its facts are gone
    outcome,    \* the argument of completed/1, "open" before; history once destroyed
    thread,     \* async_future_thread/2
    watchers,   \* async_future_callback/2
    conts,      \* async_future_continuation/3: the next Futures of a parent
    kids,       \* async_future_child/2
    queue,      \* the message queue of async_task/2
    pc,         \* where each worker is in async_worker_run/1
    held,       \* the Future of the message a worker is processing
    current,    \* async_current_future/1, thread local to the worker
    result,     \* the outcome a goal produced, before it is stored
    signals,    \* thread_signal/2 calls a worker has not processed yet
    todo,       \* what a thread has yet to do outside the mutex
    waiting,    \* the Future a thread awaits
    origin,     \* history: the call that created the Future
    parent,     \* history: the Future it was linked under when created
    registered, \* history: the Future a callback was handed to, Nobody before
    runs,       \* history: how often the goal of a Future was entered
    delivered,  \* history: what a callback has been called with
    lost        \* history: Futures and callbacks dropped by an unwinding

facts == <<created, state, outcome, thread, watchers, conts, kids>>
pool  == <<queue, pc, held, current, result, signals>>
ghost == <<origin, parent, runs, registered, delivered, lost>>
vars  == <<facts, pool, todo, waiting, ghost>>

-----------------------------------------------------------------------------
(* Phases of unlocked work.  frame is the Future whose cancellation the    *)
(* phase belongs to when that cancellation runs inside a catch/3 of the    *)
(* library, and Nobody when an exception leaves the library call.          *)

Phase == [op : {"enqueue", "signal", "notify", "cancel", "erase"},
          futs : SUBSET Future, cbs : SUBSET Callback,
          out : Outcome, wrk : Worker \cup {Nobody}, frame : Future \cup {Nobody}]

Blank == [op |-> "erase", futs |-> {}, cbs |-> {}, out |-> "error",
          wrk |-> Nobody, frame |-> Nobody]

Enqueue(fs) ==
    IF fs = {} THEN <<>> ELSE <<[Blank EXCEPT !.op = "enqueue", !.futs = fs]>>
Notify(cs, o, fr) ==
    IF cs = {} THEN <<>>
    ELSE <<[Blank EXCEPT !.op = "notify", !.cbs = cs, !.out = o, !.frame = fr]>>
Signal(f, w, fr) ==
    IF w = Nobody THEN <<>>
    ELSE <<[Blank EXCEPT !.op = "signal", !.futs = {f}, !.wrk = w, !.frame = fr]>>
CancelAll(fs, fr) ==
    IF fs = {} THEN <<>>
    ELSE <<[Blank EXCEPT !.op = "cancel", !.futs = fs, !.frame = fr]>>
Erase(f) == <<[Blank EXCEPT !.op = "erase", !.futs = {f}]>>

\* The stack once the Future f, or the callback c, of its first phase is done.
WithoutFuture(s, f) ==
    (IF s[1].futs = {f} THEN <<>> ELSE <<[s[1] EXCEPT !.futs = @ \ {f}]>>) \o Tail(s)
WithoutCallback(s, c) ==
    (IF s[1].cbs = {c} THEN <<>> ELSE <<[s[1] EXCEPT !.cbs = @ \ {c}]>>) \o Tail(s)

Doing(t, op) == todo[t] # <<>> /\ todo[t][1].op = op

\* A thread may start a library call: a client between calls, or a goal.
CanCall(t) ==
    /\ todo[t] = <<>> /\ waiting[t] = Nobody
    /\ t \in Client \/ (t \in GoalCaller /\ pc[t] = "goal")

CurrentParent(t) == IF t \in Worker THEN current[t] ELSE Nobody

-----------------------------------------------------------------------------
(* The transitions made under the mutex.                                   *)

\* create_future_locked/4 with link_parent_child/2; link is FALSE where the
\* caller retracts the link again in the same critical section.
Create(p, how, link) ==
    LET f == created + 1 IN
    /\ created < MaxFutures
    /\ created' = f
    /\ state' = [state EXCEPT ![f] = "pending"]
    /\ origin' = [origin EXCEPT ![f] = how]
    /\ parent' = [parent EXCEPT ![f] = p]
    /\ kids' = IF p # Nobody /\ link
               THEN [kids EXCEPT ![p] = @ \cup {f}] ELSE kids

\* What a settled Future no longer has.
DropHandlers(f) ==
    /\ watchers' = [watchers EXCEPT ![f] = {}]
    /\ kids' = [kids EXCEPT ![f] = {}]
    /\ conts' = [conts EXCEPT ![f] = {}]

\* Mutant: a completion that arrives after the cancellation wins.
MayCompleteCancelled(f) == state[f] \in Live \cup {"cancelled"}

\* A completion of a cancelled or destroyed Future is ignored.
MayComplete(f) == state[f] \in Live

\* Mutant: the continuations taken are not scheduled.
CallbacksOnly(f, o) == Notify(watchers[f], o, Nobody)

\* take_terminal_handlers_locked/3: what the completing thread has to run.
TerminalHandlers(f, o) == Notify(watchers[f], o, Nobody) \o Enqueue(conts[f])

\* completion_transition_locked/5
Complete(t, f, o, rest) ==
    /\ thread' = [thread EXCEPT ![f] = Nobody]
    /\ \/ /\ MayComplete(f)
          /\ state' = [state EXCEPT ![f] = "completed"]
          /\ outcome' = [outcome EXCEPT ![f] = o]
          /\ DropHandlers(f)
          /\ todo' = [todo EXCEPT ![t] = TerminalHandlers(f, o) \o rest]
       \/ /\ ~MayComplete(f)
          /\ todo' = [todo EXCEPT ![t] = rest]
          /\ UNCHANGED <<state, outcome, watchers, conts, kids>>

\* Mutant: the callbacks of a cancelled Future are dropped.
CancelWorkUnnotified(f, fr) == Signal(f, thread[f], fr) \o CancelAll(kids[f], fr)

\* Mutant: the children of a cancelled Future are left alone.
CancelWorkAlone(f, fr) ==
    Signal(f, thread[f], fr) \o Notify(watchers[f], "cancelled", fr)

\* What apply_cancel_transition/6 does after the unlock, in its order.
CancelWork(f, fr) ==
    Signal(f, thread[f], fr) \o Notify(watchers[f], "cancelled", fr)
    \o CancelAll(kids[f], fr)

\* future_cancel_transition/5 on a live Future.  The thread fact stays until
\* the worker is done with the Future.
CancelTransition(t, f, fr, rest) ==
    /\ state' = [state EXCEPT ![f] = "cancelled"]
    /\ outcome' = [outcome EXCEPT ![f] = "cancelled"]
    /\ DropHandlers(f)
    /\ todo' = [todo EXCEPT ![t] = CancelWork(f, fr) \o rest]

-----------------------------------------------------------------------------
(* Library calls.                                                          *)

\* rlm_async_submit/3 up to the enqueue.
Submit(t) ==
    /\ CanCall(t)
    /\ Create(CurrentParent(t), "task", TRUE)
    /\ todo' = [todo EXCEPT ![t] = Enqueue({created + 1})]
    /\ UNCHANGED <<outcome, thread, watchers, conts, pool, waiting,
                   runs, registered, delivered, lost>>

\* rlm_future_deferred/2: no task; its creator resolves it later.
Deferred(t) ==
    /\ CanCall(t)
    /\ Create(CurrentParent(t), "deferred", TRUE)
    /\ UNCHANGED <<outcome, thread, watchers, conts, pool, todo, waiting,
                   runs, registered, delivered, lost>>

\* rlm_future_resolve/2, called for Futures made by rlm_future_deferred/2.
Resolve(t, f, o) ==
    /\ CanCall(t) /\ origin[f] = "deferred" /\ state[f] \in Live
    /\ Complete(t, f, o, <<>>)
    /\ UNCHANGED <<created, pool, waiting, ghost>>

\* rlm_future_on_complete/2: registered on a live Future, else called at once.
OnComplete(t, f, c) ==
    /\ CanCall(t) /\ registered[c] = Nobody
    /\ registered' = [registered EXCEPT ![c] = f]
    /\ \/ /\ state[f] \in Live
          /\ watchers' = [watchers EXCEPT ![f] = @ \cup {c}]
          /\ UNCHANGED todo
       \/ /\ state[f] \in Terminal
          /\ todo' = [todo EXCEPT ![t] = Notify({c}, outcome[f], Nobody)]
          /\ UNCHANGED watchers
    /\ UNCHANGED <<created, state, outcome, thread, conts, kids, pool, waiting,
                   origin, parent, runs, delivered, lost>>

\* rlm_future_then/3: the next Future is a child of the one it continues.
Then(t, f) ==
    LET n == created + 1 IN
    /\ CanCall(t) /\ state[f] \in Live \cup Terminal
    /\ Create(f, "continuation", state[f] \in Live)
    /\ \/ /\ state[f] \in Live
          /\ conts' = [conts EXCEPT ![f] = @ \cup {n}]
          /\ UNCHANGED todo
       \/ /\ state[f] = "completed"
          /\ todo' = [todo EXCEPT ![t] = Enqueue({n})]
          /\ UNCHANGED conts
       \/ /\ state[f] = "cancelled"
          /\ todo' = [todo EXCEPT ![t] = CancelAll({n}, Nobody)]
          /\ UNCHANGED conts
    /\ UNCHANGED <<outcome, thread, watchers, pool, waiting, runs, registered, delivered, lost>>

\* rlm_future_cancel/2.  On a settled Future it only reports so.
Cancel(t, f) ==
    /\ CanCall(t) /\ state[f] \in Live
    /\ CancelTransition(t, f, Nobody, <<>>)
    /\ UNCHANGED <<created, thread, pool, waiting, ghost>>

\* rlm_future_destroy/1: cancel if the state it reads is live, then erase.
\* wait_for_task_release/2 gives up after its second, so it delays the erase
\* without ever being a guard of it.
Destroy(t, f) ==
    /\ CanCall(t) /\ state[f] \in Live \cup Terminal
    /\ todo' = [todo EXCEPT ![t] =
           (IF state[f] \in Live THEN CancelAll({f}, Nobody) ELSE <<>>) \o Erase(f)]
    /\ UNCHANGED <<facts, pool, waiting, ghost>>

\* rlm_future_await/2,3 begins, and the poll that ends it: settled, destroyed
\* (an existence error), or, with a finite timeout, out of time.
Await(t, f) ==
    /\ CanCall(t) /\ t \in Awaiter /\ state[f] # "absent"
    /\ waiting' = [waiting EXCEPT ![t] = f]
    /\ UNCHANGED <<facts, pool, todo, ghost>>

AwaitReturn(t) ==
    /\ waiting[t] # Nobody /\ state[waiting[t]] \notin Live
    /\ waiting' = [waiting EXCEPT ![t] = Nobody]
    /\ UNCHANGED <<facts, pool, todo, ghost>>

AwaitTimeout(t) ==
    /\ waiting[t] # Nobody /\ state[waiting[t]] \in Live
    /\ waiting' = [waiting EXCEPT ![t] = Nobody]
    /\ UNCHANGED <<facts, pool, todo, ghost>>

-----------------------------------------------------------------------------
(* What a thread does outside the mutex, one element of a phase at a time. *)

\* Mutant: one message more than max_size fits.
QueueFullOffByOne == Len(queue) > Backlog

QueueFull == Len(queue) >= Backlog

\* enqueue_future/3: the send has timeout(0), so a full queue fails at once ...
EnqueueTask(t, f) ==
    /\ Doing(t, "enqueue") /\ f \in todo[t][1].futs
    /\ ~QueueFull
    /\ queue' = Append(queue, f)
    /\ todo' = [todo EXCEPT ![t] = WithoutFuture(todo[t], f)]
    /\ UNCHANGED <<facts, pc, held, current, result, signals, waiting, ghost>>

\* ... and mark_backpressure/1 settles the Future, whose own handlers run first.
RejectTask(t, f) ==
    /\ Doing(t, "enqueue") /\ f \in todo[t][1].futs
    /\ QueueFull
    /\ Complete(t, f, "backpressure", WithoutFuture(todo[t], f))
    /\ UNCHANGED <<created, pool, waiting, ghost>>

\* signal_async_cancel/2
SignalWorker(t, f) ==
    /\ Doing(t, "signal") /\ f \in todo[t][1].futs
    /\ signals' = [signals EXCEPT ![todo[t][1].wrk] = @ \cup {f}]
    /\ todo' = [todo EXCEPT ![t] = Tail(@)]
    /\ UNCHANGED <<facts, queue, pc, held, current, result, waiting, ghost>>

\* run_completion_callbacks/2
RunCallback(t, c) ==
    /\ Doing(t, "notify") /\ c \in todo[t][1].cbs
    /\ delivered' = [delivered EXCEPT ![c] =
                        IF @ = "never" THEN todo[t][1].out ELSE "again"]
    /\ todo' = [todo EXCEPT ![t] = WithoutCallback(todo[t], c)]
    /\ UNCHANGED <<facts, pool, waiting, origin, parent, registered, runs, lost>>

\* f is the next Future of a cancel phase.  The code sorts the children by name,
\* which orders rlm_future_10 before rlm_future_9: any order here.
NextToCancel(t, f) == Doing(t, "cancel") /\ f \in todo[t][1].futs

\* cancel_children/1: each child in a catch/3 of its own, depth first.
CancelChild(t, f) ==
    /\ NextToCancel(t, f)
    /\ \/ /\ state[f] \in Live
          /\ CancelTransition(t, f, f, WithoutFuture(todo[t], f))
       \/ /\ state[f] \notin Live
          /\ todo' = [todo EXCEPT ![t] = WithoutFuture(todo[t], f)]
          /\ UNCHANGED <<state, outcome, watchers, conts, kids>>
    /\ UNCHANGED <<created, thread, pool, waiting, ghost>>

\* The last critical section of rlm_future_destroy/1.  Continuation facts that
\* name f as the next Future stay.
EraseFuture(t, f) ==
    /\ Doing(t, "erase") /\ f \in todo[t][1].futs
    /\ state' = [state EXCEPT ![f] = "destroyed"]
    /\ thread' = [thread EXCEPT ![f] = Nobody]
    /\ watchers' = [watchers EXCEPT ![f] = {}]
    /\ conts' = [conts EXCEPT ![f] = {}]
    /\ kids' = [p \in Future |-> IF p = f THEN {} ELSE kids[p] \ {f}]
    /\ lost' = IF state[f] \in Live THEN lost \cup watchers[f] \cup conts[f]
               ELSE lost
    /\ todo' = [todo EXCEPT ![t] = Tail(@)]
    /\ UNCHANGED <<created, outcome, pool, waiting,
                   origin, parent, registered, runs, delivered>>

-----------------------------------------------------------------------------
(* The workers: async_worker_run/1 and async_execute_task/2.               *)

Dequeue(w) ==
    /\ pc[w] = "idle" /\ todo[w] = <<>> /\ queue # <<>>
    /\ held' = [held EXCEPT ![w] = Head(queue)]
    /\ queue' = Tail(queue)
    /\ pc' = [pc EXCEPT ![w] = "dequeued"]
    /\ UNCHANGED <<facts, current, result, signals, todo, waiting, ghost>>

\* Mutant: a task whose parent has settled meanwhile is skipped.
ClaimableUnderParent(f) ==
    /\ state[f] = "pending"
    /\ IF parent[f] = Nobody THEN TRUE ELSE state[parent[f]] \in Live

\* async_claim_task/3: only a pending Future runs.
Claimable(f) == state[f] = "pending"

Claim(w) ==
    /\ pc[w] = "dequeued"
    /\ LET f == held[w] IN
       \/ /\ Claimable(f)
          /\ state' = [state EXCEPT ![f] = "running"]
          /\ thread' = [thread EXCEPT ![f] = w]
          /\ pc' = [pc EXCEPT ![w] = "claimed"]
          /\ UNCHANGED held
       \/ /\ ~Claimable(f)
          /\ pc' = [pc EXCEPT ![w] = "idle"]
          /\ held' = [held EXCEPT ![w] = Nobody]
          /\ UNCHANGED <<state, thread>>
    /\ UNCHANGED <<created, outcome, watchers, conts, kids, queue, current,
                   result, signals, todo, waiting, ghost>>

\* The setup of setup_call_cleanup/3.
Setup(w) ==
    /\ pc[w] = "claimed"
    /\ current' = [current EXCEPT ![w] = held[w]]
    /\ pc' = [pc EXCEPT ![w] = "entering"]
    /\ UNCHANGED <<facts, queue, held, result, signals, todo, waiting, ghost>>

\* The catch/3 around the goal is entered.
Enter(w) ==
    /\ pc[w] = "entering"
    /\ pc' = [pc EXCEPT ![w] = "goal"]
    /\ runs' = [runs EXCEPT ![held[w]] = @ + 1]
    /\ UNCHANGED <<facts, queue, held, current, result, signals, todo, waiting,
                   origin, parent, registered, delivered, lost>>

\* async_call_goal/2, or the exception the catch/3 turned into an outcome.
GoalReturn(w, o) ==
    /\ pc[w] = "goal" /\ todo[w] = <<>> /\ waiting[w] = Nobody
    /\ pc' = [pc EXCEPT ![w] = "leaving"]
    /\ result' = [result EXCEPT ![w] = o]
    /\ UNCHANGED <<facts, queue, held, current, signals, todo, waiting, ghost>>

\* The cleanup of setup_call_cleanup/3.
Cleanup(w) ==
    /\ pc[w] = "leaving"
    /\ current' = [current EXCEPT ![w] = Nobody]
    /\ pc' = [pc EXCEPT ![w] = "storing"]
    /\ UNCHANGED <<facts, queue, held, result, signals, todo, waiting, ghost>>

\* async_store_completion/2 by the worker itself.
Store(w) ==
    /\ pc[w] = "storing"
    /\ Complete(w, held[w], result[w], <<>>)
    /\ pc' = [pc EXCEPT ![w] = "idle"]
    /\ held' = [held EXCEPT ![w] = Nobody]
    /\ result' = [result EXCEPT ![w] = "error"]
    /\ UNCHANGED <<created, queue, current, signals, waiting, ghost>>

-----------------------------------------------------------------------------
(* Cancellation of running goals.  raise_cancel_if_current/1 runs in the   *)
(* worker at its next call port: it throws only when the Future is the     *)
(* current one.  Where the exception lands is what the actions below       *)
(* distinguish.                                                            *)

Consume(w, f) == signals' = [signals EXCEPT ![w] = @ \ {f}]

\* Mutant: whatever the worker runs now is hit.
RaisedAtWorker(w, f) == f \in signals[w] /\ current[w] # Nobody

Raised(w, f) == f \in signals[w] /\ current[w] = f

\* raise_cancel_if_current/1, second clause.
StaleSignal(w, f) ==
    /\ f \in signals[w] /\ current[w] # f
    /\ Consume(w, f)
    /\ UNCHANGED <<facts, queue, pc, held, current, result, todo, waiting, ghost>>

\* The goal, outside any library call or in an await: the catch/3 of
\* async_execute_task/2 makes it an outcome, or a catch/3 of the goal eats it.
CancelGoal(w, f) ==
    /\ Raised(w, f) /\ pc[w] = "goal" /\ todo[w] = <<>>
    /\ Consume(w, f)
    /\ waiting' = [waiting EXCEPT ![w] = Nobody]
    /\ pc' \in {pc, [pc EXCEPT ![w] = "leaving"]}
    /\ UNCHANGED <<facts, queue, held, current, result, todo, ghost>>

\* Inside the catch/3 around one callback or one child: that one is skipped,
\* or, in a callback already called, nothing is.
InterruptElement(w, f) ==
    /\ Raised(w, f) /\ pc[w] = "goal"
    /\ \/ /\ Doing(w, "notify")
          /\ \/ UNCHANGED <<todo, lost>>
             \/ \E c \in todo[w][1].cbs :
                   /\ todo' = [todo EXCEPT ![w] = WithoutCallback(todo[w], c)]
                   /\ lost' = lost \cup {c}
       \/ \E c \in Future :
             /\ NextToCancel(w, c)
             /\ todo' = [todo EXCEPT ![w] = WithoutFuture(todo[w], c)]
             /\ lost' = lost \cup {c}
    /\ Consume(w, f)
    /\ UNCHANGED <<facts, queue, pc, held, current, result, waiting,
                   origin, parent, registered, runs, delivered>>

\* The first n phases of s are those of the frame an exception leaves.
FrameEnds(s, n) ==
    /\ \A i \in 1..n : s[i].frame = s[1].frame
    /\ n < Len(s) => s[n + 1].frame # s[1].frame

\* Between those catches: what is left of the library call, or of the child
\* being cancelled, is dropped, and an exception that leaves the library call
\* reaches the goal.
Unwind(w, f) ==
    \E n \in DOMAIN todo[w] :
        LET s == todo[w] IN
        /\ Raised(w, f) /\ pc[w] = "goal"
        /\ FrameEnds(s, n)
        /\ Consume(w, f)
        /\ todo' = [todo EXCEPT ![w] = SubSeq(s, n + 1, Len(s))]
        /\ lost' = lost \cup UNION {s[i].futs \cup s[i].cbs : i \in 1..n}
        /\ pc' \in (IF s[1].frame = Nobody THEN {pc, [pc EXCEPT ![w] = "leaving"]}
                                           ELSE {pc})
        /\ UNCHANGED <<facts, queue, held, current, result, waiting,
                       origin, parent, registered, runs, delivered>>

\* Before or after that catch/3, under the cleanup only: async_worker_loop/1
\* catches it, then drops the claim.
EscapeGoal(w, f) ==
    /\ Raised(w, f) /\ pc[w] \in {"entering", "leaving"}
    /\ Consume(w, f)
    /\ current' = [current EXCEPT ![w] = Nobody]
    /\ result' = [result EXCEPT ![w] = "error"]
    /\ pc' = [pc EXCEPT ![w] = "recovering"]
    /\ UNCHANGED <<facts, queue, held, todo, waiting, ghost>>

\* Mutant: the claim is not dropped.
KeepClaim(w) == thread

\* release_cancelled_worker/1
DropClaim(w) == [thread EXCEPT ![held[w]] = IF @ = w THEN Nobody ELSE @]

ReleaseWorker(w) ==
    /\ pc[w] = "recovering"
    /\ thread' = DropClaim(w)
    /\ held' = [held EXCEPT ![w] = Nobody]
    /\ pc' = [pc EXCEPT ![w] = "idle"]
    /\ UNCHANGED <<created, state, outcome, watchers, conts, kids, queue, current,
                   result, signals, todo, waiting, ghost>>

-----------------------------------------------------------------------------
Init ==
    /\ created = 0
    /\ state = [f \in Future |-> "absent"]
    /\ outcome = [f \in Future |-> "open"]
    /\ thread = [f \in Future |-> Nobody]
    /\ watchers = [f \in Future |-> {}]
    /\ conts = [f \in Future |-> {}]
    /\ kids = [f \in Future |-> {}]
    /\ queue = <<>>
    /\ pc = [w \in Worker |-> "idle"]
    /\ held = [w \in Worker |-> Nobody]
    /\ current = [w \in Worker |-> Nobody]
    /\ result = [w \in Worker |-> "error"]
    /\ signals = [w \in Worker |-> {}]
    /\ todo = [t \in Thread |-> <<>>]
    /\ waiting = [t \in Thread |-> Nobody]
    /\ origin = [f \in Future |-> "none"]
    /\ parent = [f \in Future |-> Nobody]
    /\ registered = [c \in Callback |-> Nobody]
    /\ runs = [f \in Future |-> 0]
    /\ delivered = [c \in Callback |-> "never"]
    /\ lost = {}

Call(t) ==
    \/ Submit(t) \/ Deferred(t)
    \/ \E f \in Future :
          \/ Then(t, f) \/ Cancel(t, f) \/ Destroy(t, f) \/ Await(t, f)
          \/ \E o \in GoalOutcome : Resolve(t, f, o)
          \/ \E c \in Callback : OnComplete(t, f, c)

Unlocked(t) ==
    \/ \E f \in Future : \/ EnqueueTask(t, f) \/ RejectTask(t, f)
                         \/ SignalWorker(t, f) \/ CancelChild(t, f)
                         \/ EraseFuture(t, f)
    \/ \E c \in Callback : RunCallback(t, c)

WorkerStep(w) ==
    \/ Dequeue(w) \/ Claim(w) \/ Setup(w) \/ Enter(w) \/ Cleanup(w) \/ Store(w)
    \/ ReleaseWorker(w)

Interrupt(w) ==
    \E f \in Future : \/ StaleSignal(w, f) \/ CancelGoal(w, f) \/ Unwind(w, f)
                     \/ InterruptElement(w, f) \/ EscapeGoal(w, f)

Returns(w) == \E o \in GoalOutcome : GoalReturn(w, o)

Next ==
    \/ \E t \in Thread : \/ Call(t) \/ Unlocked(t)
                        \/ AwaitReturn(t) \/ AwaitTimeout(t)
    \/ \E w \in Worker : WorkerStep(w) \/ Returns(w) \/ Interrupt(w)

Spec == Init /\ [][Next]_vars

\* Threads are scheduled, a poll loop polls again, and goals terminate.
Fairness ==
    /\ \A t \in Thread : WF_vars(Unlocked(t)) /\ WF_vars(AwaitReturn(t))
    /\ \A w \in Worker : WF_vars(WorkerStep(w)) /\ SF_vars(Returns(w))

FairSpec == Spec /\ Fairness

-----------------------------------------------------------------------------
(* Properties.                                                             *)

\* Types: every fact, queue, stack and thread holds what the library puts there.
TypeOK ==
    /\ created \in 0..MaxFutures
    /\ state \in [Future -> State]
    /\ outcome \in [Future -> Outcome \cup {"open"}]
    /\ thread \in [Future -> Worker \cup {Nobody}]
    /\ watchers \in [Future -> SUBSET Callback]
    /\ conts \in [Future -> SUBSET Future]
    /\ kids \in [Future -> SUBSET Future]
    /\ queue \in Seq(Future) /\ Len(queue) <= Backlog
    /\ pc \in [Worker -> {"idle", "dequeued", "claimed", "entering", "goal",
                          "leaving", "storing", "recovering"}]
    /\ held \in [Worker -> Future \cup {Nobody}]
    /\ current \in [Worker -> Future \cup {Nobody}]
    /\ result \in [Worker -> GoalOutcome]
    /\ signals \in [Worker -> SUBSET Future]
    /\ todo \in [Thread -> Seq(Phase)]
    /\ waiting \in [Thread -> Future \cup {Nobody}]
    /\ origin \in [Future -> {"none", "task", "deferred", "continuation"}]
    /\ parent \in [Future -> Future \cup {Nobody}]
    /\ registered \in [Callback -> Future \cup {Nobody}]
    /\ runs \in [Future -> Nat]
    /\ delivered \in [Callback -> Outcome \cup {"never", "again"}]
    /\ lost \in SUBSET (Future \cup Callback)

InTodo(f, op) ==
    \E t \in Thread : \E i \in DOMAIN todo[t] :
        todo[t][i].op = op /\ f \in todo[t][i].futs

Owning == {"claimed", "entering", "goal", "leaving", "storing"}

\* A Future runs on exactly the worker its thread fact names, and the fact
\* outlives the Future's cancellation only while that worker still has it, so
\* a cancellation never signals a worker that has moved on (the claim, the
\* cancel and the two releases race).
ThreadFactIsWorker ==
    \A f \in Future :
        /\ state[f] = "running" => thread[f] # Nobody
        /\ thread[f] # Nobody =>
             /\ state[f] \in {"running", "cancelled"}
             /\ held[thread[f]] = f /\ pc[thread[f]] \in Owning \cup {"recovering"}

\* No pending task is stranded: it is queued, about to be queued or claimed, a
\* continuation some live parent will queue, or about to be cancelled; unless an
\* exception cancelled the task that was handling it half way.
PendingIsAccounted ==
    \A f \in Future : state[f] = "pending" /\ origin[f] # "deferred" =>
        \/ \E i \in DOMAIN queue : queue[i] = f
        \/ \E w \in Worker : pc[w] = "dequeued" /\ held[w] = f
        \/ \E p \in Future : f \in conts[p]
        \/ InTodo(f, "enqueue") \/ InTodo(f, "cancel")
        \/ f \in lost

\* A callback handed over is waiting, about to be called, or called, under the
\* same exception.
CallbackIsAccounted ==
    \A c \in Callback : registered[c] # Nobody /\ delivered[c] = "never" =>
        \/ c \in watchers[registered[c]]
        \/ \E t \in Thread : \E i \in DOMAIN todo[t] : c \in todo[t][i].cbs
        \/ c \in lost

\* Cancelling a parent reaches every Future composed onto it by
\* rlm_future_then/3, and every child its goal had submitted by then; a child
\* the goal submits later keeps a link that nothing follows.
CancelReachesChildren ==
    \A f \in Future :
        parent[f] # Nobody /\ state[f] \in Live /\ state[parent[f]] = "cancelled" =>
            \/ InTodo(f, "cancel") \/ f \in lost
            \/ origin[f] # "continuation" /\ f \in kids[parent[f]]

\* A cancellation interrupts no goal but that of a Future already cancelled.
InterruptHitsCancelled ==
    [][\A w \in Worker : Interrupt(w) /\ ~(\E f \in Future : StaleSignal(w, f)) =>
          state[held[w]] \in {"cancelled", "destroyed"}]_vars

Stuck(f) == state[f] \in Live /\ f \notin lost

\* An accepted task settles, whatever was cancelled around it, and a
\* continuation settles once its parent has.
TasksSettle ==
    \A f \in Future :
        /\ (origin[f] = "task" /\ Stuck(f)) ~> ~Stuck(f)
        /\ (origin[f] = "continuation" /\ state[parent[f]] \notin Live /\ Stuck(f))
              ~> ~Stuck(f)

\* Once its Future has settled a callback is called.
CallbacksAreCalled ==
    \A c \in Callback :
        (registered[c] # Nobody /\ state[registered[c]] \notin Live)
            ~> (delivered[c] # "never" \/ c \in lost)

\* rlm_future_await/2 on a task returns.
AwaitsReturn ==
    \A t \in Thread : \A f \in Future :
        (waiting[t] = f /\ origin[f] = "task") ~> (waiting[t] # f \/ f \in lost)

Promises ==
    INSTANCE Promises WITH
        settled <- [f \in Future |-> IF state[f] = "absent" THEN "none" ELSE outcome[f]]

\* A Future is a write-once promise, and a callback is called at most once, with
\* what that promise was settled to.
KeepsPromises == Promises!Spec

-----------------------------------------------------------------------------
(* The inductive invariant behind ThreadFactIsWorker and                   *)
(* InterruptHitsCancelled: a signal names a Future that is cancelled for   *)
(* good, the Future a goal runs under is the one its worker holds, and a   *)
(* worker that recovers from an interrupt holds a cancelled one.           *)

\* A worker that is not idle holds a message, and a settled Future an outcome.
HeldOK == \A w \in Worker : pc[w] # "idle" => held[w] \in Future
SettledOK == \A f \in Future : state[f] \in Terminal => outcome[f] \in Outcome
Typed == TypeOK /\ HeldOK /\ SettledOK

Dead == {f \in Future : state[f] \in {"cancelled", "destroyed"}}
Known == {f \in Future : state[f] # "absent"}

\* A phase is sound for the dead and the known Futures when it signals for dead
\* ones only and erases known ones only.
PhaseOK(p, dead, known) ==
    /\ p.op = "signal" => p.futs \subseteq dead
    /\ p.op = "erase" => p.futs \subseteq known
StackOK(s, dead, known) == \A i \in DOMAIN s : PhaseOK(s[i], dead, known)

StacksOK == \A t \in Thread : StackOK(todo[t], Dead, Known)
FreshOK == \A f \in Future : f > created => state[f] = "absent"
SignalsOK == \A w \in Worker : signals[w] \subseteq Dead
CurrentOK ==
    \A w \in Worker :
        /\ pc[w] \in {"entering", "goal", "leaving"} => current[w] = held[w]
        /\ pc[w] \notin {"entering", "goal", "leaving"} => current[w] = Nobody
RecoveringOK == \A w \in Worker : pc[w] = "recovering" => held[w] \in Dead

ClaimInv ==
    /\ Typed /\ StacksOK /\ FreshOK /\ SignalsOK /\ CurrentOK /\ RecoveringOK
    /\ ThreadFactIsWorker
=============================================================================
