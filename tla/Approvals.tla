----------------------------- MODULE Approvals -----------------------------
(***************************************************************************)
(* The pending operations of prolog/rlm_authority.pl in one authority      *)
(* context: host threads approve, deny and edit them, cancel their owner   *)
(* and tear the context down, while workers of the rlm_async pool carry    *)
(* out what was approved behind a gate, and its completion callback        *)
(* resolves the operation.                                                 *)
(*                                                                         *)
(* What a predicate does under with_mutex(rlm_authority, ...) is one step, *)
(* and what it does after it, on Futures and gates, is another: other      *)
(* threads act in between.  The control, gate and terminal-resolution      *)
(* facts of an operation are asserted and retracted with its state in      *)
(* these sections; they are the sets Gated, Attached and Terminal of       *)
(* states here.                                                            *)
(***************************************************************************)
EXTENDS Naturals, FiniteSets

CONSTANTS
    Host,           \* threads that call the authority predicates
    Capacity,       \* bound on the operations ever proposed
    HistoryLimit,   \* terminal_history_limit(64)
    Purpose         \* what hosts sweep the context for: "cancel", "clear"

ASSUME CapacityAssumption == Capacity \in Nat \ {0}
ASSUME HistoryAssumption == HistoryLimit \in Nat
ASSUME PurposeAssumption == Purpose \subseteq {"cancel", "clear"}

Approval == 1 .. Capacity   \* approval ids, in the order of their created_at

\* A thread is not the completion callback of an operation: see doomed.
ASSUME HostAssumption == Host \cap Approval = {}

VARIABLES
    record,     \* state of authority_pending/3; "gone" once pruned or cleared
    resolution, \* the deferred Future of an operation, and its outcome
    gate,       \* its message queue: open, holding `start', or destroyed
    exec,       \* its execution Future, as rlm_async has it
    task,       \* the pool task of that Future: pending_execution/5
    callback,   \* pending_execution_complete/6 on that Future
    calls,      \* how often its continuation was called
    pc,         \* where each host thread is
    job,        \* the operation it is at
    sweep,      \* its owner cancellation: "cancel", or "clear"
    found,      \* the operations its owner cancellation found active
    todo,       \* those it has not come to, with the state it found them in
    doomed      \* operations whose Future a thread or callback has to destroy

futures == <<resolution, gate, exec, task, callback, calls>>
cancellation == <<sweep, found, todo>>
vars == <<record, futures, pc, job, cancellation, doomed>>

Active == {"pending", "approved", "scheduled", "executing", "cancelling"}
Gated == Active \ {"pending"}
Attached == Gated \ {"approved"}
Terminal == {"resolved", "denied", "superseded", "cancelled"}
Answer == {"result", "failed", "denied", "superseded", "cancelled"}

Idle(h) == pc[h] = "idle" /\ sweep[h] = "none"
At(h, p, a) == pc' = [pc EXCEPT ![h] = p] /\ job' = [job EXCEPT ![h] = a]
GoTo(h, p) == pc' = [pc EXCEPT ![h] = p] /\ UNCHANGED job
Return(h) == At(h, "idle", 1)

\* gensym/2 and get_time/1: the next operation.
Fresh(a) == record[a] = "free" /\ \A b \in Approval : b < a => record[b] # "free"

\* prune_terminal_locked/2 once the states are r: what exceeds the history is
\* dropped, the longest proposed first, and t is left its Futures to destroy.
Prune(t, r) ==
    LET history == {a \in Approval : r[a] \in Terminal}
        excess == {a \in history : Cardinality({b \in history : b > a}) >= HistoryLimit}
    IN /\ record' = [a \in Approval |-> IF a \in excess THEN "gone" ELSE r[a]]
       /\ doomed' = [doomed EXCEPT ![t] = excess]

\* rlm_future_resolve/2 on the deferred Future of a, then destroy_futures/1 on S.
Resolve(a, outcome, S) ==
    resolution' = [b \in Approval |-> IF b \in S THEN "destroyed"
                                      ELSE IF b = a /\ resolution[a] = "pending" THEN outcome
                                      ELSE resolution[b]]

\* rlm_future_cancel/2 on the execution Futures of S: the callback is called.
CancelExecution(S) ==
    LET hit == {a \in S : exec[a] \in {"pending", "running"}} IN
    /\ exec' = [a \in Approval |-> IF a \in hit THEN "cancelled" ELSE exec[a]]
    /\ callback' = [a \in Approval |-> IF a \in hit /\ callback[a] = "set" THEN "due"
                                       ELSE callback[a]]

\* maybe_cancel_destroy_future/1 on the execution Futures of S.
DestroyExecution(S) ==
    /\ exec' = [a \in Approval |-> IF a \in S /\ exec[a] # "none" THEN "destroyed" ELSE exec[a]]
    /\ callback' = [a \in Approval |->
                      IF a \in S /\ exec[a] \in {"pending", "running"} /\ callback[a] = "set"
                      THEN "due" ELSE callback[a]]

\* safe_destroy_gate/1; a `cancel' sent just before it says the same to the waiter.
DestroyGates(S) ==
    gate' = [a \in Approval |-> IF a \in S /\ gate[a] # "none" THEN "destroyed" ELSE gate[a]]

-----------------------------------------------------------------------------
(* Proposals and verdicts.                                                 *)

\* create_pending/7
Propose(a) ==
    /\ Fresh(a)
    /\ record' = [record EXCEPT ![a] = "pending"]
    /\ resolution' = [resolution EXCEPT ![a] = "pending"]
    /\ UNCHANGED <<gate, exec, task, callback, calls, pc, job, cancellation, doomed>>

\* approve_transition_locked/7
Approve(h, a) ==
    /\ Idle(h) /\ record[a] = "pending"
    /\ record' = [record EXCEPT ![a] = "approved"]
    /\ gate' = [gate EXCEPT ![a] = "open"]
    /\ At(h, "submitting", a)
    /\ UNCHANGED <<resolution, exec, task, callback, calls, cancellation, doomed>>

\* rlm_async_submit/3: queued, rejected by backpressure, or an exception.
Submit(h) ==
    LET a == job[h] IN
    /\ pc[h] = "submitting"
    /\ \/ /\ exec' = [exec EXCEPT ![a] = "pending"]
          /\ task' = [task EXCEPT ![a] = "queued"]
          /\ GoTo(h, "registering")
       \/ /\ exec' = [exec EXCEPT ![a] = "rejected"]
          /\ GoTo(h, "registering")
          /\ UNCHANGED task
       \/ GoTo(h, "failing") /\ UNCHANGED <<exec, task>>
    /\ UNCHANGED <<record, resolution, gate, callback, calls, cancellation, doomed>>

\* rlm_future_on_complete/2: on a terminal Future, the callback is called here.
Register(h) ==
    LET a == job[h] IN
    /\ pc[h] = "registering"
    /\ \/ /\ exec[a] \in {"pending", "running"}
          /\ callback' = [callback EXCEPT ![a] = "set"]
          /\ GoTo(h, "arming")
       \/ /\ exec[a] \notin {"pending", "running"}
          /\ callback' = [callback EXCEPT ![a] = "due"]
          /\ GoTo(h, "calling")
    /\ UNCHANGED <<record, resolution, gate, exec, task, calls, cancellation, doomed>>

\* arm_execution_locked/4
Arm(h) ==
    LET a == job[h] IN
    /\ pc[h] = "arming" \/ (pc[h] = "calling" /\ callback[a] = "done")
    /\ \/ /\ record[a] = "approved"
          /\ record' = [record EXCEPT ![a] = "scheduled"]
          /\ GoTo(h, "signalling")
       \/ record[a] # "approved" /\ GoTo(h, "abandoning") /\ UNCHANGED record
    /\ UNCHANGED <<futures, cancellation, doomed>>

\* apply_arm_execution/8, armed: the gate takes one message.
Signal(h) ==
    LET a == job[h] IN
    /\ pc[h] = "signalling"
    /\ \/ gate[a] = "open" /\ gate' = [gate EXCEPT ![a] = "start"] /\ Return(h)
       \/ gate[a] # "open" /\ GoTo(h, "failing") /\ UNCHANGED gate
    /\ UNCHANGED <<record, resolution, exec, task, callback, calls, cancellation, doomed>>

\* apply_arm_execution/8, abandoned or missing.  The predicate fails, and releases
\* nothing, when a gate that is gone does not take `cancel'.
Abandon(h) ==
    LET a == job[h] IN
    /\ pc[h] = "abandoning"
    /\ \/ gate[a] = "open" /\ DestroyExecution({a}) /\ DestroyGates({a})
       \/ gate[a] # "open" /\ UNCHANGED <<gate, exec, callback>>
    /\ Return(h)
    /\ UNCHANGED <<record, resolution, task, calls, cancellation, doomed>>

\* Mutant: only a scheduled operation can fail to be scheduled.
FailScheduled(h) ==
    LET a == job[h] IN
    /\ pc[h] = "failing"
    /\ \/ /\ record[a] = "scheduled"
          /\ Prune(h, [record EXCEPT ![a] = "resolved"])
          /\ GoTo(h, "failed")
       \/ record[a] # "scheduled" /\ GoTo(h, "dropping") /\ UNCHANGED <<record, doomed>>
    /\ UNCHANGED <<futures, cancellation>>

\* schedule_failure_locked/6
Fail(h) ==
    LET a == job[h] IN
    /\ pc[h] = "failing"
    /\ \/ /\ record[a] \in {"approved", "scheduled"}
          /\ Prune(h, [record EXCEPT ![a] = "resolved"])
          /\ GoTo(h, "failed")
       \/ /\ record[a] \notin {"approved", "scheduled"}
          /\ GoTo(h, "dropping")
          /\ UNCHANGED <<record, doomed>>
    /\ UNCHANGED <<futures, cancellation>>

\* approval_schedule_failed/7, when there was nothing to resolve ...
Drop(h) ==
    /\ pc[h] = "dropping"
    /\ DestroyExecution({job[h]}) /\ DestroyGates({job[h]})
    /\ Return(h)
    /\ UNCHANGED <<record, resolution, task, calls, cancellation, doomed>>

\* ... and when there was.  The predicate fails when the gate does not take `cancel':
\* the Futures that were pruned are then forgotten.
Failed(h) ==
    LET a == job[h] IN
    /\ pc[h] = "failed"
    /\ Resolve(a, "failed", IF gate[a] = "open" THEN doomed[h] ELSE {})
    /\ DestroyExecution({a}) /\ DestroyGates({a})
    /\ doomed' = [doomed EXCEPT ![h] = {}]
    /\ Return(h)
    /\ UNCHANGED <<record, task, calls, cancellation>>

\* deny_transition_locked/6
DenyRecord(h, a) ==
    /\ record[a] = "pending"
    /\ Prune(h, [record EXCEPT ![a] = "denied"])
    /\ At(h, "denied", a)

Deny(h, a) ==
    /\ Idle(h)
    /\ DenyRecord(h, a)
    /\ UNCHANGED <<futures, cancellation>>

\* edit_transition_locked/11; b is the operation the edit proposes instead.  What
\* editable_snapshot/5 read outside it is checked again or never changes.
Edit(h, a, b) ==
    /\ Idle(h) /\ Fresh(b)
    /\ record[a] = "pending"
    /\ Prune(h, [record EXCEPT ![a] = "superseded", ![b] = "pending"])
    /\ resolution' = [resolution EXCEPT ![b] = "pending"]
    /\ At(h, "superseded", a)
    /\ UNCHANGED <<gate, exec, task, callback, calls, cancellation>>

\* apply_deny_transition/6, or the end of edit_/3.
Inform(h) ==
    /\ pc[h] \in {"denied", "superseded"}
    /\ Resolve(job[h], pc[h], doomed[h])
    /\ doomed' = [doomed EXCEPT ![h] = {}]
    /\ Return(h)
    /\ UNCHANGED <<record, gate, exec, task, callback, calls, cancellation>>

-----------------------------------------------------------------------------
(* Owner cancellation and teardown.                                        *)

\* The snapshot of rlm_pending_cancel_owner/2, called by a host or, first of all,
\* by rlm_authority_clear/1.
Sweep(h, purpose) ==
    LET active == {a \in Approval : record[a] \in Active} IN
    /\ Idle(h)
    /\ sweep' = [sweep EXCEPT ![h] = purpose]
    /\ found' = [found EXCEPT ![h] = IF purpose = "cancel" THEN active ELSE {}]
    /\ todo' = [todo EXCEPT ![h] = {<<a, record[a]>> : a \in active}]
    /\ UNCHANGED <<record, futures, pc, job, doomed>>

\* cancel_owned/2 comes to an operation it found in state s.
Reach(h, a, s) ==
    /\ pc[h] = "idle" /\ <<a, s>> \in todo[h]
    /\ todo' = [todo EXCEPT ![h] = @ \ {<<a, s>>}]
    /\ UNCHANGED <<sweep, found>>

\* Found pending, it is denied; an error of rlm_deny/3 is dropped.
CancelPending(h, a) ==
    /\ sweep[h] # "none" /\ Reach(h, a, "pending")
    /\ \/ DenyRecord(h, a)
       \/ record[a] # "pending" /\ UNCHANGED <<record, doomed, pc, job>>
    /\ UNCHANGED futures

\* cancel_transition_locked/3
CancelOwned(h, a, s) ==
    /\ sweep[h] # "none" /\ s # "pending" /\ Reach(h, a, s)
    /\ \/ /\ record[a] \in {"approved", "scheduled"}
          /\ Prune(h, [record EXCEPT ![a] = "cancelled"])
          /\ At(h, IF record[a] \in Attached THEN "recalling" ELSE "withdrawing", a)
       \/ /\ record[a] = "executing"
          /\ record' = [record EXCEPT ![a] = "cancelling"]
          /\ At(h, "interrupting", a)
          /\ UNCHANGED doomed
       \/ record[a] \notin {"approved", "scheduled", "executing"}
          /\ UNCHANGED <<record, doomed, pc, job>>
    /\ UNCHANGED futures

\* apply_cancel_owned_transition/3, before the claim.
Withdraw(h) ==
    LET a == job[h] IN
    /\ pc[h] \in {"withdrawing", "recalling"}
    /\ CancelExecution(IF pc[h] = "recalling" THEN {a} ELSE {})
    /\ Resolve(a, "cancelled", doomed[h])
    /\ DestroyGates({a})
    /\ doomed' = [doomed EXCEPT ![h] = {}]
    /\ Return(h)
    /\ UNCHANGED <<record, task, calls, cancellation>>

\* apply_cancel_owned_transition/3, after it.
InterruptExecution(h) ==
    /\ pc[h] = "interrupting"
    /\ CancelExecution({job[h]})
    /\ Return(h)
    /\ UNCHANGED <<record, resolution, gate, task, calls, cancellation, doomed>>

EndSweep(h) ==
    /\ pc[h] = "idle" /\ sweep[h] = "cancel" /\ todo[h] = {}
    /\ sweep' = [sweep EXCEPT ![h] = "none"]
    /\ found' = [found EXCEPT ![h] = {}]
    /\ UNCHANGED <<record, futures, pc, job, todo, doomed>>

\* Mutant: the records already gone are cleared again.
ClearTwice(h) ==
    LET all == {a \in Approval : record[a] # "free"} IN
    /\ pc[h] = "idle" /\ sweep[h] = "clear" /\ todo[h] = {}
    /\ record' = [a \in Approval |-> IF a \in all THEN "gone" ELSE record[a]]
    /\ todo' = [todo EXCEPT ![h] = {<<a, record[a]>> : a \in all}]
    /\ At(h, "destroying", 1)
    /\ UNCHANGED <<futures, sweep, found, doomed>>

\* clear_context_locked/2
Clear(h) ==
    LET all == {a \in Approval : record[a] \in Active \cup Terminal} IN
    /\ pc[h] = "idle" /\ sweep[h] = "clear" /\ todo[h] = {}
    /\ record' = [a \in Approval |-> IF a \in all THEN "gone" ELSE record[a]]
    /\ todo' = [todo EXCEPT ![h] = {<<a, record[a]>> : a \in all}]
    /\ At(h, "destroying", 1)
    /\ UNCHANGED <<futures, sweep, found, doomed>>

\* Mutant: only the Futures of the history are destroyed.
DestroyHistory(h) ==
    LET In(states) == {a \in Approval : \E s \in states : <<a, s>> \in todo[h]} IN
    /\ pc[h] = "destroying"
    /\ DestroyExecution(In(Attached)) /\ DestroyGates(In(Gated))
    /\ resolution' = [a \in Approval |-> IF a \in In(Terminal) THEN "destroyed"
                                         ELSE resolution[a]]
    /\ sweep' = [sweep EXCEPT ![h] = "none"]
    /\ todo' = [todo EXCEPT ![h] = {}]
    /\ Return(h)
    /\ UNCHANGED <<record, task, calls, found, doomed>>

\* destroy_context_resources/1
DestroyContext(h) ==
    LET In(states) == {a \in Approval : \E s \in states : <<a, s>> \in todo[h]} IN
    /\ pc[h] = "destroying"
    /\ DestroyExecution(In(Attached))
    /\ resolution' = [a \in Approval |-> IF a \in In(Active \cup Terminal) THEN "destroyed"
                                         ELSE resolution[a]]
    /\ DestroyGates(In(Gated))
    /\ sweep' = [sweep EXCEPT ![h] = "none"]
    /\ todo' = [todo EXCEPT ![h] = {}]
    /\ UNCHANGED found
    /\ Return(h)
    /\ UNCHANGED <<record, task, calls, doomed>>

-----------------------------------------------------------------------------
(* The task of a pool worker, and the completion callback.                 *)

Proceed(a, s) == task' = [task EXCEPT ![a] = s]

\* The cleanup of pending_execution/5; a Future that is still running completes,
\* and its callback is called.
Finish(a) ==
    /\ Proceed(a, "over")
    /\ DestroyGates({a})
    /\ exec' = [exec EXCEPT ![a] = IF @ = "running" THEN "complete" ELSE @]
    /\ callback' = [callback EXCEPT ![a] = IF exec[a] = "running" /\ @ = "set" THEN "due" ELSE @]

\* A worker claims the Future, unless it was cancelled in the queue.
Dequeue(a) ==
    /\ task[a] = "queued"
    /\ \/ /\ exec[a] = "pending"
          /\ exec' = [exec EXCEPT ![a] = "running"]
          /\ Proceed(a, "waiting")
       \/ exec[a] # "pending" /\ Proceed(a, "over") /\ UNCHANGED exec
    /\ UNCHANGED <<record, resolution, gate, callback, calls, pc, job, cancellation, doomed>>

\* pending_execution_wait/5: an exception in the wait counts as `cancel'.
Wake(a) ==
    /\ task[a] = "waiting"
    /\ \/ /\ gate[a] = "start"
          /\ gate' = [gate EXCEPT ![a] = "open"]
          /\ Proceed(a, "started")
          /\ UNCHANGED <<exec, callback>>
       \/ (gate[a] = "destroyed" \/ exec[a] # "running") /\ Finish(a)
    /\ UNCHANGED <<record, resolution, calls, pc, job, cancellation, doomed>>

\* Mutant: the gate is trusted, the state is not read again.
ClaimUnchecked(a) ==
    /\ task[a] = "started"
    /\ record' = [record EXCEPT ![a] = IF @ = "scheduled" THEN "executing" ELSE @]
    /\ Proceed(a, "claimed")
    /\ UNCHANGED <<resolution, gate, exec, callback, calls, pc, job, cancellation, doomed>>

\* execution_claim_locked/3
ClaimExecution(a) ==
    /\ task[a] = "started"
    /\ \/ /\ record[a] = "scheduled"
          /\ record' = [record EXCEPT ![a] = "executing"]
          /\ Proceed(a, "claimed")
          /\ UNCHANGED <<gate, exec, callback>>
       \/ record[a] # "scheduled" /\ Finish(a) /\ UNCHANGED record
    /\ UNCHANGED <<resolution, calls, pc, job, cancellation, doomed>>

\* apply_execution_claim/4
CallContinuation(a) ==
    /\ task[a] = "claimed"
    /\ calls' = [calls EXCEPT ![a] = @ + 1]
    /\ Proceed(a, "running")
    /\ UNCHANGED <<record, resolution, gate, exec, callback, pc, job, cancellation, doomed>>

\* The continuation returns, or rlm_async_cancelled/1 is raised after the wait.
EndExecution(a) ==
    /\ \/ task[a] = "running"
       \/ task[a] \in {"started", "claimed"} /\ exec[a] \in {"cancelled", "destroyed"}
    /\ Finish(a)
    /\ UNCHANGED <<record, resolution, calls, pc, job, cancellation, doomed>>

\* Mutant: a terminal record is completed once more.
CompleteTerminal(a) ==
    /\ callback[a] = "due"
    /\ \/ /\ record[a] \in Attached \cup Terminal
          /\ Prune(a, [record EXCEPT ![a] = IF exec[a] = "cancelled" THEN "cancelled"
                                           ELSE "resolved"])
          /\ callback' = [callback EXCEPT ![a] = "resolving"]
       \/ /\ record[a] \notin Attached \cup Terminal
          /\ callback' = [callback EXCEPT ![a] = "ignoring"]
          /\ UNCHANGED <<record, doomed>>
    /\ UNCHANGED <<resolution, gate, exec, task, calls, pc, job, cancellation>>

\* execution_complete_locked/5; the outcome of the continuation may be that it was
\* cancelled.
Complete(a) ==
    /\ callback[a] = "due"
    /\ \/ \E s \in {"resolved", "cancelled"} :
             /\ record[a] \in Attached
             /\ record[a] = "cancelling" \/ exec[a] = "cancelled" => s = "cancelled"
             /\ Prune(a, [record EXCEPT ![a] = s])
             /\ callback' = [callback EXCEPT ![a] = "resolving"]
       \/ /\ record[a] \notin Attached
          /\ callback' = [callback EXCEPT ![a] = "ignoring"]
          /\ UNCHANGED <<record, doomed>>
    /\ UNCHANGED <<resolution, gate, exec, task, calls, pc, job, cancellation>>

\* apply_execution_completion/3 and the rest of pending_execution_complete/6.
Release(a) ==
    /\ callback[a] \in {"resolving", "ignoring"}
    /\ IF callback[a] = "resolving" THEN Resolve(a, "result", doomed[a])
       ELSE UNCHANGED resolution
    /\ DestroyGates({a})
    /\ exec' = [exec EXCEPT ![a] = "destroyed"]
    /\ callback' = [callback EXCEPT ![a] = "done"]
    /\ doomed' = [doomed EXCEPT ![a] = {}]
    /\ UNCHANGED <<record, task, calls, pc, job, cancellation>>

-----------------------------------------------------------------------------
Init ==
    /\ record = [a \in Approval |-> "free"]
    /\ resolution = [a \in Approval |-> "none"]
    /\ gate = [a \in Approval |-> "none"]
    /\ exec = [a \in Approval |-> "none"]
    /\ task = [a \in Approval |-> "none"]
    /\ callback = [a \in Approval |-> "none"]
    /\ calls = [a \in Approval |-> 0]
    /\ pc = [h \in Host |-> "idle"]
    /\ job = [h \in Host |-> 1]
    /\ sweep = [h \in Host |-> "none"]
    /\ found = [h \in Host |-> {}]
    /\ todo = [h \in Host |-> {}]
    /\ doomed = [t \in Host \cup Approval |-> {}]

\* What a host thread does once it has called a predicate.
HostStep(h) ==
    \/ Submit(h) \/ Register(h) \/ Arm(h) \/ Signal(h) \/ Abandon(h)
    \/ Fail(h) \/ Drop(h) \/ Failed(h) \/ Inform(h)
    \/ \E a \in Approval : CancelPending(h, a) \/ \E s \in Gated : CancelOwned(h, a, s)
    \/ Withdraw(h) \/ InterruptExecution(h)
    \/ EndSweep(h) \/ Clear(h) \/ DestroyContext(h)

WorkerStep(a) ==
    Dequeue(a) \/ Wake(a) \/ ClaimExecution(a) \/ CallContinuation(a) \/ EndExecution(a)

CallbackStep(a) == Complete(a) \/ Release(a)

Next ==
    \/ \E a \in Approval : Propose(a) \/ WorkerStep(a) \/ CallbackStep(a)
    \/ \E h \in Host :
          \/ HostStep(h)
          \/ \E a \in Approval : Approve(h, a) \/ Deny(h, a)
          \/ \E a, b \in Approval : Edit(h, a, b)
          \/ \E purpose \in Purpose : Sweep(h, purpose)

Spec == Init /\ [][Next]_vars

-----------------------------------------------------------------------------
(* Properties.                                                             *)

\* Every variable keeps the values the facts, Futures, gates and threads can have.
TypeOK ==
    /\ record \in [Approval -> Active \cup Terminal \cup {"free", "gone"}]
    /\ resolution \in [Approval -> Answer \cup {"none", "pending", "destroyed"}]
    /\ gate \in [Approval -> {"none", "open", "start", "destroyed"}]
    /\ exec \in [Approval -> {"none", "pending", "running", "rejected", "complete",
                             "cancelled", "destroyed"}]
    /\ task \in [Approval -> {"none", "queued", "waiting", "started", "claimed",
                             "running", "over"}]
    /\ callback \in [Approval -> {"none", "set", "due", "resolving", "ignoring", "done"}]
    /\ calls \in [Approval -> Nat]
    /\ pc \in [Host -> {"idle", "submitting", "registering", "calling", "arming", "signalling",
                        "abandoning", "failing", "dropping", "failed", "denied", "superseded",
                        "withdrawing", "recalling", "interrupting", "destroying"}]
    /\ job \in [Host -> Approval]
    /\ sweep \in [Host -> {"none", "cancel", "clear"}]
    /\ found \in [Host -> SUBSET Approval]
    /\ todo \in [Host -> SUBSET (Approval \X (Active \cup Terminal))]
    /\ doomed \in [Host \cup Approval -> SUBSET Approval]

\* What the waiters of an operation were told is what its record says became of it,
\* whichever of approval, denial, edit, cancellation and completion came first.
AnswersMatchRecords ==
    \A a \in Approval :
        LET told(answers) == resolution[a] \in answers \cup {"pending", "destroyed"} IN
        /\ record[a] \in Active => resolution[a] = "pending"
        /\ record[a] = "resolved" => told({"result", "failed"})
        /\ record[a] = "cancelled" => told({"cancelled", "result"})
        /\ record[a] = "denied" => told({"denied"})
        /\ record[a] = "superseded" => told({"superseded"})

\* An operation that left the active states without an answer is one some thread or
\* callback is about to answer, or a teardown to destroy: no waiter is forgotten, and
\* none is left to whoever prunes the history.
ClosedIsAnswered ==
    \A a \in Approval :
        record[a] \in Terminal \cup {"gone"} /\ resolution[a] = "pending" =>
            \/ callback[a] = "resolving"
            \/ \E h \in Host :
                  \/ job[h] = a /\ pc[h] \in {"failed", "denied", "superseded",
                                            "withdrawing", "recalling"}
                  \/ pc[h] = "destroying" /\ \E s \in Active \cup Terminal : <<a, s>> \in todo[h]

\* When nobody works on an operation, it is not stuck between its approval and its
\* end, and its gate was given back.
NothingIsStranded ==
    \A a \in Approval :
        \/ \E h \in Host : job[h] = a /\ pc[h] # "idle"
        \/ \E h \in Host : pc[h] = "destroying"
        \/ task[a] \in {"queued", "waiting", "started", "claimed", "running"}
        \/ callback[a] \in {"due", "resolving", "ignoring"}
        \/ record[a] \notin Gated /\ gate[a] \in {"none", "destroyed"}

\* How Decisions sees the state of a record.
VerdictOf ==
    [s \in Active \cup Terminal \cup {"free", "gone"} |->
        CASE s = "free" -> "none"
          [] s = "pending" -> "pending"
          [] s \in {"approved", "scheduled"} -> "approved"
          [] s \in {"executing", "cancelling"} -> "claimed"
          [] s \in Terminal \cup {"gone"} -> "closed"]

Decided ==
    INSTANCE Decisions WITH
        verdict <- [a \in Approval |-> VerdictOf[record[a]]],
        licensed <- {a \in Approval : task[a] = "claimed"},
        answer <- resolution

\* The continuation is called at most once, and only by a claim that came before any
\* denial, edit, cancellation or teardown; waiters are answered once, afterwards.
KeepsDecisions == Decided!Spec

\* What an owner cancellation found active is, when it returns, beyond its claim or
\* will not be carried out: docs/authority-runtime.md:204.
OwnerCancellationIsComplete ==
    [][\A h \in Host :
         sweep[h] = "cancel" /\ sweep'[h] = "none" =>
            \A a \in found[h] : record'[a] \notin {"pending", "approved", "scheduled"}]_vars

\* docs/authority-runtime.md:142: the Future of a record that was removed is destroyed,
\* or some thread or callback is about to destroy it.
PrunedIsDestroyed ==
    \A a \in Approval :
        record[a] = "gone" =>
            \/ resolution[a] = "destroyed"
            \/ \E t \in Host \cup Approval : a \in doomed[t]
            \/ \E h \in Host :
                  pc[h] = "destroying" /\ \E s \in Active \cup Terminal : <<a, s>> \in todo[h]

\* The Future that goes with the oldest terminal record is already resolved when it
\* is destroyed: docs/authority-runtime.md:138.
PrunedIsAnswered ==
    [][\A a \in Approval :
         resolution'[a] = "destroyed" /\ resolution[a] = "pending" =>
            \/ \E h \in Host : pc[h] = "destroying"
            \/ callback[a] = "resolving" /\ a \in doomed[a]
            \/ \E h \in Host : job[h] = a /\ a \in doomed[h]]_vars
=============================================================================
