---------------------------- MODULE AgentRuntime ----------------------------
(***************************************************************************)
(* One runtime of supervised agents (prolog/rlm_agent.pl).  An agent is a  *)
(* record, an engine that keeps its state, and a bounded mailbox.  Threads *)
(* of the rlm_async pool drive the engines: they spawn agents, pump        *)
(* mailboxes, make supervised calls, cancel trees of agents and are        *)
(* cancelled themselves.  The work of a call is carried out by a thread of *)
(* the runtime's own pool, which answers through the mailbox.              *)
(*                                                                         *)
(* Only spawning and the last step of destruction hold the registry's      *)
(* mutex.  Each access to a mailbox, an engine or the worker facts is a    *)
(* step, and other threads act between any two.  An engine is in use only  *)
(* within a step, but SWI-Prolog refuses it to a thread while another one  *)
(* is using it: an engine call may fail whenever another thread is at a    *)
(* call of the same engine.                                                *)
(***************************************************************************)
EXTENDS Naturals, Sequences, FiniteSets

CONSTANTS
    Spawner,        \* threads that carry out agent_spawn_execute/4 and agent_status_execute/3,
    Pumper,         \* agent_pump_execute/4,
    Supervisor,     \* agent_supervised_call_execute/6,
    Canceller,      \* and agent_cancel_execute/4
    Interruptible,  \* those whose Future may be cancelled
    MaxAgents,      \* max_agents
    MaxCalls,       \* bound on the calls ever made; call ids are not used twice
    MailboxSize,    \* mailbox_size
    Posted,         \* kinds of messages hosts send besides requests
    None

ASSUME MaxAgentsAssumption == MaxAgents \in Nat \ {0}
ASSUME MaxCallsAssumption == MaxCalls \in Nat \ {0}
ASSUME MailboxAssumption == MailboxSize \in Nat \ {0}
ASSUME PostedAssumption == Posted \subseteq {"cancel", "budget_exhausted", "complete"}

Driver == Spawner \cup Pumper \cup Supervisor \cup Canceller
Agent == 1 .. MaxAgents
Call == 1 .. MaxCalls

ASSUME NoneAssumption == None \notin Agent \cup Call
ASSUME InterruptAssumption == Interruptible \subseteq Driver

VARIABLES
    runtime,    \* how far agent_runtime_destroy/1 has come
    recorded,   \* agents with an agent_record/7
    destroyed,  \* those whose engine and mailbox are destroyed
    born,       \* how many agents were ever made: agents are numbered by gensym/2
    parent,     \* their supervisors
    status,     \* status and pending of the state in the engine
    pending,
    mailbox,
    owner,      \* the agent a call was made to
    worker,     \* where the worker thread of a call is
    recordedWorker, \* agent_worker/4
    started,    \* rlm_agent_start was sent to it
    signalled,  \* calls whose thread has a signal it has not handled
    result,     \* what a worker came to
    pc,         \* where a driver is
    on,         \* the agent and the call it is at
    at,
    message,    \* the message it took from the mailbox
    waits,      \* the supervised call it makes
    todo,       \* what is left of the cancellation it carries out
    scope,      \* the tree that cancellation began with
    disturbed   \* agents a driver of which was refused the engine, or cut off

agents == <<recorded, destroyed, born, parent>>
engines == <<status, pending>>
workers == <<worker, recordedWorker, started, signalled, result>>
drivers == <<pc, on, at, message, waits>>
cancels == <<todo, scope>>
vars == <<runtime, agents, engines, mailbox, owner, workers, drivers, cancels, disturbed>>

-----------------------------------------------------------------------------
(* Messages, and what an engine does with them.                            *)

Message(kind, c, r) == [kind |-> kind, call |-> c, result |-> r]
Request(c) == Message("request", c, None)
Result(c, r) == Message("result", c, r)
Notice(kind) == Message(kind, None, None)

\* transition_message/4, and transition_exception/4 where it throws
Transition(m, s, calls) ==
    LET To(newStatus, newCalls, reply) ==
            [status |-> newStatus, pending |-> newCalls, reply |-> reply]
    IN CASE m.kind = "request" /\ s # "active" -> To("failed", calls, "failed")
         [] m.kind = "request" /\ s = "active" /\ m.call \in calls -> To(s, calls, "rejected")
         [] m.kind = "request" /\ s = "active" /\ m.call \notin calls ->
                To(s, calls \cup {m.call}, "dispatch")
         [] m.kind = "result" /\ m.call \notin calls -> To(s, calls, "rejected")
         [] m.kind = "result" /\ m.call \in calls /\ m.result = "ok" ->
                To(s, calls \ {m.call}, "result")
         [] m.kind = "result" /\ m.call \in calls /\ m.result # "ok" ->
                To(IF s = "cancelled" /\ m.result = "cancelled" THEN s ELSE "failed",
                   calls \ {m.call}, "failed")
         [] m.kind = "cancel" -> To("cancelled", calls, "cancelled")
         [] m.kind = "budget_exhausted" -> To("failed", calls, "failed")
         [] m.kind = "complete" -> To("completed", calls, "completed")
         [] m.kind = "note" -> To(s, calls, "noted")

\* engine_reply/3: the reply, once the engine took m.
Reply(a, m) == Transition(m, status[a], pending[a]).reply

Take(a, m) ==
    LET t == Transition(m, status[a], pending[a]) IN
    /\ status' = [status EXCEPT ![a] = t.status]
    /\ pending' = [pending EXCEPT ![a] = t.pending]

\* The threads that are at a call of the engine of a.
EngineCalls == {"delivering", "admitting", "refusing", "looping", "inspecting"}

Callers(a) ==
    {th \in Driver : \/ pc[th] \in EngineCalls /\ on[th] = a
                     \/ pc[th] = "cancelling" /\ todo[th] # <<>> /\ Head(todo[th]) = <<"engine", a>>}
      \cup {<<"worker", c>> : c \in {k \in Call : worker[k] = "failing" /\ owner[k] = a}}

\* engine_exception_outcome/2: it may be refused to this one, or the exception that
\* cancels its Future is raised in the call and taken for a refusal.
Refused(a, me) == a \in destroyed \/ me \in Interruptible \/ Callers(a) \ {me} # {}

Disturb(A) == disturbed' = IF runtime = "up" THEN disturbed \cup A ELSE disturbed

\* A mutant: the mailbox has no bound.
HasAlwaysRoom(a) == a \in recorded \ destroyed

HasRoom(a) == a \in recorded \ destroyed /\ Len(mailbox[a]) < MailboxSize

\* internal_send/4 and agent_send_/5: a full mailbox refuses the message.
SendTo(a, m) == mailbox' = IF HasRoom(a) THEN [mailbox EXCEPT ![a] = Append(@, m)] ELSE mailbox

\* notify_parent_from_reply/3, once the reply is "result" or "failed"
NotifyParent(a) ==
    IF a \in recorded /\ parent[a] # None THEN SendTo(parent[a], Notice("note"))
                                          ELSE UNCHANGED mailbox

-----------------------------------------------------------------------------
(* Drivers.                                                                *)

Goto(th, p) == pc' = [pc EXCEPT ![th] = p]
Begin(th, p, a, c) ==
    /\ pc[th] = "idle" /\ a \in recorded /\ runtime # "gone"
    /\ Goto(th, p)
    /\ on' = [on EXCEPT ![th] = a]
    /\ at' = [at EXCEPT ![th] = c]

\* The operation of th is over.
Return(th) ==
    /\ Goto(th, "idle")
    /\ on' = [on EXCEPT ![th] = None]
    /\ at' = [at EXCEPT ![th] = None]
    /\ message' = [message EXCEPT ![th] = None]
    /\ waits' = [waits EXCEPT ![th] = None]

\* A pump is over: a supervised call goes round its loop again.
EndPump(th) ==
    IF waits[th] = None THEN Return(th)
    ELSE /\ Goto(th, "looping")
         /\ at' = [at EXCEPT ![th] = None]
         /\ message' = [message EXCEPT ![th] = None]
         /\ UNCHANGED <<on, waits>>

Fresh(c) == owner[c] = None /\ \A d \in Call : d < c => owner[d] # None
Assign(c, a) == owner' = [owner EXCEPT ![c] = a]

\* agent_spawn_/5 up to the mutex: the parent's record is read.
BeginSpawn(th, p) ==
    /\ pc[th] = "idle" /\ runtime # "gone" /\ (p = None \/ p \in recorded)
    /\ Goto(th, "spawning")
    /\ on' = [on EXCEPT ![th] = p]
    /\ UNCHANGED <<runtime, agents, engines, mailbox, owner, workers, at, message, waits,
                   cancels, disturbed>>

\* spawn_locked/7; the parent is told if its mailbox has room.
Spawn(th) ==
    /\ pc[th] = "spawning"
    /\ \/ /\ Cardinality(recorded) < MaxAgents /\ born < MaxAgents
          /\ born' = born + 1
          /\ recorded' = recorded \cup {born'}
          /\ parent' = [parent EXCEPT ![born'] = on[th]]
          /\ status' = [status EXCEPT ![born'] = "active"]
          /\ IF on[th] = None THEN UNCHANGED mailbox ELSE SendTo(on[th], Notice("note"))
       \/ UNCHANGED <<recorded, born, parent, status, mailbox>>
    /\ Return(th)
    /\ UNCHANGED <<runtime, destroyed, pending, owner, workers, cancels, disturbed>>

\* agent_send/5
SendRequest(a, c) ==
    /\ runtime # "gone" /\ a \in recorded /\ Fresh(c) /\ HasRoom(a)
    /\ Assign(c, a)
    /\ SendTo(a, Request(c))
    /\ UNCHANGED <<runtime, agents, engines, workers, drivers, cancels, disturbed>>

Send(a, kind) ==
    /\ runtime # "gone" /\ a \in recorded /\ HasRoom(a)
    /\ SendTo(a, Notice(kind))
    /\ UNCHANGED <<runtime, agents, engines, owner, workers, drivers, cancels, disturbed>>

\* agent_pump_/4: the next message is taken.
Receive(th, a) ==
    /\ a \notin destroyed /\ mailbox[a] # <<>>
    /\ mailbox' = [mailbox EXCEPT ![a] = Tail(@)]
    /\ message' = [message EXCEPT ![th] = Head(mailbox[a])]

Pump(th, a) ==
    /\ Begin(th, "delivering", a, None)
    /\ Receive(th, a)
    /\ UNCHANGED <<runtime, agents, engines, owner, workers, waits, cancels, disturbed>>

\* ... and the engine takes it, or not, and then it is lost.
Deliver(th) ==
    LET a == on[th]
        m == message[th]
        reply == Reply(a, m)
    IN /\ pc[th] = "delivering"
       /\ \/ /\ Refused(a, th)
             /\ Disturb({a})
             /\ Return(th)
             /\ UNCHANGED engines
          \/ /\ a \notin destroyed
             /\ Take(a, m)
             /\ \/ /\ reply = "dispatch"
                   /\ Goto(th, "creating")
                   /\ at' = [at EXCEPT ![th] = m.call]
                   /\ message' = [message EXCEPT ![th] = None]
                   /\ UNCHANGED <<on, waits>>
                \/ /\ reply \in {"result", "failed"}
                   /\ Goto(th, "notifying")
                   /\ UNCHANGED <<on, at, message, waits>>
                \/ reply \notin {"dispatch", "result", "failed"} /\ EndPump(th)
             /\ UNCHANGED disturbed
    /\ UNCHANGED <<runtime, agents, mailbox, owner, workers, cancels>>

\* pump_reply/6 after the engine: the parent is told; a supervised call whose own
\* result it was returns.
Notify(th) ==
    /\ pc[th] = "notifying"
    /\ NotifyParent(on[th])
    /\ IF at[th] # None \/ (waits[th] # None /\ message[th].call = waits[th])
       THEN Return(th) ELSE EndPump(th)
    /\ UNCHANGED <<runtime, agents, engines, owner, workers, cancels, disturbed>>

-----------------------------------------------------------------------------
(* The dispatch of a call to a worker.                                     *)

\* thread_create_in_pool/4: a thread, or the pool is saturated or gone.  A cancellation
\* raised inside it is taken for a refusal, but the pool may have made the thread by
\* then: an orphan nobody knows, which waits for ever to be told to start.
CreateWorker(th) ==
    /\ pc[th] = "creating"
    /\ \/ /\ runtime \in {"up", "signalled"}
          /\ \/ /\ worker' = [worker EXCEPT ![at[th]] = "waiting"]
                /\ Goto(th, "recording")
             \/ /\ th \in Interruptible
                /\ worker' = [worker EXCEPT ![at[th]] = "orphan"]
                /\ Goto(th, "refusing")
       \/ Goto(th, "refusing") /\ UNCHANGED worker
    /\ UNCHANGED <<runtime, agents, engines, mailbox, owner, recordedWorker, started, signalled,
                   result, on, at, message, waits, cancels, disturbed>>

\* schedule_created_worker/5
RecordWorker(th) ==
    /\ pc[th] = "recording"
    /\ recordedWorker' = recordedWorker \cup {at[th]}
    /\ Goto(th, "starting")
    /\ UNCHANGED <<runtime, agents, engines, mailbox, owner, worker, started, signalled, result,
                   on, at, message, waits, cancels, disturbed>>

\* thread_send_message/2 throws if the worker has ended.
StartWorker(th) ==
    LET c == at[th] IN
    /\ pc[th] = "starting"
    /\ \/ worker[c] # "over" /\ started' = started \cup {c} /\ EndPump(th)
       \/ worker[c] = "over" /\ Return(th) /\ UNCHANGED started
    /\ UNCHANGED <<runtime, agents, engines, mailbox, owner, worker, recordedWorker, signalled,
                   result, cancels, disturbed>>

\* A mutant: the dispatch just fails.
ForgetPendingCall(th) ==
    /\ pc[th] = "refusing"
    /\ Return(th)
    /\ UNCHANGED <<runtime, agents, engines, mailbox, owner, workers, cancels, disturbed>>

\* fail_pending_call/4
FailPendingCall(th) ==
    LET a == on[th] IN
    /\ pc[th] = "refusing"
    /\ \/ /\ Refused(a, th) \/ a \notin recorded
          /\ Disturb({a})
          /\ Return(th)
          /\ UNCHANGED engines
       \/ /\ a \in recorded \ destroyed
          /\ Take(a, Result(at[th], "error"))
          /\ Goto(th, "notifying")
          /\ UNCHANGED <<on, at, message, waits, disturbed>>
    /\ UNCHANGED <<runtime, agents, mailbox, owner, workers, cancels>>

-----------------------------------------------------------------------------
(* Supervised calls.                                                       *)

\* agent_supervised_call_/6: a fresh call ...
BeginSupervised(th, a, c) ==
    /\ Begin(th, "admitting", a, c) /\ Fresh(c)
    /\ Assign(c, a)
    /\ waits' = [waits EXCEPT ![th] = c]
    /\ UNCHANGED <<runtime, agents, engines, mailbox, workers, message, cancels, disturbed>>

\* ... is admitted by the engine itself.
Admit(th) ==
    LET a == on[th]
        m == Request(at[th])
    IN /\ pc[th] = "admitting"
       /\ \/ /\ Refused(a, th)
             /\ Return(th)
             /\ UNCHANGED engines
          \/ /\ a \notin destroyed
             /\ Take(a, m)
             /\ IF Reply(a, m) = "dispatch"
                THEN Goto(th, "creating") /\ UNCHANGED <<on, at, message, waits>>
                ELSE Return(th)
       /\ UNCHANGED <<runtime, agents, mailbox, owner, workers, cancels, disturbed>>

\* supervised_call_wait/7, supervised_call_state/8: the state is looked at.
Inspect(th) ==
    LET a == on[th] IN
    /\ pc[th] = "looping"
    /\ \/ /\ Refused(a, th) \/ a \notin recorded \/ status[a] \in {"cancelled", "failed"}
          /\ Return(th)
       \/ /\ a \in recorded \ destroyed /\ status[a] \notin {"cancelled", "failed"}
          /\ Goto(th, "pumping")
          /\ UNCHANGED <<on, at, message, waits>>
    /\ UNCHANGED <<runtime, agents, engines, mailbox, owner, workers, cancels, disturbed>>

\* supervised_call_pump/8 within its time: a message, or the slice is over, or the
\* mailbox is gone.
PumpSlice(th) ==
    LET a == on[th] IN
    /\ pc[th] = "pumping"
    /\ \/ /\ a \in recorded
          /\ Receive(th, a)
          /\ Goto(th, "delivering")
          /\ UNCHANGED <<on, at, waits>>
       \/ a \in recorded \ destroyed /\ mailbox[a] = <<>> /\ EndPump(th) /\ UNCHANGED mailbox
       \/ a \notin recorded \ destroyed /\ Return(th) /\ UNCHANGED mailbox
    /\ UNCHANGED <<runtime, agents, engines, owner, workers, cancels, disturbed>>

Children(a) == {b \in recorded : parent[b] = a}

\* Every agent recorded below a, itself included: the least set that has a and the
\* children of its members.
Tree(a) ==
    {b \in Agent : \A A \in SUBSET Agent :
        a \in A /\ (\A c \in recorded : parent[c] \in A => c \in A) => b \in A}

\* th is to cancel a and those below it.
StartCancel(th, a) ==
    /\ todo' = [todo EXCEPT ![th] = <<<<"visit", a>>>>]
    /\ scope' = [scope EXCEPT ![th] = Tree(a)]

\* ... and beyond it: the agent is cancelled.
Timeout(th) ==
    /\ pc[th] = "pumping"
    /\ Goto(th, "cancelling")
    /\ StartCancel(th, on[th])
    /\ UNCHANGED <<runtime, agents, engines, mailbox, owner, workers, on, at, message, waits,
                   disturbed>>

\* agent_status_/3
BeginStatus(th, a) ==
    /\ Begin(th, "inspecting", a, None)
    /\ UNCHANGED <<runtime, agents, engines, mailbox, owner, workers, message, waits, cancels,
                   disturbed>>

EndStatus(th) ==
    /\ pc[th] = "inspecting"
    /\ Return(th)
    /\ UNCHANGED <<runtime, agents, engines, mailbox, owner, workers, cancels, disturbed>>

-----------------------------------------------------------------------------
(* Cancellation of an agent and those it supervises.                       *)

\* agent_cancel_execute/4
BeginCancel(th, a) ==
    /\ Begin(th, "cancelling", a, None)
    /\ StartCancel(th, a)
    /\ UNCHANGED <<runtime, agents, engines, mailbox, owner, workers, message, waits, disturbed>>

\* The next thing to do is s; what comes after it replaces it.
NextIs(th, s) == pc[th] = "cancelling" /\ todo[th] # <<>> /\ Head(todo[th]) = s
Then(th, steps) == todo' = [todo EXCEPT ![th] = steps \o Tail(@)]

\* A mutant: only the agent itself.
VisitAlone(th, a) ==
    /\ NextIs(th, <<"visit", a>>)
    /\ Then(th, IF a \in recorded /\ runtime # "gone" THEN <<<<"signal", a>>, <<"engine", a>>>> ELSE <<>>)
    /\ UNCHANGED <<runtime, agents, engines, mailbox, owner, workers, drivers, scope, disturbed>>

\* The visits of the agents in B, the oldest first.
Visits(B) ==
    [i \in 1 .. Cardinality(B) |->
        <<"visit", CHOOSE b \in B : Cardinality({x \in B : x <= b}) = i>>]

\* agent_cancel_/4: the children recorded now come first.
Visit(th, a) ==
    /\ NextIs(th, <<"visit", a>>)
    /\ Then(th, IF a \in recorded /\ runtime # "gone"
                THEN Visits(Children(a)) \o <<<<"signal", a>>, <<"engine", a>>>>
                ELSE <<>>)
    /\ UNCHANGED <<runtime, agents, engines, mailbox, owner, workers, drivers, scope, disturbed>>

\* signal_worker/2 to the recorded workers of the agents in A
Signal(A) ==
    signalled' = signalled \cup {c \in recordedWorker : owner[c] \in A /\ worker[c] # "over"}

SignalWorkers(th, a) ==
    /\ NextIs(th, <<"signal", a>>)
    /\ Then(th, <<>>)
    /\ Signal({a})
    /\ UNCHANGED <<runtime, agents, engines, mailbox, owner, worker, recordedWorker, started,
                   result, drivers, scope, disturbed>>

CancelEngine(th, a) ==
    /\ NextIs(th, <<"engine", a>>)
    /\ Then(th, <<>>)
    /\ \/ Refused(a, th) /\ Disturb({a}) /\ UNCHANGED engines
       \/ a \notin destroyed /\ Take(a, Notice("cancel")) /\ UNCHANGED disturbed
    /\ UNCHANGED <<runtime, agents, mailbox, owner, workers, drivers, scope>>

EndCancel(th) ==
    /\ pc[th] = "cancelling" /\ todo[th] = <<>>
    /\ Return(th)
    /\ scope' = [scope EXCEPT ![th] = {}]
    /\ UNCHANGED <<runtime, agents, engines, mailbox, owner, workers, todo, disturbed>>

\* rlm_async_cancelled/1 is raised in a driver.  A supervised call whose worker was
\* dispatched cancels the agent before it ends.
Interrupt(th) ==
    LET dispatched == waits[th] # None /\ at[th] # waits[th]
        cut == {a \in Agent : on[th] = a \/ \E i \in DOMAIN todo[th] : todo[th][i] = <<"engine", a>>}
    IN /\ pc[th] # "idle"
       /\ Disturb(cut)
       /\ IF dispatched
          THEN /\ Goto(th, "cancelling")
               /\ StartCancel(th, on[th])
               /\ message' = [message EXCEPT ![th] = None]
               /\ waits' = [waits EXCEPT ![th] = None]
               /\ UNCHANGED <<on, at>>
          ELSE /\ Return(th)
               /\ todo' = [todo EXCEPT ![th] = <<>>]
               /\ scope' = [scope EXCEPT ![th] = {}]
       /\ UNCHANGED <<runtime, agents, engines, mailbox, owner, workers>>

-----------------------------------------------------------------------------
(* Worker threads.                                                         *)

Move(c, p) == worker' = [worker EXCEPT ![c] = p]

\* A mutant: the thread does not wait to be told.
WorkUntold(c) ==
    /\ worker[c] = "waiting"
    /\ Move(c, "running")
    /\ UNCHANGED <<runtime, agents, engines, mailbox, owner, recordedWorker, started, signalled,
                   result, drivers, cancels, disturbed>>

\* thread_get_message(rlm_agent_start)
Work(c) ==
    /\ worker[c] = "waiting" /\ c \in started
    /\ Move(c, "running")
    /\ UNCHANGED <<runtime, agents, engines, mailbox, owner, recordedWorker, started, signalled,
                   result, drivers, cancels, disturbed>>

\* worker_call/3: the handler succeeds, or fails or throws.
EndWork(c) ==
    /\ worker[c] = "running"
    /\ \E r \in {"ok", "error"} : result' = [result EXCEPT ![c] = r]
    /\ Move(c, "sending")
    /\ UNCHANGED <<runtime, agents, engines, mailbox, owner, recordedWorker, started, signalled,
                   drivers, cancels, disturbed>>

\* A signal in what worker_entry_run/6 catches is the result; one that arrives in
\* the sending is taken for a full mailbox; one outside them ends the thread.
HandleSignal(c) ==
    /\ c \in signalled
    /\ signalled' = signalled \ {c}
    /\ \/ /\ worker[c] \in {"waiting", "running"}
          /\ result' = [result EXCEPT ![c] = "cancelled"]
          /\ Move(c, "sending")
       \/ /\ worker[c] \in {"sending", "failing", "telling", "leaving"}
          /\ result' = [result EXCEPT ![c] = None]
          /\ \/ worker[c] = "sending" /\ Move(c, "failing")
             \/ Move(c, "leaving")
    /\ UNCHANGED <<runtime, agents, engines, mailbox, owner, recordedWorker, started, drivers,
                   cancels, disturbed>>

\* worker_deliver_result/5
SendResult(c) ==
    LET a == owner[c] IN
    /\ worker[c] = "sending"
    /\ SendTo(a, Result(c, result[c]))
    /\ Move(c, IF a \in recorded /\ ~HasRoom(a) THEN "failing" ELSE "leaving")
    /\ result' = [result EXCEPT ![c] = None]
    /\ UNCHANGED <<runtime, agents, engines, owner, recordedWorker, started, signalled,
                   drivers, cancels, disturbed>>

\* force_agent_failure/3
ForceFailure(c) ==
    LET a == owner[c] IN
    /\ worker[c] = "failing"
    /\ \/ /\ Refused(a, <<"worker", c>>) \/ a \notin recorded
          /\ Disturb({a})
          /\ Move(c, "leaving")
          /\ UNCHANGED engines
       \/ /\ a \in recorded \ destroyed
          /\ Take(a, Notice("budget_exhausted"))
          /\ Move(c, "telling")
          /\ UNCHANGED disturbed
    /\ UNCHANGED <<runtime, agents, mailbox, owner, recordedWorker, started, signalled, result,
                   drivers, cancels>>

TellParent(c) ==
    /\ worker[c] = "telling"
    /\ NotifyParent(owner[c])
    /\ Move(c, "leaving")
    /\ UNCHANGED <<runtime, agents, engines, owner, recordedWorker, started, signalled, result,
                   drivers, cancels, disturbed>>

\* The cleanup of worker_entry/6.
EndWorker(c) ==
    /\ worker[c] = "leaving"
    /\ Move(c, "over")
    /\ recordedWorker' = recordedWorker \ {c}
    /\ started' = started \ {c}
    /\ signalled' = signalled \ {c}
    /\ UNCHANGED <<runtime, agents, engines, mailbox, owner, result, drivers, cancels, disturbed>>

-----------------------------------------------------------------------------
(* The end of the runtime: agent_runtime_destroy/1.                        *)

DestroyWorkers ==
    /\ runtime = "up"
    /\ runtime' = "signalled"
    /\ Signal(Agent)
    /\ disturbed' = {}
    /\ UNCHANGED <<agents, engines, mailbox, owner, worker, recordedWorker, started, result,
                   drivers, cancels>>

DestroyPool ==
    /\ runtime = "signalled"
    /\ runtime' = "drained"
    /\ UNCHANGED <<agents, engines, mailbox, owner, workers, drivers, cancels, disturbed>>

\* destroy_runtime_agents/1
DestroyAgents ==
    /\ runtime = "drained"
    /\ runtime' = "emptied"
    /\ destroyed' = destroyed \cup recorded
    /\ mailbox' = [a \in Agent |-> IF a \in recorded THEN <<>> ELSE mailbox[a]]
    /\ status' = [a \in Agent |-> IF a \in recorded THEN "none" ELSE status[a]]
    /\ pending' = [a \in Agent |-> IF a \in recorded THEN {} ELSE pending[a]]
    /\ UNCHANGED <<recorded, born, parent, owner, workers, drivers, cancels, disturbed>>

DestroyRegistry ==
    /\ runtime = "emptied"
    /\ runtime' = "gone"
    /\ recorded' = {}
    /\ parent' = [a \in Agent |-> None]
    /\ recordedWorker' = {}
    /\ UNCHANGED <<destroyed, born, engines, mailbox, owner, worker, started, signalled,
                   result, drivers, cancels, disturbed>>

-----------------------------------------------------------------------------
Init ==
    /\ runtime = "up"
    /\ recorded = {}
    /\ destroyed = {}
    /\ born = 0
    /\ parent = [a \in Agent |-> None]
    /\ status = [a \in Agent |-> "none"]
    /\ pending = [a \in Agent |-> {}]
    /\ mailbox = [a \in Agent |-> <<>>]
    /\ owner = [c \in Call |-> None]
    /\ worker = [c \in Call |-> "none"]
    /\ recordedWorker = {}
    /\ started = {}
    /\ signalled = {}
    /\ result = [c \in Call |-> None]
    /\ pc = [th \in Driver |-> "idle"]
    /\ on = [th \in Driver |-> None]
    /\ at = [th \in Driver |-> None]
    /\ message = [th \in Driver |-> None]
    /\ waits = [th \in Driver |-> None]
    /\ todo = [th \in Driver |-> <<>>]
    /\ scope = [th \in Driver |-> {}]
    /\ disturbed = {}

\* Hosts begin operations.
HostStep ==
    \/ \E th \in Spawner : BeginSpawn(th, None)
    \/ \E a \in Agent :
          \/ \E th \in Spawner : BeginSpawn(th, a) \/ BeginStatus(th, a)
          \/ \E th \in Pumper : Pump(th, a)
          \/ \E th \in Supervisor : \E c \in Call : BeginSupervised(th, a, c)
          \/ \E th \in Canceller : BeginCancel(th, a)
    \/ \E a \in Agent :
          \/ \E c \in Call : SendRequest(a, c)
          \/ \E kind \in Posted : Send(a, kind)
    \/ DestroyWorkers

\* A driver goes on with the operation it is at.
DriverStep(th) ==
    \/ Spawn(th) \/ Deliver(th) \/ Notify(th)
    \/ CreateWorker(th) \/ RecordWorker(th) \/ StartWorker(th) \/ FailPendingCall(th)
    \/ Admit(th) \/ Inspect(th) \/ PumpSlice(th) \/ EndStatus(th)
    \/ \E a \in Agent : Visit(th, a) \/ SignalWorkers(th, a) \/ CancelEngine(th, a)
    \/ EndCancel(th)

WorkerStep(c) ==
    Work(c) \/ HandleSignal(c) \/ SendResult(c) \/ ForceFailure(c) \/ TellParent(c) \/ EndWorker(c)

Destroy == DestroyPool \/ DestroyAgents \/ DestroyRegistry

Next ==
    \/ HostStep \/ Destroy
    \/ \E th \in Driver : DriverStep(th) \/ Timeout(th)
    \/ \E th \in Interruptible : Interrupt(th)
    \/ \E c \in Call : WorkerStep(c) \/ EndWork(c)

Spec == Init /\ [][Next]_vars

-----------------------------------------------------------------------------
(* Properties.                                                             *)

Live == {"waiting", "running", "sending", "failing", "telling", "leaving"}

\* Every variable keeps the values the records, engines, mailboxes and threads can
\* have: mailboxes and the registry stay within their bounds, whoever sends.
TypeOK ==
    /\ runtime \in {"up", "signalled", "drained", "emptied", "gone"}
    /\ recorded \subseteq Agent /\ destroyed \subseteq Agent
    /\ born \in 0 .. MaxAgents
    /\ parent \in [Agent -> Agent \cup {None}]
    /\ status \in [Agent -> {"none", "active", "cancelled", "failed", "completed"}]
    /\ pending \in [Agent -> SUBSET Call]
    /\ \A a \in Agent : Len(mailbox[a]) <= MailboxSize
    /\ owner \in [Call -> Agent \cup {None}]
    /\ worker \in [Call -> Live \cup {"none", "orphan", "over"}]
    /\ recordedWorker \subseteq Call /\ started \subseteq Call /\ signalled \subseteq Call
    /\ result \in [Call -> {None, "ok", "error", "cancelled"}]
    /\ on \in [Driver -> Agent \cup {None}]
    /\ at \in [Driver -> Call \cup {None}]
    /\ waits \in [Driver -> Call \cup {None}]
    /\ scope \in [Driver -> SUBSET Agent]
    /\ disturbed \subseteq Agent

\* agent_worker/4 names threads that exist: who is signalled through it is the worker
\* it was recorded for, although it is recorded by the one who created the thread and
\* removed by the thread (schedule_created_worker/5, worker_entry/6).
WorkerFactsAreLive == \A c \in recordedWorker : worker[c] \in Live

\* Somebody has the call c in hand.
InFlight(c) ==
    \/ worker[c] \in {"waiting", "running", "sending"}
    \/ \E th \in Driver :
          \/ pc[th] \in {"creating", "recording", "refusing"} /\ at[th] = c
          \/ pc[th] = "delivering" /\ message[th].kind = "result" /\ message[th].call = c
    \/ \E i \in DOMAIN mailbox[owner[c]] :
          mailbox[owner[c]][i].kind = "result" /\ mailbox[owner[c]][i].call = c

\* The calls an agent waits for are those that somebody works on or brings the result
\* of, unless the agent was told that the result is lost or is being cancelled; and
\* nobody works on a call the agent does not wait for.  Drivers that are refused an
\* engine, or cut off, are what the code has no answer to.
PendingIsAccounted ==
    runtime = "up" =>
        \A c \in Call : owner[c] # None /\ owner[c] \notin disturbed =>
            LET a == owner[c] IN
            /\ c \in pending[a] => \/ InFlight(c) \/ worker[c] = "failing" \/ status[a] # "active"
                                   \/ \E th \in Driver : \E i \in DOMAIN todo[th] :
                                         todo[th][i] = <<"engine", a>>
            /\ InFlight(c) /\ worker[c] # "none" => c \in pending[a]

\* When a cancellation returns, no agent of the tree it began with is active any more,
\* although it holds no lock while it goes through the tree (agent_cancel_/4).
CancelReachesTree ==
    [][\A th \in Driver :
         pc[th] = "cancelling" /\ pc'[th] = "idle" /\ todo[th] = <<>> /\ runtime = "up" =>
            \A a \in scope[th] : status[a] # "active" \/ a \in disturbed']_vars

\* docs/agent-runtime.md:50: a cancelled agent stays cancelled.
CancelledIsFinal ==
    [][\A a \in Agent : status[a] = "cancelled" /\ runtime = "up" => status'[a] = "cancelled"]_vars

\* docs/agent-runtime.md:49: when a cancellation returns, the workers of the tree
\* have been signalled or are at their end.
CancelReachesWorkers ==
    [][\A th \in Driver :
         pc[th] = "cancelling" /\ pc'[th] = "idle" /\ todo[th] = <<>> =>
            \A c \in Call : owner[c] \in scope[th] /\ worker[c] \in {"waiting", "running"} =>
                c \in signalled]_vars

\* docs/agent-runtime.md:54: once the runtime is destroyed, nothing of it is left.
DestroyedIsEmpty == runtime = "gone" => recorded = {}
=============================================================================
