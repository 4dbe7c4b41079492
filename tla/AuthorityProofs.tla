--------------------------- MODULE AuthorityProofs ---------------------------
(***************************************************************************)
(* Theorems about what prolog/rlm_authority.pl keeps: the pending          *)
(* operations (Approvals) and the authority modes (AuthorityModes).        *)
(*                                                                         *)
(* Of Approvals: its types, that its waiters are answered as its records   *)
(* say, that nothing approved is left behind, and that it implements       *)
(* Decisions.                                                              *)
(*                                                                         *)
(* Two invariants carry them, and neither is inductive alone.  AnswerInv   *)
(* says who has an answer to give and that the record still agrees with    *)
(* it.  ScheduleInv says how far gate, Future, task and callback of an     *)
(* operation have come for each state of its record.  Every step is first  *)
(* shown to be of one of eight kinds (Kind), by what it does to records    *)
(* and answers; that the answers stay in order and that Decisions takes    *)
(* the same step or none is then a matter of kinds alone.  The schedule is *)
(* kept operation by operation: a step works on one and leaves the others  *)
(* aside.                                                                  *)
(*                                                                         *)
(* Of AuthorityModes, in the last section: its types, and that a grant of  *)
(* allow_once is used once.                                                *)
(***************************************************************************)
EXTENDS Approvals, AuthorityModes, FiniteSetTheorems, TLAPS

State == Active \cup Terminal \cup {"free", "gone"}
Thread == Host \cup Approval

-----------------------------------------------------------------------------
(* What the shared parts of the actions do.                                *)

\* prune_terminal_locked/2 drops terminal records only, and leaves them to t.
LEMMA Pruned ==
    ASSUME TypeOK, NEW t \in Thread, NEW r \in [Approval -> State], Prune(t, r)
    PROVE  /\ record' \in [Approval -> State]
           /\ doomed' \in [Thread -> SUBSET Approval]
           /\ \A a \in Approval :
                 \/ record'[a] = r[a]
                 \/ r[a] \in Terminal /\ record'[a] = "gone" /\ a \in doomed'[t]
           /\ \A a \in doomed'[t] : a \in Approval /\ record'[a] = "gone"
           /\ \A u \in Thread : u # t => doomed'[u] = doomed[u]
<1> DEFINE excess == {a \in {a \in Approval : r[a] \in Terminal} :
                        Cardinality({b \in {c \in Approval : r[c] \in Terminal} : b > a})
                            >= HistoryLimit}
<1>1. /\ record' = [a \in Approval |-> IF a \in excess THEN "gone" ELSE r[a]]
      /\ doomed' = [doomed EXCEPT ![t] = excess]
    BY Zenon DEF Prune
<1>2. \A a \in excess : a \in Approval /\ r[a] \in Terminal
    OBVIOUS
<1> HIDE DEF excess
<1>3. doomed \in [Thread -> SUBSET Approval]
    BY DEF TypeOK, Thread
<1>4. doomed'[t] = excess /\ \A u \in Thread : u # t => doomed'[u] = doomed[u]
    BY <1>1, <1>3
<1>5. doomed' \in [Thread -> SUBSET Approval]
    BY <1>1, <1>2, <1>3
<1>6. record' \in [Approval -> State]
    BY <1>1 DEF State
<1> QED BY <1>1, <1>2, <1>4, <1>5, <1>6

\* rlm_future_resolve/2, destroy_futures/1
LEMMA Resolved ==
    ASSUME TypeOK, NEW a \in Approval, NEW w \in Answer, NEW S, Resolve(a, w, S)
    PROVE  /\ resolution' \in [Approval -> Answer \cup {"none", "pending", "destroyed"}]
           /\ \A b \in S : b \in Approval => resolution'[b] = "destroyed"
           /\ a \notin S => resolution'[a] = IF resolution[a] = "pending" THEN w ELSE resolution[a]
           /\ \A b \in Approval : b # a /\ b \notin S => resolution'[b] = resolution[b]
BY DEF Resolve, TypeOK

\* What becomes of an execution Future and its callback when others act on it.
Execs == {"none", "pending", "running", "rejected", "complete", "cancelled", "destroyed"}
Callbacks == {"none", "set", "due", "resolving", "ignoring", "done"}

\* Cancelling the executions in S: what becomes of Futures and callbacks.
LEMMA ExecutionCancelled ==
    ASSUME TypeOK, NEW S, CancelExecution(S)
    PROVE  /\ exec' \in [Approval -> Execs] /\ callback' \in [Approval -> Callbacks]
           /\ \A a \in Approval :
                 /\ a \notin S => exec'[a] = exec[a] /\ callback'[a] = callback[a]
                 /\ exec'[a] = exec[a] \/ exec'[a] = "cancelled"
                 /\ exec[a] \in {"pending", "running"} /\ a \in S => exec'[a] = "cancelled"
                 /\ \/ callback'[a] = callback[a] /\ (callback[a] = "set" => exec'[a] = exec[a])
                    \/ callback[a] = "set" /\ callback'[a] = "due"
BY DEF CancelExecution, TypeOK, Execs, Callbacks

\* Destroying them, likewise.
LEMMA ExecutionDestroyed ==
    ASSUME TypeOK, NEW S, DestroyExecution(S)
    PROVE  /\ exec' \in [Approval -> Execs] /\ callback' \in [Approval -> Callbacks]
           /\ \A a \in Approval :
                 /\ a \notin S => exec'[a] = exec[a] /\ callback'[a] = callback[a]
                 /\ exec'[a] = exec[a] \/ exec'[a] = "destroyed"
                 /\ exec[a] = "none" => exec'[a] = "none"
                 /\ \/ callback'[a] = callback[a]
                    \/ callback[a] = "set" /\ callback'[a] = "due"
                 /\ exec[a] \in {"pending", "running"} => 
                      \/ callback'[a] = callback[a] /\ (callback[a] = "set" => exec'[a] = exec[a])
                      \/ callback[a] = "set" /\ callback'[a] = "due"
BY DEF DestroyExecution, TypeOK, Execs, Callbacks

\* safe_destroy_gate/1
LEMMA GatesDestroyed ==
    ASSUME TypeOK, NEW S, DestroyGates(S)
    PROVE  /\ gate' \in [Approval -> {"none", "open", "start", "destroyed"}]
           /\ \A a \in Approval :
                 /\ a \notin S => gate'[a] = gate[a]
                 /\ gate'[a] = gate[a] \/ gate'[a] = "destroyed"
                 /\ gate'[a] = "none" <=> gate[a] = "none"
                 /\ a \in S => gate'[a] \notin {"open", "start"}
BY DEF DestroyGates, TypeOK

\* The end of a task.
LEMMA Finished ==
    ASSUME TypeOK, NEW a \in Approval, Finish(a)
    PROVE  /\ task' = [task EXCEPT ![a] = "over"]
           /\ gate' \in [Approval -> {"none", "open", "start", "destroyed"}]
           /\ exec' \in [Approval -> Execs] /\ callback' \in [Approval -> Callbacks]
           /\ \A b \in Approval : b # a => gate'[b] = gate[b] /\ exec'[b] = exec[b] /\ callback'[b] = callback[b]
           /\ gate'[a] \notin {"open", "start"} /\ (gate'[a] = "none" <=> gate[a] = "none")
           /\ exec'[a] = IF exec[a] = "running" THEN "complete" ELSE exec[a]
           /\ callback'[a] = IF exec[a] = "running" /\ callback[a] = "set" THEN "due" ELSE callback[a]
BY GatesDestroyed DEF Finish, Proceed, TypeOK, Execs, Callbacks

-----------------------------------------------------------------------------
(* Types.                                                                  *)

\* A state that replaces another is a state.
LEMMA Rewritten ==
    ASSUME TypeOK, NEW a \in Approval, NEW s \in State, NEW b \in Approval, NEW v \in State
    PROVE  /\ [record EXCEPT ![a] = s] \in [Approval -> State]
           /\ [record EXCEPT ![a] = s, ![b] = v] \in [Approval -> State]
BY DEF TypeOK, State

\* A host that sends nobody an answer, and what it keeps.
LEMMA HostTyping ==
    ASSUME TypeOK, NEW h \in Host, HostStep(h) PROVE TypeOK'
<1> DEFINE a == job[h]
<1>1. a \in Approval /\ h \in Thread /\ 1 \in Approval
    BY CapacityAssumption DEF TypeOK, Thread, Approval
<1>2. CASE Submit(h)
    <2>1. /\ exec' \in [Approval -> Execs]
          /\ task' = task \/ task' = [task EXCEPT ![a] = "queued"]
        BY <1>1, <1>2 DEF Submit, TypeOK, Execs
    <2>2. \E p \in {"registering", "failing"} : pc' = [pc EXCEPT ![h] = p]
        BY <1>2 DEF Submit, GoTo
    <2>3. UNCHANGED <<record, resolution, gate, callback, calls, cancellation, doomed, job>>
        BY <1>2 DEF Submit, GoTo
    <2> QED BY <2>1, <2>2, <2>3 DEF TypeOK, cancellation, Execs
<1>3. CASE Register(h)
    BY <1>1, <1>3 DEF Register, GoTo, TypeOK, cancellation
<1>4. CASE Arm(h)
    BY <1>1, <1>4 DEF Arm, GoTo, TypeOK, cancellation, futures, Active
<1>5. CASE Signal(h)
    <2>1. gate' \in [Approval -> {"none", "open", "start", "destroyed"}]
        BY <1>1, <1>5 DEF Signal, TypeOK
    <2>2. /\ \E p \in {"idle", "failing"} : pc' = [pc EXCEPT ![h] = p]
          /\ job' = job \/ job' = [job EXCEPT ![h] = 1]
        BY <1>5 DEF Signal, GoTo, Return, At
    <2>3. UNCHANGED <<record, resolution, exec, task, callback, calls, cancellation, doomed>>
        BY <1>5 DEF Signal
    <2> QED BY <1>1, <2>1, <2>2, <2>3 DEF TypeOK, cancellation
<1>6. CASE Abandon(h) \/ Drop(h)
    <2>1. exec' \in [Approval -> Execs] /\ callback' \in [Approval -> Callbacks]
          /\ gate' \in [Approval -> {"none", "open", "start", "destroyed"}]
        <3>1. CASE DestroyExecution({a}) /\ DestroyGates({a})
            BY <3>1, ExecutionDestroyed, GatesDestroyed
        <3>2. CASE UNCHANGED <<gate, exec, callback>>
            BY <3>2 DEF TypeOK, Execs, Callbacks
        <3> QED BY <1>6, <3>1, <3>2 DEF Abandon, Drop
    <2>2. Return(h) /\ UNCHANGED <<record, resolution, task, calls, cancellation, doomed>>
        BY <1>6 DEF Abandon, Drop
    <2> QED BY <1>1, <2>1, <2>2 DEF Return, At, TypeOK, cancellation, Execs, Callbacks
<1>7. CASE Fail(h)
    <2>1. CASE Prune(h, [record EXCEPT ![a] = "resolved"]) /\ GoTo(h, "failed")
        <3>1. [record EXCEPT ![a] = "resolved"] \in [Approval -> State]
            BY <1>1, Rewritten DEF State, Terminal
        <3>2. record' \in [Approval -> State] /\ doomed' \in [Thread -> SUBSET Approval]
            BY <1>1, <2>1, <3>1, Pruned
        <3> QED BY <1>1, <1>7, <2>1, <3>2
                DEF Fail, GoTo, TypeOK, cancellation, futures, State, Thread
    <2>2. CASE GoTo(h, "dropping") /\ UNCHANGED <<record, doomed>>
        BY <1>1, <1>7, <2>2 DEF Fail, GoTo, TypeOK, cancellation, futures
    <2> QED BY <1>7, <2>1, <2>2 DEF Fail
<1>8. CASE Failed(h)
    <2>1. exec' \in [Approval -> Execs] /\ callback' \in [Approval -> Callbacks]
          /\ gate' \in [Approval -> {"none", "open", "start", "destroyed"}]
        BY <1>8, ExecutionDestroyed, GatesDestroyed DEF Failed
    <2>2. resolution' \in [Approval -> Answer \cup {"none", "pending", "destroyed"}]
        BY <1>1, <1>8, Resolved DEF Failed, Answer
    <2> QED BY <1>1, <1>8, <2>1, <2>2 DEF Failed, Return, At, TypeOK, cancellation, Execs, Callbacks
<1>9. CASE Inform(h)
    <2>1. resolution' \in [Approval -> Answer \cup {"none", "pending", "destroyed"}]
        BY <1>1, <1>9, Resolved DEF Inform, Answer
    <2> QED BY <1>1, <1>9, <2>1 DEF Inform, Return, At, TypeOK, cancellation
<1>10. ASSUME NEW b \in Approval, CancelPending(h, b) PROVE TypeOK'
    <2>1. todo' \in [Host -> SUBSET (Approval \X (Active \cup Terminal))]
          /\ UNCHANGED <<futures, sweep, found>>
        BY <1>10 DEF CancelPending, Reach, TypeOK
    <2>2. CASE DenyRecord(h, b)
        <3>1. [record EXCEPT ![b] = "denied"] \in [Approval -> State]
            BY <1>10, Rewritten DEF State, Terminal
        <3>2. record' \in [Approval -> State] /\ doomed' \in [Thread -> SUBSET Approval]
            BY <1>1, <2>2, <3>1, Pruned DEF DenyRecord
        <3>3. pc' = [pc EXCEPT ![h] = "denied"] /\ job' = [job EXCEPT ![h] = b]
            BY <2>2 DEF DenyRecord, At
        <3> QED BY <2>1, <3>2, <3>3 DEF TypeOK, futures, State, Thread
    <2>3. CASE UNCHANGED <<record, doomed, pc, job>>
        BY <2>1, <2>3 DEF TypeOK, futures
    <2> QED BY <1>10, <2>2, <2>3 DEF CancelPending
<1>11. ASSUME NEW b \in Approval, NEW s \in Gated, CancelOwned(h, b, s) PROVE TypeOK'
    <2>1. todo' \in [Host -> SUBSET (Approval \X (Active \cup Terminal))]
          /\ UNCHANGED <<futures, sweep, found>>
        BY <1>11 DEF CancelOwned, Reach, TypeOK
    <2>2. CASE Prune(h, [record EXCEPT ![b] = "cancelled"])
               /\ At(h, IF record[b] \in Attached THEN "recalling" ELSE "withdrawing", b)
        <3>1. [record EXCEPT ![b] = "cancelled"] \in [Approval -> State]
            BY <1>11, Rewritten DEF State, Terminal
        <3>2. record' \in [Approval -> State] /\ doomed' \in [Thread -> SUBSET Approval]
            BY <1>1, <2>2, <3>1, Pruned
        <3>3. (pc' = [pc EXCEPT ![h] = "recalling"] \/ pc' = [pc EXCEPT ![h] = "withdrawing"])
              /\ job' = [job EXCEPT ![h] = b]
            BY <2>2 DEF At
        <3> QED BY <2>1, <3>2, <3>3 DEF TypeOK, futures, State, Thread
    <2>3. CASE /\ record' = [record EXCEPT ![b] = "cancelling"]
               /\ At(h, "interrupting", b) /\ UNCHANGED doomed
        BY <2>1, <2>3 DEF TypeOK, futures, At, Active
    <2>4. CASE UNCHANGED <<record, doomed, pc, job>>
        BY <2>1, <2>4 DEF TypeOK, futures
    <2> QED BY <1>11, <2>2, <2>3, <2>4 DEF CancelOwned
<1>12. CASE Withdraw(h)
    <2>1. exec' \in [Approval -> Execs] /\ callback' \in [Approval -> Callbacks]
          /\ gate' \in [Approval -> {"none", "open", "start", "destroyed"}]
        BY <1>12, ExecutionCancelled, GatesDestroyed DEF Withdraw
    <2>2. resolution' \in [Approval -> Answer \cup {"none", "pending", "destroyed"}]
        BY <1>1, <1>12, Resolved DEF Withdraw, Answer
    <2> QED BY <1>1, <1>12, <2>1, <2>2 DEF Withdraw, Return, At, TypeOK, cancellation, Execs, Callbacks
<1>13. CASE InterruptExecution(h)
    <2>1. exec' \in [Approval -> Execs] /\ callback' \in [Approval -> Callbacks]
        BY <1>13, ExecutionCancelled DEF InterruptExecution
    <2> QED BY <1>1, <1>13, <2>1 DEF InterruptExecution, Return, At, TypeOK, cancellation, Execs, Callbacks
<1>14. CASE EndSweep(h)
    BY <1>14 DEF EndSweep, TypeOK, futures
<1>15. CASE Clear(h)
    <2>1. {<<b, record[b]>> : b \in {b \in Approval : record[b] \in Active \cup Terminal}}
              \in SUBSET (Approval \X (Active \cup Terminal))
        OBVIOUS
    <2>2. record' \in [Approval -> State]
        BY <1>15 DEF Clear, TypeOK, State
    <2>3. todo' \in [Host -> SUBSET (Approval \X (Active \cup Terminal))]
        BY <1>15, <2>1 DEF Clear, TypeOK
    <2> QED BY <1>1, <1>15, <2>2, <2>3 DEF Clear, At, TypeOK, futures, State
<1>16. CASE DestroyContext(h)
    <2>1. exec' \in [Approval -> Execs] /\ callback' \in [Approval -> Callbacks]
          /\ gate' \in [Approval -> {"none", "open", "start", "destroyed"}]
        BY <1>16, ExecutionDestroyed, GatesDestroyed DEF DestroyContext
    <2>2. resolution' \in [Approval -> Answer \cup {"none", "pending", "destroyed"}]
        BY <1>16 DEF DestroyContext, TypeOK
    <2>3. UNCHANGED <<record, task, calls, found, doomed>>
          /\ sweep' = [sweep EXCEPT ![h] = "none"] /\ todo' = [todo EXCEPT ![h] = {}] /\ Return(h)
        BY <1>16 DEF DestroyContext
    <2> QED BY <1>1, <2>1, <2>2, <2>3 DEF Return, At, TypeOK, Execs, Callbacks
<1> QED BY <1>2, <1>3, <1>4, <1>5, <1>6, <1>7, <1>8, <1>9, <1>10, <1>11, <1>12, <1>13,
           <1>14, <1>15, <1>16 DEF HostStep

\* A worker and a callback keep the types.
LEMMA WorkerTyping ==
    ASSUME TypeOK, NEW a \in Approval, WorkerStep(a) \/ CallbackStep(a) PROVE TypeOK'
<1>1. a \in Thread
    BY DEF Thread
<1>2. CASE Dequeue(a)
    BY <1>2 DEF Dequeue, Proceed, TypeOK, cancellation
<1>3. ASSUME Finish(a), UNCHANGED <<resolution, calls, pc, job, cancellation, doomed, record>>
      PROVE  TypeOK'
    BY <1>3, Finished DEF TypeOK, cancellation, Execs, Callbacks
<1>4. CASE Wake(a)
    <2>1. CASE gate' = [gate EXCEPT ![a] = "open"] /\ Proceed(a, "started")
               /\ UNCHANGED <<exec, callback>>
        BY <1>4, <2>1 DEF Wake, Proceed, TypeOK, cancellation
    <2> QED BY <1>3, <1>4, <2>1 DEF Wake
<1>5. CASE ClaimExecution(a)
    <2>1. CASE record' = [record EXCEPT ![a] = "executing"] /\ Proceed(a, "claimed")
               /\ UNCHANGED <<gate, exec, callback>>
        BY <1>5, <2>1 DEF ClaimExecution, Proceed, TypeOK, cancellation, Active
    <2> QED BY <1>3, <1>5, <2>1 DEF ClaimExecution
<1>6. CASE CallContinuation(a)
    BY <1>6 DEF CallContinuation, Proceed, TypeOK, cancellation
<1>7. CASE EndExecution(a)
    BY <1>3, <1>7 DEF EndExecution
<1>8. CASE Complete(a)
    <2>1. ASSUME NEW s \in {"resolved", "cancelled"}, Prune(a, [record EXCEPT ![a] = s]),
                 callback' = [callback EXCEPT ![a] = "resolving"]
          PROVE  TypeOK'
        <3>1. [record EXCEPT ![a] = s] \in [Approval -> State]
            BY Rewritten DEF State, Terminal
        <3>2. record' \in [Approval -> State] /\ doomed' \in [Thread -> SUBSET Approval]
            BY <1>1, <2>1, <3>1, Pruned
        <3> QED BY <1>8, <2>1, <3>2 DEF Complete, TypeOK, cancellation, State, Thread
    <2>2. CASE callback' = [callback EXCEPT ![a] = "ignoring"] /\ UNCHANGED <<record, doomed>>
        BY <1>8, <2>2 DEF Complete, TypeOK, cancellation
    <2> QED BY <1>8, <2>1, <2>2 DEF Complete
<1>9. CASE Release(a)
    <2>1. resolution' \in [Approval -> Answer \cup {"none", "pending", "destroyed"}]
        BY <1>9, Resolved DEF Release, Answer, TypeOK
    <2>2. gate' \in [Approval -> {"none", "open", "start", "destroyed"}]
        BY <1>9, GatesDestroyed DEF Release
    <2> QED BY <1>1, <1>9, <2>1, <2>2 DEF Release, TypeOK, cancellation
<1> QED BY <1>2, <1>4, <1>5, <1>6, <1>7, <1>8, <1>9 DEF WorkerStep, CallbackStep

\* So do proposals, verdicts and the beginning of a sweep.
LEMMA CallTyping ==
    ASSUME TypeOK,
           \/ \E a \in Approval : Propose(a)
           \/ \E h \in Host, a \in Approval : Approve(h, a) \/ Deny(h, a)
           \/ \E h \in Host, a, b \in Approval : Edit(h, a, b)
           \/ \E h \in Host, purpose \in Purpose : Sweep(h, purpose)
    PROVE  TypeOK'
<1>1. ASSUME NEW a \in Approval, Propose(a) PROVE TypeOK'
    BY <1>1 DEF Propose, TypeOK, cancellation, Active
<1>2. ASSUME NEW h \in Host, NEW a \in Approval, Approve(h, a) PROVE TypeOK'
    BY <1>2 DEF Approve, At, TypeOK, cancellation, Active
<1>3. ASSUME NEW h \in Host, NEW a \in Approval, Deny(h, a) PROVE TypeOK'
    <2>1. [record EXCEPT ![a] = "denied"] \in [Approval -> State]
        BY Rewritten DEF State, Terminal
    <2>2. record' \in [Approval -> State] /\ doomed' \in [Thread -> SUBSET Approval]
        BY <1>3, <2>1, Pruned DEF Deny, DenyRecord, Thread
    <2>3. pc' = [pc EXCEPT ![h] = "denied"] /\ job' = [job EXCEPT ![h] = a]
          /\ UNCHANGED <<futures, cancellation>>
        BY <1>3 DEF Deny, DenyRecord, At
    <2> QED BY <2>2, <2>3 DEF TypeOK, futures, cancellation, State, Thread
<1>4. ASSUME NEW h \in Host, NEW a \in Approval, NEW b \in Approval, Edit(h, a, b) PROVE TypeOK'
    <2>1. [record EXCEPT ![a] = "superseded", ![b] = "pending"] \in [Approval -> State]
        BY Rewritten DEF State, Terminal, Active
    <2>2. record' \in [Approval -> State] /\ doomed' \in [Thread -> SUBSET Approval]
        BY <1>4, <2>1, Pruned DEF Edit, Thread
    <2>3. pc' = [pc EXCEPT ![h] = "superseded"] /\ job' = [job EXCEPT ![h] = a]
          /\ resolution' = [resolution EXCEPT ![b] = "pending"]
          /\ UNCHANGED <<gate, exec, task, callback, calls, cancellation>>
        BY <1>4 DEF Edit, At
    <2> QED BY <2>2, <2>3 DEF TypeOK, cancellation, State, Thread
<1>5. ASSUME NEW h \in Host, NEW purpose \in Purpose, Sweep(h, purpose) PROVE TypeOK'
    <2> DEFINE active == {a \in Approval : record[a] \in Active}
    <2>1. /\ sweep' = [sweep EXCEPT ![h] = purpose]
          /\ found' = [found EXCEPT ![h] = IF purpose = "cancel" THEN active ELSE {}]
          /\ todo' = [todo EXCEPT ![h] = {<<a, record[a]>> : a \in active}]
          /\ UNCHANGED <<record, futures, pc, job, doomed>>
        BY <1>5 DEF Sweep
    <2>2. active \in SUBSET Approval
          /\ {<<a, record[a]>> : a \in active} \in SUBSET (Approval \X (Active \cup Terminal))
        OBVIOUS
    <2>3. purpose \in {"none", "cancel", "clear"}
        BY PurposeAssumption
    <2> HIDE DEF active
    <2> QED BY <2>1, <2>2, <2>3 DEF TypeOK, futures
<1> QED BY <1>1, <1>2, <1>3, <1>4, <1>5

\* The initial state is typed,
LEMMA InitTyping == Init => TypeOK
BY CapacityAssumption DEF Init, TypeOK, Approval

\* ... and every step keeps it so.
LEMMA NextTyping == TypeOK /\ [Next]_vars => TypeOK'
<1> SUFFICES ASSUME TypeOK, [Next]_vars PROVE TypeOK'
    OBVIOUS
<1>1. CASE UNCHANGED vars
    BY <1>1 DEF vars, futures, cancellation, TypeOK
<1> QED BY <1>1, HostTyping, WorkerTyping, CallTyping DEF Next

\* Every fact, Future, gate and thread keeps the values it may have.
THEOREM Typing == Spec => []TypeOK
BY InitTyping, NextTyping, PTL DEF Spec

-----------------------------------------------------------------------------
(* Who answers.                                                            *)

\* Where a host has the answer of its operation to give, what the record says then,
\* and what it tells.
Telling == {"failed", "denied", "superseded", "withdrawing", "recalling"}
Sentence(p) == IF p = "failed" THEN "resolved"
               ELSE IF p \in {"withdrawing", "recalling"} THEN "cancelled" ELSE p
Word(p) == IF p \in {"withdrawing", "recalling"} THEN "cancelled" ELSE p
Busy == Telling \cup {"destroying"}

\* Who is to answer or to destroy an operation finds it closed, for the reason it tells.
TellersAgree ==
    /\ \A h \in Host : pc[h] \in Telling => record[job[h]] \in {Sentence(pc[h]), "gone"}
    /\ \A a \in Approval :
          callback[a] = "resolving" => record[a] \in {"resolved", "cancelled", "gone"}
    /\ \A t \in Thread : \A a \in doomed[t] : record[a] = "gone"
    /\ \A h \in Host : pc[h] = "destroying" => \A x \in todo[h] : record[x[1]] = "gone"

\* Only who has an answer to give has Futures to destroy after it.
DoomedAreHeld ==
    /\ \A h \in Host : doomed[h] # {} => pc[h] \in Telling
    /\ \A a \in Approval : doomed[a] # {} => callback[a] = "resolving"

FreeIsUntold == \A a \in Approval : record[a] = "free" => resolution[a] = "none"

AnswerInv ==
    TellersAgree /\ DoomedAreHeld /\ FreeIsUntold /\ AnswersMatchRecords /\ ClosedIsAnswered

\* How Decisions sees the operations.
Verdicts == [a \in Approval |-> VerdictOf[record[a]]]
Claimed == {a \in Approval : task[a] = "claimed"}

\* The kinds of steps.  One that answers nobody and closes nothing:
Onward ==
    \/ record' = record /\ Claimed' = Claimed /\ calls' = calls
    \/ \E a \in Approval, s \in Active :
          /\ record[a] \in Active
          /\ record' = [record EXCEPT ![a] = s] /\ calls' = calls
          /\ \/ VerdictOf[s] = VerdictOf[record[a]] /\ Claimed' = Claimed
             \/ record[a] = "pending" /\ s = "approved" /\ Claimed' = Claimed
             \/ record[a] = "scheduled" /\ s = "executing" /\ Claimed' = Claimed \cup {a}
    \/ \E a \in Claimed :
          /\ record' = record /\ Claimed' = Claimed \ {a}
          /\ calls' = [calls EXCEPT ![a] = @ + 1] \/ calls' = calls
Undisturbed ==
    /\ Onward
    /\ resolution' = resolution /\ doomed' = doomed
    /\ \A a \in Approval : callback'[a] = "resolving" <=> callback[a] = "resolving"
    /\ \A h \in Host : pc[h] \in Busy \/ pc'[h] \in Busy =>
          pc'[h] = pc[h] /\ job'[h] = job[h] /\ todo'[h] = todo[h]

\* One that proposes b:
Opens(b) ==
    /\ record[b] = "free" /\ record' = [record EXCEPT ![b] = "pending"]
    /\ resolution' = [resolution EXCEPT ![b] = "pending"]
    /\ UNCHANGED <<doomed, callback, pc, job, todo, task, calls>>

\* One in which t closes a, drops what exceeds the history and proposes new:
Closing(t, a, new) ==
    /\ record[a] \in Active /\ a \notin new
    /\ \A b \in new : b \in Approval /\ record[b] = "free" /\ record'[b] = "pending"
    /\ resolution' = [b \in Approval |-> IF b \in new THEN "pending" ELSE resolution[b]]
    /\ \A b \in Approval : b # a /\ b \notin new =>
          \/ record'[b] = record[b]
          \/ record[b] \in Terminal /\ record'[b] = "gone" /\ b \in doomed'[t]
    /\ \A b \in doomed'[t] : b \in Approval /\ record'[b] = "gone"
    /\ \A u \in Thread : u # t => doomed'[u] = doomed[u]
    /\ task' = task /\ calls' = calls
HostCloses(h, a, p, new) ==
    /\ Closing(h, a, new) /\ record'[a] \in {Sentence(p), "gone"} /\ p \in Telling
    /\ pc[h] \notin Busy /\ pc'[h] = p /\ job'[h] = a
    /\ \A k \in Host : k # h => pc'[k] = pc[k] /\ job'[k] = job[k] /\ todo'[k] = todo[k]
    /\ callback' = callback
CallbackCloses(a) ==
    /\ Closing(a, a, {}) /\ record'[a] \in {"resolved", "cancelled", "gone"}
    /\ callback[a] # "resolving" /\ callback' = [callback EXCEPT ![a] = "resolving"]
    /\ UNCHANGED <<pc, job, todo>>

\* Ones that answer, and destroy what t was left to destroy or forget it:
Answering(t, a, w) ==
    /\ \E S \in {doomed[t], {}} : Resolve(a, w, S)
    /\ doomed' = [doomed EXCEPT ![t] = {}]
    /\ UNCHANGED <<record, task, calls>>
HostAnswers(h) ==
    /\ pc[h] \in Telling /\ Answering(h, job[h], Word(pc[h]))
    /\ pc'[h] \notin Busy
    /\ \A k \in Host : k # h => pc'[k] = pc[k] /\ job'[k] = job[k] /\ todo'[k] = todo[k]
    /\ \A b \in Approval : callback'[b] = "resolving" <=> callback[b] = "resolving"
CallbackAnswers(a) ==
    /\ callback[a] = "resolving" /\ Answering(a, a, "result")
    /\ callback' = [callback EXCEPT ![a] = "done"]
    /\ UNCHANGED <<pc, job, todo>>

\* And the two of a teardown.
Clears(h) ==
    /\ \A a \in Approval : record'[a] = IF record[a] \in Active \cup Terminal THEN "gone"
                                        ELSE record[a]
    /\ record' \in [Approval -> State]
    /\ todo'[h] = {<<a, record[a]>> : a \in {b \in Approval : record[b] \in Active \cup Terminal}}
    /\ pc[h] \notin Busy /\ pc'[h] = "destroying"
    /\ \A k \in Host : k # h => pc'[k] = pc[k] /\ job'[k] = job[k] /\ todo'[k] = todo[k]
    /\ UNCHANGED <<resolution, doomed, callback, task, calls>>
Destroys(h, S) ==
    /\ pc[h] = "destroying" /\ pc'[h] \notin Busy
    /\ \A a \in Approval : a \in S <=> \E s \in Active \cup Terminal : <<a, s>> \in todo[h]
    /\ S \subseteq Approval
    /\ resolution' = [a \in Approval |-> IF a \in S THEN "destroyed" ELSE resolution[a]]
    /\ \A k \in Host : k # h => pc'[k] = pc[k] /\ job'[k] = job[k] /\ todo'[k] = todo[k]
    /\ \A b \in Approval : callback'[b] = "resolving" <=> callback[b] = "resolving"
    /\ UNCHANGED <<record, doomed, task, calls>>

Kind ==
    \/ Undisturbed
    \/ \E b \in Approval : Opens(b)
    \/ \E h \in Host, a \in Approval, p \in Telling, new \in SUBSET Approval : HostCloses(h, a, p, new)
    \/ \E a \in Approval : CallbackCloses(a)
    \/ \E h \in Host : HostAnswers(h)
    \/ \E a \in Approval : CallbackAnswers(a)
    \/ \E h \in Host : Clears(h)
    \/ \E h \in Host, S \in SUBSET Approval : Destroys(h, S)

-----------------------------------------------------------------------------
(* Who carries out.                                                        *)

\* Where a host is on its way from approving an operation to starting it.
Scheduling == {"submitting", "registering", "calling", "arming", "signalling",
               "abandoning", "failing", "dropping", "failed"}

\* The host that approved an operation is the only one that schedules it.
OneScheduler ==
    \A h, k \in Host :
        pc[h] \in Scheduling /\ pc[k] \in Scheduling /\ job[h] = job[k] => h = k

\* What a host that schedules, or that interrupts, knows of its operation.
SchedulerSees(h) ==
    LET a == job[h] IN
    /\ pc[h] \in Scheduling => record[a] \notin {"free", "pending"} /\ gate[a] # "none"
    /\ pc[h] = "submitting" => exec[a] = "none" /\ task[a] = "none" /\ callback[a] = "none"
    /\ pc[h] = "registering" => exec[a] # "none" /\ callback[a] = "none"
    /\ pc[h] = "calling" => callback[a] \notin {"none", "set"}
    /\ pc[h] = "arming" => /\ callback[a] # "none"
                           /\ record[a] = "approved" => callback[a] = "set"
    /\ pc[h] \in {"submitting", "registering", "calling", "arming"} => record[a] # "scheduled"
    /\ pc[h] \in {"abandoning", "dropping"} => record[a] \notin {"approved", "scheduled"}
    /\ pc[h] = "interrupting" => record[a] \in {"cancelling", "gone"} \cup Terminal

\* An operation that was never approved has no gate, and one without a gate nothing else.
GateComesFirst(a) ==
    /\ record[a] \in {"free", "pending"} => gate[a] = "none"
    /\ gate[a] = "none" => /\ exec[a] = "none" /\ task[a] = "none" /\ callback[a] = "none"
                           /\ record[a] \notin Gated

\* A callback that is set waits for a Future that is live, and a live Future has a task;
\* a callback that returned has destroyed the gate.
FuturesAreLive(a) ==
    /\ callback[a] = "set" => exec[a] \in {"pending", "running"}
    /\ callback[a] = "done" => gate[a] = "destroyed"
    /\ exec[a] = "pending" => task[a] = "queued"
    /\ exec[a] = "running" => task[a] \in {"waiting", "started", "claimed", "running"}

\* Before the operation is started its gate is closed to the task.
Waiting(a) == \/ exec[a] = "pending" /\ task[a] = "queued"
              \/ exec[a] = "running" /\ task[a] = "waiting"
ApprovedWaits(a) ==
    record[a] = "approved" =>
        /\ \E h \in Host :
              job[h] = a /\ pc[h] \in {"submitting", "registering", "calling", "arming", "failing"}
        /\ callback[a] # "done" => gate[a] = "open"
        /\ \/ callback[a] \in {"none", "set"} /\ Waiting(a)
           \/ callback[a] = "none" /\ exec[a] \in {"none", "rejected"} /\ task[a] = "none"
           \/ /\ callback[a] \in {"due", "ignoring", "done"} /\ task[a] = "none"
              /\ exec[a] \notin {"pending", "running"}

\* A scheduled operation is waited for by its task, unless it was rejected and its
\* scheduler is about to find out.
ScheduledStarts(a) ==
    record[a] = "scheduled" =>
        \/ /\ callback[a] = "set" /\ gate[a] \in {"open", "start"}
           /\ Waiting(a) \/ (exec[a] = "running" /\ task[a] = "started")
        \/ /\ callback[a] = "done" /\ task[a] = "none" /\ exec[a] \notin {"pending", "running"}
           /\ \E h \in Host : job[h] = a /\ pc[h] \in {"signalling", "failing"}

\* The callback of an operation that was claimed is still to come.
ExecutingCompletes(a) ==
    record[a] \in {"executing", "cancelling"} => callback[a] \in {"set", "due"}

\* The gate of an operation that is over is about to be destroyed.
GatesGo(a) ==
    gate[a] \in {"open", "start"} /\ record[a] \notin Gated =>
        \/ callback[a] = "resolving"
        \/ \E h \in Host : job[h] = a /\ pc[h] \in {"failed", "withdrawing", "recalling"}
        \/ \E h \in Host : pc[h] = "destroying" /\ \E s \in Gated : <<a, s>> \in todo[h]

Sound(a) ==
    /\ GateComesFirst(a) /\ FuturesAreLive(a) /\ ApprovedWaits(a)
    /\ ScheduledStarts(a) /\ ExecutingCompletes(a) /\ GatesGo(a)

ScheduleInv ==
    OneScheduler /\ (\A h \in Host : SchedulerSees(h)) /\ (\A a \in Approval : Sound(a))

\* The inductive invariant.
Inv == TypeOK /\ AnswerInv /\ ScheduleInv

\* What VerdictOf makes of each state.
LEMMA VerdictOfState ==
    /\ VerdictOf["free"] = "none" /\ VerdictOf["pending"] = "pending"
    /\ VerdictOf["approved"] = "approved" /\ VerdictOf["scheduled"] = "approved"
    /\ VerdictOf["executing"] = "claimed" /\ VerdictOf["cancelling"] = "claimed"
    /\ \A s \in Terminal \cup {"gone"} : VerdictOf[s] = "closed"
<1>1. \A s \in State : VerdictOf[s] = CASE s = "free" -> "none"
          [] s = "pending" -> "pending"
          [] s \in {"approved", "scheduled"} -> "approved"
          [] s \in {"executing", "cancelling"} -> "claimed"
          [] s \in Terminal \cup {"gone"} -> "closed"
    BY DEF VerdictOf, State
<1>2. {"free", "pending", "approved", "scheduled", "executing", "cancelling"} \subseteq State
    BY DEF State, Active
<1>3. VerdictOf["free"] = "none"
    BY <1>1, <1>2 DEF Terminal
<1>4. VerdictOf["pending"] = "pending"
    BY <1>1, <1>2 DEF Terminal
<1>5. VerdictOf["approved"] = "approved" /\ VerdictOf["scheduled"] = "approved"
    BY <1>1, <1>2 DEF Terminal
<1>6. VerdictOf["executing"] = "claimed" /\ VerdictOf["cancelling"] = "claimed"
    BY <1>1, <1>2 DEF Terminal
<1>7. ASSUME NEW s \in Terminal \cup {"gone"} PROVE VerdictOf[s] = "closed"
    BY <1>1 DEF State, Terminal
<1> QED BY <1>3, <1>4, <1>5, <1>6, <1>7

\* The operations that stand, and those that are closed.
LEMMA VerdictOfKind ==
    ASSUME NEW s \in State
    PROVE  /\ s \in Active <=> VerdictOf[s] \in {"pending", "approved", "claimed"}
           /\ s = "free" <=> VerdictOf[s] = "none"
           /\ s \in Terminal \cup {"gone"} <=> VerdictOf[s] = "closed"
BY VerdictOfState DEF State, Active, Terminal

\* prune_terminal_locked/2 after a was closed with state s.
LEMMA PrunedClosing ==
    ASSUME TypeOK, NEW t \in Thread, NEW a \in Approval, record[a] \in Active, NEW s \in Terminal,
           Prune(t, [record EXCEPT ![a] = s]), resolution' = resolution,
           task' = task, calls' = calls
    PROVE  Closing(t, a, {}) /\ record'[a] \in {s, "gone"}
<1> DEFINE r == [record EXCEPT ![a] = s]
<1>1. r \in [Approval -> State] /\ r[a] = s /\ \A b \in Approval : b # a => r[b] = record[b]
    BY DEF TypeOK, State
<1>2. Prune(t, r)
    OBVIOUS
<1> HIDE DEF r
<1>3. /\ \A b \in Approval :
            \/ record'[b] = r[b]
            \/ r[b] \in Terminal /\ record'[b] = "gone" /\ b \in doomed'[t]
      /\ \A b \in doomed'[t] : b \in Approval /\ record'[b] = "gone"
      /\ \A u \in Thread : u # t => doomed'[u] = doomed[u]
    BY <1>1, <1>2, Pruned
<1>4. resolution' = [b \in Approval |-> resolution[b]]
    BY DEF TypeOK
<1> QED BY <1>1, <1>3, <1>4 DEF Closing

\* deny_transition_locked/6
LEMMA DenyKind ==
    ASSUME TypeOK, NEW h \in Host, NEW a \in Approval, DenyRecord(h, a), UNCHANGED futures,
           pc[h] = "idle", \A k \in Host : k # h => todo'[k] = todo[k]
    PROVE  Kind
<1>1. record[a] \in Active /\ "denied" \in Terminal /\ h \in Thread
    BY DEF DenyRecord, Active, Terminal, Thread
<1>2. UNCHANGED <<resolution, callback, task, calls>>
    BY DEF futures
<1>3. Prune(h, [record EXCEPT ![a] = "denied"])
    BY DEF DenyRecord
<1>4. Closing(h, a, {}) /\ record'[a] \in {"denied", "gone"}
    BY <1>1, <1>2, <1>3, PrunedClosing
<1>5. HostCloses(h, a, "denied", {})
    BY <1>2, <1>4 DEF HostCloses, DenyRecord, At, Sentence, Telling, Busy, TypeOK
<1> QED BY <1>5 DEF Kind, Telling

\* The steps of a host are of these kinds.
LEMMA HostKind ==
    ASSUME Inv, NEW h \in Host, HostStep(h) PROVE Kind
<1> DEFINE a == job[h]
<1> TypeOK /\ AnswerInv
    BY DEF Inv
<1>1. a \in Approval /\ h \in Thread
    BY DEF TypeOK, Thread
<1>2. ASSUME NEW p, pc[h] \notin Busy, p \notin Busy, pc' = [pc EXCEPT ![h] = p],
             \A k \in Host : k # h => job'[k] = job[k] /\ todo'[k] = todo[k],
             resolution' = resolution, doomed' = doomed,
             \A b \in Approval : callback'[b] = "resolving" <=> callback[b] = "resolving",
             Onward
      PROVE  Kind
    BY <1>2 DEF Kind, Undisturbed, TypeOK
<1>3. record' = record /\ task' = task /\ calls' = calls => Onward
    BY DEF Onward, Claimed
<1>4. CASE Submit(h)
    <2>1. Claimed' = Claimed
        BY <1>1, <1>4 DEF Submit, Claimed, TypeOK, Inv, ScheduleInv, SchedulerSees
    <2>2. \E p \in {"registering", "failing"} : pc' = [pc EXCEPT ![h] = p]
        BY <1>4 DEF Submit, GoTo
    <2>3. UNCHANGED <<record, resolution, callback, calls, todo, doomed, job>> /\ pc[h] \notin Busy
        BY <1>4 DEF Submit, GoTo, cancellation, Busy, Telling
    <2>4. Onward
        BY <2>1, <2>3 DEF Onward
    <2> QED BY <1>2, <2>2, <2>3, <2>4 DEF Busy, Telling
<1>5. CASE Register(h)
    <2>1. \E p \in {"arming", "calling"} : pc' = [pc EXCEPT ![h] = p]
        BY <1>5 DEF Register, GoTo
    <2>2. UNCHANGED <<record, resolution, task, calls, todo, doomed, job>> /\ pc[h] \notin Busy
        BY <1>5 DEF Register, GoTo, cancellation, Busy, Telling
    <2>3. \A b \in Approval : callback'[b] = "resolving" <=> callback[b] = "resolving"
        BY <1>1, <1>5 DEF Register, TypeOK, Inv, ScheduleInv, SchedulerSees
    <2> QED BY <1>2, <1>3, <2>1, <2>2, <2>3 DEF Busy, Telling
<1>6. CASE Arm(h)
    <2>1. \E p \in {"signalling", "abandoning"} : pc' = [pc EXCEPT ![h] = p]
        BY <1>6 DEF Arm, GoTo
    <2>2. UNCHANGED <<resolution, callback, task, calls, todo, doomed, job>> /\ pc[h] \notin Busy
        BY <1>6 DEF Arm, GoTo, cancellation, futures, Busy, Telling
    <2>3. Onward
        <3>1. CASE record[a] = "approved" /\ record' = [record EXCEPT ![a] = "scheduled"]
            <4>1. VerdictOf["scheduled"] = VerdictOf[record[a]] /\ "scheduled" \in Active
                  /\ record[a] \in Active
                BY <3>1, VerdictOfState DEF Active
            <4> QED BY <1>1, <2>2, <3>1, <4>1 DEF Onward, Claimed
        <3>2. CASE record' = record
            BY <1>3, <2>2, <3>2
        <3> QED BY <1>6, <3>1, <3>2 DEF Arm
    <2> QED BY <1>2, <2>1, <2>2, <2>3 DEF Busy, Telling
<1>7. CASE Signal(h)
    <2>1. \E p \in {"idle", "failing"} : pc' = [pc EXCEPT ![h] = p]
        BY <1>7 DEF Signal, GoTo, Return, At
    <2>2. UNCHANGED <<record, resolution, callback, task, calls, todo, doomed>> /\ pc[h] \notin Busy
          /\ \A k \in Host : k # h => job'[k] = job[k]
        BY <1>7 DEF Signal, GoTo, Return, At, cancellation, Busy, Telling, TypeOK
    <2> QED BY <1>2, <1>3, <2>1, <2>2 DEF Busy, Telling
<1>8. CASE Abandon(h) \/ Drop(h)
    <2>1. pc' = [pc EXCEPT ![h] = "idle"]
          /\ UNCHANGED <<record, resolution, task, calls, todo, doomed>> /\ pc[h] \notin Busy
          /\ \A k \in Host : k # h => job'[k] = job[k]
        BY <1>8 DEF Abandon, Drop, Return, At, cancellation, Busy, Telling, TypeOK
    <2>2. \A b \in Approval : callback'[b] = "resolving" <=> callback[b] = "resolving"
        BY <1>8, ExecutionDestroyed DEF Abandon, Drop
    <2> QED BY <1>2, <1>3, <2>1, <2>2 DEF Busy, Telling
<1>9. CASE Fail(h)
    <2>1. CASE /\ record[a] \in {"approved", "scheduled"}
               /\ Prune(h, [record EXCEPT ![a] = "resolved"]) /\ GoTo(h, "failed")
        <3>1. record[a] \in Active /\ "resolved" \in Terminal
            BY <2>1 DEF Active, Terminal
        <3>2. UNCHANGED <<resolution, callback, task, calls, todo, job>> /\ pc[h] \notin Busy
            BY <1>9, <2>1 DEF Fail, GoTo, futures, cancellation, Busy, Telling
        <3>3. Closing(h, a, {}) /\ record'[a] \in {"resolved", "gone"}
            BY <1>1, <2>1, <3>1, <3>2, PrunedClosing
        <3>4. pc' = [pc EXCEPT ![h] = "failed"]
            BY <2>1 DEF GoTo
        <3>5. HostCloses(h, a, "failed", {})
            BY <3>2, <3>3, <3>4 DEF HostCloses, Sentence, Telling, TypeOK
        <3> QED BY <1>1, <3>5 DEF Kind, Telling
    <2>2. CASE GoTo(h, "dropping") /\ UNCHANGED <<record, doomed>>
        <3>1. UNCHANGED <<resolution, callback, task, calls, todo, job>> /\ pc[h] \notin Busy
              /\ pc' = [pc EXCEPT ![h] = "dropping"]
            BY <1>9, <2>2 DEF Fail, GoTo, futures, cancellation, Busy, Telling
        <3> QED BY <1>2, <1>3, <2>2, <3>1 DEF Busy, Telling
    <2> QED BY <1>9, <2>1, <2>2 DEF Fail
<1>10. CASE Failed(h)
    <2>1. \A b \in Approval : callback'[b] = "resolving" <=> callback[b] = "resolving"
        BY <1>10, ExecutionDestroyed DEF Failed
    <2>2. Word(pc[h]) = "failed" /\ pc[h] \in Telling /\ "idle" \notin Busy
        BY <1>10 DEF Failed, Word, Telling, Busy
    <2>3. HostAnswers(h)
        BY <1>10, <2>1, <2>2 DEF Failed, Return, At, cancellation, HostAnswers, Answering, TypeOK
    <2> QED BY <2>3 DEF Kind
<1>11. CASE Inform(h)
    <2>1. Word(pc[h]) = pc[h] /\ pc[h] \in Telling /\ "idle" \notin Busy
        BY <1>11 DEF Inform, Word, Telling, Busy
    <2>2. HostAnswers(h)
        BY <1>11, <2>1 DEF Inform, Return, At, cancellation, HostAnswers, Answering, TypeOK
    <2> QED BY <2>2 DEF Kind
<1>12. ASSUME NEW b \in Approval, CancelPending(h, b) PROVE Kind
    <2>1. pc[h] = "idle" /\ todo' = [todo EXCEPT ![h] = @ \ {<<b, "pending">>}]
          /\ UNCHANGED futures
        BY <1>12 DEF CancelPending, Reach
    <2>4. \A k \in Host : k # h => todo'[k] = todo[k]
        BY <2>1 DEF TypeOK
    <2>2. CASE DenyRecord(h, b)
        BY <2>1, <2>2, <2>4, DenyKind
    <2>3. CASE UNCHANGED <<record, doomed, pc, job>>
        <3>1. UNCHANGED <<resolution, callback, task, calls>> /\ pc' = [pc EXCEPT ![h] = "idle"]
            BY <2>1, <2>3 DEF futures, TypeOK
        <3> QED BY <1>2, <1>3, <2>1, <2>3, <2>4, <3>1 DEF Busy, Telling
    <2> QED BY <1>12, <2>2, <2>3 DEF CancelPending
<1>13. ASSUME NEW b \in Approval, NEW s \in Gated, CancelOwned(h, b, s) PROVE Kind
    <2>1. pc[h] = "idle" /\ todo' = [todo EXCEPT ![h] = @ \ {<<b, s>>}]
          /\ UNCHANGED <<resolution, callback, task, calls>> /\ pc[h] \notin Busy
        BY <1>13 DEF CancelOwned, Reach, futures, Busy, Telling
    <2>2. \A k \in Host : k # h => todo'[k] = todo[k]
        BY <2>1 DEF TypeOK
    <2>3. CASE /\ record[b] \in {"approved", "scheduled"}
               /\ Prune(h, [record EXCEPT ![b] = "cancelled"])
               /\ At(h, IF record[b] \in Attached THEN "recalling" ELSE "withdrawing", b)
        <3>1. PICK p \in {"recalling", "withdrawing"} :
                  pc' = [pc EXCEPT ![h] = p] /\ job' = [job EXCEPT ![h] = b]
            BY <2>3 DEF At
        <3>2. record[b] \in Active /\ "cancelled" \in Terminal
            BY <2>3 DEF Active, Terminal
        <3>3. Closing(h, b, {}) /\ record'[b] \in {"cancelled", "gone"}
            BY <1>1, <2>1, <2>3, <3>2, PrunedClosing
        <3>4. Sentence(p) = "cancelled" /\ p \in Telling
            BY DEF Sentence, Telling
        <3>5. HostCloses(h, b, p, {})
            BY <2>1, <2>2, <3>1, <3>3, <3>4 DEF HostCloses, TypeOK
        <3> QED BY <3>4, <3>5 DEF Kind
    <2>4. CASE /\ record[b] = "executing"
               /\ record' = [record EXCEPT ![b] = "cancelling"]
               /\ At(h, "interrupting", b) /\ UNCHANGED doomed
        <3>1. Onward
            BY <2>1, <2>4, VerdictOfState DEF Onward, Active, Claimed
        <3>2. pc' = [pc EXCEPT ![h] = "interrupting"] /\ "interrupting" \notin Busy
              /\ \A k \in Host : k # h => job'[k] = job[k]
            BY <2>4 DEF At, TypeOK, Busy, Telling
        <3> QED BY <1>2, <2>1, <2>2, <2>4, <3>1, <3>2
    <2>5. CASE UNCHANGED <<record, doomed, pc, job>>
        <3>1. pc' = [pc EXCEPT ![h] = "idle"]
            BY <2>1, <2>5 DEF TypeOK
        <3> QED BY <1>2, <1>3, <2>1, <2>2, <2>5, <3>1 DEF Busy, Telling
    <2> QED BY <1>13, <2>3, <2>4, <2>5 DEF CancelOwned
<1>14. CASE Withdraw(h)
    <2>1. \A b \in Approval : callback'[b] = "resolving" <=> callback[b] = "resolving"
        BY <1>14, ExecutionCancelled DEF Withdraw
    <2>2. Word(pc[h]) = "cancelled" /\ pc[h] \in Telling /\ "idle" \notin Busy
        BY <1>14 DEF Withdraw, Word, Telling, Busy
    <2>3. HostAnswers(h)
        BY <1>14, <2>1, <2>2 DEF Withdraw, Return, At, cancellation, HostAnswers, Answering, TypeOK
    <2> QED BY <2>3 DEF Kind
<1>15. CASE InterruptExecution(h)
    <2>1. \A b \in Approval : callback'[b] = "resolving" <=> callback[b] = "resolving"
        BY <1>15, ExecutionCancelled DEF InterruptExecution
    <2>2. pc' = [pc EXCEPT ![h] = "idle"]
          /\ UNCHANGED <<record, resolution, task, calls, todo, doomed>> /\ pc[h] \notin Busy
          /\ \A k \in Host : k # h => job'[k] = job[k]
        BY <1>15 DEF InterruptExecution, Return, At, cancellation, Busy, Telling, TypeOK
    <2> QED BY <1>2, <1>3, <2>1, <2>2 DEF Busy, Telling
<1>16. CASE EndSweep(h)
    <2>1. UNCHANGED <<record, resolution, callback, task, calls, todo, doomed, job>>
          /\ pc[h] = "idle" /\ pc' = [pc EXCEPT ![h] = "idle"]
        BY <1>16 DEF EndSweep, futures, TypeOK
    <2> QED BY <1>2, <1>3, <2>1 DEF Busy, Telling
<1>17. CASE Clear(h)
    <2>1. UNCHANGED <<resolution, doomed, callback, task, calls>>
          /\ pc[h] = "idle" /\ pc' = [pc EXCEPT ![h] = "destroying"] /\ job' = [job EXCEPT ![h] = 1]
        BY <1>17 DEF Clear, futures, At
    <2>2. \A b \in Approval : record'[b] = IF record[b] \in Active \cup Terminal THEN "gone"
                                            ELSE record[b]
        BY <1>17 DEF Clear
    <2>3. record' \in [Approval -> State]
        BY <1>17 DEF Clear, TypeOK, State
    <2>4. todo' = [todo EXCEPT ![h] = {<<b, record[b]>> :
                       b \in {b \in Approval : record[b] \in Active \cup Terminal}}]
        BY <1>17 DEF Clear
    <2>5. Clears(h)
        BY <2>1, <2>2, <2>3, <2>4 DEF Clears, TypeOK, Busy, Telling
    <2> QED BY <2>5 DEF Kind
<1>18. CASE DestroyContext(h)
    <2> DEFINE S == {b \in Approval : \E s \in Active \cup Terminal : <<b, s>> \in todo[h]}
    <2>1. pc[h] = "destroying" /\ pc' = [pc EXCEPT ![h] = "idle"] /\ job' = [job EXCEPT ![h] = 1]
          /\ todo' = [todo EXCEPT ![h] = {}] /\ UNCHANGED <<record, task, calls, doomed>>
        BY <1>18 DEF DestroyContext, Return, At
    <2>2. resolution' = [b \in Approval |-> IF b \in S THEN "destroyed" ELSE resolution[b]]
        BY <1>18 DEF DestroyContext
    <2>3. \A b \in Approval : callback'[b] = "resolving" <=> callback[b] = "resolving"
        BY <1>18, ExecutionDestroyed DEF DestroyContext
    <2>4. Destroys(h, S)
        BY <2>1, <2>2, <2>3 DEF Destroys, TypeOK, Busy, Telling
    <2> QED BY <2>4 DEF Kind
<1> QED BY <1>4, <1>5, <1>6, <1>7, <1>8, <1>9, <1>10, <1>11, <1>12, <1>13, <1>14, <1>15,
           <1>16, <1>17, <1>18 DEF HostStep

\* So are those of a worker and of a completion callback.
LEMMA WorkerKind ==
    ASSUME Inv, NEW a \in Approval, WorkerStep(a) \/ CallbackStep(a) PROVE Kind
<1> TypeOK /\ AnswerInv /\ a \in Thread
    BY DEF Inv, Thread
<1>1. ASSUME UNCHANGED <<resolution, doomed, pc, job, todo>>,
             \A b \in Approval : callback'[b] = "resolving" <=> callback[b] = "resolving", Onward
      PROVE  Kind
    BY <1>1 DEF Kind, Undisturbed
<1>2. ASSUME NEW s \in {"waiting", "started", "claimed", "running", "over"},
             task' = [task EXCEPT ![a] = s]
      PROVE  /\ s # "claimed" /\ task[a] # "claimed" => Claimed' = Claimed
             /\ s # "claimed" /\ task[a] = "claimed" => a \in Claimed /\ Claimed' = Claimed \ {a}
             /\ s = "claimed" => Claimed' = Claimed \cup {a}
    BY <1>2 DEF Claimed, TypeOK
<1>3. ASSUME Finish(a), UNCHANGED <<record, resolution, calls, pc, job, cancellation, doomed>>
      PROVE  Kind
    <2>1. \A b \in Approval : callback'[b] = "resolving" <=> callback[b] = "resolving"
        BY <1>3, Finished
    <2>2. task' = [task EXCEPT ![a] = "over"]
        BY <1>3, Finished
    <2>4. \/ Claimed' = Claimed
          \/ a \in Claimed /\ Claimed' = Claimed \ {a}
        BY <1>2, <2>2
    <2>3. Onward
        BY <1>3, <2>4, Zenon DEF Onward
    <2> QED BY <1>1, <1>3, <2>1, <2>3 DEF cancellation
<1>4. CASE Dequeue(a)
    <2>1. task[a] # "claimed" /\ UNCHANGED <<record, resolution, callback, calls, pc, job, todo, doomed>>
          /\ \E s \in {"waiting", "over"} : task' = [task EXCEPT ![a] = s]
        BY <1>4 DEF Dequeue, Proceed, cancellation
    <2>2. Onward
        BY <1>2, <2>1 DEF Onward
    <2> QED BY <1>1, <2>1, <2>2
<1>5. CASE Wake(a)
    <2>1. CASE Proceed(a, "started") /\ UNCHANGED <<exec, callback>>
        <3>1. task[a] # "claimed" /\ task' = [task EXCEPT ![a] = "started"]
              /\ UNCHANGED <<record, resolution, callback, calls, pc, job, todo, doomed>>
            BY <1>5, <2>1 DEF Wake, Proceed, cancellation
        <3>2. Onward
            BY <1>2, <3>1 DEF Onward
        <3> QED BY <1>1, <3>1, <3>2
    <2> QED BY <1>3, <1>5, <2>1 DEF Wake
<1>6. CASE ClaimExecution(a)
    <2>1. CASE /\ record[a] = "scheduled" /\ record' = [record EXCEPT ![a] = "executing"]
               /\ Proceed(a, "claimed") /\ UNCHANGED <<gate, exec, callback>>
        <3>1. UNCHANGED <<resolution, callback, calls, pc, job, todo, doomed>>
              /\ task' = [task EXCEPT ![a] = "claimed"]
            BY <1>6, <2>1 DEF ClaimExecution, Proceed, cancellation
        <3>3. Claimed' = Claimed \cup {a}
            BY <1>2, <3>1
        <3>4. "executing" \in Active /\ record[a] \in Active
            BY <2>1 DEF Active
        <3>2. Onward
            BY <2>1, <3>1, <3>3, <3>4, Zenon DEF Onward
        <3> QED BY <1>1, <3>1, <3>2
    <2> QED BY <1>3, <1>6, <2>1 DEF ClaimExecution
<1>7. CASE CallContinuation(a)
    <2>1. task[a] = "claimed" /\ task' = [task EXCEPT ![a] = "running"]
          /\ calls' = [calls EXCEPT ![a] = @ + 1]
          /\ UNCHANGED <<record, resolution, callback, pc, job, todo, doomed>>
        BY <1>7 DEF CallContinuation, Proceed, cancellation
    <2>3. a \in Claimed /\ Claimed' = Claimed \ {a}
        BY <1>2, <2>1
    <2>2. Onward
        BY <2>1, <2>3, Zenon DEF Onward
    <2> QED BY <1>1, <2>1, <2>2
<1>8. CASE EndExecution(a)
    BY <1>3, <1>8 DEF EndExecution
<1>9. CASE Complete(a)
    <2>1. callback[a] = "due" /\ UNCHANGED <<resolution, task, calls, pc, job, todo>>
        BY <1>9 DEF Complete, cancellation
    <2>2. ASSUME NEW s \in {"resolved", "cancelled"}, record[a] \in Attached,
                 Prune(a, [record EXCEPT ![a] = s]), callback' = [callback EXCEPT ![a] = "resolving"]
          PROVE  Kind
        <3>1. record[a] \in Active /\ s \in Terminal
            BY <2>2 DEF Attached, Gated, Active, Terminal
        <3>2. Closing(a, a, {}) /\ record'[a] \in {s, "gone"}
            BY <2>1, <2>2, <3>1, PrunedClosing
        <3>3. CallbackCloses(a)
            BY <2>1, <2>2, <3>2 DEF CallbackCloses
        <3> QED BY <3>3 DEF Kind
    <2>3. CASE callback' = [callback EXCEPT ![a] = "ignoring"] /\ UNCHANGED <<record, doomed>>
        <3>1. Onward
            BY <2>1, <2>3 DEF Onward, Claimed
        <3>2. \A b \in Approval : callback'[b] = "resolving" <=> callback[b] = "resolving"
            BY <2>1, <2>3 DEF TypeOK
        <3> QED BY <1>1, <2>1, <2>3, <3>1, <3>2
    <2> QED BY <1>9, <2>2, <2>3 DEF Complete
<1>10. CASE Release(a)
    <2>1. callback' = [callback EXCEPT ![a] = "done"] /\ doomed' = [doomed EXCEPT ![a] = {}]
          /\ UNCHANGED <<record, task, calls, pc, job, todo>>
        BY <1>10 DEF Release, cancellation
    <2>2. CASE callback[a] = "resolving"
        <3>1. Resolve(a, "result", doomed[a])
            BY <1>10, <2>2 DEF Release
        <3>2. CallbackAnswers(a)
            BY <2>1, <2>2, <3>1 DEF CallbackAnswers, Answering
        <3> QED BY <3>2 DEF Kind
    <2>3. CASE callback[a] = "ignoring"
        <3>1. resolution' = resolution
            BY <1>10, <2>3 DEF Release
        <3>2. doomed[a] = {}
            BY <2>3 DEF AnswerInv, DoomedAreHeld
        <3>3. doomed' = doomed
            BY <2>1, <3>2 DEF TypeOK
        <3>4. Onward
            BY <2>1 DEF Onward, Claimed
        <3>5. \A b \in Approval : callback'[b] = "resolving" <=> callback[b] = "resolving"
            BY <2>1, <2>3 DEF TypeOK
        <3> QED BY <1>1, <2>1, <3>1, <3>3, <3>4, <3>5
    <2> QED BY <1>10, <2>2, <2>3 DEF Release
<1> QED BY <1>4, <1>5, <1>6, <1>7, <1>8, <1>9, <1>10 DEF WorkerStep, CallbackStep

\* So are proposals, verdicts and the beginning of a sweep.
LEMMA CallKind ==
    ASSUME Inv,
           \/ \E a \in Approval : Propose(a)
           \/ \E h \in Host, a \in Approval : Approve(h, a) \/ Deny(h, a)
           \/ \E h \in Host, a, b \in Approval : Edit(h, a, b)
           \/ \E h \in Host, purpose \in Purpose : Sweep(h, purpose)
    PROVE  Kind
<1> TypeOK
    BY DEF Inv
<1>1. ASSUME NEW a \in Approval, Propose(a) PROVE Kind
    <2>1. Opens(a)
        BY <1>1 DEF Propose, Fresh, Opens, cancellation
    <2> QED BY <2>1 DEF Kind
<1>2. ASSUME NEW h \in Host, NEW a \in Approval, Approve(h, a) PROVE Kind
    <2>1. record[a] = "pending" /\ record' = [record EXCEPT ![a] = "approved"]
          /\ pc[h] = "idle" /\ pc' = [pc EXCEPT ![h] = "submitting"]
          /\ UNCHANGED <<resolution, task, callback, calls, todo, doomed>>
        BY <1>2 DEF Approve, Idle, At, cancellation
    <2>2. Onward
        BY <2>1 DEF Onward, Active, Claimed
    <2>3. \A k \in Host : pc[k] \in Busy \/ pc'[k] \in Busy => k # h
        BY <2>1 DEF TypeOK, Busy, Telling
    <2>4. \A k \in Host : k # h => pc'[k] = pc[k] /\ job'[k] = job[k] /\ todo'[k] = todo[k]
        BY <1>2, <2>1 DEF TypeOK, Approve, At
    <2> QED BY <2>1, <2>2, <2>3, <2>4 DEF Kind, Undisturbed
<1>3. ASSUME NEW h \in Host, NEW a \in Approval, Deny(h, a) PROVE Kind
    BY <1>3, DenyKind DEF Deny, Idle, cancellation
<1>4. ASSUME NEW h \in Host, NEW a \in Approval, NEW b \in Approval, Edit(h, a, b) PROVE Kind
    <2> DEFINE r == [record EXCEPT ![a] = "superseded", ![b] = "pending"]
    <2>1. record[a] = "pending" /\ record[b] = "free" /\ Prune(h, r)
          /\ resolution' = [resolution EXCEPT ![b] = "pending"]
          /\ pc[h] = "idle" /\ pc' = [pc EXCEPT ![h] = "superseded"] /\ job' = [job EXCEPT ![h] = a]
          /\ UNCHANGED <<task, callback, calls, todo>>
        BY <1>4 DEF Edit, Idle, Fresh, At, cancellation
    <2>2. a # b
        BY <2>1
    <2>3. r \in [Approval -> State] /\ r[a] = "superseded" /\ r[b] = "pending"
          /\ \A c \in Approval : c # a /\ c # b => r[c] = record[c]
        BY <2>2 DEF TypeOK, State, Active, Terminal
    <2> HIDE DEF r
    <2>4. h \in Thread
        BY DEF Thread
    <2>5. /\ \A c \in Approval :
                \/ record'[c] = r[c]
                \/ r[c] \in Terminal /\ record'[c] = "gone" /\ c \in doomed'[h]
          /\ \A c \in doomed'[h] : c \in Approval /\ record'[c] = "gone"
          /\ \A u \in Thread : u # h => doomed'[u] = doomed[u]
        BY <2>1, <2>3, <2>4, Pruned
    <2>6. resolution' = [c \in Approval |-> IF c \in {b} THEN "pending" ELSE resolution[c]]
        BY <2>1 DEF TypeOK
    <2>7. Closing(h, a, {b})
        BY <2>1, <2>2, <2>3, <2>5, <2>6 DEF Closing, Active, Terminal
    <2>8. record'[a] \in {"superseded", "gone"}
        BY <2>3, <2>5
    <2>9. HostCloses(h, a, "superseded", {b})
        BY <2>1, <2>7, <2>8 DEF HostCloses, Sentence, Telling, Busy, TypeOK
    <2> QED BY <2>9 DEF Kind, Telling
<1>5. ASSUME NEW h \in Host, NEW purpose \in Purpose, Sweep(h, purpose) PROVE Kind
    <2>1. UNCHANGED <<record, resolution, callback, task, calls, pc, job, doomed>> /\ pc[h] = "idle"
        BY <1>5 DEF Sweep, Idle, futures
    <2>2. \A k \in Host : k # h => todo'[k] = todo[k]
        BY <1>5 DEF Sweep, TypeOK
    <2>3. Onward
        BY <2>1 DEF Onward, Claimed
    <2> QED BY <2>1, <2>2, <2>3 DEF Kind, Undisturbed, Busy, Telling
<1> QED BY <1>1, <1>2, <1>3, <1>4, <1>5

\* Every step is of one of the kinds.
LEMMA StepKind ==
    ASSUME Inv, [Next]_vars PROVE Kind
<1>1. CASE UNCHANGED vars
    BY <1>1 DEF vars, futures, cancellation, Kind, Undisturbed, Onward, Claimed
<1> QED BY <1>1, HostKind, WorkerKind, CallKind DEF Next

-----------------------------------------------------------------------------
(* The answers follow the records.                                         *)

\* A closing by t leaves every operation with an answer, or someone to give it.
LEMMA ClosingKeeps ==
    ASSUME TypeOK, TypeOK', AnswerInv, NEW t \in Thread, NEW a \in Approval,
           NEW new \in SUBSET Approval, Closing(t, a, new),
           doomed[t] = {}, record'[a] \in Terminal \cup {"gone"}, resolution'[a] = "pending"
    PROVE  /\ \A u \in Thread : \A b \in doomed'[u] : record'[b] = "gone"
           /\ \A b \in Approval : record[b] = "gone" => record'[b] = "gone"
           /\ \A b \in Approval : record[b] \in Terminal => record'[b] \in {record[b], "gone"}
           /\ FreeIsUntold' /\ AnswersMatchRecords'
<1>1. \A b \in Approval : record[b] \in Terminal \cup {"gone", "free"} => b # a
    BY DEF Closing, Active, Terminal
<1>2. \A b \in Approval : record[b] \in Terminal \cup {"gone"} => b \notin new
    BY DEF Closing, Terminal
<1>3. \A b \in Approval : record[b] = "gone" => record'[b] = "gone"
    BY <1>1, <1>2 DEF Closing, Terminal
<1>4. \A b \in Approval : record[b] \in Terminal => record'[b] \in {record[b], "gone"}
    BY <1>1, <1>2 DEF Closing
<1>5. \A u \in Thread : \A b \in doomed'[u] : record'[b] = "gone"
    <2> SUFFICES ASSUME NEW u \in Thread, NEW b \in doomed'[u] PROVE record'[b] = "gone"
        OBVIOUS
    <2>1. CASE u = t
        BY <2>1 DEF Closing
    <2>2. CASE u # t
        <3>1. b \in doomed[u] /\ b \in Approval
            BY <2>2 DEF Closing, TypeOK, Thread
        <3> QED BY <1>3, <3>1 DEF AnswerInv, TellersAgree
    <2> QED BY <2>1, <2>2
<1>6. ASSUME NEW b \in Approval, b # a, b \notin new
      PROVE  /\ resolution'[b] = resolution[b]
             /\ record'[b] = record[b] \/ record'[b] = "gone"
    BY <1>6 DEF Closing
<1>7. ASSUME NEW b \in new
      PROVE  resolution'[b] = "pending" /\ record'[b] = "pending" /\ b \in Approval
    BY <1>7 DEF Closing
<1>8. FreeIsUntold'
    BY <1>6, <1>7 DEF FreeIsUntold, AnswerInv, Terminal
<1>9. AnswersMatchRecords'
    <2> SUFFICES ASSUME NEW b \in Approval
                 PROVE  /\ record'[b] \in Active => resolution'[b] = "pending"
                        /\ record'[b] = "resolved" => resolution'[b] \in {"result", "failed"} \cup {"pending", "destroyed"}
                        /\ record'[b] = "cancelled" => resolution'[b] \in {"cancelled", "result"} \cup {"pending", "destroyed"}
                        /\ record'[b] = "denied" => resolution'[b] \in {"denied"} \cup {"pending", "destroyed"}
                        /\ record'[b] = "superseded" => resolution'[b] \in {"superseded"} \cup {"pending", "destroyed"}
        BY DEF AnswersMatchRecords
    <2>1. CASE b = a \/ b \in new
        BY <1>7, <2>1
    <2>2. CASE b # a /\ b \notin new
        BY <1>6, <2>2 DEF AnswerInv, AnswersMatchRecords, Active
    <2> QED BY <2>1, <2>2
<1> QED BY <1>3, <1>4, <1>5, <1>8, <1>9

\* Who is to answer operation b, or to destroy it in a teardown.
OwedBy(b) ==
    \/ callback[b] = "resolving"
    \/ \E h \in Host : job[h] = b /\ pc[h] \in Telling
    \/ \E h \in Host : pc[h] = "destroying" /\ \E s \in Active \cup Terminal : <<b, s>> \in todo[h]

\* ClosedIsAnswered, operation by operation.
LEMMA Owing ==
    ClosedIsAnswered <=>
        \A b \in Approval : record[b] \in Terminal \cup {"gone"} /\ resolution[b] = "pending" => OwedBy(b)
BY DEF ClosedIsAnswered, OwedBy, Telling

\* Closing by a host keeps the answers in order,
LEMMA HostCloseKeeps ==
    ASSUME TypeOK, TypeOK', AnswerInv, NEW h \in Host, NEW a \in Approval, NEW p \in Telling,
           NEW new \in SUBSET Approval, HostCloses(h, a, p, new)
    PROVE  AnswerInv'
<1>0. h \in Thread /\ Closing(h, a, new)
    BY DEF Thread, HostCloses
<1>1. doomed[h] = {}
    BY DEF HostCloses, AnswerInv, DoomedAreHeld, Busy
<1>2. record'[a] \in Terminal \cup {"gone"} /\ resolution'[a] = "pending"
    BY <1>0 DEF HostCloses, Closing, Sentence, Telling, Terminal, AnswerInv, AnswersMatchRecords
<1>3. /\ \A u \in Thread : \A b \in doomed'[u] : record'[b] = "gone"
      /\ \A b \in Approval : record[b] = "gone" => record'[b] = "gone"
      /\ \A b \in Approval : record[b] \in Terminal => record'[b] \in {record[b], "gone"}
      /\ FreeIsUntold' /\ AnswersMatchRecords'
    BY <1>0, <1>1, <1>2, ClosingKeeps
<1>4. TellersAgree'
    <2>1. ASSUME NEW k \in Host, pc'[k] \in Telling
          PROVE  record'[job'[k]] \in {Sentence(pc'[k]), "gone"}
        <3>1. CASE k = h
            BY <3>1 DEF HostCloses
        <3>2. CASE k # h
            <4>1. pc'[k] = pc[k] /\ job'[k] = job[k] /\ job[k] \in Approval
                BY <3>2 DEF HostCloses, TypeOK
            <4>2. record[job[k]] \in {Sentence(pc[k]), "gone"} /\ Sentence(pc[k]) \in Terminal
                BY <2>1, <4>1 DEF AnswerInv, TellersAgree, Sentence, Telling, Terminal
            <4> QED BY <1>3, <4>1, <4>2
        <3> QED BY <3>1, <3>2
    <2>2. ASSUME NEW b \in Approval, callback'[b] = "resolving"
          PROVE  record'[b] \in {"resolved", "cancelled", "gone"}
        <3>1. record[b] \in {"resolved", "cancelled", "gone"}
            BY <2>2 DEF HostCloses, AnswerInv, TellersAgree
        <3> QED BY <1>3, <3>1 DEF Terminal
    <2>3. ASSUME NEW k \in Host, pc'[k] = "destroying", NEW x \in todo'[k]
          PROVE  record'[x[1]] = "gone"
        <3>1. k # h
            BY <2>3 DEF HostCloses, Telling
        <3>2. pc[k] = "destroying" /\ x \in todo[k] /\ x[1] \in Approval
            BY <2>3, <3>1 DEF HostCloses, TypeOK
        <3> QED BY <1>3, <3>2 DEF AnswerInv, TellersAgree
    <2> QED BY <1>3, <2>1, <2>2, <2>3 DEF TellersAgree
<1>5. DoomedAreHeld'
    <2>1. ASSUME NEW k \in Host, doomed'[k] # {} PROVE pc'[k] \in Telling
        BY <1>0, <2>1 DEF HostCloses, Closing, AnswerInv, DoomedAreHeld, Thread
    <2>2. ASSUME NEW b \in Approval, doomed'[b] # {} PROVE callback'[b] = "resolving"
        BY <1>0, <2>2, HostAssumption DEF HostCloses, Closing, AnswerInv, DoomedAreHeld, Thread
    <2> QED BY <2>1, <2>2 DEF DoomedAreHeld
<1>6. ClosedIsAnswered'
    <2> SUFFICES ASSUME NEW b \in Approval, record'[b] \in Terminal \cup {"gone"},
                        resolution'[b] = "pending"
                 PROVE  OwedBy(b)'
        BY DEF ClosedIsAnswered, OwedBy, Telling
    <2>1. CASE b = a
        BY <2>1 DEF HostCloses, OwedBy
    <2>2. CASE b # a
        <3>1. b \notin new
            BY <1>0 DEF Closing, Terminal
        <3>2. record[b] \in Terminal \cup {"gone"} /\ resolution[b] = "pending"
            BY <1>0, <2>2, <3>1 DEF Closing
        <3>3. OwedBy(b)
            BY <3>2, Owing DEF AnswerInv
        <3>4. CASE callback[b] = "resolving"
            BY <3>4 DEF HostCloses, OwedBy
        <3>5. ASSUME NEW k \in Host, pc[k] \in Busy
              PROVE  pc'[k] = pc[k] /\ job'[k] = job[k] /\ todo'[k] = todo[k]
            BY <3>5 DEF HostCloses
        <3> QED BY <3>3, <3>4, <3>5 DEF OwedBy, Busy
    <2> QED BY <2>1, <2>2
<1> QED BY <1>3, <1>4, <1>5, <1>6 DEF AnswerInv

\* and so does closing by a callback.
LEMMA CallbackCloseKeeps ==
    ASSUME TypeOK, TypeOK', AnswerInv, NEW a \in Approval, CallbackCloses(a) PROVE AnswerInv'
<1>0. a \in Thread /\ Closing(a, a, {}) /\ callback'[a] = "resolving"
      /\ \A b \in Approval : b # a => callback'[b] = callback[b]
    BY DEF Thread, CallbackCloses, TypeOK
<1>1. doomed[a] = {}
    BY DEF CallbackCloses, AnswerInv, DoomedAreHeld
<1>2. record'[a] \in Terminal \cup {"gone"} /\ resolution'[a] = "pending"
    BY <1>0 DEF CallbackCloses, Closing, Terminal, AnswerInv, AnswersMatchRecords
<1>3. /\ \A u \in Thread : \A b \in doomed'[u] : record'[b] = "gone"
      /\ \A b \in Approval : record[b] = "gone" => record'[b] = "gone"
      /\ \A b \in Approval : record[b] \in Terminal => record'[b] \in {record[b], "gone"}
      /\ FreeIsUntold' /\ AnswersMatchRecords'
    BY <1>0, <1>1, <1>2, ClosingKeeps
<1>4. TellersAgree'
    <2>1. ASSUME NEW k \in Host, pc'[k] \in Telling
          PROVE  record'[job'[k]] \in {Sentence(pc'[k]), "gone"}
        <3>1. pc'[k] = pc[k] /\ job'[k] = job[k] /\ job[k] \in Approval
            BY DEF CallbackCloses, TypeOK
        <3>2. record[job[k]] \in {Sentence(pc[k]), "gone"} /\ Sentence(pc[k]) \in Terminal
            BY <2>1, <3>1 DEF AnswerInv, TellersAgree, Sentence, Telling, Terminal
        <3> QED BY <1>3, <3>1, <3>2
    <2>2. ASSUME NEW b \in Approval, callback'[b] = "resolving"
          PROVE  record'[b] \in {"resolved", "cancelled", "gone"}
        <3>1. CASE b = a
            BY <3>1 DEF CallbackCloses
        <3>2. CASE b # a
            BY <1>0, <1>3, <2>2, <3>2 DEF AnswerInv, TellersAgree, Terminal
        <3> QED BY <3>1, <3>2
    <2>3. ASSUME NEW k \in Host, pc'[k] = "destroying", NEW x \in todo'[k]
          PROVE  record'[x[1]] = "gone"
        <3>2. pc[k] = "destroying" /\ x \in todo[k] /\ x[1] \in Approval
            BY <2>3 DEF CallbackCloses, TypeOK
        <3> QED BY <1>3, <3>2 DEF AnswerInv, TellersAgree
    <2> QED BY <1>3, <2>1, <2>2, <2>3 DEF TellersAgree
<1>5. DoomedAreHeld'
    <2>1. ASSUME NEW k \in Host, doomed'[k] # {} PROVE pc'[k] \in Telling
        BY <1>0, <2>1, HostAssumption DEF CallbackCloses, Closing, AnswerInv, DoomedAreHeld, Thread
    <2>2. ASSUME NEW b \in Approval, doomed'[b] # {} PROVE callback'[b] = "resolving"
        BY <1>0, <2>2 DEF Closing, AnswerInv, DoomedAreHeld, Thread
    <2> QED BY <2>1, <2>2 DEF DoomedAreHeld
<1>6. ClosedIsAnswered'
    <2> SUFFICES ASSUME NEW b \in Approval, record'[b] \in Terminal \cup {"gone"},
                        resolution'[b] = "pending"
                 PROVE  OwedBy(b)'
        BY DEF ClosedIsAnswered, OwedBy, Telling
    <2>1. CASE b = a
        BY <1>0, <2>1 DEF OwedBy
    <2>2. CASE b # a
        <3>1. record[b] \in Terminal \cup {"gone"} /\ resolution[b] = "pending"
            BY <1>0, <2>2 DEF Closing
        <3>2. OwedBy(b)
            BY <3>1, Owing DEF AnswerInv
        <3> QED BY <1>0, <2>2, <3>2 DEF CallbackCloses, OwedBy
    <2> QED BY <2>1, <2>2
<1> QED BY <1>3, <1>4, <1>5, <1>6 DEF AnswerInv

\* What nobody disturbs stays in order.
LEMMA UndisturbedKeeps ==
    ASSUME TypeOK, TypeOK', AnswerInv, Undisturbed PROVE AnswerInv'
<1>1. \A b \in Approval : \/ record'[b] = record[b]
                          \/ record[b] \in Active /\ record'[b] \in Active
    BY DEF Undisturbed, Onward, TypeOK
<1>2. /\ resolution' = resolution /\ doomed' = doomed
      /\ \A b \in Approval : callback'[b] = "resolving" <=> callback[b] = "resolving"
      /\ \A k \in Host : pc[k] \in Busy \/ pc'[k] \in Busy =>
            pc'[k] = pc[k] /\ job'[k] = job[k] /\ todo'[k] = todo[k]
    BY DEF Undisturbed
<1>3. \A b \in Approval : record[b] \notin Active => record'[b] = record[b]
    BY <1>1
<1>4. TellersAgree'
    <2>1. ASSUME NEW k \in Host, pc'[k] \in Telling
          PROVE  record'[job'[k]] \in {Sentence(pc'[k]), "gone"}
        <3>1. pc'[k] = pc[k] /\ job'[k] = job[k] /\ job[k] \in Approval
            BY <1>2, <2>1 DEF Busy, TypeOK
        <3>2. record[job[k]] \in {Sentence(pc[k]), "gone"} /\ Sentence(pc[k]) \in Terminal
            BY <2>1, <3>1 DEF AnswerInv, TellersAgree, Sentence, Telling, Terminal
        <3> QED BY <1>3, <3>1, <3>2 DEF Active, Terminal
    <2>2. ASSUME NEW b \in Approval, callback'[b] = "resolving"
          PROVE  record'[b] \in {"resolved", "cancelled", "gone"}
        BY <1>2, <1>3, <2>2 DEF AnswerInv, TellersAgree, Active
    <2>3. ASSUME NEW k \in Host, pc'[k] = "destroying", NEW x \in todo'[k]
          PROVE  record'[x[1]] = "gone"
        <3>1. pc[k] = "destroying" /\ x \in todo[k] /\ x[1] \in Approval
            BY <1>2, <2>3 DEF Busy, TypeOK
        <3> QED BY <1>3, <3>1 DEF AnswerInv, TellersAgree, Active
    <2>4. ASSUME NEW t \in Thread, NEW b \in doomed'[t] PROVE record'[b] = "gone"
        <3>1. b \in Approval /\ record[b] = "gone"
            BY <1>2, <2>4 DEF AnswerInv, TellersAgree, TypeOK, Thread
        <3> QED BY <1>3, <3>1 DEF Active
    <2> QED BY <2>1, <2>2, <2>3, <2>4 DEF TellersAgree
<1>5. DoomedAreHeld'
    <2>1. ASSUME NEW k \in Host, doomed'[k] # {} PROVE pc'[k] \in Telling
        BY <1>2, <2>1 DEF AnswerInv, DoomedAreHeld, Busy
    <2> QED BY <1>2, <2>1 DEF AnswerInv, DoomedAreHeld
<1>6. FreeIsUntold'
    BY <1>1, <1>2 DEF AnswerInv, FreeIsUntold, Active
<1>7. AnswersMatchRecords'
    BY <1>1, <1>2 DEF AnswerInv, AnswersMatchRecords, Active
<1>8. ClosedIsAnswered'
    <2> SUFFICES ASSUME NEW b \in Approval, record'[b] \in Terminal \cup {"gone"},
                        resolution'[b] = "pending"
                 PROVE  OwedBy(b)'
        BY DEF ClosedIsAnswered, OwedBy, Telling
    <2>1. record[b] = record'[b] /\ resolution[b] = "pending"
        BY <1>1, <1>2 DEF Active, Terminal
    <2>2. OwedBy(b)
        BY <2>1, Owing DEF AnswerInv
    <2> QED BY <1>2, <2>2 DEF OwedBy, Busy
<1> QED BY <1>4, <1>5, <1>6, <1>7, <1>8 DEF AnswerInv

\* A proposal is owed nothing yet.
LEMMA OpensKeeps ==
    ASSUME TypeOK, TypeOK', AnswerInv, NEW a \in Approval, Opens(a) PROVE AnswerInv'
<1>1. /\ record[a] = "free" /\ record'[a] = "pending" /\ resolution'[a] = "pending"
      /\ \A b \in Approval : b # a => record'[b] = record[b] /\ resolution'[b] = resolution[b]
      /\ UNCHANGED <<doomed, callback, pc, job, todo>>
    BY DEF Opens, TypeOK
<1>2. \A b \in Approval : record[b] # "free" => record'[b] = record[b]
    BY <1>1
<1>3. TellersAgree'
    <2>1. ASSUME NEW k \in Host, pc'[k] \in Telling
          PROVE  record'[job'[k]] \in {Sentence(pc'[k]), "gone"}
        <3>1. job[k] \in Approval
            BY DEF TypeOK
        <3>2. record[job[k]] \in {Sentence(pc[k]), "gone"} /\ Sentence(pc[k]) # "free"
            BY <1>1, <2>1 DEF AnswerInv, TellersAgree, Sentence, Telling
        <3> QED BY <1>1, <1>2, <3>1, <3>2
    <2>2. ASSUME NEW b \in Approval, callback'[b] = "resolving"
          PROVE  record'[b] \in {"resolved", "cancelled", "gone"}
        <3>1. record[b] \in {"resolved", "cancelled", "gone"}
            BY <1>1, <2>2 DEF AnswerInv, TellersAgree
        <3> QED BY <1>2, <3>1
    <2>3. ASSUME NEW k \in Host, pc'[k] = "destroying", NEW x \in todo'[k]
          PROVE  record'[x[1]] = "gone"
        <3>1. x[1] \in Approval /\ record[x[1]] = "gone"
            BY <1>1, <2>3 DEF AnswerInv, TellersAgree, TypeOK
        <3> QED BY <1>2, <3>1
    <2>4. ASSUME NEW t \in Thread, NEW b \in doomed'[t] PROVE record'[b] = "gone"
        <3>1. b \in Approval /\ record[b] = "gone"
            BY <1>1, <2>4 DEF AnswerInv, TellersAgree, TypeOK, Thread
        <3> QED BY <1>2, <3>1
    <2> QED BY <2>1, <2>2, <2>3, <2>4 DEF TellersAgree
<1>4. DoomedAreHeld'
    BY <1>1 DEF AnswerInv, DoomedAreHeld
<1>5. FreeIsUntold' /\ AnswersMatchRecords'
    BY <1>1 DEF AnswerInv, FreeIsUntold, AnswersMatchRecords, Active
<1>6. ClosedIsAnswered'
    BY <1>1 DEF AnswerInv, ClosedIsAnswered, Terminal
<1> QED BY <1>3, <1>4, <1>5, <1>6 DEF AnswerInv

\* An answer leaves no operation that was due to t, or to which t was due, without one.
LEMMA AnswerGiven ==
    ASSUME TypeOK, TypeOK', AnswerInv, NEW t \in Thread, NEW a \in Approval, NEW w \in Answer,
           Answering(t, a, w),
           \/ record[a] = "gone"
           \/ record[a] = "resolved" /\ w \in {"result", "failed"}
           \/ record[a] = "cancelled" /\ w \in {"cancelled", "result"}
           \/ record[a] = "denied" /\ w = "denied"
           \/ record[a] = "superseded" /\ w = "superseded"
    PROVE  /\ FreeIsUntold' /\ AnswersMatchRecords'
           /\ resolution'[a] # "pending"
           /\ \A b \in Approval : resolution'[b] = "pending" => b # a /\ resolution[b] = "pending"
           /\ doomed'[t] = {} /\ \A u \in Thread : u # t => doomed'[u] = doomed[u]
<1>0. PICK S \in {doomed[t], {}} : Resolve(a, w, S)
    BY DEF Answering
<1>1. /\ record' = record
      /\ \A b \in Approval :
            resolution'[b] = IF b \in S THEN "destroyed"
                             ELSE IF b = a /\ resolution[a] = "pending" THEN w ELSE resolution[b]
    BY <1>0 DEF Answering, Resolve
<1>2. doomed'[t] = {} /\ \A u \in Thread : u # t => doomed'[u] = doomed[u]
    BY DEF Answering, TypeOK, Thread
<1>3. \A b \in S : record[b] = "gone"
    BY <1>0 DEF AnswerInv, TellersAgree
<1>4. record[a] \notin Active \cup {"free"}
    BY DEF Active
<1>5. FreeIsUntold'
    BY <1>1, <1>3, <1>4 DEF AnswerInv, FreeIsUntold
<1>6. AnswersMatchRecords'
    <2> SUFFICES ASSUME NEW b \in Approval
                 PROVE  /\ record'[b] \in Active => resolution'[b] = "pending"
                        /\ record'[b] = "resolved" => resolution'[b] \in {"result", "failed"} \cup {"pending", "destroyed"}
                        /\ record'[b] = "cancelled" => resolution'[b] \in {"cancelled", "result"} \cup {"pending", "destroyed"}
                        /\ record'[b] = "denied" => resolution'[b] \in {"denied"} \cup {"pending", "destroyed"}
                        /\ record'[b] = "superseded" => resolution'[b] \in {"superseded"} \cup {"pending", "destroyed"}
        BY DEF AnswersMatchRecords
    <2>1. CASE b \in S
        BY <1>1, <1>3, <2>1 DEF Active
    <2>2. CASE b \notin S /\ b = a /\ resolution[a] = "pending"
        BY <1>1, <1>4, <2>2
    <2>3. CASE b \notin S /\ ~(b = a /\ resolution[a] = "pending")
        BY <1>1, <2>3 DEF AnswerInv, AnswersMatchRecords
    <2> QED BY <2>1, <2>2, <2>3
<1>7. w # "pending"
    BY DEF Answer
<1> QED BY <1>1, <1>2, <1>5, <1>6, <1>7

\* A host that answers,
LEMMA HostAnswerKeeps ==
    ASSUME TypeOK, TypeOK', AnswerInv, NEW h \in Host, HostAnswers(h) PROVE AnswerInv'
<1> DEFINE a == job[h]
<1>0. a \in Approval /\ h \in Thread /\ Word(pc[h]) \in Answer /\ Answering(h, a, Word(pc[h]))
    BY DEF HostAnswers, TypeOK, Thread, Word, Telling, Answer
<1>1. \/ record[a] = "gone"
      \/ record[a] = "resolved" /\ Word(pc[h]) \in {"result", "failed"}
      \/ record[a] = "cancelled" /\ Word(pc[h]) \in {"cancelled", "result"}
      \/ record[a] = "denied" /\ Word(pc[h]) = "denied"
      \/ record[a] = "superseded" /\ Word(pc[h]) = "superseded"
    BY DEF HostAnswers, AnswerInv, TellersAgree, Telling, Sentence, Word
<1>2. /\ FreeIsUntold' /\ AnswersMatchRecords'
      /\ resolution'[a] # "pending"
      /\ \A b \in Approval : resolution'[b] = "pending" => b # a /\ resolution[b] = "pending"
      /\ doomed'[h] = {} /\ \A u \in Thread : u # h => doomed'[u] = doomed[u]
    BY <1>0, <1>1, AnswerGiven
<1>3. /\ record' = record /\ pc'[h] \notin Busy
      /\ \A k \in Host : k # h => pc'[k] = pc[k] /\ job'[k] = job[k] /\ todo'[k] = todo[k]
      /\ \A b \in Approval : callback'[b] = "resolving" <=> callback[b] = "resolving"
    BY DEF HostAnswers, Answering
<1>4. TellersAgree'
    <2>1. ASSUME NEW k \in Host, pc'[k] \in Busy
          PROVE  pc'[k] = pc[k] /\ job'[k] = job[k] /\ todo'[k] = todo[k]
        BY <1>3, <2>1
    <2>2. ASSUME NEW u \in Thread PROVE \A b \in doomed'[u] : record'[b] = "gone"
        BY <1>2, <1>3 DEF AnswerInv, TellersAgree
    <2> QED BY <1>3, <2>1, <2>2 DEF AnswerInv, TellersAgree, Busy
<1>5. DoomedAreHeld'
    <2>1. ASSUME NEW k \in Host, doomed'[k] # {} PROVE pc'[k] \in Telling
        BY <1>2, <1>3, <2>1 DEF AnswerInv, DoomedAreHeld, Thread
    <2>2. ASSUME NEW b \in Approval, doomed'[b] # {} PROVE callback'[b] = "resolving"
        BY <1>2, <1>3, <2>2, HostAssumption DEF AnswerInv, DoomedAreHeld, Thread
    <2> QED BY <2>1, <2>2 DEF DoomedAreHeld
<1>6. ClosedIsAnswered'
    <2> SUFFICES ASSUME NEW b \in Approval, record'[b] \in Terminal \cup {"gone"},
                        resolution'[b] = "pending"
                 PROVE  OwedBy(b)'
        BY DEF ClosedIsAnswered, OwedBy, Telling
    <2>1. b # a /\ OwedBy(b)
        BY <1>2, <1>3, Owing DEF AnswerInv
    <2>2. \A k \in Host : (job[k] = b /\ pc[k] \in Telling) \/ pc[k] = "destroying" => k # h
        BY <2>1 DEF HostAnswers, Telling
    <2> QED BY <1>2, <1>3, <2>1, <2>2 DEF OwedBy
<1> QED BY <1>2, <1>4, <1>5, <1>6 DEF AnswerInv

\* a callback that answers,
LEMMA CallbackAnswerKeeps ==
    ASSUME TypeOK, TypeOK', AnswerInv, NEW a \in Approval, CallbackAnswers(a) PROVE AnswerInv'
<1>0. a \in Thread /\ "result" \in Answer /\ Answering(a, a, "result")
    BY DEF CallbackAnswers, Thread, Answer
<1>1. record[a] \in {"gone", "resolved", "cancelled"}
    BY DEF CallbackAnswers, AnswerInv, TellersAgree
<1>2. /\ FreeIsUntold' /\ AnswersMatchRecords'
      /\ resolution'[a] # "pending"
      /\ \A b \in Approval : resolution'[b] = "pending" => b # a /\ resolution[b] = "pending"
      /\ doomed'[a] = {} /\ \A u \in Thread : u # a => doomed'[u] = doomed[u]
    BY <1>0, <1>1, AnswerGiven
<1>3. /\ record' = record /\ UNCHANGED <<pc, job, todo>> /\ callback'[a] = "done"
      /\ \A b \in Approval : b # a => callback'[b] = callback[b]
    BY DEF CallbackAnswers, Answering, TypeOK
<1>4. TellersAgree'
    <2>1. ASSUME NEW u \in Thread PROVE \A b \in doomed'[u] : record'[b] = "gone"
        BY <1>2, <1>3 DEF AnswerInv, TellersAgree
    <2>2. ASSUME NEW b \in Approval, callback'[b] = "resolving" PROVE callback[b] = "resolving"
        BY <1>3, <2>2
    <2> QED BY <1>3, <2>1, <2>2 DEF AnswerInv, TellersAgree
<1>5. DoomedAreHeld'
    <2>1. ASSUME NEW k \in Host, doomed'[k] # {} PROVE pc'[k] \in Telling
        BY <1>2, <1>3, <2>1, HostAssumption DEF AnswerInv, DoomedAreHeld, Thread
    <2>2. ASSUME NEW b \in Approval, doomed'[b] # {} PROVE callback'[b] = "resolving"
        BY <1>2, <1>3, <2>2 DEF AnswerInv, DoomedAreHeld, Thread
    <2> QED BY <2>1, <2>2 DEF DoomedAreHeld
<1>6. ClosedIsAnswered'
    <2> SUFFICES ASSUME NEW b \in Approval, record'[b] \in Terminal \cup {"gone"},
                        resolution'[b] = "pending"
                 PROVE  OwedBy(b)'
        BY DEF ClosedIsAnswered, OwedBy, Telling
    <2>1. b # a /\ OwedBy(b)
        BY <1>2, <1>3, Owing DEF AnswerInv
    <2> QED BY <1>2, <1>3, <2>1 DEF OwedBy
<1> QED BY <1>2, <1>4, <1>5, <1>6 DEF AnswerInv

\* a host that clears the context, which then owes every operation,
LEMMA ClearsKeeps ==
    ASSUME TypeOK, TypeOK', AnswerInv, NEW h \in Host, Clears(h) PROVE AnswerInv'
<1>1. /\ \A a \in Approval : record'[a] = IF record[a] \in Active \cup Terminal THEN "gone"
                                          ELSE record[a]
      /\ \A a \in Approval : record[a] \in {"free", "gone"} => record'[a] = record[a]
      /\ \A a \in Approval : record'[a] \in {"free", "gone"}
      /\ \A a \in Approval : record'[a] = "free" => record[a] = "free"
    BY DEF Clears, TypeOK, Active, Terminal
<1>2. /\ pc[h] \notin Busy /\ pc'[h] = "destroying"
      /\ todo'[h] = {<<a, record[a]>> : a \in {b \in Approval : record[b] \in Active \cup Terminal}}
      /\ \A k \in Host : k # h => pc'[k] = pc[k] /\ job'[k] = job[k] /\ todo'[k] = todo[k]
      /\ UNCHANGED <<resolution, doomed, callback>>
    BY DEF Clears
<1>3. TellersAgree'
    <2>1. ASSUME NEW k \in Host, pc'[k] \in Telling
          PROVE  record'[job'[k]] \in {Sentence(pc'[k]), "gone"}
        <3>1. pc'[k] = pc[k] /\ job'[k] = job[k] /\ job[k] \in Approval
            BY <1>2, <2>1 DEF Telling, TypeOK
        <3>2. record[job[k]] # "free"
            BY <2>1, <3>1 DEF AnswerInv, TellersAgree, Sentence, Telling
        <3> QED BY <1>1, <3>1, <3>2
    <2>2. ASSUME NEW b \in Approval, callback'[b] = "resolving" PROVE record'[b] = "gone"
        BY <1>1, <1>2, <2>2 DEF AnswerInv, TellersAgree
    <2>3. ASSUME NEW k \in Host, pc'[k] = "destroying", NEW x \in todo'[k]
          PROVE  record'[x[1]] = "gone"
        <3>1. CASE k = h
            BY <1>1, <1>2, <2>3, <3>1
        <3>2. CASE k # h
            <4>1. x[1] \in Approval /\ record[x[1]] = "gone"
                BY <1>2, <2>3, <3>2 DEF AnswerInv, TellersAgree, TypeOK
            <4> QED BY <1>1, <4>1
        <3> QED BY <3>1, <3>2
    <2>4. ASSUME NEW t \in Thread, NEW b \in doomed'[t] PROVE record'[b] = "gone"
        <3>1. b \in Approval /\ record[b] = "gone"
            BY <1>2, <2>4 DEF AnswerInv, TellersAgree, TypeOK, Thread
        <3> QED BY <1>1, <3>1
    <2> QED BY <2>1, <2>2, <2>3, <2>4 DEF TellersAgree
<1>4. DoomedAreHeld'
    <2>1. ASSUME NEW k \in Host, doomed'[k] # {} PROVE pc'[k] \in Telling
        BY <1>2, <2>1 DEF AnswerInv, DoomedAreHeld, Busy
    <2> QED BY <1>2, <2>1 DEF AnswerInv, DoomedAreHeld
<1>5. FreeIsUntold' /\ AnswersMatchRecords'
    BY <1>1, <1>2 DEF AnswerInv, FreeIsUntold, AnswersMatchRecords, Active
<1>6. ClosedIsAnswered'
    <2> SUFFICES ASSUME NEW b \in Approval, record'[b] \in Terminal \cup {"gone"},
                        resolution'[b] = "pending"
                 PROVE  OwedBy(b)'
        BY DEF ClosedIsAnswered, OwedBy, Telling
    <2>1. CASE record[b] \in Active \cup Terminal
        <3>1. <<b, record[b]>> \in todo'[h]
            BY <1>2, <2>1
        <3> QED BY <1>2, <2>1, <3>1 DEF OwedBy
    <2>2. CASE record[b] \notin Active \cup Terminal
        <3>1. record[b] = "gone" /\ resolution[b] = "pending"
            BY <1>1, <1>2, <2>2 DEF Terminal
        <3>2. OwedBy(b)
            BY <3>1, Owing DEF AnswerInv
        <3>3. \A k \in Host : pc[k] \in Busy => k # h
            BY <1>2
        <3> QED BY <1>2, <3>2, <3>3 DEF OwedBy, Busy
    <2> QED BY <2>1, <2>2
<1> QED BY <1>3, <1>4, <1>5, <1>6 DEF AnswerInv

\* and one that destroys what it cleared.
LEMMA DestroysKeeps ==
    ASSUME TypeOK, TypeOK', AnswerInv, NEW h \in Host, NEW S \in SUBSET Approval, Destroys(h, S)
    PROVE  AnswerInv'
<1>1. /\ pc[h] = "destroying" /\ pc'[h] \notin Busy /\ record' = record /\ doomed' = doomed
      /\ \A b \in Approval : resolution'[b] = IF b \in S THEN "destroyed" ELSE resolution[b]
      /\ \A b \in Approval : b \in S <=> \E s \in Active \cup Terminal : <<b, s>> \in todo[h]
      /\ \A k \in Host : k # h => pc'[k] = pc[k] /\ job'[k] = job[k] /\ todo'[k] = todo[k]
      /\ \A b \in Approval : callback'[b] = "resolving" <=> callback[b] = "resolving"
    BY DEF Destroys
<1>2. \A b \in S : record[b] = "gone"
    <2> SUFFICES ASSUME NEW b \in S PROVE record[b] = "gone"
        OBVIOUS
    <2>1. PICK s \in Active \cup Terminal : <<b, s>> \in todo[h]
        BY <1>1
    <2>2. record[<<b, s>>[1]] = "gone"
        BY <1>1, <2>1 DEF AnswerInv, TellersAgree
    <2> QED BY <2>2
<1>3. \A k \in Host : pc'[k] \in Busy => pc'[k] = pc[k] /\ job'[k] = job[k] /\ todo'[k] = todo[k]
    BY <1>1
<1>4. TellersAgree'
    BY <1>1, <1>3 DEF AnswerInv, TellersAgree, Busy
<1>5. DoomedAreHeld'
    <2>1. ASSUME NEW k \in Host, doomed'[k] # {} PROVE pc'[k] \in Telling
        BY <1>1, <2>1 DEF AnswerInv, DoomedAreHeld, Telling
    <2> QED BY <1>1, <2>1 DEF AnswerInv, DoomedAreHeld
<1>6. FreeIsUntold' /\ AnswersMatchRecords'
    BY <1>1, <1>2 DEF AnswerInv, FreeIsUntold, AnswersMatchRecords, Active
<1>7. ClosedIsAnswered'
    <2> SUFFICES ASSUME NEW b \in Approval, record'[b] \in Terminal \cup {"gone"},
                        resolution'[b] = "pending"
                 PROVE  OwedBy(b)'
        BY DEF ClosedIsAnswered, OwedBy, Telling
    <2>1. b \notin S /\ OwedBy(b)
        BY <1>1, Owing DEF AnswerInv
    <2>2. \A k \in Host : pc[k] \in Telling => k # h
        BY <1>1 DEF Telling
    <2> QED BY <1>1, <2>1, <2>2 DEF OwedBy
<1> QED BY <1>4, <1>5, <1>6, <1>7 DEF AnswerInv

\* Every kind of step keeps the answers in order.
LEMMA KindKeepsAnswers ==
    ASSUME TypeOK, TypeOK', AnswerInv, Kind PROVE AnswerInv'
BY UndisturbedKeeps, OpensKeeps, HostCloseKeeps, CallbackCloseKeeps, HostAnswerKeeps,
   CallbackAnswerKeeps, ClearsKeeps, DestroysKeeps DEF Kind

-----------------------------------------------------------------------------
(* The refinement of Decisions, kind by kind.                              *)

\* What Decisions sees standing, in terms of the records.
LEMMA StandingRecords ==
    ASSUME TypeOK
    PROVE  /\ \A v : Decided!Standing(v) = {a \in Approval : VerdictOf[record[a]] \in v}
           /\ \A a \in Approval : record[a] \in Terminal \cup {"gone"} => a \in Decided!Standing({"closed"})
           /\ \A a \in Approval : record[a] = "free" => a \in Decided!Standing({"none"})
           /\ \A a \in Approval : record[a] \in Active =>
                 a \in Decided!Standing({"pending", "approved", "claimed"})
<1>1. \A v : Decided!Standing(v) = {a \in Approval : VerdictOf[record[a]] \in v}
    BY DEF Decided!Standing
<1>2. \A a \in Approval : record[a] \in State
    BY DEF TypeOK, State
<1> QED BY <1>1, <1>2, VerdictOfKind

\* Nothing that Decisions knows of changes.
LEMMA Stutters ==
    ASSUME Verdicts' = Verdicts, Claimed' = Claimed, calls' = calls, resolution' = resolution
    PROVE  UNCHANGED Decided!decisions
BY DEF Decided!decisions, Verdicts, Claimed

\* A step that answers nobody and closes nothing.
LEMMA UndisturbedDecides ==
    ASSUME TypeOK, TypeOK', Undisturbed PROVE [Decided!Next]_(Decided!decisions)
<1>1. resolution' = resolution /\ Onward
    BY DEF Undisturbed
<1>2. CASE record' = record /\ Claimed' = Claimed /\ calls' = calls
    <2>1. Verdicts' = Verdicts
        BY <1>2 DEF Verdicts
    <2> QED BY <1>1, <1>2, <2>1, Stutters
<1>3. ASSUME NEW a \in Approval, NEW s \in Active, record[a] \in Active,
             record' = [record EXCEPT ![a] = s], calls' = calls,
             \/ VerdictOf[s] = VerdictOf[record[a]] /\ Claimed' = Claimed
             \/ record[a] = "pending" /\ s = "approved" /\ Claimed' = Claimed
             \/ record[a] = "scheduled" /\ s = "executing" /\ Claimed' = Claimed \cup {a}
      PROVE  [Decided!Next]_(Decided!decisions)
    <2>1. Verdicts' = [Verdicts EXCEPT ![a] = VerdictOf[s]] /\ Verdicts[a] = VerdictOf[record[a]]
        <3>1. record \in [Approval -> Active \cup Terminal \cup {"free", "gone"}]
            BY DEF TypeOK
        <3>2. \A k \in Approval : record'[k] = IF k = a THEN s ELSE record[k]
            BY <1>3, <3>1
        <3> QED BY <3>1, <3>2 DEF Verdicts
    <2>2. CASE VerdictOf[s] = VerdictOf[record[a]] /\ Claimed' = Claimed
        <3>1. Verdicts' = Verdicts
            BY <2>1, <2>2 DEF Verdicts
        <3> QED BY <1>1, <1>3, <2>2, <3>1, Stutters
    <2>3. CASE record[a] = "pending" /\ s = "approved" /\ Claimed' = Claimed
        <3>1. Verdicts[a] = "pending" /\ Verdicts' = [Verdicts EXCEPT ![a] = "approved"]
            BY <2>1, <2>3, VerdictOfState
        <3>2. Decided!Judge(a, "pending", "approved")
            BY <3>1 DEF Decided!Judge, Verdicts
        <3>3. Decided!Approve(a)
            BY <1>1, <1>3, <2>3, <3>2 DEF Decided!Approve, Claimed
        <3> QED BY <3>3 DEF Decided!Next
    <2>4. CASE record[a] = "scheduled" /\ s = "executing" /\ Claimed' = Claimed \cup {a}
        <3>1. Verdicts[a] = "approved" /\ Verdicts' = [Verdicts EXCEPT ![a] = "claimed"]
            BY <2>1, <2>4, VerdictOfState
        <3>2. Decided!Judge(a, "approved", "claimed")
            BY <3>1 DEF Decided!Judge, Verdicts
        <3>3. Decided!Claim(a)
            BY <1>1, <1>3, <2>4, <3>2 DEF Decided!Claim, Claimed
        <3> QED BY <3>3 DEF Decided!Next
    <2> QED BY <1>3, <2>2, <2>3, <2>4
<1>4. ASSUME NEW a \in Claimed, record' = record, Claimed' = Claimed \ {a},
             calls' = [calls EXCEPT ![a] = @ + 1] \/ calls' = calls
      PROVE  [Decided!Next]_(Decided!decisions)
    <2>1. Verdicts' = Verdicts /\ a \in Approval
        BY <1>4 DEF Verdicts, Claimed
    <2>2. Decided!Call(a) \/ Decided!Lapse(a)
        BY <1>1, <1>4, <2>1 DEF Decided!Call, Decided!Lapse, Verdicts, Claimed
    <2> QED BY <2>1, <2>2 DEF Decided!Next
<1> QED BY <1>1, <1>2, <1>3, <1>4 DEF Onward

\* An operation is proposed.
LEMMA OpensDecides ==
    ASSUME TypeOK, NEW b \in Approval, Opens(b) PROVE Decided!Next
<1>1. record[b] = "free" /\ record' = [record EXCEPT ![b] = "pending"]
      /\ resolution' = [resolution EXCEPT ![b] = "pending"] /\ UNCHANGED <<task, calls>>
    BY DEF Opens
<1>2. Verdicts[b] = "none" /\ Verdicts' = [Verdicts EXCEPT ![b] = "pending"]
    BY <1>1, VerdictOfState DEF Verdicts, TypeOK
<1>3. Decided!Judge(b, "none", "pending")
    BY <1>2 DEF Decided!Judge, Verdicts
<1>4. Claimed' = Claimed
    BY <1>1 DEF Claimed
<1>5. Decided!Propose(b)
    BY <1>1, <1>3, <1>4 DEF Decided!Propose, Claimed
<1> QED BY <1>5 DEF Decided!Next

\* The records and answers after some operations were closed and others proposed.
LEMMA ClosesDecide ==
    ASSUME TypeOK, TypeOK',
           NEW S \in SUBSET Approval, NEW new \in SUBSET Approval, S \cap new = {},
           \A b \in S : record[b] \in Active /\ record'[b] \in Terminal \cup {"gone"},
           \A b \in new : record[b] = "free" /\ record'[b] = "pending",
           \A b \in Approval : b \notin S /\ b \notin new =>
              \/ record'[b] = record[b]
              \/ record[b] \in Terminal /\ record'[b] = "gone",
           resolution' = [b \in Approval |-> IF b \in new THEN "pending" ELSE resolution[b]],
           UNCHANGED <<task, calls>>
    PROVE  Decided!Next
<1>1. ASSUME NEW b \in Approval
      PROVE  VerdictOf[record'[b]] = IF b \in S THEN "closed" ELSE IF b \in new THEN "pending"
                                     ELSE VerdictOf[record[b]]
    <2>1. record[b] \in State /\ record'[b] \in State
        BY DEF TypeOK, State
    <2> QED BY <2>1, VerdictOfState
<1>2. Verdicts' = [b \in Approval |-> IF b \in S THEN "closed" ELSE IF b \in new THEN "pending"
                                      ELSE Verdicts[b]]
    BY <1>1 DEF Verdicts
<1>3. Claimed' = Claimed
    BY DEF Claimed
<1>4. Decided!Close(S, new)
    BY <1>2, <1>3 DEF Decided!Close, Verdicts, Claimed
<1>5. S \in SUBSET Decided!Standing({"pending", "approved", "claimed"})
      /\ new \in SUBSET Decided!Standing({"none"})
    BY StandingRecords
<1> QED BY <1>4, <1>5 DEF Decided!Next

\* One is closed, and an edit opens another.
LEMMA ClosingDecides ==
    ASSUME TypeOK, TypeOK', NEW t \in Thread, NEW a \in Approval, NEW new \in SUBSET Approval,
           Closing(t, a, new), record'[a] \in Terminal \cup {"gone"}
    PROVE  Decided!Next
<1>1. {a} \in SUBSET Approval /\ {a} \cap new = {}
    BY DEF Closing
<1>2. /\ \A b \in {a} : record[b] \in Active /\ record'[b] \in Terminal \cup {"gone"}
      /\ \A b \in new : record[b] = "free" /\ record'[b] = "pending"
      /\ \A b \in Approval : b \notin {a} /\ b \notin new =>
              \/ record'[b] = record[b]
              \/ record[b] \in Terminal /\ record'[b] = "gone"
      /\ resolution' = [b \in Approval |-> IF b \in new THEN "pending" ELSE resolution[b]]
      /\ UNCHANGED <<task, calls>>
    BY DEF Closing
<1> QED BY <1>1, <1>2, ClosesDecide

\* Its waiters are answered.
LEMMA AnsweringDecides ==
    ASSUME TypeOK, AnswerInv, NEW t \in Thread, NEW a \in Approval, NEW w \in Answer,
           Answering(t, a, w), record[a] \in Terminal \cup {"gone"}
    PROVE  Decided!Next
<1>0. PICK S \in {doomed[t], {}} : Resolve(a, w, S)
    BY DEF Answering
<1>1. /\ resolution' = [b \in Approval |-> IF b \in S THEN "destroyed"
                                           ELSE IF b = a /\ resolution[a] = "pending" THEN w
                                           ELSE resolution[b]]
      /\ UNCHANGED <<record, task, calls>>
    BY <1>0 DEF Answering, Resolve
<1>2. Verdicts' = Verdicts /\ Claimed' = Claimed
    BY <1>1 DEF Verdicts, Claimed
<1>3. Decided!Tell(a, w, S)
    BY <1>1, <1>2 DEF Decided!Tell, Verdicts, Claimed
<1>4. S \in SUBSET Decided!Standing({"closed"})
    BY <1>0, StandingRecords DEF AnswerInv, TellersAgree, TypeOK, Thread
<1>5. a \in Decided!Standing({"closed"})
    BY StandingRecords
<1> QED BY <1>3, <1>4, <1>5 DEF Decided!Next

\* A teardown destroys what nobody answered.
LEMMA DestroysDecides ==
    ASSUME TypeOK, AnswerInv, NEW h \in Host, NEW S \in SUBSET Approval, Destroys(h, S)
    PROVE  [Decided!Next]_(Decided!decisions)
<1>1. /\ resolution' = [b \in Approval |-> IF b \in S THEN "destroyed" ELSE resolution[b]]
      /\ UNCHANGED <<record, task, calls>>
    BY DEF Destroys
<1>2. Verdicts' = Verdicts /\ Claimed' = Claimed
    BY <1>1 DEF Verdicts, Claimed
<1>3. \A b \in S : record[b] = "gone"
    <2> SUFFICES ASSUME NEW b \in S PROVE record[b] = "gone"
        OBVIOUS
    <2>1. PICK s \in Active \cup Terminal : <<b, s>> \in todo[h]
        BY DEF Destroys
    <2>2. record[<<b, s>>[1]] = "gone"
        BY <2>1 DEF Destroys, AnswerInv, TellersAgree
    <2> QED BY <2>2
<1>4. CASE S = {}
    <2>1. resolution' = resolution
        BY <1>1, <1>4 DEF TypeOK
    <2> QED BY <1>1, <1>2, <2>1, Stutters
<1>5. CASE S # {}
    <2>1. PICK b \in S : TRUE
        BY <1>5
    <2>2. resolution' = [c \in Approval |-> IF c \in S THEN "destroyed"
                                            ELSE IF c = b /\ resolution[b] = "pending" THEN "result"
                                            ELSE resolution[c]]
        BY <1>1, <2>1
    <2>3. Decided!Tell(b, "result", S)
        BY <1>1, <1>2, <2>2 DEF Decided!Tell, Verdicts, Claimed
    <2>4. S \in SUBSET Decided!Standing({"closed"}) /\ b \in Decided!Standing({"closed"})
        BY <1>3, <2>1, StandingRecords
    <2> QED BY <2>3, <2>4 DEF Decided!Next, Answer
<1> QED BY <1>4, <1>5

\* It closes every active operation in one step.
LEMMA ClearsDecides ==
    ASSUME TypeOK, TypeOK', NEW h \in Host, Clears(h)
    PROVE  Decided!Next
<1> DEFINE S == {a \in Approval : record[a] \in Active}
<1>1. /\ S \in SUBSET Approval /\ {} \in SUBSET Approval /\ S \cap {} = {}
      /\ \A b \in S : record[b] \in Active /\ record'[b] \in Terminal \cup {"gone"}
      /\ \A b \in {} : record[b] = "free" /\ record'[b] = "pending"
      /\ \A b \in Approval : b \notin S /\ b \notin {} =>
              \/ record'[b] = record[b]
              \/ record[b] \in Terminal /\ record'[b] = "gone"
    BY DEF Clears
<1>2. resolution' = [b \in Approval |-> IF b \in {} THEN "pending" ELSE resolution[b]]
      /\ UNCHANGED <<task, calls>>
    BY DEF Clears, TypeOK
<1> HIDE DEF S
<1> QED BY <1>1, <1>2, ClosesDecide

\* Whatever its kind, a step is one of Decisions, or none.
LEMMA KindDecides ==
    ASSUME TypeOK, TypeOK', AnswerInv, Kind PROVE [Decided!Next]_(Decided!decisions)
<1>1. ASSUME NEW h \in Host, NEW a \in Approval, NEW p \in Telling, NEW new \in SUBSET Approval,
             HostCloses(h, a, p, new)
      PROVE  Decided!Next
    <2>1. h \in Thread /\ Closing(h, a, new) /\ record'[a] \in Terminal \cup {"gone"}
        BY <1>1 DEF HostCloses, Thread, Sentence, Telling, Terminal
    <2> QED BY <2>1, ClosingDecides
<1>2. ASSUME NEW a \in Approval, CallbackCloses(a) PROVE Decided!Next
    <2>1. a \in Thread /\ Closing(a, a, {}) /\ record'[a] \in Terminal \cup {"gone"}
        BY <1>2 DEF CallbackCloses, Thread, Terminal
    <2> QED BY <2>1, ClosingDecides
<1>3. ASSUME NEW h \in Host, HostAnswers(h) PROVE Decided!Next
    <2>1. job[h] \in Approval /\ h \in Thread /\ Word(pc[h]) \in Answer
          /\ Answering(h, job[h], Word(pc[h]))
        BY <1>3 DEF HostAnswers, TypeOK, Thread, Word, Telling, Answer
    <2>2. record[job[h]] \in Terminal \cup {"gone"}
        BY <1>3 DEF HostAnswers, AnswerInv, TellersAgree, Telling, Sentence, Terminal
    <2> QED BY <2>1, <2>2, AnsweringDecides
<1>4. ASSUME NEW a \in Approval, CallbackAnswers(a) PROVE Decided!Next
    <2>1. a \in Thread /\ "result" \in Answer /\ Answering(a, a, "result")
        BY <1>4 DEF CallbackAnswers, Thread, Answer
    <2>2. record[a] \in Terminal \cup {"gone"}
        BY <1>4 DEF CallbackAnswers, AnswerInv, TellersAgree, Terminal
    <2> QED BY <2>1, <2>2, AnsweringDecides
<1> QED BY <1>1, <1>2, <1>3, <1>4, UndisturbedDecides, OpensDecides, ClearsDecides,
           DestroysDecides DEF Kind

\* The initial states agree.
LEMMA InitDecides == Init => Decided!Init
<1> SUFFICES ASSUME Init PROVE Decided!Init
    OBVIOUS
<1>1. Verdicts = [a \in Approval |-> "none"]
    BY VerdictOfState DEF Init, Verdicts
<1>2. Claimed = {}
    BY DEF Init, Claimed
<1> QED BY <1>1, <1>2 DEF Init, Decided!Init, Verdicts, Claimed

-----------------------------------------------------------------------------
(* What a step leaves alone, and what it may do to an operation that others *)
(* are at.                                                                  *)

\* Where a host's work on an operation counts.
Working == Scheduling \cup {"withdrawing", "recalling"}
Stays(h) == pc'[h] = pc[h] /\ job'[h] = job[h] /\ todo'[h] = todo[h]

\* Another operation: it may be proposed, or dropped from the history.
Aside(b) ==
    /\ \/ record'[b] = record[b]
       \/ record[b] = "free" /\ record'[b] = "pending"
       \/ record[b] \in Terminal /\ record'[b] = "gone"
    /\ gate'[b] = gate[b] /\ exec'[b] = exec[b] /\ task'[b] = task[b] /\ callback'[b] = callback[b]

\* What the host that schedules an operation may find has happened to it.
Evolves(b) ==
    /\ record[b] \notin {"free", "pending"} => record'[b] \notin {"free", "pending"}
    /\ record'[b] = "approved" => record[b] \in {"pending", "approved"}
    /\ record'[b] = "scheduled" => record[b] = "scheduled"
    /\ gate[b] # "none" => gate'[b] # "none"
    /\ exec[b] # "none" => exec'[b] # "none"
    /\ callback[b] = "none" =>
          /\ callback'[b] = "none"
          /\ exec[b] = "none" /\ task[b] = "none" => exec'[b] = "none" /\ task'[b] = "none"
    /\ callback[b] # "none" => callback'[b] # "none"
    /\ callback[b] \notin {"none", "set"} => callback'[b] \notin {"none", "set"}
    /\ record'[b] = "approved" /\ callback[b] = "set" => callback'[b] = "set"

\* And the host that interrupts it.
Ends(b) == record[b] \in {"cancelling", "gone"} \cup Terminal =>
           record'[b] \in {"cancelling", "gone"} \cup Terminal

\* An operation left aside keeps the promises made about it.
LEMMA AsideEvolves ==
    ASSUME NEW b \in Approval, Aside(b) PROVE Evolves(b) /\ Ends(b)
BY DEF Aside, Evolves, Ends, Terminal

\* An operation that a step leaves aside stays sound.
LEMMA AsideSound ==
    ASSUME TypeOK, NEW b \in Approval, Sound(b), Aside(b),
           \A k \in Host : (job[k] = b /\ pc[k] \in Working) \/ pc[k] = "destroying" => Stays(k)
    PROVE  Sound(b)'
<1>1. GateComesFirst(b)' /\ FuturesAreLive(b)' /\ ExecutingCompletes(b)'
    BY DEF Sound, Aside, GateComesFirst, FuturesAreLive, ExecutingCompletes, Gated, Active, Terminal
<1>2. ApprovedWaits(b)'
    <2> SUFFICES ASSUME record'[b] = "approved" PROVE ApprovedWaits(b)'
        BY DEF ApprovedWaits
    <2>1. record[b] = "approved"
        BY DEF Aside
    <2>2. PICK k \in Host : job[k] = b /\ pc[k] \in {"submitting", "registering", "calling",
                                                     "arming", "failing"}
        BY <2>1 DEF Sound, ApprovedWaits
    <2>3. job'[k] = b /\ pc'[k] \in {"submitting", "registering", "calling", "arming", "failing"}
        BY <2>2 DEF Working, Scheduling, Stays
    <2> QED BY <2>1, <2>3 DEF Sound, ApprovedWaits, Aside, Waiting
<1>3. ScheduledStarts(b)'
    <2> SUFFICES ASSUME record'[b] = "scheduled" PROVE ScheduledStarts(b)'
        BY DEF ScheduledStarts
    <2>1. record[b] = "scheduled"
        BY DEF Aside
    <2>2. ASSUME NEW k \in Host, job[k] = b, pc[k] \in {"signalling", "failing"}
          PROVE  job'[k] = b /\ pc'[k] \in {"signalling", "failing"}
        BY <2>2 DEF Working, Scheduling, Stays
    <2> QED BY <2>1, <2>2 DEF Sound, ScheduledStarts, Aside, Waiting
<1>4. GatesGo(b)'
    <2> SUFFICES ASSUME gate'[b] \in {"open", "start"}, record'[b] \notin Gated
                 PROVE  \/ callback'[b] = "resolving"
                        \/ \E h \in Host : job'[h] = b /\ pc'[h] \in {"failed", "withdrawing", "recalling"}
                        \/ \E h \in Host : pc'[h] = "destroying" /\ \E s \in Gated : <<b, s>> \in todo'[h]
        BY DEF GatesGo
    <2>1. gate[b] \in {"open", "start"} /\ record[b] \notin Gated
        BY DEF Aside, Gated, Active, Terminal
    <2>2. \/ callback[b] = "resolving"
          \/ \E h \in Host : job[h] = b /\ pc[h] \in {"failed", "withdrawing", "recalling"}
          \/ \E h \in Host : pc[h] = "destroying" /\ \E s \in Gated : <<b, s>> \in todo[h]
        BY <2>1 DEF Sound, GatesGo
    <2>3. ASSUME NEW h \in Host, job[h] = b, pc[h] \in {"failed", "withdrawing", "recalling"}
          PROVE  job'[h] = b /\ pc'[h] \in {"failed", "withdrawing", "recalling"}
        BY <2>3 DEF Working, Scheduling, Stays
    <2>4. ASSUME NEW h \in Host, pc[h] = "destroying"
          PROVE  pc'[h] = "destroying" /\ todo'[h] = todo[h]
        BY <2>4 DEF Stays
    <2> QED BY <2>2, <2>3, <2>4 DEF Aside
<1> QED BY <1>1, <1>2, <1>3, <1>4 DEF Sound

\* A host that does not move still sees what it saw.
LEMMA StillSees ==
    ASSUME TypeOK, NEW k \in Host, SchedulerSees(k), Stays(k), Ends(job[k]),
           pc[k] \in Scheduling => Evolves(job[k])
    PROVE  SchedulerSees(k)'
<1>1. pc'[k] = pc[k] /\ job'[k] = job[k]
    BY DEF Stays
<1>2. CASE pc[k] \in Scheduling
    BY <1>1, <1>2 DEF SchedulerSees, Evolves, Scheduling
<1>3. CASE pc[k] \notin Scheduling
    BY <1>1, <1>3 DEF SchedulerSees, Ends, Scheduling
<1> QED BY <1>2, <1>3

\* A step of host h at operation a.
LEMMA HostMoves ==
    ASSUME TypeOK, TypeOK', ScheduleInv, NEW h \in Host, NEW a \in Approval,
           \A k \in Host : k # h => Stays(k),
           pc[h] # "destroying", pc[h] \in Working => job[h] = a,
           \A b \in Approval : b # a => Aside(b),
           Ends(a), pc[h] \in Scheduling \/ Evolves(a),
           pc'[h] \in Scheduling => job'[h] = a /\ (pc[h] \in Scheduling \/ record[a] = "pending"),
           Sound(a)', SchedulerSees(h)'
    PROVE  ScheduleInv'
<1>1. ASSUME NEW b \in Approval PROVE Sound(b)'
    <2>1. CASE b # a
        BY <2>1, AsideSound DEF ScheduleInv
    <2> QED BY <2>1
<1>2. ASSUME NEW k \in Host, k # h PROVE SchedulerSees(k)'
    <2>1. SchedulerSees(k) /\ job[k] \in Approval
        BY DEF ScheduleInv, TypeOK
    <2>2. CASE job[k] # a
        BY <1>2, <2>1, <2>2, AsideEvolves, StillSees
    <2>3. CASE job[k] = a
        <3>1. pc[k] \in Scheduling => pc[h] \notin Scheduling
            BY <1>2, <2>3 DEF ScheduleInv, OneScheduler, Working
        <3> QED BY <1>2, <2>1, <2>3, <3>1, StillSees
    <2> QED BY <2>2, <2>3
<1>3. OneScheduler'
    <2> SUFFICES ASSUME NEW k \in Host, k # h, pc'[k] \in Scheduling, pc'[h] \in Scheduling,
                        job'[k] = job'[h]
                 PROVE  FALSE
        <3>1. ASSUME NEW i \in Host, NEW k \in Host, i # h, k # h,
                     pc'[i] \in Scheduling, pc'[k] \in Scheduling, job'[i] = job'[k]
              PROVE  i = k
            BY <3>1 DEF ScheduleInv, OneScheduler, Stays
        <3> QED BY <3>1 DEF OneScheduler
    <2>1. pc[k] \in Scheduling /\ job[k] = a
        BY DEF Stays
    <2>2. record[a] # "pending"
        BY <2>1 DEF ScheduleInv, SchedulerSees
    <2> QED BY <2>1, <2>2 DEF ScheduleInv, OneScheduler, Working
<1> QED BY <1>1, <1>2, <1>3 DEF ScheduleInv

\* A step of the worker, of the callback or of the proposer of operation a.
LEMMA WorkerMoves ==
    ASSUME TypeOK, TypeOK', ScheduleInv, NEW a \in Approval,
           \A k \in Host : Stays(k),
           \A b \in Approval : b # a => Aside(b),
           Ends(a), Evolves(a), Sound(a)'
    PROVE  ScheduleInv'
<1>1. ASSUME NEW b \in Approval PROVE Sound(b)'
    BY AsideSound DEF ScheduleInv
<1>2. ASSUME NEW k \in Host PROVE SchedulerSees(k)'
    <2>1. SchedulerSees(k) /\ job[k] \in Approval
        BY DEF ScheduleInv, TypeOK
    <2> QED BY <2>1, AsideEvolves, StillSees
<1>3. OneScheduler'
    BY DEF ScheduleInv, OneScheduler, Stays
<1> QED BY <1>1, <1>2, <1>3 DEF ScheduleInv

-----------------------------------------------------------------------------
(* Hosts keep the schedule.                                                *)

\* Closing one operation leaves every other aside.
LEMMA ClosingAside ==
    ASSUME NEW t \in Thread, NEW a \in Approval, NEW new \in SUBSET Approval, Closing(t, a, new),
           UNCHANGED <<gate, exec, task>>, \A b \in Approval : b # a => callback'[b] = callback[b]
    PROVE  \A b \in Approval : b # a => Aside(b)
BY DEF Closing, Aside

\* An operation that is closed with nothing else changed, and its gate looked after.
LEMMA ClosedSound ==
    ASSUME NEW a \in Approval, Sound(a), record'[a] \in Terminal \cup {"gone"},
           gate'[a] = gate[a], exec'[a] = exec[a], task'[a] = task[a], callback'[a] = callback[a],
           \/ gate[a] = "none"
           \/ \E k \in Host : job'[k] = a /\ pc'[k] \in {"failed", "withdrawing", "recalling"}
    PROVE  Sound(a)'
BY DEF Sound, GateComesFirst, FuturesAreLive, ApprovedWaits, ScheduledStarts, ExecutingCompletes,
       GatesGo, Gated, Active, Terminal

\* The approver submits the execution,
LEMMA SubmitSchedules ==
    ASSUME Inv, TypeOK', NEW h \in Host, Submit(h), NEW a \in Approval, job[h] = a
    PROVE  ScheduleInv'
<1>0. TypeOK /\ ScheduleInv /\ Sound(a) /\ SchedulerSees(h)
    BY DEF Inv, ScheduleInv, TypeOK
<1>1. /\ pc[h] = "submitting" /\ job' = job /\ todo' = todo
      /\ UNCHANGED <<record, gate, callback>>
      /\ pc' = [pc EXCEPT ![h] = pc'[h]] /\ pc'[h] \in {"registering", "failing"}
      /\ exec' = [exec EXCEPT ![a] = exec'[a]] /\ task' = [task EXCEPT ![a] = task'[a]]
      /\ \/ exec'[a] = "pending" /\ task'[a] = "queued" /\ pc'[h] = "registering"
         \/ exec'[a] = "rejected" /\ task'[a] = task[a] /\ pc'[h] = "registering"
         \/ exec'[a] = exec[a] /\ task'[a] = task[a] /\ pc'[h] = "failing"
    BY <1>0 DEF Submit, GoTo, TypeOK, cancellation
<1>2. \A k \in Host : k # h => Stays(k)
    BY <1>1 DEF Stays, TypeOK
<1>3. \A b \in Approval : b # a => Aside(b)
    BY <1>0, <1>1 DEF Aside, TypeOK
<1>4. /\ record[a] \notin {"free", "pending", "scheduled"} /\ gate[a] # "none"
      /\ exec[a] = "none" /\ task[a] = "none" /\ callback[a] = "none"
    BY <1>0, <1>1 DEF SchedulerSees, Scheduling
<1>5. Ends(a)
    BY <1>1 DEF Ends
<1>6. SchedulerSees(h)'
    BY <1>1, <1>4 DEF SchedulerSees
<1>7. Sound(a)'
    <2>1. GateComesFirst(a)' /\ FuturesAreLive(a)' /\ ScheduledStarts(a)' /\ ExecutingCompletes(a)'
        BY <1>0, <1>1, <1>4 DEF Sound, GateComesFirst, FuturesAreLive, ScheduledStarts, ExecutingCompletes
    <2>2. ApprovedWaits(a)'
        BY <1>0, <1>1, <1>4 DEF Sound, ApprovedWaits, Waiting
    <2>3. GatesGo(a)'
        <3>1. \A k \in Host : pc[k] \in {"failed", "withdrawing", "recalling", "destroying"} => pc'[k] = pc[k]
            BY <1>1, <1>2 DEF Stays
        <3> QED BY <1>0, <1>1, <3>1 DEF Sound, GatesGo
    <2> QED BY <2>1, <2>2, <2>3 DEF Sound
<1>8. pc[h] # "destroying" /\ pc[h] \in Scheduling /\ job'[h] = a
    BY <1>1 DEF Scheduling
<1> QED BY <1>0, <1>2, <1>3, <1>5, <1>6, <1>7, <1>8, HostMoves

\* ... registers its callback,
LEMMA RegisterSchedules ==
    ASSUME Inv, TypeOK', NEW h \in Host, Register(h), NEW a \in Approval, job[h] = a
    PROVE  ScheduleInv'
<1>0. TypeOK /\ ScheduleInv /\ Sound(a) /\ SchedulerSees(h)
    BY DEF Inv, ScheduleInv, TypeOK
<1>1. /\ pc[h] = "registering" /\ job' = job /\ todo' = todo
      /\ UNCHANGED <<record, gate, exec, task>>
      /\ pc' = [pc EXCEPT ![h] = pc'[h]] /\ callback' = [callback EXCEPT ![a] = callback'[a]]
      /\ \/ exec[a] \in {"pending", "running"} /\ callback'[a] = "set" /\ pc'[h] = "arming"
         \/ exec[a] \notin {"pending", "running"} /\ callback'[a] = "due" /\ pc'[h] = "calling"
    BY <1>0 DEF Register, GoTo, TypeOK, cancellation
<1>2. \A k \in Host : k # h => Stays(k)
    BY <1>1 DEF Stays, TypeOK
<1>3. \A b \in Approval : b # a => Aside(b)
    BY <1>0, <1>1 DEF Aside, TypeOK
<1>4. /\ record[a] \notin {"free", "pending", "scheduled"} /\ gate[a] # "none"
      /\ exec[a] # "none" /\ callback[a] = "none"
    BY <1>0, <1>1 DEF SchedulerSees, Scheduling
<1>5. Ends(a)
    BY <1>1 DEF Ends
<1>6. SchedulerSees(h)'
    BY <1>1, <1>4 DEF SchedulerSees
<1>7. Sound(a)'
    <2>1. GateComesFirst(a)' /\ FuturesAreLive(a)' /\ ScheduledStarts(a)' /\ ExecutingCompletes(a)'
        BY <1>0, <1>1, <1>4 DEF Sound, GateComesFirst, FuturesAreLive, ScheduledStarts, ExecutingCompletes
    <2>2. ApprovedWaits(a)'
        <3> SUFFICES ASSUME record[a] = "approved" PROVE ApprovedWaits(a)'
            BY <1>1 DEF ApprovedWaits
        <3>1. job'[h] = a /\ pc'[h] \in {"submitting", "registering", "calling", "arming", "failing"}
            BY <1>1
        <3>2. gate'[a] = "open"
            BY <1>0, <1>1, <1>4 DEF Sound, ApprovedWaits
        <3>3. \/ callback'[a] = "set" /\ Waiting(a)
              \/ callback'[a] = "due" /\ task[a] = "none" /\ exec[a] \notin {"pending", "running"}
            BY <1>0, <1>1, <1>4 DEF Sound, ApprovedWaits, Waiting
        <3> QED BY <1>1, <3>1, <3>2, <3>3 DEF ApprovedWaits, Waiting
    <2>3. GatesGo(a)'
        <3>1. \A k \in Host : pc[k] \in {"failed", "withdrawing", "recalling", "destroying"} => pc'[k] = pc[k]
            BY <1>1, <1>2 DEF Stays
        <3> QED BY <1>0, <1>1, <1>4, <3>1 DEF Sound, GatesGo
    <2> QED BY <2>1, <2>2, <2>3 DEF Sound
<1>8. pc[h] # "destroying" /\ pc[h] \in Scheduling /\ job'[h] = a
    BY <1>1 DEF Scheduling
<1> QED BY <1>0, <1>2, <1>3, <1>5, <1>6, <1>7, <1>8, HostMoves

\* ... schedules the operation,
LEMMA ArmSchedules ==
    ASSUME Inv, TypeOK', NEW h \in Host, Arm(h), NEW a \in Approval, job[h] = a
    PROVE  ScheduleInv'
<1>0. TypeOK /\ ScheduleInv /\ Sound(a) /\ SchedulerSees(h)
    BY DEF Inv, ScheduleInv, TypeOK
<1>1. /\ pc[h] = "arming" \/ (pc[h] = "calling" /\ callback[a] = "done")
      /\ job' = job /\ todo' = todo /\ UNCHANGED <<gate, exec, task, callback>>
      /\ pc' = [pc EXCEPT ![h] = pc'[h]] /\ record' = [record EXCEPT ![a] = record'[a]]
      /\ \/ record[a] = "approved" /\ record'[a] = "scheduled" /\ pc'[h] = "signalling"
         \/ record[a] # "approved" /\ record'[a] = record[a] /\ pc'[h] = "abandoning"
    BY <1>0 DEF Arm, GoTo, TypeOK, cancellation, futures
<1>2. \A k \in Host : k # h => Stays(k)
    BY <1>1 DEF Stays, TypeOK
<1>3. \A b \in Approval : b # a => Aside(b)
    BY <1>0, <1>1 DEF Aside, TypeOK
<1>4. /\ record[a] \notin {"free", "pending", "scheduled"} /\ gate[a] # "none"
      /\ callback[a] # "none" /\ (record[a] = "approved" => callback[a] \in {"set", "done"})
    BY <1>0, <1>1 DEF SchedulerSees, Scheduling
<1>5. Ends(a)
    BY <1>1 DEF Ends, Terminal
<1>6. SchedulerSees(h)'
    BY <1>1, <1>4 DEF SchedulerSees
<1>7. Sound(a)'
    <2>1. GateComesFirst(a)' /\ FuturesAreLive(a)' /\ ExecutingCompletes(a)'
        BY <1>0, <1>1, <1>4 DEF Sound, GateComesFirst, FuturesAreLive, ExecutingCompletes
    <2>2. ApprovedWaits(a)'
        BY <1>1 DEF ApprovedWaits
    <2>3. ScheduledStarts(a)'
        BY <1>0, <1>1, <1>4 DEF Sound, ApprovedWaits, ScheduledStarts, Waiting
    <2>4. GatesGo(a)'
        <3>1. \A k \in Host : pc[k] \in {"failed", "withdrawing", "recalling", "destroying"} => pc'[k] = pc[k]
            BY <1>1, <1>2 DEF Stays
        <3>2. record'[a] \notin Gated => record[a] \notin Gated
            BY <1>1 DEF Gated, Active
        <3> QED BY <1>0, <1>1, <3>1, <3>2 DEF Sound, GatesGo
    <2> QED BY <2>1, <2>2, <2>3, <2>4 DEF Sound
<1>8. pc[h] # "destroying" /\ pc[h] \in Scheduling /\ job'[h] = a
    BY <1>1 DEF Scheduling
<1> QED BY <1>0, <1>2, <1>3, <1>5, <1>6, <1>7, <1>8, HostMoves

\* ... and opens its gate.
LEMMA SignalSchedules ==
    ASSUME Inv, TypeOK', NEW h \in Host, Signal(h), NEW a \in Approval, job[h] = a
    PROVE  ScheduleInv'
<1>0. TypeOK /\ ScheduleInv /\ Sound(a) /\ SchedulerSees(h)
    BY DEF Inv, ScheduleInv, TypeOK
<1>1. /\ pc[h] = "signalling" /\ todo' = todo /\ UNCHANGED <<record, exec, task, callback>>
      /\ pc' = [pc EXCEPT ![h] = pc'[h]] /\ gate' = [gate EXCEPT ![a] = gate'[a]]
      /\ job' = [job EXCEPT ![h] = job'[h]]
      /\ \/ gate[a] = "open" /\ gate'[a] = "start" /\ pc'[h] = "idle"
         \/ gate[a] # "open" /\ gate'[a] = gate[a] /\ pc'[h] = "failing" /\ job'[h] = a
    BY <1>0 DEF Signal, GoTo, Return, At, TypeOK, cancellation
<1>2. \A k \in Host : k # h => Stays(k)
    BY <1>1 DEF Stays, TypeOK
<1>3. \A b \in Approval : b # a => Aside(b)
    BY <1>0, <1>1 DEF Aside, TypeOK
<1>4. record[a] \notin {"free", "pending"} /\ gate[a] # "none" /\ pc[h] \in Scheduling
    BY <1>0, <1>1 DEF SchedulerSees, Scheduling
<1>5. Ends(a)
    BY <1>1 DEF Ends
<1>6. SchedulerSees(h)'
    BY <1>1, <1>4 DEF SchedulerSees, Scheduling
<1>7. Sound(a)'
    <2>0. record[a] # "approved"
        <3> SUFFICES ASSUME record[a] = "approved" PROVE FALSE
            OBVIOUS
        <3>1. PICK k \in Host : job[k] = a /\ pc[k] \in {"submitting", "registering", "calling",
                                                        "arming", "failing"}
            BY <1>0 DEF Sound, ApprovedWaits
        <3>2. k = h
            BY <1>0, <1>4, <3>1 DEF ScheduleInv, OneScheduler, Scheduling
        <3> QED BY <1>1, <3>1, <3>2
    <2>1. GateComesFirst(a)' /\ FuturesAreLive(a)' /\ ExecutingCompletes(a)' /\ ApprovedWaits(a)'
        BY <1>0, <1>1, <1>4, <2>0
        DEF Sound, GateComesFirst, FuturesAreLive, ExecutingCompletes, ApprovedWaits
    <2>2. ScheduledStarts(a)'
        <3> SUFFICES ASSUME record[a] = "scheduled" PROVE ScheduledStarts(a)'
            BY <1>1 DEF ScheduledStarts
        <3>1. CASE gate[a] = "open"
            BY <1>0, <1>1, <3>1 DEF Sound, ScheduledStarts, FuturesAreLive, Waiting
        <3>2. CASE gate[a] # "open"
            BY <1>0, <1>1, <3>2 DEF Sound, ScheduledStarts, Waiting
        <3> QED BY <3>1, <3>2
    <2>3. GatesGo(a)'
        <3>1. \A k \in Host : pc[k] \in {"failed", "withdrawing", "recalling", "destroying"}
                    => pc'[k] = pc[k] /\ job'[k] = job[k]
            BY <1>1, <1>2 DEF Stays
        <3> QED BY <1>0, <1>1, <3>1 DEF Sound, GatesGo
    <2> QED BY <2>1, <2>2, <2>3 DEF Sound
<1>8. pc[h] # "destroying" /\ (pc'[h] \in Scheduling => job'[h] = a)
    BY <1>1 DEF Scheduling
<1> QED BY <1>0, <1>2, <1>3, <1>4, <1>5, <1>6, <1>7, <1>8, HostMoves

\* An operation whose gate is destroyed, and its Future with it, when it is neither
\* approved nor scheduled.
LEMMA ReleasedSound ==
    ASSUME TypeOK, NEW a \in Approval, Sound(a), record'[a] = record[a],
           record[a] \notin {"approved", "scheduled", "free", "pending"},
           gate[a] # "none", gate'[a] = "destroyed", task'[a] = task[a],
           \/ exec'[a] = exec[a] /\ callback'[a] = callback[a]
           \/ /\ exec'[a] \in {"none", "cancelled", "destroyed"}
              /\ callback'[a] = IF callback[a] = "set" THEN "due" ELSE callback[a]
    PROVE  Sound(a)'
BY DEF Sound, GateComesFirst, FuturesAreLive, ApprovedWaits, ScheduledStarts, ExecutingCompletes,
       GatesGo

\* It finds the operation closed, or has failed,
LEMMA AbandonSchedules ==
    ASSUME Inv, TypeOK', NEW h \in Host, Abandon(h) \/ Drop(h) \/ Failed(h),
           NEW a \in Approval, job[h] = a
    PROVE  ScheduleInv'
<1>0. TypeOK /\ ScheduleInv /\ Sound(a) /\ SchedulerSees(h)
    BY DEF Inv, ScheduleInv, TypeOK
<1>1. /\ pc[h] \in {"abandoning", "dropping", "failed"} /\ todo' = todo
      /\ UNCHANGED <<record, task>>
      /\ pc' = [pc EXCEPT ![h] = "idle"] /\ job' = [job EXCEPT ![h] = 1]
      /\ \/ DestroyExecution({a}) /\ DestroyGates({a})
         \/ pc[h] = "abandoning" /\ UNCHANGED <<gate, exec, callback>>
    BY <1>0 DEF Abandon, Drop, Failed, Return, At, cancellation
<1>2. \A k \in Host : k # h => Stays(k)
    BY <1>1 DEF Stays, TypeOK
<1>3. \A b \in Approval : b # a => Aside(b)
    BY <1>1 DEF Aside, DestroyExecution, DestroyGates
<1>4. /\ record[a] \notin {"free", "pending", "approved", "scheduled"} /\ gate[a] # "none"
      /\ pc[h] \in Scheduling /\ pc'[h] = "idle"
    <2>1. pc[h] \in Scheduling /\ pc'[h] = "idle"
        BY <1>0, <1>1 DEF Scheduling, TypeOK
    <2>2. pc[h] = "failed" => record[a] \in {"resolved", "gone"}
        BY DEF Inv, AnswerInv, TellersAgree, Telling, Sentence
    <2> QED BY <1>0, <1>1, <2>1, <2>2 DEF SchedulerSees
<1>5. Ends(a)
    BY <1>1 DEF Ends
<1>6. SchedulerSees(h)'
    BY <1>4 DEF SchedulerSees, Scheduling
<1>7. Sound(a)'
    <2>1. CASE DestroyExecution({a}) /\ DestroyGates({a})
        <3>1. callback[a] = "set" => exec[a] \in {"pending", "running"}
            BY <1>0 DEF Sound, FuturesAreLive
        <3>2. gate'[a] = "destroyed" /\ exec'[a] \in {"none", "destroyed"}
              /\ callback'[a] = IF callback[a] = "set" THEN "due" ELSE callback[a]
            BY <1>4, <2>1, <3>1 DEF DestroyGates, DestroyExecution
        <3> QED BY <1>0, <1>1, <1>4, <3>2, ReleasedSound
    <2>2. CASE pc[h] = "abandoning" /\ UNCHANGED <<gate, exec, callback>>
        <3>1. GateComesFirst(a)' /\ FuturesAreLive(a)' /\ ExecutingCompletes(a)' /\ ApprovedWaits(a)'
              /\ ScheduledStarts(a)'
            BY <1>0, <1>1, <1>4, <2>2
            DEF Sound, GateComesFirst, FuturesAreLive, ExecutingCompletes, ApprovedWaits, ScheduledStarts
        <3>2. \A k \in Host : pc[k] \in {"failed", "withdrawing", "recalling", "destroying"} =>
                  pc'[k] = pc[k] /\ job'[k] = job[k] /\ todo'[k] = todo[k]
            BY <1>2, <2>2 DEF Stays
        <3>3. GatesGo(a)'
            BY <1>0, <1>1, <2>2, <3>2 DEF Sound, GatesGo
        <3> QED BY <3>1, <3>3 DEF Sound
    <2> QED BY <1>1, <2>1, <2>2
<1>8. pc[h] # "destroying" /\ pc'[h] \notin Scheduling
    BY <1>1, <1>4 DEF Scheduling
<1> QED BY <1>0, <1>2, <1>3, <1>4, <1>5, <1>6, <1>7, <1>8, HostMoves

\* ... and closes it when the submission was refused.
LEMMA FailSchedules ==
    ASSUME Inv, TypeOK', NEW h \in Host, Fail(h), NEW a \in Approval, job[h] = a
    PROVE  ScheduleInv'
<1>0. TypeOK /\ ScheduleInv /\ h \in Thread /\ Sound(a) /\ SchedulerSees(h)
    BY DEF Inv, ScheduleInv, TypeOK, Thread
<1>1. /\ pc[h] = "failing" /\ job' = job /\ todo' = todo
      /\ UNCHANGED <<resolution, gate, exec, task, callback, calls>>
      /\ pc' = [pc EXCEPT ![h] = pc'[h]]
    BY <1>0 DEF Fail, GoTo, TypeOK, cancellation, futures
<1>2. \A k \in Host : k # h => Stays(k)
    BY <1>1 DEF Stays, TypeOK
<1>3. pc[h] # "destroying" /\ pc[h] \in Scheduling /\ job'[h] = a
    BY <1>1 DEF Scheduling
<1>4. record[a] \notin {"free", "pending"} /\ gate[a] # "none"
    BY <1>0, <1>3 DEF SchedulerSees
<1>5. CASE /\ record[a] \in {"approved", "scheduled"}
           /\ Prune(h, [record EXCEPT ![a] = "resolved"]) /\ GoTo(h, "failed")
    <2>0. record[a] \in Active /\ "resolved" \in Terminal /\ pc'[h] = "failed"
        BY <1>0, <1>5 DEF Active, Terminal, GoTo, TypeOK
    <2>1. Closing(h, a, {}) /\ record'[a] \in {"resolved", "gone"}
        BY <1>0, <1>1, <1>5, <2>0, PrunedClosing
    <2>2. \A b \in Approval : b # a => Aside(b)
        BY <1>0, <1>1, <2>1, ClosingAside
    <2>3. Sound(a)'
        BY <1>0, <1>1, <1>3, <2>0, <2>1, ClosedSound DEF Terminal
    <2>4. Ends(a) /\ SchedulerSees(h)'
        BY <1>1, <1>3, <1>4, <2>0, <2>1 DEF Ends, SchedulerSees, Terminal
    <2> QED BY <1>0, <1>2, <1>3, <2>2, <2>3, <2>4, HostMoves
<1>6. CASE /\ record[a] \notin {"approved", "scheduled"} /\ GoTo(h, "dropping")
           /\ UNCHANGED <<record, doomed>>
    <2>1. pc'[h] = "dropping" /\ record' = record
        BY <1>6 DEF GoTo, TypeOK
    <2>2. \A b \in Approval : Aside(b)
        BY <1>1, <2>1 DEF Aside
    <2>3. Sound(a)'
        <3>1. GateComesFirst(a)' /\ FuturesAreLive(a)' /\ ExecutingCompletes(a)' /\ ApprovedWaits(a)'
              /\ ScheduledStarts(a)'
            BY <1>0, <1>1, <1>6, <2>1
            DEF Sound, GateComesFirst, FuturesAreLive, ExecutingCompletes, ApprovedWaits, ScheduledStarts
        <3>2. \A k \in Host : pc[k] \in {"failed", "withdrawing", "recalling", "destroying"} => pc'[k] = pc[k]
            BY <1>1, <1>2 DEF Stays
        <3>3. GatesGo(a)'
            BY <1>0, <1>1, <2>1, <3>2 DEF Sound, GatesGo
        <3> QED BY <3>1, <3>3 DEF Sound
    <2>4. Ends(a) /\ SchedulerSees(h)'
        BY <1>1, <1>4, <1>6, <2>1 DEF Ends, SchedulerSees
    <2> QED BY <1>0, <1>2, <1>3, <2>2, <2>3, <2>4, HostMoves
<1> QED BY <1>5, <1>6 DEF Fail

\* deny_transition_locked/6: an operation that is pending has no gate.
LEMMA DenySchedules ==
    ASSUME Inv, TypeOK', NEW h \in Host, NEW a \in Approval, DenyRecord(h, a), UNCHANGED futures,
           pc[h] = "idle", \A k \in Host : k # h => todo'[k] = todo[k]
    PROVE  ScheduleInv'
<1>0. TypeOK /\ ScheduleInv /\ h \in Thread /\ Sound(a)
    BY DEF Inv, ScheduleInv, Thread
<1>1. /\ record[a] = "pending" /\ Prune(h, [record EXCEPT ![a] = "denied"])
      /\ pc' = [pc EXCEPT ![h] = "denied"] /\ job' = [job EXCEPT ![h] = a]
      /\ UNCHANGED <<resolution, gate, exec, task, callback, calls>>
    BY DEF DenyRecord, At, futures
<1>2. \A k \in Host : k # h => Stays(k)
    BY <1>1 DEF Stays, TypeOK
<1>3. Closing(h, a, {}) /\ record'[a] \in {"denied", "gone"} /\ pc'[h] = "denied"
    <2>1. record[a] \in Active /\ "denied" \in Terminal /\ pc'[h] = "denied"
        BY <1>0, <1>1 DEF Active, Terminal, TypeOK
    <2> QED BY <1>0, <1>1, <2>1, PrunedClosing
<1>4. \A b \in Approval : b # a => Aside(b)
    BY <1>0, <1>1, <1>3, ClosingAside
<1>5. Sound(a)'
    <2>1. gate[a] = "none"
        BY <1>0, <1>1 DEF Sound, GateComesFirst
    <2> QED BY <1>0, <1>1, <1>3, <2>1, ClosedSound DEF Terminal
<1>6. Ends(a) /\ Evolves(a) /\ SchedulerSees(h)'
    BY <1>1, <1>3 DEF Ends, Evolves, SchedulerSees, Scheduling, Terminal
<1>7. pc[h] # "destroying" /\ pc[h] \notin Working /\ pc'[h] \notin Scheduling
    BY <1>3 DEF Working, Scheduling
<1> QED BY <1>0, <1>2, <1>4, <1>5, <1>6, <1>7, HostMoves

\* cancel_transition_locked/3
LEMMA CancelSchedules ==
    ASSUME Inv, TypeOK', NEW h \in Host, NEW a \in Approval, NEW s \in Gated, CancelOwned(h, a, s)
    PROVE  ScheduleInv'
<1>0. TypeOK /\ ScheduleInv /\ h \in Thread /\ Sound(a)
    BY DEF Inv, ScheduleInv, Thread
<1>1. /\ pc[h] = "idle" /\ UNCHANGED <<resolution, gate, exec, task, callback, calls>>
      /\ \A k \in Host : k # h => todo'[k] = todo[k]
    BY DEF CancelOwned, Reach, TypeOK, futures
<1>2. pc[h] # "destroying" /\ pc[h] \notin Working
    BY <1>1 DEF Working, Scheduling
<1>3. CASE /\ record[a] \in {"approved", "scheduled"}
           /\ Prune(h, [record EXCEPT ![a] = "cancelled"])
           /\ At(h, IF record[a] \in Attached THEN "recalling" ELSE "withdrawing", a)
    <2>1. Closing(h, a, {}) /\ record'[a] \in {"cancelled", "gone"}
        BY <1>0, <1>1, <1>3, PrunedClosing DEF Active, Terminal
    <2>2. pc'[h] \in {"withdrawing", "recalling"} /\ job'[h] = a
          /\ \A k \in Host : k # h => Stays(k)
        BY <1>1, <1>3 DEF At, TypeOK, Stays
    <2>3. \A b \in Approval : b # a => Aside(b)
        BY <1>0, <1>1, <2>1, ClosingAside
    <2>4. Sound(a)'
        BY <1>0, <1>1, <2>1, <2>2, ClosedSound DEF Terminal
    <2>5. Ends(a) /\ Evolves(a) /\ SchedulerSees(h)' /\ pc'[h] \notin Scheduling
        BY <1>1, <2>1, <2>2 DEF Ends, Evolves, SchedulerSees, Scheduling, Terminal
    <2> QED BY <1>0, <1>2, <2>2, <2>3, <2>4, <2>5, HostMoves
<1>4. CASE /\ record[a] = "executing" /\ record' = [record EXCEPT ![a] = "cancelling"]
           /\ At(h, "interrupting", a)
    <2>1. record'[a] = "cancelling" /\ \A b \in Approval : b # a => Aside(b)
        BY <1>1, <1>4 DEF Aside, TypeOK
    <2>2. pc'[h] = "interrupting" /\ job'[h] = a /\ \A k \in Host : k # h => Stays(k)
        BY <1>1, <1>4 DEF At, TypeOK, Stays
    <2>3. Sound(a)'
        BY <1>0, <1>1, <1>4, <2>1
        DEF Sound, GateComesFirst, FuturesAreLive, ApprovedWaits, ScheduledStarts,
            ExecutingCompletes, GatesGo, Gated, Active
    <2>4. Ends(a) /\ Evolves(a) /\ SchedulerSees(h)' /\ pc'[h] \notin Scheduling
        BY <1>1, <1>4, <2>1, <2>2 DEF Ends, Evolves, SchedulerSees, Scheduling, Terminal
    <2> QED BY <1>0, <1>2, <2>1, <2>2, <2>3, <2>4, HostMoves
<1>5. CASE UNCHANGED <<record, doomed, pc, job>>
    <2>1. \A b \in Approval : Aside(b)
        BY <1>1, <1>5 DEF Aside
    <2>2. \A k \in Host : k # h => Stays(k)
        BY <1>1, <1>5 DEF Stays
    <2>3. pc'[h] = "idle" /\ pc'[h] \notin Scheduling
        BY <1>1, <1>5 DEF Scheduling
    <2>4. Sound(a)'
        BY <1>0, <1>1, <2>1, <2>2, AsideSound DEF Working, Scheduling
    <2>5. Ends(a) /\ Evolves(a) /\ SchedulerSees(h)'
        BY <2>1, <2>3, AsideEvolves DEF SchedulerSees, Scheduling
    <2> QED BY <1>0, <1>2, <2>1, <2>2, <2>3, <2>4, <2>5, HostMoves
<1> QED BY <1>3, <1>4, <1>5 DEF CancelOwned

\* A host that moves where it works on nothing, at operations it leaves alone.
LEMMA IdleMoves ==
    ASSUME TypeOK, TypeOK', ScheduleInv, NEW h \in Host,
           \A k \in Host : k # h => Stays(k),
           pc[h] \in {"idle", "denied", "superseded"},
           pc'[h] \in {"idle", "denied", "superseded"},
           \A b \in Approval : Aside(b), NEW a \in Approval
    PROVE  ScheduleInv'
<1>1. pc[h] # "destroying" /\ pc[h] \notin Working /\ pc'[h] \notin Scheduling
    BY DEF Working, Scheduling
<1>2. Sound(a)' /\ Ends(a) /\ Evolves(a)
    BY <1>1, AsideSound, AsideEvolves DEF ScheduleInv
<1>3. SchedulerSees(h)'
    BY DEF SchedulerSees, Scheduling
<1> QED BY <1>1, <1>2, <1>3, HostMoves

\* apply_cancel_owned_transition/3, before the claim and after it.
LEMMA WithdrawSchedules ==
    ASSUME Inv, TypeOK', NEW h \in Host, Withdraw(h), NEW a \in Approval, job[h] = a
    PROVE  ScheduleInv'
<1>0. TypeOK /\ ScheduleInv /\ Sound(a)
    BY DEF Inv, ScheduleInv, TypeOK
<1>1. /\ pc[h] \in {"withdrawing", "recalling"} /\ todo' = todo /\ UNCHANGED <<record, task>>
      /\ pc' = [pc EXCEPT ![h] = "idle"] /\ job' = [job EXCEPT ![h] = 1]
      /\ \E S \in {{}, {a}} : CancelExecution(S)
      /\ DestroyGates({a})
    BY <1>0 DEF Withdraw, Return, At, cancellation
<1>2. \A k \in Host : k # h => Stays(k)
    BY <1>1 DEF Stays, TypeOK
<1>3. \A b \in Approval : b # a => Aside(b)
    BY <1>1 DEF Aside, CancelExecution, DestroyGates
<1>4. record[a] \in {"cancelled", "gone"} /\ pc'[h] = "idle"
    BY <1>0, <1>1 DEF Inv, AnswerInv, TellersAgree, Telling, Sentence, TypeOK
<1>5. /\ callback[a] = "set" => exec[a] \in {"pending", "running"}
      /\ gate'[a] = IF gate[a] = "none" THEN "none" ELSE "destroyed"
      /\ \/ exec'[a] = exec[a] /\ callback'[a] = callback[a]
         \/ /\ exec[a] \in {"pending", "running"} /\ exec'[a] = "cancelled"
            /\ callback'[a] = IF callback[a] = "set" THEN "due" ELSE callback[a]
    BY <1>0, <1>1 DEF Sound, FuturesAreLive, DestroyGates, CancelExecution
<1>6. Sound(a)'
    BY <1>0, <1>1, <1>4, <1>5 DEF Sound, GateComesFirst, FuturesAreLive, ApprovedWaits,
       ScheduledStarts, ExecutingCompletes, GatesGo
<1>7. Ends(a) /\ Evolves(a) /\ SchedulerSees(h)'
    BY <1>1, <1>4, <1>5 DEF Ends, Evolves, SchedulerSees, Scheduling
<1>8. pc[h] # "destroying" /\ pc'[h] \notin Scheduling
    BY <1>1, <1>4 DEF Scheduling
<1> QED BY <1>0, <1>2, <1>3, <1>6, <1>7, <1>8, HostMoves

\* An owner cancellation cancels an execution.
LEMMA InterruptSchedules ==
    ASSUME Inv, TypeOK', NEW h \in Host, InterruptExecution(h), NEW a \in Approval, job[h] = a
    PROVE  ScheduleInv'
<1>0. TypeOK /\ ScheduleInv /\ Sound(a) /\ SchedulerSees(h)
    BY DEF Inv, ScheduleInv, TypeOK
<1>1. /\ pc[h] = "interrupting" /\ todo' = todo /\ UNCHANGED <<record, gate, task>>
      /\ pc' = [pc EXCEPT ![h] = "idle"] /\ job' = [job EXCEPT ![h] = 1]
      /\ CancelExecution({a})
    BY <1>0 DEF InterruptExecution, Return, At, cancellation
<1>2. \A k \in Host : k # h => Stays(k)
    BY <1>1 DEF Stays, TypeOK
<1>3. \A b \in Approval : b # a => Aside(b)
    BY <1>1 DEF Aside, CancelExecution
<1>4. record[a] \in {"cancelling", "gone"} \cup Terminal /\ pc'[h] = "idle"
    BY <1>0, <1>1 DEF SchedulerSees, TypeOK
<1>5. /\ callback[a] = "set" => exec[a] \in {"pending", "running"}
      /\ \/ exec'[a] = exec[a] /\ callback'[a] = callback[a]
         \/ /\ exec[a] \in {"pending", "running"} /\ exec'[a] = "cancelled"
            /\ callback'[a] = IF callback[a] = "set" THEN "due" ELSE callback[a]
    BY <1>0, <1>1 DEF Sound, FuturesAreLive, CancelExecution
<1>6. Sound(a)'
    <2>1. GateComesFirst(a)' /\ FuturesAreLive(a)' /\ ApprovedWaits(a)' /\ ScheduledStarts(a)'
          /\ ExecutingCompletes(a)'
        BY <1>0, <1>1, <1>4, <1>5 DEF Sound, GateComesFirst, FuturesAreLive, ApprovedWaits,
           ScheduledStarts, ExecutingCompletes, Terminal
    <2>2. \A k \in Host : pc[k] \in {"failed", "withdrawing", "recalling", "destroying"}
                    => pc'[k] = pc[k] /\ job'[k] = job[k]
        BY <1>1, <1>2 DEF Stays
    <2>3. GatesGo(a)'
        BY <1>0, <1>1, <1>5, <2>2 DEF Sound, GatesGo
    <2> QED BY <2>1, <2>3 DEF Sound
<1>7. Ends(a) /\ Evolves(a) /\ SchedulerSees(h)'
    BY <1>1, <1>4, <1>5 DEF Ends, Evolves, SchedulerSees, Scheduling, Terminal
<1>8. pc[h] # "destroying" /\ pc[h] \notin Working /\ pc'[h] \notin Scheduling
    BY <1>1, <1>4 DEF Scheduling, Working
<1> QED BY <1>0, <1>2, <1>3, <1>6, <1>7, <1>8, HostMoves

\* The sections of a teardown.
LEMMA ClearSchedules ==
    ASSUME Inv, TypeOK', NEW h \in Host, Clear(h) PROVE ScheduleInv'
<1>0. TypeOK /\ ScheduleInv
    BY DEF Inv
<1>1. /\ \A b \in Approval : record'[b] = IF record[b] \in Active \cup Terminal THEN "gone"
                                          ELSE record[b]
      /\ todo'[h] = {<<b, record[b]>> : b \in {b \in Approval : record[b] \in Active \cup Terminal}}
      /\ pc[h] = "idle" /\ pc'[h] = "destroying" /\ \A k \in Host : k # h => Stays(k)
      /\ UNCHANGED <<gate, exec, task, callback>>
    BY DEF Clear, At, TypeOK, futures, Stays, Inv
<1>2. \A b \in Approval : record'[b] \in {"free", "gone"} /\ (record[b] \in {"free", "gone"} => record'[b] = record[b])
    BY <1>0, <1>1 DEF TypeOK, Active, Terminal
<1>3. ASSUME NEW b \in Approval PROVE Sound(b)'
    <2>1. Sound(b)
        BY <1>0 DEF ScheduleInv
    <2>2. GateComesFirst(b)' /\ FuturesAreLive(b)' /\ ApprovedWaits(b)' /\ ScheduledStarts(b)'
          /\ ExecutingCompletes(b)'
        <3>1. record'[b] = "free" => record[b] = "free"
            BY <1>1
        <3>2. record'[b] \in {"free", "gone"}
            BY <1>2
        <3> QED BY <1>1, <2>1, <3>1, <3>2 DEF Sound, GateComesFirst, FuturesAreLive, ApprovedWaits,
                ScheduledStarts, ExecutingCompletes, Gated, Active
    <2>3. GatesGo(b)'
        <3> SUFFICES ASSUME gate[b] \in {"open", "start"}
                     PROVE  \/ callback'[b] = "resolving"
                            \/ \E k \in Host : job'[k] = b /\ pc'[k] \in {"failed", "withdrawing", "recalling"}
                            \/ \E k \in Host : pc'[k] = "destroying" /\ \E s \in Gated : <<b, s>> \in todo'[k]
            BY <1>1 DEF GatesGo
        <3>1. CASE record[b] \in Gated
            <4>1. <<b, record[b]>> \in todo'[h]
                BY <1>1, <3>1 DEF Gated
            <4> QED BY <1>1, <3>1, <4>1
        <3>2. CASE record[b] \notin Gated
            <4>1. \/ callback[b] = "resolving"
                  \/ \E k \in Host : job[k] = b /\ pc[k] \in {"failed", "withdrawing", "recalling"}
                  \/ \E k \in Host : pc[k] = "destroying" /\ \E s \in Gated : <<b, s>> \in todo[k]
                BY <2>1, <3>2 DEF Sound, GatesGo
            <4>2. \A k \in Host : pc[k] # "idle" => Stays(k)
                BY <1>1
            <4> QED BY <1>1, <4>1, <4>2 DEF Stays
        <3> QED BY <3>1, <3>2
    <2> QED BY <2>2, <2>3 DEF Sound
<1>4. ASSUME NEW k \in Host PROVE SchedulerSees(k)'
    <2>1. CASE k = h
        BY <1>1, <2>1 DEF SchedulerSees, Scheduling
    <2>2. CASE k # h
        <3>1. SchedulerSees(k) /\ job[k] \in Approval /\ Stays(k)
            BY <1>0, <1>1, <2>2 DEF ScheduleInv, TypeOK
        <3>2. Ends(job[k])
            BY <1>1, <3>1 DEF Ends
        <3>3. pc[k] \in Scheduling => Evolves(job[k])
            <4>1. record'[job[k]] \in {"free", "gone"} /\ (record'[job[k]] = "free" => record[job[k]] = "free")
                BY <1>1, <1>2, <3>1
            <4> QED BY <1>1, <3>1, <4>1 DEF Evolves
        <3> QED BY <1>0, <3>1, <3>2, <3>3, StillSees
    <2> QED BY <2>1, <2>2
<1>5. OneScheduler'
    <2>1. \A k \in Host : pc'[k] \in Scheduling => Stays(k)
        BY <1>1 DEF Scheduling
    <2> QED BY <1>0, <2>1 DEF ScheduleInv, OneScheduler, Stays
<1> QED BY <1>3, <1>4, <1>5 DEF ScheduleInv

\* A teardown destroys the gates and Futures it saw.
LEMMA DestroySchedules ==
    ASSUME Inv, TypeOK', NEW h \in Host, DestroyContext(h) PROVE ScheduleInv'
<1> DEFINE In(states) == {b \in Approval : \E s \in states : <<b, s>> \in todo[h]}
<1>0. TypeOK /\ ScheduleInv
    BY DEF Inv
<1>1. /\ pc[h] = "destroying" /\ pc'[h] = "idle" /\ UNCHANGED <<record, task>>
      /\ \A k \in Host : k # h => Stays(k)
      /\ DestroyExecution(In(Attached)) /\ DestroyGates(In(Gated))
    BY <1>0 DEF DestroyContext, Return, At, TypeOK, Stays
<1>2. \A b \in Approval : b \in In(Gated) <=> \E s \in Gated : <<b, s>> \in todo[h]
    OBVIOUS
<1>3. In(Attached) \subseteq In(Gated)
    BY DEF Attached
<1>4. \A b \in In(Gated) : record[b] = "gone"
    <2> SUFFICES ASSUME NEW b \in In(Gated) PROVE record[b] = "gone"
        OBVIOUS
    <2>1. PICK s \in Gated : <<b, s>> \in todo[h]
        BY <1>2
    <2>2. record[<<b, s>>[1]] = "gone"
        BY <1>1, <2>1 DEF Inv, AnswerInv, TellersAgree
    <2> QED BY <2>2
<1> DEFINE G == In(Gated)
           A == In(Attached)
<1>5. DestroyExecution(A) /\ DestroyGates(G) /\ A \subseteq G /\ \A b \in G : record[b] = "gone"
    BY <1>1, <1>3, <1>4
<1>6. \A b \in Approval : b \in G <=> \E s \in Gated : <<b, s>> \in todo[h]
    BY <1>2
<1> HIDE DEF In, G, A
<1>7. ASSUME NEW b \in Approval
      PROVE  /\ gate'[b] = IF b \in G /\ gate[b] # "none" THEN "destroyed" ELSE gate[b]
             /\ exec'[b] = IF b \in A /\ exec[b] # "none" THEN "destroyed" ELSE exec[b]
             /\ callback'[b] = IF b \in A /\ exec[b] \in {"pending", "running"} /\ callback[b] = "set"
                               THEN "due" ELSE callback[b]
    BY <1>5 DEF DestroyGates, DestroyExecution
<1>8. ASSUME NEW b \in Approval PROVE Evolves(b) /\ Ends(b)
    BY <1>1, <1>5, <1>7 DEF Evolves, Ends
<1>9. ASSUME NEW b \in Approval PROVE Sound(b)'
    <2>1. Sound(b)
        BY <1>0 DEF ScheduleInv
    <2>2. GatesGo(b)'
        <3> SUFFICES ASSUME gate'[b] \in {"open", "start"}, record[b] \notin Gated
                     PROVE  \/ callback'[b] = "resolving"
                            \/ \E k \in Host : job'[k] = b /\ pc'[k] \in {"failed", "withdrawing", "recalling"}
                            \/ \E k \in Host : pc'[k] = "destroying" /\ \E s \in Gated : <<b, s>> \in todo'[k]
            BY <1>1 DEF GatesGo
        <3>1. b \notin G /\ gate[b] \in {"open", "start"}
            BY <1>7
        <3>2. \/ callback[b] = "resolving"
              \/ \E k \in Host : job[k] = b /\ pc[k] \in {"failed", "withdrawing", "recalling"}
              \/ \E k \in Host : pc[k] = "destroying" /\ \E s \in Gated : <<b, s>> \in todo[k]
            BY <2>1, <3>1 DEF Sound, GatesGo
        <3>3. callback[b] = "resolving" => callback'[b] = "resolving"
            BY <1>7
        <3>4. \A k \in Host : pc[k] \in {"failed", "withdrawing", "recalling"} => Stays(k)
            BY <1>1
        <3>5. \A k \in Host : (\E s \in Gated : <<b, s>> \in todo[k]) => Stays(k)
            BY <1>1, <1>6, <3>1
        <3> QED BY <3>2, <3>3, <3>4, <3>5 DEF Stays
    <2>3. CASE b \in G
        <3>1. record[b] = "gone" /\ record'[b] = "gone"
            BY <1>1, <1>5, <2>3
        <3> QED BY <1>1, <1>7, <2>1, <2>2, <3>1
            DEF Sound, GateComesFirst, FuturesAreLive, ApprovedWaits, ScheduledStarts,
                ExecutingCompletes, Gated, Active
    <2>4. CASE b \notin G
        <3>1. /\ gate'[b] = gate[b] /\ exec'[b] = exec[b] /\ callback'[b] = callback[b]
              /\ task'[b] = task[b] /\ record'[b] = record[b]
            BY <1>1, <1>5, <1>7, <2>4
        <3>2. GateComesFirst(b)' /\ FuturesAreLive(b)' /\ ExecutingCompletes(b)'
            BY <2>1, <3>1 DEF Sound, GateComesFirst, FuturesAreLive, ExecutingCompletes
        <3>3. \A k \in Host : pc[k] # "destroying" => Stays(k)
            BY <1>1
        <3>4. ApprovedWaits(b)'
            BY <2>1, <3>1, <3>3 DEF Sound, ApprovedWaits, Waiting, Stays
        <3>5. ScheduledStarts(b)'
            BY <2>1, <3>1, <3>3 DEF Sound, ScheduledStarts, Waiting, Stays
        <3> QED BY <2>2, <3>2, <3>4, <3>5 DEF Sound
    <2> QED BY <2>3, <2>4
<1>10. ASSUME NEW k \in Host PROVE SchedulerSees(k)'
    <2>1. CASE k = h
        BY <1>1, <2>1 DEF SchedulerSees, Scheduling
    <2>2. CASE k # h
        <3>1. SchedulerSees(k) /\ job[k] \in Approval /\ Stays(k)
            BY <1>0, <1>1, <2>2 DEF ScheduleInv, TypeOK
        <3> QED BY <1>0, <1>8, <3>1, StillSees
    <2> QED BY <2>1, <2>2
<1>11. OneScheduler'
    <2>1. \A k \in Host : pc'[k] \in Scheduling => Stays(k)
        BY <1>1 DEF Scheduling
    <2> QED BY <1>0, <2>1 DEF ScheduleInv, OneScheduler, Stays
<1> QED BY <1>9, <1>10, <1>11 DEF ScheduleInv

\* Whatever a host does, the schedule stays sound.
LEMMA HostSchedules ==
    ASSUME Inv, TypeOK', NEW h \in Host, HostStep(h) PROVE ScheduleInv'
<1>0. TypeOK /\ ScheduleInv /\ job[h] \in Approval
    BY DEF Inv, TypeOK
<1>1. CASE Inform(h)
    <2>1. /\ pc[h] \in {"denied", "superseded"} /\ pc'[h] = "idle"
          /\ \A k \in Host : k # h => Stays(k)
          /\ UNCHANGED <<record, gate, exec, task, callback>>
        BY <1>0, <1>1 DEF Inform, Return, At, Stays, TypeOK, cancellation
    <2>2. \A b \in Approval : Aside(b)
        BY <2>1 DEF Aside
    <2> QED BY <1>0, <2>1, <2>2, IdleMoves
<1>2. CASE EndSweep(h)
    <2>1. pc[h] = "idle" /\ UNCHANGED <<pc, job, todo, record, gate, exec, task, callback>>
        BY <1>2 DEF EndSweep, futures
    <2>2. (\A b \in Approval : Aside(b)) /\ (\A k \in Host : Stays(k))
        BY <2>1 DEF Aside, Stays
    <2> QED BY <1>0, <2>1, <2>2, IdleMoves
<1>3. ASSUME NEW a \in Approval, CancelPending(h, a) PROVE ScheduleInv'
    <2>1. pc[h] = "idle" /\ UNCHANGED futures /\ \A k \in Host : k # h => todo'[k] = todo[k]
        BY <1>0, <1>3 DEF CancelPending, Reach, TypeOK
    <2>2. CASE DenyRecord(h, a)
        BY <2>1, <2>2, DenySchedules
    <2>3. CASE UNCHANGED <<record, doomed, pc, job>>
        <3>1. (\A b \in Approval : Aside(b)) /\ (\A k \in Host : k # h => Stays(k))
            BY <2>1, <2>3 DEF Aside, Stays, futures
        <3> QED BY <1>0, <2>1, <2>3, <3>1, IdleMoves
    <2> QED BY <1>3, <2>2, <2>3 DEF CancelPending
<1> QED BY <1>0, <1>1, <1>2, <1>3, SubmitSchedules, RegisterSchedules, ArmSchedules,
           SignalSchedules, AbandonSchedules, FailSchedules, CancelSchedules, WithdrawSchedules,
           InterruptSchedules, ClearSchedules, DestroySchedules DEF HostStep

-----------------------------------------------------------------------------
(* So do workers, callbacks and those who propose and decide.              *)

\* A task that ends leaves its operation sound,
LEMMA FinishSound ==
    ASSUME TypeOK, NEW a \in Approval, Sound(a), Finish(a), record'[a] = record[a],
           record[a] \notin {"approved", "scheduled"}, task[a] # "queued", task[a] # "none"
    PROVE  Sound(a)' /\ Evolves(a) /\ Ends(a)
<1>1. /\ task'[a] = "over"
      /\ gate'[a] = IF gate[a] # "none" THEN "destroyed" ELSE gate[a]
      /\ exec'[a] = IF exec[a] = "running" THEN "complete" ELSE exec[a]
      /\ callback'[a] = IF exec[a] = "running" /\ callback[a] = "set" THEN "due" ELSE callback[a]
    BY DEF TypeOK, Finish, Proceed, DestroyGates
<1>2. exec[a] # "pending" /\ (callback[a] = "set" => exec[a] = "running") /\ gate[a] # "none"
    BY DEF Sound, FuturesAreLive, GateComesFirst
<1>3. gate'[a] = "destroyed"
    BY <1>1, <1>2
<1>4. Sound(a)'
    BY <1>1, <1>2, <1>3 DEF Sound, GateComesFirst, FuturesAreLive, ApprovedWaits, ScheduledStarts,
       ExecutingCompletes, GatesGo
<1> QED BY <1>1, <1>2, <1>4 DEF Evolves, Ends

\* ... and the others aside.
LEMMA FinishAside ==
    ASSUME TypeOK, NEW a \in Approval, Finish(a), NEW b \in Approval, b # a, record'[b] = record[b]
    PROVE  Aside(b)
BY Finished DEF Aside, TypeOK

\* Steps of a task.
LEMMA WorkerSchedules ==
    ASSUME Inv, TypeOK', NEW a \in Approval, WorkerStep(a) PROVE ScheduleInv'
<1>0. TypeOK /\ ScheduleInv /\ Sound(a)
    BY DEF Inv, ScheduleInv
<1>1. UNCHANGED <<pc, job, todo>> /\ \A k \in Host : Stays(k)
    BY DEF WorkerStep, Dequeue, Wake, ClaimExecution, CallContinuation, EndExecution,
           cancellation, Stays
<1>2. ASSUME Finish(a), record' = record, task[a] # "queued", task[a] # "none",
             record[a] \notin {"approved", "scheduled"}
      PROVE  ScheduleInv'
    <2>1. Sound(a)' /\ Evolves(a) /\ Ends(a)
        BY <1>0, <1>2, FinishSound
    <2>2. \A b \in Approval : b # a => Aside(b)
        BY <1>0, <1>2, FinishAside
    <2> QED BY <1>0, <1>1, <2>1, <2>2, WorkerMoves
<1>3. CASE Dequeue(a)
    <2>1. /\ task[a] = "queued" /\ UNCHANGED <<record, gate, callback>>
          /\ \A b \in Approval : b # a => exec'[b] = exec[b] /\ task'[b] = task[b]
          /\ \/ exec[a] = "pending" /\ exec'[a] = "running" /\ task'[a] = "waiting"
             \/ exec[a] # "pending" /\ exec'[a] = exec[a] /\ task'[a] = "over"
        BY <1>0, <1>3 DEF Dequeue, Proceed, TypeOK
    <2>2. \A b \in Approval : b # a => Aside(b)
        BY <2>1 DEF Aside
    <2>3. Sound(a)'
        <3>1. GateComesFirst(a)' /\ FuturesAreLive(a)' /\ ExecutingCompletes(a)'
            BY <1>0, <2>1 DEF Sound, GateComesFirst, FuturesAreLive, ExecutingCompletes
        <3>2. ApprovedWaits(a)' /\ ScheduledStarts(a)'
            BY <1>0, <1>1, <2>1 DEF Sound, ApprovedWaits, ScheduledStarts, Waiting
        <3>3. GatesGo(a)'
            BY <1>0, <1>1, <2>1 DEF Sound, GatesGo
        <3> QED BY <3>1, <3>2, <3>3 DEF Sound
    <2>4. Evolves(a) /\ Ends(a)
        BY <2>1 DEF Evolves, Ends
    <2> QED BY <1>0, <1>1, <2>2, <2>3, <2>4, WorkerMoves
<1>4. CASE Wake(a)
    <2>1. CASE gate[a] = "start" /\ gate' = [gate EXCEPT ![a] = "open"] /\ Proceed(a, "started")
               /\ UNCHANGED <<exec, callback>>
        <3>1. /\ task[a] = "waiting" /\ gate[a] = "start" /\ UNCHANGED <<record, exec, callback>>
              /\ \A b \in Approval : b # a => gate'[b] = gate[b] /\ task'[b] = task[b]
              /\ gate'[a] = "open" /\ task'[a] = "started"
            BY <1>0, <1>4, <2>1 DEF Wake, Proceed, TypeOK
        <3>2. \A b \in Approval : b # a => Aside(b)
            BY <3>1 DEF Aside
        <3>3. record[a] # "approved"
            BY <1>0, <3>1 DEF Sound, ApprovedWaits, FuturesAreLive
        <3>4. Sound(a)'
            <4>1. GateComesFirst(a)' /\ FuturesAreLive(a)' /\ ExecutingCompletes(a)' /\ ApprovedWaits(a)'
                BY <1>0, <3>1, <3>3
                DEF Sound, GateComesFirst, FuturesAreLive, ExecutingCompletes, ApprovedWaits
            <4>2. ScheduledStarts(a)'
                BY <1>0, <3>1 DEF Sound, ScheduledStarts, Waiting
            <4>3. GatesGo(a)'
                BY <1>0, <1>1, <3>1 DEF Sound, GatesGo
            <4> QED BY <4>1, <4>2, <4>3 DEF Sound
        <3>5. Evolves(a) /\ Ends(a)
            BY <3>1 DEF Evolves, Ends
        <3> QED BY <1>0, <1>1, <3>2, <3>4, <3>5, WorkerMoves
    <2>2. CASE (gate[a] = "destroyed" \/ exec[a] # "running") /\ Finish(a)
        <3>1. task[a] = "waiting" /\ record' = record
            BY <1>4 DEF Wake
        <3>2. record[a] # "approved"
            BY <1>0, <2>2, <3>1 DEF Sound, ApprovedWaits, Waiting
        <3>3. record[a] # "scheduled"
            BY <1>0, <2>2, <3>1 DEF Sound, ScheduledStarts, Waiting
        <3> QED BY <1>2, <2>2, <3>1, <3>2, <3>3
    <2> QED BY <1>4, <2>1, <2>2 DEF Wake
<1>5. CASE ClaimExecution(a)
    <2>1. task[a] = "started"
        BY <1>5 DEF ClaimExecution
    <2>2. record[a] # "approved"
        BY <1>0, <2>1 DEF Sound, ApprovedWaits, Waiting
    <2>3. CASE record[a] = "scheduled" /\ record' = [record EXCEPT ![a] = "executing"]
               /\ Proceed(a, "claimed") /\ UNCHANGED <<gate, exec, callback>>
        <3>1. /\ record'[a] = "executing" /\ task'[a] = "claimed"
              /\ \A b \in Approval : b # a => record'[b] = record[b] /\ task'[b] = task[b]
            BY <1>0, <2>3 DEF Proceed, TypeOK
        <3>2. \A b \in Approval : b # a => Aside(b)
            BY <2>3, <3>1 DEF Aside
        <3>3. callback[a] = "set" /\ gate[a] \in {"open", "start"} /\ exec[a] = "running"
            BY <1>0, <2>1, <2>3 DEF Sound, ScheduledStarts, Waiting
        <3>4. Sound(a)'
            BY <2>3, <3>1, <3>3 DEF Sound, GateComesFirst, FuturesAreLive, ApprovedWaits,
               ScheduledStarts, ExecutingCompletes, GatesGo, Gated, Active
        <3>5. Evolves(a) /\ Ends(a)
            BY <2>1, <2>3, <3>1 DEF Evolves, Ends, Terminal
        <3> QED BY <1>0, <1>1, <3>2, <3>4, <3>5, WorkerMoves
    <2>4. CASE record[a] # "scheduled" /\ Finish(a) /\ UNCHANGED record
        BY <1>2, <2>1, <2>2, <2>4
    <2> QED BY <1>5, <2>3, <2>4 DEF ClaimExecution
<1>6. CASE CallContinuation(a)
    <2>1. /\ task[a] = "claimed" /\ task'[a] = "running" /\ UNCHANGED <<record, gate, exec, callback>>
          /\ \A b \in Approval : b # a => task'[b] = task[b]
        BY <1>0, <1>6 DEF CallContinuation, Proceed, TypeOK
    <2>2. \A b \in Approval : b # a => Aside(b)
        BY <2>1 DEF Aside
    <2>3. Sound(a)'
        <3>1. record[a] \notin {"approved", "scheduled"}
            BY <1>0, <2>1 DEF Sound, ApprovedWaits, ScheduledStarts, Waiting
        <3>2. GateComesFirst(a)' /\ FuturesAreLive(a)' /\ ExecutingCompletes(a)' /\ ApprovedWaits(a)'
              /\ ScheduledStarts(a)'
            BY <1>0, <2>1, <3>1 DEF Sound, GateComesFirst, FuturesAreLive, ExecutingCompletes,
               ApprovedWaits, ScheduledStarts
        <3>3. GatesGo(a)'
            BY <1>0, <1>1, <2>1 DEF Sound, GatesGo
        <3> QED BY <3>2, <3>3 DEF Sound
    <2>4. Evolves(a) /\ Ends(a)
        BY <2>1 DEF Evolves, Ends
    <2> QED BY <1>0, <1>1, <2>2, <2>3, <2>4, WorkerMoves
<1>7. CASE EndExecution(a)
    <2>1. /\ Finish(a) /\ record' = record
          /\ \/ task[a] = "running"
             \/ task[a] \in {"started", "claimed"} /\ exec[a] \in {"cancelled", "destroyed"}
        BY <1>7 DEF EndExecution
    <2>2. record[a] \notin {"approved", "scheduled"}
        BY <1>0, <2>1 DEF Sound, ApprovedWaits, ScheduledStarts, Waiting
    <2> QED BY <1>2, <2>1, <2>2
<1> QED BY <1>3, <1>4, <1>5, <1>6, <1>7 DEF WorkerStep

\* Steps of a completion callback.
LEMMA CallbackSchedules ==
    ASSUME Inv, TypeOK', NEW a \in Approval, CallbackStep(a) PROVE ScheduleInv'
<1>0. TypeOK /\ ScheduleInv /\ Sound(a) /\ a \in Thread
    BY DEF Inv, ScheduleInv, Thread
<1>1. UNCHANGED <<pc, job, todo, task>> /\ \A k \in Host : Stays(k)
    BY DEF CallbackStep, Complete, Release, cancellation, Stays
<1>2. CASE Complete(a)
    <2>1. /\ callback[a] = "due" /\ UNCHANGED <<resolution, gate, exec, task, calls>>
        BY <1>2 DEF Complete
    <2>2. ASSUME NEW s \in {"resolved", "cancelled"}, record[a] \in Attached,
                 Prune(a, [record EXCEPT ![a] = s]), callback' = [callback EXCEPT ![a] = "resolving"]
          PROVE  ScheduleInv'
        <3>1. record[a] \in Active /\ s \in Terminal
            BY <2>2 DEF Attached, Gated, Terminal
        <3>2. Closing(a, a, {}) /\ record'[a] \in {s, "gone"}
            BY <1>0, <2>1, <2>2, <3>1, PrunedClosing
        <3>3. callback'[a] = "resolving" /\ \A b \in Approval : b # a => callback'[b] = callback[b]
            BY <1>0, <2>2 DEF TypeOK
        <3>4. \A b \in Approval : b # a => Aside(b)
            BY <1>0, <2>1, <3>2, <3>3, ClosingAside
        <3>5. Sound(a)'
            BY <1>0, <2>1, <3>1, <3>2, <3>3 DEF Sound, GateComesFirst, FuturesAreLive, ApprovedWaits,
               ScheduledStarts, ExecutingCompletes, GatesGo, Terminal
        <3>6. Evolves(a) /\ Ends(a)
            BY <2>1, <3>1, <3>2, <3>3 DEF Evolves, Ends, Terminal
        <3> QED BY <1>0, <1>1, <3>4, <3>5, <3>6, WorkerMoves
    <2>3. CASE record[a] \notin Attached /\ callback' = [callback EXCEPT ![a] = "ignoring"]
               /\ UNCHANGED <<record, doomed>>
        <3>1. callback'[a] = "ignoring" /\ \A b \in Approval : b # a => callback'[b] = callback[b]
            BY <1>0, <2>3 DEF TypeOK
        <3>2. \A b \in Approval : b # a => Aside(b)
            BY <2>1, <2>3, <3>1 DEF Aside
        <3>3. record[a] \notin {"scheduled", "executing", "cancelling"}
            BY <2>3 DEF Attached, Gated, Active
        <3>4. Sound(a)'
            <4>1. GateComesFirst(a)' /\ FuturesAreLive(a)' /\ ExecutingCompletes(a)' /\ ScheduledStarts(a)'
                BY <1>0, <2>1, <2>3, <3>1, <3>3
                DEF Sound, GateComesFirst, FuturesAreLive, ExecutingCompletes, ScheduledStarts
            <4>2. ApprovedWaits(a)'
                BY <1>0, <1>1, <2>1, <2>3, <3>1 DEF Sound, ApprovedWaits, Waiting
            <4>3. GatesGo(a)'
                BY <1>0, <1>1, <2>1, <2>3 DEF Sound, GatesGo
            <4> QED BY <4>1, <4>2, <4>3 DEF Sound
        <3>5. Evolves(a) /\ Ends(a)
            BY <2>1, <2>3, <3>1 DEF Evolves, Ends
        <3> QED BY <1>0, <1>1, <3>2, <3>4, <3>5, WorkerMoves
    <2> QED BY <1>2, <2>2, <2>3 DEF Complete
<1>3. CASE Release(a)
    <2>1. /\ callback[a] \in {"resolving", "ignoring"} /\ UNCHANGED record
          /\ callback'[a] = "done" /\ exec'[a] = "destroyed"
          /\ \A b \in Approval : b # a =>
                callback'[b] = callback[b] /\ exec'[b] = exec[b] /\ gate'[b] = gate[b]
          /\ gate'[a] = IF gate[a] # "none" THEN "destroyed" ELSE gate[a]
        BY <1>0, <1>3 DEF Release, DestroyGates, TypeOK
    <2>2. gate'[a] = "destroyed"
        BY <1>0, <2>1 DEF Sound, GateComesFirst
    <2>3. \A b \in Approval : b # a => Aside(b)
        BY <1>1, <2>1 DEF Aside
    <2>4. callback[a] = "resolving" => record[a] \notin Active
        BY DEF Inv, AnswerInv, TellersAgree, Active
    <2>5. Sound(a)'
        <3>1. GateComesFirst(a)' /\ FuturesAreLive(a)' /\ GatesGo(a)'
            BY <1>0, <1>1, <2>1, <2>2 DEF Sound, GateComesFirst, FuturesAreLive, GatesGo
        <3>2. ExecutingCompletes(a)' /\ ScheduledStarts(a)'
            BY <1>0, <2>1 DEF Sound, ExecutingCompletes, ScheduledStarts
        <3>3. ApprovedWaits(a)'
            <4> SUFFICES ASSUME record[a] = "approved" PROVE ApprovedWaits(a)'
                BY <2>1 DEF ApprovedWaits
            <4>1. callback[a] = "ignoring"
                BY <2>1, <2>4 DEF Active
            <4> QED BY <1>0, <1>1, <2>1, <4>1 DEF Sound, ApprovedWaits, Waiting
        <3> QED BY <3>1, <3>2, <3>3 DEF Sound
    <2>6. Evolves(a) /\ Ends(a)
        BY <1>1, <2>1, <2>2 DEF Evolves, Ends
    <2> QED BY <1>0, <1>1, <2>3, <2>5, <2>6, WorkerMoves
<1> QED BY <1>2, <1>3 DEF CallbackStep

\* The first critical section of a call.
LEMMA CallSchedules ==
    ASSUME Inv, TypeOK',
           \/ \E a \in Approval : Propose(a)
           \/ \E h \in Host, a \in Approval : Approve(h, a) \/ Deny(h, a)
           \/ \E h \in Host, a, b \in Approval : Edit(h, a, b)
           \/ \E h \in Host, purpose \in Purpose : Sweep(h, purpose)
    PROVE  ScheduleInv'
<1>0. TypeOK /\ ScheduleInv
    BY DEF Inv
<1>1. ASSUME NEW a \in Approval, Propose(a) PROVE ScheduleInv'
    <2>1. (\A b \in Approval : Aside(b)) /\ (\A k \in Host : Stays(k))
        BY <1>0, <1>1 DEF Propose, Fresh, Aside, Stays, TypeOK, cancellation
    <2>2. Sound(a)' /\ Evolves(a) /\ Ends(a)
        BY <1>0, <2>1, AsideSound, AsideEvolves DEF ScheduleInv
    <2> QED BY <1>0, <2>1, <2>2, WorkerMoves
<1>2. ASSUME NEW h \in Host, NEW a \in Approval, Approve(h, a) PROVE ScheduleInv'
    <2>1. /\ pc[h] = "idle" /\ record[a] = "pending" /\ record'[a] = "approved" /\ gate'[a] = "open"
          /\ \A b \in Approval : b # a => record'[b] = record[b] /\ gate'[b] = gate[b]
          /\ pc'[h] = "submitting" /\ job'[h] = a /\ \A k \in Host : k # h => Stays(k)
          /\ UNCHANGED <<exec, task, callback>>
        BY <1>0, <1>2 DEF Approve, Idle, At, Stays, TypeOK, cancellation
    <2>2. \A b \in Approval : b # a => Aside(b)
        BY <2>1 DEF Aside
    <2>3. Sound(a) /\ exec[a] = "none" /\ task[a] = "none" /\ callback[a] = "none"
        BY <1>0, <2>1 DEF ScheduleInv, Sound, GateComesFirst
    <2>4. Sound(a)'
        BY <2>1, <2>3 DEF Sound, GateComesFirst, FuturesAreLive, ApprovedWaits, ScheduledStarts,
           ExecutingCompletes, GatesGo, Gated, Active
    <2>5. Ends(a) /\ Evolves(a) /\ SchedulerSees(h)'
        BY <2>1, <2>3 DEF Ends, Evolves, SchedulerSees, Terminal
    <2>6. pc[h] # "destroying" /\ pc[h] \notin Working
        BY <2>1 DEF Working, Scheduling
    <2> QED BY <1>0, <2>1, <2>2, <2>4, <2>5, <2>6, HostMoves
<1>3. ASSUME NEW h \in Host, NEW a \in Approval, Deny(h, a) PROVE ScheduleInv'
    BY <1>3, DenySchedules DEF Deny, Idle, cancellation
<1>4. ASSUME NEW h \in Host, NEW a \in Approval, NEW b \in Approval, Edit(h, a, b) PROVE ScheduleInv'
    <2> DEFINE r == [record EXCEPT ![a] = "superseded", ![b] = "pending"]
    <2>0. record[a] = "pending" /\ record[b] = "free" /\ a # b
        BY <1>4 DEF Edit, Fresh
    <2>1. /\ Prune(h, r) /\ h \in Thread
          /\ pc[h] = "idle" /\ pc'[h] = "superseded" /\ job'[h] = a
          /\ \A k \in Host : k # h => Stays(k)
          /\ UNCHANGED <<gate, exec, task, callback>>
        BY <1>0, <1>4 DEF Edit, Idle, At, Stays, Thread, TypeOK, cancellation
    <2>2. /\ r \in [Approval -> State] /\ r[a] = "superseded" /\ r[b] = "pending"
          /\ \A c \in Approval : c # a /\ c # b => r[c] = record[c]
        <3>1. record \in [Approval -> State] /\ {"superseded", "pending"} \subseteq State
            BY <1>0 DEF TypeOK, State, Active, Terminal
        <3> QED BY <2>0, <3>1
    <2> HIDE DEF r
    <2>3. \A c \in Approval :
                \/ record'[c] = r[c]
                \/ r[c] \in Terminal /\ record'[c] = "gone"
        BY <1>0, <2>1, <2>2, Pruned
    <2>4. \A c \in Approval : c # a => Aside(c)
        BY <2>0, <2>1, <2>2, <2>3 DEF Aside, Terminal
    <2>5. record'[a] \in {"superseded", "gone"}
        BY <2>2, <2>3
    <2>6. Sound(a)'
        <3>1. gate[a] = "none" /\ Sound(a)
            BY <1>0, <2>0 DEF ScheduleInv, Sound, GateComesFirst
        <3> QED BY <2>1, <2>5, <3>1, ClosedSound DEF Terminal
    <2>7. Ends(a) /\ Evolves(a) /\ SchedulerSees(h)'
        BY <2>0, <2>1, <2>5 DEF Ends, Evolves, SchedulerSees, Scheduling, Terminal
    <2>8. pc[h] # "destroying" /\ pc[h] \notin Working /\ pc'[h] \notin Scheduling
        BY <2>1 DEF Working, Scheduling
    <2> QED BY <1>0, <2>1, <2>4, <2>6, <2>7, <2>8, HostMoves
<1>5. ASSUME NEW h \in Host, NEW purpose \in Purpose, Sweep(h, purpose) PROVE ScheduleInv'
    <2>1. /\ pc[h] = "idle" /\ pc'[h] = "idle" /\ UNCHANGED <<record, gate, exec, task, callback>>
          /\ \A k \in Host : k # h => Stays(k)
        BY <1>0, <1>5 DEF Sweep, Idle, Stays, TypeOK, futures
    <2>2. (\A b \in Approval : Aside(b)) /\ job[h] \in Approval
        BY <1>0, <2>1 DEF Aside, TypeOK
    <2> QED BY <1>0, <2>1, <2>2, IdleMoves
<1> QED BY <1>1, <1>2, <1>3, <1>4, <1>5

-----------------------------------------------------------------------------
(* The results.                                                            *)

\* The initial states satisfy the invariant,
LEMMA InitHolds == Init => Inv
<1> SUFFICES ASSUME Init PROVE Inv
    OBVIOUS
<1>1. TypeOK
    BY InitTyping
<1>2. AnswerInv
    BY DEF Init, AnswerInv, TellersAgree, DoomedAreHeld, FreeIsUntold, AnswersMatchRecords,
           ClosedIsAnswered, Telling, Thread, Active, Terminal
<1>3. ScheduleInv
    BY <1>1 DEF Init, ScheduleInv, OneScheduler, SchedulerSees, Sound, GateComesFirst, FuturesAreLive,
       ApprovedWaits, ScheduledStarts, ExecutingCompletes, GatesGo, Scheduling, Gated, Active, TypeOK
<1> QED BY <1>1, <1>2, <1>3 DEF Inv

\* ... every step keeps it,
LEMMA NextHolds == Inv /\ [Next]_vars => Inv'
<1> SUFFICES ASSUME Inv, [Next]_vars PROVE Inv'
    OBVIOUS
<1>1. TypeOK /\ AnswerInv /\ TypeOK'
    BY NextTyping DEF Inv
<1>2. AnswerInv'
    BY <1>1, StepKind, KindKeepsAnswers
<1>3. ScheduleInv'
    <2>1. CASE UNCHANGED vars
        <3>1. \A k \in Host : Stays(k)
            BY <2>1 DEF vars, cancellation, Stays
        <3>2. \A b \in Approval : Aside(b)
            BY <2>1 DEF vars, futures, Aside
        <3>3. 1 \in Approval /\ ScheduleInv
            BY CapacityAssumption DEF Approval, Inv
        <3>4. Sound(1)' /\ Evolves(1) /\ Ends(1)
            BY <1>1, <3>1, <3>2, <3>3, AsideSound, AsideEvolves DEF ScheduleInv
        <3> QED BY <1>1, <3>1, <3>2, <3>3, <3>4, WorkerMoves
    <2> QED BY <1>1, <2>1, HostSchedules, WorkerSchedules, CallbackSchedules, CallSchedules DEF Next
<1> QED BY <1>1, <1>2, <1>3 DEF Inv

\* ... and so it always holds.
LEMMA Invariance == Spec => []Inv
BY InitHolds, NextHolds, PTL DEF Spec

\* Whatever becomes of an operation, by approval, denial, edit, cancellation, completion
\* or teardown and in whichever order they come, its waiters are told what its record says.
THEOREM AnswersFollowRecords == Spec => []AnswersMatchRecords
<1>1. Inv => AnswersMatchRecords
    BY DEF Inv, AnswerInv
<1> QED BY <1>1, Invariance, PTL

\* An operation that is closed while its Future is pending is one that a thread or its
\* completion callback is still to answer, or a teardown to destroy: pruning and clearing
\* forget no waiter.
THEOREM WaitersAreAnswered == Spec => []ClosedIsAnswered
<1>1. Inv => ClosedIsAnswered
    BY DEF Inv, AnswerInv
<1> QED BY <1>1, Invariance, PTL

\* Between its approval and its end an operation is always in somebody's hands, and its
\* gate is given back: no schedule of approval, rejection, cancellation and completion
\* leaves it behind.
THEOREM ApprovalsAreCarriedOut == Spec => []NothingIsStranded
<1>1. Inv => NothingIsStranded
    <2> SUFFICES ASSUME Inv, NEW a \in Approval,
                        \A h \in Host : ~(job[h] = a /\ pc[h] # "idle"),
                        \A h \in Host : pc[h] # "destroying",
                        task[a] \notin {"queued", "waiting", "started", "claimed", "running"},
                        callback[a] \notin {"due", "resolving", "ignoring"}
                 PROVE  record[a] \notin Gated /\ gate[a] \in {"none", "destroyed"}
        BY DEF NothingIsStranded
    <2>1. Sound(a) /\ TypeOK
        BY DEF Inv, ScheduleInv
    <2>2. record[a] # "approved"
        BY <2>1 DEF Sound, ApprovedWaits
    <2>3. callback[a] # "set"
        BY <2>1 DEF Sound, FuturesAreLive
    <2>4. record[a] \notin {"scheduled", "executing", "cancelling"}
        BY <2>1, <2>3 DEF Sound, ScheduledStarts, ExecutingCompletes
    <2>5. record[a] \notin Gated
        BY <2>2, <2>4 DEF Gated, Active
    <2>6. gate[a] \notin {"open", "start"}
        BY <2>1, <2>5 DEF Sound, GatesGo
    <2> QED BY <2>1, <2>5, <2>6 DEF TypeOK
<1> QED BY <1>1, Invariance, PTL

\* The authority runtime implements Decisions: an operation is carried out at most once,
\* by an execution that claimed it while its approval stood, and its waiters are answered
\* once, after it is closed.
THEOREM RuntimeKeepsDecisions == Spec => KeepsDecisions
<1>1. Inv /\ Inv' /\ [Next]_vars => [Decided!Next]_(Decided!decisions)
    BY StepKind, KindDecides DEF Inv
<1> QED BY <1>1, InitDecides, Invariance, PTL DEF Spec, KeepsDecisions, Decided!Spec

-----------------------------------------------------------------------------
(* The modes.                                                              *)

\* SingleUse without its counting: two operations with a use are one.
UsedOnce ==
    \A c \in Context : \A f \in Operation :
        once[c][f] # "none" =>
            /\ mode[c] = "approve_diff"
            /\ \A g \in Operation : once[c][g] # "none" => g = f

ModesInv == ModesTypeOK /\ UsedOnce

\* What an update of one operation's entry in one context does to a table of them.
LEMMA Entry ==
    ASSUME NEW V, NEW F \in [Context -> [Operation -> V]],
           NEW c \in Context, NEW f \in Operation, NEW v \in V,
           NEW G, G = [F EXCEPT ![c][f] = v]
    PROVE  /\ G \in [Context -> [Operation -> V]]
           /\ G[c][f] = v
           /\ \A d \in Context, g \in Operation : d # c \/ g # f => G[d][g] = F[d][g]
<1>1. [F[c] EXCEPT ![f] = v] \in [Operation -> V]
  OBVIOUS
<1>2. G = [F EXCEPT ![c] = [F[c] EXCEPT ![f] = v]]
  OBVIOUS
<1>. QED BY <1>1, <1>2

\* Every step keeps the types.
LEMMA ModeTypes == ASSUME ModesTypeOK, [ModesNext]_modesVars PROVE ModesTypeOK'
<1>1. ASSUME NEW c \in Context, ClearAuthority(c) PROVE ModesTypeOK'
  BY <1>1 DEF ClearAuthority, Reset, ModesTypeOK, call
<1>2. ASSUME NEW c \in Context, NEW m \in Mode, SetIfUnset(c, m) PROVE ModesTypeOK'
  BY <1>2 DEF SetIfUnset, ModesTypeOK, call
<1>3. ASSUME NEW c \in Context, NEW m \in Mode, SetAuthority(c, m) PROVE ModesTypeOK'
  BY <1>3 DEF SetAuthority, Reset, ModesTypeOK, call
<1>4. ASSUME NEW t \in Caller, InstallChild(t) PROVE ModesTypeOK'
  BY <1>4 DEF InstallChild, Reset, EndCall, ModesTypeOK, Context
<1>5. ASSUME NEW t \in Caller, CompleteOnce(t) PROVE ModesTypeOK'
  <2>1. context[t] \in Context /\ operation[t] \in Operation
    BY DEF ModesTypeOK
  <2>2. CASE /\ once' = [once EXCEPT ![context[t]][operation[t]] = "completed"]
             /\ saved' = [saved EXCEPT ![context[t]][operation[t]] = t]
    <3>1. once' \in [Context -> [Operation -> {"none", "started", "completed"}]]
      BY <2>1, <2>2, Entry DEF ModesTypeOK
    <3>2. saved' \in [Context -> [Operation -> Caller \cup {Nobody}]]
      BY <2>1, <2>2, Entry DEF ModesTypeOK
    <3>. QED BY <1>5, <3>1, <3>2 DEF CompleteOnce, EndCall, ModesTypeOK
  <2>3. CASE UNCHANGED <<once, saved>>
    BY <1>5, <2>3 DEF CompleteOnce, EndCall, ModesTypeOK
  <2>. QED BY <1>5, <2>2, <2>3, Zenon DEF CompleteOnce
<1>6. ASSUME NEW t \in Caller, EndPermitted(t) PROVE ModesTypeOK'
  BY <1>6 DEF EndPermitted, EndCall, ModesTypeOK, decided
<1>7. ASSUME NEW t \in Caller, NEW m \in Mode, ReadParent(t, m) PROVE ModesTypeOK'
  BY <1>7 DEF ReadParent, ModesTypeOK, decided
<1>8. ASSUME NEW t \in Caller, NEW c \in Context, NEW f \in Operation, Decide(t, c, f)
      PROVE  ModesTypeOK'
  <2>1. CASE /\ once' = [once EXCEPT ![c][f] = "started"]
             /\ owner' = [owner EXCEPT ![c][f] = t]
             /\ mode' = [mode EXCEPT ![c] = "approve_diff"]
             /\ Start(t, "permitted once", c, f)
             /\ UNCHANGED <<saved, wanted>>
    <3>1. once' \in [Context -> [Operation -> {"none", "started", "completed"}]]
      BY <2>1, Entry DEF ModesTypeOK
    <3>2. owner' \in [Context -> [Operation -> Caller \cup {Nobody}]]
      BY <2>1, Entry DEF ModesTypeOK
    <3>. QED BY <2>1, <3>1, <3>2 DEF Start, ModesTypeOK, Mode
  <2>2. CASE Start(t, "permitted", c, f) /\ UNCHANGED <<decided, wanted>>
    BY <2>2 DEF Start, ModesTypeOK, decided
  <2>. QED BY <1>8, <2>1, <2>2, Zenon DEF Decide
<1>9. CASE UNCHANGED modesVars
  BY <1>9 DEF modesVars, decided, call, ModesTypeOK
<1>. QED BY <1>1, <1>2, <1>3, <1>4, <1>5, <1>6, <1>7, <1>8, <1>9 DEF ModesNext

\* A use is only made where none is, and what makes another possible forgets it.
LEMMA ModeUse == ASSUME ModesTypeOK, UsedOnce, [ModesNext]_modesVars PROVE UsedOnce'
<1>1. ASSUME NEW c \in Context, ClearAuthority(c) PROVE UsedOnce'
  BY <1>1 DEF ClearAuthority, Reset, ModesTypeOK, UsedOnce
<1>2. ASSUME NEW c \in Context, NEW m \in Mode, SetIfUnset(c, m) PROVE UsedOnce'
  BY <1>2 DEF SetIfUnset, ModesTypeOK, UsedOnce
<1>3. ASSUME NEW c \in Context, NEW m \in Mode, SetAuthority(c, m) PROVE UsedOnce'
  BY <1>3 DEF SetAuthority, Reset, ModesTypeOK, UsedOnce
<1>4. ASSUME NEW t \in Caller, InstallChild(t) PROVE UsedOnce'
  <2>1. Child \in Context
    BY DEF Context
  <2>2. \A c \in Context, f \in Operation :
           IF c = Child THEN once'[c][f] = "none"
                        ELSE once'[c][f] = once[c][f] /\ mode'[c] = mode[c]
    BY <1>4, <2>1 DEF InstallChild, Reset, ModesTypeOK
  <2>. QED BY <2>2 DEF UsedOnce
<1>5. ASSUME NEW t \in Caller, CompleteOnce(t) PROVE UsedOnce'
  <2>1. mode' = mode
    BY <1>5 DEF CompleteOnce
  <2>2. \A c \in Context, f \in Operation : once'[c][f] # "none" => once[c][f] # "none"
    <3>1. CASE /\ once[context[t]][operation[t]] = "started"
               /\ once' = [once EXCEPT ![context[t]][operation[t]] = "completed"]
      <4>1. /\ context[t] \in Context /\ operation[t] \in Operation
            /\ once \in [Context -> [Operation -> {"none", "started", "completed"}]]
        BY DEF ModesTypeOK
      <4>2. \A d \in Context, g \in Operation :
               d # context[t] \/ g # operation[t] => once'[d][g] = once[d][g]
        BY <3>1, <4>1, Entry
      <4>. QED BY <3>1, <4>2
    <3>2. CASE once' = once
      BY <3>2
    <3>. QED BY <1>5, <3>1, <3>2, Zenon DEF CompleteOnce
  <2>. QED BY <2>1, <2>2 DEF UsedOnce
<1>6. ASSUME NEW t \in Caller, EndPermitted(t) PROVE UsedOnce'
  <2>1. UNCHANGED <<mode, once>>
    BY <1>6 DEF EndPermitted, decided
  <2>. QED BY <2>1 DEF UsedOnce
<1>7. ASSUME NEW t \in Caller, NEW m \in Mode, ReadParent(t, m) PROVE UsedOnce'
  BY <1>7 DEF ReadParent, decided, UsedOnce
<1>8. ASSUME NEW t \in Caller, NEW c \in Context, NEW f \in Operation, Decide(t, c, f)
      PROVE  UsedOnce'
  <2>1. CASE /\ once[c][f] = "none" /\ Current(c) = "allow_once"
             /\ mode' = [mode EXCEPT ![c] = "approve_diff"]
             /\ once' = [once EXCEPT ![c][f] = "started"]
    <3>1. \A g \in Operation : once[c][g] = "none"
      BY <2>1 DEF Current, UsedOnce
    <3>2. \A d \in Context, g \in Operation :
             d # c \/ g # f => once'[d][g] = once[d][g]
      <4>1. once \in [Context -> [Operation -> {"none", "started", "completed"}]]
        BY DEF ModesTypeOK
      <4>. QED BY <2>1, <4>1, Entry
    <3>3. \A d \in Context : mode'[d] = IF d = c THEN "approve_diff" ELSE mode[d]
      BY <2>1 DEF ModesTypeOK
    <3>. QED BY <3>1, <3>2, <3>3 DEF UsedOnce
  <2>2. CASE UNCHANGED decided
    BY <2>2 DEF decided, UsedOnce
  <2>. QED BY <1>8, <2>1, <2>2 DEF Decide
<1>9. CASE UNCHANGED modesVars
  BY <1>9 DEF modesVars, decided, UsedOnce
<1>. QED BY <1>1, <1>2, <1>3, <1>4, <1>5, <1>6, <1>7, <1>8, <1>9 DEF ModesNext

\* The invariant holds at first, and always.
LEMMA ModesKept == ModesSpec => []ModesInv
<1>1. ModesInit => ModesInv
  <2>. SUFFICES ASSUME ModesInit PROVE ModesInv
    OBVIOUS
  <2>1. ModesTypeOK
    BY DEF ModesInit, ModesTypeOK, Context, Mode
  <2>2. UsedOnce
    BY DEF ModesInit, UsedOnce
  <2>. QED BY <2>1, <2>2 DEF ModesInv
<1>2. ModesInv /\ [ModesNext]_modesVars => ModesInv'
  BY ModeTypes, ModeUse DEF ModesInv
<1>. QED BY <1>1, <1>2, PTL DEF ModesSpec

\* A set that has no two elements counts one at most.
LEMMA AtMostOne ==
    ASSUME NEW S, \A f, g \in S : f = g PROVE Cardinality(S) <= 1
<1>1. CASE S = {}
  BY <1>1, FS_EmptySet
<1>2. CASE S # {}
  <2>1. PICK f \in S : TRUE
    BY <1>2
  <2>2. S = {f}
    BY <2>1
  <2>3. Cardinality({f}) = 1
    BY FS_Singleton
  <2>. QED BY <2>2, <2>3
<1>. QED BY <1>1, <1>2

\* Contexts, callers and operations have their types: rlm_authority.pl.
THEOREM ModesTyping == ModesSpec => []ModesTypeOK
<1>1. ModesInv => ModesTypeOK
  BY DEF ModesInv
<1>. QED BY <1>1, ModesKept, PTL

\* A grant of allow_once permits one execution, of one operation, and no mode
\* outlives the use: nonread_decision_locked/3, set_authority_locked/3.
THEOREM OneUse == ModesSpec => []SingleUse
<1>1. ModesInv => SingleUse
  <2>. SUFFICES ASSUME ModesInv, NEW c \in Context
                PROVE  LET used == {f \in Operation : once[c][f] # "none"} IN
                       Cardinality(used) <= 1 /\ (used # {} => mode[c] = "approve_diff")
    BY DEF SingleUse
  <2>. DEFINE used == {f \in Operation : once[c][f] # "none"}
  <2>1. \A f, g \in used : f = g
    BY DEF ModesInv, UsedOnce
  <2>2. Cardinality(used) <= 1
    <3>. HIDE DEF used
    <3>. QED BY <2>1, AtMostOne
  <2>3. used # {} => mode[c] = "approve_diff"
    BY DEF ModesInv, UsedOnce
  <2>. QED BY <2>2, <2>3
<1>. QED BY <1>1, ModesKept, PTL
=============================================================================
