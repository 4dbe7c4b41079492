--------------------------- MODULE EffectExecutor ---------------------------
(***************************************************************************)
(* The execution harness of prolog/rlm_effect_executor.pl over the ledger: *)
(* executors prepare, admit, dispatch and submit an attempt through its    *)
(* adapter and record what comes back, while others do the same, reconcile *)
(* it, are cancelled by rlm_async, or die with the process, and while the  *)
(* host cancels, resolves, inspects and prunes.                            *)
(*                                                                         *)
(* The adapter and the remote service behind it are external: submitting   *)
(* is one step in the middle of the adapter's call, its reply another, and *)
(* only a submitted attempt can be found by reconciling.                   *)
(***************************************************************************)
EXTENDS EffectLedger

CONSTANT MaxCrashes     \* bound on process deaths
ASSUME CrashAssumption == MaxCrashes \in Nat

VARIABLES
    submissions, \* how often the adapter carried an attempt across the boundary
    pc,          \* where each executor is
    target,      \* the attempt it works on: its ticket, or what it reconciles
    signal,      \* what became of rlm_async_cancelled/1 in its run
    crashes      \* process deaths so far

runs == <<pc, target, signal>>
vars == <<journal, lock, submissions, runs, crashes>>

\* Where the handler of execute_prepared_ticket/4 is in force, and the handler.
Harness == {"prepared", "admitted", "dispatched", "submitted", "recorded", "recording"}
Handler == {"cancelling", "void", "withdraw", "stop", "asking", "unwinding"}

\* e is at p, and the ledger is free for its next operation.
At(e, p) == pc[e] = p /\ Unlocked

\* A new run.
Start(e, p, a) ==
    /\ pc' = [pc EXCEPT ![e] = p]
    /\ target' = [target EXCEPT ![e] = a]
    /\ signal' = [signal EXCEPT ![e] = "none"]

Move(e, p) == pc' = [pc EXCEPT ![e] = p] /\ UNCHANGED <<target, signal>>

\* The run ends with an effect_result, or an error of the ledger.
Return(e) ==
    /\ pc' = [pc EXCEPT ![e] = "idle"]
    /\ target' = [target EXCEPT ![e] = First(1)]
    /\ UNCHANGED signal

-----------------------------------------------------------------------------
(* effect_execute_execute/6: prepare, then execute_after_prepare/4.        *)

\* decision_for_existing/2: replay, report, or reconcile what is uncertain.
Decide(e, a) ==
    /\ Repair(e, a)
    /\ IF ~Observed(a) /\ status[a] \in Uncertain THEN Start(e, "reconciling", a)
       ELSE Start(e, "idle", First(1))

\* prepare_mode/11 of mode initial: the last attempt of the epoch decides.  Two
\* attempts of the same sequence number are ordered by their hash.
Prepare(e) ==
    LET as == {a \in Attempt : a.epoch = epoch /\ Claimed(a)} IN
    /\ At(e, "idle")
    /\ \/ as = {} /\ Start(e, "prepared", First(epoch)) /\ UNCHANGED <<lock, journal>>
       \/ \E a \in as : /\ \A b \in as : Len(b.path) <= Len(a.path)
                        /\ Decide(e, a)
    /\ UNCHANGED <<submissions, crashes>>

\* prepare_mode/11 of mode retry or resample, on a parent of this epoch.
PrepareChild(e, p, m) ==
    LET a == Child(p, m) IN
    /\ At(e, "idle")
    /\ p.epoch = epoch /\ Licensed(p) /\ Len(p.path) < MaxRetries
    /\ \/ ~Claimed(a) /\ Start(e, "prepared", a) /\ UNCHANGED <<lock, journal>>
       \/ Claimed(a) /\ Decide(e, a)
    /\ UNCHANGED <<submissions, crashes>>

\* effect_reconcile/3
Inspect(e, a) ==
    /\ At(e, "idle") /\ Exists(a)
    /\ Repair(e, a) /\ Start(e, "reconciling", a)
    /\ UNCHANGED <<submissions, crashes>>

\* rlm_effect_admit/3 and execute_after_admission/4.
AdmitTicket(e) ==
    LET a == target[e] IN
    /\ At(e, "prepared")
    /\ \/ ~ValidTicket(a) /\ Return(e) /\ UNCHANGED <<lock, journal>>
       \/ ValidTicket(a) /\ Claimed(a) /\ Repair(e, a) /\ Return(e)
       \/ ValidTicket(a) /\ ~Claimed(a) /\ Admit(e, a) /\ Move(e, "admitted")
    /\ UNCHANGED <<submissions, crashes>>

\* rlm_effect_dispatch/2 and execute_after_dispatch/4.  An attempt this executor
\* admitted can only have been cancelled meanwhile.
DispatchAttempt(e) ==
    LET a == target[e] IN
    /\ At(e, "admitted")
    /\ \/ status[a] = "admitted" /\ Exists(a) /\ Dispatch(e, a) /\ Move(e, "dispatched")
       \/ (status[a] # "admitted" \/ ~Exists(a)) /\ Return(e) /\ UNCHANGED <<lock, journal>>
    /\ UNCHANGED <<submissions, crashes>>

-----------------------------------------------------------------------------
(* The adapter hooks.                                                      *)

\* effect_adapter_submit/4 crosses the boundary.
Submit(e) ==
    /\ pc[e] = "dispatched" /\ lock.by # e
    /\ submissions' = [submissions EXCEPT ![target[e]] = @ + 1]
    /\ Move(e, "submitted")
    /\ UNCHANGED <<journal, lock, crashes>>

\* apply_adapter_outcome/4 on what submit returned, or on its exception.
SubmitReply(e) ==
    LET a == target[e] IN
    /\ pc[e] \in {"dispatched", "submitted"} /\ Unlocked
    /\ \/ \E o \in Observation :
             Observe(e, a, o) /\ Move(e, IF Rejected(a, o) THEN "recording" ELSE "recorded")
       \/ Return(e) /\ UNCHANGED <<lock, journal>>
       \/ MarkIndeterminate(e, a) /\ Return(e)
    /\ UNCHANGED <<submissions, crashes>>

\* adapter_record_result/4: an observation that could not be recorded is doubt.
RecordResult(e) ==
    /\ \/ At(e, "recorded") /\ UNCHANGED <<lock, journal>>
       \/ At(e, "recording") /\ MarkIndeterminate(e, target[e])
    /\ Return(e)
    /\ UNCHANGED <<submissions, crashes>>

\* reconcile_matching_adapter/3: a local observation is returned; otherwise the
\* adapter is asked, and its answer may come after somebody else's.
Reconcile(e) ==
    LET a == target[e] IN
    /\ At(e, "reconciling")
    /\ \/ Observed(a) /\ Repair(e, a)
       \/ submissions[a] > 0 /\ \E o \in Observation : Observe(e, a, o)
       \/ UNCHANGED <<lock, journal>>
       \/ MarkIndeterminate(e, a)
    /\ Return(e)
    /\ UNCHANGED <<submissions, crashes>>

-----------------------------------------------------------------------------
(* rlm_async_cancelled/1 raised in an executor, and cancel_interrupted_ticket/4. *)

\* Raised between two calls of the ledger, in the adapter, or in its wake.
Interrupt(e) ==
    /\ pc[e] \in Harness /\ signal[e] = "none" /\ lock.by # e
    /\ pc' = [pc EXCEPT ![e] = "cancelling"]
    /\ signal' = [signal EXCEPT ![e] = "raised"]
    /\ UNCHANGED <<journal, lock, target, submissions, crashes>>

\* Raised in a ledger operation, whose effect_exception/2 makes it an error like
\* any other: the writes still owed are dropped, and the executor goes on with the
\* error.  Outside the harness executor_exception/2 does the same.
InterruptLedger(e) ==
    /\ pc[e] \notin Handler /\ signal[e] = "none"
    /\ pc[e] # "idle" \/ lock.by = e
    /\ lock' = IF lock.by = e THEN Free ELSE lock
    /\ IF pc[e] = "recorded" \/ (pc[e] \in {"dispatched", "submitted"} /\ lock.by # e)
       THEN pc' = [pc EXCEPT ![e] = "recording"] /\ UNCHANGED target
       ELSE /\ pc' = [pc EXCEPT ![e] = "idle"]
            /\ target' = [target EXCEPT ![e] = First(1)]
    /\ signal' = [signal EXCEPT ![e] = "swallowed"]
    /\ UNCHANGED <<journal, submissions, crashes>>

\* rlm_effect_status/2, which repairs, then cancel_from_status/5.
CancelStatus(e) ==
    LET a == target[e] IN
    /\ At(e, "cancelling")
    /\ Repair(e, a)
    /\ Move(e, IF ~Exists(a) THEN "void"
               ELSE IF status[a] = "dispatching" /\ ~Observed(a) THEN "stop" ELSE "withdraw")
    /\ UNCHANGED <<submissions, crashes>>

\* rlm_effect_cancel_ticket/3
CancelUnclaimed(e) ==
    LET a == target[e] IN
    /\ At(e, "void")
    /\ IF ValidTicket(a) THEN CancelTicket(e, a) ELSE UNCHANGED <<lock, journal>>
    /\ Move(e, "unwinding")
    /\ UNCHANGED <<submissions, crashes>>

\* rlm_effect_cancel/3, followed by the adapter's hook if the attempt was found
\* dispatching.
CancelClaimed(e) ==
    LET a == target[e] IN
    /\ At(e, "withdraw") \/ At(e, "stop")
    /\ CancelAttempt(e, a)
    /\ Move(e, IF pc[e] = "stop" THEN "asking" ELSE "unwinding")
    /\ UNCHANGED <<submissions, crashes>>

\* try_adapter_cancel/4 and apply_cancel_adapter_outcome/2.
CancelReply(e) ==
    LET a == target[e] IN
    /\ At(e, "asking")
    /\ \/ \E o \in Observation : Observe(e, a, o)
       \/ MarkIndeterminate(e, a)
       \/ UNCHANGED <<lock, journal>>
    /\ Move(e, "unwinding")
    /\ UNCHANGED <<submissions, crashes>>

\* execute_prepared_ticket/4 throws it again, and executor_exception/2, whose last
\* clause takes any exception, returns it as an error.
Unwind(e) ==
    /\ pc[e] = "unwinding" /\ lock.by # e
    /\ pc' = [pc EXCEPT ![e] = "idle"]
    /\ target' = [target EXCEPT ![e] = First(1)]
    /\ signal' = [signal EXCEPT ![e] = "returned"]
    /\ UNCHANGED <<journal, lock, submissions, crashes>>

-----------------------------------------------------------------------------
(* The host, and the death of the process.                                 *)

HostStatus(a) == Exists(a) /\ Repair(Host, a)
HostResolve(a) == \E r \in {"retry_authorized", "abandoned"} : Resolve(Host, a, r)
HostPrune(e) == (e = epoch => epoch < MaxEpoch) /\ Prune(Host, e)

HostStep ==
    /\ Unlocked
    /\ \/ \E a \in Attempt : HostStatus(a) \/ CancelAttempt(Host, a) \/ HostResolve(a)
       \/ \E e \in 1..epoch : HostPrune(e)
    /\ UNCHANGED <<submissions, runs, crashes>>

Crash ==
    /\ crashes < MaxCrashes
    /\ crashes' = crashes + 1
    /\ lock' = Free
    /\ pc' = [e \in Executor |-> "idle"]
    /\ target' = [e \in Executor |-> First(1)]
    /\ signal' = [e \in Executor |-> "none"]
    /\ UNCHANGED <<journal, submissions>>

-----------------------------------------------------------------------------
Init ==
    /\ LedgerInit
    /\ submissions = [a \in Attempt |-> 0]
    /\ pc = [e \in Executor |-> "idle"]
    /\ target = [e \in Executor |-> First(1)]
    /\ signal = [e \in Executor |-> "none"]
    /\ crashes = 0

Write == Journal /\ UNCHANGED <<submissions, runs, crashes>>

ExecutorStep(e) ==
    \/ Prepare(e) \/ AdmitTicket(e) \/ DispatchAttempt(e) \/ Submit(e) \/ SubmitReply(e)
    \/ RecordResult(e) \/ Reconcile(e) \/ Interrupt(e) \/ InterruptLedger(e)
    \/ CancelStatus(e) \/ CancelUnclaimed(e) \/ CancelClaimed(e) \/ CancelReply(e) \/ Unwind(e)
    \/ \E a \in Attempt : Inspect(e, a) \/ \E m \in Mode : PrepareChild(e, a, m)

Next == Write \/ HostStep \/ Crash \/ \E e \in Executor : ExecutorStep(e)

Spec == Init /\ [][Next]_vars

-----------------------------------------------------------------------------
(* Properties.                                                             *)

\* Types: journal, mutex and executors hold what the ledger and executor put there.
TypeOK ==
    /\ status \in [Attempt -> Status]
    /\ marks \in [Attempt -> SUBSET Mark]
    /\ observation \in [Attempt -> Observation \cup {NoObservation}]
    /\ events \in [Attempt -> SUBSET Event]
    /\ deleted \in SUBSET Attempt
    /\ epoch \in 1..MaxEpoch
    /\ lock \in [by : Executor \cup {Host, Nobody}, att : Attempt,
                 st : {"none", "observed"}, ev : SUBSET Event,
                 obs : SUBSET Attempt, gone : SUBSET Attempt]
    /\ submissions \in [Attempt -> Nat]
    /\ pc \in [Executor -> {"idle", "reconciling"} \cup Harness \cup Handler]
    /\ target \in [Executor -> Attempt]
    /\ signal \in [Executor -> {"none", "raised", "swallowed", "returned"}]
    /\ crashes \in 0..MaxCrashes

\* An attempt crosses the boundary at most once, whoever prepares, races,
\* reconciles, is interrupted or crashes, and only after it was journaled as
\* dispatching: a missing observation is never permission to submit.
SubmittedOnce ==
    \A a \in Attempt :
        /\ submissions[a] <= 1
        /\ submissions[a] > 0 => status[a] \in Uncertain \cup {"observed", "abandoned"}

\* A retry or resample is only ever admitted under a parent whose outcome is
\* known, that never went out, or that the host authorized to be retried.
RetryIsLicensed ==
    \A p \in Attempt : \A m \in Mode :
        Child(p, m) \in Attempt /\ status[Child(p, m)] # "none" =>
            status[p] \in {"observed", "retry_authorized"} \cup Void

\* The same operation goes out again in a later epoch only once every attempt
\* of the earlier one was observed, or abandoned by the host.
EpochsAreSettled ==
    \A a \in Attempt : a.epoch < epoch /\ submissions[a] > 0 =>
        status[a] \in {"observed", "abandoned"}

\* An attempt of the current epoch that says observed has its observation, also
\* after a crash in the middle of recording it or of a prune.
ObservedHasObservation ==
    \A a \in Attempt : a.epoch = epoch /\ status[a] = "observed" => Observed(a)

\* What is known to have happened to an attempt.
Happened(a) ==
    (IF submissions[a] > 0 THEN {"admitted", "dispatched"} ELSE {})
    \cup (IF Observed(a) THEN {"observation"} ELSE {})
    \cup (IF "indeterminate" \in marks[a] THEN {"indeterminate"} ELSE {})
    \cup (IF "resolution" \in marks[a] THEN {"resolved"} ELSE {})
    \cup (IF "cancellation" \in marks[a]
          THEN {IF status[a] \in Void THEN "cancelled" ELSE "cancellation_requested"}
          ELSE {})

\* Nothing that happened to an attempt is lost to its history: what a crash, an
\* interrupt or an unfinished operation left out of the events, the next read
\* rebuilds from the last revision and the observation.
HistoryIsRecoverable ==
    \A a \in Attempt : Exists(a) => Happened(a) \subseteq events[a] \cup History(a)

Stage(a) ==
    IF Observed(a) \/ status[a] = "observed" THEN "known"
    ELSE CASE status[a] = "none" -> "new"
           [] status[a] = "admitted" -> "claimed"
           [] status[a] \in Void -> "void"
           [] status[a] = "retry_authorized" -> "licensed"
           [] status[a] = "abandoned" -> "abandoned"
           [] OTHER -> "open"

Promise == INSTANCE Effects WITH
    stage <- [a \in Attempt |-> Stage(a)],
    crossed <- {a \in Attempt : submissions[a] > 0}

\* The ledger and its executors keep what Effects promises: they never cross
\* twice, never forget an open attempt, never settle one without an answer or a
\* decision of the host, and never retry over doubt.
KeepsEffects == Promise!Spec

\* "Async cancellation remains a control signal and is re-thrown after the
\* attempt lifecycle is updated conservatively" (prolog/rlm_effect_executor.pl:33):
\* no run ends with the cancellation returned as an outcome of its own.
CancellationIsRethrown == \A e \in Executor : signal[e] # "returned"
=============================================================================
