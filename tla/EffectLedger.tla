---------------------------- MODULE EffectLedger ----------------------------
(***************************************************************************)
(* The ledger of durable external effects: the operations of               *)
(* prolog/rlm_effect.pl and the journal of prolog/rlm_effect_persist.pl,   *)
(* for one logical call with one fingerprint in one store.                 *)
(*                                                                         *)
(* A ledger operation runs under the mutex rlm_effect_state and appends    *)
(* several records to the journal, one synchronous write each.  Its reads  *)
(* and its first write are one action; the writes still owed are kept in   *)
(* lock, and Journal makes them one at a time.  No other ledger operation  *)
(* runs meanwhile, but a crash or an asynchronous cancellation may drop    *)
(* the rest.                                                               *)
(*                                                                         *)
(* An attempt is identified by hashing the call, which includes the        *)
(* execution epoch, and its lineage: here, the epoch and the sequence of   *)
(* retry and resample steps that lead to it.                               *)
(***************************************************************************)
EXTENDS Naturals, Sequences, FiniteSets

CONSTANTS
    Executor,       \* threads running effect_execute_execute/6 and its kin
    Host,           \* the caller of the ledger's administrative predicates
    Nobody,         \* nobody holds the mutex; no attempt chosen
    Observation,    \* bodies of observations
    NoObservation,
    Mode,           \* modes of the attempts callers ask for, after the initial one
    MaxEpoch,       \* bound on the execution epochs
    MaxRetries      \* bound on the retries and resamples in a row

ASSUME CallerAssumption ==
    /\ Host \notin Executor /\ Nobody \notin Executor /\ Host # Nobody
    /\ NoObservation \notin Observation
ASSUME ModeAssumption == Mode \subseteq {"retry", "resample"}
ASSUME BoundAssumption == MaxEpoch \in Nat \ {0} /\ MaxRetries \in Nat


Attempt == [epoch : 1..MaxEpoch, path : UNION {[1..n -> Mode] : n \in 0..MaxRetries}]

\* rlm_effect_prepare/4: the attempt of mode initial, and the child of a parent.
First(e) == [epoch |-> e, path |-> <<>>]
Child(a, m) == [epoch |-> a.epoch, path |-> Append(a.path, m)]
Parents(a) == {p \in Attempt : \E m \in Mode : a = Child(p, m)}

Status == {"none", "admitted", "dispatching", "observed", "cancelled_before_claim",
           "cancelled_pre_dispatch", "cancellation_requested", "indeterminate",
           "retry_authorized", "abandoned"}

\* The lifecycle events, and the metadata a revision carries to rebuild them.
Lifecycle == <<"admitted", "dispatched", "cancelled", "cancellation_requested",
               "indeterminate", "resolved", "observation">>
Event == {Lifecycle[i] : i \in DOMAIN Lifecycle}
Mark == {"cancellation", "indeterminate", "resolution"}

VARIABLES
    status,      \* the status of the last revision journaled for an attempt
    marks,       \* the reasons its metadata records
    observation, \* effect_observation_record/2
    events,      \* effect_event_record/3
    deleted,     \* attempts whose revisions a prune has deleted
    epoch,       \* effect_epoch_record/3
    lock         \* the mutex rlm_effect_state, and the journal writes owed

journal == <<status, marks, observation, events, deleted, epoch>>

Uncertain == {"dispatching", "cancellation_requested", "indeterminate", "retry_authorized"}
Void == {"cancelled_before_claim", "cancelled_pre_dispatch"}

\* effect_persist_get_attempt/2 and effect_persist_get_observation/2
Exists(a) == status[a] # "none" /\ a \notin deleted
Observed(a) == observation[a] # NoObservation

-----------------------------------------------------------------------------
(* The mutex and the journal.                                              *)

Free == [by |-> Nobody, att |-> First(1), st |-> "none", ev |-> {}, obs |-> {}, gone |-> {}]
Unlocked == lock.by = Nobody

\* Caller c still owes a revision of a with status s (or "none") and events ev.
Owes(c, a, s, ev) ==
    lock' = IF s = "none" /\ ev = {} THEN Free
            ELSE [Free EXCEPT !.by = c, !.att = a, !.st = s, !.ev = ev]

\* update_attempt_status/5: append a revision.
Revise(a, s, ms) ==
    /\ status' = [status EXCEPT ![a] = s]
    /\ marks' = [marks EXCEPT ![a] = @ \cup ms]

WriteStatus ==
    /\ lock.st # "none"
    /\ Revise(lock.att, lock.st, {})
    /\ lock' = IF lock.ev = {} THEN Free ELSE [lock EXCEPT !.st = "none"]
    /\ UNCHANGED <<observation, events, deleted, epoch>>

\* append_event_locked/2, in the order of the lifecycle.  An event already there
\* is not appended again.
WriteEvent(i) ==
    LET x == Lifecycle[i] IN
    /\ lock.st = "none"
    /\ x \in lock.ev /\ \A j \in 1..(i - 1) : Lifecycle[j] \notin lock.ev
    /\ events' = [events EXCEPT ![lock.att] = @ \cup {x}]
    /\ lock' = IF lock.ev = {x} THEN Free ELSE [lock EXCEPT !.ev = @ \ {x}]
    /\ UNCHANGED <<status, marks, observation, deleted, epoch>>

\* effect_persist_delete_call/1: the observations one by one, then in one write
\* the revisions of all attempts.
DeleteObservation(a) ==
    /\ a \in lock.obs
    /\ observation' = [observation EXCEPT ![a] = NoObservation]
    /\ lock' = [lock EXCEPT !.obs = @ \ {a}]
    /\ UNCHANGED <<status, marks, events, deleted, epoch>>

DeleteAttempts ==
    /\ lock.gone # {} /\ lock.obs = {}
    /\ deleted' = deleted \cup lock.gone
    /\ lock' = Free
    /\ UNCHANGED <<status, marks, observation, events, epoch>>

Journal ==
    \/ WriteStatus \/ DeleteAttempts
    \/ \E i \in DOMAIN Lifecycle : WriteEvent(i)
    \/ \E a \in Attempt : DeleteObservation(a)

-----------------------------------------------------------------------------
(* Repair: a read brings the projections of an attempt up to date.         *)

\* Mutant: the metadata of a superseded uncertainty is not consulted.
ProjectionOfStatus(s, ms) ==
    (IF s = "cancelled_before_claim" THEN {} ELSE {"admitted"})
    \cup (IF s \in Uncertain \cup {"abandoned", "observed"} THEN {"dispatched"} ELSE {})
    \cup (IF s \in Void THEN {"cancelled"} ELSE {})
    \cup (IF s = "cancellation_requested" THEN {"cancellation_requested"} ELSE {})
    \cup (IF s = "indeterminate" THEN {"indeterminate"} ELSE {})
    \cup (IF s \in {"retry_authorized", "abandoned"} THEN {"resolved"} ELSE {})

\* repair_attempt_projection/1: the events a revision stands for.
Projection(s, ms) ==
    (IF s = "cancelled_before_claim" THEN {} ELSE {"admitted"})
    \cup (IF s \in Uncertain \cup {"abandoned", "observed"} THEN {"dispatched"} ELSE {})
    \cup (IF s \in Void THEN {"cancelled"}
          ELSE IF "cancellation" \in ms THEN {"cancellation_requested"} ELSE {})
    \cup (IF "indeterminate" \in ms /\
             s \in {"indeterminate", "retry_authorized", "abandoned", "observed"}
          THEN {"indeterminate"} ELSE {})
    \cup (IF "resolution" \in ms /\ s \in {"retry_authorized", "abandoned", "observed"}
          THEN {"resolved"} ELSE {})

\* The history the durable records of a stand for.
History(a) ==
    IF Observed(a) THEN Projection("observed", marks[a]) \cup {"observation"}
    ELSE Projection(status[a], marks[a])

\* repair_attempt_projection/1, or repair_observation_projection/3 when there is
\* an observation: it also revises an attempt that may still be observed.
Repair(c, a) ==
    IF ~Exists(a) THEN UNCHANGED <<lock, journal>>
    ELSE /\ Owes(c, a, IF Observed(a) /\ status[a] \in Uncertain
                       THEN "observed" ELSE "none",
                 History(a) \ events[a])
         /\ UNCHANGED journal

-----------------------------------------------------------------------------
(* Ledger operations.  Each is enabled while the mutex is free.            *)

\* Mutant: an indeterminate parent licenses a retry.
LicensedIndeterminate(a) ==
    Exists(a) /\ status[a] \in {"observed", "retry_authorized", "indeterminate"} \cup Void

\* allowed_explicit_parent_status/2
Licensed(a) == Exists(a) /\ status[a] \in {"observed", "retry_authorized"} \cup Void

\* validate_ticket/1: the epoch has not moved on, and the lineage still holds.
ValidTicket(a) ==
    /\ a.epoch = epoch
    /\ \A p \in Parents(a) : Licensed(p)

\* Mutant: an attempt found dispatching is claimed afresh.
ClaimedUnlessDispatching(a) == Exists(a) /\ status[a] # "dispatching"

\* admit_locked/3: an attempt that exists is not claimed again.
Claimed(a) == Exists(a)

\* The first revision of an attempt.
Admit(c, a) ==
    /\ Revise(a, "admitted", {})
    /\ Owes(c, a, "none", {"admitted"})
    /\ UNCHANGED <<observation, events, deleted, epoch>>

\* dispatch_locked/2 on an admitted attempt.
Dispatch(c, a) ==
    /\ Revise(a, "dispatching", {})
    /\ Owes(c, a, "none", {"dispatched"})
    /\ UNCHANGED <<observation, events, deleted, epoch>>

\* observation_allowed_status/1
Observable(a) == Exists(a) /\ status[a] \in Uncertain

\* record_observation_locked/4: the observation is journaled before the revision
\* that says so.  A different observation is a conflict and changes nothing.
Rejected(a, o) == IF Observed(a) THEN observation[a] # o ELSE ~Observable(a)

Observe(c, a, o) ==
    IF Rejected(a, o) THEN UNCHANGED <<lock, journal>>
    ELSE IF Observed(a) THEN Repair(c, a)
    ELSE /\ observation' = [observation EXCEPT ![a] = o]
         /\ Owes(c, a, "observed", {"observation"})
         /\ UNCHANGED <<status, marks, events, deleted, epoch>>

\* mark_indeterminate_locked/3
MarkIndeterminate(c, a) ==
    IF Observed(a) THEN Repair(c, a)
    ELSE IF Exists(a) /\ status[a] \in {"dispatching", "cancellation_requested"}
    THEN /\ Revise(a, "indeterminate", {"indeterminate"})
         /\ Owes(c, a, "none", {"indeterminate"})
         /\ UNCHANGED <<observation, events, deleted, epoch>>
    ELSE UNCHANGED <<lock, journal>>

\* Mutant: a dispatched attempt is cancelled as if it had not been.
CancelledStatusAlways(a) == "cancelled_pre_dispatch"

\* What cancel_locked/3 makes of an admitted or a dispatching attempt.
CancelledStatus(a) ==
    IF status[a] = "admitted" THEN "cancelled_pre_dispatch" ELSE "cancellation_requested"

\* cancel_locked/3
CancelAttempt(c, a) ==
    IF Observed(a) THEN Repair(c, a)
    ELSE IF Exists(a) /\ status[a] \in {"admitted", "dispatching"}
    THEN LET s == CancelledStatus(a) IN
         /\ Revise(a, s, {"cancellation"})
         /\ Owes(c, a, "none", IF s \in Void THEN {"cancelled"} ELSE {s})
         /\ UNCHANGED <<observation, events, deleted, epoch>>
    ELSE UNCHANGED <<lock, journal>>

\* cancel_ticket_locked/3
CancelTicket(c, a) ==
    IF Exists(a)
    THEN IF Observed(a) THEN Repair(c, a) ELSE UNCHANGED <<lock, journal>>
    ELSE /\ Revise(a, "cancelled_before_claim", {"cancellation"})
         /\ Owes(c, a, "none", {"cancelled"})
         /\ UNCHANGED <<observation, events, deleted, epoch>>

\* resolve_indeterminate_locked/3
Resolve(c, a, resolution) ==
    IF Observed(a) THEN Repair(c, a)
    ELSE IF Exists(a) /\ status[a] = "indeterminate"
    THEN /\ Revise(a, resolution, {"resolution"})
         /\ Owes(c, a, "none", {"resolved"})
         /\ UNCHANGED <<observation, events, deleted, epoch>>
    ELSE UNCHANGED <<lock, journal>>

\* Mutant: an attempt whose outcome is unknown is pruned.
PrunableIndeterminate(s) == s \in {"observed", "abandoned", "indeterminate"} \cup Void

\* prunable_status/1
Prunable(s) == s \in {"observed", "abandoned"} \cup Void

\* The attempts of an epoch, when all of them may go.
Prunables(e) ==
    LET as == {a \in Attempt : a.epoch = e /\ Exists(a)} IN
    IF \A a \in as : Prunable(status[a]) THEN as ELSE {}

\* The observations and the attempts of epoch e, to be deleted by c.
OwesDeletion(c, e) ==
    lock' = [Free EXCEPT !.by = c, !.gone = Prunables(e),
                         !.obs = {a \in Prunables(e) : Observed(a)}]

\* Mutant: the epoch does not move on.
PruneInPlace(c, e) ==
    /\ Prunables(e) # {} /\ OwesDeletion(c, e)
    /\ UNCHANGED <<status, marks, observation, events, deleted, epoch>>

\* prune_locked/2: the epoch moves on before anything is deleted.
Prune(c, e) ==
    /\ Prunables(e) # {} /\ OwesDeletion(c, e)
    /\ epoch' = IF e = epoch THEN epoch + 1 ELSE epoch
    /\ UNCHANGED <<status, marks, observation, events, deleted>>

LedgerInit ==
    /\ status = [a \in Attempt |-> "none"]
    /\ marks = [a \in Attempt |-> {}]
    /\ observation = [a \in Attempt |-> NoObservation]
    /\ events = [a \in Attempt |-> {}]
    /\ deleted = {}
    /\ epoch = 1
    /\ lock = Free
=============================================================================
