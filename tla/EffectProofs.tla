---------------------------- MODULE EffectProofs ----------------------------
(***************************************************************************)
(* What the effect ledger and its executors guarantee for every number of  *)
(* executors, observations, epochs and retries: an attempt is submitted at *)
(* most once, a retry has a licensed parent, an epoch ends only when every *)
(* attempt it submitted is settled, what happened can be read back, and    *)
(* the whole implements Effects.                                           *)
(*                                                                         *)
(* The argument is in two layers.  A ledger operation other than admission *)
(* and dispatch moves an attempt along its lifecycle only (Settling) and   *)
(* keeps the ledger in order (LedgerInv), whoever calls it.  Over that,    *)
(* the one executor that admits an attempt owns it until it submits it.    *)
(*                                                                         *)
(* A second part follows the records themselves: every step is a step of   *)
(* the ledger, which changes the records of at most one attempt (Traced);  *)
(* from that come the invariant RecordInv and the refinement.              *)
(***************************************************************************)
EXTENDS EffectExecutor, SequenceTheorems, TLAPS

Caller == Executor \cup {Host, Nobody}
LockType == [by : Caller, att : Attempt, st : {"none", "observed"}, ev : SUBSET Event,
             obs : SUBSET Attempt, gone : SUBSET Attempt]

LedgerType ==
    /\ status \in [Attempt -> Status]
    /\ marks \in [Attempt -> SUBSET Mark]
    /\ observation \in [Attempt -> Observation \cup {NoObservation}]
    /\ events \in [Attempt -> SUBSET Event]
    /\ deleted \in SUBSET Attempt
    /\ epoch \in 1..MaxEpoch
    /\ lock \in LockType

\* What a prune deletes is of an epoch that is over, and the epochs that are over
\* are settled.
OldAreSettled ==
    /\ \A a \in Attempt : a \in deleted \cup lock.gone => a.epoch < epoch
    /\ \A a \in Attempt : a.epoch < epoch =>
          status[a] \in {"none", "observed", "abandoned"} \cup Void

\* The revision owed says observed of an attempt in doubt.
OwedIsObserved == lock.st # "none" => status[lock.att] \in Uncertain

LedgerInv == LedgerType /\ OldAreSettled /\ OwedIsObserved

\* The steps of an attempt's lifecycle that are neither admission nor dispatch.
Settles(a) ==
    \/ status'[a] = status[a]
    \/ status[a] \in Uncertain /\ status'[a] = "observed"
    \/ status[a] = "dispatching" /\ status'[a] = "cancellation_requested"
    \/ status[a] \in {"dispatching", "cancellation_requested"} /\ status'[a] = "indeterminate"
    \/ status[a] = "indeterminate" /\ status'[a] \in {"retry_authorized", "abandoned"}
    \/ status[a] = "admitted" /\ status'[a] = "cancelled_pre_dispatch"
    \/ /\ status[a] = "none" /\ status'[a] = "cancelled_before_claim"
       /\ \A p \in Parents(a) : Licensed(p)

Settling == (\A a \in Attempt : Settles(a)) /\ epoch \in Nat /\ epoch' \in {epoch, epoch + 1}

-----------------------------------------------------------------------------
(* Attempts, events and the record of the mutex.                           *)

\* The initial attempt of an epoch is an attempt.
LEMMA FirstIsAttempt ==
    ASSUME NEW e \in 1..MaxEpoch PROVE First(e) \in Attempt /\ First(e).epoch = e
<1>1. <<>> \in [1..0 -> Mode]
    OBVIOUS
<1>2. 0 \in 0..MaxRetries
    BY BoundAssumption
<1> QED BY <1>1, <1>2 DEF First, Attempt

\* A short enough parent has children, of its own epoch.
LEMMA ChildIsAttempt ==
    ASSUME NEW p \in Attempt, NEW m \in Mode, Len(p.path) < MaxRetries
    PROVE  Child(p, m) \in Attempt /\ Child(p, m).epoch = p.epoch
<1>1. PICK n \in 0..MaxRetries : p.path \in [1..n -> Mode]
    BY DEF Attempt
<1>2. p.path \in Seq(Mode) /\ Len(p.path) = n
    BY <1>1, BoundAssumption
<1>3. Append(p.path, m) \in [1..(n + 1) -> Mode]
    <2>1. Append(p.path, m) \in Seq(Mode) /\ Len(Append(p.path, m)) = n + 1
        BY <1>2, AppendProperties
    <2> QED BY <2>1, LenProperties
<1>4. n + 1 \in 0..MaxRetries
    BY <1>2, BoundAssumption
<1>5. p.epoch \in 1..MaxEpoch
    BY DEF Attempt
<1> QED BY <1>3, <1>4, <1>5 DEF Child, Attempt

\* The epoch of an attempt is a number.
LEMMA EpochOfAttempt ==
    ASSUME NEW a \in Attempt PROVE a.epoch \in 1..MaxEpoch /\ a.epoch \in Nat
BY BoundAssumption DEF Attempt

\* The events, by name.
LEMMA EventNames ==
    Event = {"admitted", "dispatched", "cancelled", "cancellation_requested",
             "indeterminate", "resolved", "observation"}
<1>1. DOMAIN Lifecycle = 1..7
    BY DEF Lifecycle
<1>2. \A i \in 1..7 : i = 1 \/ i = 2 \/ i = 3 \/ i = 4 \/ i = 5 \/ i = 6 \/ i = 7
    OBVIOUS
<1>3. /\ Lifecycle[1] = "admitted" /\ Lifecycle[2] = "dispatched"
      /\ Lifecycle[3] = "cancelled" /\ Lifecycle[4] = "cancellation_requested"
      /\ Lifecycle[5] = "indeterminate" /\ Lifecycle[6] = "resolved"
      /\ Lifecycle[7] = "observation"
    BY DEF Lifecycle
<1> QED BY <1>1, <1>2, <1>3 DEF Event

\* The free mutex is a value of lock and owes nothing.
LEMMA FreeLock ==
    /\ Free \in LockType
    /\ Free.by = Nobody /\ Free.st = "none" /\ Free.ev = {} /\ Free.obs = {} /\ Free.gone = {}
<1>1. First(1) \in Attempt
    BY FirstIsAttempt, BoundAssumption
<1> QED BY <1>1 DEF Free, LockType, Caller

\* What an operation leaves in lock.
LEMMA OwesLock ==
    ASSUME NEW c \in Caller, NEW a \in Attempt, NEW s \in {"none", "observed"},
           NEW ev \in SUBSET Event, Owes(c, a, s, ev)
    PROVE  /\ lock' \in LockType /\ lock'.obs = {} /\ lock'.gone = {}
           /\ lock'.st # "none" => lock'.att = a /\ s = "observed"
<1>1. Free \in LockType /\ Free.st = "none" /\ Free.obs = {} /\ Free.gone = {}
    BY FreeLock
<1>2. CASE s = "none" /\ ev = {}
    BY <1>1, <1>2 DEF Owes
<1>3. CASE ~(s = "none" /\ ev = {})
    <2>1. lock' = [Free EXCEPT !.by = c, !.att = a, !.st = s, !.ev = ev]
        BY <1>3 DEF Owes
    <2>2. lock' = [by |-> c, att |-> a, st |-> s, ev |-> ev, obs |-> {}, gone |-> {}]
        BY <2>1 DEF Free
    <2> QED BY <2>2 DEF LockType
<1> QED BY <1>2, <1>3

-----------------------------------------------------------------------------
(* The ledger operations keep the ledger in order and settle attempts.     *)

\* Nothing happens in the ledger.
LEMMA Quiet ==
    ASSUME LedgerInv, UNCHANGED <<lock, journal>> PROVE LedgerInv' /\ Settling
<1>1. /\ status' = status /\ marks' = marks /\ observation' = observation
      /\ events' = events /\ deleted' = deleted /\ epoch' = epoch /\ lock' = lock
    BY DEF journal
<1>2. epoch \in Nat
    BY BoundAssumption DEF LedgerInv, LedgerType
<1> QED BY <1>1, <1>2 DEF LedgerInv, LedgerType, OldAreSettled, OwedIsObserved, Settling, Settles

\* The journal writes still owed are dropped.
LEMMA Dropped ==
    ASSUME LedgerInv, lock' = Free, UNCHANGED journal PROVE LedgerInv' /\ Settling
<1>1. /\ status' = status /\ marks' = marks /\ observation' = observation
      /\ events' = events /\ deleted' = deleted /\ epoch' = epoch
    BY DEF journal
<1>2. epoch \in Nat
    BY BoundAssumption DEF LedgerInv, LedgerType
<1>3. lock' \in LockType /\ lock'.gone = {} /\ lock'.st = "none"
    BY FreeLock
<1> QED BY <1>1, <1>2, <1>3
        DEF LedgerInv, LedgerType, OldAreSettled, OwedIsObserved, Settling, Settles

\* An operation whose first write is a revision.
LEMMA Revised ==
    ASSUME LedgerInv, NEW c \in Caller, NEW a \in Attempt, NEW s \in Status,
           NEW ms \in SUBSET Mark, NEW ev \in SUBSET Event,
           Revise(a, s, ms), Owes(c, a, "none", ev), Settles(a),
           UNCHANGED <<observation, events, deleted, epoch>>
    PROVE  LedgerInv' /\ Settling
<1>1. epoch \in Nat
    BY BoundAssumption DEF LedgerInv, LedgerType
<1>2. /\ lock' \in LockType /\ lock'.gone = {}
      /\ lock'.st = "none"
    BY OwesLock
<1>3. LedgerType'
    BY <1>2 DEF LedgerInv, LedgerType, Revise
<1>4. \A b \in Attempt : b # a => status'[b] = status[b]
    BY DEF LedgerInv, LedgerType, Revise
<1>5. OldAreSettled'
    <2>1. \A b \in Attempt : b \in (deleted \cup lock.gone)' => b.epoch < epoch'
        BY <1>2 DEF LedgerInv, OldAreSettled
    <2>2. ASSUME NEW b \in Attempt, b.epoch < epoch'
          PROVE  status'[b] \in {"none", "observed", "abandoned"} \cup Void
        BY <1>4, <2>2 DEF LedgerInv, OldAreSettled, Settles, Uncertain, Void
    <2> QED BY <2>1, <2>2 DEF OldAreSettled
<1>6. OwedIsObserved'
    BY <1>2 DEF OwedIsObserved
<1>7. Settling
    BY <1>1, <1>4 DEF Settling, Settles
<1> QED BY <1>3, <1>5, <1>6, <1>7 DEF LedgerInv

\* The events a read rebuilds are events.
LEMMA HistoryIsEvents ==
    ASSUME NEW a PROVE History(a) \in SUBSET Event
BY EventNames DEF History, Projection

\* repair_attempt_projection/1 and repair_observation_projection/3
LEMMA RepairKeeps ==
    ASSUME LedgerInv, Unlocked, NEW c \in Caller, NEW a \in Attempt, Repair(c, a)
    PROVE  LedgerInv' /\ Settling
<1>1. CASE ~Exists(a)
    BY <1>1, Quiet DEF Repair
<1>2. CASE Exists(a)
    <2>1. /\ status' = status /\ marks' = marks /\ observation' = observation
          /\ events' = events /\ deleted' = deleted /\ epoch' = epoch
        BY <1>2 DEF Repair, journal
    <2>2. epoch \in Nat
        BY BoundAssumption DEF LedgerInv, LedgerType
    <2>3. PICK s \in {"none", "observed"} :
              /\ Owes(c, a, s, History(a) \ events[a])
              /\ s = "observed" => status[a] \in Uncertain
        BY <1>2 DEF Repair
    <2>4. History(a) \ events[a] \in SUBSET Event
        BY HistoryIsEvents
    <2>5. /\ lock' \in LockType /\ lock'.gone = {}
          /\ lock'.st # "none" => lock'.att = a /\ status[a] \in Uncertain
        BY <2>3, <2>4, OwesLock
    <2> QED BY <2>1, <2>2, <2>5
            DEF LedgerInv, LedgerType, OldAreSettled, OwedIsObserved, Settling, Settles
<1> QED BY <1>1, <1>2

\* record_observation_locked/4
LEMMA ObserveKeeps ==
    ASSUME LedgerInv, Unlocked, NEW c \in Caller, NEW a \in Attempt,
           NEW o \in Observation, Observe(c, a, o)
    PROVE  LedgerInv' /\ Settling
<1>1. CASE Rejected(a, o)
    BY <1>1, Quiet DEF Observe
<1>2. CASE ~Rejected(a, o) /\ Observed(a)
    BY <1>2, RepairKeeps DEF Observe
<1>3. CASE ~Rejected(a, o) /\ ~Observed(a)
    <2>1. /\ observation' = [observation EXCEPT ![a] = o]
          /\ Owes(c, a, "observed", {"observation"})
          /\ status' = status /\ marks' = marks /\ events' = events
          /\ deleted' = deleted /\ epoch' = epoch
        BY <1>3 DEF Observe
    <2>2. status[a] \in Uncertain
        BY <1>3 DEF Rejected, Observable
    <2>3. {"observation"} \in SUBSET Event
        BY EventNames
    <2>4. /\ lock' \in LockType /\ lock'.gone = {}
          /\ lock'.st # "none" => lock'.att = a
        BY <2>1, <2>3, OwesLock
    <2>5. epoch \in Nat
        BY BoundAssumption DEF LedgerInv, LedgerType
    <2> QED BY <2>1, <2>2, <2>4, <2>5
            DEF LedgerInv, LedgerType, OldAreSettled, OwedIsObserved, Settling, Settles
<1> QED BY <1>1, <1>2, <1>3

\* mark_indeterminate_locked/3
LEMMA MarkKeeps ==
    ASSUME LedgerInv, Unlocked, NEW c \in Caller, NEW a \in Attempt, MarkIndeterminate(c, a)
    PROVE  LedgerInv' /\ Settling
<1>1. CASE Observed(a)
    BY <1>1, RepairKeeps DEF MarkIndeterminate
<1>2. CASE ~Observed(a) /\ Exists(a) /\ status[a] \in {"dispatching", "cancellation_requested"}
    <2>1. /\ Revise(a, "indeterminate", {"indeterminate"})
          /\ Owes(c, a, "none", {"indeterminate"})
          /\ UNCHANGED <<observation, events, deleted, epoch>>
        BY <1>2 DEF MarkIndeterminate
    <2>2. Settles(a)
        BY <1>2, <2>1 DEF Settles, Revise, LedgerInv, LedgerType
    <2>3. "indeterminate" \in Status /\ {"indeterminate"} \in SUBSET Mark
        BY DEF Status, Mark
    <2>4. {"indeterminate"} \in SUBSET Event
        BY EventNames
    <2> QED BY <2>1, <2>2, <2>3, <2>4, Revised
<1>3. CASE ~Observed(a) /\ ~(Exists(a) /\ status[a] \in {"dispatching", "cancellation_requested"})
    BY <1>3, Quiet DEF MarkIndeterminate
<1> QED BY <1>1, <1>2, <1>3

\* cancel_locked/3
LEMMA CancelKeeps ==
    ASSUME LedgerInv, Unlocked, NEW c \in Caller, NEW a \in Attempt, CancelAttempt(c, a)
    PROVE  LedgerInv' /\ Settling
<1>1. CASE Observed(a)
    BY <1>1, RepairKeeps DEF CancelAttempt
<1>2. CASE ~Observed(a) /\ Exists(a) /\ status[a] \in {"admitted", "dispatching"}
    <2> DEFINE s == CancelledStatus(a)
               ev == IF s \in Void THEN {"cancelled"} ELSE {s}
    <2>1. /\ Revise(a, s, {"cancellation"})
          /\ Owes(c, a, "none", ev)
          /\ UNCHANGED <<observation, events, deleted, epoch>>
        BY <1>2 DEF CancelAttempt
    <2>2. \/ status[a] = "admitted" /\ s = "cancelled_pre_dispatch"
          \/ status[a] = "dispatching" /\ s = "cancellation_requested"
        BY <1>2 DEF CancelledStatus
    <2>3. status'[a] = s
        BY <2>1 DEF Revise, LedgerInv, LedgerType
    <2>4. Settles(a)
        BY <2>2, <2>3 DEF Settles
    <2>5. s \in Status /\ {"cancellation"} \in SUBSET Mark
        BY <2>2 DEF Status, Mark
    <2>6. ev \in SUBSET Event
        BY <2>2, EventNames DEF Void
    <2> HIDE DEF s, ev
    <2> QED BY <2>1, <2>4, <2>5, <2>6, Revised
<1>3. CASE ~Observed(a) /\ ~(Exists(a) /\ status[a] \in {"admitted", "dispatching"})
    BY <1>3, Quiet DEF CancelAttempt
<1> QED BY <1>1, <1>2, <1>3

\* An attempt of the current epoch that cannot be found was never made.
LEMMA Unmade ==
    ASSUME LedgerInv, NEW a \in Attempt, a.epoch = epoch, ~Exists(a)
    PROVE  status[a] = "none"
<1>1. epoch \in Nat
    BY BoundAssumption DEF LedgerInv, LedgerType
<1> QED BY <1>1 DEF LedgerInv, OldAreSettled, Exists

\* cancel_ticket_locked/3, after validate_ticket/1
LEMMA CancelTicketKeeps ==
    ASSUME LedgerInv, Unlocked, NEW c \in Caller, NEW a \in Attempt,
           ValidTicket(a), CancelTicket(c, a)
    PROVE  LedgerInv' /\ Settling
<1>1. CASE Exists(a) /\ Observed(a)
    BY <1>1, RepairKeeps DEF CancelTicket
<1>2. CASE Exists(a) /\ ~Observed(a)
    BY <1>2, Quiet DEF CancelTicket
<1>3. CASE ~Exists(a)
    <2>1. /\ Revise(a, "cancelled_before_claim", {"cancellation"})
          /\ Owes(c, a, "none", {"cancelled"})
          /\ UNCHANGED <<observation, events, deleted, epoch>>
        BY <1>3 DEF CancelTicket
    <2>2. status[a] = "none"
        BY <1>3, Unmade DEF ValidTicket
    <2>3. Settles(a)
        BY <2>1, <2>2 DEF Settles, Revise, LedgerInv, LedgerType, ValidTicket
    <2>4. "cancelled_before_claim" \in Status /\ {"cancellation"} \in SUBSET Mark
        BY DEF Status, Mark
    <2>5. {"cancelled"} \in SUBSET Event
        BY EventNames
    <2> QED BY <2>1, <2>3, <2>4, <2>5, Revised
<1> QED BY <1>1, <1>2, <1>3

\* resolve_indeterminate_locked/3
LEMMA ResolveKeeps ==
    ASSUME LedgerInv, Unlocked, NEW c \in Caller, NEW a \in Attempt,
           NEW r \in {"retry_authorized", "abandoned"}, Resolve(c, a, r)
    PROVE  LedgerInv' /\ Settling
<1>1. CASE Observed(a)
    BY <1>1, RepairKeeps DEF Resolve
<1>2. CASE ~Observed(a) /\ Exists(a) /\ status[a] = "indeterminate"
    <2>1. /\ Revise(a, r, {"resolution"})
          /\ Owes(c, a, "none", {"resolved"})
          /\ UNCHANGED <<observation, events, deleted, epoch>>
        BY <1>2 DEF Resolve
    <2>2. Settles(a)
        BY <1>2, <2>1 DEF Settles, Revise, LedgerInv, LedgerType
    <2>3. r \in Status /\ {"resolution"} \in SUBSET Mark
        BY DEF Status, Mark
    <2>4. {"resolved"} \in SUBSET Event
        BY EventNames
    <2> QED BY <2>1, <2>2, <2>3, <2>4, Revised
<1>3. CASE ~Observed(a) /\ ~(Exists(a) /\ status[a] = "indeterminate")
    BY <1>3, Quiet DEF Resolve
<1> QED BY <1>1, <1>2, <1>3

\* prune_locked/2: what is pruned is over and settled.
LEMMA PruneKeeps ==
    ASSUME LedgerInv, Unlocked, NEW c \in Caller, NEW e \in 1..epoch,
           e = epoch => epoch < MaxEpoch, Prune(c, e)
    PROVE  LedgerInv' /\ Settling
<1>1. epoch \in 1..MaxEpoch /\ epoch \in Nat /\ MaxEpoch \in Nat
    BY BoundAssumption DEF LedgerInv, LedgerType
<1>2. /\ status' = status /\ marks' = marks /\ observation' = observation
      /\ events' = events /\ deleted' = deleted
      /\ epoch' = IF e = epoch THEN epoch + 1 ELSE epoch
    BY DEF Prune
<1>3. epoch' \in 1..MaxEpoch /\ epoch' \in {epoch, epoch + 1} /\ e < epoch' /\ epoch <= epoch'
    BY <1>1, <1>2
<1>4. Prunables(e) \subseteq {a \in Attempt : a.epoch = e}
    BY DEF Prunables
<1>5. /\ lock' \in LockType /\ lock'.st = "none" /\ lock'.gone = Prunables(e)
    <2>1. lock' = [by |-> c, att |-> First(1), st |-> "none", ev |-> {},
                   obs |-> {a \in Prunables(e) : Observed(a)}, gone |-> Prunables(e)]
        BY DEF Prune, OwesDeletion, Free
    <2>2. First(1) \in Attempt
        BY FirstIsAttempt, BoundAssumption
    <2>3. {a \in Prunables(e) : Observed(a)} \in SUBSET Attempt /\ Prunables(e) \in SUBSET Attempt
        BY <1>4
    <2> QED BY <2>1, <2>2, <2>3 DEF LockType
<1>6. \A a \in Attempt : a \in (deleted \cup lock.gone)' => a.epoch < epoch'
    <2> SUFFICES ASSUME NEW a \in Attempt, a \in deleted \/ a \in Prunables(e)
                 PROVE  a.epoch < epoch'
        BY <1>2, <1>5
    <2>1. a.epoch \in Nat
        BY EpochOfAttempt
    <2> QED BY <1>1, <1>3, <1>4, <2>1 DEF LedgerInv, OldAreSettled
<1>7. ASSUME NEW a \in Attempt, a.epoch < epoch'
      PROVE  status[a] \in {"none", "observed", "abandoned"} \cup Void
    <2>1. a.epoch \in Nat
        BY EpochOfAttempt
    <2>2. CASE a.epoch < epoch
        BY <2>2 DEF LedgerInv, OldAreSettled
    <2>3. CASE a.epoch = epoch
        <3>1. e = epoch
            BY <1>1, <1>2, <1>7, <2>1, <2>3
        <3>2. CASE Exists(a)
            BY <2>3, <3>1, <3>2 DEF Prune, Prunables, Prunable
        <3>3. CASE ~Exists(a)
            BY <2>3, <3>3, Unmade
        <3> QED BY <3>2, <3>3
    <2> QED BY <1>1, <1>3, <1>7, <2>1, <2>2, <2>3
<1>8. OldAreSettled'
    BY <1>2, <1>6, <1>7 DEF OldAreSettled
<1> QED BY <1>1, <1>2, <1>3, <1>5, <1>8
        DEF LedgerInv, LedgerType, OwedIsObserved, Settling, Settles

\* The journal writes still owed.
LEMMA JournalKeeps ==
    ASSUME LedgerInv, Journal PROVE LedgerInv' /\ Settling
<1>1. epoch \in Nat
    BY BoundAssumption DEF LedgerInv, LedgerType
<1>2. lock \in LockType
    BY DEF LedgerInv, LedgerType
<1>3. CASE WriteStatus
    <2>1. lock.st = "observed" /\ lock.att \in Attempt /\ status[lock.att] \in Uncertain
        BY <1>2, <1>3 DEF WriteStatus, LockType, LedgerInv, OwedIsObserved
    <2>2. /\ status' = [status EXCEPT ![lock.att] = "observed"]
          /\ marks' = [marks EXCEPT ![lock.att] = @ \cup {}]
          /\ observation' = observation /\ events' = events
          /\ deleted' = deleted /\ epoch' = epoch
        BY <1>3, <2>1 DEF WriteStatus, Revise
    <2>3. lock' \in LockType /\ lock'.st = "none" /\ lock'.gone \subseteq lock.gone
        <3>1. CASE lock.ev = {}
            BY <1>3, <3>1, FreeLock DEF WriteStatus
        <3>2. CASE lock.ev # {}
            BY <1>2, <1>3, <3>2 DEF WriteStatus, LockType
        <3> QED BY <3>1, <3>2
    <2>4. "observed" \in Status
        BY DEF Status
    <2>5. LedgerType'
        BY <2>1, <2>2, <2>3, <2>4 DEF LedgerInv, LedgerType
    <2>6. \A a \in Attempt : status'[a] = status[a]
                           \/ (status[a] \in Uncertain /\ status'[a] = "observed")
        BY <2>1, <2>2 DEF LedgerInv, LedgerType
    <2>7. OldAreSettled'
        BY <2>2, <2>3, <2>6 DEF LedgerInv, OldAreSettled
    <2> QED BY <1>1, <2>2, <2>3, <2>5, <2>6, <2>7
            DEF LedgerInv, OwedIsObserved, Settling, Settles
<1>4. ASSUME NEW i \in DOMAIN Lifecycle, WriteEvent(i)
      PROVE  LedgerInv' /\ Settling
    <2> DEFINE x == Lifecycle[i]
    <2>1. x \in Event
        BY DEF Event
    <2>2. /\ events' = [events EXCEPT ![lock.att] = @ \cup {x}]
          /\ lock.st = "none"
          /\ status' = status /\ marks' = marks /\ observation' = observation
          /\ deleted' = deleted /\ epoch' = epoch
          /\ lock' = IF lock.ev = {x} THEN Free ELSE [lock EXCEPT !.ev = @ \ {x}]
        BY <1>4 DEF WriteEvent
    <2> HIDE DEF x
    <2>3. lock' \in LockType /\ lock'.st = "none" /\ lock'.gone \subseteq lock.gone
        <3>1. CASE lock.ev = {x}
            BY <2>2, <3>1, FreeLock
        <3>2. CASE lock.ev # {x}
            BY <1>2, <2>2, <3>2 DEF LockType
        <3> QED BY <3>1, <3>2
    <2>4. lock.att \in Attempt
        BY <1>2 DEF LockType
    <2>5. LedgerType'
        BY <2>1, <2>2, <2>3, <2>4 DEF LedgerInv, LedgerType
    <2> QED BY <1>1, <2>2, <2>3, <2>5
            DEF LedgerInv, OldAreSettled, OwedIsObserved, Settling, Settles
<1>5. ASSUME NEW a \in Attempt, DeleteObservation(a)
      PROVE  LedgerInv' /\ Settling
    <2>1. /\ observation' = [observation EXCEPT ![a] = NoObservation]
          /\ lock' = [lock EXCEPT !.obs = @ \ {a}]
          /\ status' = status /\ marks' = marks /\ events' = events
          /\ deleted' = deleted /\ epoch' = epoch
        BY <1>5 DEF DeleteObservation
    <2>2. lock' \in LockType /\ lock'.gone = lock.gone /\ lock'.st = lock.st
          /\ lock'.att = lock.att
        BY <1>2, <2>1 DEF LockType
    <2> QED BY <1>1, <2>1, <2>2
            DEF LedgerInv, LedgerType, OldAreSettled, OwedIsObserved, Settling, Settles
<1>6. CASE DeleteAttempts
    <2>1. /\ deleted' = deleted \cup lock.gone /\ lock' = Free
          /\ status' = status /\ marks' = marks /\ observation' = observation
          /\ events' = events /\ epoch' = epoch
        BY <1>6 DEF DeleteAttempts
    <2>2. lock' \in LockType /\ lock'.gone = {} /\ lock'.st = "none"
        BY <2>1, FreeLock
    <2>3. lock.gone \in SUBSET Attempt
        BY <1>2 DEF LockType
    <2> QED BY <1>1, <2>1, <2>2, <2>3
            DEF LedgerInv, LedgerType, OldAreSettled, OwedIsObserved, Settling, Settles
<1> QED BY <1>3, <1>4, <1>5, <1>6 DEF Journal

-----------------------------------------------------------------------------
(* The executors.                                                          *)

Place == {"idle", "reconciling"} \cup Harness \cup Handler
Owner == {"admitted", "dispatched"}

ExecutorType ==
    /\ submissions \in [Attempt -> Nat]
    /\ pc \in [Executor -> Place]
    /\ target \in [Executor -> Attempt]
    /\ signal \in [Executor -> {"none", "raised", "swallowed", "returned"}]
    /\ crashes \in 0..MaxCrashes

\* An attempt that was never dispatched was never submitted.
Unsubmitted ==
    \A a \in Attempt :
        /\ submissions[a] <= 1
        /\ status[a] \in {"none", "admitted"} \cup Void => submissions[a] = 0

\* One executor owns an attempt from its admission to its submission.
OwnerHolds ==
    /\ \A e \in Executor : pc[e] \in Owner =>
          submissions[target[e]] = 0 /\ status[target[e]] # "none"
    /\ \A e \in Executor : pc[e] = "dispatched" =>
          status[target[e]] \in Uncertain \cup {"observed", "abandoned"}
    /\ \A e, x \in Executor : pc[e] \in Owner /\ pc[x] \in Owner /\ target[e] = target[x] => e = x

\* An attempt that was made has licensed parents.
Lineage ==
    \A a \in Attempt : status[a] # "none" =>
        \A p \in Parents(a) : status[p] \in {"observed", "retry_authorized"} \cup Void

\* The inductive invariant.
Inv == LedgerInv /\ ExecutorType /\ Unsubmitted /\ OwnerHolds /\ Lineage

\* A step that settles attempts, and neither submits nor makes an owner.
LEMMA Carried ==
    ASSUME Inv, LedgerInv', Settling, ExecutorType', submissions' = submissions,
           \A e \in Executor : pc'[e] \in Owner => pc'[e] = pc[e] /\ target'[e] = target[e]
    PROVE  Inv'
<1>1. Unsubmitted'
    BY DEF Inv, Unsubmitted, Settling, Settles, Uncertain, Void
<1>2. OwnerHolds'
    <2>1. \A e \in Executor : target[e] \in Attempt
        BY DEF Inv, ExecutorType
    <2>2. \A a \in Attempt :
              /\ status[a] # "none" => status'[a] # "none"
              /\ status[a] \in Uncertain \cup {"observed", "abandoned"} =>
                    status'[a] \in Uncertain \cup {"observed", "abandoned"}
        BY DEF Settling, Settles, Uncertain
    <2>3. \A e \in Executor : pc'[e] = "dispatched" => pc'[e] \in Owner
        BY DEF Owner
    <2> QED BY <2>1, <2>2, <2>3 DEF Inv, OwnerHolds
<1>3. Lineage'
    <2> SUFFICES ASSUME NEW a \in Attempt, status'[a] # "none", NEW p \in Parents(a)
                 PROVE  status'[p] \in {"observed", "retry_authorized"} \cup Void
        BY DEF Lineage, Parents
    <2>1. p \in Attempt
        BY DEF Parents
    <2>2. status[p] \in {"observed", "retry_authorized"} \cup Void
        BY DEF Inv, Lineage, Settling, Settles, Licensed, Uncertain
    <2> QED BY <2>1, <2>2 DEF Settling, Settles, Uncertain, Void
<1> QED BY <1>1, <1>2, <1>3 DEF Inv

\* The moves of an executor that do not make it an owner.
LEMMA Moved ==
    ASSUME Inv, LedgerInv', Settling, NEW e \in Executor, NEW p \in Place, NEW a \in Attempt,
           p \notin Owner,
           Start(e, p, a) \/ Move(e, p) \/ (Return(e) /\ p = "idle"),
           submissions' = submissions, crashes' = crashes
    PROVE  Inv'
<1>1. First(1) \in Attempt
    BY FirstIsAttempt, BoundAssumption
<1>2. /\ pc' = [pc EXCEPT ![e] = p]
      /\ target' = target \/ \E b \in Attempt : target' = [target EXCEPT ![e] = b]
      /\ signal' = signal \/ signal' = [signal EXCEPT ![e] = "none"]
    BY <1>1 DEF Start, Move, Return
<1>3. ExecutorType'
    BY <1>2 DEF Inv, ExecutorType
<1>4. \A x \in Executor : pc'[x] \in Owner => pc'[x] = pc[x] /\ target'[x] = target[x]
    BY <1>2 DEF Inv, ExecutorType
<1> QED BY <1>3, <1>4, Carried

\* An executor is a caller, the target of its run an attempt.
LEMMA TargetIsAttempt ==
    ASSUME Inv, NEW e \in Executor
    PROVE  e \in Caller /\ target[e] \in Attempt /\ First(1) \in Attempt
BY FirstIsAttempt, BoundAssumption DEF Inv, ExecutorType, Caller

\* Preparing decides on an existing attempt or starts a run.
LEMMA DecideKeeps ==
    ASSUME Inv, Unlocked, NEW e \in Executor, NEW a \in Attempt, Decide(e, a),
           submissions' = submissions, crashes' = crashes
    PROVE  Inv'
<1>1. LedgerInv' /\ Settling
    BY RepairKeeps, TargetIsAttempt DEF Decide, Inv
<1>2. First(1) \in Attempt
    BY TargetIsAttempt
<1>3. "reconciling" \in Place /\ "idle" \in Place /\ "reconciling" \notin Owner /\ "idle" \notin Owner
    BY DEF Place, Owner
<1>4. Start(e, "reconciling", a) \/ Start(e, "idle", First(1))
    BY DEF Decide
<1> QED BY <1>1, <1>2, <1>3, <1>4, Moved

\* The journaled claim makes its executor the owner of an attempt nobody owned.
LEMMA AdmitKeeps ==
    ASSUME Inv, NEW e \in Executor, At(e, "prepared"), ValidTicket(target[e]),
           ~Claimed(target[e]), Admit(e, target[e]), Move(e, "admitted"),
           submissions' = submissions, crashes' = crashes
    PROVE  Inv'
<1> DEFINE a == target[e]
<1>1. a \in Attempt /\ e \in Caller
    BY TargetIsAttempt
<1>2. status[a] = "none"
    BY <1>1, Unmade DEF Inv, ValidTicket, Claimed
<1>3. /\ status' = [status EXCEPT ![a] = "admitted"]
      /\ marks' = [marks EXCEPT ![a] = @ \cup {}]
      /\ Owes(e, a, "none", {"admitted"})
      /\ observation' = observation /\ events' = events /\ deleted' = deleted /\ epoch' = epoch
    BY DEF Admit, Revise
<1>4. /\ pc' = [pc EXCEPT ![e] = "admitted"] /\ target' = target /\ signal' = signal
    BY DEF Move
<1>5. {"admitted"} \in SUBSET Event /\ "admitted" \in Status
    BY EventNames DEF Status
<1>6. lock' \in LockType /\ lock'.gone = {} /\ lock'.st = "none"
    BY <1>1, <1>3, <1>5, OwesLock
<1>7. a.epoch = epoch /\ epoch \in Nat /\ ~(epoch < epoch)
    BY BoundAssumption DEF ValidTicket, Inv, LedgerInv, LedgerType
<1>8. status'[a] = "admitted" /\ \A b \in Attempt : b # a => status'[b] = status[b]
    BY <1>1, <1>3 DEF Inv, LedgerInv, LedgerType
<1>9. LedgerInv'
    <2>1. LedgerType'
        BY <1>1, <1>3, <1>5, <1>6 DEF Inv, LedgerInv, LedgerType
    <2>2. OldAreSettled'
        BY <1>3, <1>6, <1>7, <1>8 DEF Inv, LedgerInv, OldAreSettled
    <2> QED BY <1>6, <2>1, <2>2 DEF LedgerInv, OwedIsObserved
<1>10. ExecutorType'
    BY <1>4 DEF Inv, ExecutorType, Place, Harness
<1>11. Unsubmitted'
    BY <1>1, <1>2, <1>8 DEF Inv, Unsubmitted
<1>12. OwnerHolds'
    <2>1. submissions[a] = 0
        BY <1>1, <1>2 DEF Inv, Unsubmitted
    <2>2. \A x \in Executor : pc[x] \in Owner => target[x] # a
        BY <1>2 DEF Inv, OwnerHolds
    <2>3. \A x \in Executor : x # e => pc'[x] = pc[x]
        BY <1>4 DEF Inv, ExecutorType
    <2>4. pc'[e] = "admitted"
        BY <1>4 DEF Inv, ExecutorType
    <2>5. \A x \in Executor : target[x] \in Attempt
        BY DEF Inv, ExecutorType
    <2> QED BY <1>4, <1>8, <2>1, <2>2, <2>3, <2>4, <2>5 DEF Inv, OwnerHolds, Owner
<1>13. Lineage'
    <2> SUFFICES ASSUME NEW b \in Attempt, status'[b] # "none", NEW p \in Parents(b)
                 PROVE  status'[p] \in {"observed", "retry_authorized"} \cup Void
        BY DEF Lineage, Parents
    <2>1. p \in Attempt
        BY DEF Parents
    <2>2. status[p] \in {"observed", "retry_authorized"} \cup Void
        BY <1>8 DEF Inv, Lineage, ValidTicket, Licensed
    <2>3. p # a
        BY <1>2, <2>2 DEF Void
    <2> QED BY <1>8, <2>1, <2>2, <2>3
<1> QED BY <1>9, <1>10, <1>11, <1>12, <1>13 DEF Inv

\* The owner journals the dispatch.
LEMMA DispatchKeeps ==
    ASSUME Inv, NEW e \in Executor, At(e, "admitted"), status[target[e]] = "admitted",
           Dispatch(e, target[e]), Move(e, "dispatched"),
           submissions' = submissions, crashes' = crashes
    PROVE  Inv'
<1> DEFINE a == target[e]
<1>1. a \in Attempt /\ e \in Caller
    BY TargetIsAttempt
<1>3. /\ status' = [status EXCEPT ![a] = "dispatching"]
      /\ marks' = [marks EXCEPT ![a] = @ \cup {}]
      /\ Owes(e, a, "none", {"dispatched"})
      /\ observation' = observation /\ events' = events /\ deleted' = deleted /\ epoch' = epoch
    BY DEF Dispatch, Revise
<1>4. /\ pc' = [pc EXCEPT ![e] = "dispatched"] /\ target' = target /\ signal' = signal
    BY DEF Move
<1>5. {"dispatched"} \in SUBSET Event /\ "dispatching" \in Status
    BY EventNames DEF Status
<1>6. lock' \in LockType /\ lock'.gone = {} /\ lock'.st = "none"
    BY <1>1, <1>3, <1>5, OwesLock
<1>7. ~(a.epoch < epoch)
    BY <1>1 DEF Inv, LedgerInv, OldAreSettled, Void
<1>8. status'[a] = "dispatching" /\ \A b \in Attempt : b # a => status'[b] = status[b]
    BY <1>1, <1>3 DEF Inv, LedgerInv, LedgerType
<1>9. LedgerInv'
    <2>1. LedgerType'
        BY <1>1, <1>3, <1>5, <1>6 DEF Inv, LedgerInv, LedgerType
    <2>2. OldAreSettled'
        BY <1>3, <1>6, <1>7, <1>8 DEF Inv, LedgerInv, OldAreSettled
    <2> QED BY <1>6, <2>1, <2>2 DEF LedgerInv, OwedIsObserved
<1>10. ExecutorType'
    BY <1>4 DEF Inv, ExecutorType, Place, Harness
<1>11. Unsubmitted'
    BY <1>1, <1>8 DEF Inv, Unsubmitted, Void
<1>12. OwnerHolds'
    <2>1. \A x \in Executor : x # e => pc'[x] = pc[x]
        BY <1>4 DEF Inv, ExecutorType
    <2>2. pc'[e] = "dispatched" /\ pc[e] = "admitted"
        BY <1>4 DEF Inv, ExecutorType, At
    <2>3. \A x \in Executor : target[x] \in Attempt
        BY DEF Inv, ExecutorType
    <2> QED BY <1>4, <1>8, <2>1, <2>2, <2>3 DEF Inv, OwnerHolds, Owner, Uncertain
<1>13. Lineage'
    <2> SUFFICES ASSUME NEW b \in Attempt, status'[b] # "none", NEW p \in Parents(b)
                 PROVE  status'[p] \in {"observed", "retry_authorized"} \cup Void
        BY DEF Lineage, Parents
    <2>1. p \in Attempt
        BY DEF Parents
    <2>2. status[p] \in {"observed", "retry_authorized"} \cup Void
        BY <1>8 DEF Inv, Lineage
    <2>3. p # a
        BY <2>2 DEF Void
    <2> QED BY <1>8, <2>1, <2>2, <2>3
<1> QED BY <1>9, <1>10, <1>11, <1>12, <1>13 DEF Inv

\* The owner submits, and owns no more.
LEMMA SubmitKeeps ==
    ASSUME Inv, NEW e \in Executor, Submit(e) PROVE Inv'
<1> DEFINE a == target[e]
<1>1. a \in Attempt /\ pc[e] = "dispatched"
    BY TargetIsAttempt DEF Submit
<1>2. /\ submissions' = [submissions EXCEPT ![a] = @ + 1]
      /\ pc' = [pc EXCEPT ![e] = "submitted"] /\ target' = target
      /\ signal' = signal /\ crashes' = crashes
      /\ lock' = lock /\ UNCHANGED journal
    BY DEF Submit, Move
<1>3. LedgerInv' /\ Settling /\ status' = status
    BY <1>2, Quiet DEF Inv, journal
<1>4. submissions[a] = 0 /\ status[a] \in Uncertain \cup {"observed", "abandoned"}
    BY <1>1 DEF Inv, OwnerHolds, Owner
<1>5. ExecutorType'
    BY <1>1, <1>2 DEF Inv, ExecutorType, Place, Harness
<1>6. submissions'[a] = 1 /\ \A b \in Attempt : b # a => submissions'[b] = submissions[b]
    BY <1>1, <1>2, <1>4 DEF Inv, ExecutorType
<1>7. Unsubmitted'
    BY <1>3, <1>4, <1>6 DEF Inv, Unsubmitted, Uncertain, Void
<1>8. OwnerHolds'
    <2>1. \A x \in Executor : x # e => pc'[x] = pc[x]
        BY <1>2 DEF Inv, ExecutorType
    <2>2. pc'[e] = "submitted"
        BY <1>2 DEF Inv, ExecutorType
    <2>3. \A x \in Executor : pc'[x] \in Owner => x # e /\ pc'[x] = pc[x] /\ target[x] # a
        BY <1>1, <2>1, <2>2 DEF Inv, OwnerHolds, Owner
    <2>4. \A x \in Executor : target[x] \in Attempt
        BY DEF Inv, ExecutorType
    <2> QED BY <1>2, <1>3, <1>6, <2>3, <2>4 DEF Inv, OwnerHolds, Owner
<1>9. Lineage'
    BY <1>3 DEF Inv, Lineage
<1> QED BY <1>3, <1>5, <1>7, <1>8, <1>9 DEF Inv

-----------------------------------------------------------------------------
(* The steps.                                                              *)

\* A step of an executor keeps the invariant.
LEMMA ExecutorKeeps ==
    ASSUME Inv, NEW e \in Executor, ExecutorStep(e) PROVE Inv'
<1> DEFINE a == target[e]
<1>1. e \in Caller /\ a \in Attempt /\ First(1) \in Attempt /\ LedgerInv
    BY TargetIsAttempt DEF Inv
<1>2. \A p \in {"idle", "prepared", "reconciling", "recorded", "recording", "void", "stop",
                "withdraw", "unwinding", "asking", "cancelling"} : p \in Place /\ p \notin Owner
    BY DEF Place, Harness, Handler, Owner
<1>3. CASE Prepare(e)
    <2>1. Unlocked /\ submissions' = submissions /\ crashes' = crashes
        BY <1>3 DEF Prepare, At
    <2>2. CASE Start(e, "prepared", First(epoch)) /\ UNCHANGED <<lock, journal>>
        <3>1. First(epoch) \in Attempt
            BY <1>1, FirstIsAttempt DEF LedgerInv, LedgerType
        <3> QED BY <1>1, <1>2, <2>1, <2>2, <3>1, Quiet, Moved
    <2>3. ASSUME NEW b \in Attempt, Decide(e, b) PROVE Inv'
        BY <2>1, <2>3, DecideKeeps
    <2> QED BY <1>3, <2>2, <2>3 DEF Prepare
<1>4. CASE AdmitTicket(e)
    <2>1. At(e, "prepared") /\ Unlocked /\ submissions' = submissions /\ crashes' = crashes
        BY <1>4 DEF AdmitTicket, At
    <2>2. CASE Return(e) /\ UNCHANGED <<lock, journal>>
        BY <1>1, <1>2, <2>1, <2>2, Quiet, Moved
    <2>3. CASE Return(e) /\ Repair(e, a)
        <3>1. LedgerInv' /\ Settling
            BY <1>1, <2>1, <2>3, RepairKeeps
        <3> QED BY <1>1, <1>2, <2>1, <2>3, <3>1, Moved
    <2>4. CASE ValidTicket(a) /\ ~Claimed(a) /\ Admit(e, a) /\ Move(e, "admitted")
        BY <2>1, <2>4, AdmitKeeps
    <2> QED BY <1>4, <2>2, <2>3, <2>4 DEF AdmitTicket
<1>5. CASE DispatchAttempt(e)
    <2>1. At(e, "admitted") /\ submissions' = submissions /\ crashes' = crashes
        BY <1>5 DEF DispatchAttempt
    <2>2. CASE Return(e) /\ UNCHANGED <<lock, journal>>
        BY <1>1, <1>2, <2>1, <2>2, Quiet, Moved
    <2>3. CASE status[a] = "admitted" /\ Dispatch(e, a) /\ Move(e, "dispatched")
        BY <2>1, <2>3, DispatchKeeps
    <2> QED BY <1>5, <2>2, <2>3 DEF DispatchAttempt
<1>6. CASE Submit(e)
    BY <1>6, SubmitKeeps
<1>7. CASE SubmitReply(e)
    <2>1. Unlocked /\ submissions' = submissions /\ crashes' = crashes
        BY <1>7 DEF SubmitReply
    <2>2. ASSUME NEW o \in Observation, Observe(e, a, o),
                 NEW p \in {"recorded", "recording"}, Move(e, p)
          PROVE  Inv'
        <3>1. LedgerInv' /\ Settling
            BY <1>1, <2>1, <2>2, ObserveKeeps
        <3> QED BY <1>1, <1>2, <2>1, <2>2, <3>1, Moved
    <2>3. CASE Return(e) /\ UNCHANGED <<lock, journal>>
        BY <1>1, <1>2, <2>1, <2>3, Quiet, Moved
    <2>4. CASE MarkIndeterminate(e, a) /\ Return(e)
        <3>1. LedgerInv' /\ Settling
            BY <1>1, <2>1, <2>4, MarkKeeps
        <3> QED BY <1>1, <1>2, <2>1, <2>4, <3>1, Moved
    <2> QED BY <1>7, <2>2, <2>3, <2>4 DEF SubmitReply
<1>8. CASE RecordResult(e)
    <2>1. Unlocked /\ submissions' = submissions /\ crashes' = crashes /\ Return(e)
        BY <1>8 DEF RecordResult, At
    <2>2. LedgerInv' /\ Settling
        BY <1>1, <1>8, <2>1, Quiet, MarkKeeps DEF RecordResult
    <2> QED BY <1>1, <1>2, <2>1, <2>2, Moved
<1>9. CASE Reconcile(e)
    <2>1. Unlocked /\ submissions' = submissions /\ crashes' = crashes /\ Return(e)
        BY <1>9 DEF Reconcile, At
    <2>2. LedgerInv' /\ Settling
        BY <1>1, <1>9, <2>1, Quiet, RepairKeeps, ObserveKeeps, MarkKeeps DEF Reconcile
    <2> QED BY <1>1, <1>2, <2>1, <2>2, Moved
<1>10. CASE Interrupt(e)
    <2>1. LedgerInv' /\ Settling
        BY <1>1, <1>10, Quiet DEF Interrupt
    <2>2. ExecutorType'
        BY <1>1, <1>2, <1>10 DEF Interrupt, Inv, ExecutorType
    <2>3. \A x \in Executor : pc'[x] \in Owner => pc'[x] = pc[x] /\ target'[x] = target[x]
        BY <1>2, <1>10 DEF Interrupt, Inv, ExecutorType
    <2>4. submissions' = submissions
        BY <1>10 DEF Interrupt
    <2> QED BY <2>1, <2>2, <2>3, <2>4, Carried
<1>11. CASE InterruptLedger(e)
    <2>1. LedgerInv' /\ Settling
        <3>1. UNCHANGED journal /\ lock' \in {lock, Free}
            BY <1>11 DEF InterruptLedger
        <3> QED BY <1>1, <3>1, Quiet, Dropped
    <2>2. /\ \E p \in {"idle", "recording"} : pc' = [pc EXCEPT ![e] = p]
          /\ target' = target \/ target' = [target EXCEPT ![e] = First(1)]
          /\ signal' = [signal EXCEPT ![e] = "swallowed"]
          /\ submissions' = submissions /\ crashes' = crashes
        BY <1>11 DEF InterruptLedger
    <2>3. ExecutorType'
        BY <1>1, <1>2, <2>2 DEF Inv, ExecutorType
    <2>4. \A x \in Executor : pc'[x] \in Owner => pc'[x] = pc[x] /\ target'[x] = target[x]
        BY <1>2, <2>2 DEF Inv, ExecutorType
    <2> QED BY <2>1, <2>2, <2>3, <2>4, Carried
<1>12. CASE CancelStatus(e)
    <2>1. Unlocked /\ submissions' = submissions /\ crashes' = crashes /\ Repair(e, a)
        BY <1>12 DEF CancelStatus, At
    <2>2. LedgerInv' /\ Settling
        BY <1>1, <2>1, RepairKeeps
    <2>3. \E p \in {"void", "stop", "withdraw"} : Move(e, p)
        BY <1>12 DEF CancelStatus
    <2> QED BY <1>1, <1>2, <2>1, <2>2, <2>3, Moved
<1>13. CASE CancelUnclaimed(e)
    <2>1. Unlocked /\ submissions' = submissions /\ crashes' = crashes /\ Move(e, "unwinding")
        BY <1>13 DEF CancelUnclaimed, At
    <2>2. LedgerInv' /\ Settling
        BY <1>1, <1>13, <2>1, Quiet, CancelTicketKeeps DEF CancelUnclaimed
    <2> QED BY <1>1, <1>2, <2>1, <2>2, Moved
<1>14. CASE CancelClaimed(e)
    <2>1. Unlocked /\ submissions' = submissions /\ crashes' = crashes /\ CancelAttempt(e, a)
        BY <1>14 DEF CancelClaimed, At
    <2>2. LedgerInv' /\ Settling
        BY <1>1, <2>1, CancelKeeps
    <2>3. \E p \in {"asking", "unwinding"} : Move(e, p)
        BY <1>14 DEF CancelClaimed
    <2> QED BY <1>1, <1>2, <2>1, <2>2, <2>3, Moved
<1>15. CASE CancelReply(e)
    <2>1. Unlocked /\ submissions' = submissions /\ crashes' = crashes /\ Move(e, "unwinding")
        BY <1>15 DEF CancelReply, At
    <2>2. LedgerInv' /\ Settling
        BY <1>1, <1>15, <2>1, Quiet, ObserveKeeps, MarkKeeps DEF CancelReply
    <2> QED BY <1>1, <1>2, <2>1, <2>2, Moved
<1>16. CASE Unwind(e)
    <2>1. LedgerInv' /\ Settling
        BY <1>1, <1>16, Quiet DEF Unwind
    <2>2. ExecutorType'
        BY <1>1, <1>2, <1>16 DEF Unwind, Inv, ExecutorType
    <2>3. \A x \in Executor : pc'[x] \in Owner => pc'[x] = pc[x] /\ target'[x] = target[x]
        BY <1>2, <1>16 DEF Unwind, Inv, ExecutorType
    <2>4. submissions' = submissions
        BY <1>16 DEF Unwind
    <2> QED BY <2>1, <2>2, <2>3, <2>4, Carried
<1>17. ASSUME NEW b \in Attempt, Inspect(e, b) PROVE Inv'
    <2>1. Unlocked /\ submissions' = submissions /\ crashes' = crashes
          /\ Repair(e, b) /\ Start(e, "reconciling", b)
        BY <1>17 DEF Inspect, At
    <2>2. LedgerInv' /\ Settling
        BY <1>1, <2>1, RepairKeeps
    <2> QED BY <1>2, <2>1, <2>2, Moved
<1>18. ASSUME NEW b \in Attempt, NEW m \in Mode, PrepareChild(e, b, m) PROVE Inv'
    <2>1. Unlocked /\ submissions' = submissions /\ crashes' = crashes /\ Len(b.path) < MaxRetries
        BY <1>18 DEF PrepareChild, At
    <2>2. Child(b, m) \in Attempt
        BY <2>1, ChildIsAttempt
    <2>3. CASE Start(e, "prepared", Child(b, m)) /\ UNCHANGED <<lock, journal>>
        BY <1>1, <1>2, <2>1, <2>2, <2>3, Quiet, Moved
    <2>4. CASE Decide(e, Child(b, m))
        BY <2>1, <2>2, <2>4, DecideKeeps
    <2> QED BY <1>18, <2>3, <2>4 DEF PrepareChild
<1> QED BY <1>3, <1>4, <1>5, <1>6, <1>7, <1>8, <1>9, <1>10, <1>11, <1>12, <1>13, <1>14,
           <1>15, <1>16, <1>17, <1>18 DEF ExecutorStep

\* A step of the host keeps the invariant.
LEMMA HostKeeps ==
    ASSUME Inv, HostStep PROVE Inv'
<1>1. Unlocked /\ submissions' = submissions /\ crashes' = crashes
      /\ pc' = pc /\ target' = target /\ signal' = signal
    BY DEF HostStep, runs
<1>2. Host \in Caller /\ LedgerInv
    BY DEF Caller, Inv
<1>3. LedgerInv' /\ Settling
    <2>1. ASSUME NEW a \in Attempt, HostStatus(a) PROVE LedgerInv' /\ Settling
        BY <1>1, <1>2, <2>1, RepairKeeps DEF HostStatus
    <2>2. ASSUME NEW a \in Attempt, CancelAttempt(Host, a) PROVE LedgerInv' /\ Settling
        BY <1>1, <1>2, <2>2, CancelKeeps
    <2>3. ASSUME NEW a \in Attempt, HostResolve(a) PROVE LedgerInv' /\ Settling
        BY <1>1, <1>2, <2>3, ResolveKeeps DEF HostResolve
    <2>4. ASSUME NEW e \in 1..epoch, HostPrune(e) PROVE LedgerInv' /\ Settling
        BY <1>1, <1>2, <2>4, PruneKeeps DEF HostPrune
    <2> QED BY <2>1, <2>2, <2>3, <2>4 DEF HostStep
<1>4. ExecutorType'
    BY <1>1 DEF Inv, ExecutorType
<1> QED BY <1>1, <1>3, <1>4, Carried

\* Init establishes the invariant, and every step keeps it.
LEMMA InitInv == Init => Inv
<1> SUFFICES ASSUME Init PROVE Inv
    OBVIOUS
<1>1. First(1) \in Attempt /\ 1 \in 1..MaxEpoch /\ 0 \in 0..MaxCrashes
    BY FirstIsAttempt, BoundAssumption, CrashAssumption
<1>2. LedgerInv
    BY <1>1, FreeLock DEF Init, LedgerInit, LedgerInv, LedgerType, OldAreSettled, OwedIsObserved, Status
<1>3. ExecutorType
    BY <1>1 DEF Init, ExecutorType, Place
<1>4. Unsubmitted /\ OwnerHolds
    BY DEF Init, Unsubmitted, OwnerHolds, Owner
<1>5. Lineage
    BY DEF Init, LedgerInit, Lineage
<1> QED BY <1>2, <1>3, <1>4, <1>5 DEF Inv

\* The invariant is inductive: one step per action of Next.
LEMMA NextInv == Inv /\ [Next]_vars => Inv'
<1> SUFFICES ASSUME Inv, [Next]_vars PROVE Inv'
    OBVIOUS
<1>1. CASE Write
    <2>1. LedgerInv' /\ Settling
        BY <1>1, JournalKeeps DEF Write, Inv
    <2>2. submissions' = submissions /\ crashes' = crashes
          /\ pc' = pc /\ target' = target /\ signal' = signal
        BY <1>1 DEF Write, runs
    <2>3. ExecutorType'
        BY <2>2 DEF Inv, ExecutorType
    <2> QED BY <2>1, <2>2, <2>3, Carried
<1>2. CASE HostStep
    BY <1>2, HostKeeps
<1>3. CASE Crash
    <2>1. LedgerInv' /\ Settling
        BY <1>3, Dropped DEF Crash, Inv
    <2>2. First(1) \in Attempt
        BY FirstIsAttempt, BoundAssumption
    <2>3. ExecutorType'
        BY <1>3, <2>2, CrashAssumption DEF Crash, Inv, ExecutorType, Place
    <2>4. submissions' = submissions /\ \A e \in Executor : pc'[e] \notin Owner
        BY <1>3 DEF Crash, Owner
    <2> QED BY <2>1, <2>3, <2>4, Carried
<1>4. ASSUME NEW e \in Executor, ExecutorStep(e) PROVE Inv'
    BY <1>4, ExecutorKeeps
<1>5. CASE UNCHANGED vars
    <2>1. LedgerInv' /\ Settling
        BY <1>5, Quiet DEF vars, Inv
    <2>2. submissions' = submissions /\ crashes' = crashes
          /\ pc' = pc /\ target' = target /\ signal' = signal
        BY <1>5 DEF vars, runs
    <2>3. ExecutorType'
        BY <2>2 DEF Inv, ExecutorType
    <2> QED BY <2>1, <2>2, <2>3, Carried
<1> QED BY <1>1, <1>2, <1>3, <1>4, <1>5 DEF Next

\* Every reachable state satisfies the invariant.
LEMMA Invariance == Spec => []Inv
BY InitInv, NextInv, PTL DEF Spec

\* Every variable of the ledger and of the executors keeps its type.
THEOREM LedgerTyping == Spec => []TypeOK
<1>1. Inv => TypeOK
    BY DEF Inv, LedgerInv, LedgerType, LockType, Caller, ExecutorType, Place, TypeOK
<1> QED BY <1>1, Invariance, PTL

\* effect_adapter_submit/4 carries an attempt across the boundary at most once,
\* and only after rlm_effect_dispatch/2 has journaled it.
THEOREM AtMostOnce == Spec => []SubmittedOnce
<1>1. Inv => SubmittedOnce
    <2> SUFFICES ASSUME Inv, NEW a \in Attempt
                 PROVE  /\ submissions[a] <= 1
                        /\ submissions[a] > 0 =>
                              status[a] \in Uncertain \cup {"observed", "abandoned"}
        BY DEF SubmittedOnce
    <2>1. submissions[a] \in Nat /\ status[a] \in Status
        BY DEF Inv, LedgerInv, LedgerType, ExecutorType
    <2> QED BY <2>1 DEF Inv, Unsubmitted, Status, Uncertain, Void
<1> QED BY <1>1, Invariance, PTL

\* rlm_effect_admit/3 admits a retry or a resample under licensed parents only,
\* and no later step takes the license back.
THEOREM LicensedRetries == Spec => []RetryIsLicensed
<1>1. Inv => RetryIsLicensed
    BY DEF Inv, Lineage, RetryIsLicensed, Parents
<1> QED BY <1>1, Invariance, PTL

\* rlm_effect_prune/2 never lets an operation start afresh over an attempt whose
\* outcome is neither known nor given up.
THEOREM SettledEpochs == Spec => []EpochsAreSettled
<1>1. Inv => EpochsAreSettled
    <2> SUFFICES ASSUME Inv, NEW a \in Attempt, a.epoch < epoch, submissions[a] > 0
                 PROVE  status[a] \in {"observed", "abandoned"}
        BY DEF EpochsAreSettled
    <2>1. submissions[a] # 0
        BY DEF Inv, ExecutorType
    <2>2. status[a] \notin {"none"} \cup Void
        BY <2>1 DEF Inv, Unsubmitted
    <2> QED BY <2>2 DEF Inv, LedgerInv, OldAreSettled
<1> QED BY <1>1, Invariance, PTL

-----------------------------------------------------------------------------
(* The records of an attempt: its status, its marks, its observation.      *)

\* An attempt with an observation may be observed, one that says observed has its
\* observation until its epoch is over, and nothing is made for an epoch to come.
ObservationHolds ==
    /\ \A a \in Attempt : Observed(a) => status[a] \in Uncertain \cup {"observed"}
    /\ \A a \in Attempt : a.epoch = epoch /\ status[a] = "observed" => Observed(a)
    /\ \A a \in Attempt : a.epoch > epoch => status[a] = "none"

\* The revision owed is of an observation journaled before it, and what a prune
\* still has to delete is there.
OwedHolds ==
    /\ lock.st # "none" => Observed(lock.att) /\ lock.obs = {}
    /\ \A a \in lock.obs : Observed(a) /\ a \in lock.gone

\* The marks of a doubt and of its resolution stand only where Projection reads them.
MarksHold ==
    /\ \A a \in Attempt : "indeterminate" \in marks[a] =>
          status[a] \in {"indeterminate", "retry_authorized", "abandoned", "observed"}
    /\ \A a \in Attempt : "resolution" \in marks[a] =>
          status[a] \in {"retry_authorized", "abandoned", "observed"}

RecordInv == ObservationHolds /\ OwedHolds /\ MarksHold

Untouched(a) ==
    status'[a] = status[a] /\ marks'[a] = marks[a] /\ observation'[a] = observation[a]

\* The next revision of a: status s, and marks ms more.
Revisions(a, s, ms) ==
    status'[a] = s /\ marks'[a] = marks[a] \cup ms /\ observation'[a] = observation[a]

\* What one step may do to the records of one attempt.
Claims(a) ==
    /\ status[a] = "none" /\ ValidTicket(a)
    /\ Revisions(a, "admitted", {}) \/ Revisions(a, "cancelled_before_claim", {"cancellation"})
Advances(a) ==
    \/ status[a] = "admitted" /\ Revisions(a, "dispatching", {})
    \/ status[a] = "admitted" /\ Revisions(a, "cancelled_pre_dispatch", {"cancellation"})
    \/ /\ status[a] = "dispatching"
       /\ Revisions(a, "cancellation_requested", {"cancellation"})
    \/ /\ status[a] \in {"dispatching", "cancellation_requested"}
       /\ Revisions(a, "indeterminate", {"indeterminate"})
    \/ /\ status[a] = "indeterminate"
       /\ \E r \in {"retry_authorized", "abandoned"} : Revisions(a, r, {"resolution"})
Learns(a) ==
    /\ status[a] \in Uncertain
    /\ status'[a] = status[a] /\ marks'[a] = marks[a] /\ observation'[a] # NoObservation
Confirms(a) == status[a] \in Uncertain /\ Observed(a) /\ Revisions(a, "observed", {})
Forgets(a) ==
    /\ status[a] = "observed" /\ a.epoch < epoch
    /\ status'[a] = status[a] /\ marks'[a] = marks[a] /\ observation'[a] = NoObservation

Deed(a) ==
    \/ Untouched(a) \/ Learns(a) \/ Confirms(a) \/ Forgets(a)
    \/ ~Observed(a) /\ (Claims(a) \/ Advances(a))

\* A step touches the records of one attempt, or moves the epoch on.
OneDeed ==
    /\ \E a \in Attempt : Deed(a) /\ \A b \in Attempt : b # a => Untouched(b)
    /\ epoch' = epoch
NewEpoch ==
    /\ \A a \in Attempt : Untouched(a)
    /\ \A a \in Attempt : a.epoch = epoch => Prunable(status[a]) \/ status[a] = "none"
    /\ epoch < MaxEpoch /\ epoch' = epoch + 1

Traced == (OneDeed \/ NewEpoch) /\ OwedHolds'

\* What any step does to the ledger.
Operation ==
    \/ \E a \in Attempt, c \in Caller :
          \/ Repair(c, a) \/ MarkIndeterminate(c, a) \/ CancelAttempt(c, a)
          \/ ValidTicket(a) /\ CancelTicket(c, a)
          \/ ValidTicket(a) /\ ~Claimed(a) /\ Admit(c, a)
          \/ status[a] = "admitted" /\ Dispatch(c, a)
          \/ \E o \in Observation : Observe(c, a, o)
          \/ \E r \in {"retry_authorized", "abandoned"} : Resolve(c, a, r)
    \/ \E c \in Caller, e \in 1..epoch : (e = epoch => epoch < MaxEpoch) /\ Prune(c, e)

LedgerStep ==
    \/ UNCHANGED <<lock, journal>>
    \/ lock' = Free /\ UNCHANGED journal
    \/ Journal
    \/ Unlocked /\ Operation

\* What an operation that owes revisions and events only leaves in lock.
LEMMA Owing ==
    ASSUME NEW c \in Caller, NEW a \in Attempt, NEW s \in {"none", "observed"},
           NEW ev, Owes(c, a, s, ev)
    PROVE  /\ lock'.obs = {}
           /\ lock'.st # "none" => lock'.att = a /\ s = "observed"
<1>1. Free.st = "none" /\ Free.obs = {}
    BY DEF Free
<1>2. CASE s = "none" /\ ev = {}
    BY <1>1, <1>2 DEF Owes
<1>3. CASE ~(s = "none" /\ ev = {})
    <2>1. lock' = [Free EXCEPT !.by = c, !.att = a, !.st = s, !.ev = ev]
        BY <1>3 DEF Owes
    <2>2. lock' = [by |-> c, att |-> a, st |-> s, ev |-> ev, obs |-> {}, gone |-> {}]
        BY <2>1 DEF Free
    <2> QED BY <2>2
<1> QED BY <1>2, <1>3

\* A step that leaves the records alone.
LEMMA LeftAlone ==
    ASSUME UNCHANGED <<status, marks, observation, epoch>> PROVE OneDeed
<1>1. First(1) \in Attempt
    BY FirstIsAttempt, BoundAssumption
<1> QED BY <1>1 DEF OneDeed, Deed, Untouched

\* An operation whose first write is a revision of a.
LEMMA RevisedOnce ==
    ASSUME LedgerInv, NEW c \in Caller, NEW a \in Attempt, NEW s, NEW ms, NEW ev,
           Revise(a, s, ms), Owes(c, a, "none", ev), observation' = observation, epoch' = epoch,
           Revisions(a, s, ms) => Deed(a)
    PROVE  Traced
<1>1. Revisions(a, s, ms) /\ \A b \in Attempt : b # a => Untouched(b)
    BY DEF Revise, LedgerInv, LedgerType, Revisions, Untouched
<1>2. lock'.obs = {} /\ lock'.st = "none"
    BY Owing
<1>3. OwedHolds'
    BY <1>2 DEF OwedHolds
<1> QED BY <1>1, <1>3 DEF OneDeed, Traced

\* repair_attempt_projection/1 and repair_observation_projection/3
LEMMA RepairTraced ==
    ASSUME LedgerInv, RecordInv, NEW c \in Caller, NEW a \in Attempt, Repair(c, a)
    PROVE  Traced
<1>1. CASE ~Exists(a)
    <2>1. UNCHANGED <<lock, status, marks, observation, epoch>>
        BY <1>1 DEF Repair, journal
    <2> QED BY <2>1, LeftAlone DEF Traced, RecordInv, OwedHolds, Observed
<1>2. CASE Exists(a)
    <2> DEFINE s == IF Observed(a) /\ status[a] \in Uncertain THEN "observed" ELSE "none"
    <2>1. Owes(c, a, s, History(a) \ events[a])
          /\ UNCHANGED <<status, marks, observation, epoch>>
        BY <1>2 DEF Repair, journal
    <2>2. s \in {"none", "observed"} /\ (s = "observed" => Observed(a))
        OBVIOUS
    <2> HIDE DEF s
    <2>3. lock'.obs = {} /\ (lock'.st # "none" => lock'.att = a /\ Observed(a))
        BY <2>1, <2>2, Owing
    <2>4. OwedHolds'
        BY <2>1, <2>3 DEF OwedHolds, Observed
    <2> QED BY <2>1, <2>4, LeftAlone DEF Traced
<1> QED BY <1>1, <1>2

\* Nothing happens.
LEMMA QuietTraced ==
    ASSUME RecordInv, UNCHANGED <<lock, journal>> PROVE Traced
BY LeftAlone DEF Traced, RecordInv, OwedHolds, Observed, journal

\* record_observation_locked/4
LEMMA ObserveTraced ==
    ASSUME LedgerInv, RecordInv, NEW c \in Caller, NEW a \in Attempt, NEW o \in Observation,
           Observe(c, a, o)
    PROVE  Traced
<1>1. CASE Rejected(a, o)
    BY <1>1, QuietTraced DEF Observe
<1>2. CASE ~Rejected(a, o) /\ Observed(a)
    BY <1>2, RepairTraced DEF Observe
<1>3. CASE ~Rejected(a, o) /\ ~Observed(a)
    <2>1. /\ observation' = [observation EXCEPT ![a] = o]
          /\ Owes(c, a, "observed", {"observation"})
          /\ status' = status /\ marks' = marks /\ epoch' = epoch
        BY <1>3 DEF Observe
    <2>2. observation'[a] = o /\ o # NoObservation
          /\ \A b \in Attempt : b # a => Untouched(b)
        BY <2>1, CallerAssumption DEF LedgerInv, LedgerType, Untouched
    <2>3. Learns(a)
        BY <1>3, <2>1, <2>2 DEF Learns, Rejected, Observable
    <2>4. lock'.obs = {} /\ (lock'.st # "none" => lock'.att = a)
        BY <2>1, Owing
    <2>5. OwedHolds'
        BY <2>2, <2>4 DEF OwedHolds, Observed
    <2> QED BY <2>1, <2>2, <2>3, <2>5 DEF Traced, OneDeed, Deed
<1> QED BY <1>1, <1>2, <1>3

\* mark_indeterminate_locked/3
LEMMA MarkTraced ==
    ASSUME LedgerInv, RecordInv, NEW c \in Caller, NEW a \in Attempt, MarkIndeterminate(c, a)
    PROVE  Traced
<1>1. CASE Observed(a)
    BY <1>1, RepairTraced DEF MarkIndeterminate
<1>2. CASE ~Observed(a) /\ Exists(a) /\ status[a] \in {"dispatching", "cancellation_requested"}
    <2>1. /\ Revise(a, "indeterminate", {"indeterminate"})
          /\ Owes(c, a, "none", {"indeterminate"})
          /\ observation' = observation /\ epoch' = epoch
        BY <1>2 DEF MarkIndeterminate
    <2>2. Revisions(a, "indeterminate", {"indeterminate"}) => Deed(a)
        BY <1>2 DEF Deed, Advances
    <2> QED BY <2>1, <2>2, RevisedOnce
<1>3. CASE ~Observed(a) /\ ~(Exists(a) /\ status[a] \in {"dispatching", "cancellation_requested"})
    BY <1>3, QuietTraced DEF MarkIndeterminate
<1> QED BY <1>1, <1>2, <1>3

\* cancel_locked/3
LEMMA CancelTraced ==
    ASSUME LedgerInv, RecordInv, NEW c \in Caller, NEW a \in Attempt, CancelAttempt(c, a)
    PROVE  Traced
<1>1. CASE Observed(a)
    BY <1>1, RepairTraced DEF CancelAttempt
<1>2. CASE ~Observed(a) /\ Exists(a) /\ status[a] \in {"admitted", "dispatching"}
    <2> DEFINE s == CancelledStatus(a)
               ev == IF s \in Void THEN {"cancelled"} ELSE {s}
    <2>1. /\ Revise(a, s, {"cancellation"})
          /\ Owes(c, a, "none", ev)
          /\ observation' = observation /\ epoch' = epoch
        BY <1>2 DEF CancelAttempt
    <2>2. \/ status[a] = "admitted" /\ s = "cancelled_pre_dispatch"
          \/ status[a] = "dispatching" /\ s = "cancellation_requested"
        BY <1>2 DEF CancelledStatus
    <2> HIDE DEF s, ev
    <2>3. Revisions(a, s, {"cancellation"}) => Deed(a)
        BY <1>2, <2>2 DEF Deed, Advances
    <2> QED BY <2>1, <2>3, RevisedOnce
<1>3. CASE ~Observed(a) /\ ~(Exists(a) /\ status[a] \in {"admitted", "dispatching"})
    BY <1>3, QuietTraced DEF CancelAttempt
<1> QED BY <1>1, <1>2, <1>3

\* A ticket that can still be claimed is of an attempt without records.
LEMMA Unclaimed ==
    ASSUME LedgerInv, RecordInv, NEW a \in Attempt, ValidTicket(a), ~Exists(a)
    PROVE  status[a] = "none" /\ ~Observed(a)
<1>1. status[a] = "none"
    BY Unmade DEF ValidTicket
<1> QED BY <1>1 DEF RecordInv, ObservationHolds, Uncertain

\* cancel_ticket_locked/3, after validate_ticket/1
LEMMA CancelTicketTraced ==
    ASSUME LedgerInv, RecordInv, NEW c \in Caller, NEW a \in Attempt,
           ValidTicket(a), CancelTicket(c, a)
    PROVE  Traced
<1>1. CASE Exists(a) /\ Observed(a)
    BY <1>1, RepairTraced DEF CancelTicket
<1>2. CASE Exists(a) /\ ~Observed(a)
    BY <1>2, QuietTraced DEF CancelTicket
<1>3. CASE ~Exists(a)
    <2>1. /\ Revise(a, "cancelled_before_claim", {"cancellation"})
          /\ Owes(c, a, "none", {"cancelled"})
          /\ observation' = observation /\ epoch' = epoch
        BY <1>3 DEF CancelTicket
    <2>2. Revisions(a, "cancelled_before_claim", {"cancellation"}) => Deed(a)
        BY <1>3, Unclaimed DEF Deed, Claims
    <2> QED BY <2>1, <2>2, RevisedOnce
<1> QED BY <1>1, <1>2, <1>3

\* The first two revisions of an attempt: admit_locked/3 and dispatch_locked/2.
LEMMA AdmitTraced ==
    ASSUME LedgerInv, RecordInv, NEW c \in Caller, NEW a \in Attempt,
           ValidTicket(a), ~Claimed(a), Admit(c, a)
    PROVE  Traced
<1>1. Revisions(a, "admitted", {}) => Deed(a)
    BY Unclaimed DEF Claimed, Deed, Claims
<1> QED BY <1>1, RevisedOnce DEF Admit
LEMMA DispatchTraced ==
    ASSUME LedgerInv, RecordInv, NEW c \in Caller, NEW a \in Attempt,
           status[a] = "admitted", Dispatch(c, a)
    PROVE  Traced
<1>1. ~Observed(a)
    BY DEF RecordInv, ObservationHolds, Uncertain
<1>2. Revisions(a, "dispatching", {}) => Deed(a)
    BY <1>1 DEF Deed, Advances
<1> QED BY <1>2, RevisedOnce DEF Dispatch

\* resolve_indeterminate_locked/3
LEMMA ResolveTraced ==
    ASSUME LedgerInv, RecordInv, NEW c \in Caller, NEW a \in Attempt,
           NEW r \in {"retry_authorized", "abandoned"}, Resolve(c, a, r)
    PROVE  Traced
<1>1. CASE Observed(a)
    BY <1>1, RepairTraced DEF Resolve
<1>2. CASE ~Observed(a) /\ Exists(a) /\ status[a] = "indeterminate"
    <2>1. /\ Revise(a, r, {"resolution"})
          /\ Owes(c, a, "none", {"resolved"})
          /\ observation' = observation /\ epoch' = epoch
        BY <1>2 DEF Resolve
    <2>2. Revisions(a, r, {"resolution"}) => Deed(a)
        BY <1>2 DEF Deed, Advances
    <2> QED BY <2>1, <2>2, RevisedOnce
<1>3. CASE ~Observed(a) /\ ~(Exists(a) /\ status[a] = "indeterminate")
    BY <1>3, QuietTraced DEF Resolve
<1> QED BY <1>1, <1>2, <1>3

\* prune_locked/2 moves the epoch on, or deletes what is over.
LEMMA PruneTraced ==
    ASSUME LedgerInv, RecordInv, NEW c \in Caller, NEW e \in 1..epoch,
           e = epoch => epoch < MaxEpoch, Prune(c, e)
    PROVE  Traced
<1>1. UNCHANGED <<status, marks, observation>>
      /\ epoch' = IF e = epoch THEN epoch + 1 ELSE epoch
    BY DEF Prune
<1>2. lock' = [by |-> c, att |-> First(1), st |-> "none", ev |-> {},
               obs |-> {a \in Prunables(e) : Observed(a)}, gone |-> Prunables(e)]
    BY DEF Prune, OwesDeletion, Free
<1>3. OwedHolds'
    BY <1>1, <1>2 DEF OwedHolds, Observed
<1>4. CASE e = epoch
    <2>1. \A a \in Attempt : a.epoch = epoch => Prunable(status[a]) \/ status[a] = "none"
        BY <1>4, Unmade DEF Prune, Prunables
    <2> QED BY <1>1, <1>3, <1>4, <2>1 DEF Traced, NewEpoch, Untouched
<1>5. CASE e # epoch
    BY <1>1, <1>3, <1>5, LeftAlone DEF Traced
<1> QED BY <1>4, <1>5

\* The journal writes still owed.
LEMMA JournalTraced ==
    ASSUME LedgerInv, RecordInv, Journal PROVE Traced
<1>1. lock \in LockType
    BY DEF LedgerInv, LedgerType
<1>2. CASE WriteStatus
    <2>1. lock.st = "observed" /\ lock.att \in Attempt /\ status[lock.att] \in Uncertain
          /\ Observed(lock.att) /\ lock.obs = {}
        BY <1>1, <1>2 DEF WriteStatus, LockType, LedgerInv, OwedIsObserved, RecordInv, OwedHolds
    <2>2. Revise(lock.att, "observed", {}) /\ observation' = observation /\ epoch' = epoch
          /\ lock' = IF lock.ev = {} THEN Free ELSE [lock EXCEPT !.st = "none"]
        BY <1>2, <2>1 DEF WriteStatus
    <2>3. Revisions(lock.att, "observed", {})
          /\ \A b \in Attempt : b # lock.att => Untouched(b)
        BY <2>1, <2>2 DEF Revise, LedgerInv, LedgerType, Revisions, Untouched
    <2>4. lock'.st = "none" /\ lock'.obs = {}
        BY <1>1, <2>1, <2>2, FreeLock DEF LockType
    <2> QED BY <2>1, <2>2, <2>3, <2>4 DEF Traced, OneDeed, Deed, Confirms, OwedHolds
<1>3. ASSUME NEW i \in DOMAIN Lifecycle, WriteEvent(i) PROVE Traced
    <2>1. UNCHANGED <<status, marks, observation, epoch>> /\ lock.st = "none"
          /\ (lock' = Free \/ lock' = [lock EXCEPT !.ev = @ \ {Lifecycle[i]}])
        BY <1>3 DEF WriteEvent
    <2>2. lock'.st = "none" /\ lock'.obs \subseteq lock.obs /\ (lock'.obs # {} => lock'.gone = lock.gone)
        BY <1>1, <2>1, FreeLock DEF LockType
    <2> QED BY <2>1, <2>2, LeftAlone DEF Traced, RecordInv, OwedHolds, Observed
<1>4. ASSUME NEW a \in Attempt, DeleteObservation(a) PROVE Traced
    <2>1. a \in lock.obs /\ observation' = [observation EXCEPT ![a] = NoObservation]
          /\ lock' = [lock EXCEPT !.obs = @ \ {a}]
          /\ UNCHANGED <<status, marks, epoch>>
        BY <1>4 DEF DeleteObservation
    <2>2. Observed(a) /\ a \in lock.gone /\ lock.st = "none"
        BY <1>1, <2>1 DEF RecordInv, OwedHolds, LockType
    <2>3. a.epoch < epoch /\ status[a] = "observed"
        BY <2>2 DEF LedgerInv, OldAreSettled, RecordInv, ObservationHolds, Uncertain, Void
    <2>4. observation'[a] = NoObservation /\ \A b \in Attempt : b # a => Untouched(b)
        BY <2>1 DEF LedgerInv, LedgerType, Untouched
    <2>5. lock'.st = "none" /\ lock'.obs = lock.obs \ {a} /\ lock'.gone = lock.gone
        BY <1>1, <2>1, <2>2 DEF LockType
    <2>6. \A b \in lock.obs \ {a} : b \in Attempt /\ observation'[b] = observation[b]
        BY <1>1, <2>4 DEF LockType, Untouched
    <2>7. OwedHolds'
        BY <2>5, <2>6 DEF RecordInv, OwedHolds, Observed
    <2> QED BY <2>1, <2>3, <2>4, <2>7 DEF Traced, OneDeed, Deed, Forgets
<1>5. CASE DeleteAttempts
    <2>1. UNCHANGED <<status, marks, observation, epoch>> /\ lock' = Free
        BY <1>5 DEF DeleteAttempts
    <2> QED BY <2>1, FreeLock, LeftAlone DEF Traced, OwedHolds
<1> QED BY <1>2, <1>3, <1>4, <1>5 DEF Journal

\* The journal writes still owed are dropped.
LEMMA DropTraced ==
    ASSUME lock' = Free, UNCHANGED journal PROVE Traced
BY FreeLock, LeftAlone DEF Traced, OwedHolds, journal

\* Every step of the ledger touches the records of one attempt, or the epoch.
LEMMA StepTraced ==
    ASSUME LedgerInv, RecordInv, LedgerStep PROVE Traced
<1>1. ASSUME NEW a \in Attempt, NEW c \in Caller,
             \/ Repair(c, a) \/ MarkIndeterminate(c, a) \/ CancelAttempt(c, a)
             \/ ValidTicket(a) /\ CancelTicket(c, a)
             \/ ValidTicket(a) /\ ~Claimed(a) /\ Admit(c, a)
             \/ status[a] = "admitted" /\ Dispatch(c, a)
      PROVE  Traced
    BY <1>1, RepairTraced, MarkTraced, CancelTraced, CancelTicketTraced, AdmitTraced, DispatchTraced
<1>2. ASSUME NEW a \in Attempt, NEW c \in Caller, NEW o \in Observation, Observe(c, a, o)
      PROVE  Traced
    BY <1>2, ObserveTraced
<1>3. ASSUME NEW a \in Attempt, NEW c \in Caller,
             NEW r \in {"retry_authorized", "abandoned"}, Resolve(c, a, r)
      PROVE  Traced
    BY <1>3, ResolveTraced
<1>4. ASSUME NEW c \in Caller, NEW e \in 1..epoch, e = epoch => epoch < MaxEpoch, Prune(c, e)
      PROVE  Traced
    BY <1>4, PruneTraced
<1>5. CASE Operation
    BY <1>1, <1>2, <1>3, <1>4, <1>5 DEF Operation
<1> QED BY <1>5, QuietTraced, DropTraced, JournalTraced DEF LedgerStep

\* Every step of the system is a step of the ledger, and submits nothing unless an
\* executor crosses the boundary.
LEMMA StepOfLedger ==
    ASSUME Inv, [Next]_vars
    PROVE  LedgerStep /\ (submissions' = submissions \/ \E e \in Executor : Submit(e))
<1>1. CASE Write
    BY <1>1 DEF Write, LedgerStep
<1>2. CASE HostStep
    <2>1. Unlocked /\ submissions' = submissions /\ Host \in Caller
        BY <1>2 DEF HostStep, Caller
    <2>2. ASSUME NEW a \in Attempt, HostStatus(a) \/ CancelAttempt(Host, a) \/ HostResolve(a)
          PROVE  Operation
        BY <2>1, <2>2 DEF HostStatus, HostResolve, Operation
    <2>3. ASSUME NEW e \in 1..epoch, HostPrune(e) PROVE Operation
        BY <2>1, <2>3 DEF HostPrune, Operation
    <2> QED BY <1>2, <2>1, <2>2, <2>3 DEF HostStep, LedgerStep
<1>3. CASE Crash
    BY <1>3 DEF Crash, LedgerStep
<1>4. ASSUME NEW e \in Executor, ExecutorStep(e)
      PROVE  LedgerStep /\ (submissions' = submissions \/ Submit(e))
    <2> DEFINE a == target[e]
    <2>1. e \in Caller /\ a \in Attempt
        BY TargetIsAttempt
    <2>2. CASE Prepare(e)
        <3>1. Unlocked /\ submissions' = submissions
            BY <2>2 DEF Prepare, At
        <3>2. ASSUME NEW b \in Attempt, Decide(e, b) PROVE Operation
            BY <2>1, <3>2 DEF Decide, Operation
        <3> QED BY <2>2, <3>1, <3>2 DEF Prepare, LedgerStep
    <2>3. CASE AdmitTicket(e)
        BY <2>1, <2>3 DEF AdmitTicket, At, LedgerStep, Operation
    <2>4. CASE DispatchAttempt(e)
        BY <2>1, <2>4 DEF DispatchAttempt, At, LedgerStep, Operation
    <2>5. CASE Submit(e)
        BY <2>5 DEF Submit, LedgerStep
    <2>6. CASE SubmitReply(e)
        <3>1. Unlocked /\ submissions' = submissions
            BY <2>6 DEF SubmitReply
        <3>2. Operation \/ UNCHANGED <<lock, journal>>
            BY <2>1, <2>6 DEF SubmitReply, Operation
        <3> QED BY <3>1, <3>2 DEF LedgerStep
    <2>7. CASE RecordResult(e)
        BY <2>1, <2>7 DEF RecordResult, At, LedgerStep, Operation
    <2>8. CASE Reconcile(e)
        <3>1. Unlocked /\ submissions' = submissions
            BY <2>8 DEF Reconcile, At
        <3>2. Operation \/ UNCHANGED <<lock, journal>>
            BY <2>1, <2>8 DEF Reconcile, Operation
        <3> QED BY <3>1, <3>2 DEF LedgerStep
    <2>9. CASE Interrupt(e) \/ Unwind(e)
        BY <2>9 DEF Interrupt, Unwind, LedgerStep
    <2>10. CASE InterruptLedger(e)
        <3>1. submissions' = submissions /\ UNCHANGED journal /\ lock' \in {lock, Free}
            BY <2>10 DEF InterruptLedger
        <3> QED BY <3>1 DEF LedgerStep
    <2>11. CASE CancelStatus(e)
        BY <2>1, <2>11 DEF CancelStatus, At, LedgerStep, Operation
    <2>12. CASE CancelUnclaimed(e)
        BY <2>1, <2>12 DEF CancelUnclaimed, At, LedgerStep, Operation
    <2>13. CASE CancelClaimed(e)
        BY <2>1, <2>13 DEF CancelClaimed, At, LedgerStep, Operation
    <2>14. CASE CancelReply(e)
        <3>1. Unlocked /\ submissions' = submissions
            BY <2>14 DEF CancelReply, At
        <3>2. Operation \/ UNCHANGED <<lock, journal>>
            BY <2>1, <2>14 DEF CancelReply, Operation
        <3> QED BY <3>1, <3>2 DEF LedgerStep
    <2>15. ASSUME NEW b \in Attempt, Inspect(e, b)
           PROVE  LedgerStep /\ submissions' = submissions
        BY <2>1, <2>15 DEF Inspect, At, LedgerStep, Operation
    <2>16. ASSUME NEW b \in Attempt, NEW m \in Mode, PrepareChild(e, b, m)
           PROVE  LedgerStep /\ submissions' = submissions
        <3>1. Unlocked /\ submissions' = submissions /\ Len(b.path) < MaxRetries
            BY <2>16 DEF PrepareChild, At
        <3>2. Child(b, m) \in Attempt
            BY <3>1, ChildIsAttempt
        <3>3. Decide(e, Child(b, m)) => Operation
            BY <2>1, <3>2 DEF Decide, Operation
        <3> QED BY <2>16, <3>1, <3>3 DEF PrepareChild, LedgerStep
    <2> QED BY <1>4, <2>2, <2>3, <2>4, <2>5, <2>6, <2>7, <2>8, <2>9, <2>10, <2>11, <2>12,
               <2>13, <2>14, <2>15, <2>16 DEF ExecutorStep
<1>5. CASE UNCHANGED vars
    BY <1>5 DEF vars, LedgerStep
<1> QED BY <1>1, <1>2, <1>3, <1>4, <1>5 DEF Next

\* A step touches the records so that the invariant holds of them again.
LEMMA RecordsKept ==
    ASSUME LedgerInv, RecordInv, Traced PROVE RecordInv'
<1>1. epoch \in Nat /\ \A a \in Attempt : a.epoch \in Nat
    BY EpochOfAttempt, BoundAssumption DEF LedgerInv, LedgerType
<1>2. \A a \in Attempt : marks[a] \in SUBSET Mark
    BY DEF LedgerInv, LedgerType
<1>3. CASE OneDeed
    <2>1. PICK a \in Attempt : Deed(a) /\ \A b \in Attempt : b # a => Untouched(b)
        BY <1>3 DEF OneDeed
    <2>2. epoch' = epoch
        BY <1>3 DEF OneDeed
    <2>3. /\ Observed(a)' => status'[a] \in Uncertain \cup {"observed"}
          /\ a.epoch = epoch /\ status'[a] = "observed" => Observed(a)'
          /\ a.epoch > epoch => status'[a] = "none"
        <3>1. CASE Untouched(a)
            BY <3>1 DEF RecordInv, ObservationHolds, Untouched, Observed
        <3>2. CASE Learns(a) \/ Confirms(a)
            BY <3>2 DEF RecordInv, ObservationHolds, Learns, Confirms, Revisions, Observed, Uncertain
        <3>3. CASE Forgets(a)
            BY <1>1, <3>3 DEF Forgets, Observed
        <3>4. CASE ~Observed(a) /\ Claims(a)
            BY <1>1, <3>4 DEF Claims, Revisions, Observed, ValidTicket
        <3>5. CASE ~Observed(a) /\ Advances(a)
            BY <1>1, <3>5 DEF RecordInv, ObservationHolds, Advances, Revisions, Observed
        <3> QED BY <2>1, <3>1, <3>2, <3>3, <3>4, <3>5 DEF Deed
    <2>4. /\ "indeterminate" \in marks'[a] =>
             status'[a] \in {"indeterminate", "retry_authorized", "abandoned", "observed"}
          /\ "resolution" \in marks'[a] =>
             status'[a] \in {"retry_authorized", "abandoned", "observed"}
        <3>1. CASE Untouched(a) \/ Learns(a) \/ Forgets(a)
            BY <3>1 DEF RecordInv, MarksHold, Untouched, Learns, Forgets
        <3>2. CASE Confirms(a) \/ Claims(a)
            BY <3>2 DEF RecordInv, MarksHold, Confirms, Claims, Revisions
        <3>3. CASE Advances(a)
            BY <3>3 DEF RecordInv, MarksHold, Advances, Revisions
        <3> QED BY <2>1, <3>1, <3>2, <3>3 DEF Deed
    <2>5. ObservationHolds'
        BY <2>1, <2>2, <2>3 DEF RecordInv, ObservationHolds, Untouched, Observed
    <2>6. MarksHold'
        BY <2>1, <2>4 DEF RecordInv, MarksHold, Untouched
    <2> QED BY <2>5, <2>6 DEF Traced, RecordInv
<1>4. CASE NewEpoch
    <2>1. ObservationHolds'
        <3>1. epoch' = epoch + 1
            BY <1>4 DEF NewEpoch
        <3>2. \A a \in Attempt : a.epoch = epoch' \/ a.epoch > epoch' => a.epoch > epoch
            BY <1>1, <3>1
        <3> QED BY <1>4, <3>2 DEF NewEpoch, RecordInv, ObservationHolds, Untouched, Observed
    <2>2. MarksHold'
        BY <1>4 DEF NewEpoch, RecordInv, MarksHold, Untouched
    <2> QED BY <2>1, <2>2 DEF Traced, RecordInv
<1> QED BY <1>3, <1>4 DEF Traced

\* The records are in order in every reachable state.
LEMMA RecordInvariance == Spec => [](Inv /\ RecordInv)
<1>1. Init => Inv /\ RecordInv
    <2> SUFFICES ASSUME Init PROVE Inv /\ RecordInv
        OBVIOUS
    <2>1. Inv
        BY InitInv
    <2>2. ObservationHolds /\ MarksHold
        BY DEF Init, LedgerInit, ObservationHolds, MarksHold, Observed
    <2>3. OwedHolds
        BY FreeLock DEF Init, LedgerInit, OwedHolds
    <2> QED BY <2>1, <2>2, <2>3 DEF RecordInv
<1>2. Inv /\ RecordInv /\ [Next]_vars => (Inv /\ RecordInv)'
    <2> SUFFICES ASSUME Inv, RecordInv, [Next]_vars PROVE (Inv /\ RecordInv)'
        OBVIOUS
    <2>1. Inv' /\ LedgerInv
        BY NextInv DEF Inv
    <2>2. Traced
        BY <2>1, StepOfLedger, StepTraced
    <2> QED BY <2>1, <2>2, RecordsKept
<1> QED BY <1>1, <1>2, PTL DEF Spec

\* record_observation_locked/4 journals the observation before the revision that
\* says so, and prune_locked/2 moves the epoch on before it deletes one: whatever
\* crashes, an attempt of this epoch that says observed can be replayed.
THEOREM ObservedCanBeReplayed == Spec => []ObservedHasObservation
<1>1. RecordInv => ObservedHasObservation
    BY DEF RecordInv, ObservationHolds, ObservedHasObservation
<1> QED BY <1>1, RecordInvariance, PTL

\* repair_attempt_projection/1 and repair_observation_projection/3 find all that
\* happened to an attempt in its last revision, its marks and its observation,
\* whichever events a crash or an interrupt left unwritten.
THEOREM NothingIsForgotten == Spec => []HistoryIsRecoverable
<1>1. Inv /\ RecordInv => HistoryIsRecoverable
    <2> SUFFICES ASSUME Inv, RecordInv, NEW a \in Attempt, NEW x \in Happened(a)
                 PROVE  x \in History(a)
        BY DEF HistoryIsRecoverable
    <2>1. submissions[a] \in Nat /\ status[a] \in Status
        BY DEF Inv, LedgerInv, LedgerType, ExecutorType
    <2>2. CASE submissions[a] > 0 /\ x \in {"admitted", "dispatched"}
        <3>1. status[a] \in Uncertain \cup {"observed", "abandoned"}
            BY <2>1, <2>2 DEF Inv, Unsubmitted, Status, Uncertain, Void
        <3> QED BY <2>2, <3>1 DEF History, Projection, Uncertain
    <2>3. CASE Observed(a) /\ x = "observation"
        BY <2>3 DEF History
    <2>4. CASE "indeterminate" \in marks[a] /\ x = "indeterminate"
        BY <2>4 DEF RecordInv, MarksHold, History, Projection
    <2>5. CASE "resolution" \in marks[a] /\ x = "resolved"
        BY <2>5 DEF RecordInv, MarksHold, History, Projection
    <2>6. CASE "cancellation" \in marks[a] /\ status[a] \in Void /\ x = "cancelled"
        <3>1. ~Observed(a)
            BY <2>6 DEF RecordInv, ObservationHolds, Uncertain, Void
        <3> QED BY <2>6, <3>1 DEF History, Projection
    <2>7. CASE "cancellation" \in marks[a] /\ status[a] \notin Void /\ x = "cancellation_requested"
        BY <2>7 DEF History, Projection, Void
    <2> QED BY <2>2, <2>3, <2>4, <2>5, <2>6, <2>7 DEF Happened
<1> QED BY <1>1, RecordInvariance, PTL

-----------------------------------------------------------------------------
(* The ledger and its executors implement Effects.                         *)

\* What is known of an attempt, and what crossed the boundary.
Stages == [a \in Attempt |-> Stage(a)]
Crossed == {a \in Attempt : submissions[a] > 0}

\* The stage of an attempt, by its status and its observation.
LEMMA StageOf ==
    ASSUME NEW a \in Attempt
    PROVE  /\ Observed(a) \/ status[a] = "observed" => Stage(a) = "known"
           /\ ~Observed(a) =>
                 /\ status[a] = "none" => Stage(a) = "new"
                 /\ status[a] = "admitted" => Stage(a) = "claimed"
                 /\ status[a] \in Void => Stage(a) = "void"
                 /\ status[a] = "retry_authorized" => Stage(a) = "licensed"
                 /\ status[a] = "abandoned" => Stage(a) = "abandoned"
                 /\ status[a] \in {"dispatching", "cancellation_requested", "indeterminate"} =>
                       Stage(a) = "open"
BY DEF Stage, Void

\* An attempt whose stage does not change.
LEMMA StageKept ==
    ASSUME NEW a \in Attempt, status'[a] = status[a], observation'[a] = observation[a]
    PROVE  Stage(a)' = Stage(a)
BY DEF Stage, Observed

\* A change of one attempt's stage is a change of the abstract function.
LEMMA StageMoved ==
    ASSUME NEW a \in Attempt, \A b \in Attempt : b # a => Stage(b)' = Stage(b),
           submissions' = submissions, epoch' = epoch
    PROVE  /\ Stages' = [Stages EXCEPT ![a] = Stage(a)']
           /\ Crossed' = Crossed /\ Stages[a] = Stage(a)
           /\ Stage(a)' = Stage(a) => Stages' = Stages
BY DEF Stages, Crossed

\* A ticket that is valid names an attempt that Effects may make.
LEMMA TicketIsCurrent ==
    ASSUME NEW a \in Attempt, ValidTicket(a) PROVE Promise!Current(a)
<1>1. \A p \in Parents(a) : p \in Attempt /\ Stage(p) \in {"known", "licensed", "void"}
    BY StageOf DEF ValidTicket, Licensed, Parents
<1> QED BY <1>1 DEF ValidTicket, Promise!Current

\* A step that submits nothing.
LEMMA DeedsRefine ==
    ASSUME LedgerInv, RecordInv, Traced, submissions' = submissions
    PROVE  Promise!Next \/ UNCHANGED Promise!effects
<1>1. CASE OneDeed
    <2>1. PICK a \in Attempt : Deed(a) /\ \A b \in Attempt : b # a => Untouched(b)
        BY <1>1 DEF OneDeed
    <2>2. epoch' = epoch
        BY <1>1 DEF OneDeed
    <2>3. \A b \in Attempt : b # a => Stage(b)' = Stage(b)
        BY <2>1, StageKept DEF Untouched
    <2>4. /\ Stages' = [Stages EXCEPT ![a] = Stage(a)']
          /\ Crossed' = Crossed /\ Stages[a] = Stage(a)
          /\ Stage(a)' = Stage(a) => Stages' = Stages
        BY <2>2, <2>3, StageMoved
    <2>5. Stage(a)' = Stage(a) => UNCHANGED Promise!effects
        BY <2>2, <2>4 DEF Promise!effects, Stages, Crossed
    <2>6. CASE Untouched(a) \/ Forgets(a)
        <3>1. Stage(a)' = Stage(a)
            BY <2>6, StageKept, StageOf DEF Untouched, Forgets, Stage
        <3> QED BY <2>5, <3>1
    <2>7. CASE Confirms(a)
        <3>1. Stage(a)' = "known" /\ Stage(a) = "known"
            BY <2>7 DEF Confirms, Revisions, Stage
        <3> QED BY <2>5, <3>1
    <2>8. CASE Learns(a)
        <3>1. Stage(a)' = "known"
            BY <2>8 DEF Learns, Stage, Observed
        <3>2. Stage(a) \in {"known", "open", "licensed"}
            BY <2>8, StageOf DEF Learns, Uncertain
        <3>3. CASE Stage(a) = "known"
            BY <2>5, <3>1, <3>3
        <3>4. CASE Stage(a) # "known"
            <4>1. Promise!Know(a)
                BY <2>2, <2>4, <3>1, <3>2, <3>4 DEF Promise!Know, Promise!Become, Stages, Crossed
            <4> QED BY <4>1 DEF Promise!Next
        <3> QED BY <3>3, <3>4
    <2>9. CASE ~Observed(a) /\ Claims(a)
        <3>1. Promise!Current(a) /\ Stage(a) = "new"
            BY <2>9, TicketIsCurrent, StageOf DEF Claims
        <3>2. Stage(a)' \in {"claimed", "void"}
            BY <2>9 DEF Claims, Revisions, Observed, Stage, Void
        <3>3. Promise!Claim(a) \/ Promise!Withdraw(a)
            BY <2>2, <2>4, <3>1, <3>2
            DEF Promise!Claim, Promise!Withdraw, Promise!Become, Stages, Crossed
        <3> QED BY <3>3 DEF Promise!Next
    <2>10. CASE ~Observed(a) /\ Advances(a)
        <3>1. \/ Stage(a)' = Stage(a)
              \/ Stage(a) = "claimed" /\ Stage(a)' \in {"open", "void"}
              \/ Stage(a) = "open" /\ Stage(a)' \in {"licensed", "abandoned"}
            BY <2>10 DEF Advances, Revisions, Observed, Stage, Void
        <3>2. CASE Stage(a) = "claimed" /\ Stage(a)' \in {"open", "void"}
            <4>1. Promise!Open(a) \/ Promise!CancelClaim(a)
                BY <2>2, <2>4, <3>2 DEF Promise!Open, Promise!CancelClaim, Promise!Become, Stages, Crossed
            <4> QED BY <4>1 DEF Promise!Next
        <3>3. CASE Stage(a) = "open" /\ Stage(a)' \in {"licensed", "abandoned"}
            <4>1. Promise!License(a) \/ Promise!Abandon(a)
                BY <2>2, <2>4, <3>3 DEF Promise!License, Promise!Abandon, Promise!Become, Stages, Crossed
            <4> QED BY <4>1 DEF Promise!Next
        <3> QED BY <2>5, <3>1, <3>2, <3>3
    <2> QED BY <2>1, <2>6, <2>7, <2>8, <2>9, <2>10 DEF Deed
<1>2. CASE NewEpoch
    <2>1. \A a \in Attempt : Stage(a)' = Stage(a)
        BY <1>2, StageKept DEF NewEpoch, Untouched
    <2>2. Stages' = Stages /\ Crossed' = Crossed
        BY <2>1 DEF Stages, Crossed
    <2>3. ASSUME NEW a \in Attempt, a.epoch = epoch PROVE Stage(a) \in Promise!Settled \cup {"new"}
        <3>1. Prunable(status[a]) \/ status[a] = "none"
            BY <1>2, <2>3 DEF NewEpoch
        <3> QED BY <3>1, StageOf DEF Prunable, Promise!Settled
    <2>4. Promise!Restart
        BY <1>2, <2>2, <2>3 DEF NewEpoch, Promise!Restart, Stages, Crossed
    <2> QED BY <2>4 DEF Promise!Next
<1> QED BY <1>1, <1>2 DEF Traced

\* An executor crosses the boundary.
LEMMA SubmitRefines ==
    ASSUME Inv, RecordInv, NEW e \in Executor, Submit(e) PROVE Promise!Next
<1> PICK a \in Attempt : a = target[e]
    BY TargetIsAttempt
<1>1. pc[e] = "dispatched"
    BY DEF Submit
<1>2. submissions[a] = 0 /\ status[a] \in Uncertain \cup {"observed", "abandoned"}
    BY <1>1 DEF Inv, OwnerHolds, Owner
<1>3. submissions' = [submissions EXCEPT ![a] = @ + 1] /\ UNCHANGED journal
    BY DEF Submit
<1>4. submissions'[a] = 1 /\ \A b \in Attempt : b # a => submissions'[b] = submissions[b]
    BY <1>1, <1>2, <1>3 DEF Inv, ExecutorType
<1>5. a \notin Crossed /\ Crossed' = Crossed \cup {a}
    BY <1>1, <1>2, <1>4 DEF Crossed
<1>6. Stages' = Stages /\ epoch' = epoch
    BY <1>3, StageKept DEF Stages, journal
<1>7. Stage(a) \in {"open", "known", "licensed", "abandoned"}
    BY <1>1, <1>2, StageOf DEF Uncertain
<1>8. Promise!Cross(a)
    BY <1>1, <1>5, <1>6, <1>7 DEF Promise!Cross, Stages, Crossed
<1> QED BY <1>8 DEF Promise!Next

\* The ledger and its executors implement Effects: every step of theirs is one of
\* its steps, or changes nothing that it tells apart.
THEOREM LedgerKeepsEffects == Spec => KeepsEffects
<1>1. Init => Promise!Init
    <2> SUFFICES ASSUME Init PROVE Promise!Init
        OBVIOUS
    <2>1. \A a \in Attempt : Stage(a) = "new" /\ ~(submissions[a] > 0)
        BY StageOf DEF Init, LedgerInit, Observed
    <2>2. epoch = 1
        BY DEF Init, LedgerInit
    <2> QED BY <2>1, <2>2 DEF Promise!Init
<1>2. Inv /\ RecordInv /\ [Next]_vars => [Promise!Next]_(Promise!effects)
    <2> SUFFICES ASSUME Inv, RecordInv, [Next]_vars
                 PROVE  Promise!Next \/ UNCHANGED Promise!effects
        OBVIOUS
    <2>1. LedgerStep /\ (submissions' = submissions \/ \E e \in Executor : Submit(e))
        BY StepOfLedger
    <2>2. LedgerInv /\ Traced
        BY <2>1, StepTraced DEF Inv
    <2> QED BY <2>1, <2>2, DeedsRefine, SubmitRefines
<1> QED BY <1>1, <1>2, RecordInvariance, PTL DEF Spec, KeepsEffects, Promise!Spec
=============================================================================
