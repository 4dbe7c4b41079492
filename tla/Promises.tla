------------------------------ MODULE Promises ------------------------------
(***************************************************************************)
(* What the Futures of prolog/rlm_async.pl promise their callers: a Future *)
(* is opened once and settled at most once, for good, and a callback       *)
(* registered on it is called at most once, after that, with exactly that  *)
(* outcome, no matter who cancels, rejects, resolves or destroys what.     *)
(***************************************************************************)
CONSTANTS Future, Nobody, Callback, Outcome

VARIABLES
    settled,    \* "none" before the Future exists, "open", or its outcome
    registered, \* the Future a callback is registered on, Nobody before
    delivered   \* the outcome a callback was called with, "never" before

Init ==
    /\ settled = [f \in Future |-> "none"]
    /\ registered = [c \in Callback |-> Nobody]
    /\ delivered = [c \in Callback |-> "never"]

Open(f) ==
    /\ settled[f] = "none"
    /\ settled' = [settled EXCEPT ![f] = "open"]
    /\ UNCHANGED <<registered, delivered>>

Settle(f, o) ==
    /\ settled[f] = "open"
    /\ settled' = [settled EXCEPT ![f] = o]
    /\ UNCHANGED <<registered, delivered>>

Register(c, f) ==
    /\ registered[c] = Nobody /\ settled[f] # "none"
    /\ registered' = [registered EXCEPT ![c] = f]
    /\ UNCHANGED <<settled, delivered>>

Deliver(c) ==
    /\ registered[c] # Nobody /\ delivered[c] = "never"
    /\ settled[registered[c]] \in Outcome
    /\ delivered' = [delivered EXCEPT ![c] = settled[registered[c]]]
    /\ UNCHANGED <<settled, registered>>

Next ==
    \/ \E f \in Future : Open(f) \/ \E o \in Outcome : Settle(f, o)
    \/ \E c \in Callback : Deliver(c) \/ \E f \in Future : Register(c, f)

Spec == Init /\ [][Next]_<<settled, registered, delivered>>
=============================================================================
