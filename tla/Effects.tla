------------------------------ MODULE Effects ------------------------------
(***************************************************************************)
(* What the effect ledger and its executor promise of the attempts to      *)
(* carry an operation across an external boundary, whatever crashes,       *)
(* interrupts and races do.  It crosses at most once per attempt; what is  *)
(* open stays in doubt until it is known or the host settles it, a later   *)
(* answer still being accepted where a retry was authorized; a retry needs *)
(* a parent that is settled; and the operation starts afresh, in a new     *)
(* epoch, once every attempt of the last one is.                           *)
(***************************************************************************)
EXTENDS Naturals

CONSTANTS
    Attempt,        \* attempts, [epoch, path]
    Parents(_),     \* the parent of an attempt, if it has one
    MaxEpoch

VARIABLES
    stage,          \* what is known of an attempt
    crossed,        \* attempts that crossed the boundary
    epoch

effects == <<stage, crossed, epoch>>

Stage == {"new", "claimed", "open", "known", "licensed", "abandoned", "void"}
Settled == {"known", "abandoned", "void"}

Become(a, from, to) ==
    /\ stage[a] \in from
    /\ stage' = [stage EXCEPT ![a] = to]
    /\ UNCHANGED <<crossed, epoch>>

Current(a) ==
    /\ a.epoch = epoch
    /\ \A p \in Parents(a) : stage[p] \in {"known", "licensed", "void"}

Claim(a) == Current(a) /\ Become(a, {"new"}, "claimed")
Withdraw(a) == Current(a) /\ Become(a, {"new"}, "void")
CancelClaim(a) == Become(a, {"claimed"}, "void")
Open(a) == Become(a, {"claimed"}, "open")
Know(a) == Become(a, {"open", "licensed"}, "known")
License(a) == Become(a, {"open"}, "licensed")
Abandon(a) == Become(a, {"open"}, "abandoned")

Cross(a) ==
    /\ a \notin crossed /\ stage[a] \in {"open", "known", "licensed", "abandoned"}
    /\ crossed' = crossed \cup {a}
    /\ UNCHANGED <<stage, epoch>>

Restart ==
    /\ epoch < MaxEpoch
    /\ \A a \in Attempt : a.epoch = epoch => stage[a] \in Settled \cup {"new"}
    /\ epoch' = epoch + 1
    /\ UNCHANGED <<stage, crossed>>

Init == stage = [a \in Attempt |-> "new"] /\ crossed = {} /\ epoch = 1

Next ==
    \/ Restart
    \/ \E a \in Attempt :
          \/ Claim(a) \/ Withdraw(a) \/ CancelClaim(a) \/ Open(a) \/ Know(a)
          \/ License(a) \/ Abandon(a) \/ Cross(a)

Spec == Init /\ [][Next]_effects
=============================================================================
