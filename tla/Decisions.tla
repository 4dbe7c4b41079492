----------------------------- MODULE Decisions -----------------------------
(***************************************************************************)
(* What the authority runtime promises of the operations it holds for      *)
(* approval.  The continuation of an operation is called at most once, and *)
(* only by an execution that claimed it while the approval stood: one that *)
(* was denied, superseded, cancelled or cleared before the claim is never  *)
(* carried out.  Whoever waits for the outcome is answered after the       *)
(* operation is closed, and once.                                          *)
(***************************************************************************)
EXTENDS Naturals

CONSTANTS Approval, Answer

VARIABLES
    verdict,    \* where an operation stands
    licensed,   \* claimed, and its continuation not yet called
    calls,      \* how often its continuation was called
    answer      \* what its waiters are told

decisions == <<verdict, licensed, calls, answer>>

Verdict == {"none", "pending", "approved", "claimed", "closed"}

Judge(a, from, to) ==
    /\ verdict[a] = from
    /\ verdict' = [verdict EXCEPT ![a] = to]

Propose(a) ==
    /\ Judge(a, "none", "pending")
    /\ answer' = [answer EXCEPT ![a] = "pending"]
    /\ UNCHANGED <<licensed, calls>>

Approve(a) == Judge(a, "pending", "approved") /\ UNCHANGED <<licensed, calls, answer>>

Claim(a) ==
    /\ Judge(a, "approved", "claimed")
    /\ licensed' = licensed \cup {a}
    /\ UNCHANGED <<calls, answer>>

Call(a) ==
    /\ a \in licensed
    /\ licensed' = licensed \ {a}
    /\ calls' = [calls EXCEPT ![a] = @ + 1]
    /\ UNCHANGED <<verdict, answer>>

Lapse(a) == a \in licensed /\ licensed' = licensed \ {a} /\ UNCHANGED <<verdict, calls, answer>>

Standing(v) == {a \in Approval : verdict[a] \in v}

\* Some operations are closed, for any reason; an edit proposes another instead.
Close(S, edited) ==
    /\ verdict' = [a \in Approval |-> IF a \in S THEN "closed"
                                      ELSE IF a \in edited THEN "pending" ELSE verdict[a]]
    /\ answer' = [a \in Approval |-> IF a \in edited THEN "pending" ELSE answer[a]]
    /\ UNCHANGED <<licensed, calls>>

\* The waiters of a closed operation are answered, and old answers are dropped.
Tell(a, w, S) ==
    /\ answer' = [b \in Approval |-> IF b \in S THEN "destroyed"
                                     ELSE IF b = a /\ answer[a] = "pending" THEN w
                                     ELSE answer[b]]
    /\ UNCHANGED <<verdict, licensed, calls>>

Init ==
    /\ verdict = [a \in Approval |-> "none"]
    /\ licensed = {}
    /\ calls = [a \in Approval |-> 0]
    /\ answer = [a \in Approval |-> "none"]

Next ==
    \/ \E a \in Approval : Propose(a) \/ Approve(a) \/ Claim(a) \/ Call(a) \/ Lapse(a)
    \/ \E a \in Standing({"closed"}), w \in Answer, S \in SUBSET Standing({"closed"}) : Tell(a, w, S)
    \/ \E S \in SUBSET Standing({"pending", "approved", "claimed"}),
          edited \in SUBSET Standing({"none"}) : Close(S, edited)

Spec == Init /\ [][Next]_decisions
=============================================================================
