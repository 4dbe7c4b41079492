--------------------------- MODULE AuthorityModes ---------------------------
(***************************************************************************)
(* The authority modes of prolog/rlm_authority.pl and the decision made of *)
(* an operation that is not a read: the host selects modes, an agent       *)
(* runtime derives the mode of a child context from its parent's in two    *)
(* critical sections, and callers are told to execute, to replay what a    *)
(* single-use execution returned, to wait for it, or to ask for approval.  *)
(* What becomes of an approval is module Approvals; AuthorityProofs        *)
(* extends both, which is why this one calls its specification ModesSpec.  *)
(***************************************************************************)
EXTENDS Naturals, FiniteSets

CONSTANTS
    Root, Child,    \* an authority context, and one derived from it
    Caller,         \* threads that authorize and execute operations
    Operation,      \* exact fingerprints
    Nobody

ASSUME ContextAssumption == Root # Child
ASSUME CallerAssumption == Nobody \notin Caller

VARIABLES
    mode,       \* authority_mode/2
    once,       \* authority_once/4: none, started or completed
    owner,      \* the caller that started it (not in the fact)
    saved,      \* the caller whose outcome the fact holds
    phase, context, operation, \* each caller: what it is doing, for what
    wanted      \* the mode a child is about to get

decided == <<mode, once, owner, saved>>
call == <<phase, context, operation, wanted>>
modesVars == <<decided, call>>

Context == {Root, Child}
Mode == {"approve_diff", "allow_once", "allow_session", "dangerous"}

\* mode_rank/2
Rank == [m \in Mode |-> CASE m = "approve_diff" -> 0 [] m = "allow_once" -> 1
                          [] m = "allow_session" -> 2 [] m = "dangerous" -> 3]

\* current_mode_locked/2
Current(c) == IF mode[c] = "unset" THEN "approve_diff" ELSE mode[c]

\* The context forgets its single use; a new mode gives another.
Reset(c, m) ==
    /\ mode' = [mode EXCEPT ![c] = m]
    /\ once' = [once EXCEPT ![c] = [f \in Operation |-> "none"]]
    /\ owner' = [owner EXCEPT ![c] = [f \in Operation |-> Nobody]]
    /\ saved' = [saved EXCEPT ![c] = [f \in Operation |-> Nobody]]

Start(t, p, c, f) ==
    /\ phase' = [phase EXCEPT ![t] = p]
    /\ context' = [context EXCEPT ![t] = c]
    /\ operation' = [operation EXCEPT ![t] = f]

EndCall(t) == phase' = [phase EXCEPT ![t] = "idle"] /\ UNCHANGED <<context, operation, wanted>>

\* set_if_unset_locked/3
SetIfUnset(c, m) ==
    /\ mode[c] = "unset"
    /\ mode' = [mode EXCEPT ![c] = m]
    /\ UNCHANGED <<once, owner, saved, call>>

\* Mutant: what was used of an earlier mode is kept.
SetKeepingOnce(c, m) ==
    /\ mode' = [mode EXCEPT ![c] = m]
    /\ UNCHANGED <<once, owner, saved, call>>

\* set_authority_locked/3
SetAuthority(c, m) == Reset(c, m) /\ UNCHANGED call

\* clear_context_locked/2, as far as modes go.
ClearAuthority(c) == Reset(c, "unset") /\ UNCHANGED call

\* rlm_authority_child/4 reads the mode of the parent, and rlm_authority_narrow/3
\* refuses what is wider.
ReadParent(t, m) ==
    /\ phase[t] = "idle"
    /\ Rank[m] <= Rank[Current(Root)]
    /\ phase' = [phase EXCEPT ![t] = "narrowed"]
    /\ wanted' = [wanted EXCEPT ![t] = m]
    /\ UNCHANGED <<decided, context, operation>>

\* child_after_narrow/3, in a critical section of its own.
InstallChild(t) ==
    /\ phase[t] = "narrowed"
    /\ Reset(Child, wanted[t])
    /\ EndCall(t)

\* nonread_decision_locked/3.  A completed execution is replayed, one that is under
\* way is reported, and a request for approval is created: the call returns.
Decide(t, c, f) ==
    /\ phase[t] = "idle"
    /\ \/ /\ once[c][f] = "none" /\ Current(c) = "allow_once"
          /\ mode' = [mode EXCEPT ![c] = "approve_diff"]
          /\ once' = [once EXCEPT ![c][f] = "started"]
          /\ owner' = [owner EXCEPT ![c][f] = t]
          /\ Start(t, "permitted once", c, f)
          /\ UNCHANGED saved
       \/ /\ once[c][f] = "none" /\ Current(c) \in {"allow_session", "dangerous"}
          /\ Start(t, "permitted", c, f)
          /\ UNCHANGED decided
    /\ UNCHANGED wanted

\* rlm_authority_complete_once/3, after a permitted execution returned.
CompleteOnce(t) ==
    LET c == context[t] f == operation[t] IN
    /\ phase[t] = "permitted once"
    /\ \/ /\ once[c][f] = "started"
          /\ once' = [once EXCEPT ![c][f] = "completed"]
          /\ saved' = [saved EXCEPT ![c][f] = t]
       \/ once[c][f] # "started" /\ UNCHANGED <<once, saved>>
    /\ EndCall(t)
    /\ UNCHANGED <<mode, owner>>

\* Another permitted execution returns; or any is cancelled, and does not complete.
EndPermitted(t) ==
    /\ phase[t] \in {"permitted", "permitted once"}
    /\ EndCall(t)
    /\ UNCHANGED decided

ModesInit ==
    /\ mode = [c \in Context |-> "unset"]
    /\ once = [c \in Context |-> [f \in Operation |-> "none"]]
    /\ owner = [c \in Context |-> [f \in Operation |-> Nobody]]
    /\ saved = [c \in Context |-> [f \in Operation |-> Nobody]]
    /\ phase = [t \in Caller |-> "idle"]
    /\ context = [t \in Caller |-> Root]
    /\ operation \in {[t \in Caller |-> f] : f \in Operation}
    /\ wanted = [t \in Caller |-> "approve_diff"]

ModesNext ==
    \/ \E c \in Context :
          \/ ClearAuthority(c)
          \/ \E m \in Mode : SetIfUnset(c, m) \/ SetAuthority(c, m)
    \/ \E t \in Caller :
          \/ InstallChild(t) \/ CompleteOnce(t) \/ EndPermitted(t)
          \/ \E m \in Mode : ReadParent(t, m)
          \/ \E c \in Context, f \in Operation : Decide(t, c, f)

ModesSpec == ModesInit /\ [][ModesNext]_modesVars

-----------------------------------------------------------------------------
(* Properties.                                                             *)

\* Every context has a mode and every caller a call.
ModesTypeOK ==
    /\ mode \in [Context -> Mode \cup {"unset"}]
    /\ once \in [Context -> [Operation -> {"none", "started", "completed"}]]
    /\ owner \in [Context -> [Operation -> Caller \cup {Nobody}]]
    /\ saved \in [Context -> [Operation -> Caller \cup {Nobody}]]
    /\ phase \in [Caller -> {"idle", "narrowed", "permitted", "permitted once"}]
    /\ context \in [Caller -> Context]
    /\ operation \in [Caller -> Operation]
    /\ wanted \in [Caller -> Mode]

\* One grant of allow_once permits one execution: when it has been used, it was used
\* for one operation, and the context is back at approve_diff until a host or the
\* runtime sets it again, which forgets the use.  So a use never hides a mode that
\* permits the operation, and no mode outlives it.
SingleUse ==
    \A c \in Context :
        LET used == {f \in Operation : once[c][f] # "none"} IN
        /\ Cardinality(used) <= 1
        /\ used # {} => mode[c] = "approve_diff"

\* "Completion records the exact outcome" of the execution that used the grant:
\* docs/authority-runtime.md:156.
OutcomeIsTheOwners ==
    \A c \in Context : \A f \in Operation :
        once[c][f] = "completed" => saved[c][f] = owner[c][f]
=============================================================================
